-------------------------- MODULE SessionStoreProofs --------------------------
(***************************************************************************)
(* Theorems about SessionStore.  The inductive invariant StoreInv says     *)
(* that both arrays are well typed, that the sessions in use are named and *)
(* that the cookie slots are doubly linked lists, one per used session     *)
(* (ChainInv); who owns a cookie slot and that walks end follow from it.   *)
(* The last part shows that the store implements SessionMap, for every     *)
(* size of its arrays: every step is the operation of the map whose status *)
(* it returns.                                                             *)
(***************************************************************************)
EXTENDS SessionStoreRefinement, StoreMapProofs

StoreInv == TypeOK /\ ChainInv /\ SessionsNamed

-----------------------------------------------------------------------------
(* The empty store is well linked.                                         *)
LEMMA InitInv == Init => StoreInv
<1> SUFFICES ASSUME Init PROVE StoreInv
  OBVIOUS
<1>1. UsedSessions(sessions) = {} /\ UsedCookies(cookies) = {}
  BY DEF Init, UsedSessions, UsedCookies, ClearedSession, ClearedCookie
<1>2. StoreTypeOK(sessions, cookies)
  BY ClearedTypes DEF Init, StoreTypeOK
<1>3. TypeOK
  BY <1>2 DEF TypeOK, Init, Result, Status, INVALID_SESSION_HANDLE
<1>4. ChainInv
  BY <1>1 DEF ChainInv, WellLinked, DoublyLinked, FreeCookiesCleared,
              AnchorsAreHeads, NoRing, Heads, Init
<1>5. SessionsNamed
  BY <1>1 DEF SessionsNamed
<1>6. QED BY <1>3, <1>4, <1>5 DEF StoreInv

(* Clearing a session slot leaves the others named.                        *)
LEMMA ClearKeepsNames ==
  ASSUME NEW h \in SessionSlot, StoreInv,
         sessions' = [sessions EXCEPT ![h] = ClearedSession]
  PROVE  SessionsNamed'
BY DEF StoreInv, TypeOK, StoreTypeOK, SessionsNamed, UsedSessions, ClearedSession

(* Every operation of the store keeps the invariant.                       *)
LEMMA NextInv == StoreInv /\ [Next]_vars => StoreInv'
<1> SUFFICES ASSUME StoreInv, [Next]_vars PROVE StoreInv'
  OBVIOUS
<1>a. /\ StoreTypeOK(sessions, cookies) /\ WellLinked(sessions, cookies)
      /\ SessionsNamed
      /\ now \in Nat
      /\ ret \in [status : Status,
                  handle : SessionSlot \cup {INVALID_SESSION_HANDLE}]
      /\ UsedSessions(sessions) \subseteq SessionSlot
  BY DEF StoreInv, TypeOK, ChainInv, UsedSessions
<1>b. ASSUME NEW status \in Status,
             NEW hd \in SessionSlot \cup {INVALID_SESSION_HANDLE}
      PROVE  Result(status, hd) \in
               [status : Status, handle : SessionSlot \cup {INVALID_SESSION_HANDLE}]
  BY DEF Result
<1>c. ASSUME StoreTypeOK(sessions', cookies'), WellLinked(sessions', cookies'),
             SessionsNamed', now' \in Nat,
             ret' \in [status : Status,
                       handle : SessionSlot \cup {INVALID_SESSION_HANDLE}]
      PROVE  StoreInv'
  BY <1>c DEF StoreInv, TypeOK, ChainInv
<1>d. /\ {"STATUS_OK", "STATUS_ENOEXIST", "STATUS_ESHMFULL"} \subseteq Status
      /\ INVALID_SESSION_HANDLE \in SessionSlot \cup {INVALID_SESSION_HANDLE}
  BY DEF Status
<1>1. CASE mshield_session_create
  <2>1. ASSUME NEW i \in SessionSlot, NEW sid \in FreshId, NEW uuid \in FreshUuid,
               CreateIn(i, sid, uuid)
        PROVE  StoreInv'
    <3>1. sid \in SessionId /\ uuid \in Uuid
      BY DEF FreshId, FreshUuid
    <3>2. StoreTypeOK(sessions', cookies') /\ WellLinked(sessions', cookies')
      BY <2>1, <3>1, <1>a, CreateKeepsStore DEF CreateIn
    <3>3. SessionsNamed'
      BY <2>1, <3>1, <1>a
         DEF CreateIn, SessionsAfterCreate, NewSession, SessionsNamed,
             UsedSessions, StoreTypeOK
    <3>4. QED BY <2>1, <3>2, <3>3, <1>a, <1>b, <1>c, <1>d DEF CreateIn
  <2>2. CASE CreateFull
    BY <2>2, <1>a, <1>b, <1>c, <1>d DEF CreateFull, SessionsNamed
  <2>3. QED BY <1>1, <2>1, <2>2 DEF mshield_session_create
<1>2. ASSUME NEW h \in UsedSessions(sessions),
             \/ mshield_session_unlink(h)
             \/ ValidateExpired(h)
      PROVE  StoreInv'
  <2>1. /\ cookies' = mshield_shm_free(cookies, sessions[h])
        /\ sessions' = [sessions EXCEPT ![h] = ClearedSession]
        /\ now' = now
        /\ ret' \in [status : Status,
                     handle : SessionSlot \cup {INVALID_SESSION_HANDLE}]
    BY <1>2, <1>b, <1>d DEF mshield_session_unlink, ValidateExpired
  <2>2. StoreTypeOK(sessions', cookies') /\ WellLinked(sessions', cookies')
    BY <2>1, <1>a, FreeKeepsStore
  <2>3. SessionsNamed'
    BY <2>1, <1>a, ClearKeepsNames
  <2>4. QED BY <2>1, <2>2, <2>3, <1>a, <1>c
<1>3. ASSUME NEW h \in UsedSessions(sessions),
             \/ ValidateOk(h)
             \/ LogonOk(h)
             \/ SetUsername(h)
      PROVE  StoreInv'
  <2>0. sessions[h] \in session_data_t /\ h \in SessionSlot
    BY <1>a DEF StoreTypeOK
  <2>1. /\ cookies' = cookies /\ now' = now /\ ret' = Result("STATUS_OK", h)
        /\ sessions' \in [SessionSlot -> session_data_t]
        /\ \A g \in SessionSlot :
             /\ sessions'[g].slot_used = sessions[g].slot_used
             /\ sessions'[g].cookiestore_index = sessions[g].cookiestore_index
             /\ sessions'[g].session_id = sessions[g].session_id
             /\ sessions'[g].uuid = sessions[g].uuid
    <3>1. CASE ValidateOk(h)
      BY <3>1, <2>0, <1>a DEF ValidateOk, StoreTypeOK, session_data_t
    <3>2. CASE LogonOk(h)
      BY <3>2, <2>0, <1>a DEF LogonOk, StoreTypeOK, session_data_t
    <3>3. CASE SetUsername(h)
      BY <3>3, <2>0, <1>a DEF SetUsername, StoreTypeOK, session_data_t
    <3>4. QED BY <1>3, <3>1, <3>2, <3>3
  <2>2. StoreTypeOK(sessions', cookies') /\ WellLinked(sessions', cookies')
    BY <2>1, <1>a, FieldsKeepStore
  <2>3. SessionsNamed'
    BY <2>1, <1>a DEF SessionsNamed, UsedSessions
  <2>4. QED BY <2>1, <2>2, <2>3, <1>a, <1>b, <1>c, <1>d
<1>4. ASSUME NEW h \in UsedSessions(sessions), mshield_session_set_cookie(h)
      PROVE  StoreInv'
  <2>0. sessions[h] \in session_data_t /\ h \in SessionSlot
    BY <1>a DEF StoreTypeOK
  <2> SUFFICES ASSUME NEW key \in CookieName, NEW locid \in Location,
                      NEW value \in CookieValue \cup {"deleted"},
                      \/ DeletedCookie(h, key, locid)
                      \/ /\ value \in CookieValue
                         /\ \/ UpdatedCookie(h, key, value, locid)
                            \/ AddedCookie(h, key, value, locid)
                      \/ CookieStoreFull(h, key, locid)
               PROVE  StoreInv'
    BY <1>4 DEF mshield_session_set_cookie
  <2> DEFINE c == get_cookie_index_by_name(cookies, Anchor(h), key, locid)
  <2>1. c # -1 => c \in Chain(cookies, Anchor(h)) /\ c \in UsedCookies(cookies)
    BY <1>a, FindInJar, JarInUse DEF Anchor, Matching, WellLinked
  <2> HIDE DEF c
  <2>2. CASE DeletedCookie(h, key, locid)
    <3>1. CASE c = -1
      <4>1. /\ sessions' = sessions /\ cookies' = cookies /\ now' = now
            /\ ret' = Result("STATUS_OK", h)
        BY <2>2, <3>1 DEF DeletedCookie, c
      <4>2. QED BY <4>1, <2>0, <1>a, <1>b, <1>c, <1>d DEF SessionsNamed
    <3>2. CASE c # -1
      <4>1. /\ sessions' = [sessions EXCEPT ![h].cookiestore_index =
                              AnchorAfterDelete(cookies, Anchor(h), c)]
            /\ cookies' = DeleteCookie(cookies, c)
            /\ now' = now /\ ret' = Result("STATUS_OK", h)
        BY <2>2, <3>2 DEF DeletedCookie, c
      <4>2. StoreTypeOK(sessions', cookies') /\ WellLinked(sessions', cookies')
        BY <4>1, <3>2, <2>1, <1>a, DeleteKeepsStore DEF Anchor
      <4>3. SessionsNamed'
        BY <4>1, <2>0, <1>a DEF SessionsNamed, UsedSessions, StoreTypeOK,
                                session_data_t
      <4>4. QED BY <4>1, <4>2, <4>3, <2>0, <1>a, <1>b, <1>c, <1>d
    <3>3. QED BY <3>1, <3>2
  <2>3. CASE value \in CookieValue /\ UpdatedCookie(h, key, value, locid)
    <3>1. /\ c # -1 /\ cookies' = [cookies EXCEPT ![c].value = value]
          /\ sessions' = sessions /\ now' = now
          /\ ret' = Result("STATUS_OK", h)
      BY <2>3 DEF UpdatedCookie, c
    <3>2. StoreTypeOK(sessions', cookies') /\ WellLinked(sessions', cookies')
      BY <3>1, <2>1, <2>3, <1>a, UpdateKeepsStore
    <3>3. QED BY <3>1, <3>2, <2>0, <1>a, <1>b, <1>c, <1>d DEF SessionsNamed
  <2>4. CASE value \in CookieValue /\ AddedCookie(h, key, value, locid)
    <3>1. PICK d \in CookieSlot :
            /\ FirstEmptyCookieSlot(cookies, d)
            /\ cookies' = AddCookie(cookies, Anchor(h), d, key, value, locid)
            /\ sessions' = [sessions EXCEPT ![h].cookiestore_index = d]
      BY <2>4 DEF AddedCookie
    <3>2. now' = now /\ ret' = Result("STATUS_OK", h)
      BY <2>4 DEF AddedCookie
    <3>3. d \in CookieSlot \ UsedCookies(cookies)
      BY <3>1 DEF FirstEmptyCookieSlot
    <3>4. StoreTypeOK(sessions', cookies') /\ WellLinked(sessions', cookies')
      BY <3>1, <3>3, <2>4, <1>a, AddKeepsStore DEF Anchor
    <3>5. SessionsNamed'
      BY <3>1, <2>0, <1>a DEF SessionsNamed, UsedSessions, StoreTypeOK,
                              session_data_t
    <3>6. QED BY <3>2, <3>4, <3>5, <2>0, <1>a, <1>b, <1>c, <1>d
  <2>5. CASE CookieStoreFull(h, key, locid)
    BY <2>5, <2>0, <1>a, <1>b, <1>c, <1>d DEF CookieStoreFull, SessionsNamed
  <2>6. QED BY <2>2, <2>3, <2>4, <2>5
<1>5. ASSUME NEW h \in UsedSessions(sessions), mshield_session_renew(h)
      PROVE  StoreInv'
  <2>0. h \in SessionSlot /\ sessions[h].uuid \in Uuid
    BY <1>a DEF SessionsNamed
  <2>1. ASSUME NEW i \in SessionSlot, NEW sid \in FreshId, RenewInto(h, i, sid)
        PROVE  StoreInv'
    <3>1. sid \in SessionId
      BY DEF FreshId
    <3>2. StoreTypeOK(sessions', cookies') /\ WellLinked(sessions', cookies')
      BY <2>0, <2>1, <3>1, <1>a, RenewKeepsStore DEF RenewInto
    <3>3. SessionsNamed'
      <4> DEFINE s0 == SessionsAfterCreate(sessions, i, sid, sessions[h].uuid, now)
      <4>1. /\ \A g \in SessionSlot :
                 s0[g] = IF g = i THEN NewSession(sid, sessions[h].uuid, now)
                         ELSE sessions[g]
            /\ DOMAIN s0 = SessionSlot
        BY <1>a DEF SessionsAfterCreate, StoreTypeOK
      <4>2. s0[h].uuid \in Uuid
        BY <4>1, <2>0 DEF NewSession
      <4>3. \A g \in SessionSlot :
              sessions'[g] = IF g = h THEN ClearedSession
                             ELSE IF g = i THEN CopyContent(s0[i], s0[h])
                             ELSE s0[g]
        BY <2>0, <2>1, <4>1 DEF RenewInto, SessionsAfterRenew
      <4>4. CopyContent(s0[i], s0[h]).session_id = sid
              /\ CopyContent(s0[i], s0[h]).uuid = s0[h].uuid
        BY <4>1 DEF CopyContent, NewSession
      <4>5. QED BY <4>1, <4>2, <4>3, <4>4, <3>1, <1>a
                 DEF SessionsNamed, UsedSessions, ClearedSession
    <3>4. QED BY <2>1, <3>2, <3>3, <1>a, <1>b, <1>c, <1>d DEF RenewInto
  <2>2. CASE RenewFull(h)
    BY <2>0, <2>2, <1>a, <1>b, <1>c, <1>d DEF RenewFull, SessionsNamed
  <2>3. QED BY <1>5, <2>1, <2>2 DEF mshield_session_renew
<1>6. CASE Tick
  BY <1>6, <1>a, <1>c DEF Tick, SessionsNamed
<1>7. CASE UNCHANGED vars
  BY <1>7, <1>a, <1>c DEF vars, SessionsNamed
<1>8. QED BY <1>1, <1>2, <1>3, <1>4, <1>5, <1>6, <1>7
           DEF Next, mshield_session_validate

(* The store invariant holds in every reachable state.                     *)
THEOREM StoreInvariant == Spec => []StoreInv
BY InitInv, NextInv, PTL DEF Spec

(* Both arrays, the clock and the results keep their types.                *)
THEOREM TypeCorrect == Spec => []TypeOK
<1>1. StoreInv => TypeOK
  BY DEF StoreInv
<1>2. QED BY <1>1, StoreInvariant, PTL

(* The cookie slots always are doubly linked lists, one per used session.  *)
THEOREM ChainsCorrect == Spec => []ChainInv
<1>1. StoreInv => ChainInv
  BY DEF StoreInv
<1>2. QED BY <1>1, StoreInvariant, PTL

(* No cookie slot leaks, and no two sessions share one.                    *)
THEOREM OwnershipCorrect == Spec => []CookieOwnership
<1>1. StoreInv => CookieOwnership
  BY JarsPartition
     DEF StoreInv, TypeOK, ChainInv, CookieOwnership, Jar, Anchor
<1>2. QED BY <1>1, StoreInvariant, PTL

(* Every walk along the cookies of a session ends, so that no operation    *)
(* holds the giant mutex forever.                                          *)
THEOREM WalksEnd == Spec => []ChainsEnd
<1>1. StoreInv => ChainsEnd
  BY WalkEnds DEF StoreInv, TypeOK, ChainInv, ChainsEnd, Jar, Anchor
<1>2. QED BY <1>1, StoreInvariant, PTL

-----------------------------------------------------------------------------
(* Identity and age of the sessions.  Seen from outside, a step keeps each *)
(* session in its slot, sets one up with a fresh id and UUID, or moves one *)
(* to another slot under a fresh id.                                       *)

Kept(g) ==
  /\ g \in UsedSessions(sessions)
  /\ sessions'[g].session_id = sessions[g].session_id
  /\ sessions'[g].uuid = sessions[g].uuid
  /\ sessions'[g].ctime = sessions[g].ctime
  /\ sessions'[g].atime \in {sessions[g].atime, now}

SetUp(i) ==
  /\ sessions'[i].session_id \in FreshId
  /\ sessions'[i].uuid \in FreshUuid
  /\ sessions'[i].atime = now

Moved(h, i) ==
  /\ i # h
  /\ ~ sessions'[h].slot_used
  /\ sessions'[i].session_id \in FreshId
  /\ sessions'[i].uuid = sessions[h].uuid
  /\ sessions'[i].ctime = sessions[h].ctime
  /\ sessions'[i].atime = sessions[h].atime

AllKept(S) == \A g \in UsedSessions(sessions') \ S : Kept(g)

(* Every step is of one of three kinds: it keeps all sessions that it      *)
(* leaves, or sets one up, or moves one.                                   *)
LEMMA StepEffect ==
  ASSUME StoreInv, [Next]_vars
  PROVE  /\ now' \in Nat /\ now' >= now
         /\ \/ AllKept({})
            \/ \E i \in SessionSlot : SetUp(i) /\ AllKept({i})
            \/ \E h \in UsedSessions(sessions), i \in SessionSlot :
                 Moved(h, i) /\ AllKept({i})
<1>a. /\ sessions \in [SessionSlot -> session_data_t]
      /\ now \in Nat
      /\ UsedSessions(sessions) \subseteq SessionSlot
      /\ UsedSessions(sessions') \subseteq SessionSlot
  BY DEF StoreInv, TypeOK, StoreTypeOK, UsedSessions
<1>1. ASSUME sessions' = sessions PROVE AllKept({})
  BY <1>1, <1>a DEF AllKept, Kept
<1>2. ASSUME NEW i \in SessionSlot, NEW sid \in FreshId, NEW uuid \in FreshUuid,
             CreateIn(i, sid, uuid)
      PROVE  SetUp(i) /\ AllKept({i})
  <2>1. \A g \in SessionSlot :
          sessions'[g] = IF g = i THEN NewSession(sid, uuid, now) ELSE sessions[g]
    BY <1>2, <1>a DEF CreateIn, SessionsAfterCreate
  <2>2. QED BY <2>1, <1>a DEF SetUp, AllKept, Kept, NewSession, UsedSessions
<1>3. ASSUME NEW h \in UsedSessions(sessions),
             \/ mshield_session_unlink(h)
             \/ ValidateExpired(h)
      PROVE  AllKept({})
  <2>1. \A g \in SessionSlot :
          sessions'[g] = IF g = h THEN ClearedSession ELSE sessions[g]
    BY <1>3, <1>a DEF mshield_session_unlink, ValidateExpired
  <2>2. QED BY <2>1, <1>a DEF AllKept, Kept, ClearedSession, UsedSessions
<1>4. ASSUME NEW h \in UsedSessions(sessions),
             \/ ValidateOk(h)
             \/ mshield_session_set_cookie(h)
             \/ LogonOk(h)
             \/ SetUsername(h)
      PROVE  AllKept({})
  <2>1. sessions[h] \in session_data_t
    BY <1>a
  <2>2. \A g \in SessionSlot :
          /\ sessions'[g].slot_used = sessions[g].slot_used
          /\ sessions'[g].session_id = sessions[g].session_id
          /\ sessions'[g].uuid = sessions[g].uuid
          /\ sessions'[g].ctime = sessions[g].ctime
          /\ sessions'[g].atime \in {sessions[g].atime, now}
    <3>1. CASE ValidateOk(h)
      BY <3>1, <2>1, <1>a DEF ValidateOk, session_data_t
    <3>2. CASE LogonOk(h)
      BY <3>2, <2>1, <1>a DEF LogonOk, session_data_t
    <3>3. CASE SetUsername(h)
      BY <3>3, <2>1, <1>a DEF SetUsername, session_data_t
    <3>4. CASE mshield_session_set_cookie(h)
      <4>1. \/ sessions' = sessions
            \/ \E c : sessions' = [sessions EXCEPT ![h].cookiestore_index = c]
        BY <3>4 DEF mshield_session_set_cookie, DeletedCookie, UpdatedCookie,
                    AddedCookie, CookieStoreFull
      <4>2. QED BY <4>1, <2>1, <1>a DEF session_data_t
    <3>5. QED BY <1>4, <3>1, <3>2, <3>3, <3>4
  <2>3. QED BY <2>2, <1>a DEF AllKept, Kept, UsedSessions
<1>5. ASSUME NEW h \in UsedSessions(sessions), NEW i \in SessionSlot,
             NEW sid \in FreshId, RenewInto(h, i, sid)
      PROVE  AllKept({}) \/ (Moved(h, i) /\ AllKept({i}))
  <2> DEFINE s0 == SessionsAfterCreate(sessions, i, sid, sessions[h].uuid, now)
  <2>1. /\ \A g \in SessionSlot :
             s0[g] = IF g = i THEN NewSession(sid, sessions[h].uuid, now)
                     ELSE sessions[g]
        /\ DOMAIN s0 = SessionSlot
    BY <1>a DEF SessionsAfterCreate
  <2>2. \A g \in SessionSlot :
          sessions'[g] = IF g = h THEN ClearedSession
                         ELSE IF g = i THEN CopyContent(s0[i], s0[h])
                         ELSE s0[g]
    BY <1>5, <1>a, <2>1 DEF RenewInto, SessionsAfterRenew
  <2>3. CASE i = h
    BY <2>1, <2>2, <2>3, <1>a DEF AllKept, Kept, ClearedSession, UsedSessions
  <2>4. CASE i # h
    <3>1. /\ CopyContent(s0[i], s0[h]).session_id = sid
          /\ CopyContent(s0[i], s0[h]).uuid = s0[h].uuid
          /\ CopyContent(s0[i], s0[h]).ctime = s0[h].ctime
          /\ CopyContent(s0[i], s0[h]).atime = s0[h].atime
      BY <2>1 DEF CopyContent, NewSession
    <3>2. s0[h] = sessions[h]
      BY <2>1, <2>4, <1>a
    <3>3. Moved(h, i)
      BY <2>2, <2>4, <3>1, <3>2, <1>a DEF Moved, ClearedSession
    <3>4. AllKept({i})
      BY <2>1, <2>2, <1>a DEF AllKept, Kept, ClearedSession, UsedSessions
    <3>5. QED BY <3>3, <3>4
  <2>5. QED BY <2>3, <2>4
<1>6. CASE mshield_session_create
  <2>1. CASE CreateFull
    <3>1. sessions' = sessions /\ now' = now
      BY <2>1 DEF CreateFull
    <3>2. AllKept({})
      BY <3>1, <1>1
    <3>3. QED BY <3>1, <3>2, <1>a
  <2>2. CASE ~ CreateFull
    <3>1. PICK i \in SessionSlot, sid \in FreshId, uuid \in FreshUuid :
            CreateIn(i, sid, uuid)
      BY <1>6, <2>2 DEF mshield_session_create
    <3>2. now' = now
      BY <3>1 DEF CreateIn
    <3>3. QED BY <3>1, <3>2, <1>2, <1>a
  <2>3. QED BY <2>1, <2>2
<1>7. ASSUME NEW h \in UsedSessions(sessions), mshield_session_renew(h)
      PROVE  /\ now' = now
             /\ \/ AllKept({})
                \/ \E i \in SessionSlot : Moved(h, i) /\ AllKept({i})
  <2>1. CASE RenewFull(h)
    BY <2>1, <1>a DEF RenewFull, AllKept, Kept
  <2>2. CASE ~ RenewFull(h)
    <3>1. PICK i \in SessionSlot, sid \in FreshId : RenewInto(h, i, sid)
      BY <1>7, <2>2 DEF mshield_session_renew
    <3>2. now' = now
      BY <3>1 DEF RenewInto
    <3>3. QED BY <3>1, <3>2, <1>5
  <2>3. QED BY <2>1, <2>2
<1>8. ASSUME NEW h \in UsedSessions(sessions),
             \/ mshield_session_unlink(h)
             \/ mshield_session_validate(h)
             \/ mshield_session_set_cookie(h)
             \/ LogonOk(h)
             \/ SetUsername(h)
      PROVE  now' = now /\ AllKept({})
  <2>1. now' = now
    BY <1>8 DEF mshield_session_unlink, mshield_session_validate, ValidateOk,
                ValidateExpired, mshield_session_set_cookie, DeletedCookie,
                UpdatedCookie, AddedCookie, CookieStoreFull, LogonOk, SetUsername
  <2>2. QED BY <2>1, <1>8, <1>3, <1>4 DEF mshield_session_validate
<1>9. CASE Tick
  <2>1. sessions' = sessions /\ now' = now + 1
    BY <1>9 DEF Tick
  <2>2. QED BY <2>1, <1>1, <1>a
<1>10. CASE UNCHANGED vars
  <2>1. sessions' = sessions /\ now' = now
    BY <1>10 DEF vars
  <2>2. QED BY <2>1, <1>1, <1>a
<1>11. ASSUME NEW h \in UsedSessions(sessions),
              \/ mshield_session_unlink(h)
              \/ mshield_session_validate(h)
              \/ mshield_session_set_cookie(h)
              \/ mshield_session_renew(h)
              \/ LogonOk(h)
              \/ SetUsername(h)
       PROVE  /\ now' = now
              /\ \/ AllKept({})
                 \/ \E i \in SessionSlot : Moved(h, i) /\ AllKept({i})
  <2>1. CASE mshield_session_renew(h)
    BY <2>1, <1>7
  <2>2. CASE ~ mshield_session_renew(h)
    BY <2>2, <1>8, <1>11
  <2>3. QED BY <2>1, <2>2
<1>12. CASE \E h \in UsedSessions(sessions) :
              \/ mshield_session_unlink(h)
              \/ mshield_session_validate(h)
              \/ mshield_session_set_cookie(h)
              \/ mshield_session_renew(h)
              \/ LogonOk(h)
              \/ SetUsername(h)
  <2>1. PICK h \in UsedSessions(sessions) :
          \/ mshield_session_unlink(h)
          \/ mshield_session_validate(h)
          \/ mshield_session_set_cookie(h)
          \/ mshield_session_renew(h)
          \/ LogonOk(h)
          \/ SetUsername(h)
    BY <1>12
  <2>2. /\ now' = now
        /\ \/ AllKept({})
           \/ \E i \in SessionSlot : Moved(h, i) /\ AllKept({i})
    BY <2>1, <1>11
  <2>3. now' \in Nat /\ now' >= now
    BY <2>2, <1>a
  <2>4. QED BY <2>2, <2>3, Zenon
<1>13. QED BY <1>6, <1>9, <1>10, <1>12 DEF Next

(* Sessions are distinct and were used no later than now.                  *)
AgesInv ==
  /\ SessionsDistinct
  /\ \A h \in UsedSessions(sessions) : sessions[h].atime <= now

(* A step keeps ids, UUIDs and ages apart, and no ctime moves.             *)
LEMMA AgesStep ==
  ASSUME StoreInv, StoreInv', AgesInv, [Next]_vars
  PROVE  /\ AgesInv'
         /\ \A g \in UsedSessions(sessions), h \in UsedSessions(sessions') :
              sessions[g].uuid = sessions'[h].uuid =>
                /\ sessions'[h].ctime = sessions[g].ctime
                /\ sessions'[h].atime >= sessions[g].atime
<1>a. /\ now \in Nat /\ now' \in Nat /\ now' >= now
      /\ \A g \in UsedSessions(sessions) : sessions[g].atime \in Nat
  BY StepEffect DEF StoreInv, TypeOK, StoreTypeOK, UsedSessions, session_data_t
<1>b. /\ \A g, h \in UsedSessions(sessions) : g # h =>
           /\ sessions[g].session_id # sessions[h].session_id
           /\ sessions[g].uuid # sessions[h].uuid
      /\ \A h \in UsedSessions(sessions) : sessions[h].atime <= now
  BY DEF AgesInv, SessionsDistinct
<1>c. /\ \A g \in UsedSessions(sessions) : sessions[g].session_id \notin FreshId
      /\ \A g \in UsedSessions(sessions) : sessions[g].uuid \notin FreshUuid
  BY DEF FreshId, FreshUuid
<1> DEFINE Goal ==
      /\ \A g, h \in UsedSessions(sessions') : g # h =>
           /\ sessions'[g].session_id # sessions'[h].session_id
           /\ sessions'[g].uuid # sessions'[h].uuid
      /\ \A h \in UsedSessions(sessions') : sessions'[h].atime <= now'
      /\ \A g \in UsedSessions(sessions), h \in UsedSessions(sessions') :
           sessions[g].uuid = sessions'[h].uuid =>
             /\ sessions'[h].ctime = sessions[g].ctime
             /\ sessions'[h].atime >= sessions[g].atime
<1>1. CASE AllKept({})
  <2>1. Goal
    BY <1>1, <1>a, <1>b DEF AllKept, Kept
  <2>2. QED BY <2>1 DEF AgesInv, SessionsDistinct
<1>2. ASSUME NEW i \in SessionSlot, SetUp(i), AllKept({i})
      PROVE  Goal
  BY <1>2, <1>a, <1>b, <1>c DEF AllKept, Kept, SetUp
<1>3. ASSUME NEW h \in UsedSessions(sessions), NEW i \in SessionSlot,
             Moved(h, i), AllKept({i})
      PROVE  Goal
  <2>1. h \notin UsedSessions(sessions')
    BY <1>3 DEF Moved, UsedSessions
  <2>2. QED BY <2>1, <1>3, <1>a, <1>b, <1>c DEF AllKept, Kept, Moved
<1>4. QED
  <2>1. Goal
    BY <1>1, <1>2, <1>3, StepEffect DEF AgesInv, SessionsDistinct
  <2>2. QED BY <2>1 DEF AgesInv, SessionsDistinct

(* There is no session at first.                                           *)
LEMMA AgesInit == Init => AgesInv
BY DEF Init, AgesInv, SessionsDistinct, UsedSessions, ClearedSession

(* No two sessions in use share a session id or a UUID.                    *)
THEOREM DistinctCorrect == Spec => []SessionsDistinct
<1>1. StoreInv /\ AgesInv /\ [Next]_vars => (StoreInv /\ AgesInv)'
  BY NextInv, AgesStep
<1>2. AgesInv => SessionsDistinct
  BY DEF AgesInv
<1>3. QED BY <1>1, <1>2, InitInv, AgesInit, PTL DEF Spec

(* A session's hard timeout counts from its creation, whatever happens.    *)
THEOREM HardTimeoutCorrect == Spec => HardTimeoutKept
<1>1. StoreInv /\ AgesInv /\ [Next]_vars => (StoreInv /\ AgesInv)'
  BY NextInv, AgesStep
<1>2. StoreInv /\ AgesInv /\ [Next]_vars =>
        [\A g \in UsedSessions(sessions), h \in UsedSessions(sessions') :
           sessions[g].uuid = sessions'[h].uuid =>
             /\ sessions'[h].ctime = sessions[g].ctime
             /\ sessions'[h].atime >= sessions[g].atime]_vars
  BY NextInv, AgesStep
<1>3. QED BY <1>1, <1>2, InitInv, AgesInit, PTL DEF Spec, HardTimeoutKept

-----------------------------------------------------------------------------
(* Keys.  What makes OneCookiePerKey inductive is that every step leaves a *)
(* jar as it is, with fewer cookies, with another value, or with one more  *)
(* cookie under a key that the look-up before it did not find.             *)

Keys == KeysInv(sessions, cookies)

(* There is no cookie at first.                                            *)
LEMMA KeysInit == Init => Keys
BY DEF Init, Keys, KeysInv, CookiesNamed, KeysApart, UsedSessions, UsedCookies,
       ClearedSession, ClearedCookie

(* mshield_session_set_cookie keeps keys apart.                            *)
LEMMA SetCookieKeepsKeys ==
  ASSUME StoreInv, Keys, NEW h \in UsedSessions(sessions),
         mshield_session_set_cookie(h)
  PROVE  Keys'
<1>a. /\ StoreTypeOK(sessions, cookies) /\ WellLinked(sessions, cookies)
      /\ KeysInv(sessions, cookies)
  BY DEF StoreInv, TypeOK, ChainInv, Keys
<1> SUFFICES ASSUME NEW key \in CookieName, NEW locid \in Location,
                    NEW value \in CookieValue \cup {"deleted"},
                    \/ DeletedCookie(h, key, locid)
                    \/ /\ value \in CookieValue
                       /\ \/ UpdatedCookie(h, key, value, locid)
                          \/ AddedCookie(h, key, value, locid)
                    \/ CookieStoreFull(h, key, locid)
             PROVE  Keys'
  BY DEF mshield_session_set_cookie
<1> DEFINE c == get_cookie_index_by_name(cookies, Anchor(h), key, locid)
<1>1. /\ c = -1 => Matching(cookies, Anchor(h), key, locid) = {}
      /\ c # -1 => /\ c \in Matching(cookies, Anchor(h), key, locid)
                   /\ c \in JarOf(sessions, cookies, h)
                   /\ c \in UsedCookies(cookies)
  BY <1>a, FindInJar, JarsFacts DEF Anchor, JarOf, Matching
<1> HIDE DEF c
<1>2. CASE sessions' = sessions /\ cookies' = cookies
  BY <1>2 DEF Keys
<1>3. CASE DeletedCookie(h, key, locid) /\ c # -1
  <2>1. /\ sessions' = [sessions EXCEPT ![h].cookiestore_index =
                          AnchorAfterDelete(cookies, sessions[h].cookiestore_index, c)]
        /\ cookies' = DeleteCookie(cookies, c)
    BY <1>3 DEF DeletedCookie, Anchor, c
  <2>2. QED BY <2>1, <1>1, <1>3, <1>a, DeleteKeepsKeys DEF Keys
<1>4. CASE value \in CookieValue /\ UpdatedCookie(h, key, value, locid)
  <2>1. /\ c # -1 /\ cookies' = [cookies EXCEPT ![c].value = value]
        /\ sessions' = sessions
    BY <1>4 DEF UpdatedCookie, c
  <2>2. QED BY <2>1, <1>1, <1>4, <1>a, UpdateKeepsKeys DEF Keys
<1>5. CASE value \in CookieValue /\ AddedCookie(h, key, value, locid)
  <2>1. PICK d \in CookieSlot :
          /\ FirstEmptyCookieSlot(cookies, d)
          /\ cookies' = AddCookie(cookies, sessions[h].cookiestore_index, d,
                                  key, value, locid)
          /\ sessions' = [sessions EXCEPT ![h].cookiestore_index = d]
    BY <1>5 DEF AddedCookie, Anchor
  <2>2. /\ d \in CookieSlot \ UsedCookies(cookies)
        /\ Matching(cookies, sessions[h].cookiestore_index, key, locid) = {}
    BY <2>1, <1>1, <1>5 DEF FirstEmptyCookieSlot, AddedCookie, Anchor, c
  <2>3. QED BY <2>1, <2>2, <1>5, <1>a, AddKeepsKeys DEF Keys
<1>6. CASE CookieStoreFull(h, key, locid) \/ (DeletedCookie(h, key, locid) /\ c = -1)
  BY <1>2, <1>6 DEF CookieStoreFull, DeletedCookie, c
<1>7. QED BY <1>3, <1>4, <1>5, <1>6

(* Every operation of the store keeps keys apart.                          *)
LEMMA KeysStep == StoreInv /\ Keys /\ [Next]_vars => Keys'
<1> SUFFICES ASSUME StoreInv, Keys, [Next]_vars PROVE Keys'
  OBVIOUS
<1>a. /\ StoreTypeOK(sessions, cookies) /\ WellLinked(sessions, cookies)
      /\ KeysInv(sessions, cookies) /\ now \in Nat
      /\ sessions \in [SessionSlot -> session_data_t]
      /\ \A h \in UsedSessions(sessions) :
           /\ h \in SessionSlot
           /\ sessions[h] \in session_data_t
           /\ sessions[h].uuid \in Uuid
  BY DEF StoreInv, TypeOK, ChainInv, SessionsNamed, Keys, StoreTypeOK, UsedSessions
<1>1. CASE sessions' = sessions /\ cookies' = cookies
  BY <1>1 DEF Keys
<1>2. ASSUME NEW i \in SessionSlot, NEW sid \in FreshId, NEW uuid \in FreshUuid,
             CreateIn(i, sid, uuid)
      PROVE  Keys'
  <2>1. sid \in SessionId /\ uuid \in Uuid
    BY DEF FreshId, FreshUuid
  <2>2. QED BY <2>1, <1>2, <1>a, CreateKeepsKeys DEF CreateIn, Keys
<1>3. ASSUME NEW h \in UsedSessions(sessions),
             mshield_session_unlink(h) \/ ValidateExpired(h)
      PROVE  Keys'
  <2>1. /\ cookies' = mshield_shm_free(cookies, sessions[h])
        /\ sessions' = [sessions EXCEPT ![h] = ClearedSession]
    BY <1>3 DEF mshield_session_unlink, ValidateExpired
  <2>2. QED BY <2>1, <1>a, FreeKeepsKeys DEF Keys
<1>4. ASSUME NEW h \in UsedSessions(sessions),
             ValidateOk(h) \/ LogonOk(h) \/ SetUsername(h)
      PROVE  Keys'
  <2>1. /\ cookies' = cookies
        /\ sessions' \in [SessionSlot -> session_data_t]
        /\ \A g \in SessionSlot :
             /\ sessions'[g].slot_used = sessions[g].slot_used
             /\ sessions'[g].cookiestore_index = sessions[g].cookiestore_index
    <3>1. CASE ValidateOk(h)
      BY <3>1, <1>a DEF ValidateOk, session_data_t
    <3>2. CASE LogonOk(h)
      BY <3>2, <1>a DEF LogonOk, session_data_t
    <3>3. CASE SetUsername(h)
      BY <3>3, <1>a DEF SetUsername, session_data_t
    <3>4. QED BY <1>4, <3>1, <3>2, <3>3
  <2>2. QED BY <2>1, <1>a, FieldsKeepKeys DEF Keys
<1>5. ASSUME NEW h \in UsedSessions(sessions), NEW i \in SessionSlot,
             NEW sid \in FreshId, RenewInto(h, i, sid)
      PROVE  Keys'
  <2>1. sid \in SessionId
    BY DEF FreshId
  <2>2. QED BY <2>1, <1>5, <1>a, RenewKeepsKeys DEF RenewInto, Keys
<1>6. ASSUME CreateFull \/ Tick \/ UNCHANGED vars
             \/ \E h \in UsedSessions(sessions) : RenewFull(h)
      PROVE  Keys'
  BY <1>1, <1>6 DEF CreateFull, Tick, RenewFull, vars
<1>7. QED
  BY <1>2, <1>3, <1>4, <1>5, <1>6, SetCookieKeepsKeys
     DEF Next, mshield_session_create, mshield_session_validate,
         mshield_session_renew

(* No session has two cookies of a name and a location.                    *)
THEOREM OneCookieCorrect == Spec => []OneCookiePerKey
<1>1. StoreInv /\ Keys /\ [Next]_vars => (StoreInv /\ Keys)'
  BY NextInv, KeysStep
<1>2. Keys => OneCookiePerKey
  BY DEF Keys, KeysInv, KeysApart, SameKey, OneCookiePerKey, Jar, JarOf, Anchor
<1>3. QED BY <1>1, <1>2, InitInv, KeysInit, PTL DEF Spec

-----------------------------------------------------------------------------
(* The map.  What each operation writes is one of the ways of StoreMapProofs. *)

MapInv == StoreInv /\ AgesInv /\ Keys

(* It says what the map needs.                                             *)
LEMMA MapInvOK == MapInv => MapOK
BY DEF MapInv, StoreInv, TypeOK, ChainInv, SessionsNamed, AgesInv,
       SessionsDistinct, Keys, MapOK, StoreOK, UuidsApart

(* So it does of the next state.                                           *)
LEMMA MapInvNext == ASSUME MapInv' PROVE MapOK'
BY DEF MapInv, StoreInv, TypeOK, ChainInv, SessionsNamed, AgesInv,
       SessionsDistinct, Keys, MapOK, StoreOK, UuidsApart

(* The session with this UUID has an operation of the map, with a status.  *)
Operates(u) ==
  \/ /\ ret'.status = "STATUS_OK"
     /\ \/ Map!Unlink(u) \/ Map!Validate(u) \/ Map!SetCookie(u)
        \/ Map!Renew(u) \/ Map!Logon(u)
  \/ ret'.status = "STATUS_ENOEXIST" /\ Map!Drop(u)
  \/ ret'.status = "STATUS_ESHMFULL" /\ (Map!Full \/ Map!NoRoom(u))

(* That is an operation with the status the store returned.                *)
LEMMA OperatesIs ==
  ASSUME NEW u \in Map!Exists, Operates(u), now' = now
  PROVE  Map!Operation(ret'.status)
BY DEF Operates, Map!Operation, Map!Returning

(* A new session, or a store that is full.                                 *)
LEMMA CreateIs ==
  ASSUME MapInv, MapInv', mshield_session_create
  PROVE  Map!Operation(ret'.status)
<1>a. MapOK /\ MapOK'
  BY MapInvOK, MapInvNext
<1>1. ASSUME NEW i \in SessionSlot, NEW sid \in FreshId, NEW uuid \in FreshUuid,
             CreateIn(i, sid, uuid)
      PROVE  Map!Operation(ret'.status)
  <2>1. uuid \in Uuid \ Uuids(sessions)
    BY DEF FreshUuid, Uuids
  <2>2. Map!Create
    BY <1>1, <1>a, <2>1, CreateMaps DEF CreateIn, CreatesIn
  <2>3. ret'.status = "STATUS_OK" /\ now' = now
    BY <1>1 DEF CreateIn, Result
  <2>4. QED BY <2>2, <2>3 DEF Map!Operation, Map!Returning
<1>2. CASE CreateFull
  <2>1. Map!Full
    BY <1>2, <1>a, FullMaps DEF CreateFull
  <2>2. ret'.status = "STATUS_ESHMFULL" /\ now' = now
    BY <1>2 DEF CreateFull, Result
  <2>3. QED BY <2>1, <2>2 DEF Map!Operation, Map!Returning
<1>3. QED BY <1>1, <1>2 DEF mshield_session_create

(* The end of a session, by logout or by its timeout; a session in time.   *)
LEMMA ValidateIs ==
  ASSUME MapInv, MapInv', NEW h \in UsedSessions(sessions),
         mshield_session_unlink(h) \/ mshield_session_validate(h)
  PROVE  Operates(sessions[h].uuid) /\ now' = now
<1>a. MapOK /\ MapOK'
  BY MapInvOK, MapInvNext
<1>1. CASE mshield_session_unlink(h)
  <2>1. Frees(h) /\ ret'.status = "STATUS_OK" /\ now' = now
    BY <1>1 DEF mshield_session_unlink, Result, Frees
  <2>2. QED BY <2>1, <1>a, UnlinkMaps DEF Operates
<1>2. CASE ValidateExpired(h)
  <2>1. Frees(h) /\ ret'.status = "STATUS_ENOEXIST" /\ now' = now
    BY <1>2 DEF ValidateExpired, Result, Frees
  <2>2. mshield_shm_timeout(sessions[h], now)
    BY <1>2 DEF ValidateExpired
  <2>3. QED BY <2>1, <2>2, <1>a, UnlinkMaps DEF Operates
<1>3. CASE ValidateOk(h)
  <2>1. Accesses(h) /\ ret'.status = "STATUS_OK" /\ now' = now
    BY <1>3 DEF ValidateOk, Result, Accesses
  <2>2. ~ mshield_shm_timeout(sessions[h], now)
    BY <1>3 DEF ValidateOk
  <2>3. QED BY <2>1, <2>2, <1>a, ValidateMaps DEF Operates
<1>4. QED BY <1>1, <1>2, <1>3 DEF mshield_session_validate

(* LOGON=ok and the user name.                                             *)
LEMMA LogonIs ==
  ASSUME MapInv, MapInv', NEW h \in UsedSessions(sessions),
         LogonOk(h) \/ SetUsername(h)
  PROVE  Operates(sessions[h].uuid) /\ now' = now
<1>a. MapOK /\ MapOK'
  BY MapInvOK, MapInvNext
<1>b. ret'.status = "STATUS_OK" /\ now' = now
  BY DEF LogonOk, SetUsername, Result
<1>1. CASE LogonOk(h)
  <2>1. LogsOn(h)
    BY <1>1 DEF LogonOk, LogsOn
  <2>2. QED BY <2>1, <1>a, <1>b, LogonMaps DEF Operates
<1>2. CASE SetUsername(h)
  <2>1. PICK name \in UserName : Names(h, name)
    BY <1>2 DEF SetUsername, Names
  <2>2. sessions[h].logon_state = 1
    BY <1>2 DEF SetUsername
  <2>3. QED BY <2>1, <2>2, <1>a, <1>b, UsernameMaps DEF Operates
<1>3. QED BY <1>1, <1>2

(* The branches of store_cookie_into_session.                              *)
LEMMA SetCookieIs ==
  ASSUME MapInv, MapInv', NEW h \in UsedSessions(sessions),
         mshield_session_set_cookie(h)
  PROVE  Operates(sessions[h].uuid) /\ now' = now
<1>a. MapOK /\ MapOK'
  BY MapInvOK, MapInvNext
<1>1. PICK key \in CookieName, locid \in Location :
        \/ DeletedCookie(h, key, locid)
        \/ \E value \in CookieValue : \/ UpdatedCookie(h, key, value, locid)
                                      \/ AddedCookie(h, key, value, locid)
        \/ CookieStoreFull(h, key, locid)
  BY DEF mshield_session_set_cookie
<1>2. PICK c : c = IndexOf(h, key, locid)
  OBVIOUS
<1>3. CASE DeletedCookie(h, key, locid)
  <2>1. ret'.status = "STATUS_OK" /\ now' = now
    BY <1>3 DEF DeletedCookie, Result
  <2>2. CASE c = -1
    <3>1. sessions' = sessions /\ cookies' = cookies
      BY <1>2, <1>3, <2>2 DEF DeletedCookie, IndexOf, Anchor
    <3>2. Map!SetCookie(sessions[h].uuid)
      BY <1>2, <2>2, <3>1, <1>a, AbsentMaps
    <3>3. QED BY <2>1, <3>2 DEF Operates
  <2>3. CASE c # -1
    <3>1. Deletes(h, c)
      BY <1>2, <1>3, <2>3 DEF DeletedCookie, IndexOf, Anchor, Deletes
    <3>2. Map!SetCookie(sessions[h].uuid)
      BY <1>2, <2>3, <3>1, <1>a, DeletedMaps
    <3>3. QED BY <2>1, <3>2 DEF Operates
  <2>4. QED BY <2>2, <2>3
<1>4. ASSUME NEW value \in CookieValue, UpdatedCookie(h, key, value, locid)
      PROVE  Operates(sessions[h].uuid) /\ now' = now
  <2>1. /\ c # -1 /\ Updates(c, value)
        /\ ret'.status = "STATUS_OK" /\ now' = now
    BY <1>2, <1>4 DEF UpdatedCookie, IndexOf, Anchor, Updates, Result
  <2>2. Map!SetCookie(sessions[h].uuid)
    BY <1>2, <2>1, <1>a, UpdatedMaps
  <2>3. QED BY <2>1, <2>2 DEF Operates
<1>5. ASSUME NEW value \in CookieValue, AddedCookie(h, key, value, locid)
      PROVE  Operates(sessions[h].uuid) /\ now' = now
  <2>1. PICK d \in CookieSlot : Adds(h, d, key, value, locid)
    BY <1>5 DEF AddedCookie, Anchor, Adds
  <2>2. /\ IndexOf(h, key, locid) = -1
        /\ ret'.status = "STATUS_OK" /\ now' = now
    BY <1>5 DEF AddedCookie, IndexOf, Anchor, Result
  <2>3. Map!SetCookie(sessions[h].uuid)
    BY <2>1, <2>2, <1>a, AddedMaps
  <2>4. QED BY <2>2, <2>3 DEF Operates
<1>6. CASE CookieStoreFull(h, key, locid)
  <2>1. /\ IndexOf(h, key, locid) = -1 /\ UsedCookies(cookies) = CookieSlot
        /\ sessions' = sessions /\ cookies' = cookies
        /\ ret'.status = "STATUS_ESHMFULL" /\ now' = now
    BY <1>6 DEF CookieStoreFull, IndexOf, Anchor, Result
  <2>2. Map!NoRoom(sessions[h].uuid)
    BY <2>1, <1>a, NoRoomMaps
  <2>3. QED BY <2>1, <2>2 DEF Operates
<1>7. QED BY <1>1, <1>3, <1>4, <1>5, <1>6

(* A renewal, if only one that falls short, or a store that is full.       *)
LEMMA RenewIs ==
  ASSUME MapInv, MapInv', NEW h \in UsedSessions(sessions),
         mshield_session_renew(h)
  PROVE  /\ now' = now
         /\ \/ /\ ret'.status = "STATUS_OK"
               /\ Map!Renew(sessions[h].uuid) \/ RenewFallsShort(sessions[h].uuid)
            \/ ret'.status = "STATUS_ESHMFULL" /\ Map!Full
<1>a. MapOK /\ MapOK'
  BY MapInvOK, MapInvNext
<1>1. ASSUME NEW i \in SessionSlot, NEW sid \in FreshId, RenewInto(h, i, sid)
      PROVE  /\ now' = now /\ ret'.status = "STATUS_OK"
             /\ Map!Renew(sessions[h].uuid) \/ RenewFallsShort(sessions[h].uuid)
  <2>1. RenewsInto(h, i, sid) /\ ret'.status = "STATUS_OK" /\ now' = now
    BY <1>1 DEF RenewInto, RenewsInto, Result
  <2>2. QED BY <2>1, <1>a, RenewMaps
<1>2. CASE RenewFull(h)
  <2>1. Map!Full
    BY <1>2, <1>a, FullMaps DEF RenewFull
  <2>2. ret'.status = "STATUS_ESHMFULL" /\ now' = now
    BY <1>2 DEF RenewFull, Result
  <2>3. QED BY <2>1, <2>2
<1>3. QED BY <1>1, <1>2 DEF mshield_session_renew

(* A renewal that falls short of the map's.                                *)
RenewsShort ==
  /\ \E u \in Map!Exists : RenewFallsShort(u)
  /\ ret'.status = "STATUS_OK" /\ now' = now

(* Every step of the store is the operation of the map with its status, a  *)
(* renewal that falls short of one, or a step of the clock.                *)
LEMMA StepMaps ==
  ASSUME MapInv, MapInv', Next
  PROVE  Map!Operation(ret'.status) \/ RenewsShort \/ (Map!Tick /\ ret' = ret)
<1>1. CASE mshield_session_create
  BY <1>1, CreateIs
<1>a. \A h \in UsedSessions(sessions) : sessions[h].uuid \in Map!Exists
  BY MapInvOK, MapFacts
<1>2. ASSUME NEW h \in UsedSessions(sessions),
             \/ mshield_session_unlink(h)
             \/ mshield_session_validate(h)
             \/ mshield_session_set_cookie(h)
             \/ LogonOk(h)
             \/ SetUsername(h)
      PROVE  Map!Operation(ret'.status)
  <2>1. Operates(sessions[h].uuid) /\ now' = now
    BY <1>2, ValidateIs, SetCookieIs, LogonIs
  <2>2. QED BY <2>1, <1>a, OperatesIs
<1>3. ASSUME NEW h \in UsedSessions(sessions), mshield_session_renew(h)
      PROVE  Map!Operation(ret'.status) \/ RenewsShort
  <2> DEFINE u == sessions[h].uuid
  <2>1. /\ now' = now
        /\ \/ ret'.status = "STATUS_OK" /\ (Map!Renew(u) \/ RenewFallsShort(u))
           \/ ret'.status = "STATUS_ESHMFULL" /\ Map!Full
    BY <1>3, RenewIs
  <2>2. u \in Map!Exists
    BY <1>a
  <2> HIDE DEF u
  <2>3. CASE ret'.status = "STATUS_OK" /\ RenewFallsShort(u)
    BY <2>1, <2>2, <2>3 DEF RenewsShort
  <2>4. CASE \/ ret'.status = "STATUS_OK" /\ Map!Renew(u)
             \/ ret'.status = "STATUS_ESHMFULL" /\ Map!Full
    BY <2>1, <2>2, <2>4, OperatesIs DEF Operates
  <2>5. QED BY <2>1, <2>3, <2>4
<1>4. CASE Tick
  BY <1>4 DEF Tick, Map!Tick, LiveMap
<1>5. QED BY <1>1, <1>2, <1>3, <1>4 DEF Next

(* What mshield_session_renew does when it succeeds.                       *)
LEMMA RenewalsMap ==
  ASSUME MapInv, MapInv'
  PROVE  \A h \in UsedSessions(sessions) :
           mshield_session_renew(h) /\ ret'.status = "STATUS_OK" =>
             LET u == sessions[h].uuid IN Map!Renew(u) \/ RenewFallsShort(u)
<1> SUFFICES ASSUME NEW h \in UsedSessions(sessions),
                    mshield_session_renew(h), ret'.status = "STATUS_OK"
             PROVE  Map!Renew(sessions[h].uuid) \/ RenewFallsShort(sessions[h].uuid)
  OBVIOUS
<1>1. QED BY RenewIs

(* The slots, the chains and the indices of the shared memory implement    *)
(* the map from UUIDs to sessions, whatever the sizes of the two arrays:   *)
(* with renewals that fall short of the map's in the two named ways only.  *)
THEOREM ImplementsMapCorrect == Spec => ImplementsMap
<1>1. MapInv /\ [Next]_vars => MapInv'
  BY NextInv, AgesStep, KeysStep DEF MapInv
<1>2. MapInv /\ MapInv' /\ [Next]_vars =>
        [\/ Map!Operation(ret'.status)
         \/ /\ \E u \in Map!Exists : RenewFallsShort(u)
            /\ ret'.status = "STATUS_OK" /\ now' = now
         \/ Map!Tick /\ ret' = ret]_vars
  BY StepMaps DEF RenewsShort
<1>3. MapInv /\ MapInv' /\ [Next]_vars =>
        [\A h \in UsedSessions(sessions) :
           mshield_session_renew(h) /\ ret'.status = "STATUS_OK" =>
             LET u == sessions[h].uuid IN Map!Renew(u) \/ RenewFallsShort(u)]_vars
  BY RenewalsMap
<1>4. Init => MapInv
  BY InitInv, AgesInit, KeysInit DEF MapInv
<1>5. Init => Map!Init
  BY InitMaps DEF Init
<1>6. QED BY <1>1, <1>2, <1>3, <1>4, <1>5, PTL DEF Spec, ImplementsMap

=============================================================================
