-------------------------- MODULE MShieldStoreProofs --------------------------
(***************************************************************************)
(* The store and the requests in MShield: types and the gate for critical  *)
(* requests with the fraud engine and failing locks, and, without them,    *)
(* that the store survives every interleaving of hooks, that a request is  *)
(* served with its own session, that no hook loops, and that the steps of  *)
(* all hooks are operations of SessionMap.                                 *)
(***************************************************************************)
EXTENDS MShieldRefinement, MShieldProofs, StoreMapProofs

(* Where a request has found its session; where no verdict is known yet.   *)
Found == {"validate", "click", "waiting", "relock", "authorize", "backend",
          "filter", "looping"}

Early == {"idle", "lookup", "validate", "click"}

(* Where it writes through the slot it found.                              *)
Writing == {"validate", "waiting", "authorize", "filter"}

(* What r a worker at place p may know of its request.                     *)
RequestOK(p, r) ==
  /\ p \in PC
  /\ r \in Request
  /\ p \in Found => r.handle \in SessionSlot
  /\ p \in Early => ~ r.critical
  /\ p = "authorize" /\ r.critical => r.verdict \in {"OK", "SUSPICIOUS"}

(* The part of the invariant that holds with all the code can do: fraud    *)
(* detection, verdicts of every kind, locks that fail.                     *)
FlowInv ==
  /\ TypeOK
  /\ \A w \in Worker : RequestOK(pc[w], req[w])

-----------------------------------------------------------------------------
(* What a step writes into the store, through the slot h.                  *)

Kept == sessions' = sessions /\ cookies' = cookies

Created ==
  \E i \in SessionSlot, sid \in SessionId, uuid \in Uuid :
    /\ sessions' = SessionsAfterCreate(sessions, i, sid, uuid, now)
    /\ cookies' = CookiesAfterCreate(sessions, cookies, i)

Touched(h) ==
  /\ cookies' = cookies
  /\ \/ sessions' = [sessions EXCEPT ![h].atime = now]
     \/ sessions' = [sessions EXCEPT ![h].logon_state = 1]

AddsTo(h) ==
  \E c \in CookieSlot \ UsedCookies(cookies), key \in CookieName,
     value \in CookieValue, locid \in Location :
    /\ cookies' = AddCookie(cookies, sessions[h].cookiestore_index, c,
                            key, value, locid)
    /\ sessions' = [sessions EXCEPT ![h].cookiestore_index = c]

DeletesFrom(h) ==
  \E c \in Chain(cookies, sessions[h].cookiestore_index) :
    /\ cookies' = DeleteCookie(cookies, c)
    /\ sessions' = [sessions EXCEPT ![h].cookiestore_index =
                      AnchorAfterDelete(cookies, sessions[h].cookiestore_index, c)]

UpdatesIn(h) ==
  /\ sessions' = sessions
  /\ \E c \in Chain(cookies, sessions[h].cookiestore_index), value \in CookieValue :
       cookies' = [cookies EXCEPT ![c].value = value]

Renewed(h) ==
  \E i \in SessionSlot, sid \in SessionId :
    /\ sessions' = SessionsAfterRenew(sessions, h, i, sid, now)
    /\ cookies' = CookiesAfterCreate(sessions, cookies, i)

Writes(h) ==
  Unlinked(h) \/ Touched(h) \/ AddsTo(h) \/ DeletesFrom(h) \/ UpdatesIn(h) \/ Renewed(h)

(* Every one of them keeps the types of the arrays, whatever slot h is and *)
(* however the chains are linked.                                          *)
LEMMA WritesKeepTypes ==
  ASSUME StoreTypeOK(sessions, cookies), now \in Nat,
         \/ Kept
         \/ Created
         \/ \E h \in SessionSlot : Writes(h)
  PROVE  StoreTypeOK(sessions', cookies')
<1>1. CASE Kept
  BY <1>1 DEF Kept
<1>2. CASE Created
  BY <1>2, CreateTypes DEF Created
<1>3. ASSUME NEW h \in SessionSlot, Writes(h)
      PROVE  StoreTypeOK(sessions', cookies')
  <2>1. CASE Unlinked(h)
    BY <2>1, FreeTypes DEF Unlinked
  <2>2. CASE Touched(h)
    BY <2>2 DEF Touched, StoreTypeOK, session_data_t
  <2>3. CASE AddsTo(h)
    <3>1. PICK c \in CookieSlot \ UsedCookies(cookies), key \in CookieName,
               value \in CookieValue, locid \in Location :
            /\ cookies' = AddCookie(cookies, sessions[h].cookiestore_index, c,
                                    key, value, locid)
            /\ sessions' = [sessions EXCEPT ![h].cookiestore_index = c]
      BY <2>3 DEF AddsTo
    <3>2. c \in CookieSlot
      OBVIOUS
    <3>3. QED BY <3>1, <3>2, AddTypes
  <2>4. CASE DeletesFrom(h)
    <3>1. PICK c \in Chain(cookies, sessions[h].cookiestore_index) :
            /\ cookies' = DeleteCookie(cookies, c)
            /\ sessions' = [sessions EXCEPT ![h].cookiestore_index =
                              AnchorAfterDelete(cookies,
                                sessions[h].cookiestore_index, c)]
      BY <2>4 DEF DeletesFrom
    <3>2. c \in CookieSlot
      BY DEF Chain
    <3>3. QED BY <3>1, <3>2, DeleteTypes
  <2>5. CASE UpdatesIn(h)
    <3>1. PICK c \in Chain(cookies, sessions[h].cookiestore_index),
               value \in CookieValue :
            cookies' = [cookies EXCEPT ![c].value = value]
      BY <2>5 DEF UpdatesIn
    <3>2. c \in CookieSlot /\ sessions' = sessions
      BY <2>5 DEF Chain, UpdatesIn
    <3>3. QED BY <3>1, <3>2, UpdateTypes
  <2>6. CASE Renewed(h)
    BY <2>6, RenewTypes DEF Renewed
  <2>7. QED BY <1>3, <2>1, <2>2, <2>3, <2>4, <2>5, <2>6 DEF Writes
<1>4. QED BY <1>1, <1>2, <1>3

-----------------------------------------------------------------------------
(* What the step of a worker does to its place, its request and the store. *)

To(w, p, r) ==
  /\ pc' = [pc EXCEPT ![w] = p] /\ req' = [req EXCEPT ![w] = r]
  /\ RequestOK(p, r)

(* The end of a hook leaves no request.                                    *)
LEMMA ReturnsTo == ASSUME NEW w, Return(w) PROVE To(w, "idle", NoRequest)
<1>1. NoRequest \in Request /\ ~ NoRequest.critical
  BY FlowAssumption, DataAssumption
     DEF NoRequest, Request, INVALID_SESSION_HANDLE
<1>2. RequestOK("idle", NoRequest)
  BY <1>1 DEF RequestOK, PC, Found
<1>3. QED BY <1>2 DEF Return, Release, Goto, To

(* Going on to p with the request as it is.                                *)
LEMMA GoesTo ==
  ASSUME FlowInv, NEW w \in Worker, NEW p, Goto(w, p), req' = req,
         RequestOK(p, req[w])
  PROVE  To(w, p, req[w])
<1>1. req = [req EXCEPT ![w] = req[w]]
  BY DEF FlowInv, TypeOK
<1>2. QED BY <1>1 DEF Goto, To

(* One of the places and requests a worker that is not at them may go to.  *)
LEMMA StepTo ==
  ASSUME FlowInv, NEW w \in Worker,
         Step(w) \/ AccessChecker(w) \/ Relock(w) \/ OutputFilter(w)
  PROVE  /\ now' = now /\ mutex' \in Worker \cup {Free}
         /\ \E p, r : To(w, p, r)
<1>a. /\ RequestOK(pc[w], req[w]) /\ req[w] \in Request
      /\ req \in [Worker -> Request] /\ pc \in [Worker -> PC]
      /\ mutex \in Worker \cup {Free}
      /\ sessions \in [SessionSlot -> session_data_t]
  BY DEF FlowInv, TypeOK, RequestOK, StoreTypeOK
<1> DEFINE Goes == \E p, r : To(w, p, r)
<1>b. Return(w) => Goes /\ mutex' = Free
  BY ReturnsTo DEF Return, Release
<1>c. ASSUME NEW p, Goto(w, p), req' = req, RequestOK(p, req[w]) PROVE Goes
  BY <1>c, GoesTo
<1>d. ASSUME NEW p, NEW r, Goto(w, p), req' = [req EXCEPT ![w] = r],
             RequestOK(p, r)
      PROVE  Goes
  BY <1>d DEF To, Goto
<1> HIDE DEF Goes
<1> USE DEF Acquire, Release
<1>1. CASE \/ CreateSession(w) \/ FreeUrl(w) \/ ClickFails(w) \/ DestroySession(w)
           \/ Redirect(w) \/ FilterDone(w) \/ mshield_session_renew(w)
           \/ RelockFails(w)
  <2>1. Return(w) /\ now' = now
    BY <1>1 DEF CreateSession, FreeUrl, ClickFails, DestroySession, Redirect,
                FilterDone, mshield_session_renew, RelockFails
  <2>2. QED BY <2>1, <1>b DEF Goes
<1>2. CASE mshield_session_find(w)
  <2>1. CASE Return(w)
    BY <2>1, <1>2, <1>b DEF mshield_session_find, Goes
  <2>2. CASE ~ Return(w)
    <3>1. PICK i \in UsedSessions(sessions) :
            /\ req' = [req EXCEPT ![w].sid = Null, ![w].handle = i,
                                  ![w].uuid = sessions[i].uuid]
            /\ Goto(w, "validate")
            /\ mutex' = mutex /\ now' = now /\ pc[w] = "lookup"
      BY <1>2, <2>2 DEF mshield_session_find
    <3> DEFINE r == [req[w] EXCEPT !.sid = Null, !.handle = i,
                                   !.uuid = sessions[i].uuid]
    <3>2. req' = [req EXCEPT ![w] = r]
      BY <3>1, <1>a
    <3>3. i \in SessionSlot /\ sessions[i].uuid \in Uuid \cup {Null}
      BY <1>a DEF UsedSessions, session_data_t
    <3>4. r \in Request /\ r.handle = i
      BY <3>3, <1>a DEF Request
    <3>5. ~ r.critical
      <4>1. r.critical = req[w].critical
        BY <1>a DEF Request
      <4>2. QED BY <4>1, <3>1, <1>a DEF RequestOK, Early
    <3> HIDE DEF r
    <3>6. RequestOK("validate", r)
      BY <3>3, <3>4, <3>5 DEF RequestOK, PC, Locked
    <3>7. QED BY <3>1, <3>2, <3>6, <1>a, <1>d DEF Goes
  <2>3. QED BY <2>1, <2>2
<1>3. CASE mshield_session_validate(w)
  <2>1. CASE Return(w)
    BY <2>1, <1>3, <1>b DEF mshield_session_validate, Goes
  <2>2. CASE ~ Return(w)
    <3>1. /\ pc[w] = "validate" /\ Goto(w, "click") /\ req' = req
          /\ mutex' = mutex /\ now' = now
      BY <1>3, <2>2 DEF mshield_session_validate
    <3>2. RequestOK("click", req[w])
      BY <3>1, <1>a DEF RequestOK, PC, Locked, Found, Early
    <3>3. QED BY <3>1, <3>2, <1>a, <1>c DEF Goes
  <2>3. QED BY <2>1, <2>2
<1>4. CASE UncriticalClick(w) \/ Proceed(w) \/ LoopForever(w)
  <2>1. PICK p \in {"authorize", "backend", "looping"} :
          /\ Goto(w, p) /\ req' = req /\ now' = now
          /\ mutex' \in {mutex, Free}
          /\ pc[w] \in {"click", "authorize", "filter"}
          /\ p = "authorize" => pc[w] = "click"
    BY <1>4 DEF UncriticalClick, Proceed, LoopForever
  <2>2. RequestOK(p, req[w])
    BY <2>1, <1>a DEF RequestOK, PC, Locked, Found, Early
  <2>3. QED BY <2>1, <2>2, <1>a, <1>c DEF Goes
<1>5. CASE CriticalClick(w)
  <2> DEFINE r == [req[w] EXCEPT !.critical = TRUE]
  <2>1. /\ pc[w] = "click" /\ Goto(w, "waiting") /\ mutex' = Free /\ now' = now
        /\ req' = [req EXCEPT ![w] = r]
    BY <1>5, <1>a DEF CriticalClick
  <2>2. r \in Request /\ r.handle = req[w].handle
    BY <1>a DEF Request
  <2> HIDE DEF r
  <2>3. RequestOK("waiting", r)
    BY <2>1, <2>2, <1>a DEF RequestOK, PC, Locked, Found, Early
  <2>4. QED BY <2>1, <2>3, <1>d DEF Goes
<1>6. CASE handle_mshield_result(w) \/ WaitFails(w)
  <2>1. PICK v \in Verdict \cup {"error"} :
          /\ req' = [req EXCEPT ![w].verdict = v]
          /\ pc[w] = "waiting" /\ Goto(w, "relock")
          /\ mutex' = mutex /\ now' = now
    BY <1>6 DEF handle_mshield_result, WaitFails
  <2> DEFINE r == [req[w] EXCEPT !.verdict = v]
  <2>2. req' = [req EXCEPT ![w] = r]
    BY <2>1, <1>a
  <2>3. r \in Request /\ r.handle = req[w].handle
    BY <1>a, FlowAssumption DEF Request
  <2> HIDE DEF r
  <2>4. RequestOK("relock", r)
    BY <2>1, <2>3, <1>a DEF RequestOK, PC, Locked, Found, Early
  <2>5. QED BY <2>1, <2>2, <2>4, <1>a, <1>d DEF Goes
<1>7. CASE FilterCookie(w)
  <2>1. /\ now' = now /\ pc[w] = "filter" /\ req[w].filtered < MAX_SETCOOKIES
        /\ Return(w) \/ CountHeader(w)
    BY <1>7 DEF FilterCookie, AddsCookie, FindsStoreFull, UpdatesCookie,
                DeletesCookie
  <2>2. CASE CountHeader(w)
    <3> DEFINE r == [req[w] EXCEPT !.filtered = @ + 1]
    <3>1. req' = [req EXCEPT ![w] = r] /\ mutex' = mutex /\ pc' = pc
      BY <2>2, <1>a DEF CountHeader
    <3>2. r \in Request /\ r.handle = req[w].handle
      BY <2>1, <1>a, FlowAssumption DEF Request
    <3> HIDE DEF r
    <3>3. RequestOK("filter", r) /\ Goto(w, "filter")
      BY <2>1, <3>1, <3>2, <1>a DEF RequestOK, PC, Locked, Found, Early, Goto
    <3>4. QED BY <2>1, <3>1, <3>3, <1>a, <1>d DEF Goes
  <2>3. QED BY <2>1, <2>2, <1>b DEF Goes
<1>8. CASE FilterLogon(w)
  <2> DEFINE r == [req[w] EXCEPT !.must_renew = TRUE]
  <2>1. /\ pc[w] = "filter" /\ pc' = pc /\ mutex' = mutex /\ now' = now
        /\ req' = [req EXCEPT ![w] = r]
    BY <1>8, <1>a DEF FilterLogon
  <2>2. r \in Request /\ r.handle = req[w].handle
    BY <1>a DEF Request
  <2> HIDE DEF r
  <2>3. RequestOK("filter", r) /\ Goto(w, "filter")
    BY <2>1, <2>2, <1>a DEF RequestOK, PC, Locked, Found, Early, Goto
  <2>4. QED BY <2>1, <2>3, <1>a, <1>d DEF Goes
<1>9. CASE AccessChecker(w)
  <2>1. PICK sid \in SessionId \cup {Null} :
          /\ pc[w] = "idle" /\ Goto(w, "lookup") /\ mutex' = w /\ now' = now
          /\ req' = [req EXCEPT ![w].sid = sid]
    BY <1>9 DEF AccessChecker
  <2> DEFINE r == [req[w] EXCEPT !.sid = sid]
  <2>2. req' = [req EXCEPT ![w] = r]
    BY <2>1, <1>a
  <2>3. r \in Request /\ r.critical = req[w].critical
    BY <1>a DEF Request
  <2> HIDE DEF r
  <2>4. RequestOK("lookup", r)
    BY <2>1, <2>3, <1>a DEF RequestOK, PC, Locked, Found, Early
  <2>5. QED BY <2>1, <2>2, <2>4, <1>d DEF Goes
<1>10. CASE Relock(w) \/ OutputFilter(w)
  <2>1. now' = now
    BY <1>10 DEF Relock, OutputFilter
  <2>2. CASE Return(w)
    BY <2>1, <2>2, <1>b DEF Goes
  <2>3. CASE ~ Return(w)
    <3>1. PICK p \in {"authorize", "filter"} :
            /\ Goto(w, p) /\ mutex' = w /\ req' = req
            /\ pc[w] \in {"relock", "backend"}
            /\ p = "authorize" => req[w].verdict \in {"OK", "SUSPICIOUS"}
      BY <1>10, <2>3 DEF Relock, OutputFilter
    <3>2. RequestOK(p, req[w])
      BY <3>1, <1>a DEF RequestOK, PC, Locked, Found, Early
    <3>3. QED BY <2>1, <3>1, <3>2, <1>c DEF Goes
  <2>4. QED BY <2>2, <2>3
<1>11. QED
  BY <1>1, <1>2, <1>3, <1>4, <1>5, <1>6, <1>7, <1>8, <1>9, <1>10
     DEF Step, Goes

(* A cookie that is looked up and found is in the chain.                   *)
LEMMA FoundInChain ==
  ASSUME StoreTypeOK(sessions, cookies), NEW h \in SessionSlot,
         NEW key, NEW locid,
         get_cookie_index_by_name(cookies, sessions[h].cookiestore_index,
                                  key, locid) # -1
  PROVE  get_cookie_index_by_name(cookies, sessions[h].cookiestore_index,
                                  key, locid)
           \in Chain(cookies, sessions[h].cookiestore_index)
<1>1. /\ sessions[h].cookiestore_index \in CookieSlot \cup {-1}
      /\ \A d \in CookieSlot : cookies[d].next \in CookieSlot \cup {-1}
  BY SlotTypes
<1>2. get_cookie_index_by_name(cookies, sessions[h].cookiestore_index, key, locid)
        \in Matching(cookies, sessions[h].cookiestore_index, key, locid)
  BY <1>1, FindInChain
<1>3. QED BY <1>2 DEF Matching

(* The operations of the store, in the slots and links they write.         *)
CreatesSession ==
  \E i \in SessionSlot, sid \in FreshId, uuid \in FreshUuid :
    CreatesIn(i, sid, uuid)

SetsCookie(h, key, locid) ==
  \/ /\ IndexOf(h, key, locid) = -1
     /\ \E c \in CookieSlot, value \in CookieValue : Adds(h, c, key, value, locid)
  \/ \E c : /\ c = IndexOf(h, key, locid) /\ c # -1
            /\ Deletes(h, c) \/ \E value \in CookieValue : Updates(c, value)

RenewsSession(h) == \E i \in SessionSlot, sid \in FreshId : RenewsInto(h, i, sid)

Operates(h) ==
  \/ Frees(h)
  \/ ~ mshield_shm_timeout(sessions[h], now) /\ Accesses(h)
  \/ LogsOn(h)
  \/ \E key \in CookieName, locid \in Location : SetsCookie(h, key, locid)
  \/ RenewsSession(h)

(* A header that is filtered adds, updates or deletes a cookie of the       *)
(* session of the request, or finds the store full.                        *)
LEMMA FilterOperates ==
  ASSUME NEW w \in Worker, FilterCookie(w)
  PROVE  Kept \/ \E key \in CookieName, locid \in Location :
                   SetsCookie(Handle(w), key, locid)
<1>1. PICK key \in CookieName, locid \in Location :
        LET c == get_cookie_index_by_name(cookies, Anchor(w), key, locid)
        IN  \/ c = -1 /\ (AddsCookie(w, key, locid) \/ FindsStoreFull(w))
            \/ c # -1 /\ (UpdatesCookie(w, c) \/ DeletesCookie(w, c))
  BY DEF FilterCookie
<1>2. PICK c : c = IndexOf(Handle(w), key, locid)
  OBVIOUS
<1>3. \/ c = -1 /\ (AddsCookie(w, key, locid) \/ FindsStoreFull(w))
      \/ c # -1 /\ (UpdatesCookie(w, c) \/ DeletesCookie(w, c))
  BY <1>1, <1>2 DEF IndexOf, Anchor
<1>4. CASE FindsStoreFull(w)
  BY <1>4 DEF FindsStoreFull, Kept, store
<1>5. CASE c = -1 /\ AddsCookie(w, key, locid)
  <2>1. \E d \in CookieSlot, value \in CookieValue :
          Adds(Handle(w), d, key, value, locid)
    BY <1>5 DEF AddsCookie, Adds, Anchor
  <2>2. QED BY <2>1, <1>2, <1>5 DEF SetsCookie
<1>6. CASE c # -1 /\ UpdatesCookie(w, c)
  <2>1. \E value \in CookieValue : Updates(c, value)
    BY <1>6 DEF UpdatesCookie, Updates
  <2>2. QED BY <2>1, <1>2, <1>6 DEF SetsCookie
<1>7. CASE c # -1 /\ DeletesCookie(w, c)
  <2>1. Deletes(Handle(w), c)
    BY <1>7 DEF DeletesCookie, Deletes, Anchor
  <2>2. QED BY <2>1, <1>2, <1>7 DEF SetsCookie
<1>8. QED BY <1>3, <1>4, <1>5, <1>6, <1>7

(* Every step of a worker that writes the store is one operation on the    *)
(* session of its request, or sets up a session for it.                    *)
LEMMA StepOperates ==
  ASSUME NEW w \in Worker,
         Step(w) \/ AccessChecker(w) \/ Relock(w) \/ OutputFilter(w)
  PROVE  \/ Kept
         \/ pc[w] = "lookup" /\ CreatesSession
         \/ pc[w] \in Writing /\ Operates(Handle(w))
<1>1. CASE CreateSession(w)
  BY <1>1 DEF CreateSession, Kept, store, CreatesSession, CreatesIn, NewSlot
<1>2. CASE mshield_session_validate(w) \/ handle_mshield_result(w)
           \/ DestroySession(w) \/ FilterLogon(w)
  BY <1>2 DEF mshield_session_validate, handle_mshield_result, DestroySession,
              FilterLogon, Kept, Writing, store, Unlinked, Operates, Frees,
              Accesses, LogsOn
<1>3. CASE FilterCookie(w)
  <2>1. pc[w] \in Writing
    BY <1>3 DEF FilterCookie, Writing
  <2>2. QED BY <2>1, <1>3, FilterOperates DEF Operates
<1>4. CASE mshield_session_renew(w)
  <2>1. pc[w] \in Writing
    BY <1>4 DEF mshield_session_renew, Writing
  <2>2. Kept \/ RenewsSession(Handle(w))
    BY <1>4 DEF mshield_session_renew, Kept, store, RenewsSession, RenewsInto,
                NewSlot
  <2>3. QED BY <2>1, <2>2 DEF Operates
<1>5. CASE \/ FreeUrl(w) \/ mshield_session_find(w) \/ UncriticalClick(w)
           \/ ClickFails(w) \/ CriticalClick(w) \/ WaitFails(w)
           \/ RelockFails(w) \/ Redirect(w) \/ Proceed(w) \/ FilterDone(w)
           \/ LoopForever(w) \/ AccessChecker(w) \/ Relock(w) \/ OutputFilter(w)
  BY <1>5 DEF FreeUrl, mshield_session_find, UncriticalClick, ClickFails,
              CriticalClick, WaitFails, RelockFails, Redirect, Proceed, FilterDone,
              LoopForever, AccessChecker, Relock, OutputFilter, store, Kept
<1>6. QED BY <1>1, <1>2, <1>3, <1>4, <1>5 DEF Step

(* A cookie that is set is added to the chain, deleted from it or updated. *)
LEMMA SetsCookieWrites ==
  ASSUME StoreTypeOK(sessions, cookies), NEW h \in SessionSlot,
         NEW key \in CookieName, NEW locid \in Location,
         SetsCookie(h, key, locid)
  PROVE  AddsTo(h) \/ DeletesFrom(h) \/ UpdatesIn(h)
<1>1. CASE \E c \in CookieSlot, value \in CookieValue :
             Adds(h, c, key, value, locid)
  BY <1>1 DEF Adds, FirstEmptyCookieSlot, AddsTo
<1>2. ASSUME NEW c, c = IndexOf(h, key, locid), c # -1,
             Deletes(h, c) \/ \E value \in CookieValue : Updates(c, value)
      PROVE  DeletesFrom(h) \/ UpdatesIn(h)
  <2>1. c \in Chain(cookies, sessions[h].cookiestore_index)
    BY <1>2, FoundInChain DEF IndexOf
  <2>2. CASE Deletes(h, c)
    BY <2>1, <2>2 DEF Deletes, DeletesFrom
  <2>3. CASE \E value \in CookieValue : Updates(c, value)
    BY <2>1, <2>3 DEF Updates, UpdatesIn
  <2>4. QED BY <1>2, <2>2, <2>3
<1>3. QED BY <1>1, <1>2 DEF SetsCookie

(* Such an operation is one of the writes, in well typed arrays.           *)
LEMMA OperatesWrites ==
  ASSUME StoreTypeOK(sessions, cookies), NEW h \in SessionSlot, Operates(h)
  PROVE  Writes(h)
<1>1. CASE Frees(h)
  BY <1>1 DEF Frees, Unlinked, Writes
<1>2. CASE Accesses(h) \/ LogsOn(h)
  BY <1>2 DEF Accesses, LogsOn, Touched, Writes
<1>3. ASSUME NEW key \in CookieName, NEW locid \in Location,
             SetsCookie(h, key, locid)
      PROVE  Writes(h)
  BY <1>3, SetsCookieWrites DEF Writes
<1>4. CASE RenewsSession(h)
  <2>1. PICK i \in SessionSlot, sid \in FreshId : RenewsInto(h, i, sid)
    BY <1>4 DEF RenewsSession
  <2>2. sid \in SessionId
    BY DEF FreshId
  <2>3. QED BY <2>1, <2>2 DEF RenewsInto, Renewed, Writes
<1>5. QED BY <1>1, <1>2, <1>3, <1>4 DEF Operates

(* So a step writes through the slot of its request, but for the session   *)
(* that the access checker sets up.                                        *)
LEMMA StepStore ==
  ASSUME FlowInv, NEW w \in Worker,
         Step(w) \/ AccessChecker(w) \/ Relock(w) \/ OutputFilter(w)
  PROVE  \/ Kept
         \/ pc[w] = "lookup" /\ Created
         \/ pc[w] \in Writing /\ Handle(w) \in SessionSlot /\ Writes(Handle(w))
<1>1. /\ pc[w] \in Writing => Handle(w) \in SessionSlot
      /\ StoreTypeOK(sessions, cookies)
  BY DEF FlowInv, RequestOK, Handle, TypeOK, Writing, Found
<1>2. CreatesSession => Created
  BY DEF CreatesSession, CreatesIn, FreshId, FreshUuid, Created
<1>3. QED BY <1>1, <1>2, StepOperates, OperatesWrites

-----------------------------------------------------------------------------
(* Types, and the gate for critical requests.                              *)

(* All workers are idle at first.                                          *)
LEMMA FlowInit == Init => FlowInv
<1> SUFFICES ASSUME Init PROVE FlowInv
  OBVIOUS
<1>1. NoRequest \in Request /\ ~ NoRequest.critical
  BY FlowAssumption, DataAssumption
     DEF NoRequest, Request, INVALID_SESSION_HANDLE
<1>2. RequestOK("idle", NoRequest)
  BY <1>1 DEF RequestOK, PC, Found
<1>3. TypeOK
  BY <1>1, MaxTimeAssumption, ClearedTypes DEF Init, TypeOK, StoreTypeOK, PC
<1>4. QED BY <1>2, <1>3 DEF Init, FlowInv

(* Every step keeps the types and what is known of a request.              *)
LEMMA FlowStep == FlowInv /\ [Next]_vars => FlowInv'
<1> SUFFICES ASSUME FlowInv, [Next]_vars PROVE FlowInv'
  OBVIOUS
<1>a. /\ StoreTypeOK(sessions, cookies) /\ now \in Nat
      /\ now \in 0 .. MAX_TIME
      /\ req \in [Worker -> Request] /\ pc \in [Worker -> PC]
      /\ mutex \in Worker \cup {Free}
      /\ \A w \in Worker : RequestOK(pc[w], req[w])
  BY DEF FlowInv, TypeOK
<1>1. CASE \E w \in Worker :
             Step(w) \/ AccessChecker(w) \/ Relock(w) \/ OutputFilter(w)
  <2>1. PICK w \in Worker :
               Step(w) \/ AccessChecker(w) \/ Relock(w) \/ OutputFilter(w)
    BY <1>1
  <2>2. StoreTypeOK(sessions', cookies')
    BY <2>1, <1>a, StepStore, WritesKeepTypes
  <2>3. now' = now /\ mutex' \in Worker \cup {Free} /\ \E p, r : To(w, p, r)
    BY <2>1, StepTo
  <2>4. PICK p, r : To(w, p, r)
    BY <2>3
  <2>5. p \in PC /\ r \in Request /\ RequestOK(p, r)
    BY <2>4 DEF To, RequestOK
  <2>6. /\ pc' \in [Worker -> PC] /\ req' \in [Worker -> Request]
        /\ \A v \in Worker : /\ pc'[v] = IF v = w THEN p ELSE pc[v]
                             /\ req'[v] = IF v = w THEN r ELSE req[v]
    BY <2>4, <2>5, <1>a DEF To
  <2>7. \A v \in Worker : RequestOK(pc'[v], req'[v])
    BY <2>5, <2>6, <1>a
  <2>8. TypeOK'
    BY <2>2, <2>3, <2>6, <1>a DEF TypeOK
  <2>9. QED BY <2>7, <2>8 DEF FlowInv
<1>2. CASE Tick
  BY <1>2, <1>a, MaxTimeAssumption DEF Tick, FlowInv, TypeOK, store
<1>3. CASE UNCHANGED vars
  BY <1>3, <1>a DEF vars, FlowInv, TypeOK
<1>4. QED BY <1>1, <1>2, <1>3 DEF Next

(* The store, the mutex, the places and the requests keep their types,     *)
(* whatever the fraud engine answers and whichever locks fail.             *)
THEOREM FlowTypesCorrect == Spec => []TypeOK
<1>1. FlowInv => TypeOK
  BY DEF FlowInv
<1>2. QED BY <1>1, FlowInit, FlowStep, PTL DEF Spec

(* No interleaving, error path or failing lock takes a critical request to *)
(* the backend without a verdict that lets it.                             *)
THEOREM GateCorrect == Spec => CriticalNeedsVerdict
<1>1. FlowInv => \A w \in Worker :
                   pc[w] = "authorize" /\ req[w].critical
                     => req[w].verdict \in {"OK", "SUSPICIOUS"}
  BY DEF FlowInv, RequestOK
<1>2. FlowInv /\ [Next]_vars
        => [\A w \in Worker :
              pc[w] = "authorize" /\ pc'[w] = "backend" /\ req[w].critical
                => req[w].verdict \in {"OK", "SUSPICIOUS"}]_vars
  BY <1>1
<1>3. QED BY <1>2, FlowInit, FlowStep, PTL DEF Spec, CriticalNeedsVerdict

-----------------------------------------------------------------------------
(* The store under the mutex, without fraud detection.                     *)

(* The store is intact, and the sessions in it have UUIDs.                 *)
Intact(sess, ck) ==
  /\ WellLinked(sess, ck)
  /\ \A i \in SessionSlot \ UsedSessions(sess) : sess[i] = ClearedSession
  /\ \A h \in UsedSessions(sess) : sess[h].uuid \in Uuid

(* The same slots are in use, for the same sessions.                       *)
SameSlots ==
  \A g \in SessionSlot : /\ sessions'[g].slot_used = sessions[g].slot_used
                         /\ sessions'[g].uuid = sessions[g].uuid

(* Where a worker with the mutex has a slot that is in use, and where that *)
(* slot still has the session the request found.                           *)
Held == {"validate", "click", "authorize", "filter"}

Checked == {"validate", "click", "authorize"}

Holds(sess, p, r) ==
  /\ p \in Held => r.handle \in UsedSessions(sess)
  /\ p \in Checked => sess[r.handle].uuid = r.uuid

ServeInv ==
  /\ FlowInv /\ LockInv /\ NoWaitInv
  /\ Intact(sessions, cookies)
  /\ \A w \in Worker : Holds(sessions, pc[w], req[w])

(* Writing into a used slot without freeing it leaves the slots' sessions. *)
LEMMA WritesSlots ==
  ASSUME StoreTypeOK(sessions, cookies), NEW h \in SessionSlot,
         Touched(h) \/ AddsTo(h) \/ DeletesFrom(h) \/ UpdatesIn(h) \/ Kept
  PROVE  SameSlots /\ \A g \in SessionSlot \ {h} : sessions'[g] = sessions[g]
<1>1. PICK x, y, z : \/ sessions' = sessions
                     \/ sessions' = [sessions EXCEPT ![h].atime = x]
                     \/ sessions' = [sessions EXCEPT ![h].logon_state = y]
                     \/ sessions' = [sessions EXCEPT ![h].cookiestore_index = z]
  BY DEF Touched, AddsTo, DeletesFrom, UpdatesIn, Kept
<1>2. sessions \in [SessionSlot -> session_data_t]
  BY DEF StoreTypeOK
<1>3. QED BY <1>1, <1>2 DEF SameSlots, session_data_t

(* Every write through a used slot keeps the store intact.                 *)
LEMMA WritesKeepIntact ==
  ASSUME StoreTypeOK(sessions, cookies), Intact(sessions, cookies), now \in Nat,
         \/ Kept
         \/ Created
         \/ \E h \in UsedSessions(sessions) : Writes(h)
  PROVE  Intact(sessions', cookies')
<1>a. /\ WellLinked(sessions, cookies)
      /\ sessions \in [SessionSlot -> session_data_t]
      /\ UsedSessions(sessions) \subseteq SessionSlot
      /\ \A i \in SessionSlot : ~ sessions[i].slot_used => sessions[i] = ClearedSession
      /\ \A i \in SessionSlot : sessions[i].slot_used => sessions[i].uuid \in Uuid
  BY DEF Intact, StoreTypeOK, UsedSessions
<1>b. ASSUME WellLinked(sessions', cookies'),
             \A i \in SessionSlot :
               /\ ~ sessions'[i].slot_used => sessions'[i] = ClearedSession
               /\ sessions'[i].slot_used => sessions'[i].uuid \in Uuid
      PROVE  Intact(sessions', cookies')
  BY <1>b DEF Intact, UsedSessions
<1>1. CASE Kept
  BY <1>1 DEF Kept
<1>2. CASE Created
  <2>1. PICK i \in SessionSlot, sid \in SessionId, uuid \in Uuid :
          /\ sessions' = SessionsAfterCreate(sessions, i, sid, uuid, now)
          /\ cookies' = CookiesAfterCreate(sessions, cookies, i)
    BY <1>2 DEF Created
  <2>2. WellLinked(sessions', cookies')
    BY <2>1, <1>a, CreateKeepsStore
  <2>3. \A g \in SessionSlot :
          sessions'[g] = IF g = i THEN NewSession(sid, uuid, now) ELSE sessions[g]
    BY <2>1, <1>a DEF SessionsAfterCreate
  <2>4. QED BY <2>2, <2>3, <1>a, <1>b DEF NewSession
<1>3. ASSUME NEW h \in UsedSessions(sessions), Writes(h)
      PROVE  Intact(sessions', cookies')
  <2>1. CASE Unlinked(h)
    <3>1. WellLinked(sessions', cookies')
      BY <2>1, <1>a, FreeKeepsStore DEF Unlinked
    <3>2. QED BY <2>1, <3>1, <1>a, <1>b DEF Unlinked, ClearedSession
  <2>2. CASE Renewed(h)
    <3>1. PICK i \in SessionSlot, sid \in SessionId :
            /\ sessions' = SessionsAfterRenew(sessions, h, i, sid, now)
            /\ cookies' = CookiesAfterCreate(sessions, cookies, i)
      BY <2>2 DEF Renewed
    <3>2. h \in SessionSlot /\ sessions[h].uuid \in Uuid
      BY <1>a DEF UsedSessions
    <3>3. WellLinked(sessions', cookies')
      BY <3>1, <3>2, <1>a, RenewKeepsStore
    <3> DEFINE s0 == SessionsAfterCreate(sessions, i, sid, sessions[h].uuid, now)
    <3>4. /\ \A g \in SessionSlot :
               s0[g] = IF g = i THEN NewSession(sid, sessions[h].uuid, now)
                       ELSE sessions[g]
          /\ DOMAIN s0 = SessionSlot
      BY <1>a DEF SessionsAfterCreate
    <3>5. \A g \in SessionSlot :
            sessions'[g] = IF g = h THEN ClearedSession
                           ELSE IF g = i THEN CopyContent(s0[i], s0[h])
                           ELSE s0[g]
      BY <3>1, <3>2, <3>4 DEF SessionsAfterRenew
    <3>6. s0[h].uuid \in Uuid
      BY <3>2, <3>4 DEF NewSession
    <3>7. /\ CopyContent(s0[i], s0[h]).uuid = s0[h].uuid
          /\ CopyContent(s0[i], s0[h]).slot_used
      BY <3>4 DEF CopyContent, NewSession
    <3>8. ClearedSession.slot_used = FALSE
      BY DEF ClearedSession
    <3> HIDE DEF s0
    <3>9. QED BY <3>3, <3>4, <3>5, <3>6, <3>7, <3>8, <1>a, <1>b
  <2>3. CASE Touched(h) \/ AddsTo(h) \/ DeletesFrom(h) \/ UpdatesIn(h)
    <3>1. /\ SameSlots /\ \A g \in SessionSlot \ {h} : sessions'[g] = sessions[g]
          /\ sessions[h].slot_used
      BY <2>3, <1>a, WritesSlots DEF UsedSessions
    <3>2. WellLinked(sessions', cookies')
      <4>1. CASE Touched(h)
        <5>1. /\ sessions' \in [SessionSlot -> session_data_t] /\ cookies' = cookies
              /\ \A g \in SessionSlot :
                   /\ sessions'[g].slot_used = sessions[g].slot_used
                   /\ sessions'[g].cookiestore_index = sessions[g].cookiestore_index
          BY <4>1, <1>a DEF Touched, session_data_t
        <5>2. QED BY <5>1, <1>a, FieldsKeepStore
      <4>2. CASE AddsTo(h)
        <5>1. PICK c \in CookieSlot \ UsedCookies(cookies), key \in CookieName,
                   value \in CookieValue, locid \in Location :
                /\ cookies' = AddCookie(cookies, sessions[h].cookiestore_index, c,
                                        key, value, locid)
                /\ sessions' = [sessions EXCEPT ![h].cookiestore_index = c]
          BY <4>2 DEF AddsTo
        <5>2. QED BY <5>1, <1>a, AddKeepsStore
      <4>3. CASE DeletesFrom(h)
        <5>1. PICK c \in Chain(cookies, sessions[h].cookiestore_index) :
                /\ cookies' = DeleteCookie(cookies, c)
                /\ sessions' = [sessions EXCEPT ![h].cookiestore_index =
                                  AnchorAfterDelete(cookies,
                                    sessions[h].cookiestore_index, c)]
          BY <4>3 DEF DeletesFrom
        <5>2. QED BY <5>1, <1>a, DeleteKeepsStore
      <4>4. CASE UpdatesIn(h)
        <5>1. PICK c \in Chain(cookies, sessions[h].cookiestore_index),
                   value \in CookieValue :
                cookies' = [cookies EXCEPT ![c].value = value]
          BY <4>4 DEF UpdatesIn
        <5>2. c \in UsedCookies(cookies)
          BY <1>a, JarInUse DEF WellLinked
        <5>3. sessions' = sessions
          BY <4>4 DEF UpdatesIn
        <5>4. QED BY <5>1, <5>2, <5>3, <1>a, UpdateKeepsStore
      <4>5. QED BY <2>3, <4>1, <4>2, <4>3, <4>4
    <3>3. QED
      BY <3>1, <3>2, <1>a, <1>b DEF SameSlots
  <2>4. QED BY <1>3, <2>1, <2>2, <2>3 DEF Writes
<1>4. QED BY <1>1, <1>2, <1>3

(* What the step of a worker leaves it with: a slot to use, and the session *)
(* it found there until the response is filtered.                          *)
LEMMA StepHolds ==
  ASSUME ~ FRAUD_DETECTION, ~ LOCK_MAY_FAIL, ServeInv, NEW w \in Worker,
         Step(w) \/ AccessChecker(w) \/ Relock(w) \/ OutputFilter(w)
  PROVE  Holds(sessions', pc'[w], req'[w])
<1>a. /\ RequestOK(pc[w], req[w]) /\ Holds(sessions, pc[w], req[w])
      /\ pc[w] \notin Outside
      /\ pc \in [Worker -> PC] /\ req \in [Worker -> Request]
      /\ req[w] \in Request
      /\ StoreTypeOK(sessions, cookies)
  BY DEF ServeInv, NoWaitInv, FlowInv, TypeOK
<1>b. ASSUME NEW p, Goto(w, p), p \notin Held
      PROVE  Holds(sessions', pc'[w], req'[w])
  BY <1>a, <1>b DEF Goto, Holds, Held, Checked
<1>c. ASSUME Return(w) PROVE Holds(sessions', pc'[w], req'[w])
  BY <1>b, <1>c DEF Return, Release, Held
<1>d. ASSUME pc[w] \in Held, pc'[w] \in Checked => pc[w] \in Checked,
             \/ Touched(Handle(w)) \/ AddsTo(Handle(w)) \/ DeletesFrom(Handle(w))
             \/ UpdatesIn(Handle(w)) \/ Kept,
             req'[w].handle = req[w].handle, req'[w].uuid = req[w].uuid
      PROVE  Holds(sessions', pc'[w], req'[w])
  <2> DEFINE h == Handle(w)
  <2>1. /\ h \in SessionSlot /\ sessions[h].slot_used
        /\ pc[w] \in Checked => sessions[h].uuid = req[w].uuid
    BY <1>a, <1>d DEF Holds, UsedSessions, Handle
  <2>2. SameSlots
    BY <1>a, <1>d, <2>1, WritesSlots
  <2>3. /\ sessions'[h].slot_used
        /\ pc[w] \in Checked => sessions'[h].uuid = req[w].uuid
    BY <2>1, <2>2 DEF SameSlots
  <2>4. req'[w].handle = h /\ req'[w].uuid = req[w].uuid
    BY <1>d DEF Handle
  <2> HIDE DEF h
  <2>5. QED BY <1>d, <2>1, <2>3, <2>4 DEF Holds, UsedSessions
<1>1. CASE \/ CreateSession(w) \/ FreeUrl(w) \/ ClickFails(w) \/ DestroySession(w)
           \/ Redirect(w) \/ FilterDone(w) \/ mshield_session_renew(w)
           \/ RelockFails(w)
  <2>1. Return(w)
    BY <1>1 DEF CreateSession, FreeUrl, ClickFails, DestroySession, Redirect,
                FilterDone, mshield_session_renew, RelockFails
  <2>2. QED BY <2>1, <1>c
<1>2. CASE mshield_session_find(w) /\ ~ Return(w)
  <2>1. PICK i \in UsedSessions(sessions) :
          /\ req' = [req EXCEPT ![w].sid = Null, ![w].handle = i,
                                ![w].uuid = sessions[i].uuid]
          /\ sessions' = sessions
    BY <1>2 DEF mshield_session_find, store
  <2>2. req'[w].handle = i /\ req'[w].uuid = sessions[i].uuid
    BY <2>1, <1>a DEF Request
  <2>3. QED BY <2>1, <2>2 DEF Holds
<1>3. CASE mshield_session_validate(w) /\ ~ Return(w)
  <2>1. /\ pc[w] = "validate" /\ Touched(Handle(w)) /\ req' = req
    BY <1>3 DEF mshield_session_validate, Touched
  <2>2. QED BY <2>1, <1>d DEF Held, Checked
<1>4. CASE UncriticalClick(w)
  <2>1. pc[w] = "click" /\ Kept /\ req' = req
    BY <1>4 DEF UncriticalClick, Kept, store
  <2>2. QED BY <2>1, <1>d DEF Held, Checked
<1>5. CASE LoopForever(w) \/ Proceed(w) \/ AccessChecker(w)
  <2>1. PICK p \in {"looping", "backend", "lookup"} : Goto(w, p)
    BY <1>5 DEF LoopForever, Proceed, AccessChecker, Acquire, Release
  <2>2. QED BY <2>1, <1>b DEF Held
<1>6. CASE CriticalClick(w) \/ handle_mshield_result(w) \/ WaitFails(w) \/ Relock(w)
  BY <1>6, <1>a DEF CriticalClick, handle_mshield_result, WaitFails, Relock, Outside
<1>7. CASE FilterCookie(w) /\ ~ Return(w)
  <2>1. /\ pc[w] = "filter" /\ CountHeader(w)
    BY <1>7 DEF FilterCookie, AddsCookie, FindsStoreFull, UpdatesCookie,
                DeletesCookie
  <2>2. req'[w].handle = req[w].handle /\ req'[w].uuid = req[w].uuid /\ pc' = pc
    BY <2>1, <1>a DEF CountHeader, Request
  <2>3. \/ Touched(Handle(w)) \/ AddsTo(Handle(w)) \/ DeletesFrom(Handle(w))
        \/ UpdatesIn(Handle(w)) \/ Kept
    <3>1. Kept \/ \E key \in CookieName, locid \in Location :
                    SetsCookie(Handle(w), key, locid)
      BY <1>7, FilterOperates
    <3>2. Handle(w) \in SessionSlot
      BY <2>1, <1>a DEF RequestOK, Found, Handle
    <3>3. QED BY <3>1, <3>2, <1>a, SetsCookieWrites
  <2>4. QED BY <2>1, <2>2, <2>3, <1>d DEF Held
<1>8. CASE FilterLogon(w)
  <2>1. pc[w] = "filter" /\ pc' = pc /\ Touched(Handle(w))
    BY <1>8 DEF FilterLogon, Touched
  <2>2. req'[w].handle = req[w].handle /\ req'[w].uuid = req[w].uuid
    BY <1>8, <1>a DEF FilterLogon, Request
  <2>3. QED BY <2>1, <2>2, <1>d DEF Held
<1>9. CASE OutputFilter(w) /\ ~ Return(w)
  <2>1. /\ sessions[Handle(w)].slot_used /\ Goto(w, "filter") /\ req' = req
        /\ sessions' = sessions /\ pc[w] = "backend"
    BY <1>9 DEF OutputFilter, Acquire, store
  <2>2. Handle(w) \in UsedSessions(sessions)
    BY <2>1, <1>a DEF RequestOK, Found, Handle, UsedSessions
  <2>3. pc'[w] = "filter"
    BY <2>1, <1>a DEF Goto
  <2>4. QED BY <2>1, <2>2, <2>3 DEF Holds, Handle, Checked
<1>10. QED
  BY <1>1, <1>2, <1>3, <1>4, <1>5, <1>6, <1>7, <1>8, <1>9, <1>c DEF Step

(* The store survives the step of a worker, and no other worker loses the  *)
(* slot it has: whoever has one holds the mutex.                           *)
LEMMA ServeStep ==
  ASSUME ~ FRAUD_DETECTION, ~ LOCK_MAY_FAIL, ServeInv, NEW w \in Worker,
         Step(w) \/ AccessChecker(w) \/ Relock(w) \/ OutputFilter(w)
  PROVE  /\ Intact(sessions', cookies')
         /\ \A v \in Worker : Holds(sessions', pc'[v], req'[v])
<1>a. /\ FlowInv /\ LockInv /\ NoWaitInv /\ Intact(sessions, cookies)
      /\ StoreTypeOK(sessions, cookies) /\ now \in Nat
      /\ Holds(sessions, pc[w], req[w])
      /\ pc[w] \notin Outside
      /\ \A v \in Worker : pc[v] \in Locked <=> mutex = v
  BY DEF ServeInv, FlowInv, TypeOK, LockInv, NoWaitInv
<1>1. \/ Kept
      \/ pc[w] = "lookup" /\ Created
      \/ pc[w] \in Writing /\ Handle(w) \in SessionSlot /\ Writes(Handle(w))
  BY <1>a, StepStore
<1>2. pc[w] \in Writing => Handle(w) \in UsedSessions(sessions)
  BY <1>a DEF Writing, Outside, Holds, Held, Handle
<1>3. Intact(sessions', cookies')
  BY <1>1, <1>2, <1>a, WritesKeepIntact
<1>4. ASSUME NEW v \in Worker \ {w}
      PROVE  Holds(sessions', pc'[v], req'[v])
  <2>1. pc'[v] = pc[v] /\ req'[v] = req[v]
    BY <1>a, StepIsLocal
  <2>2. CASE pc[v] \in Held
    <3>1. pc[w] \notin Locked
      BY <2>2, <1>a DEF Held, Locked
    <3>2. sessions' = sessions
      BY <3>1, <1>a, StepWrites DEF store
    <3>3. Holds(sessions, pc[v], req[v])
      BY DEF ServeInv
    <3>4. QED BY <2>1, <3>2, <3>3
  <2>3. CASE pc[v] \notin Held
    BY <2>1, <2>3 DEF Holds, Held, Checked
  <2>4. QED BY <2>2, <2>3
<1>5. Holds(sessions', pc'[w], req'[w])
  BY StepHolds
<1>6. QED BY <1>3, <1>4, <1>5

(* The store is intact while it is empty.                                  *)
LEMMA ServeInit == Init => ServeInv
<1> SUFFICES ASSUME Init PROVE ServeInv
  OBVIOUS
<1>1. FlowInv /\ LockInv /\ NoWaitInv
  BY FlowInit, LockInit
<1>2. WellLinked(sessions, cookies)
  BY DEF Init, WellLinked, DoublyLinked, FreeCookiesCleared, AnchorsAreHeads,
         Heads, NoRing, UsedSessions, UsedCookies, ClearedSession, ClearedCookie
<1>3. UsedSessions(sessions) = {}
  BY DEF Init, UsedSessions, ClearedSession
<1>4. Intact(sessions, cookies)
  BY <1>2, <1>3 DEF Intact, Init
<1>5. \A w \in Worker : Holds(sessions, pc[w], req[w])
  BY DEF Init, Holds, Held, Checked
<1>6. QED BY <1>1, <1>4, <1>5 DEF ServeInv

(* Every step of the workers and of the clock keeps the store.             *)
LEMMA ServeNext ==
  ASSUME ~ FRAUD_DETECTION, ~ LOCK_MAY_FAIL, ServeInv, [Next]_vars
  PROVE  ServeInv'
<1>1. FlowInv' /\ LockInv' /\ NoWaitInv'
  BY FlowStep, LockNext DEF ServeInv
<1>2. Intact(sessions', cookies') /\ \A v \in Worker : Holds(sessions', pc'[v], req'[v])
  <2>1. CASE \E w \in Worker :
               Step(w) \/ AccessChecker(w) \/ Relock(w) \/ OutputFilter(w)
    BY <2>1, ServeStep
  <2>2. CASE Tick \/ UNCHANGED vars
    BY <2>2 DEF Tick, vars, store, ServeInv
  <2>3. QED BY <2>1, <2>2 DEF Next
<1>3. QED BY <1>1, <1>2 DEF ServeInv

(* If locking does not fail and fraud detection is off, the chains stay    *)
(* linked lists with one used session each, and a free slot stays clear,   *)
(* in every interleaving of the hooks of any number of workers.            *)
THEOREM StoreIntactCorrect ==
  ASSUME ~ FRAUD_DETECTION, ~ LOCK_MAY_FAIL
  PROVE  Spec => []StoreIntact
<1>1. ServeInv => StoreIntact
  BY DEF ServeInv, Intact, StoreIntact
<1>2. Init => ServeInv
  BY ServeInit
<1>3. ServeInv /\ [Next]_vars => ServeInv'
  BY ServeNext
<1>4. QED BY <1>1, <1>2, <1>3, PTL DEF Spec

(* Then a request that goes on to the backend goes with the very session   *)
(* its cookie named, whatever the other workers did in between.            *)
THEOREM ServesOwnCorrect ==
  ASSUME ~ FRAUD_DETECTION, ~ LOCK_MAY_FAIL
  PROVE  Spec => ServesOwnSession
<1>1. ServeInv => \A w \in Worker : pc[w] = "authorize" => Current(w)
  BY DEF ServeInv, Holds, Held, Checked, Current, Handle, UsedSessions
<1>2. ServeInv /\ [Next]_vars
        => [\A w \in Worker : pc[w] = "authorize" /\ pc'[w] = "backend"
                                => Current(w)]_vars
  BY <1>1
<1>3. Init => ServeInv
  BY ServeInit
<1>4. ServeInv /\ [Next]_vars => ServeInv'
  BY ServeNext
<1>5. QED BY <1>2, <1>3, <1>4, PTL DEF Spec, ServesOwnSession

(* The walks of the hooks over the cookies of their session end, and none  *)
(* of them loops with the mutex in its hands.                              *)
THEOREM HookWalksEndCorrect ==
  ASSUME ~ FRAUD_DETECTION, ~ LOCK_MAY_FAIL
  PROVE  Spec => []HookWalksEnd
<1>1. ASSUME ServeInv, NEW w \in Worker, pc[w] \in {"authorize", "filter"},
             Endless(Anchor(w))
      PROVE  FALSE
  <2> DEFINE h == Handle(w)
             a == sessions[h].cookiestore_index
  <2>1. /\ h \in UsedSessions(sessions)
        /\ StoreTypeOK(sessions, cookies) /\ WellLinked(sessions, cookies)
    BY <1>1 DEF ServeInv, FlowInv, TypeOK, Intact, Holds, Held, Handle
  <2>2. a # -1 /\ \A c \in Chain(cookies, a) : cookies[c].next # -1
    BY <1>1 DEF Endless, Anchor
  <2>3. /\ a \in CookieSlot
        /\ \A c \in CookieSlot : cookies[c].next \in CookieSlot \cup {-1}
    BY <2>1, <2>2, SlotTypes DEF UsedSessions
  <2>4. a \in Chain(cookies, a)
    BY <2>3, ChainClosed
  <2>5. \E d \in Chain(cookies, a) : cookies[d].next = -1
    BY <2>1, <2>4, WalkEnds
  <2>6. QED BY <2>2, <2>5
<1>2. ServeInv => HookWalksEnd
  BY <1>1 DEF HookWalksEnd
<1>3. Init => ServeInv
  BY ServeInit
<1>4. ServeInv /\ [Next]_vars => ServeInv'
  BY ServeNext
<1>5. QED BY <1>2, <1>3, <1>4, PTL DEF Spec

-----------------------------------------------------------------------------
(* The map.  Under the mutex a worker is alone with the store, so what it  *)
(* writes through a slot in use is an operation of SessionMap.             *)

MapInv ==
  /\ ServeInv
  /\ KeysInv(sessions, cookies)
  /\ UuidsApart(sessions)

(* It says what the map needs.                                             *)
LEMMA MapInvOK == MapInv => MapOK
BY DEF MapInv, ServeInv, FlowInv, TypeOK, Intact, MapOK, StoreOK

(* So it does of the next state.                                           *)
LEMMA MapInvNext == ASSUME MapInv' PROVE MapOK'
BY DEF MapInv, ServeInv, FlowInv, TypeOK, Intact, MapOK, StoreOK

(* A step that writes the store, for a worker that is alone with it.       *)
LEMMA StepInUse ==
  ASSUME ~ FRAUD_DETECTION, ServeInv, NEW w \in Worker,
         Step(w) \/ AccessChecker(w) \/ Relock(w) \/ OutputFilter(w)
  PROVE  Kept \/ CreatesSession \/ \E h \in UsedSessions(sessions) : Operates(h)
<1>1. pc[w] \in Writing => Handle(w) \in UsedSessions(sessions)
  BY DEF ServeInv, NoWaitInv, Writing, Outside, Holds, Held, Handle
<1>2. QED BY <1>1, StepOperates

(* A cookie that is set has a key that no other one of its session has.    *)
LEMMA SetsCookieKeepsKeys ==
  ASSUME MapOK, NEW h \in UsedSessions(sessions),
         NEW key \in CookieName, NEW locid \in Location,
         SetsCookie(h, key, locid)
  PROVE  KeysInv(sessions', cookies')
<1>a. /\ StoreTypeOK(sessions, cookies) /\ WellLinked(sessions, cookies)
      /\ KeysInv(sessions, cookies)
  BY DEF MapOK, StoreOK
<1>1. ASSUME IndexOf(h, key, locid) = -1, NEW c \in CookieSlot,
             NEW value \in CookieValue, Adds(h, c, key, value, locid)
      PROVE  KeysInv(sessions', cookies')
  <2>1. PICK d : d = IndexOf(h, key, locid)
    OBVIOUS
  <2>2. Matching(cookies, sessions[h].cookiestore_index, key, locid) = {}
    BY <1>1, <2>1, LookUp
  <2>3. c \in CookieSlot \ UsedCookies(cookies)
    BY <1>1 DEF Adds, FirstEmptyCookieSlot
  <2>4. QED BY <1>1, <2>2, <2>3, <1>a, AddKeepsKeys DEF Adds
<1>2. ASSUME NEW c, c = IndexOf(h, key, locid), c # -1,
             Deletes(h, c) \/ \E value \in CookieValue : Updates(c, value)
      PROVE  KeysInv(sessions', cookies')
  <2>1. c \in JarOf(sessions, cookies, h) /\ c \in UsedCookies(cookies)
    BY <1>2, LookUp
  <2>2. CASE Deletes(h, c)
    BY <2>1, <2>2, <1>a, DeleteKeepsKeys DEF Deletes
  <2>3. ASSUME NEW value \in CookieValue, Updates(c, value)
        PROVE  KeysInv(sessions', cookies')
    BY <2>1, <2>3, <1>a, UpdateKeepsKeys DEF Updates
  <2>4. QED BY <1>2, <2>2, <2>3
<1>3. QED BY <1>1, <1>2 DEF SetsCookie

(* Every operation keeps the keys of a session apart.                      *)
LEMMA OperatesKeepsKeys ==
  ASSUME MapOK,
         Kept \/ CreatesSession \/ \E h \in UsedSessions(sessions) : Operates(h)
  PROVE  KeysInv(sessions', cookies')
<1>a. /\ StoreTypeOK(sessions, cookies) /\ WellLinked(sessions, cookies)
      /\ KeysInv(sessions, cookies) /\ now \in Nat
      /\ sessions \in [SessionSlot -> session_data_t]
      /\ \A h \in UsedSessions(sessions) :
           h \in SessionSlot /\ sessions[h].uuid \in Uuid
  BY DEF MapOK, StoreOK, StoreTypeOK, UuidsApart, UsedSessions
<1>1. CASE Kept
  BY <1>1, <1>a DEF Kept
<1>2. CASE CreatesSession
  <2>1. PICK i \in SessionSlot, sid \in FreshId, uuid \in FreshUuid :
          CreatesIn(i, sid, uuid)
    BY <1>2 DEF CreatesSession
  <2>2. sid \in SessionId /\ uuid \in Uuid
    BY DEF FreshId, FreshUuid
  <2>3. QED BY <2>1, <2>2, <1>a, CreateKeepsKeys DEF CreatesIn
<1>3. ASSUME NEW h \in UsedSessions(sessions), Operates(h)
      PROVE  KeysInv(sessions', cookies')
  <2>1. CASE Frees(h)
    BY <2>1, <1>a, FreeKeepsKeys DEF Frees
  <2>2. CASE Accesses(h) \/ LogsOn(h)
    <3>1. /\ cookies' = cookies
          /\ sessions' \in [SessionSlot -> session_data_t]
          /\ \A g \in SessionSlot :
               /\ sessions'[g].slot_used = sessions[g].slot_used
               /\ sessions'[g].cookiestore_index = sessions[g].cookiestore_index
      BY <2>2, <1>a DEF Accesses, LogsOn, session_data_t
    <3>2. QED BY <3>1, <1>a, FieldsKeepKeys
  <2>3. CASE \E key \in CookieName, locid \in Location : SetsCookie(h, key, locid)
    BY <2>3, SetsCookieKeepsKeys
  <2>4. CASE RenewsSession(h)
    <3>1. PICK i \in SessionSlot, sid \in FreshId : RenewsInto(h, i, sid)
      BY <2>4 DEF RenewsSession
    <3>2. sid \in SessionId
      BY DEF FreshId
    <3>3. QED BY <3>1, <3>2, <1>a, RenewKeepsKeys DEF RenewsInto
  <2>5. QED BY <1>3, <2>1, <2>2, <2>3, <2>4 DEF Operates
<1>4. QED BY <1>1, <1>2, <1>3

(* Every operation keeps the UUIDs apart: it draws a fresh one, or leaves   *)
(* each where it is, or moves one from a slot that it clears.              *)
LEMMA OperatesKeepsUuids ==
  ASSUME MapOK,
         Kept \/ CreatesSession \/ \E h \in UsedSessions(sessions) : Operates(h)
  PROVE  UuidsApart(sessions')
<1>a. /\ StoreTypeOK(sessions, cookies)
      /\ sessions \in [SessionSlot -> session_data_t]
      /\ \A g \in SessionSlot : sessions[g].slot_used => sessions[g].uuid \in Uuid
      /\ \A g, h \in SessionSlot :
           sessions[g].slot_used /\ sessions[h].slot_used
             /\ sessions[g].uuid = sessions[h].uuid => g = h
  BY DEF MapOK, StoreOK, StoreTypeOK, UuidsApart, UsedSessions
<1>b. ASSUME \A g \in SessionSlot :
               sessions'[g].slot_used => sessions'[g].uuid \in Uuid,
             \A g, h \in SessionSlot :
               sessions'[g].slot_used /\ sessions'[h].slot_used
                 /\ sessions'[g].uuid = sessions'[h].uuid => g = h
      PROVE  UuidsApart(sessions')
  BY <1>b DEF UuidsApart, UsedSessions
<1>1. ASSUME SameSlots PROVE UuidsApart(sessions')
  BY <1>1, <1>a, <1>b DEF SameSlots
<1>2. CASE CreatesSession
  <2>1. PICK i \in SessionSlot, sid \in FreshId, uuid \in FreshUuid :
          CreatesIn(i, sid, uuid)
    BY <1>2 DEF CreatesSession
  <2>2. /\ uuid \in Uuid
        /\ \A g \in SessionSlot : sessions[g].slot_used => sessions[g].uuid # uuid
    BY DEF FreshUuid, UsedSessions
  <2>3. \A g \in SessionSlot :
          sessions'[g] = IF g = i THEN NewSession(sid, uuid, now) ELSE sessions[g]
    BY <2>1, <1>a DEF CreatesIn, SessionsAfterCreate
  <2>4. NewSession(sid, uuid, now).uuid = uuid
    BY DEF NewSession
  <2>5. QED BY <2>2, <2>3, <2>4, <1>a, <1>b
<1>3. ASSUME NEW h \in UsedSessions(sessions), Operates(h)
      PROVE  UuidsApart(sessions')
  <2>a. h \in SessionSlot /\ sessions[h].slot_used
    BY DEF UsedSessions
  <2>1. CASE Frees(h)
    <3>1. \A g \in SessionSlot :
            sessions'[g] = IF g = h THEN ClearedSession ELSE sessions[g]
      BY <2>1, <1>a DEF Frees
    <3>2. ~ ClearedSession.slot_used
      BY DEF ClearedSession
    <3>3. QED BY <3>1, <3>2, <1>a, <1>b
  <2>2. CASE RenewsSession(h)
    <3>1. PICK i \in SessionSlot, sid \in FreshId : RenewsInto(h, i, sid)
      BY <2>2 DEF RenewsSession
    <3> DEFINE s0 == SessionsAfterCreate(sessions, i, sid, sessions[h].uuid, now)
    <3>2. /\ \A g \in SessionSlot :
               s0[g] = IF g = i THEN NewSession(sid, sessions[h].uuid, now)
                       ELSE sessions[g]
          /\ DOMAIN s0 = SessionSlot
      BY <1>a DEF SessionsAfterCreate
    <3>3. \A g \in SessionSlot :
            sessions'[g] = IF g = h THEN ClearedSession
                           ELSE IF g = i THEN CopyContent(s0[i], s0[h])
                           ELSE s0[g]
      BY <3>1, <3>2, <2>a DEF RenewsInto, SessionsAfterRenew
    <3>4. CopyContent(s0[i], s0[h]).uuid = sessions[h].uuid
      BY <3>2, <2>a DEF CopyContent, NewSession
    <3>5. ~ ClearedSession.slot_used
      BY DEF ClearedSession
    <3> HIDE DEF s0
    <3>6. \A g \in SessionSlot :
            /\ g = h => ~ sessions'[g].slot_used
            /\ g # h /\ g = i => sessions'[g].uuid = sessions[h].uuid
            /\ g # h /\ g # i => sessions'[g] = sessions[g]
      BY <3>2, <3>3, <3>4, <3>5
    <3>7. QED BY <3>6, <2>a, <1>a, <1>b
  <2>3. CASE ~ Frees(h) /\ ~ RenewsSession(h)
    <3>1. Touched(h) \/ AddsTo(h) \/ DeletesFrom(h) \/ UpdatesIn(h)
      BY <1>3, <2>3, <2>a, <1>a, SetsCookieWrites
         DEF Operates, Accesses, LogsOn, Touched
    <3>2. QED BY <3>1, <2>a, <1>a, <1>1, WritesSlots
  <2>4. QED BY <2>1, <2>2, <2>3
<1>4. CASE Kept
  BY <1>4, <1>1 DEF Kept, SameSlots
<1>5. QED BY <1>2, <1>3, <1>4

(* The invariant is inductive.                                             *)
LEMMA MapInvStep ==
  ASSUME ~ FRAUD_DETECTION, ~ LOCK_MAY_FAIL, MapInv, [Next]_vars
  PROVE  MapInv'
<1>1. ServeInv'
  BY ServeNext DEF MapInv
<1>2. KeysInv(sessions', cookies') /\ UuidsApart(sessions')
  <2>1. CASE \E w \in Worker :
               Step(w) \/ AccessChecker(w) \/ Relock(w) \/ OutputFilter(w)
    <3>1. Kept \/ CreatesSession \/ \E h \in UsedSessions(sessions) : Operates(h)
      BY <2>1, StepInUse DEF MapInv
    <3>2. QED BY <3>1, MapInvOK, OperatesKeepsKeys, OperatesKeepsUuids
  <2>2. CASE Tick \/ UNCHANGED vars
    BY <2>2 DEF Tick, vars, store, MapInv
  <2>3. QED BY <2>1, <2>2 DEF Next
<1>3. QED BY <1>1, <1>2 DEF MapInv

(* There is no session and no cookie at first.                             *)
LEMMA MapInvInit == Init => MapInv
<1> SUFFICES ASSUME Init PROVE MapInv
  OBVIOUS
<1>1. /\ \A c \in CookieSlot : ~ cookies[c].slot_used
      /\ \A g \in SessionSlot : ~ sessions[g].slot_used
  BY DEF Init, ClearedCookie, ClearedSession
<1>2. UsedSessions(sessions) = {} /\ UsedCookies(cookies) = {}
  BY <1>1 DEF UsedSessions, UsedCookies
<1>3. KeysInv(sessions, cookies) /\ UuidsApart(sessions)
  BY <1>2 DEF KeysInv, CookiesNamed, KeysApart, UuidsApart
<1>4. QED BY <1>3, ServeInit DEF MapInv

-----------------------------------------------------------------------------
(* The status the operation would return is of no interest here.           *)
LEMMA MapNext ==
  /\ Map!Create /\ now' = now => Map!Next
  /\ \A u \in Map!Exists :
       /\ \/ Map!Unlink(u) \/ Map!Validate(u) \/ Map!SetCookie(u)
          \/ Map!Renew(u) \/ Map!Logon(u)
       /\ now' = now
       => Map!Next
<1>1. Map!Returning("STATUS_OK") /\ now' = now => Map!Next
  BY DEF Map!Operation, Map!Next
<1>2. QED BY <1>1 DEF Map!Returning

(* A new session is created in the map.                                    *)
LEMMA CreatesMaps ==
  ASSUME MapOK, MapOK', CreatesSession PROVE Map!Create
<1>1. PICK i \in SessionSlot, sid \in FreshId, uuid \in FreshUuid :
        CreatesIn(i, sid, uuid)
  BY DEF CreatesSession
<1>2. uuid \in Uuid \ Uuids(sessions)
  BY DEF FreshUuid, Uuids
<1>3. QED BY <1>1, <1>2, CreateMaps

(* An operation on the session in a slot is one on that of its UUID.       *)
LEMMA OperatesMaps ==
  ASSUME MapOK, MapOK', NEW h \in UsedSessions(sessions), Operates(h)
  PROVE  LET u == sessions[h].uuid
         IN  \/ Map!Unlink(u) \/ Map!Validate(u) \/ Map!SetCookie(u)
             \/ Map!Renew(u) \/ Map!Logon(u) \/ RenewFallsShort(u)
<1>1. CASE Frees(h)
  BY <1>1, UnlinkMaps
<1>2. CASE ~ mshield_shm_timeout(sessions[h], now) /\ Accesses(h)
  BY <1>2, ValidateMaps
<1>3. CASE LogsOn(h)
  BY <1>3, LogonMaps
<1>4. ASSUME NEW key \in CookieName, NEW locid \in Location,
             SetsCookie(h, key, locid)
      PROVE  Map!SetCookie(sessions[h].uuid)
  <2>1. ASSUME IndexOf(h, key, locid) = -1, NEW c \in CookieSlot,
               NEW value \in CookieValue, Adds(h, c, key, value, locid)
        PROVE  Map!SetCookie(sessions[h].uuid)
    BY <2>1, AddedMaps
  <2>2. ASSUME NEW c, c = IndexOf(h, key, locid), c # -1,
               Deletes(h, c) \/ \E value \in CookieValue : Updates(c, value)
        PROVE  Map!SetCookie(sessions[h].uuid)
    BY <2>2, DeletedMaps, UpdatedMaps
  <2>3. QED BY <1>4, <2>1, <2>2 DEF SetsCookie
<1>5. CASE RenewsSession(h)
  <2>1. PICK i \in SessionSlot, sid \in FreshId : RenewsInto(h, i, sid)
    BY <1>5 DEF RenewsSession
  <2>2. QED BY <2>1, RenewMaps
<1>6. QED BY <1>1, <1>2, <1>3, <1>4, <1>5 DEF Operates

(* A renewal that falls short of the map's.                                *)
RenewsShort == (\E u \in Map!Exists : RenewFallsShort(u)) /\ now' = now

(* A step leaves the store and the clock alone, or is one of the map, or a *)
(* renewal that falls short of one.                                        *)
LEMMA StepMaps ==
  ASSUME ~ FRAUD_DETECTION, MapInv, MapInv', Next
  PROVE  UNCHANGED <<store, now>> \/ Map!Next \/ RenewsShort
<1>a. MapOK /\ MapOK'
  BY MapInvOK, MapInvNext
<1>1. ASSUME NEW w \in Worker,
             Step(w) \/ AccessChecker(w) \/ Relock(w) \/ OutputFilter(w)
      PROVE  UNCHANGED <<store, now>> \/ Map!Next \/ RenewsShort
  <2>1. now' = now
    BY <1>1, StepTo DEF MapInv, ServeInv
  <2>2. Kept \/ CreatesSession \/ \E h \in UsedSessions(sessions) : Operates(h)
    BY <1>1, StepInUse DEF MapInv
  <2>3. CASE Kept
    BY <2>1, <2>3 DEF Kept, store
  <2>4. CASE CreatesSession
    BY <2>1, <2>4, <1>a, CreatesMaps, MapNext
  <2>5. ASSUME NEW h \in UsedSessions(sessions), Operates(h)
        PROVE  Map!Next \/ RenewsShort
    <3>1. PICK u : u = sessions[h].uuid
      OBVIOUS
    <3>2. \/ Map!Unlink(u) \/ Map!Validate(u) \/ Map!SetCookie(u)
          \/ Map!Renew(u) \/ Map!Logon(u) \/ RenewFallsShort(u)
      BY <2>5, <3>1, <1>a, OperatesMaps
    <3>3. u \in Map!Exists
      BY <3>1, <1>a, MapFacts
    <3>4. QED BY <2>1, <3>2, <3>3, MapNext DEF RenewsShort
  <2>6. QED BY <2>2, <2>3, <2>4, <2>5
<1>2. CASE Tick
  <2>1. Map!Tick
    BY <1>2 DEF Tick, Map!Tick, LiveMap, store
  <2>2. QED BY <2>1 DEF Map!Next
<1>3. QED BY <1>1, <1>2 DEF Next

(* If locking does not fail and fraud detection is off, the hooks of any   *)
(* number of workers, interleaved as they may be, do to the sessions what  *)
(* a sequence of operations on one map does, but for the two renewals      *)
(* that fall short of one.                                                 *)
THEOREM HooksImplementMapCorrect ==
  ASSUME ~ FRAUD_DETECTION, ~ LOCK_MAY_FAIL
  PROVE  Spec => HooksImplementMap
<1>1. MapInv /\ [Next]_vars => MapInv'
  BY MapInvStep
<1>2. MapInv /\ MapInv' /\ [Next]_vars
        => [\/ UNCHANGED <<store, now>>
            \/ Map!Next
            \/ (\E u \in Map!Exists : RenewFallsShort(u)) /\ now' = now]_vars
  BY StepMaps DEF RenewsShort
<1>3. Init => MapInv
  BY MapInvInit
<1>4. Init => Map!Init
  BY InitMaps DEF Init
<1>5. QED BY <1>1, <1>2, <1>3, <1>4, PTL DEF Spec, HooksImplementMap

=============================================================================
