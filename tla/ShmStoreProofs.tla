---------------------------- MODULE ShmStoreProofs ----------------------------
(***************************************************************************)
(* Lemmas about the operators of ShmStore: what a chain is, and that every *)
(* function that writes the two arrays keeps their types and WellLinked.   *)
(***************************************************************************)
EXTENDS ShmStore, TLAPS

-----------------------------------------------------------------------------
(* Chains.                                                                 *)

(* A chain starts at its anchor, consists of cookie slots and is closed    *)
(* under `next': the walk from the anchor sees all of it.                  *)
LEMMA ChainClosed ==
  ASSUME NEW ck, NEW a \in CookieSlot,
         \A c \in CookieSlot : ck[c].next \in CookieSlot \cup {-1}
  PROVE  /\ a \in Chain(ck, a)
         /\ Chain(ck, a) \subseteq CookieSlot
         /\ ClosedUnderNext(ck, Chain(ck, a))
<1>1. a # -1
  BY CountsAssumption DEF CookieSlot
<1>2. a \in Chain(ck, a)
  BY <1>1 DEF Chain
<1>3. Chain(ck, a) \subseteq CookieSlot
  BY DEF Chain
<1>4. ASSUME NEW c \in Chain(ck, a), ck[c].next # -1
      PROVE  ck[c].next \in Chain(ck, a)
  <2>1. ck[c].next \in CookieSlot
    BY <1>3, <1>4
  <2>2. ASSUME NEW S \in SUBSET CookieSlot, a \in S, ClosedUnderNext(ck, S)
        PROVE  ck[c].next \in S
    <3>1. c \in S
      BY <2>2, <1>4 DEF Chain
    <3>2. QED BY <3>1, <2>2, <1>4 DEF ClosedUnderNext
  <2>3. QED BY <1>1, <2>1, <2>2 DEF Chain
<1>5. QED BY <1>2, <1>3, <1>4 DEF ClosedUnderNext

(* A chain is the least such set.                                          *)
LEMMA ChainLeast ==
  ASSUME NEW ck, NEW a \in CookieSlot, NEW S \in SUBSET CookieSlot,
         a \in S, ClosedUnderNext(ck, S)
  PROVE  Chain(ck, a) \subseteq S
BY DEF Chain

(* From the null index there is nothing to walk.                           *)
LEMMA ChainNull == ASSUME NEW ck PROVE Chain(ck, -1) = {}
BY DEF Chain

(* Past its anchor, a slot of a chain is the `next' of another one.        *)
LEMMA ChainPred ==
  ASSUME NEW ck, NEW a \in CookieSlot, NEW c \in Chain(ck, a), c # a,
         \A d \in CookieSlot : ck[d].next \in CookieSlot \cup {-1}
  PROVE  \E d \in Chain(ck, a) : ck[d].next = c
<1> SUFFICES ASSUME \A d \in Chain(ck, a) : ck[d].next # c PROVE FALSE
  OBVIOUS
<1> DEFINE S == Chain(ck, a) \ {c}
<1>1. a \in S /\ S \in SUBSET CookieSlot
  BY ChainClosed
<1>2. ClosedUnderNext(ck, S)
  BY ChainClosed DEF ClosedUnderNext
<1>3. Chain(ck, a) \subseteq S
  BY <1>1, <1>2, ChainLeast
<1>4. QED BY <1>3

(* One step of a walk: the anchor, then the chain from its `next'.         *)
LEMMA ChainStep ==
  ASSUME NEW ck, NEW a \in CookieSlot,
         \A c \in CookieSlot : ck[c].next \in CookieSlot \cup {-1}
  PROVE  Chain(ck, a) \subseteq {a} \cup Chain(ck, ck[a].next)
<1> DEFINE S == {a} \cup Chain(ck, ck[a].next)
<1>1. S \in SUBSET CookieSlot
  BY DEF Chain
<1>2. ASSUME NEW c \in S, ck[c].next # -1
      PROVE  ck[c].next \in S
  <2>1. CASE c \in Chain(ck, ck[a].next)
    <3>1. ck[a].next \in CookieSlot
      BY <2>1, ChainNull
    <3>2. QED BY <2>1, <3>1, <1>2, ChainClosed DEF ClosedUnderNext
  <2>2. CASE c = a
    BY <2>2, <1>2, ChainClosed
  <2>3. QED BY <2>1, <2>2
<1>3. ClosedUnderNext(ck, S)
  BY <1>2 DEF ClosedUnderNext
<1>4. QED BY <1>1, <1>3, ChainLeast

-----------------------------------------------------------------------------
(* Types.                                                                  *)

(* The fields of a slot of each array have the types of its record.        *)
LEMMA SlotTypes ==
  ASSUME NEW sess, NEW ck, StoreTypeOK(sess, ck)
  PROVE  /\ \A c \in CookieSlot :
              /\ ck[c].next \in CookieSlot \cup {-1}
              /\ ck[c].prev \in CookieSlot \cup {-1}
         /\ \A h \in SessionSlot :
              sess[h].cookiestore_index \in CookieSlot \cup {-1}
         /\ \A c \in CookieSlot : c # -1
         /\ \A h \in SessionSlot : h # -1
<1>1. \A c \in CookieSlot : ck[c] \in cookie_t
  BY DEF StoreTypeOK
<1>2. \A h \in SessionSlot : sess[h] \in session_data_t
  BY DEF StoreTypeOK
<1>3. /\ \A c \in CookieSlot : c # -1
      /\ \A h \in SessionSlot : h # -1
  BY CountsAssumption DEF CookieSlot, SessionSlot
<1>4. QED BY <1>1, <1>2, <1>3 DEF cookie_t, session_data_t

(* The contents memset and mshield_cookie_clear leave are well typed.      *)
LEMMA ClearedTypes ==
  /\ ClearedSession \in session_data_t
  /\ ClearedCookie \in cookie_t
BY CountsAssumption
   DEF ClearedSession, session_data_t, ClearedCookie, cookie_t, CookieSlot

(* A new session is well typed when it is made from typed values.          *)
LEMMA NewSessionType ==
  ASSUME NEW sid \in SessionId, NEW uuid \in Uuid, NEW now \in Nat
  PROVE  NewSession(sid, uuid, now) \in session_data_t
BY DEF NewSession, session_data_t

-----------------------------------------------------------------------------
(* A renewed session keeps its own slot and gets the old anchor.           *)
LEMMA CopyContentType ==
  ASSUME NEW new \in session_data_t, NEW old \in session_data_t
  PROVE  /\ CopyContent(new, old) \in session_data_t
         /\ CopyContent(new, old).slot_used = new.slot_used
         /\ CopyContent(new, old).cookiestore_index = old.cookiestore_index
BY DEF CopyContent, session_data_t

-----------------------------------------------------------------------------
(* mshield_shm_free of a used session leaves the other lists alone.        *)
LEMMA FreeKeepsStore ==
  ASSUME NEW sess, NEW ck, NEW h \in UsedSessions(sess),
         StoreTypeOK(sess, ck), WellLinked(sess, ck)
  PROVE  LET s1 == [sess EXCEPT ![h] = ClearedSession]
             k1 == mshield_shm_free(ck, sess[h])
         IN  StoreTypeOK(s1, k1) /\ WellLinked(s1, k1)
<1> DEFINE a  == sess[h].cookiestore_index
           R  == Chain(ck, a)
           s1 == [sess EXCEPT ![h] = ClearedSession]
           k1 == mshield_shm_free(ck, sess[h])
<1>a. /\ \A c \in CookieSlot :
           /\ ck[c].next \in CookieSlot \cup {-1}
           /\ ck[c].prev \in CookieSlot \cup {-1}
           /\ c # -1
      /\ a \in CookieSlot \cup {-1}
      /\ h \in SessionSlot
      /\ UsedCookies(ck) \subseteq CookieSlot
  BY SlotTypes DEF UsedSessions, UsedCookies
<1>b. /\ DoublyLinked(ck)
      /\ FreeCookiesCleared(ck)
      /\ AnchorsAreHeads(sess, ck)
      /\ NoRing(ck)
  BY DEF WellLinked
<1>1. \A c \in CookieSlot : k1[c] = IF c \in R THEN ClearedCookie ELSE ck[c]
  BY DEF mshield_shm_free, mshield_cookiestore_free
<1>2. UsedCookies(k1) = UsedCookies(ck) \ R
  BY <1>1 DEF UsedCookies, ClearedCookie
<1>3. \A g \in SessionSlot : s1[g] = IF g = h THEN ClearedSession ELSE sess[g]
  BY DEF StoreTypeOK
<1>4. UsedSessions(s1) = UsedSessions(sess) \ {h}
  BY <1>3, <1>a DEF UsedSessions, ClearedSession
<1>5. a # -1 => a \in Heads(ck)
  BY <1>b DEF AnchorsAreHeads
<1>6. R \subseteq UsedCookies(ck)
  <2>1. CASE a = -1
    BY <2>1, ChainNull
  <2>2. CASE a # -1
    <3>1. ClosedUnderNext(ck, UsedCookies(ck))
      BY <1>b DEF ClosedUnderNext, DoublyLinked
    <3>2. QED BY <2>2, <1>5, <1>a, <3>1, ChainLeast DEF Heads
  <2>3. QED BY <2>1, <2>2
<1>7. ASSUME NEW c \in UsedCookies(ck) \ R
      PROVE  ck[c].next \notin R /\ ck[c].prev \notin R
  <2>1. CASE a = -1
    BY <2>1, ChainNull
  <2>2. CASE a # -1
    <3>0. a \in CookieSlot /\ c \in CookieSlot
      BY <2>2, <1>a
    <3>1. ASSUME ck[c].next \in R PROVE FALSE
      <4>1. ck[c].next # -1 /\ ck[ck[c].next].prev = c
        BY <3>1, <1>6, <1>a, <1>b DEF DoublyLinked
      <4>2. ck[c].next # a
        BY <4>1, <1>5, <2>2, <3>0, <1>a DEF Heads
      <4>3. PICK d \in R : ck[d].next = ck[c].next
        BY <3>0, <3>1, <4>2, <1>a, ChainPred
      <4>4. ck[ck[d].next].prev = d
        BY <4>1, <4>3, <1>6, <1>b DEF DoublyLinked
      <4>5. QED BY <4>1, <4>3, <4>4
    <3>2. ASSUME ck[c].prev \in R PROVE FALSE
      <4>1. ck[ck[c].prev].next = c
        BY <3>2, <1>6, <1>a, <1>b DEF DoublyLinked
      <4>2. QED BY <3>0, <3>2, <4>1, <1>a, ChainClosed DEF ClosedUnderNext
    <3>3. QED BY <3>1, <3>2
  <2>3. QED BY <2>1, <2>2
<1>8. StoreTypeOK(s1, k1)
  <2>1. k1 \in [CookieSlot -> cookie_t]
    BY <1>1, ClearedTypes
       DEF StoreTypeOK, mshield_shm_free, mshield_cookiestore_free
  <2>2. QED BY <2>1, ClearedTypes DEF StoreTypeOK
<1>9. DoublyLinked(k1)
  BY <1>1, <1>2, <1>7, <1>a, <1>b DEF DoublyLinked
<1>10. FreeCookiesCleared(k1)
  BY <1>1, <1>2, <1>b DEF FreeCookiesCleared
<1>11. Heads(k1) = Heads(ck) \ R
  BY <1>1, <1>2, <1>a DEF Heads
<1>12. AnchorsAreHeads(s1, k1)
  <2>1. ASSUME NEW g \in UsedSessions(s1), s1[g].cookiestore_index # -1
        PROVE  s1[g].cookiestore_index \in Heads(k1)
    <3> DEFINE b == sess[g].cookiestore_index
    <3>1. g \in UsedSessions(sess) /\ g # h /\ s1[g] = sess[g]
      BY <1>3, <1>4 DEF UsedSessions
    <3>2. b \in Heads(ck) /\ b # a
      BY <3>1, <2>1, <1>b DEF AnchorsAreHeads
    <3>3. b \notin R
      <4>1. ASSUME b \in R PROVE FALSE
        <5>1. a \in CookieSlot
          BY <4>1, ChainNull, <1>a
        <5>2. PICK d \in R : ck[d].next = b
          BY <4>1, <5>1, <3>2, <1>a, ChainPred
        <5>3. ck[b].prev = d /\ d # -1
          BY <5>2, <3>2, <1>6, <1>a, <1>b DEF DoublyLinked, Heads
        <5>4. QED BY <5>3, <3>2 DEF Heads
      <4>2. QED BY <4>1
    <3>4. QED BY <3>1, <3>2, <3>3, <1>11
  <2>2. ASSUME NEW c \in Heads(k1)
        PROVE  \E g \in UsedSessions(s1) : s1[g].cookiestore_index = c
    <3>1. c \in Heads(ck) /\ c \notin R
      BY <1>11
    <3>2. PICK g \in UsedSessions(sess) : sess[g].cookiestore_index = c
      BY <3>1, <1>b DEF AnchorsAreHeads
    <3>3. c \in CookieSlot
      BY <3>1, <1>a DEF Heads
    <3>4. g # h
      BY <3>1, <3>2, <3>3, <1>a, ChainClosed
    <3>5. QED BY <3>2, <3>4, <1>3, <1>4 DEF UsedSessions
  <2>3. ASSUME NEW f \in UsedSessions(s1), NEW g \in UsedSessions(s1),
               s1[f].cookiestore_index = s1[g].cookiestore_index
        PROVE  f = g \/ s1[f].cookiestore_index = -1
    BY <2>3, <1>3, <1>4, <1>b DEF AnchorsAreHeads, UsedSessions
  <2>4. QED BY <2>1, <2>2, <2>3 DEF AnchorsAreHeads
<1>13. NoRing(k1)
  <2> SUFFICES ASSUME NEW S \in SUBSET UsedCookies(k1), S # {}
               PROVE  /\ \E c \in S : k1[c].prev \notin S
                      /\ \E c \in S : k1[c].next \notin S
    BY DEF NoRing
  <2>1. S \in SUBSET UsedCookies(ck) /\ \A c \in S : k1[c] = ck[c]
    BY <1>1, <1>2, <1>a
  <2>2. QED BY <2>1, <1>b DEF NoRing
<1>14. QED BY <1>8, <1>9, <1>10, <1>12, <1>13 DEF WellLinked

-----------------------------------------------------------------------------
(* Setting up a session in a free slot: it has no cookies.                 *)
LEMMA SetUpKeepsStore ==
  ASSUME NEW sess, NEW ck, NEW i \in SessionSlot \ UsedSessions(sess),
         NEW sid \in SessionId, NEW uuid \in Uuid, NEW now \in Nat,
         StoreTypeOK(sess, ck), WellLinked(sess, ck)
  PROVE  LET s1 == SessionsAfterCreate(sess, i, sid, uuid, now)
         IN  StoreTypeOK(s1, ck) /\ WellLinked(s1, ck)
<1> DEFINE s1 == SessionsAfterCreate(sess, i, sid, uuid, now)
<1>1. \A g \in SessionSlot :
        s1[g] = IF g = i THEN NewSession(sid, uuid, now) ELSE sess[g]
  BY DEF StoreTypeOK, SessionsAfterCreate
<1>2. UsedSessions(s1) = UsedSessions(sess) \cup {i}
  BY <1>1 DEF UsedSessions, NewSession
<1>3. s1[i].cookiestore_index = -1
  BY <1>1 DEF NewSession
<1>4. StoreTypeOK(s1, ck)
  BY NewSessionType DEF StoreTypeOK, SessionsAfterCreate
<1>5. AnchorsAreHeads(s1, ck)
  <2>1. \A c \in Heads(ck) : c # -1
    BY SlotTypes DEF Heads, UsedCookies
  <2>2. QED BY <1>1, <1>2, <1>3, <2>1
             DEF AnchorsAreHeads, UsedSessions, WellLinked
<1>6. QED BY <1>4, <1>5 DEF WellLinked

(* create_new_shm_session in slot i, which it frees first if it is used.   *)
LEMMA CreateKeepsStore ==
  ASSUME NEW sess, NEW ck, NEW i \in SessionSlot,
         NEW sid \in SessionId, NEW uuid \in Uuid, NEW now \in Nat,
         StoreTypeOK(sess, ck), WellLinked(sess, ck)
  PROVE  LET s1 == SessionsAfterCreate(sess, i, sid, uuid, now)
             k1 == CookiesAfterCreate(sess, ck, i)
         IN  StoreTypeOK(s1, k1) /\ WellLinked(s1, k1)
<1>1. CASE ~ sess[i].slot_used
  BY <1>1, SetUpKeepsStore DEF CookiesAfterCreate, UsedSessions
<1>2. CASE sess[i].slot_used
  <2> DEFINE s0 == [sess EXCEPT ![i] = ClearedSession]
             k1 == CookiesAfterCreate(sess, ck, i)
  <2>1. i \in UsedSessions(sess) /\ k1 = mshield_shm_free(ck, sess[i])
    BY <1>2 DEF CookiesAfterCreate, UsedSessions
  <2>2. StoreTypeOK(s0, k1) /\ WellLinked(s0, k1)
    BY <2>1, FreeKeepsStore
  <2>3. i \notin UsedSessions(s0)
    BY DEF UsedSessions, ClearedSession, StoreTypeOK
  <2>4. SessionsAfterCreate(s0, i, sid, uuid, now)
          = SessionsAfterCreate(sess, i, sid, uuid, now)
    BY DEF SessionsAfterCreate, StoreTypeOK
  <2>5. QED BY <2>2, <2>3, <2>4, SetUpKeepsStore
<1>3. QED BY <1>1, <1>2

(* Writing session fields other than slot_used and cookiestore_index.      *)
LEMMA FieldsKeepStore ==
  ASSUME NEW sess, NEW ck, NEW s1 \in [SessionSlot -> session_data_t],
         StoreTypeOK(sess, ck), WellLinked(sess, ck),
         \A g \in SessionSlot :
           /\ s1[g].slot_used = sess[g].slot_used
           /\ s1[g].cookiestore_index = sess[g].cookiestore_index
  PROVE  StoreTypeOK(s1, ck) /\ WellLinked(s1, ck)
<1>1. UsedSessions(s1) = UsedSessions(sess)
  BY DEF UsedSessions
<1>2. AnchorsAreHeads(s1, ck)
  BY <1>1 DEF AnchorsAreHeads, WellLinked, UsedSessions
<1>3. QED BY <1>2 DEF WellLinked, StoreTypeOK

(* mshield_session_renew of h into i: the list changes owner, or, when the *)
(* new session was set up in the very slot of the old one, is freed.       *)
LEMMA RenewKeepsStore ==
  ASSUME NEW sess, NEW ck, NEW h \in UsedSessions(sess), NEW i \in SessionSlot,
         NEW sid \in SessionId, NEW now \in Nat, sess[h].uuid \in Uuid,
         StoreTypeOK(sess, ck), WellLinked(sess, ck)
  PROVE  LET s1 == SessionsAfterRenew(sess, h, i, sid, now)
             k1 == CookiesAfterCreate(sess, ck, i)
         IN  StoreTypeOK(s1, k1) /\ WellLinked(s1, k1)
<1> DEFINE s0 == SessionsAfterCreate(sess, i, sid, sess[h].uuid, now)
           s1 == SessionsAfterRenew(sess, h, i, sid, now)
           k1 == CookiesAfterCreate(sess, ck, i)
<1>1. StoreTypeOK(s0, k1) /\ WellLinked(s0, k1)
  BY CreateKeepsStore
<1>2. h \in SessionSlot
  BY DEF UsedSessions
<1>3. \A g \in SessionSlot :
        s0[g] = IF g = i THEN NewSession(sid, sess[h].uuid, now) ELSE sess[g]
  BY DEF StoreTypeOK, SessionsAfterCreate
<1>4. CASE i = h
  <2>1. s1 = [s0 EXCEPT ![h] = ClearedSession]
    BY <1>1, <1>4 DEF SessionsAfterRenew, StoreTypeOK
  <2>2. h \in UsedSessions(s0)
    BY <1>2, <1>3, <1>4 DEF UsedSessions, NewSession
  <2>3. mshield_shm_free(k1, s0[h]) = k1
    <3>1. s0[h].cookiestore_index = -1
      BY <1>2, <1>3, <1>4 DEF NewSession
    <3>2. QED BY <3>1, <1>1, ChainNull
               DEF mshield_shm_free, mshield_cookiestore_free, StoreTypeOK
  <2>4. QED BY <1>1, <2>1, <2>2, <2>3, FreeKeepsStore
<1>5. CASE i # h
  <2> DEFINE renewed == CopyContent(s0[i], s0[h])
  <2>1. \A g \in SessionSlot : s1[g] = IF g = h THEN ClearedSession
                                       ELSE IF g = i THEN renewed ELSE s0[g]
    BY <1>1, <1>2, <1>5 DEF SessionsAfterRenew, StoreTypeOK
  <2>2. s0[i] \in session_data_t /\ s0[h] \in session_data_t
    BY <1>1, <1>2 DEF StoreTypeOK
  <2>3. /\ renewed.slot_used
        /\ renewed.cookiestore_index = s0[h].cookiestore_index
        /\ renewed \in session_data_t
        /\ s0[i].cookiestore_index = -1 /\ s0[i].slot_used /\ s0[h].slot_used
    <3>1. s0[i].cookiestore_index = -1 /\ s0[i].slot_used /\ s0[h].slot_used
      BY <1>2, <1>3, <1>5 DEF NewSession, UsedSessions
    <3>2. QED BY <2>2, <3>1, CopyContentType
  <2>4. UsedSessions(s1) = UsedSessions(s0) \ {h} /\ h \in UsedSessions(s0)
          /\ i \in UsedSessions(s0)
    BY <1>2, <1>5, <2>1, <2>3 DEF UsedSessions, ClearedSession
  <2>5. StoreTypeOK(s1, k1)
    <3>1. s1 \in [SessionSlot -> session_data_t]
      <4>1. DOMAIN s1 = SessionSlot /\ s1 = [g \in SessionSlot |-> s1[g]]
        BY <1>1 DEF SessionsAfterRenew, StoreTypeOK
      <4>2. \A g \in SessionSlot : s1[g] \in session_data_t
        BY <2>1, <2>3, <1>1, ClearedTypes DEF StoreTypeOK
      <4>3. QED BY <4>1, <4>2
    <3>2. QED BY <3>1, <1>1 DEF StoreTypeOK
  <2>6. AnchorsAreHeads(s1, k1)
    <3>1. AnchorsAreHeads(s0, k1) /\ \A c \in Heads(k1) : c # -1
      BY <1>1, SlotTypes DEF WellLinked, Heads, UsedCookies
    <3>2. \A g \in UsedSessions(s1) :
            \E f \in UsedSessions(s0) :
              /\ s1[g].cookiestore_index = s0[f].cookiestore_index
              /\ f = IF g = i THEN h ELSE g
      BY <2>1, <2>3, <2>4 DEF UsedSessions
    <3>3. \A c \in Heads(k1) :
            \E g \in UsedSessions(s1) : s1[g].cookiestore_index = c
      <4> SUFFICES ASSUME NEW c \in Heads(k1)
                   PROVE  \E g \in UsedSessions(s1) :
                            s1[g].cookiestore_index = c
        OBVIOUS
      <4>1. PICK f \in UsedSessions(s0) : s0[f].cookiestore_index = c
        BY <3>1 DEF AnchorsAreHeads
      <4>2. CASE f = h
        BY <4>1, <4>2, <1>5, <2>1, <2>3, <2>4 DEF UsedSessions
      <4>3. CASE f # h
        <5>1. f # i
          BY <4>1, <3>1, <2>3
        <5>2. QED BY <4>1, <4>3, <5>1, <2>1, <2>4 DEF UsedSessions
      <4>4. QED BY <4>2, <4>3
    <3>4. \A g \in UsedSessions(s1) : s1[g].cookiestore_index # -1 =>
            s1[g].cookiestore_index \in Heads(k1)
      BY <3>1, <3>2 DEF AnchorsAreHeads
    <3>5. \A f, g \in UsedSessions(s1) :
            s1[f].cookiestore_index = s1[g].cookiestore_index
              => f = g \/ s1[f].cookiestore_index = -1
      <4> SUFFICES ASSUME NEW f \in UsedSessions(s1), NEW g \in UsedSessions(s1),
                          s1[f].cookiestore_index = s1[g].cookiestore_index,
                          s1[f].cookiestore_index # -1
                   PROVE  f = g
        OBVIOUS
      <4> DEFINE old(x) == IF x = i THEN h ELSE x
      <4>1. /\ old(f) \in UsedSessions(s0) /\ old(g) \in UsedSessions(s0)
            /\ s0[old(f)].cookiestore_index = s0[old(g)].cookiestore_index
            /\ s0[old(f)].cookiestore_index # -1
        BY <3>2
      <4>2. old(f) = old(g)
        BY <4>1, <3>1 DEF AnchorsAreHeads
      <4>3. QED BY <4>2, <2>4
    <3>6. QED BY <3>3, <3>4, <3>5 DEF AnchorsAreHeads
  <2>7. QED BY <1>1, <2>5, <2>6 DEF WellLinked
<1>6. QED BY <1>4, <1>5

-----------------------------------------------------------------------------
(* store_cookie_into_session.                                              *)

(* The chain of a used session consists of used slots, and its anchor is   *)
(* the only one without a predecessor.                                     *)
LEMMA JarInUse ==
  ASSUME NEW sess, NEW ck, NEW h \in UsedSessions(sess),
         NEW c \in Chain(ck, sess[h].cookiestore_index),
         StoreTypeOK(sess, ck), DoublyLinked(ck), AnchorsAreHeads(sess, ck)
  PROVE  /\ c \in UsedCookies(ck)
         /\ ck[c].prev = -1 <=> c = sess[h].cookiestore_index
<1> DEFINE a == sess[h].cookiestore_index
<1>1. /\ \A d \in CookieSlot : ck[d].next \in CookieSlot \cup {-1} /\ d # -1
      /\ a \in CookieSlot \cup {-1}
      /\ UsedCookies(ck) \subseteq CookieSlot
  BY SlotTypes DEF UsedSessions, UsedCookies
<1>2. a # -1
  BY ChainNull
<1>3. a \in Heads(ck)
  BY <1>2 DEF AnchorsAreHeads
<1>4. ClosedUnderNext(ck, UsedCookies(ck))
  BY DEF ClosedUnderNext, DoublyLinked
<1>5. Chain(ck, a) \subseteq UsedCookies(ck)
  BY <1>1, <1>2, <1>3, <1>4, ChainLeast DEF Heads
<1>6. ASSUME c # a PROVE ck[c].prev # -1
  <2>1. PICK d \in Chain(ck, a) : ck[d].next = c
    BY <1>1, <1>2, <1>6, ChainPred
  <2>2. ck[c].prev = d /\ d # -1
    BY <2>1, <1>1, <1>5 DEF DoublyLinked
  <2>3. QED BY <2>2
<1>7. QED BY <1>3, <1>5, <1>6 DEF Heads

(* Deleting a cookie of a used session.                                    *)
LEMMA DeleteKeepsStore ==
  ASSUME NEW sess, NEW ck, NEW h \in UsedSessions(sess),
         NEW c \in Chain(ck, sess[h].cookiestore_index),
         StoreTypeOK(sess, ck), WellLinked(sess, ck)
  PROVE  LET s1 == [sess EXCEPT ![h].cookiestore_index =
                      AnchorAfterDelete(ck, sess[h].cookiestore_index, c)]
             k1 == DeleteCookie(ck, c)
         IN  StoreTypeOK(s1, k1) /\ WellLinked(s1, k1)
<1> DEFINE a  == sess[h].cookiestore_index
           p  == ck[c].prev
           n  == ck[c].next
           s1 == [sess EXCEPT ![h].cookiestore_index =
                    AnchorAfterDelete(ck, a, c)]
           k1 == DeleteCookie(ck, c)
<1>a. /\ \A d \in CookieSlot :
           /\ ck[d].next \in CookieSlot \cup {-1}
           /\ ck[d].prev \in CookieSlot \cup {-1}
           /\ ck[d] \in cookie_t
           /\ d # -1
      /\ h \in SessionSlot
      /\ UsedCookies(ck) \subseteq CookieSlot
  BY SlotTypes DEF UsedSessions, UsedCookies, StoreTypeOK
<1>b. /\ DoublyLinked(ck)
      /\ FreeCookiesCleared(ck)
      /\ AnchorsAreHeads(sess, ck)
      /\ NoRing(ck)
  BY DEF WellLinked
<1>c. c \in UsedCookies(ck) /\ c \in CookieSlot /\ (p = -1 <=> c = a)
  BY <1>a, <1>b, JarInUse
<1>d. /\ p # -1 => p \in UsedCookies(ck) /\ ck[p].next = c
      /\ n # -1 => n \in UsedCookies(ck) /\ ck[n].prev = c
  BY <1>b, <1>c DEF DoublyLinked
<1>e. p # c /\ n # c
  <2>1. {c} \in SUBSET UsedCookies(ck) /\ {c} # {}
    BY <1>c
  <2>2. (\E d \in {c} : ck[d].prev \notin {c})
          /\ (\E d \in {c} : ck[d].next \notin {c})
    BY <2>1, <1>b DEF NoRing
  <2>3. QED BY <2>2
<1>f. ASSUME p = n PROVE p = -1
  <2> SUFFICES ASSUME p # -1 PROVE FALSE
    OBVIOUS
  <2>1. {c, p} \in SUBSET UsedCookies(ck) /\ {c, p} # {}
    BY <1>c, <1>d
  <2>2. \E d \in {c, p} : ck[d].next \notin {c, p}
    BY <2>1, <1>b DEF NoRing
  <2>3. QED BY <2>2, <1>d, <1>f
<1>1. /\ k1 \in [CookieSlot -> cookie_t]
      /\ k1[c] = ClearedCookie
      /\ \A d \in CookieSlot \ {c} :
           /\ k1[d].slot_used = ck[d].slot_used
           /\ k1[d].next = IF d = p THEN n ELSE ck[d].next
           /\ k1[d].prev = IF d = n THEN p ELSE ck[d].prev
           /\ d \notin {p, n} => k1[d] = ck[d]
  <2> DEFINE k2 == IF p = -1 THEN ck ELSE [ck EXCEPT ![p].next = n]
             k3 == IF n = -1 THEN k2 ELSE [k2 EXCEPT ![n].prev = p]
  <2>0. k1 = [k3 EXCEPT ![c] = ClearedCookie]
    BY DEF DeleteCookie
  <2>1. /\ k2 \in [CookieSlot -> cookie_t]
        /\ \A d \in CookieSlot :
             /\ k2[d].slot_used = ck[d].slot_used
             /\ k2[d].next = IF d = p THEN n ELSE ck[d].next
             /\ k2[d].prev = ck[d].prev
             /\ d # p => k2[d] = ck[d]
    <3>1. ck \in [CookieSlot -> cookie_t]
      BY DEF StoreTypeOK
    <3>2. n \in CookieSlot \cup {-1} /\ p \in CookieSlot \cup {-1}
      BY <1>a, <1>c
    <3> HIDE DEF n, p
    <3>3. QED BY <3>1, <3>2, <1>a DEF cookie_t
  <2>2. /\ k3 \in [CookieSlot -> cookie_t]
        /\ \A d \in CookieSlot :
             /\ k3[d].slot_used = k2[d].slot_used
             /\ k3[d].next = k2[d].next
             /\ k3[d].prev = IF d = n THEN p ELSE k2[d].prev
             /\ d # n => k3[d] = k2[d]
    <3>1. n \in CookieSlot \cup {-1} /\ p \in CookieSlot \cup {-1}
      BY <1>a, <1>c
    <3> HIDE DEF n, p, k2
    <3>2. QED BY <3>1, <2>1, <1>a DEF cookie_t
  <2> HIDE DEF k3, k2
  <2>3. QED BY <2>0, <2>1, <2>2, <1>c, ClearedTypes
<1>2. UsedCookies(k1) = UsedCookies(ck) \ {c}
  BY <1>1 DEF UsedCookies, ClearedCookie
<1>3. StoreTypeOK(s1, k1)
  <2>1. AnchorAfterDelete(ck, a, c) \in CookieSlot \cup {-1}
    BY <1>a, <1>c, SlotTypes DEF AnchorAfterDelete
  <2>2. sess[h] \in session_data_t
    BY <1>a DEF StoreTypeOK
  <2>3. [sess[h] EXCEPT !.cookiestore_index = AnchorAfterDelete(ck, a, c)]
          \in session_data_t
    BY <2>1, <2>2 DEF session_data_t
  <2>4. QED BY <2>3, <1>1, <1>a DEF StoreTypeOK
<1>4. DoublyLinked(k1)
  <2> SUFFICES ASSUME NEW d \in UsedCookies(k1)
               PROVE  /\ k1[d].next # -1 => /\ k1[d].next \in UsedCookies(k1)
                                            /\ k1[k1[d].next].prev = d
                      /\ k1[d].prev # -1 => /\ k1[d].prev \in UsedCookies(k1)
                                            /\ k1[k1[d].prev].next = d
    BY DEF DoublyLinked
  <2>1. d \in UsedCookies(ck) /\ d # c /\ d \in CookieSlot
    BY <1>2, <1>a
  <2>2. ASSUME k1[d].next # -1
        PROVE  k1[d].next \in UsedCookies(k1) /\ k1[k1[d].next].prev = d
    <3>1. CASE d = p
      BY <2>1, <2>2, <3>1, <1>1, <1>2, <1>a, <1>d, <1>e
    <3>2. CASE d # p
      BY <2>1, <2>2, <3>2, <1>1, <1>2, <1>a, <1>b, <1>c, <1>d DEF DoublyLinked
    <3>3. QED BY <3>1, <3>2
  <2>3. ASSUME k1[d].prev # -1
        PROVE  k1[d].prev \in UsedCookies(k1) /\ k1[k1[d].prev].next = d
    <3>1. CASE d = n
      BY <2>1, <2>3, <3>1, <1>1, <1>2, <1>a, <1>d, <1>e
    <3>2. CASE d # n
      BY <2>1, <2>3, <3>2, <1>1, <1>2, <1>a, <1>b, <1>c, <1>d DEF DoublyLinked
    <3>3. QED BY <3>1, <3>2
  <2>4. QED BY <2>2, <2>3
<1>5. FreeCookiesCleared(k1)
  <2> SUFFICES ASSUME NEW d \in CookieSlot \ UsedCookies(k1)
               PROVE  k1[d] = ClearedCookie
    BY DEF FreeCookiesCleared
  <2>1. CASE d = c
    BY <2>1, <1>1
  <2>2. CASE d # c
    <3>1. d \notin UsedCookies(ck) /\ d \notin {p, n}
      BY <2>2, <1>2, <1>a, <1>d
    <3>2. QED BY <2>2, <3>1, <1>1, <1>b DEF FreeCookiesCleared
  <2>3. QED BY <2>1, <2>2
<1>6. Heads(k1) = IF p # -1 THEN Heads(ck)
                  ELSE (Heads(ck) \ {c}) \cup ({n} \ {-1})
  BY <1>1, <1>2, <1>a, <1>c, <1>d, <1>e, <1>f DEF Heads
<1>7. /\ UsedSessions(s1) = UsedSessions(sess)
      /\ \A g \in SessionSlot : s1[g].cookiestore_index =
           IF g = h /\ p = -1 THEN n ELSE sess[g].cookiestore_index
  BY <1>a, <1>c DEF UsedSessions, StoreTypeOK, AnchorAfterDelete, session_data_t
<1>8. AnchorsAreHeads(s1, k1)
  <2>0. UsedSessions(sess) \subseteq SessionSlot
    BY DEF UsedSessions
  <2> HIDE DEF s1, k1, p, n, a
  <2>1. CASE p # -1
    BY <2>0, <2>1, <1>6, <1>7, <1>b DEF AnchorsAreHeads
  <2>2. CASE p = -1
    <3>1. c = a /\ c # -1 /\ (n # -1 => n \notin Heads(ck))
      BY <2>2, <1>a, <1>c, <1>d DEF Heads, n
    <3>2. \A g \in UsedSessions(sess) :
            /\ g = h => s1[g].cookiestore_index = n
            /\ g # h => /\ s1[g].cookiestore_index = sess[g].cookiestore_index
                        /\ sess[g].cookiestore_index # c
      BY <2>0, <2>2, <3>1, <1>7, <1>b DEF AnchorsAreHeads, a
    <3>3. \A g \in UsedSessions(s1) : s1[g].cookiestore_index # -1 =>
            s1[g].cookiestore_index \in Heads(k1)
      BY <2>2, <3>2, <1>6, <1>7, <1>b DEF AnchorsAreHeads
    <3>4. \A d \in Heads(k1) :
            \E g \in UsedSessions(s1) : s1[g].cookiestore_index = d
      BY <2>2, <3>1, <3>2, <1>6, <1>7, <1>b DEF AnchorsAreHeads, a
    <3>5. \A f, g \in UsedSessions(s1) :
            s1[f].cookiestore_index = s1[g].cookiestore_index
              => f = g \/ s1[f].cookiestore_index = -1
      BY <2>2, <3>1, <3>2, <1>7, <1>b DEF AnchorsAreHeads
    <3>6. QED BY <3>3, <3>4, <3>5 DEF AnchorsAreHeads
  <2>3. QED BY <2>1, <2>2
<1>9. NoRing(k1)
  <2> SUFFICES ASSUME NEW S \in SUBSET UsedCookies(k1), S # {}
               PROVE  /\ \E d \in S : k1[d].prev \notin S
                      /\ \E d \in S : k1[d].next \notin S
    BY DEF NoRing
  <2> DEFINE T == S \cup {c}
  <2>1. /\ S \in SUBSET UsedCookies(ck) /\ S \subseteq CookieSlot \ {c}
        /\ T \in SUBSET UsedCookies(ck) /\ T # {}
    BY <1>2, <1>a, <1>c
  <2>2. \E d \in S : k1[d].prev \notin S
    <3>1. PICK d \in S : ck[d].prev \notin S
      BY <2>1, <1>b DEF NoRing
    <3>2. CASE d # n
      BY <2>1, <3>1, <3>2, <1>1
    <3>3. CASE d = n
      <4>1. PICK e \in T : ck[e].prev \notin T
        BY <2>1, <1>b DEF NoRing
      <4>2. CASE e = c
        BY <2>1, <3>3, <4>1, <4>2, <1>1
      <4>3. CASE e # c
        <5>1. e # n
          BY <3>3, <4>1, <1>a, <1>d, <2>1
        <5>2. QED BY <2>1, <4>1, <4>3, <5>1, <1>1
      <4>4. QED BY <4>2, <4>3
    <3>4. QED BY <3>2, <3>3
  <2>3. \E d \in S : k1[d].next \notin S
    <3>1. PICK d \in S : ck[d].next \notin S
      BY <2>1, <1>b DEF NoRing
    <3>2. CASE d # p
      BY <2>1, <3>1, <3>2, <1>1
    <3>3. CASE d = p
      <4>1. PICK e \in T : ck[e].next \notin T
        BY <2>1, <1>b DEF NoRing
      <4>2. CASE e = c
        BY <2>1, <3>3, <4>1, <4>2, <1>1
      <4>3. CASE e # c
        <5>1. e # p
          BY <3>3, <4>1, <1>a, <1>d, <2>1
        <5>2. QED BY <2>1, <4>1, <4>3, <5>1, <1>1
      <4>4. QED BY <4>2, <4>3
    <3>4. QED BY <3>2, <3>3
  <2>4. QED BY <2>2, <2>3
<1>10. QED BY <1>3, <1>4, <1>5, <1>8, <1>9 DEF WellLinked

(* Adding a cookie to a used session, in a free slot.                      *)
LEMMA AddKeepsStore ==
  ASSUME NEW sess, NEW ck, NEW h \in UsedSessions(sess),
         NEW c \in CookieSlot \ UsedCookies(ck),
         NEW key \in CookieName, NEW value \in CookieValue,
         NEW locid \in Location,
         StoreTypeOK(sess, ck), WellLinked(sess, ck)
  PROVE  LET s1 == [sess EXCEPT ![h].cookiestore_index = c]
             k1 == AddCookie(ck, sess[h].cookiestore_index, c, key, value, locid)
         IN  StoreTypeOK(s1, k1) /\ WellLinked(s1, k1)
<1> DEFINE a   == sess[h].cookiestore_index
           s1  == [sess EXCEPT ![h].cookiestore_index = c]
           k1  == AddCookie(ck, a, c, key, value, locid)
           new == [slot_used |-> TRUE, name |-> Cut[key], value |-> value,
                   location_id |-> locid, next |-> a,
                   prev |-> IF a = -1 THEN -1 ELSE ck[c].prev]
<1>a. /\ \A d \in CookieSlot :
           /\ ck[d].next \in CookieSlot \cup {-1}
           /\ ck[d].prev \in CookieSlot \cup {-1}
           /\ ck[d] \in cookie_t
           /\ d # -1
      /\ a \in CookieSlot \cup {-1}
      /\ h \in SessionSlot
      /\ UsedCookies(ck) \subseteq CookieSlot
      /\ UsedSessions(sess) \subseteq SessionSlot
  BY SlotTypes DEF UsedSessions, UsedCookies, StoreTypeOK
<1>b. /\ DoublyLinked(ck)
      /\ FreeCookiesCleared(ck)
      /\ AnchorsAreHeads(sess, ck)
      /\ NoRing(ck)
  BY DEF WellLinked
<1>c. a # -1 => a \in UsedCookies(ck) /\ ck[a].prev = -1 /\ a # c
  BY <1>b DEF AnchorsAreHeads, Heads
<1>1. /\ k1 \in [CookieSlot -> cookie_t]
      /\ k1[c].slot_used /\ k1[c].next = a /\ k1[c].prev = -1
      /\ \A d \in CookieSlot \ {c} :
           /\ k1[d].slot_used = ck[d].slot_used
           /\ k1[d].next = ck[d].next
           /\ k1[d].prev = IF d = a THEN c ELSE ck[d].prev
           /\ d # a => k1[d] = ck[d]
  <2>1. ck[c].prev = -1
    BY <1>b DEF FreeCookiesCleared, ClearedCookie
  <2>2. ck \in [CookieSlot -> cookie_t]
    BY DEF StoreTypeOK
  <2>3. /\ new \in cookie_t /\ new.slot_used
        /\ new.next = a /\ new.prev = -1
    BY <2>1, <1>a DEF cookie_t
  <2> HIDE DEF a
  <2>4. CASE a = -1
    <3>1. k1 = [ck EXCEPT ![c] = new]
      BY <2>4 DEF AddCookie
    <3> HIDE DEF k1, new
    <3>2. QED BY <2>2, <2>3, <2>4, <3>1, <1>a
  <2>5. CASE a # -1
    <3> DEFINE pushed == [ck[a] EXCEPT !.prev = c]
    <3>1. k1 = [ck EXCEPT ![c] = new, ![a] = pushed]
      <4>1. k1 = [[ck EXCEPT ![c] = new] EXCEPT ![a].prev = c]
        BY <2>5 DEF AddCookie
      <4> HIDE DEF k1, new
      <4>2. QED BY <4>1, <2>2, <2>5, <1>a, <1>c
    <3>2. /\ pushed \in cookie_t /\ pushed.slot_used = ck[a].slot_used
          /\ pushed.next = ck[a].next /\ pushed.prev = c
      BY <2>5, <1>a DEF cookie_t
    <3> HIDE DEF k1, new, pushed
    <3>3. QED BY <2>2, <2>3, <2>5, <3>1, <3>2, <1>a, <1>c
  <2>6. QED BY <2>4, <2>5
<1>2. UsedCookies(k1) = UsedCookies(ck) \cup {c}
  BY <1>1 DEF UsedCookies
<1>3. StoreTypeOK(s1, k1)
  <2>1. sess[h] \in session_data_t
    BY <1>a DEF StoreTypeOK
  <2>2. [sess[h] EXCEPT !.cookiestore_index = c] \in session_data_t
    BY <2>1 DEF session_data_t
  <2>3. QED BY <2>2, <1>1, <1>a DEF StoreTypeOK
<1> HIDE DEF a, k1
<1>4. DoublyLinked(k1)
  <2> SUFFICES ASSUME NEW d \in UsedCookies(k1)
               PROVE  /\ k1[d].next # -1 => /\ k1[d].next \in UsedCookies(k1)
                                            /\ k1[k1[d].next].prev = d
                      /\ k1[d].prev # -1 => /\ k1[d].prev \in UsedCookies(k1)
                                            /\ k1[k1[d].prev].next = d
    BY DEF DoublyLinked
  <2>1. CASE d = c
    BY <2>1, <1>1, <1>2, <1>a, <1>c
  <2>2. CASE d # c
    <3>1. d \in UsedCookies(ck) /\ d \in CookieSlot
      BY <2>2, <1>2, <1>a
    <3>2. QED BY <2>2, <3>1, <1>1, <1>2, <1>a, <1>b, <1>c DEF DoublyLinked
  <2>3. QED BY <2>1, <2>2
<1>5. FreeCookiesCleared(k1)
  BY <1>1, <1>2, <1>a, <1>b, <1>c DEF FreeCookiesCleared
<1>6. Heads(k1) = (Heads(ck) \ {a}) \cup {c}
  BY <1>1, <1>2, <1>a, <1>c DEF Heads
<1>7. /\ UsedSessions(s1) = UsedSessions(sess)
      /\ \A g \in SessionSlot : s1[g].cookiestore_index =
           IF g = h THEN c ELSE sess[g].cookiestore_index
  BY <1>a DEF UsedSessions, StoreTypeOK, session_data_t
<1>8. AnchorsAreHeads(s1, k1)
  <2> HIDE DEF s1
  <2>1. c \notin Heads(ck) /\ c # -1
    BY <1>a DEF Heads
  <2>2. \A g \in UsedSessions(sess) :
          /\ g = h => s1[g].cookiestore_index = c
          /\ g # h => /\ s1[g].cookiestore_index = sess[g].cookiestore_index
                      /\ sess[g].cookiestore_index # c
                      /\ sess[g].cookiestore_index = a => a = -1
    BY <2>1, <1>7, <1>a, <1>b DEF AnchorsAreHeads, a
  <2>3. \A g \in UsedSessions(s1) : s1[g].cookiestore_index # -1 =>
          s1[g].cookiestore_index \in Heads(k1)
    BY <2>2, <1>6, <1>7, <1>b DEF AnchorsAreHeads
  <2>4. \A d \in Heads(k1) :
          \E g \in UsedSessions(s1) : s1[g].cookiestore_index = d
    BY <2>1, <2>2, <1>6, <1>7, <1>b DEF AnchorsAreHeads, a
  <2>5. \A f, g \in UsedSessions(s1) :
          s1[f].cookiestore_index = s1[g].cookiestore_index
            => f = g \/ s1[f].cookiestore_index = -1
    BY <2>1, <2>2, <1>7, <1>b DEF AnchorsAreHeads
  <2>6. QED BY <2>3, <2>4, <2>5 DEF AnchorsAreHeads
<1>9. NoRing(k1)
  <2> SUFFICES ASSUME NEW S \in SUBSET UsedCookies(k1), S # {}
               PROVE  /\ \E d \in S : k1[d].prev \notin S
                      /\ \E d \in S : k1[d].next \notin S
    BY DEF NoRing
  <2> DEFINE T == S \ {c}
  <2>1. T \in SUBSET UsedCookies(ck) /\ T \subseteq CookieSlot \ {c}
    BY <1>2, <1>a
  <2>2. CASE T = {}
    <3>1. S = {c}
      BY <2>2
    <3>2. QED BY <3>1, <1>1, <1>a, <1>c
  <2>3. CASE T # {}
    <3>1. \E d \in S : k1[d].next \notin S
      <4>1. PICK d \in T : ck[d].next \notin T
        BY <2>1, <2>3, <1>b DEF NoRing
      <4>2. ck[d].next # c
        BY <4>1, <2>1, <1>a, <1>b DEF DoublyLinked
      <4>3. QED BY <4>1, <4>2, <2>1, <1>1
    <3>2. \E d \in S : k1[d].prev \notin S
      <4>1. CASE c \in S
        BY <4>1, <2>1, <1>1, <1>2, <1>a
      <4>2. CASE c \notin S
        <5>1. PICK d \in T : ck[d].prev \notin T
          BY <2>1, <2>3, <1>b DEF NoRing
        <5>2. QED BY <4>2, <5>1, <2>1, <1>1
      <4>3. QED BY <4>1, <4>2
    <3>3. QED BY <3>1, <3>2
  <2>4. QED BY <2>2, <2>3
<1>10. QED BY <1>3, <1>4, <1>5, <1>8, <1>9 DEF WellLinked, a, k1

(* Overwriting the value of a cookie.                                      *)
LEMMA UpdateKeepsStore ==
  ASSUME NEW sess, NEW ck, NEW c \in UsedCookies(ck), NEW value \in CookieValue,
         StoreTypeOK(sess, ck), WellLinked(sess, ck)
  PROVE  LET k1 == [ck EXCEPT ![c].value = value]
         IN  StoreTypeOK(sess, k1) /\ WellLinked(sess, k1)
<1> DEFINE k1 == [ck EXCEPT ![c].value = value]
<1>1. ck \in [CookieSlot -> cookie_t] /\ c \in CookieSlot
  BY DEF StoreTypeOK, UsedCookies
<1>2. /\ k1 \in [CookieSlot -> cookie_t]
      /\ \A d \in CookieSlot :
           /\ k1[d].slot_used = ck[d].slot_used
           /\ k1[d].next = ck[d].next
           /\ k1[d].prev = ck[d].prev
           /\ d # c => k1[d] = ck[d]
  BY <1>1 DEF cookie_t
<1> HIDE DEF k1
<1>3. UsedCookies(k1) = UsedCookies(ck) /\ UsedCookies(ck) \subseteq CookieSlot
  BY <1>2 DEF UsedCookies
<1>4. Heads(k1) = Heads(ck)
  BY <1>2, <1>3 DEF Heads
<1>5. DoublyLinked(k1) /\ NoRing(k1)
  BY <1>2, <1>3 DEF DoublyLinked, NoRing, WellLinked
<1>6. FreeCookiesCleared(k1)
  BY <1>2, <1>3 DEF FreeCookiesCleared, WellLinked
<1>7. AnchorsAreHeads(sess, k1)
  BY <1>4 DEF AnchorsAreHeads, WellLinked
<1>8. QED BY <1>2, <1>5, <1>6, <1>7 DEF WellLinked, StoreTypeOK, k1

-----------------------------------------------------------------------------
(* Looking a cookie up: the walk from an anchor finds a slot of its chain  *)
(* with the key, or there is none.  This holds of a ring too.              *)
LEMMA FindInChain ==
  ASSUME NEW ck, NEW a \in CookieSlot \cup {-1}, NEW key, NEW locid,
         \A d \in CookieSlot : ck[d].next \in CookieSlot \cup {-1}
  PROVE  LET c == get_cookie_index_by_name(ck, a, key, locid)
         IN  \/ c = -1 /\ Matching(ck, a, key, locid) = {}
             \/ c # -1 /\ c \in Matching(ck, a, key, locid)
<1> DEFINE found == Matching(ck, a, key, locid)
           T     == {x \in Chain(ck, a) : found \subseteq Chain(ck, x)}
<1>1. Chain(ck, a) \subseteq CookieSlot /\ -1 \notin CookieSlot
  BY CountsAssumption DEF Chain, CookieSlot
<1>2. CASE found = {}
  BY <1>2 DEF get_cookie_index_by_name
<1>3. CASE found # {}
  <2>1. a \in CookieSlot /\ a \in T
    <3>1. a # -1
      BY <1>3, ChainNull DEF Matching
    <3>2. QED BY <3>1, ChainClosed DEF Matching
  <2>2. \E x \in T : x \in found
    <3> SUFFICES ASSUME \A x \in T : x \notin found PROVE FALSE
      OBVIOUS
    <3>1. ASSUME NEW x \in T, ck[x].next # -1
          PROVE  ck[x].next \in T
      <4>1. ck[x].next \in Chain(ck, a)
        BY <2>1, <3>1, ChainClosed DEF ClosedUnderNext
      <4>2. found \subseteq Chain(ck, ck[x].next)
        BY <1>1, ChainStep
      <4>3. QED BY <4>1, <4>2
    <3>2. Chain(ck, a) \subseteq T
      <4>1. T \in SUBSET CookieSlot
        BY <1>1
      <4>2. ClosedUnderNext(ck, T)
        BY <3>1 DEF ClosedUnderNext
      <4>3. QED BY <2>1, <4>1, <4>2, ChainLeast
    <3>3. QED BY <1>3, <3>2 DEF Matching
  <2>3. \E c \in found : found \subseteq Chain(ck, c)
    BY <2>2
  <2>4. get_cookie_index_by_name(ck, a, key, locid) \in found
    BY <2>3, <1>3 DEF get_cookie_index_by_name
  <2>5. QED BY <2>4, <1>1 DEF Matching
<1>4. QED BY <1>2, <1>3

(* So it does from the anchor of a used session.                           *)
LEMMA FindInJar ==
  ASSUME NEW sess, NEW ck, NEW h \in UsedSessions(sess), NEW key, NEW locid,
         StoreTypeOK(sess, ck)
  PROVE  LET a == sess[h].cookiestore_index
             c == get_cookie_index_by_name(ck, a, key, locid)
         IN  \/ c = -1 /\ Matching(ck, a, key, locid) = {}
             \/ c # -1 /\ c \in Matching(ck, a, key, locid)
<1>1. /\ sess[h].cookiestore_index \in CookieSlot \cup {-1}
      /\ \A d \in CookieSlot : ck[d].next \in CookieSlot \cup {-1}
  BY SlotTypes DEF UsedSessions
<1>2. QED BY <1>1, FindInChain

-----------------------------------------------------------------------------
(* What WellLinked says about chains.                                      *)

(* The used cookie slots are the chains of the used sessions, and two used *)
(* sessions have no cookie slot in common.                                 *)
LEMMA JarsPartition ==
  ASSUME NEW sess, NEW ck, StoreTypeOK(sess, ck), WellLinked(sess, ck)
  PROVE  /\ UsedCookies(ck) = UNION {Chain(ck, sess[h].cookiestore_index) :
                                       h \in UsedSessions(sess)}
         /\ \A g, h \in UsedSessions(sess) : g # h =>
              Chain(ck, sess[g].cookiestore_index)
                \cap Chain(ck, sess[h].cookiestore_index) = {}
<1> DEFINE jar(h) == Chain(ck, sess[h].cookiestore_index)
           Owned  == UNION {jar(h) : h \in UsedSessions(sess)}
<1>1. /\ \A d \in CookieSlot : /\ ck[d].next \in CookieSlot \cup {-1}
                               /\ ck[d].prev \in CookieSlot \cup {-1}
                               /\ d # -1
      /\ \A h \in UsedSessions(sess) :
           sess[h].cookiestore_index \in CookieSlot \cup {-1}
      /\ UsedCookies(ck) \subseteq CookieSlot
  BY SlotTypes DEF UsedSessions, UsedCookies
<1>2. /\ DoublyLinked(ck)
      /\ AnchorsAreHeads(sess, ck)
      /\ NoRing(ck)
  BY DEF WellLinked
<1>3. \A h \in UsedSessions(sess) : jar(h) \subseteq UsedCookies(ck)
  BY <1>2, JarInUse
<1>4. ASSUME NEW h \in UsedSessions(sess), NEW c \in jar(h), ck[c].prev # -1
      PROVE  ck[c].prev \in jar(h)
  <2>1. c # sess[h].cookiestore_index
    BY <1>2, <1>4, JarInUse
  <2>2. sess[h].cookiestore_index \in CookieSlot
    BY <1>1, ChainNull
  <2>3. PICK d \in jar(h) : ck[d].next = c
    BY <1>1, <2>1, <2>2, ChainPred
  <2>4. ck[c].prev = d
    BY <2>3, <1>1, <1>2, <1>3 DEF DoublyLinked
  <2>5. QED BY <2>3, <2>4
<1>5. UsedCookies(ck) \subseteq Owned
  <2> DEFINE S == UsedCookies(ck) \ Owned
  <2> SUFFICES ASSUME S # {} PROVE FALSE
    OBVIOUS
  <2>1. PICK c \in S : ck[c].prev \notin S
    BY <1>2 DEF NoRing
  <2>2. CASE ck[c].prev = -1
    <3>1. PICK h \in UsedSessions(sess) : sess[h].cookiestore_index = c
      BY <2>2, <1>2 DEF AnchorsAreHeads, Heads
    <3>2. c \in jar(h)
      BY <3>1, <1>1, ChainClosed
    <3>3. QED BY <3>2
  <2>3. CASE ck[c].prev # -1
    <3>1. ck[c].prev \in UsedCookies(ck) /\ ck[ck[c].prev].next = c
      BY <2>3, <1>2 DEF DoublyLinked
    <3>2. PICK h \in UsedSessions(sess) : ck[c].prev \in jar(h)
      BY <2>1, <3>1
    <3>3. sess[h].cookiestore_index \in CookieSlot
      BY <3>2, <1>1, ChainNull
    <3>4. c \in jar(h)
      BY <3>1, <3>2, <3>3, <1>1, ChainClosed DEF ClosedUnderNext
    <3>5. QED BY <3>4
  <2>4. QED BY <2>2, <2>3
<1>6. ASSUME NEW g \in UsedSessions(sess), NEW h \in UsedSessions(sess), g # h,
             jar(g) \cap jar(h) # {}
      PROVE  FALSE
  <2> DEFINE S == jar(g) \cap jar(h)
  <2>1. PICK c \in S : ck[c].prev \notin S
    BY <1>2, <1>3, <1>6 DEF NoRing
  <2>2. ck[c].prev = -1
    BY <2>1, <1>4
  <2>3. c = sess[g].cookiestore_index /\ c = sess[h].cookiestore_index
    BY <2>1, <2>2, <1>2, JarInUse
  <2>4. c # -1
    BY <1>1, <1>3
  <2>5. QED BY <2>3, <2>4, <1>2, <1>6 DEF AnchorsAreHeads
<1>7. QED BY <1>3, <1>5, <1>6

(* From any cookie of a used session the walk along `next' reaches the end. *)
LEMMA WalkEnds ==
  ASSUME NEW sess, NEW ck, NEW h \in UsedSessions(sess),
         NEW c \in Chain(ck, sess[h].cookiestore_index),
         StoreTypeOK(sess, ck), WellLinked(sess, ck)
  PROVE  \E d \in Chain(ck, c) : ck[d].next = -1
<1>1. /\ \A d \in CookieSlot : ck[d].next \in CookieSlot \cup {-1}
      /\ UsedCookies(ck) \subseteq CookieSlot
  BY SlotTypes DEF UsedCookies
<1>2. c \in UsedCookies(ck)
  BY JarInUse DEF WellLinked
<1>3. ClosedUnderNext(ck, UsedCookies(ck))
  BY DEF ClosedUnderNext, DoublyLinked, WellLinked
<1>4. /\ Chain(ck, c) \in SUBSET UsedCookies(ck)
      /\ c \in Chain(ck, c)
      /\ ClosedUnderNext(ck, Chain(ck, c))
  BY <1>1, <1>2, <1>3, ChainClosed, ChainLeast
<1>5. PICK d \in Chain(ck, c) : ck[d].next \notin Chain(ck, c)
  BY <1>4 DEF WellLinked, NoRing
<1>6. QED BY <1>4, <1>5 DEF ClosedUnderNext

-----------------------------------------------------------------------------
(* Jars: the chain of a session, before and after an operation.            *)

JarOf(sess, ck, h) == Chain(ck, sess[h].cookiestore_index)

(* Slot c says the same cookie in ck and k1, its links aside.              *)
SameCookie(ck, k1, c) ==
  /\ k1[c].name = ck[c].name
  /\ k1[c].value = ck[c].value
  /\ k1[c].location_id = ck[c].location_id

(* Slot g1 of s1 has the jar that g has in sess.                           *)
SameJar(sess, ck, g, s1, k1, g1) ==
  /\ JarOf(s1, k1, g1) = JarOf(sess, ck, g)
  /\ \A c \in JarOf(sess, ck, g) : SameCookie(ck, k1, c)

(* What the operations do to the jars of sess and ck, where s1 and k1 are  *)
(* the arrays after it: h is freed; a session is set up in i; h is renewed *)
(* into i; slot c leaves the jar of h, or joins it.                        *)

FreedJar(sess, ck, h, s1, k1) ==
  /\ UsedSessions(s1) = UsedSessions(sess) \ {h}
  /\ \A g \in UsedSessions(sess) \ {h} : SameJar(sess, ck, g, s1, k1, g)

NewJar(sess, ck, i, s1, k1) ==
  /\ UsedSessions(s1) = UsedSessions(sess) \cup {i}
  /\ JarOf(s1, k1, i) = {}
  /\ \A g \in UsedSessions(sess) \ {i} : SameJar(sess, ck, g, s1, k1, g)

MovedJar(sess, ck, h, i, s1, k1) ==
  /\ UsedSessions(s1) = (UsedSessions(sess) \cup {i}) \ {h}
  /\ i # h => SameJar(sess, ck, h, s1, k1, i)
  /\ \A g \in UsedSessions(sess) \ {h, i} : SameJar(sess, ck, g, s1, k1, g)

LeavesJar(sess, ck, h, c, s1, k1) ==
  /\ UsedSessions(s1) = UsedSessions(sess)
  /\ JarOf(s1, k1, h) = JarOf(sess, ck, h) \ {c}
  /\ \A g \in UsedSessions(sess) \ {h} : JarOf(s1, k1, g) = JarOf(sess, ck, g)
  /\ \A d \in UsedCookies(ck) \ {c} : SameCookie(ck, k1, d)

JoinsJar(sess, ck, h, c, s1, k1) ==
  /\ UsedSessions(s1) = UsedSessions(sess)
  /\ UsedCookies(k1) = UsedCookies(ck) \cup {c}
  /\ JarOf(s1, k1, h) = JarOf(sess, ck, h) \cup {c}
  /\ \A g \in UsedSessions(sess) \ {h} : JarOf(s1, k1, g) = JarOf(sess, ck, g)
  /\ \A d \in UsedCookies(ck) : SameCookie(ck, k1, d)

(* The jars of a well-linked store are the only way to give each used      *)
(* session a set of used slots closed under `next', with its anchor in it, *)
(* that nobody shares: what an operation makes of the jars need only be    *)
(* guessed, and checked to be such a way.                                  *)
LEMMA JarsAre ==
  ASSUME NEW sess, NEW ck, StoreTypeOK(sess, ck), WellLinked(sess, ck),
         NEW J \in [UsedSessions(sess) -> SUBSET UsedCookies(ck)],
         \A h \in UsedSessions(sess) : sess[h].cookiestore_index # -1 =>
           /\ sess[h].cookiestore_index \in J[h]
           /\ ClosedUnderNext(ck, J[h]),
         \A g, h \in UsedSessions(sess) : g # h => J[g] \cap J[h] = {}
  PROVE  \A h \in UsedSessions(sess) : JarOf(sess, ck, h) = J[h]
<1>1. UsedCookies(ck) \subseteq CookieSlot
  BY DEF UsedCookies
<1>2. ASSUME NEW h \in UsedSessions(sess)
      PROVE  JarOf(sess, ck, h) \subseteq J[h]
  <2>1. CASE sess[h].cookiestore_index = -1
    BY <2>1, ChainNull DEF JarOf
  <2>2. CASE sess[h].cookiestore_index # -1
    BY <2>2, <1>1, ChainLeast DEF JarOf
  <2>3. QED BY <2>1, <2>2
<1>3. UsedCookies(ck) = UNION {JarOf(sess, ck, h) : h \in UsedSessions(sess)}
  BY JarsPartition DEF JarOf
<1>4. ASSUME NEW h \in UsedSessions(sess), NEW c \in J[h]
      PROVE  c \in JarOf(sess, ck, h)
  <2>1. PICK g \in UsedSessions(sess) : c \in JarOf(sess, ck, g)
    BY <1>3
  <2>2. c \in J[g]
    BY <2>1, <1>2
  <2>3. QED BY <2>1, <2>2
<1>5. \A h \in UsedSessions(sess) : J[h] \subseteq JarOf(sess, ck, h)
  BY <1>4
<1>6. ASSUME NEW h \in UsedSessions(sess)
      PROVE  JarOf(sess, ck, h) = J[h]
  <2>1. JarOf(sess, ck, h) \subseteq J[h] /\ J[h] \subseteq JarOf(sess, ck, h)
    BY <1>2, <1>5
  <2>2. QED BY <2>1, Zenon
<1>7. QED BY <1>6

(* The jars that a well-linked store has are such a way.                   *)
LEMMA JarsFacts ==
  ASSUME NEW sess, NEW ck, StoreTypeOK(sess, ck), WellLinked(sess, ck)
  PROVE  /\ \A h \in UsedSessions(sess) :
              /\ JarOf(sess, ck, h) \subseteq UsedCookies(ck)
              /\ ClosedUnderNext(ck, JarOf(sess, ck, h))
              /\ sess[h].cookiestore_index # -1 =>
                   sess[h].cookiestore_index \in JarOf(sess, ck, h)
              /\ sess[h].cookiestore_index = -1 => JarOf(sess, ck, h) = {}
         /\ \A g, h \in UsedSessions(sess) : g # h =>
              JarOf(sess, ck, g) \cap JarOf(sess, ck, h) = {}
<1>1. /\ \A c \in CookieSlot : ck[c].next \in CookieSlot \cup {-1}
      /\ \A h \in UsedSessions(sess) :
           sess[h].cookiestore_index \in CookieSlot \cup {-1}
  BY SlotTypes DEF UsedSessions
<1>2. ASSUME NEW h \in UsedSessions(sess)
      PROVE  /\ JarOf(sess, ck, h) \subseteq UsedCookies(ck)
             /\ ClosedUnderNext(ck, JarOf(sess, ck, h))
             /\ sess[h].cookiestore_index # -1 =>
                  sess[h].cookiestore_index \in JarOf(sess, ck, h)
             /\ sess[h].cookiestore_index = -1 => JarOf(sess, ck, h) = {}
  <2>1. JarOf(sess, ck, h) \subseteq UsedCookies(ck)
    BY JarsPartition DEF JarOf
  <2>2. CASE sess[h].cookiestore_index = -1
    BY <2>1, <2>2, ChainNull DEF JarOf, ClosedUnderNext
  <2>3. CASE sess[h].cookiestore_index # -1
    BY <1>1, <2>1, <2>3, ChainClosed DEF JarOf
  <2>4. QED BY <2>2, <2>3, <2>1
<1>3. QED BY <1>2, JarsPartition DEF JarOf

(* mshield_shm_free of a session leaves the jars of the others.            *)
LEMMA FreeJars ==
  ASSUME NEW sess, NEW ck, NEW h \in UsedSessions(sess),
         StoreTypeOK(sess, ck), WellLinked(sess, ck)
  PROVE  FreedJar(sess, ck, h, [sess EXCEPT ![h] = ClearedSession],
                  mshield_shm_free(ck, sess[h]))
<1> DEFINE s1 == [sess EXCEPT ![h] = ClearedSession]
           k1 == mshield_shm_free(ck, sess[h])
           J  == [g \in UsedSessions(s1) |-> JarOf(sess, ck, g)]
<1>1. /\ StoreTypeOK(s1, k1) /\ WellLinked(s1, k1)
      /\ h \in SessionSlot /\ DOMAIN sess = SessionSlot
  BY FreeKeepsStore DEF StoreTypeOK, UsedSessions
<1>2. \A g \in SessionSlot : s1[g] = IF g = h THEN ClearedSession ELSE sess[g]
  BY <1>1
<1>3. UsedSessions(s1) = UsedSessions(sess) \ {h}
  BY <1>2 DEF UsedSessions, ClearedSession
<1>4. \A c \in CookieSlot :
        k1[c] = IF c \in JarOf(sess, ck, h) THEN ClearedCookie ELSE ck[c]
  BY DEF mshield_shm_free, mshield_cookiestore_free, JarOf
<1>5. UsedCookies(k1) = UsedCookies(ck) \ JarOf(sess, ck, h)
  BY <1>4 DEF UsedCookies, ClearedCookie
<1> HIDE DEF s1, k1
<1>6. \A g \in UsedSessions(s1) :
        /\ s1[g] = sess[g]
        /\ J[g] = JarOf(sess, ck, g)
        /\ J[g] \subseteq UsedCookies(k1)
        /\ \A c \in J[g] : k1[c] = ck[c] /\ c \in CookieSlot
  <2>1. ASSUME NEW g \in UsedSessions(s1)
        PROVE  /\ s1[g] = sess[g]
               /\ J[g] = JarOf(sess, ck, g)
               /\ J[g] \subseteq UsedCookies(k1)
               /\ \A c \in J[g] : k1[c] = ck[c] /\ c \in CookieSlot
    <3>1. g \in UsedSessions(sess) \ {h} /\ g \in SessionSlot
      BY <1>3 DEF UsedSessions
    <3>2. /\ JarOf(sess, ck, g) \subseteq UsedCookies(ck)
          /\ JarOf(sess, ck, g) \cap JarOf(sess, ck, h) = {}
      BY <3>1, JarsFacts
    <3>3. QED BY <3>1, <3>2, <1>2, <1>4, <1>5 DEF UsedCookies
  <2>2. QED BY <2>1
<1>7. /\ J \in [UsedSessions(s1) -> SUBSET UsedCookies(k1)]
      /\ \A g \in UsedSessions(s1) : s1[g].cookiestore_index # -1 =>
           s1[g].cookiestore_index \in J[g] /\ ClosedUnderNext(k1, J[g])
      /\ \A f, g \in UsedSessions(s1) : f # g => J[f] \cap J[g] = {}
  <2>1. J \in [UsedSessions(s1) -> SUBSET UsedCookies(k1)]
    BY <1>6
  <2>2. ASSUME NEW g \in UsedSessions(s1), s1[g].cookiestore_index # -1
        PROVE  s1[g].cookiestore_index \in J[g] /\ ClosedUnderNext(k1, J[g])
    BY <1>3, <1>6, <2>2, JarsFacts DEF ClosedUnderNext
  <2>3. \A f, g \in UsedSessions(s1) : f # g => J[f] \cap J[g] = {}
    BY <1>3, <1>6, JarsFacts
  <2>4. QED BY <2>1, <2>2, <2>3
<1>8. \A g \in UsedSessions(s1) : JarOf(s1, k1, g) = J[g]
  <2> HIDE DEF J
  <2>1. QED BY <1>1, <1>7, JarsAre
<1>9. \A g \in UsedSessions(s1) : SameJar(sess, ck, g, s1, k1, g)
  BY <1>6, <1>8 DEF SameJar, SameCookie
<1>10. FreedJar(sess, ck, h, s1, k1)
  BY <1>3, <1>9 DEF FreedJar
<1>11. QED BY <1>10 DEF s1, k1

(* Sessions are set up in a free slot with an empty jar.                   *)
LEMMA SetUpJars ==
  ASSUME NEW sess, NEW ck, NEW i \in SessionSlot \ UsedSessions(sess),
         NEW sid, NEW uuid, NEW now,
         StoreTypeOK(sess, ck)
  PROVE  NewJar(sess, ck, i, SessionsAfterCreate(sess, i, sid, uuid, now), ck)
<1> DEFINE s1 == SessionsAfterCreate(sess, i, sid, uuid, now)
<1>1. \A g \in SessionSlot :
        s1[g] = IF g = i THEN NewSession(sid, uuid, now) ELSE sess[g]
  BY DEF SessionsAfterCreate, StoreTypeOK
<1> HIDE DEF s1
<1>2. UsedSessions(s1) = UsedSessions(sess) \cup {i}
  BY <1>1 DEF UsedSessions, NewSession
<1>3. JarOf(s1, ck, i) = {}
  BY <1>1, ChainNull DEF JarOf, NewSession
<1>4. \A g \in UsedSessions(sess) : SameJar(sess, ck, g, s1, ck, g)
  BY <1>1 DEF SameJar, SameCookie, JarOf, UsedSessions
<1>5. NewJar(sess, ck, i, s1, ck)
  BY <1>2, <1>3, <1>4 DEF NewJar
<1>6. QED BY <1>5 DEF s1

(* The jars after mshield_session_create: the one of a session that had to *)
(* go is emptied, the new session's is empty, the others stay.             *)
LEMMA CreateJars ==
  ASSUME NEW sess, NEW ck, NEW i \in SessionSlot,
         NEW sid \in SessionId, NEW uuid \in Uuid, NEW now \in Nat,
         StoreTypeOK(sess, ck), WellLinked(sess, ck)
  PROVE  NewJar(sess, ck, i, SessionsAfterCreate(sess, i, sid, uuid, now),
                CookiesAfterCreate(sess, ck, i))
<1> DEFINE s1 == SessionsAfterCreate(sess, i, sid, uuid, now)
           k1 == CookiesAfterCreate(sess, ck, i)
<1>1. CASE i \notin UsedSessions(sess)
  <2>1. k1 = ck
    BY <1>1 DEF CookiesAfterCreate, UsedSessions
  <2>2. QED BY <1>1, <2>1, SetUpJars
<1>2. CASE i \in UsedSessions(sess)
  <2> DEFINE s0 == [sess EXCEPT ![i] = ClearedSession]
  <2>1. k1 = mshield_shm_free(ck, sess[i])
    BY <1>2 DEF CookiesAfterCreate, UsedSessions
  <2>2. StoreTypeOK(s0, k1) /\ WellLinked(s0, k1)
    BY <1>2, <2>1, FreeKeepsStore
  <2>3. FreedJar(sess, ck, i, s0, k1)
    BY <1>2, <2>1, FreeJars
  <2>4. s1 = SessionsAfterCreate(s0, i, sid, uuid, now)
    BY DEF SessionsAfterCreate, StoreTypeOK
  <2> HIDE DEF s0, s1, k1
  <2>5. i \in SessionSlot \ UsedSessions(s0)
    BY <2>3 DEF FreedJar
  <2>6. NewJar(s0, k1, i, s1, k1)
    BY <2>2, <2>4, <2>5, SetUpJars
  <2>7. NewJar(sess, ck, i, s1, k1)
    BY <2>3, <2>6, <1>2 DEF NewJar, FreedJar, SameJar, SameCookie
  <2>8. QED BY <2>7 DEF s1, k1
<1>3. QED BY <1>1, <1>2

(* The jars after a renewal of h into i: the new slot has the old jar, and *)
(* that of a session that had to go is emptied.  Renewed into its own slot *)
(* a session is gone, with its jar.                                        *)
LEMMA RenewJars ==
  ASSUME NEW sess, NEW ck, NEW h \in UsedSessions(sess), NEW i \in SessionSlot,
         NEW sid \in SessionId, NEW now \in Nat, sess[h].uuid \in Uuid,
         StoreTypeOK(sess, ck), WellLinked(sess, ck)
  PROVE  MovedJar(sess, ck, h, i, SessionsAfterRenew(sess, h, i, sid, now),
                  CookiesAfterCreate(sess, ck, i))
<1> DEFINE s0 == SessionsAfterCreate(sess, i, sid, sess[h].uuid, now)
           s1 == SessionsAfterRenew(sess, h, i, sid, now)
           k1 == CookiesAfterCreate(sess, ck, i)
<1>1. NewJar(sess, ck, i, s0, k1)
  BY CreateJars
<1>2. /\ DOMAIN s0 = SessionSlot /\ h \in SessionSlot
      /\ s0[i] \in session_data_t /\ s0[h] \in session_data_t
      /\ s0[i].slot_used
      /\ StoreTypeOK(s0, k1)
  <2>1. StoreTypeOK(s0, k1)
    BY CreateKeepsStore
  <2>2. s0[i] = NewSession(sid, sess[h].uuid, now)
    BY DEF SessionsAfterCreate, StoreTypeOK
  <2>3. QED BY <2>1, <2>2 DEF StoreTypeOK, UsedSessions, NewSession
<1>3. \A g \in SessionSlot :
        s1[g] = IF g = h THEN ClearedSession
                ELSE IF g = i THEN CopyContent(s0[i], s0[h]) ELSE s0[g]
  BY <1>2 DEF SessionsAfterRenew
<1>4. /\ CopyContent(s0[i], s0[h]).slot_used
      /\ CopyContent(s0[i], s0[h]).cookiestore_index = s0[h].cookiestore_index
  BY <1>2, CopyContentType
<1> HIDE DEF s0, s1, k1
<1>5. UsedSessions(s1) = (UsedSessions(sess) \cup {i}) \ {h}
  <2>1. UsedSessions(s0) = UsedSessions(sess) \cup {i}
    BY <1>1 DEF NewJar
  <2>2. QED BY <2>1, <1>2, <1>3, <1>4 DEF UsedSessions, ClearedSession
<1>6. ASSUME i # h
      PROVE  SameJar(sess, ck, h, s1, k1, i)
  <2>1. s1[i].cookiestore_index = s0[h].cookiestore_index
    BY <1>3, <1>4, <1>6
  <2>2. SameJar(sess, ck, h, s0, k1, h)
    BY <1>1, <1>6 DEF NewJar
  <2>3. QED BY <2>1, <2>2 DEF SameJar, JarOf
<1>7. ASSUME NEW g \in UsedSessions(sess) \ {h, i}
      PROVE  SameJar(sess, ck, g, s1, k1, g)
  <2>1. s1[g] = s0[g]
    BY <1>3 DEF UsedSessions
  <2>2. QED BY <2>1, <1>1 DEF NewJar, SameJar, JarOf
<1>8. MovedJar(sess, ck, h, i, s1, k1)
  BY <1>5, <1>6, <1>7 DEF MovedJar
<1>9. QED BY <1>8 DEF s1, k1

(* A cookie that is deleted leaves the jar of its session, and nothing     *)
(* else changes.                                                           *)
LEMMA DeleteJars ==
  ASSUME NEW sess, NEW ck, NEW h \in UsedSessions(sess),
         NEW c \in JarOf(sess, ck, h),
         StoreTypeOK(sess, ck), WellLinked(sess, ck)
  PROVE  LET s1 == [sess EXCEPT ![h].cookiestore_index =
                      AnchorAfterDelete(ck, sess[h].cookiestore_index, c)]
             k1 == DeleteCookie(ck, c)
         IN  LeavesJar(sess, ck, h, c, s1, k1)
<1> DEFINE a  == sess[h].cookiestore_index
           p  == ck[c].prev
           n  == ck[c].next
           s1 == [sess EXCEPT ![h].cookiestore_index = AnchorAfterDelete(ck, a, c)]
           k1 == DeleteCookie(ck, c)
           J  == [g \in UsedSessions(sess) |-> JarOf(sess, ck, g) \ {c}]
<1>1. StoreTypeOK(s1, k1) /\ WellLinked(s1, k1)
  BY DeleteKeepsStore DEF JarOf
<1>2. /\ \A g \in UsedSessions(sess) :
           /\ JarOf(sess, ck, g) \subseteq UsedCookies(ck)
           /\ ClosedUnderNext(ck, JarOf(sess, ck, g))
           /\ sess[g].cookiestore_index # -1 =>
                sess[g].cookiestore_index \in JarOf(sess, ck, g)
           /\ sess[g].cookiestore_index = -1 => JarOf(sess, ck, g) = {}
      /\ \A f, g \in UsedSessions(sess) : f # g =>
           JarOf(sess, ck, f) \cap JarOf(sess, ck, g) = {}
  BY JarsFacts
<1>3. /\ h \in SessionSlot /\ sess \in [SessionSlot -> session_data_t]
      /\ UsedSessions(sess) \subseteq SessionSlot
      /\ UsedCookies(ck) \subseteq CookieSlot
      /\ c \in UsedCookies(ck) /\ c \in CookieSlot /\ -1 \notin CookieSlot
      /\ \A d \in CookieSlot : /\ ck[d].next \in CookieSlot \cup {-1}
                               /\ ck[d].prev \in CookieSlot \cup {-1}
                               /\ ck[d] \in cookie_t
  BY <1>2, SlotTypes DEF StoreTypeOK, UsedSessions, UsedCookies
<1>4. \A g \in SessionSlot :
        /\ s1[g].slot_used = sess[g].slot_used
        /\ s1[g].cookiestore_index =
             IF g = h THEN (IF p = -1 THEN n ELSE a) ELSE sess[g].cookiestore_index
  <2>1. sess[h] \in session_data_t
    BY <1>3
  <2>2. QED BY <1>3, <2>1 DEF AnchorAfterDelete, session_data_t
<1>5. UsedSessions(s1) = UsedSessions(sess)
  BY <1>4 DEF UsedSessions
<1>6. /\ p # -1 => p \in UsedCookies(ck) /\ ck[p].next = c
      /\ n # -1 => n \in UsedCookies(ck) /\ ck[n].prev = c
      /\ \A d \in UsedCookies(ck) : ck[d].next = c => p = d
      /\ n # c /\ p # c
  <2>1. n # c /\ p # c
    <3>1. {c} \in SUBSET UsedCookies(ck) /\ {c} # {}
      BY <1>3
    <3>2. QED BY <3>1 DEF WellLinked, NoRing
  <2>2. QED BY <1>3, <2>1 DEF WellLinked, DoublyLinked
<1>7. \A d \in CookieSlot \ {c} :
        /\ k1[d].slot_used = ck[d].slot_used
        /\ SameCookie(ck, k1, d)
        /\ k1[d].next = IF d = p THEN n ELSE ck[d].next
  <2> DEFINE ck1 == IF p = -1 THEN ck ELSE [ck EXCEPT ![p].next = n]
             ck2 == IF n = -1 THEN ck1 ELSE [ck1 EXCEPT ![n].prev = p]
  <2>1. k1 = [ck2 EXCEPT ![c] = ClearedCookie] /\ DOMAIN ck = CookieSlot
    BY DEF DeleteCookie, StoreTypeOK
  <2>2. ASSUME NEW d \in CookieSlot
        PROVE  /\ ck1[d] \in cookie_t
               /\ ck1[d].slot_used = ck[d].slot_used
               /\ SameCookie(ck, ck1, d)
               /\ ck1[d].next = IF d = p THEN n ELSE ck[d].next
    <3>1. CASE d = p
      <4>1. ck1[d] = [ck[d] EXCEPT !.next = n] /\ n \in CookieSlot \cup {-1}
        BY <3>1, <2>1, <1>3
      <4>2. QED BY <4>1, <3>1, <1>3 DEF cookie_t, SameCookie
    <3>2. CASE d # p
      BY <3>2, <2>1, <1>3 DEF SameCookie
    <3>3. QED BY <3>1, <3>2
  <2>3. DOMAIN ck1 = CookieSlot
    BY <2>1
  <2> HIDE DEF ck1
  <2>4. ASSUME NEW d \in CookieSlot
        PROVE  /\ ck2[d].slot_used = ck1[d].slot_used
               /\ SameCookie(ck1, ck2, d)
               /\ ck2[d].next = ck1[d].next
    BY <2>2, <2>3 DEF cookie_t, SameCookie
  <2>5. DOMAIN ck2 = CookieSlot
    BY <2>3
  <2> HIDE DEF ck2, k1
  <2>6. \A d \in CookieSlot \ {c} : k1[d] = ck2[d]
    BY <2>1, <2>5
  <2>7. QED BY <2>2, <2>4, <2>6 DEF SameCookie
<1>8. UsedCookies(k1) = UsedCookies(ck) \ {c}
  <2>1. k1[c] = ClearedCookie
    BY <1>3 DEF DeleteCookie, StoreTypeOK
  <2>2. QED BY <2>1, <1>7 DEF UsedCookies, ClearedCookie
<1> HIDE DEF s1, k1, p, n, a
<1>9. ASSUME NEW g \in UsedSessions(s1), s1[g].cookiestore_index # -1
      PROVE  s1[g].cookiestore_index \in J[g] /\ ClosedUnderNext(k1, J[g])
  <2>1. J[g] = JarOf(sess, ck, g) \ {c} /\ g \in SessionSlot
    BY <1>3, <1>5
  <2>2. s1[g].cookiestore_index \in J[g]
    <3>1. CASE g # h
      <4>1. c \notin JarOf(sess, ck, g)
        BY <1>2, <1>5, <3>1
      <4>2. QED BY <4>1, <3>1, <2>1, <1>2, <1>4, <1>5, <1>9
    <3>2. CASE g = h /\ p = -1
      <4>1. s1[g].cookiestore_index = n /\ n # -1
        BY <3>2, <2>1, <1>4, <1>9
      <4>2. n \in JarOf(sess, ck, h)
        BY <4>1, <1>2 DEF ClosedUnderNext, n
      <4>3. n # c
        BY <4>1, <3>2, <1>3, <1>6
      <4>4. QED BY <4>1, <4>2, <4>3, <3>2, <2>1
    <3>3. CASE g = h /\ p # -1
      <4>1. s1[g].cookiestore_index = a /\ a # -1
        BY <3>3, <2>1, <1>4, <1>9
      <4>2. a \in JarOf(sess, ck, h)
        BY <4>1, <1>2 DEF a
      <4>3. ck[a].prev = -1
        BY <4>2, JarInUse DEF a, JarOf, WellLinked
      <4>4. QED BY <4>1, <4>2, <4>3, <3>3, <2>1 DEF p
    <3>4. QED BY <3>1, <3>2, <3>3
  <2>3. ASSUME NEW d \in J[g], k1[d].next # -1
        PROVE  k1[d].next \in J[g]
    <3>1. d \in JarOf(sess, ck, g) /\ d # c /\ d \in UsedCookies(ck)
      BY <2>1, <1>2, <1>5
    <3>2. k1[d].next = IF d = p THEN n ELSE ck[d].next
      BY <3>1, <1>3, <1>7
    <3>3. CASE d = p
      <4>1. g = h
        <5>1. c \in JarOf(sess, ck, g)
          BY <3>1, <3>3, <1>2, <1>3, <1>5, <1>6 DEF ClosedUnderNext
        <5>2. QED BY <5>1, <1>2, <1>5
      <4>2. n \in JarOf(sess, ck, h)
        BY <2>3, <3>2, <3>3, <1>2 DEF ClosedUnderNext, n
      <4>3. n # c
        BY <4>1, <3>1, <3>2, <3>3, <2>3, <1>3, <1>6
      <4>4. QED BY <4>1, <4>2, <4>3, <3>2, <3>3, <2>1
    <3>4. CASE d # p
      <4>1. ck[d].next \in JarOf(sess, ck, g)
        BY <3>1, <3>2, <3>4, <2>3, <1>2, <1>5 DEF ClosedUnderNext
      <4>2. ck[d].next # c
        BY <3>1, <3>4, <1>6
      <4>3. QED BY <4>1, <4>2, <3>2, <3>4, <2>1
    <3>5. QED BY <3>3, <3>4
  <2>4. QED BY <2>2, <2>3 DEF ClosedUnderNext
<1>10. /\ J \in [UsedSessions(s1) -> SUBSET UsedCookies(k1)]
       /\ \A f, g \in UsedSessions(s1) : f # g => J[f] \cap J[g] = {}
  BY <1>2, <1>5, <1>8
<1>11. \A g \in UsedSessions(s1) : JarOf(s1, k1, g) = J[g]
  <2> HIDE DEF J
  <2>1. QED BY <1>1, <1>9, <1>10, JarsAre
<1>12. \A g \in UsedSessions(sess) \ {h} : J[g] = JarOf(sess, ck, g)
  BY <1>2
<1>13. /\ JarOf(s1, k1, h) = JarOf(sess, ck, h) \ {c}
       /\ \A g \in UsedSessions(sess) \ {h} : JarOf(s1, k1, g) = JarOf(sess, ck, g)
  BY <1>5, <1>11, <1>12
<1>14. \A d \in UsedCookies(ck) \ {c} : SameCookie(ck, k1, d)
  BY <1>3, <1>7
<1>15. LeavesJar(sess, ck, h, c, s1, k1)
  BY <1>5, <1>13, <1>14 DEF LeavesJar
<1>16. QED BY <1>15 DEF s1, k1, a

(* A cookie that is added joins the jar of its session, and nothing else   *)
(* changes.                                                                *)
LEMMA AddJars ==
  ASSUME NEW sess, NEW ck, NEW h \in UsedSessions(sess),
         NEW c \in CookieSlot \ UsedCookies(ck),
         NEW key \in CookieName, NEW value \in CookieValue,
         NEW locid \in Location,
         StoreTypeOK(sess, ck), WellLinked(sess, ck)
  PROVE  LET s1 == [sess EXCEPT ![h].cookiestore_index = c]
             k1 == AddCookie(ck, sess[h].cookiestore_index, c, key, value, locid)
         IN  /\ JoinsJar(sess, ck, h, c, s1, k1)
             /\ k1[c].name = Cut[key] /\ k1[c].value = value
             /\ k1[c].location_id = locid
<1> DEFINE a  == sess[h].cookiestore_index
           s1 == [sess EXCEPT ![h].cookiestore_index = c]
           k1 == AddCookie(ck, a, c, key, value, locid)
           J  == [g \in UsedSessions(sess) |->
                    IF g = h THEN JarOf(sess, ck, g) \cup {c} ELSE JarOf(sess, ck, g)]
<1>1. StoreTypeOK(s1, k1) /\ WellLinked(s1, k1)
  BY AddKeepsStore
<1>2. /\ \A g \in UsedSessions(sess) :
           /\ JarOf(sess, ck, g) \subseteq UsedCookies(ck)
           /\ ClosedUnderNext(ck, JarOf(sess, ck, g))
           /\ sess[g].cookiestore_index # -1 =>
                sess[g].cookiestore_index \in JarOf(sess, ck, g)
           /\ sess[g].cookiestore_index = -1 => JarOf(sess, ck, g) = {}
      /\ \A f, g \in UsedSessions(sess) : f # g =>
           JarOf(sess, ck, f) \cap JarOf(sess, ck, g) = {}
  BY JarsFacts
<1>3. /\ h \in SessionSlot /\ sess \in [SessionSlot -> session_data_t]
      /\ UsedSessions(sess) \subseteq SessionSlot
      /\ UsedCookies(ck) \subseteq CookieSlot /\ -1 \notin CookieSlot
      /\ DOMAIN ck = CookieSlot /\ \A d \in CookieSlot : ck[d] \in cookie_t
      /\ a \in CookieSlot \cup {-1}
  BY <1>2, SlotTypes DEF StoreTypeOK, UsedSessions, UsedCookies
<1>4. a # c
  BY <1>2, <1>3
<1>5. \A g \in SessionSlot :
        /\ s1[g].slot_used = sess[g].slot_used
        /\ s1[g].cookiestore_index = IF g = h THEN c ELSE sess[g].cookiestore_index
  <2>1. sess[h] \in session_data_t
    BY <1>3
  <2>2. QED BY <1>3, <2>1 DEF session_data_t
<1>6. UsedSessions(s1) = UsedSessions(sess)
  BY <1>5 DEF UsedSessions
<1>7. /\ \A d \in CookieSlot \ {c} :
           /\ k1[d].slot_used = ck[d].slot_used
           /\ SameCookie(ck, k1, d)
           /\ k1[d].next = ck[d].next
      /\ k1[c].slot_used /\ k1[c].next = a
      /\ k1[c].name = Cut[key] /\ k1[c].value = value /\ k1[c].location_id = locid
  <2> DEFINE new == [slot_used |-> TRUE, name |-> Cut[key], value |-> value,
                     location_id |-> locid, next |-> a,
                     prev |-> IF a = -1 THEN -1 ELSE ck[c].prev]
             ck1 == [ck EXCEPT ![c] = new]
  <2>1. k1 = IF a = -1 THEN ck1 ELSE [ck1 EXCEPT ![a].prev = c]
    BY DEF AddCookie
  <2>2. k1[c] = new
    BY <2>1, <1>3, <1>4
  <2>3. ASSUME NEW d \in CookieSlot \ {c}
        PROVE  /\ k1[d].slot_used = ck[d].slot_used
               /\ SameCookie(ck, k1, d)
               /\ k1[d].next = ck[d].next
    <3>1. CASE d = a
      <4>1. k1[d] = [ck[d] EXCEPT !.prev = c]
        BY <2>1, <3>1, <1>3
      <4>2. QED BY <4>1, <1>3 DEF cookie_t, SameCookie
    <3>2. CASE d # a
      BY <2>1, <3>2, <1>3 DEF SameCookie
    <3>3. QED BY <3>1, <3>2
  <2>4. QED BY <2>2, <2>3
<1>8. UsedCookies(k1) = UsedCookies(ck) \cup {c}
  BY <1>7 DEF UsedCookies
<1> HIDE DEF s1, k1, a
<1>9. ASSUME NEW g \in UsedSessions(s1), s1[g].cookiestore_index # -1
      PROVE  s1[g].cookiestore_index \in J[g] /\ ClosedUnderNext(k1, J[g])
  <2>1. J[g] = (IF g = h THEN JarOf(sess, ck, g) \cup {c} ELSE JarOf(sess, ck, g))
          /\ g \in SessionSlot /\ g \in UsedSessions(sess)
    BY <1>3, <1>6
  <2>2. s1[g].cookiestore_index \in J[g]
    BY <2>1, <1>2, <1>5, <1>9
  <2>3. ASSUME NEW d \in J[g], k1[d].next # -1
        PROVE  k1[d].next \in J[g]
    <3>1. CASE d = c
      <4>1. g = h /\ k1[d].next = a
        BY <3>1, <2>1, <1>2, <1>7
      <4>2. QED BY <4>1, <2>1, <2>3, <1>2 DEF a
    <3>2. CASE d # c
      <4>1. d \in JarOf(sess, ck, g) /\ d \in CookieSlot
        BY <3>2, <2>1, <1>2, <1>3
      <4>2. k1[d].next \in JarOf(sess, ck, g)
        BY <3>2, <4>1, <2>1, <2>3, <1>2, <1>7 DEF ClosedUnderNext
      <4>3. QED BY <4>2, <2>1
    <3>3. QED BY <3>1, <3>2
  <2>4. QED BY <2>2, <2>3 DEF ClosedUnderNext
<1>10. /\ J \in [UsedSessions(s1) -> SUBSET UsedCookies(k1)]
       /\ \A f, g \in UsedSessions(s1) : f # g => J[f] \cap J[g] = {}
  BY <1>2, <1>6, <1>8
<1>11. \A g \in UsedSessions(s1) : JarOf(s1, k1, g) = J[g]
  <2> HIDE DEF J
  <2>1. QED BY <1>1, <1>9, <1>10, JarsAre
<1>12. /\ JarOf(s1, k1, h) = JarOf(sess, ck, h) \cup {c}
       /\ \A g \in UsedSessions(sess) \ {h} : JarOf(s1, k1, g) = JarOf(sess, ck, g)
  BY <1>6, <1>11
<1>13. \A d \in UsedCookies(ck) : SameCookie(ck, k1, d)
  BY <1>3, <1>7
<1>14. JoinsJar(sess, ck, h, c, s1, k1)
  BY <1>6, <1>8, <1>12, <1>13 DEF JoinsJar
<1>15. QED BY <1>7, <1>14 DEF s1, k1, a

(* A step that writes no link leaves the jars as they are.                 *)
LEMMA SameLinks ==
  ASSUME NEW sess, NEW ck, NEW s1, NEW k1,
         StoreTypeOK(s1, k1), WellLinked(s1, k1),
         StoreTypeOK(sess, ck), WellLinked(sess, ck),
         \A g \in SessionSlot :
           /\ s1[g].slot_used = sess[g].slot_used
           /\ s1[g].cookiestore_index = sess[g].cookiestore_index,
         \A d \in CookieSlot :
           /\ k1[d].slot_used = ck[d].slot_used
           /\ k1[d].next = ck[d].next
  PROVE  /\ UsedSessions(s1) = UsedSessions(sess)
         /\ UsedCookies(k1) = UsedCookies(ck)
         /\ \A g \in UsedSessions(sess) : JarOf(s1, k1, g) = JarOf(sess, ck, g)
<1> DEFINE J == [g \in UsedSessions(sess) |-> JarOf(sess, ck, g)]
<1>1. /\ UsedSessions(s1) = UsedSessions(sess)
      /\ UsedCookies(k1) = UsedCookies(ck)
  BY DEF UsedSessions, UsedCookies
<1>2. ASSUME NEW g \in UsedSessions(s1), s1[g].cookiestore_index # -1
      PROVE  s1[g].cookiestore_index \in J[g] /\ ClosedUnderNext(k1, J[g])
  <2>1. /\ g \in UsedSessions(sess)
        /\ s1[g].cookiestore_index = sess[g].cookiestore_index
        /\ J[g] = JarOf(sess, ck, g)
    BY <1>1 DEF UsedSessions
  <2>2. /\ s1[g].cookiestore_index \in J[g]
        /\ ClosedUnderNext(ck, J[g])
        /\ J[g] \subseteq CookieSlot
    BY <2>1, <1>2, JarsFacts DEF UsedCookies
  <2>3. QED BY <2>2 DEF ClosedUnderNext
<1>3. /\ J \in [UsedSessions(s1) -> SUBSET UsedCookies(k1)]
      /\ \A f, g \in UsedSessions(s1) : f # g => J[f] \cap J[g] = {}
  BY <1>1, JarsFacts
<1>4. \A g \in UsedSessions(s1) : JarOf(s1, k1, g) = J[g]
  <2> HIDE DEF J
  <2>1. QED BY <1>2, <1>3, JarsAre
<1>5. QED BY <1>1, <1>4

-----------------------------------------------------------------------------
(* Keys: what the cookies of a session are found by.                       *)

SameKey(ck, c, k1, d) ==
  k1[d].name = ck[c].name /\ k1[d].location_id = ck[c].location_id

(* A used cookie slot holds a cookie: a name, a value and a location.      *)
CookiesNamed(ck) ==
  \A c \in UsedCookies(ck) : /\ ck[c].name \in {Cut[n] : n \in CookieName}
                             /\ ck[c].value \in CookieValue
                             /\ ck[c].location_id \in Location

(* No two cookies of a session have one key, if their names fit.           *)
KeysApart(sess, ck) ==
  \A h \in UsedSessions(sess) : \A c, d \in JarOf(sess, ck, h) :
    ck[c].name \in Exact /\ SameKey(ck, c, ck, d) => c = d

KeysInv(sess, ck) == CookiesNamed(ck) /\ KeysApart(sess, ck)

(* The jar of g1 is part of a jar there was, except for values.            *)
Inherits(sess, ck, s1, k1, g1) ==
  \E g \in UsedSessions(sess) :
    /\ JarOf(s1, k1, g1) \subseteq JarOf(sess, ck, g)
    /\ \A c \in JarOf(s1, k1, g1) :
         SameKey(ck, c, k1, c) /\ k1[c].value \in CookieValue \cup {ck[c].value}

(* When every jar is empty or inherited, keys stay apart.                  *)
LEMMA KeysInherited ==
  ASSUME NEW sess, NEW ck, NEW s1, NEW k1,
         StoreTypeOK(sess, ck), WellLinked(sess, ck), KeysInv(sess, ck),
         StoreTypeOK(s1, k1), WellLinked(s1, k1),
         \A g1 \in UsedSessions(s1) :
           JarOf(s1, k1, g1) = {} \/ Inherits(sess, ck, s1, k1, g1)
  PROVE  KeysInv(s1, k1)
<1>1. KeysApart(s1, k1)
  BY DEF KeysApart, KeysInv, Inherits, SameKey
<1>2. ASSUME NEW c \in UsedCookies(k1)
      PROVE  /\ k1[c].name \in {Cut[n] : n \in CookieName}
             /\ k1[c].value \in CookieValue
             /\ k1[c].location_id \in Location
  <2>1. UsedCookies(k1) = UNION {JarOf(s1, k1, g) : g \in UsedSessions(s1)}
    BY JarsPartition DEF JarOf
  <2>2. PICK g1 \in UsedSessions(s1) : c \in JarOf(s1, k1, g1)
    BY <2>1
  <2>3. PICK g \in UsedSessions(sess) :
          /\ JarOf(s1, k1, g1) \subseteq JarOf(sess, ck, g)
          /\ \A d \in JarOf(s1, k1, g1) :
               SameKey(ck, d, k1, d) /\ k1[d].value \in CookieValue \cup {ck[d].value}
    BY <2>2 DEF Inherits
  <2>4. c \in UsedCookies(ck)
    BY <2>2, <2>3, JarsFacts
  <2>5. QED BY <2>2, <2>3, <2>4 DEF KeysInv, CookiesNamed, SameKey
<1>3. QED BY <1>1, <1>2 DEF KeysInv, CookiesNamed

(* A jar that stays as it is is inherited.                                 *)
LEMMA SameJarInherits ==
  ASSUME NEW sess, NEW ck, NEW s1, NEW k1, NEW g \in UsedSessions(sess), NEW g1,
         SameJar(sess, ck, g, s1, k1, g1)
  PROVE  Inherits(sess, ck, s1, k1, g1)
BY DEF SameJar, SameCookie, Inherits, SameKey

(* Freeing a session keeps the keys of the others apart.                   *)
LEMMA FreeKeepsKeys ==
  ASSUME NEW sess, NEW ck, NEW h \in UsedSessions(sess),
         StoreTypeOK(sess, ck), WellLinked(sess, ck), KeysInv(sess, ck)
  PROVE  KeysInv([sess EXCEPT ![h] = ClearedSession], mshield_shm_free(ck, sess[h]))
<1> DEFINE s1 == [sess EXCEPT ![h] = ClearedSession]
           k1 == mshield_shm_free(ck, sess[h])
<1>1. StoreTypeOK(s1, k1) /\ WellLinked(s1, k1)
  BY FreeKeepsStore
<1>2. FreedJar(sess, ck, h, s1, k1)
  BY FreeJars
<1> HIDE DEF s1, k1
<1>3. \A g \in UsedSessions(s1) : Inherits(sess, ck, s1, k1, g)
  BY <1>2, SameJarInherits DEF FreedJar
<1>4. KeysInv(s1, k1)
  BY <1>1, <1>3, KeysInherited
<1>5. QED BY <1>4 DEF s1, k1

(* So does setting a session up, which starts with no cookie.              *)
LEMMA CreateKeepsKeys ==
  ASSUME NEW sess, NEW ck, NEW i \in SessionSlot,
         NEW sid \in SessionId, NEW uuid \in Uuid, NEW now \in Nat,
         StoreTypeOK(sess, ck), WellLinked(sess, ck), KeysInv(sess, ck)
  PROVE  KeysInv(SessionsAfterCreate(sess, i, sid, uuid, now),
                 CookiesAfterCreate(sess, ck, i))
<1> DEFINE s1 == SessionsAfterCreate(sess, i, sid, uuid, now)
           k1 == CookiesAfterCreate(sess, ck, i)
<1>1. StoreTypeOK(s1, k1) /\ WellLinked(s1, k1)
  BY CreateKeepsStore
<1>2. NewJar(sess, ck, i, s1, k1)
  BY CreateJars
<1> HIDE DEF s1, k1
<1>3. \A g \in UsedSessions(s1) \ {i} : Inherits(sess, ck, s1, k1, g)
  BY <1>2, SameJarInherits DEF NewJar
<1>4. KeysInv(s1, k1)
  BY <1>1, <1>2, <1>3, KeysInherited DEF NewJar
<1>5. QED BY <1>4 DEF s1, k1

(* So does a renewal, which hands the cookies on.                          *)
LEMMA RenewKeepsKeys ==
  ASSUME NEW sess, NEW ck, NEW h \in UsedSessions(sess), NEW i \in SessionSlot,
         NEW sid \in SessionId, NEW now \in Nat, sess[h].uuid \in Uuid,
         StoreTypeOK(sess, ck), WellLinked(sess, ck), KeysInv(sess, ck)
  PROVE  KeysInv(SessionsAfterRenew(sess, h, i, sid, now),
                 CookiesAfterCreate(sess, ck, i))
<1> DEFINE s1 == SessionsAfterRenew(sess, h, i, sid, now)
           k1 == CookiesAfterCreate(sess, ck, i)
<1>1. StoreTypeOK(s1, k1) /\ WellLinked(s1, k1)
  BY RenewKeepsStore
<1>2. MovedJar(sess, ck, h, i, s1, k1)
  BY RenewJars
<1> HIDE DEF s1, k1
<1>3. ASSUME NEW g \in UsedSessions(s1)
      PROVE  Inherits(sess, ck, s1, k1, g)
  <2>1. CASE g = i
    BY <1>2, <2>1, SameJarInherits DEF MovedJar
  <2>2. CASE g # i
    BY <1>2, <2>2, SameJarInherits DEF MovedJar
  <2>3. QED BY <2>1, <2>2
<1>4. KeysInv(s1, k1)
  BY <1>1, <1>3, KeysInherited
<1>5. QED BY <1>4 DEF s1, k1

(* So does deleting a cookie.                                             *)
LEMMA DeleteKeepsKeys ==
  ASSUME NEW sess, NEW ck, NEW h \in UsedSessions(sess),
         NEW c \in JarOf(sess, ck, h),
         StoreTypeOK(sess, ck), WellLinked(sess, ck), KeysInv(sess, ck)
  PROVE  KeysInv([sess EXCEPT ![h].cookiestore_index =
                    AnchorAfterDelete(ck, sess[h].cookiestore_index, c)],
                 DeleteCookie(ck, c))
<1> DEFINE s1 == [sess EXCEPT ![h].cookiestore_index =
                    AnchorAfterDelete(ck, sess[h].cookiestore_index, c)]
           k1 == DeleteCookie(ck, c)
<1>1. StoreTypeOK(s1, k1) /\ WellLinked(s1, k1)
  BY DeleteKeepsStore DEF JarOf
<1>2. LeavesJar(sess, ck, h, c, s1, k1)
  BY DeleteJars
<1> HIDE DEF s1, k1
<1> USE DEF LeavesJar
<1>3. ASSUME NEW g \in UsedSessions(s1)
      PROVE  Inherits(sess, ck, s1, k1, g)
  <2>1. g \in UsedSessions(sess)
    BY <1>2
  <2>2. JarOf(s1, k1, g) \subseteq JarOf(sess, ck, g) \ {c}
    BY <1>2, <2>1, JarsFacts
  <2>3. JarOf(sess, ck, g) \subseteq UsedCookies(ck)
    BY <2>1, JarsFacts
  <2>4. QED BY <1>2, <2>1, <2>2, <2>3 DEF Inherits, SameCookie, SameKey
<1>4. KeysInv(s1, k1)
  BY <1>1, <1>3, KeysInherited
<1>5. QED BY <1>4 DEF s1, k1

(* So does adding one under a key its session does not have yet.           *)
LEMMA AddKeepsKeys ==
  ASSUME NEW sess, NEW ck, NEW h \in UsedSessions(sess),
         NEW c \in CookieSlot \ UsedCookies(ck),
         NEW key \in CookieName, NEW value \in CookieValue,
         NEW locid \in Location,
         Matching(ck, sess[h].cookiestore_index, key, locid) = {},
         StoreTypeOK(sess, ck), WellLinked(sess, ck), KeysInv(sess, ck)
  PROVE  KeysInv([sess EXCEPT ![h].cookiestore_index = c],
                 AddCookie(ck, sess[h].cookiestore_index, c, key, value, locid))
<1> DEFINE s1 == [sess EXCEPT ![h].cookiestore_index = c]
           k1 == AddCookie(ck, sess[h].cookiestore_index, c, key, value, locid)
<1>1. /\ JoinsJar(sess, ck, h, c, s1, k1)
      /\ k1[c].name = Cut[key] /\ k1[c].value = value
      /\ k1[c].location_id = locid
  BY AddJars
<1> HIDE DEF s1, k1
<1> USE DEF JoinsJar
<1>2. CookiesNamed(k1)
  BY <1>1 DEF KeysInv, CookiesNamed, SameCookie
<1>3. \A g \in UsedSessions(sess) : JarOf(sess, ck, g) \subseteq UsedCookies(ck)
  BY JarsFacts
<1>4. ASSUME NEW d \in JarOf(sess, ck, h)
      PROVE  k1[c].name \in Exact => ~ SameKey(k1, d, k1, c)
  <2>1. ck[d].name # key \/ ck[d].location_id # locid
    BY DEF Matching, JarOf
  <2>2. Cut[key] \in Exact => key = Cut[key]
    BY DEF Exact
  <2>3. QED BY <2>1, <2>2, <1>1, <1>3 DEF SameKey, SameCookie
<1>5. ASSUME NEW g \in UsedSessions(s1),
             NEW d \in JarOf(s1, k1, g), NEW e \in JarOf(s1, k1, g),
             k1[d].name \in Exact, SameKey(k1, d, k1, e)
      PROVE  d = e
  <2>1. CASE d \in JarOf(sess, ck, g) /\ e \in JarOf(sess, ck, g)
    BY <2>1, <1>1, <1>3, <1>5 DEF KeysInv, KeysApart, SameKey, SameCookie
  <2>2. CASE ~ (d \in JarOf(sess, ck, g) /\ e \in JarOf(sess, ck, g))
    <3>1. g = h /\ d \in JarOf(sess, ck, h) \cup {c} /\ e \in JarOf(sess, ck, h) \cup {c}
      BY <2>2, <1>1, <1>5
    <3>2. QED BY <3>1, <2>2, <1>4, <1>5 DEF SameKey
  <2>3. QED BY <2>1, <2>2
<1>6. KeysApart(s1, k1)
  BY <1>5 DEF KeysApart
<1>7. KeysInv(s1, k1)
  BY <1>2, <1>6 DEF KeysInv
<1>8. QED BY <1>7 DEF s1, k1

(* A cookie has another value in k1, and that is all.                      *)
Overwritten(sess, ck, c, value, k1) ==
  /\ UsedCookies(k1) = UsedCookies(ck)
  /\ \A g \in UsedSessions(sess) : JarOf(sess, k1, g) = JarOf(sess, ck, g)
  /\ \A d \in UsedCookies(ck) \ {c} : SameCookie(ck, k1, d)
  /\ SameKey(ck, c, k1, c) /\ k1[c].value = value

(* Overwriting a value touches neither keys nor jars.                      *)
LEMMA UpdateKeepsKeys ==
  ASSUME NEW sess, NEW ck, NEW c \in UsedCookies(ck), NEW value \in CookieValue,
         StoreTypeOK(sess, ck), WellLinked(sess, ck), KeysInv(sess, ck)
  PROVE  /\ KeysInv(sess, [ck EXCEPT ![c].value = value])
         /\ Overwritten(sess, ck, c, value, [ck EXCEPT ![c].value = value])
<1> DEFINE k1 == [ck EXCEPT ![c].value = value]
<1>1. StoreTypeOK(sess, k1) /\ WellLinked(sess, k1)
  BY UpdateKeepsStore
<1>2. /\ c \in CookieSlot /\ ck[c] \in cookie_t
      /\ UsedCookies(ck) \subseteq CookieSlot
      /\ DOMAIN ck = CookieSlot
  BY DEF StoreTypeOK, UsedCookies
<1>3. /\ \A d \in CookieSlot : /\ k1[d].slot_used = ck[d].slot_used
                               /\ k1[d].next = ck[d].next
                               /\ SameKey(ck, d, k1, d)
                               /\ d # c => k1[d].value = ck[d].value
      /\ k1[c].value = value
  BY <1>2 DEF cookie_t, SameKey
<1> HIDE DEF k1
<1>4. /\ UsedCookies(k1) = UsedCookies(ck)
      /\ \A g \in UsedSessions(sess) : JarOf(sess, k1, g) = JarOf(sess, ck, g)
  BY <1>1, <1>3, SameLinks
<1>5. \A g \in UsedSessions(sess) : Inherits(sess, ck, sess, k1, g)
  BY <1>2, <1>3, <1>4, JarsFacts DEF Inherits
<1>6. KeysInv(sess, k1)
  BY <1>1, <1>5, KeysInherited
<1>7. \A d \in UsedCookies(ck) \ {c} : SameCookie(ck, k1, d)
  BY <1>2, <1>3 DEF SameCookie, SameKey
<1>8. Overwritten(sess, ck, c, value, k1)
  BY <1>2, <1>3, <1>4, <1>7 DEF Overwritten
<1>9. QED BY <1>6, <1>8 DEF k1

(* Nor does writing other fields of the sessions.                          *)
LEMMA FieldsKeepKeys ==
  ASSUME NEW sess, NEW ck, NEW s1 \in [SessionSlot -> session_data_t],
         StoreTypeOK(sess, ck), WellLinked(sess, ck), KeysInv(sess, ck),
         \A g \in SessionSlot :
           /\ s1[g].slot_used = sess[g].slot_used
           /\ s1[g].cookiestore_index = sess[g].cookiestore_index
  PROVE  /\ KeysInv(s1, ck)
         /\ UsedSessions(s1) = UsedSessions(sess)
         /\ \A g \in UsedSessions(sess) : JarOf(s1, ck, g) = JarOf(sess, ck, g)
BY DEF KeysInv, KeysApart, JarOf, UsedSessions

-----------------------------------------------------------------------------
(* Types alone: what every function keeps even of a store whose links are  *)
(* broken, such as a write through a stale handle may leave behind.        *)

(* Freeing any slot.                                                       *)
LEMMA FreeTypes ==
  ASSUME NEW sess, NEW ck, NEW h \in SessionSlot, StoreTypeOK(sess, ck)
  PROVE  /\ mshield_shm_free(ck, sess[h]) \in [CookieSlot -> cookie_t]
         /\ StoreTypeOK([sess EXCEPT ![h] = ClearedSession],
                        mshield_shm_free(ck, sess[h]))
BY ClearedTypes DEF StoreTypeOK, mshield_shm_free, mshield_cookiestore_free

(* Setting a session up.                                                   *)
LEMMA CreateTypes ==
  ASSUME NEW sess, NEW ck, NEW i \in SessionSlot, NEW sid \in SessionId,
         NEW uuid \in Uuid \cup {Null}, NEW now \in Nat, StoreTypeOK(sess, ck)
  PROVE  StoreTypeOK(SessionsAfterCreate(sess, i, sid, uuid, now),
                     CookiesAfterCreate(sess, ck, i))
<1>1. NewSession(sid, uuid, now) \in session_data_t
  BY DEF NewSession, session_data_t
<1>2. CookiesAfterCreate(sess, ck, i) \in [CookieSlot -> cookie_t]
  BY FreeTypes DEF CookiesAfterCreate, StoreTypeOK
<1>3. QED BY <1>1, <1>2 DEF SessionsAfterCreate, StoreTypeOK

(* Renewing the session in any slot.                                       *)
LEMMA RenewTypes ==
  ASSUME NEW sess, NEW ck, NEW h \in SessionSlot, NEW i \in SessionSlot,
         NEW sid \in SessionId, NEW now \in Nat, StoreTypeOK(sess, ck)
  PROVE  StoreTypeOK(SessionsAfterRenew(sess, h, i, sid, now),
                     CookiesAfterCreate(sess, ck, i))
<1> DEFINE s0 == SessionsAfterCreate(sess, i, sid, sess[h].uuid, now)
           k1 == CookiesAfterCreate(sess, ck, i)
<1>1. sess[h].uuid \in Uuid \cup {Null}
  BY DEF StoreTypeOK, session_data_t
<1>2. StoreTypeOK(s0, k1)
  BY <1>1, CreateTypes
<1> HIDE DEF s0, k1
<1>3. CopyContent(s0[i], s0[h]) \in session_data_t
  BY <1>2, CopyContentType DEF StoreTypeOK
<1>4. StoreTypeOK([s0 EXCEPT ![i] = CopyContent(s0[i], s0[h]),
                             ![h] = ClearedSession], k1)
  BY <1>2, <1>3, ClearedTypes DEF StoreTypeOK
<1>5. QED BY <1>4 DEF SessionsAfterRenew, s0, k1

(* Deleting, adding and updating a cookie.                                 *)
LEMMA DeleteTypes ==
  ASSUME NEW sess, NEW ck, NEW h \in SessionSlot, NEW c \in CookieSlot,
         StoreTypeOK(sess, ck)
  PROVE  StoreTypeOK([sess EXCEPT ![h].cookiestore_index =
                        AnchorAfterDelete(ck, sess[h].cookiestore_index, c)],
                     DeleteCookie(ck, c))
<1> DEFINE p == ck[c].prev
           n == ck[c].next
           k1 == IF p = -1 THEN ck ELSE [ck EXCEPT ![p].next = n]
           k2 == IF n = -1 THEN k1 ELSE [k1 EXCEPT ![n].prev = p]
<1>1. /\ p \in CookieSlot \cup {-1} /\ n \in CookieSlot \cup {-1}
      /\ sess[h].cookiestore_index \in CookieSlot \cup {-1}
  BY SlotTypes
<1>2. k1 \in [CookieSlot -> cookie_t]
  BY <1>1 DEF StoreTypeOK, cookie_t
<1>3. k2 \in [CookieSlot -> cookie_t]
  <2> HIDE DEF k1, p, n
  <2>1. QED BY <1>1, <1>2 DEF cookie_t
<1>4. DeleteCookie(ck, c) = [k2 EXCEPT ![c] = ClearedCookie]
  BY DEF DeleteCookie
<1>5. AnchorAfterDelete(ck, sess[h].cookiestore_index, c) \in CookieSlot \cup {-1}
  BY <1>1 DEF AnchorAfterDelete
<1> HIDE DEF k2
<1>6. DeleteCookie(ck, c) \in [CookieSlot -> cookie_t]
  BY <1>3, <1>4, ClearedTypes
<1>7. QED BY <1>5, <1>6 DEF StoreTypeOK, session_data_t

(* So does an addition, wherever the new slot is.                          *)
LEMMA AddTypes ==
  ASSUME NEW sess, NEW ck, NEW h \in SessionSlot, NEW c \in CookieSlot,
         NEW key \in CookieName, NEW value \in CookieValue,
         NEW locid \in Location, StoreTypeOK(sess, ck)
  PROVE  StoreTypeOK([sess EXCEPT ![h].cookiestore_index = c],
                     AddCookie(ck, sess[h].cookiestore_index, c, key, value, locid))
<1> DEFINE a   == sess[h].cookiestore_index
           new == [slot_used |-> TRUE, name |-> Cut[key], value |-> value,
                   location_id |-> locid, next |-> a,
                   prev |-> IF a = -1 THEN -1 ELSE ck[c].prev]
           k1  == [ck EXCEPT ![c] = new]
<1>1. a \in CookieSlot \cup {-1} /\ ck[c].prev \in CookieSlot \cup {-1}
  BY SlotTypes
<1>2. new \in cookie_t
  <2> HIDE DEF a
  <2>1. QED BY <1>1 DEF cookie_t
<1>3. k1 \in [CookieSlot -> cookie_t]
  <2> HIDE DEF new
  <2>1. QED BY <1>2 DEF StoreTypeOK
<1>4. AddCookie(ck, a, c, key, value, locid) =
        IF a = -1 THEN k1 ELSE [k1 EXCEPT ![a].prev = c]
  BY DEF AddCookie
<1> HIDE DEF k1, a
<1>5. AddCookie(ck, a, c, key, value, locid) \in [CookieSlot -> cookie_t]
  BY <1>1, <1>3, <1>4 DEF cookie_t
<1>6. [sess EXCEPT ![h].cookiestore_index = c] \in [SessionSlot -> session_data_t]
  BY DEF StoreTypeOK, session_data_t
<1>7. QED BY <1>5, <1>6 DEF StoreTypeOK, a

(* So does a new value.                                                    *)
LEMMA UpdateTypes ==
  ASSUME NEW sess, NEW ck, NEW c \in CookieSlot, NEW value \in CookieValue,
         StoreTypeOK(sess, ck)
  PROVE  StoreTypeOK(sess, [ck EXCEPT ![c].value = value])
BY DEF StoreTypeOK, cookie_t

=============================================================================
