------------------------------ MODULE ShmStore ------------------------------
(***************************************************************************)
(* The shared memory of mod_mshield: the session slots and the cookie      *)
(* slots, and the functions of mod_mshield_shm.c and mod_mshield_session.c *)
(* over them.  A function of the code that writes the shared memory is an  *)
(* operator that returns the new contents of one of the two arrays; the    *)
(* modules that EXTEND this one say when it is called and with which locks *)
(* held.                                                                   *)
(*                                                                         *)
(* Slot numbers are the C array indices (from 0) and -1 is the null index, *)
(* as in the code: a slot cleared by memset names cookie slot 0, not none. *)
(***************************************************************************)
EXTENDS Integers, FiniteSets

CONSTANTS
  SESSION_COUNT,       \* MOD_MSHIELD_SESSION_COUNT
  COOKIESTORE_COUNT,   \* MOD_MSHIELD_COOKIESTORE_COUNT
  SessionId,           \* what generate_session_id can draw for a session id
  Uuid,                \* what it can draw for a session's UUID
  CookieName,          \* names of Set-Cookie headers
  Cut,                 \* Cut[n]: what cookie_t.name, of 100 bytes, takes of name n
  CookieValue,         \* values, as cookie_t.value takes them, but for "deleted"
  Location,            \* mod_mshield_location_id of the configured Locations
  UserName,            \* names the logon server announces
  HARD_TIMEOUT,        \* MOD_MSHIELD_SESSION_HARD_TIMEOUT
  INACTIVITY_TIMEOUT,  \* MOD_MSHIELD_SESSION_INACTIVITY_TIMEOUT
  Null                 \* the zero bytes of a text field cleared by memset

ASSUME CountsAssumption ==
  /\ SESSION_COUNT \in Nat \ {0}
  /\ COOKIESTORE_COUNT \in Nat \ {0}

ASSUME DataAssumption ==
  /\ Location \subseteq Nat
  /\ Null \notin SessionId \cup Uuid \cup UserName
  /\ {"empty", "deleted"} \cap (CookieName \cup CookieValue) = {}
  /\ \A n \in CookieName : Cut[n] # "empty"

ASSUME TimeoutAssumption ==
  /\ HARD_TIMEOUT \in Nat
  /\ INACTIVITY_TIMEOUT \in Nat

SessionSlot == 0 .. SESSION_COUNT - 1

CookieSlot == 0 .. COOKIESTORE_COUNT - 1

INVALID_SESSION_HANDLE == -1

-----------------------------------------------------------------------------
(* The slots of the two arrays.  logon_state stands for all the session    *)
(* fields that only mshield_session_renew copies as they are (auth_strength, *)
(* redirect_on_auth_flag, url, service_list, redirect_url_after_login).    *)

session_data_t ==
  [slot_used : BOOLEAN, session_id : SessionId \cup {Null},
   uuid : Uuid \cup {Null}, ctime : Nat, atime : Nat,
   cookiestore_index : CookieSlot \cup {-1}, logon_state : {0, 1},
   username : UserName \cup {Null}]

cookie_t ==
  [slot_used : BOOLEAN, name : {Cut[n] : n \in CookieName} \cup {"empty"},
   value : CookieValue \cup {"empty"}, location_id : Location \cup {-1},
   next : CookieSlot \cup {-1}, prev : CookieSlot \cup {-1}]

ClearedSession ==
  [slot_used |-> FALSE, session_id |-> Null, uuid |-> Null, ctime |-> 0,
   atime |-> 0, cookiestore_index |-> 0, logon_state |-> 0,
   username |-> Null]

ClearedCookie ==
  [slot_used |-> FALSE, name |-> "empty", value |-> "empty",
   location_id |-> -1, next |-> -1, prev |-> -1]

(* The names that a look-up finds where they were stored, and nowhere else: *)
(* those that fit, unless a longer one is cut down to them.                *)
Exact == {n \in CookieName : Cut[n] = n /\ \A m \in CookieName : Cut[m] = n => m = n}

UsedSessions(sess) == {i \in SessionSlot : sess[i].slot_used}

UsedCookies(ck) == {c \in CookieSlot : ck[c].slot_used}

-----------------------------------------------------------------------------
(* Chains of cookies.  The loops of the code that follow `next' from an    *)
(* anchor visit the least set that contains it and is closed under next:   *)
(* the slots that no such set goes without.                                *)

ClosedUnderNext(ck, S) == \A c \in S : ck[c].next # -1 => ck[c].next \in S

Chain(ck, anchor) ==
  IF anchor = -1 THEN {}
  ELSE {c \in CookieSlot : \A S \in SUBSET (CookieSlot \ {c}) :
                            anchor \in S => ~ ClosedUnderNext(ck, S)}

Matching(ck, anchor, key, locid) ==
  {c \in Chain(ck, anchor) : ck[c].name = key /\ ck[c].location_id = locid}

(* Mutant: only the head of the chain is compared.                         *)
LookAtHeadOnly(ck, anchor, key, locid) ==
  IF anchor \in Matching(ck, anchor, key, locid) THEN anchor ELSE -1

get_cookie_index_by_name(ck, anchor, key, locid) ==
  LET found == Matching(ck, anchor, key, locid)
  IN  IF found = {} THEN -1
      ELSE CHOOSE c \in found : found \subseteq Chain(ck, c)

FirstEmptyCookieSlot(ck, c) ==
  /\ c \in CookieSlot \ UsedCookies(ck)
  /\ \A d \in 0 .. c - 1 : ck[d].slot_used

mshield_cookiestore_free(ck, anchor) ==
  [c \in CookieSlot |->
     IF c \in Chain(ck, anchor) THEN ClearedCookie ELSE ck[c]]

(* store_cookie_into_session: unlinking a cookie, adding one as the new    *)
(* head of the chain.  Both come with the anchor the session has then.     *)
(* The key is stored cut to size, but looked up whole: a cookie of a longer *)
(* name is stored again each time it is set, and never found.              *)

(* Mutant: the predecessor keeps its link to the deleted cookie.           *)
DeleteLeavesLink(ck, c) ==
  LET n == ck[c].next
      ck1 == IF n = -1 THEN ck ELSE [ck EXCEPT ![n].prev = ck[c].prev]
  IN  [ck1 EXCEPT ![c] = ClearedCookie]

DeleteCookie(ck, c) ==
  LET p == ck[c].prev
      n == ck[c].next
      ck1 == IF p = -1 THEN ck ELSE [ck EXCEPT ![p].next = n]
      ck2 == IF n = -1 THEN ck1 ELSE [ck1 EXCEPT ![n].prev = p]
  IN  [ck2 EXCEPT ![c] = ClearedCookie]

AnchorAfterDelete(ck, anchor, c) ==
  IF ck[c].prev = -1 THEN ck[c].next ELSE anchor

(* Mutant: the old head does not learn of the new one.                     *)
AddWithoutBackLink(ck, anchor, c, key, value, locid) ==
  [ck EXCEPT ![c] = [slot_used |-> TRUE, name |-> Cut[key], value |-> value,
                     location_id |-> locid, next |-> anchor, prev |-> -1]]

AddCookie(ck, anchor, c, key, value, locid) ==
  LET new == [slot_used |-> TRUE, name |-> Cut[key], value |-> value,
              location_id |-> locid, next |-> anchor,
              prev |-> IF anchor = -1 THEN -1 ELSE ck[c].prev]
      ck1 == [ck EXCEPT ![c] = new]
  IN  IF anchor = -1 THEN ck1 ELSE [ck1 EXCEPT ![anchor].prev = c]

-----------------------------------------------------------------------------
(* Sessions.                                                               *)

(* Mutant: a session ends in the second its time is up, not after it.      *)
TimeoutInclusive(s, now) ==
  \/ now - s.ctime >= HARD_TIMEOUT
  \/ now - s.atime >= INACTIVITY_TIMEOUT

mshield_shm_timeout(s, now) ==
  \/ now - s.ctime > HARD_TIMEOUT
  \/ now - s.atime > INACTIVITY_TIMEOUT

(* Mutant: the cookies of the session stay in their slots.                 *)
FreeKeepsCookies(ck, s) == ck

(* mshield_shm_free: the cookies it leaves; the slot itself is cleared.    *)
mshield_shm_free(ck, s) == mshield_cookiestore_free(ck, s.cookiestore_index)

(* The slot the loop of create_new_shm_session stops at.                   *)
Reusable(s, now) == s.slot_used => mshield_shm_timeout(s, now)

FirstReusableSlot(sess, now, i) ==
  /\ i \in SessionSlot
  /\ Reusable(sess[i], now)
  /\ \A j \in 0 .. i - 1 : ~ Reusable(sess[j], now)

StoreFull(sess, now) == \A i \in SessionSlot : ~ Reusable(sess[i], now)

NewSession(sid, uuid, now) ==
  [slot_used |-> TRUE, session_id |-> sid, uuid |-> uuid, ctime |-> now,
   atime |-> now, cookiestore_index |-> -1, logon_state |-> 0,
   username |-> Null]

CookiesAfterCreate(sess, ck, i) ==
  IF sess[i].slot_used THEN mshield_shm_free(ck, sess[i]) ELSE ck

SessionsAfterCreate(sess, i, sid, uuid, now) ==
  [sess EXCEPT ![i] = NewSession(sid, uuid, now)]

(* mshield_session_renew: what the new session takes over from the old one, *)
(* and the slots after a renewal of slot h into slot i.  i may be h itself, *)
(* when that session has timed out since it was looked up.                 *)
(* Mutant: the renewed session counts its hard timeout anew.               *)
CopyWithoutCtime(new, old) ==
  [new EXCEPT !.atime = old.atime, !.logon_state = old.logon_state,
              !.cookiestore_index = old.cookiestore_index, !.uuid = old.uuid]

(* Mutant: the renewed session forgets LOGON=ok.                           *)
CopyWithoutLogon(new, old) ==
  [new EXCEPT !.ctime = old.ctime, !.atime = old.atime,
              !.cookiestore_index = old.cookiestore_index, !.uuid = old.uuid]

CopyContent(new, old) ==
  [new EXCEPT !.ctime = old.ctime, !.atime = old.atime,
              !.cookiestore_index = old.cookiestore_index,
              !.logon_state = old.logon_state, !.uuid = old.uuid]

(* Mutant: the old session is not freed.                                   *)
RenewKeepsOld(sess, h, i, sid, now) ==
  LET created == SessionsAfterCreate(sess, i, sid, sess[h].uuid, now)
  IN  [created EXCEPT ![i] = CopyContent(created[i], created[h])]

SessionsAfterRenew(sess, h, i, sid, now) ==
  LET created == SessionsAfterCreate(sess, i, sid, sess[h].uuid, now)
  IN  [created EXCEPT ![i] = CopyContent(created[i], created[h]),
                      ![h] = ClearedSession]

-----------------------------------------------------------------------------
(* Type and shape of the two arrays.                                       *)

StoreTypeOK(sess, ck) ==
  /\ sess \in [SessionSlot -> session_data_t]
  /\ ck \in [CookieSlot -> cookie_t]

(* The used cookie slots are doubly linked lists.                          *)
DoublyLinked(ck) ==
  \A c \in UsedCookies(ck) :
    /\ ck[c].next # -1 => /\ ck[c].next \in UsedCookies(ck)
                          /\ ck[ck[c].next].prev = c
    /\ ck[c].prev # -1 => /\ ck[c].prev \in UsedCookies(ck)
                          /\ ck[ck[c].prev].next = c

(* A free cookie slot is as mshield_cookie_clear leaves it, which AddCookie *)
(* relies on: it does not write `prev' of a new head.                      *)
FreeCookiesCleared(ck) ==
  \A c \in CookieSlot \ UsedCookies(ck) : ck[c] = ClearedCookie

(* The heads of the lists are the anchors of the used sessions, one each.  *)
Heads(ck) == {c \in UsedCookies(ck) : ck[c].prev = -1}

AnchorsAreHeads(sess, ck) ==
  /\ \A h \in UsedSessions(sess) :
       sess[h].cookiestore_index # -1 => sess[h].cookiestore_index \in Heads(ck)
  /\ \A c \in Heads(ck) :
       \E h \in UsedSessions(sess) : sess[h].cookiestore_index = c
  /\ \A g, h \in UsedSessions(sess) :
       sess[g].cookiestore_index = sess[h].cookiestore_index
         => g = h \/ sess[g].cookiestore_index = -1

(* No list is a ring: a set of used slots always has one whose predecessor *)
(* and one whose successor is outside of it.                               *)
NoRing(ck) ==
  \A S \in SUBSET UsedCookies(ck) : S # {} =>
    /\ \E c \in S : ck[c].prev \notin S
    /\ \E c \in S : ck[c].next \notin S

WellLinked(sess, ck) ==
  /\ DoublyLinked(ck)
  /\ FreeCookiesCleared(ck)
  /\ AnchorsAreHeads(sess, ck)
  /\ NoRing(ck)
=============================================================================
