------------------------------- MODULE MShield -------------------------------
(***************************************************************************)
(* Requests going through mod_mshield: the workers of the Apache MPM run   *)
(* the access checker, wait for the fraud engine, let the backend answer   *)
(* and run the output filter, on the one store of ShmStore.                *)
(*                                                                         *)
(* The giant mutex is held from the lock to the unlock of each hook, with  *)
(* one gap: a request for a critical URL releases it while it waits for    *)
(* the engine's verdict (mod_mshield_kafka.c), and keeps its session_t.    *)
(* Between the two hooks a request keeps the slot number in r->notes.      *)
(* A FRAUD verdict is carried out without the mutex; its steps interleave  *)
(* with whole steps of other workers here, in the code with parts of them. *)
(***************************************************************************)
EXTENDS SharedMemory

CONSTANTS
  Worker,            \* processes or threads of the MPM
  Free,              \* nobody: the value of a mutex that is not held
  FRAUD_DETECTION,   \* MOD_MSHIELD_FRAUD_DETECTION_ENABLED
  Verdict,           \* answers of the engine, of "OK", "SUSPICIOUS", "FRAUD"
  LOCK_MAY_FAIL,     \* whether apr_global_mutex_lock may return an error
  MAX_SETCOOKIES     \* bound on the Set-Cookie headers of one response

ASSUME FlowAssumption ==
  /\ Free \notin Worker
  /\ FRAUD_DETECTION \in BOOLEAN
  /\ Verdict \subseteq {"OK", "SUSPICIOUS", "FRAUD"}
  /\ LOCK_MAY_FAIL \in BOOLEAN
  /\ MAX_SETCOOKIES \in Nat

VARIABLES
  mutex,      \* mshield_mutex: its holder or Free
  pc,         \* where each worker is
  req         \* what each worker knows of its request

store == <<sessions, cookies>>

vars == <<sessions, cookies, now, mutex, pc, req>>

(* Where a worker that runs a hook holds the mutex, and all its places.    *)
Locked == {"lookup", "validate", "click", "authorize", "filter", "looping"}

PC == Locked \cup {"idle", "waiting", "relock", "backend"}

(* A request: the session id its cookie names, the slot in session_t and   *)
(* in r->notes, how many Set-Cookie headers were filtered, must_renew, and *)
(* the result of the wait.  uuid (of the session that the access checker   *)
(* found) and critical are history: no step of the code depends on them.   *)
NoRequest ==
  [sid |-> Null, handle |-> INVALID_SESSION_HANDLE, filtered |-> 0,
   must_renew |-> FALSE, verdict |-> "none", uuid |-> Null, critical |-> FALSE]

Request ==
  [sid : SessionId \cup {Null},
   handle : SessionSlot \cup {INVALID_SESSION_HANDLE},
   filtered : 0 .. MAX_SETCOOKIES, must_renew : BOOLEAN,
   verdict : {"none", "OK", "SUSPICIOUS", "FRAUD", "error"},
   uuid : Uuid \cup {Null}, critical : BOOLEAN]

Init ==
  /\ sessions = [i \in SessionSlot |-> ClearedSession]
  /\ cookies = [c \in CookieSlot |-> ClearedCookie]
  /\ now = 0
  /\ mutex = Free
  /\ pc = [w \in Worker |-> "idle"]
  /\ req = [w \in Worker |-> NoRequest]

Goto(w, place) == pc' = [pc EXCEPT ![w] = place]

(* Lock and unlock mshield_mutex; the caller goes to another place.        *)
Acquire(w, place) == mutex = Free /\ mutex' = w /\ Goto(w, place)

Release(w, place) == mutex' = Free /\ Goto(w, place)

(* Unlock and answer the request.                                          *)
Return(w) == Release(w, "idle") /\ req' = [req EXCEPT ![w] = NoRequest]

Handle(w) == req[w].handle

Anchor(w) == sessions[Handle(w)].cookiestore_index

(* A UUID is not drawn again either while a request remembers it.          *)
FreshUuid ==
  Uuid \ ({sessions[i].uuid : i \in UsedSessions(sessions)}
            \cup {req[w].uuid : w \in Worker})

(* A walk along `next' that meets no end, on a ring of cookies.            *)
Endless(anchor) ==
  anchor # -1 /\ \A c \in Chain(cookies, anchor) : cookies[c].next # -1

Unlinked(h) ==
  /\ cookies' = mshield_shm_free(cookies, sessions[h])
  /\ sessions' = [sessions EXCEPT ![h] = ClearedSession]

(* The slot a new session is set up in; its last session, timed out, ends. *)
NewSlot(i) ==
  /\ FirstReusableSlot(sessions, now, i)
  /\ cookies' = CookiesAfterCreate(sessions, cookies, i)

-----------------------------------------------------------------------------
(* The access checker, from its lock to its unlocks.                       *)

AccessChecker(w) ==
  /\ pc[w] = "idle"
  /\ Acquire(w, "lookup")
  /\ \E sid \in SessionId \cup {Null} : req' = [req EXCEPT ![w].sid = sid]
  /\ UNCHANGED <<store, now>>

(* The renew URL, or no session cookie: set up a session and redirect, to  *)
(* the shm-full page when there is no slot.                                *)
CreateSession(w) ==
  /\ pc[w] = "lookup"
  /\ \/ \E i \in SessionSlot, sid \in FreshId, uuid \in FreshUuid :
          /\ NewSlot(i)
          /\ sessions' = SessionsAfterCreate(sessions, i, sid, uuid, now)
     \/ StoreFull(sessions, now) /\ UNCHANGED store
  /\ Return(w)
  /\ now' = now

(* The session free URL is declined: it needs no session.                  *)
FreeUrl(w) ==
  /\ pc[w] = "lookup"
  /\ Return(w)
  /\ UNCHANGED <<store, now>>

(* The first used slot with the id; without one the request ends in a      *)
(* redirection to the session expired URL.                                 *)
(* Mutant: the mutex is released once the session is found.                *)
FindAndUnlock(w) ==
  /\ pc[w] = "lookup"
  /\ \E i \in UsedSessions(sessions) :
       /\ sessions[i].session_id = req[w].sid
       /\ req' = [req EXCEPT ![w].sid = Null, ![w].handle = i,
                             ![w].uuid = sessions[i].uuid]
  /\ Release(w, "validate")
  /\ UNCHANGED <<store, now>>

mshield_session_find(w) ==
  /\ pc[w] = "lookup" /\ req[w].sid # Null
  /\ LET found == {i \in UsedSessions(sessions) :
                     sessions[i].session_id = req[w].sid}
     IN  \/ found = {} /\ Return(w)
         \/ \E i \in found :
              /\ \A j \in found : i <= j
              /\ req' = [req EXCEPT ![w].sid = Null, ![w].handle = i,
                                    ![w].uuid = sessions[i].uuid]
              /\ Goto(w, "validate")
              /\ mutex' = mutex
  /\ UNCHANGED <<store, now>>

(* Mutant: a session that timed out is freed, and its request goes on.     *)
ValidateGoesOn(w) ==
  /\ pc[w] = "validate"
  /\ IF mshield_shm_timeout(sessions[Handle(w)], now)
     THEN Unlinked(Handle(w))
     ELSE /\ sessions' = [sessions EXCEPT ![Handle(w)].atime = now]
          /\ cookies' = cookies
  /\ Goto(w, "click")
  /\ UNCHANGED <<now, mutex, req>>

mshield_session_validate(w) ==
  /\ pc[w] = "validate"
  /\ IF mshield_shm_timeout(sessions[Handle(w)], now)
     THEN Unlinked(Handle(w)) /\ Return(w)
     ELSE /\ sessions' = [sessions EXCEPT ![Handle(w)].atime = now]
          /\ Goto(w, "click")
          /\ UNCHANGED <<cookies, mutex, req>>
  /\ now' = now

(* extract_click_to_kafka: without fraud detection it is skipped, and a    *)
(* click that needs no validation is only sent.  A click that cannot be    *)
(* sent is redirected to the fraud error page; that of a critical URL      *)
(* unlocks and waits.                                                      *)
UncriticalClick(w) ==
  /\ pc[w] = "click"
  /\ Goto(w, "authorize")
  /\ UNCHANGED <<store, now, mutex, req>>

ClickFails(w) ==
  /\ FRAUD_DETECTION /\ pc[w] = "click"
  /\ Return(w)
  /\ UNCHANGED <<store, now>>

CriticalClick(w) ==
  /\ FRAUD_DETECTION /\ pc[w] = "click"
  /\ Release(w, "waiting")
  /\ req' = [req EXCEPT ![w].critical = TRUE]
  /\ UNCHANGED <<store, now>>

(* handle_mshield_result, without the mutex: on FRAUD it frees the slot of *)
(* the session_t there and then.                                           *)
handle_mshield_result(w) ==
  /\ pc[w] = "waiting"
  /\ \E verdict \in Verdict :
       /\ req' = [req EXCEPT ![w].verdict = verdict]
       /\ IF verdict = "FRAUD" THEN Unlinked(Handle(w)) ELSE UNCHANGED store
  /\ Goto(w, "relock")
  /\ UNCHANGED <<now, mutex>>

WaitFails(w) ==
  /\ pc[w] = "waiting"
  /\ req' = [req EXCEPT ![w].verdict = "error"]
  /\ Goto(w, "relock")
  /\ UNCHANGED <<store, now, mutex>>

(* Mutant: every result but FRAUD goes on.                                 *)
RelockIgnoresError(w) ==
  /\ pc[w] = "relock" /\ req[w].verdict # "FRAUD"
  /\ Acquire(w, "authorize")
  /\ UNCHANGED <<store, now, req>>

(* An OK goes on.  So does SUSPICIOUS when the session had the highest     *)
(* auth_strength; else it was redirected to the stronger login.            *)
Relock(w) ==
  /\ pc[w] = "relock"
  /\ mutex = Free
  /\ \/ /\ req[w].verdict \in {"OK", "SUSPICIOUS"}
        /\ Acquire(w, "authorize")
        /\ req' = req
     \/ req[w].verdict # "OK" /\ Return(w)
  /\ UNCHANGED <<store, now>>

(* When the mutex cannot be had again, extract_click_to_kafka returns an   *)
(* error without it; the access checker unlocks it all the same.           *)
RelockFails(w) ==
  /\ LOCK_MAY_FAIL
  /\ pc[w] = "relock"
  /\ Return(w)
  /\ UNCHANGED <<store, now>>

(* The logout URL; the redirections of cookie test, login, step-up and     *)
(* return to the original URL; a request that goes on to the backend, with *)
(* the cookies of its session.                                             *)
DestroySession(w) ==
  /\ pc[w] = "authorize"
  /\ Unlinked(Handle(w))
  /\ Return(w)
  /\ now' = now

Redirect(w) ==
  /\ pc[w] = "authorize"
  /\ Return(w)
  /\ UNCHANGED <<store, now>>

Proceed(w) ==
  /\ pc[w] = "authorize"
  /\ ~ Endless(Anchor(w))
  /\ Release(w, "backend")
  /\ UNCHANGED <<store, now, req>>

-----------------------------------------------------------------------------
(* The output filter: it opens the slot of r->notes and takes the          *)
(* Set-Cookie headers of the response one by one.                          *)

(* Mutant: the slot of r->notes is used without a look at slot_used.       *)
OpenUnchecked(w) ==
  /\ pc[w] = "backend"
  /\ Acquire(w, "filter")
  /\ UNCHANGED <<store, now, req>>

OutputFilter(w) ==
  /\ pc[w] = "backend"
  /\ mutex = Free
  /\ \/ /\ sessions[Handle(w)].slot_used
        /\ Acquire(w, "filter")
        /\ req' = req
     \/ /\ ~ sessions[Handle(w)].slot_used       \* "Session not found!"
        /\ Return(w)
  /\ UNCHANGED <<store, now>>

(* Mutant: the headers to keep are added to the table that is being walked, *)
(* and the walk does not come to its end.                                  *)
HeaderStays(w) == UNCHANGED <<mutex, pc, req>>

CountHeader(w) ==
  /\ req' = [req EXCEPT ![w].filtered = @ + 1]
  /\ UNCHANGED <<mutex, pc>>

AddsCookie(w, key, locid) ==
  \E c \in CookieSlot, value \in CookieValue :
    /\ FirstEmptyCookieSlot(cookies, c)
    /\ cookies' = AddCookie(cookies, Anchor(w), c, key, value, locid)
    /\ sessions' = [sessions EXCEPT ![Handle(w)].cookiestore_index = c]
    /\ CountHeader(w)

FindsStoreFull(w) ==
  /\ UsedCookies(cookies) = CookieSlot
  /\ Return(w)
  /\ UNCHANGED store

(* Mutant: a known cookie is updated before "deleted" is looked at.        *)
UpdatesToDeleted(w, c) ==
  /\ \E value \in CookieValue \cup {"deleted"} :
       cookies' = [cookies EXCEPT ![c].value = value]
  /\ CountHeader(w)
  /\ UNCHANGED sessions

UpdatesCookie(w, c) ==
  /\ \E value \in CookieValue : cookies' = [cookies EXCEPT ![c].value = value]
  /\ CountHeader(w)
  /\ UNCHANGED sessions

DeletesCookie(w, c) ==
  /\ cookies' = DeleteCookie(cookies, c)
  /\ sessions' = [sessions EXCEPT ![Handle(w)].cookiestore_index =
                    AnchorAfterDelete(cookies, Anchor(w), c)]
  /\ CountHeader(w)

(* A cookie that goes to the store: under the location of the request, or  *)
(* under one the logon server names.  (The user name a header may announce *)
(* too is left to SessionStore: no step here depends on it.)               *)
FilterCookie(w) ==
  /\ pc[w] = "filter" /\ req[w].filtered < MAX_SETCOOKIES
  /\ \E key \in CookieName, locid \in Location :
       LET c == get_cookie_index_by_name(cookies, Anchor(w), key, locid)
       IN  \/ c = -1 /\ ~ Endless(Anchor(w)) /\ (AddsCookie(w, key, locid) \/ FindsStoreFull(w))
           \/ c # -1 /\ (UpdatesCookie(w, c) \/ DeletesCookie(w, c))
  /\ now' = now

(* LOGON=ok from an authorized logon URL.                                  *)
FilterLogon(w) ==
  /\ pc[w] = "filter" /\ ~ req[w].must_renew
  /\ sessions' = [sessions EXCEPT ![Handle(w)].logon_state = 1]
  /\ req' = [req EXCEPT ![w].must_renew = TRUE]
  /\ UNCHANGED <<cookies, now, mutex, pc>>

(* The end of a response without a renewal, or an error in a header.       *)
FilterDone(w) ==
  /\ pc[w] = "filter"
  /\ Return(w)
  /\ UNCHANGED <<store, now>>

(* The loops over the chain of a session, collecting its cookies for the   *)
(* backend or looking one up that is not there, do not come out of a ring. *)
LoopForever(w) ==
  /\ pc[w] \in {"authorize", "filter"}
  /\ Endless(Anchor(w))
  /\ \/ pc[w] = "authorize"
     \/ /\ req[w].filtered < MAX_SETCOOKIES
        /\ \E key \in CookieName, locid \in Location :
             get_cookie_index_by_name(cookies, Anchor(w), key, locid) = -1
  /\ Goto(w, "looping")
  /\ UNCHANGED <<store, now, mutex, req>>

mshield_session_renew(w) ==
  /\ pc[w] = "filter" /\ req[w].must_renew
  /\ \/ \E i \in SessionSlot, sid \in FreshId :
          /\ NewSlot(i)
          /\ sessions' = SessionsAfterRenew(sessions, Handle(w), i, sid, now)
     \/ StoreFull(sessions, now) /\ UNCHANGED store
  /\ Return(w)
  /\ now' = now

Tick ==
  /\ now < MAX_TIME
  /\ now' = now + 1
  /\ UNCHANGED <<store, mutex, pc, req>>

-----------------------------------------------------------------------------
(* The steps a worker takes on its own, once it has a request and its lock. *)
Step(w) ==
  \/ CreateSession(w)
  \/ FreeUrl(w)
  \/ mshield_session_find(w)
  \/ mshield_session_validate(w)
  \/ UncriticalClick(w)
  \/ ClickFails(w)
  \/ CriticalClick(w)
  \/ handle_mshield_result(w)
  \/ WaitFails(w)
  \/ RelockFails(w)
  \/ DestroySession(w)
  \/ Redirect(w)
  \/ Proceed(w)
  \/ FilterCookie(w)
  \/ FilterLogon(w)
  \/ FilterDone(w)
  \/ LoopForever(w)
  \/ mshield_session_renew(w)

Next ==
  \/ \E w \in Worker :
       Step(w) \/ AccessChecker(w) \/ Relock(w) \/ OutputFilter(w)
  \/ Tick

Spec == Init /\ [][Next]_vars

(* A worker keeps running: a hook blocks only for the mutex, and for Redis *)
(* no longer than its response timeout.  Nothing is assumed of new         *)
(* requests, of the clock, of the backend or of who gets the mutex.        *)
FairSpec == Spec /\ \A w \in Worker : WF_vars(Step(w))

-----------------------------------------------------------------------------
TypeOK ==
  /\ StoreTypeOK(sessions, cookies)
  /\ now \in 0 .. MAX_TIME
  /\ mutex \in Worker \cup {Free}
  /\ pc \in [Worker -> PC]
  /\ req \in [Worker -> Request]

(* The giant mutex excludes: a worker that runs the locked part of a hook  *)
(* is its holder.  No unlock on an error path releases another's lock.     *)
MutualExclusion == \A w \in Worker : pc[w] \in Locked => mutex = w

(* The store survives every interleaving of hooks: its chains are linked   *)
(* lists, one for each used session with cookies, and a slot that is not   *)
(* used is clear, so what the next session finds in it is its own.         *)
StoreIntact ==
  /\ WellLinked(sessions, cookies)
  /\ \A i \in SessionSlot \ UsedSessions(sessions) : sessions[i] = ClearedSession

(* The loops of both hooks over the cookies of their session come to an    *)
(* end: the chain they walk under the mutex has a last cookie.             *)
HookWalksEnd ==
  \A w \in Worker : pc[w] \in {"authorize", "filter"} => ~ Endless(Anchor(w))

(* A worker whose step writes the store holds the mutex.                   *)
MutexDiscipline ==
  [][\A w \in Worker :
       store' # store /\ <<pc[w], req[w]>>' # <<pc[w], req[w]>> => mutex = w]_vars

(* A request goes on to the backend with the session its cookie named, and *)
(* so with that session's logon_state and cookies: the slot of the session_t *)
(* has not been given to another session, or cleared, since it was found.  *)
Current(w) ==
  sessions[Handle(w)].slot_used /\ sessions[Handle(w)].uuid = req[w].uuid

ServesOwnSession ==
  [][\A w \in Worker : pc[w] = "authorize" /\ pc'[w] = "backend"
                          => Current(w)]_vars

(* The Set-Cookie headers of a response, LOGON=ok among them, change the   *)
(* session of its request and no other.                                    *)
FiltersOwnSession ==
  [][\A w \in Worker : pc[w] = "filter" /\ store' # store
                          => Current(w)]_vars

(* A critical request reaches the backend only on a verdict that lets it:  *)
(* not on FRAUD, on a timeout, nor when Redis fails.                       *)
CriticalNeedsVerdict ==
  [][\A w \in Worker :
       pc[w] = "authorize" /\ pc'[w] = "backend" /\ req[w].critical
         => req[w].verdict \in {"OK", "SUSPICIOUS"}]_vars

(* A session the engine called a fraud is dropped: it is gone once its     *)
(* request has had the verdict.                                            *)
FraudEndsSession ==
  \A w \in Worker : req[w].verdict = "FRAUD" =>
    \A i \in UsedSessions(sessions) : sessions[i].uuid # req[w].uuid

(* Every worker that gets the mutex gives it back: each return path of     *)
(* either hook unlocks, and no loop under the mutex runs forever.          *)
MutexReleased == \A w \in Worker : []<>(mutex # w)
=============================================================================
