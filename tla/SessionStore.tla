---------------------------- MODULE SessionStore ----------------------------
(***************************************************************************)
(* The session store as the hooks of mod_mshield use it under mshield_mutex: *)
(* every operation of mod_mshield_session.c is one atomic action, called    *)
(* with a handle that names a used slot.  Time passes between operations,   *)
(* so the session behind a handle may have timed out when it is renewed.    *)
(***************************************************************************)
EXTENDS SharedMemory

VARIABLE ret   \* status and session->handle of the operation that ran last

vars == <<sessions, cookies, now, ret>>

Status == {"STATUS_OK", "STATUS_ENOEXIST", "STATUS_ESHMFULL"}

Result(status, handle) == [status |-> status, handle |-> handle]

(* UUIDs are drawn afresh in the same way.                                 *)
FreshUuid == Uuid \ {sessions[i].uuid : i \in UsedSessions(sessions)}

Init ==
  /\ sessions = [i \in SessionSlot |-> ClearedSession]
  /\ cookies = [c \in CookieSlot |-> ClearedCookie]
  /\ now = 0
  /\ ret = Result("STATUS_OK", INVALID_SESSION_HANDLE)

-----------------------------------------------------------------------------
CreateIn(i, sid, uuid) ==
  /\ FirstReusableSlot(sessions, now, i)
  /\ sessions' = SessionsAfterCreate(sessions, i, sid, uuid, now)
  /\ cookies' = CookiesAfterCreate(sessions, cookies, i)
  /\ ret' = Result("STATUS_OK", i)
  /\ now' = now

(* Mutant: the index the search ended at is taken for a handle.            *)
FullWithHandle ==
  /\ StoreFull(sessions, now)
  /\ ret' = Result("STATUS_ESHMFULL", SESSION_COUNT)
  /\ UNCHANGED <<sessions, cookies, now>>

CreateFull ==
  /\ StoreFull(sessions, now)
  /\ ret' = Result("STATUS_ESHMFULL", INVALID_SESSION_HANDLE)
  /\ UNCHANGED <<sessions, cookies, now>>

mshield_session_create ==
  \/ \E i \in SessionSlot, sid \in FreshId, uuid \in FreshUuid :
       CreateIn(i, sid, uuid)
  \/ CreateFull

mshield_session_unlink(h) ==
  /\ cookies' = mshield_shm_free(cookies, sessions[h])
  /\ sessions' = [sessions EXCEPT ![h] = ClearedSession]
  /\ ret' = Result("STATUS_OK", INVALID_SESSION_HANDLE)
  /\ now' = now

ValidateOk(h) ==
  /\ ~ mshield_shm_timeout(sessions[h], now)
  /\ sessions' = [sessions EXCEPT ![h].atime = now]
  /\ ret' = Result("STATUS_OK", h)
  /\ UNCHANGED <<cookies, now>>

ValidateExpired(h) ==
  /\ mshield_shm_timeout(sessions[h], now)
  /\ cookies' = mshield_shm_free(cookies, sessions[h])
  /\ sessions' = [sessions EXCEPT ![h] = ClearedSession]
  /\ ret' = Result("STATUS_ENOEXIST", INVALID_SESSION_HANDLE)
  /\ now' = now

mshield_session_validate(h) == ValidateOk(h) \/ ValidateExpired(h)

-----------------------------------------------------------------------------
(* mshield_session_set_cookie, one action per branch of                    *)
(* store_cookie_into_session.                                              *)

Anchor(h) == sessions[h].cookiestore_index

DeletedCookie(h, key, locid) ==
  LET c == get_cookie_index_by_name(cookies, Anchor(h), key, locid)
  IN  /\ IF c = -1
         THEN UNCHANGED <<sessions, cookies>>
         ELSE /\ sessions' = [sessions EXCEPT ![h].cookiestore_index =
                                AnchorAfterDelete(cookies, Anchor(h), c)]
              /\ cookies' = DeleteCookie(cookies, c)
      /\ ret' = Result("STATUS_OK", h)
      /\ now' = now

UpdatedCookie(h, key, value, locid) ==
  LET c == get_cookie_index_by_name(cookies, Anchor(h), key, locid)
  IN  /\ c # -1
      /\ cookies' = [cookies EXCEPT ![c].value = value]
      /\ ret' = Result("STATUS_OK", h)
      /\ UNCHANGED <<sessions, now>>

AddedCookie(h, key, value, locid) ==
  /\ get_cookie_index_by_name(cookies, Anchor(h), key, locid) = -1
  /\ \E c \in CookieSlot :
       /\ FirstEmptyCookieSlot(cookies, c)
       /\ cookies' = AddCookie(cookies, Anchor(h), c, key, value, locid)
       /\ sessions' = [sessions EXCEPT ![h].cookiestore_index = c]
  /\ ret' = Result("STATUS_OK", h)
  /\ now' = now

CookieStoreFull(h, key, locid) ==
  /\ get_cookie_index_by_name(cookies, Anchor(h), key, locid) = -1
  /\ UsedCookies(cookies) = CookieSlot
  /\ ret' = Result("STATUS_ESHMFULL", h)
  /\ UNCHANGED <<sessions, cookies, now>>

mshield_session_set_cookie(h) ==
  \E key \in CookieName, locid \in Location :
    \/ DeletedCookie(h, key, locid)
    \/ \E value \in CookieValue : \/ UpdatedCookie(h, key, value, locid)
                                  \/ AddedCookie(h, key, value, locid)
    \/ CookieStoreFull(h, key, locid)

-----------------------------------------------------------------------------
RenewInto(h, i, sid) ==
  /\ FirstReusableSlot(sessions, now, i)
  /\ sessions' = SessionsAfterRenew(sessions, h, i, sid, now)
  /\ cookies' = CookiesAfterCreate(sessions, cookies, i)
  /\ ret' = Result("STATUS_OK", i)
  /\ now' = now

RenewFull(h) ==
  /\ StoreFull(sessions, now)
  /\ ret' = Result("STATUS_ESHMFULL", h)
  /\ UNCHANGED <<sessions, cookies, now>>

mshield_session_renew(h) ==
  \/ \E i \in SessionSlot, sid \in FreshId : RenewInto(h, i, sid)
  \/ RenewFull(h)

(* The response filter writes two fields through session->data: LOGON=ok   *)
(* from an authorized logon URL, and the user name of a logged-on session. *)
LogonOk(h) ==
  /\ sessions' = [sessions EXCEPT ![h].logon_state = 1]
  /\ ret' = Result("STATUS_OK", h)
  /\ UNCHANGED <<cookies, now>>

SetUsername(h) ==
  /\ sessions[h].logon_state = 1
  /\ \E u \in UserName : sessions' = [sessions EXCEPT ![h].username = u]
  /\ ret' = Result("STATUS_OK", h)
  /\ UNCHANGED <<cookies, now>>

Tick ==
  /\ now < MAX_TIME
  /\ now' = now + 1
  /\ UNCHANGED <<sessions, cookies, ret>>

Next ==
  \/ mshield_session_create
  \/ \E h \in UsedSessions(sessions) :
       \/ mshield_session_unlink(h)
       \/ mshield_session_validate(h)
       \/ mshield_session_set_cookie(h)
       \/ mshield_session_renew(h)
       \/ LogonOk(h)
       \/ SetUsername(h)
  \/ Tick

Spec == Init /\ [][Next]_vars

-----------------------------------------------------------------------------
TypeOK ==
  /\ StoreTypeOK(sessions, cookies)
  /\ now \in Nat
  /\ ret \in [status : Status,
              handle : SessionSlot \cup {INVALID_SESSION_HANDLE}]

(* The inductive invariant behind CookieOwnership and ChainsEnd: at the end *)
(* of every operation of the store the cookie slots are doubly linked      *)
(* lists, one for each used session that has cookies, and nothing else.    *)
ChainInv == WellLinked(sessions, cookies)

Jar(h) == Chain(cookies, Anchor(h))

(* No cookie slot leaks and none is shared: a cookie slot is in use exactly *)
(* when it is in the chain of a used session, and of one only.  Every path *)
(* that ends a session (logout, timeout, reuse of its slot, renewal) and   *)
(* every path of store_cookie_into_session has to keep the chains apart.   *)
CookieOwnership ==
  /\ UsedCookies(cookies) = UNION {Jar(h) : h \in UsedSessions(sessions)}
  /\ \A g, h \in UsedSessions(sessions) : g # h => Jar(g) \cap Jar(h) = {}

(* A session has at most one cookie of a name that fits and a location, so *)
(* a browser session never sends two values of it to a backend, and        *)
(* deleting it leaves none behind, whatever cookies of longer names are    *)
(* stored besides, again and again.                                        *)
OneCookiePerKey ==
  \A h \in UsedSessions(sessions) : \A c, d \in Jar(h) :
    cookies[c].name \in Exact /\ cookies[c].name = cookies[d].name
      /\ cookies[c].location_id = cookies[d].location_id => c = d

(* Following `next' from the anchor of a used session ends: the loops of   *)
(* get_cookie_index_by_name and collect_cookies_from_cookiestore and the   *)
(* recursion of mshield_cookiestore_free terminate, under the giant mutex. *)
ChainsEnd ==
  \A h \in UsedSessions(sessions) : Anchor(h) # -1 =>
    \A c \in Jar(h) : \E d \in Chain(cookies, c) : cookies[d].next = -1

(* mshield_session_find and the click messages identify a session by its   *)
(* id and its UUID: no two used slots share either.                        *)
SessionsDistinct ==
  \A g, h \in UsedSessions(sessions) : g # h =>
    /\ sessions[g].session_id # sessions[h].session_id
    /\ sessions[g].uuid # sessions[h].uuid

(* The ids of the sessions in use are drawn ids, never the zero bytes of a *)
(* cleared slot, so the session cookie of a browser always names one.      *)
SessionsNamed ==
  \A h \in UsedSessions(sessions) :
    sessions[h].session_id \in SessionId /\ sessions[h].uuid \in Uuid

(* A session's hard timeout counts from its creation: whatever happens to  *)
(* it, renewals included, a session that lives on under its UUID keeps its *)
(* ctime, and its atime never goes back.                                   *)
HardTimeoutKept ==
  [][\A g \in UsedSessions(sessions), h \in UsedSessions(sessions') :
       sessions[g].uuid = sessions'[h].uuid =>
         /\ sessions'[h].ctime = sessions[g].ctime
         /\ sessions'[h].atime >= sessions[g].atime]_vars
=============================================================================
