----------------------------- MODULE SessionMap -----------------------------
(***************************************************************************)
(* What the session store promises, without slots or lists: a map from the *)
(* UUID of each session that exists to its id, its times and its cookies,  *)
(* with room for SESSION_COUNT sessions and COOKIESTORE_COUNT cookies in   *)
(* all.  An operation returns STATUS_ESHMFULL only when there is no room,  *)
(* and STATUS_ENOEXIST only of a session that has timed out.               *)
(***************************************************************************)
EXTENDS Integers, FiniteSets

CONSTANTS SESSION_COUNT, COOKIESTORE_COUNT, SessionId, Uuid, CookieValue,
          UserName, HARD_TIMEOUT, INACTIVITY_TIMEOUT, Null, MAX_TIME,
          Key,          \* the places of a jar, one for each cookie it can tell apart
          NoCookie      \* what a jar has under a key without a cookie

VARIABLES
  live,     \* the sessions that exist, by UUID
  now

absvars == <<live, now>>

NoCookies == [k \in Key |-> NoCookie]

Exists == DOMAIN live

TotalCookies ==
  LET m == live
  IN  Cardinality({uk \in (DOMAIN m) \X Key : m[uk[1]].jar[uk[2]] # NoCookie})

Expired(u) ==
  \/ now - live[u].ctime > HARD_TIMEOUT
  \/ now - live[u].atime > INACTIVITY_TIMEOUT

FreshIds == SessionId \ {live[u].session_id : u \in Exists}

(* What is left when the sessions D are dropped, and a session is stored.  *)
Without(D) == [u \in Exists \ D |-> live[u]]

With(m, u, s) == [v \in DOMAIN m \cup {u} |-> IF v = u THEN s ELSE m[v]]

Update(u, s) == live' = With(live, u, s)

(* The sessions a new session may take the place of: none while there is   *)
(* room, else or instead one that has expired.                             *)
Evictable ==
  {D \in SUBSET {u \in Exists : Expired(u)} :
     /\ Cardinality(D) <= 1
     /\ Cardinality(Exists \ D) < SESSION_COUNT}

Init ==
  /\ live = [u \in {} |-> Null]
  /\ now = 0

-----------------------------------------------------------------------------
(* The operations, none of which takes time.                               *)

Create ==
  \E D \in Evictable, u \in Uuid \ Exists, sid \in FreshIds :
    live' = With(Without(D), u,
                 [session_id |-> sid, ctime |-> now, atime |-> now,
                  logon_state |-> 0, username |-> Null, jar |-> NoCookies])

Full ==
  /\ Cardinality(Exists) = SESSION_COUNT
  /\ \A u \in Exists : ~ Expired(u)
  /\ live' = live

Unlink(u) == live' = Without({u})

(* A session is validated in time, or dropped.                             *)
Validate(u) == ~ Expired(u) /\ Update(u, [live[u] EXCEPT !.atime = now])

Drop(u) == Expired(u) /\ live' = Without({u})

(* A cookie is deleted, stored when there is room, or not there to delete. *)
SetCookie(u) ==
  \/ live' = live
  \/ \E k \in Key :
       \/ Update(u, [live[u] EXCEPT !.jar[k] = NoCookie])
       \/ /\ live[u].jar[k] # NoCookie \/ TotalCookies < COOKIESTORE_COUNT
          /\ \E value \in CookieValue :
               Update(u, [live[u] EXCEPT !.jar[k] = value])

NoRoom(u) == TotalCookies = COOKIESTORE_COUNT /\ live' = live

(* A renewed session goes on under a new id, with all it had.              *)
Renew(u) ==
  \E D \in Evictable, sid \in FreshIds :
    /\ u \notin D
    /\ live' = With(Without(D), u, [live[u] EXCEPT !.session_id = sid])

Logon(u) ==
  \/ Update(u, [live[u] EXCEPT !.logon_state = 1])
  \/ /\ live[u].logon_state = 1
     /\ \E name \in UserName : Update(u, [live[u] EXCEPT !.username = name])

(* What may happen when an operation returns a status.                     *)
Returning(status) ==
  CASE status = "STATUS_OK" ->
         \/ Create
         \/ \E u \in Exists :
              Unlink(u) \/ Validate(u) \/ SetCookie(u) \/ Renew(u) \/ Logon(u)
    [] status = "STATUS_ENOEXIST" -> \E u \in Exists : Drop(u)
    [] status = "STATUS_ESHMFULL" -> Full \/ \E u \in Exists : NoRoom(u)

Operation(status) == now' = now /\ Returning(status)

Tick ==
  /\ now < MAX_TIME
  /\ now' = now + 1
  /\ live' = live

Next ==
  \/ \E status \in {"STATUS_OK", "STATUS_ENOEXIST", "STATUS_ESHMFULL"} :
       Operation(status)
  \/ Tick

Spec == Init /\ [][Next]_absvars
=============================================================================
