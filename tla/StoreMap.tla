------------------------------ MODULE StoreMap ------------------------------
(***************************************************************************)
(* The shared memory as a map of sessions: a used slot is a session, and   *)
(* the cookies in its chain are its jar, and the two ways in which a       *)
(* renewal falls short of the map's.                                       *)
(***************************************************************************)
EXTENDS SharedMemory

NoCookie == ClearedCookie.value

SlotOf(sess, u) == CHOOSE h \in UsedSessions(sess) : sess[h].uuid = u

(* The place of a cookie in its jar: its name and Location, if a look-up of *)
(* the name finds it there; a cookie whose name was cut has one of its own. *)
Place(ck, c) ==
  IF ck[c].name \in Exact THEN <<ck[c].name, ck[c].location_id>>
  ELSE <<"empty", c>>

Places == (Exact \X Location) \cup ({"empty"} \X CookieSlot)

AtPlace(ck, jar, k) == {c \in jar : Place(ck, c) = k}

JarMap(ck, anchor) ==
  LET jar == Chain(ck, anchor)
  IN  [k \in Places |->
         LET found == AtPlace(ck, jar, k)
         IN  IF found = {} THEN NoCookie ELSE ck[CHOOSE c \in found : TRUE].value]

(* The session in slot h.                                                  *)
SessionIn(sess, ck, h) ==
  [session_id |-> sess[h].session_id, ctime |-> sess[h].ctime,
   atime |-> sess[h].atime, logon_state |-> sess[h].logon_state,
   username |-> sess[h].username, jar |-> JarMap(ck, sess[h].cookiestore_index)]

Uuids(sess) == {sess[h].uuid : h \in UsedSessions(sess)}

LiveOf(sess, ck) == [u \in Uuids(sess) |-> SessionIn(sess, ck, SlotOf(sess, u))]

LiveMap == LiveOf(sessions, cookies)

Map == INSTANCE SessionMap WITH live <- LiveMap, Key <- Places

(* A renewal forgets the user name, which mshield_session_renew does not   *)
(* copy ...                                                                *)
RenewForgetsName(u) ==
  /\ LiveMap[u].username # Null
  /\ \E D \in Map!Evictable, sid \in Map!FreshIds :
       /\ u \notin D
       /\ LiveMap' = Map!With(Map!Without(D), u,
                     [LiveMap[u] EXCEPT !.session_id = sid, !.username = Null])

(* ... or, of a session that has timed out, finds its own slot to reuse    *)
(* and clears it as the old one, with the session in it.                   *)
RenewLosesSession(u) == Map!Expired(u) /\ LiveMap' = Map!Without({u})

RenewFallsShort(u) == RenewForgetsName(u) \/ RenewLosesSession(u)
=============================================================================
