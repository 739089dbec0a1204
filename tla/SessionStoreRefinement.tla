----------------------- MODULE SessionStoreRefinement -----------------------
(***************************************************************************)
(* SessionStore implements SessionMap.                                     *)
(***************************************************************************)
EXTENDS SessionStore, StoreMap

(* Slots, chains and indices implement the map: every operation of the     *)
(* session API is one of the map that returns the same status, or one of   *)
(* the two renewals of StoreMap that fall short of it.  None touches the   *)
(* session or the cookies of another one, an eviction takes one expired    *)
(* session at most, and the store is full only when it holds that much.    *)
(* What mshield_session_renew does is a renewal, if only such a one.       *)
ImplementsMap ==
  /\ Map!Init
  /\ [][\/ Map!Operation(ret'.status)
        \/ /\ \E u \in Map!Exists : RenewFallsShort(u)
           /\ ret'.status = "STATUS_OK" /\ now' = now
        \/ Map!Tick /\ ret' = ret]_vars
  /\ [][\A h \in UsedSessions(sessions) :
           mshield_session_renew(h) /\ ret'.status = "STATUS_OK" =>
             LET u == sessions[h].uuid IN Map!Renew(u) \/ RenewFallsShort(u)]_vars

(* A renewal "copies over session content from the old to the new session" *)
(* (mod_mshield_session.c:208-212): the session goes on with all it had.   *)
RenewalKeepsContent ==
  [][\A h \in UsedSessions(sessions) :
       mshield_session_renew(h) /\ ret'.status = "STATUS_OK" =>
         Map!Renew(sessions[h].uuid)]_vars
=============================================================================
