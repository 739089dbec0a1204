-------------------------- MODULE MShieldRefinement --------------------------
(***************************************************************************)
(* The hooks of MShield implement SessionMap.                              *)
(***************************************************************************)
EXTENDS MShield, StoreMap

(* What the hooks of all workers do concurrently is a sequence of operations *)
(* on the map: a step that writes the store is one operation on one session, *)
(* as a session that timed out, was renewed or was evicted between two hooks *)
(* is then operated on under the UUID that its slot has, or not at all.  A *)
(* renewal may fall short of the map's in the two ways StoreMap names.  A  *)
(* step that changes neither store nor clock leaves the map alone.         *)
HooksImplementMap ==
  Map!Init /\ [][\/ UNCHANGED <<store, now>>
                 \/ Map!Next
                 \/ /\ \E u \in Map!Exists : RenewFallsShort(u)
                    /\ now' = now]_vars
==============================================================================
