------------------------------ MODULE MCMShield ------------------------------
(* MShield for TLC: workers, ids and UUIDs are interchangeable.  Names are  *)
(* strings, of which a long one is cut.                                    *)
EXTENDS MShieldRefinement, TLC

CutNames == [n \in CookieName |-> IF n = "long name" THEN "long" ELSE n]

Symmetry == Permutations(Worker) \cup Permutations(SessionId) \cup Permutations(Uuid)
=============================================================================
