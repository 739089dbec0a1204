---------------------- MODULE MCSessionStoreRefinement ----------------------
(* The store and its refinement for TLC: ids and UUIDs are interchangeable. *)
(* Names are strings, of which a long one is cut.                          *)
EXTENDS SessionStoreRefinement, TLC

CutNames == [n \in CookieName |-> IF n = "long name" THEN "long" ELSE n]

Symmetry == Permutations(SessionId) \cup Permutations(Uuid)
=============================================================================
