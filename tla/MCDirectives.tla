----------------------------- MODULE MCDirectives -----------------------------
(* Directives for TLC: levels at the borders of the range.                 *)
EXTENDS Directives

Levels == {0, 1000, 1001}
=============================================================================
