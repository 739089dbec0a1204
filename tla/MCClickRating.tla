---------------------------- MODULE MCClickRating ----------------------------
(* ClickRating for TLC: a page that is never rated, and one whose entry    *)
(* overlaps with a less critical one.                                      *)
EXTENDS ClickRating

CONSTANTS r1, r2

Urls == {"/news", "/pay"}

Store ==
  {[pattern |-> {"/pay"}, risk_level |-> 3], [pattern |-> Urls, risk_level |-> 1]}

Targets == [r \in {r1, r2} |-> IF r = r1 THEN "/pay" ELSE "/news"]

Strengths == [r \in {r1, r2} |-> IF r = r1 THEN 2 ELSE 1]
=============================================================================
