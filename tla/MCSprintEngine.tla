--------------------------- MODULE MCSprintEngine ---------------------------
(***************************************************************************)
(* Instances of SprintEngine for TLC.  REQs 1 and 2 span both repos, 3 and *)
(* 4 touch the first one only; neighbours conflict, so the barrier has a   *)
(* group of two, and a REQ of either kind is held behind one of its own    *)
(* kind or of the other.                                                   *)
(***************************************************************************)
EXTENDS SprintEngine

CONSTANTS d1, d2

Span == [r \in Reqs |-> IF r >= 3 THEN {d1} ELSE {d1, d2}]
One  == [r \in Reqs |-> {d1}]
Clash == {{1, 2}, {2, 3}, {3, 4}} \intersect SUBSET Reqs
=============================================================================
