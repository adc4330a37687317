----------------------------- MODULE MCIdAlloc -----------------------------
(***************************************************************************)
(* Instances of IdAlloc for TLC.  "Race": three machines, one run each, on *)
(* one origin.  "Local": two runs on one machine, in two repositories.     *)
(* "Stale": three runs on one machine, one of them outside any repository. *)
(***************************************************************************)
EXTENDS IdAlloc, TLC

CONSTANTS m1, m2, m3, r1, r2, p1, p2, p3

OwnMachine ==
  [p \in Run |-> CASE p = p1 -> m1 [] p = p2 -> m2 [] OTHER -> m3]
SharedMachine == [p \in Run |-> m1]

AllOnR1  == [p \in Run |-> r1]
Siblings == [p \in Run |-> IF p = p1 THEN r1 ELSE r2]
OneNoRepo == [p \in Run |-> IF p = p3 THEN NoRepo ELSE r1]

ScanR1  == [m \in Machine |-> <<r1>>]
ScanAll == [m \in Machine |-> <<r1, r2>>]

Disk == [m \in Machine |-> IF m = m1 THEN 3 ELSE 0]
SeedBranches  == [r \in Repo |-> IF r = r1 THEN {2} ELSE {}]
SeedArtifacts == [r \in Repo |-> {1}]

=============================================================================
