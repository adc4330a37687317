---------------------------- MODULE MCIdPublish ----------------------------
(***************************************************************************)
(* Instances of IdPublish for TLC: work items a and b of two machines,     *)
(* in one or two repositories.                                             *)
(***************************************************************************)
EXTENDS IdPublish, TLC

CONSTANTS m1, m2, r1, r2, a, b

TwoMachines == [p \in Item |-> IF p = a THEN m1 ELSE m2]
AllOnR1     == [p \in Item |-> r1]
BOnR2       == [p \in Item |-> IF p = b THEN r2 ELSE r1]
ScanR1      == [m \in Machine |-> <<r1>>]
ScanAll     == [m \in Machine |-> <<r1, r2>>]

\* On one origin nothing tells a on m1 from b on m2.
Swap == {q \in Permutations(Item \cup Machine) :
           \A p \in Item : q[p] \in Item /\ q[MachineOf[p]] = MachineOf[q[p]]}

=============================================================================
