------------------------------ MODULE IdClaim ------------------------------
(***************************************************************************)
(* What a remote reservation promises, without machines, locks, counters   *)
(* or networks: in one step a run claims, on the origin of its repository, *)
(* a number that no other run has claimed there; a claim is final.         *)
(***************************************************************************)
EXTENDS Naturals

CONSTANTS Run, RepoOf

VARIABLE claim      \* [Run -> Nat], 0 for no claim

ClaimInit == claim = [p \in Run |-> 0]

Claimed(r) == {claim[q] : q \in {x \in Run : RepoOf[x] = r}}

Claim(p) ==
  /\ claim[p] = 0
  /\ claim' \in [Run -> Nat]
  /\ claim'[p] \in Nat \ ({0} \cup Claimed(RepoOf[p]))
  /\ \A q \in Run \ {p} : claim'[q] = claim[q]

ClaimNext == \E p \in Run : Claim(p)

ClaimSpec == ClaimInit /\ [][ClaimNext]_claim

=============================================================================
