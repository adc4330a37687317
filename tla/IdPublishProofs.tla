-------------------------- MODULE IdPublishProofs --------------------------
(***************************************************************************)
(* Proofs about the publication of ids: the types of the model, that no    *)
(* number of an origin is won by two work items, that a halt names a       *)
(* number above all that was visible, that a quiet check missed nobody,    *)
(* and that no item is halted by its own footprint.  For any machines,     *)
(* repositories, items and scan roots, and although renumbering takes its  *)
(* target from a listing that may be old when it reserves it; the first    *)
(* two whatever fails and whoever dies, the others under the exclusions    *)
(* that their theorems state.                                              *)
(***************************************************************************)
EXTENDS IdPublish, TLAPS

\* ------------------------------------------------------------------ 1. types

LEMMA Params ==
  /\ \A p \in Item : MachineOf[p] \in Machine /\ RepoOf[p] \in Repo
  /\ IsReq \in BOOLEAN /\ HasBranches \in BOOLEAN
BY PublishAssumption DEF PublishAssumption

LEMMA MarkTypes ==
  ASSUME NEW p \in Item, NEW n \in Nat
  PROVE  MarkOf(p, n) \in Mark
BY Params DEF MarkOf, Mark

LEMMA SourceCount == Len(Sources) \in {2, 3}
BY Params DEF Sources

LEMMA MarksTypes ==
  ASSUME TypeOK, NEW source \in {"branches", "artifacts", "reservations"}
  PROVE  Marks(source) \subseteq Mark
BY DEF TypeOK, Marks

LEMMA Remainder ==
  ASSUME NEW k \in Nat, NEW d \in {2, 3}
  PROVE  k % d \in 0 .. d - 1
<1>1. CASE d = 2
  <2>1. k % 2 \in 0 .. 1
    OBVIOUS
  <2> QED
    BY <1>1, <2>1
<1>2. CASE d = 3
  <2>1. k % 3 \in 0 .. 2
    OBVIOUS
  <2> QED
    BY <1>2, <2>1
<1> QED
  BY <1>1, <1>2

LEMMA SourceNames ==
  ASSUME NEW p \in Item, at[p] \in Nat \ {0}
  PROVE  SourceAt(p) \in {"branches", "artifacts", "reservations"}
<1>1. ((at[p] - 1) % Len(Sources)) + 1 \in 1 .. Len(Sources)
  <2>1. at[p] - 1 \in Nat
    OBVIOUS
  <2>2. PICK k \in Nat, d \in {2, 3} : k = at[p] - 1 /\ d = Len(Sources)
    BY <2>1, SourceCount
  <2>3. k % d \in 0 .. d - 1
    BY Remainder
  <2> QED
    BY <2>2, <2>3
<1>2. \A i \in 1 .. Len(Sources) : Sources[i] \in {"branches", "artifacts", "reservations"}
  BY Params DEF Sources
<1> QED
  BY <1>1, <1>2 DEF SourceAt

LEMMA VisibleTypes ==
  ASSUME TypeOK, NEW p
  PROVE  Visible(p) \subseteq Mark
BY DEF TypeOK, Visible

LEMMA HoldersTypes ==
  ASSUME TypeOK, NEW p, NEW n
  PROVE  Holders(p, n) \subseteq Item
BY VisibleTypes DEF Holders, Mark

LEMMA TypeInit == Init => TypeOK
BY DEF Init, TypeOK, PC

LEMMA PushTypes ==
  ASSUME TypeOK, NEW p \in Item, NEW n \in Nat, PushWon(p, n) \/ PushDegraded(p, n)
  PROVE  /\ refs' \subseteq Mark
         /\ ledger' \in [Machine -> SUBSET Mark]
         /\ won' \in [Item -> SUBSET Nat]
<1>1. MarkOf(p, n) \in Mark /\ MachineOf[p] \in Machine
  BY MarkTypes, Params
<1> QED
  BY <1>1 DEF TypeOK, PushWon, PushDegraded

LEMMA BeginTypes ==
  ASSUME TypeOK, NEW p \in Item, BeginCheck(p)
  PROVE  /\ at' \in [Item -> Nat \ {0}] /\ high' \in [Item -> Nat]
         /\ degraded' \in [Item -> BOOLEAN] /\ hitBy' \in [Item -> SUBSET Item]
         /\ floor' \in [Item -> Nat]
<1>1. \A top \in {x.num : x \in Visible(p)} \cup {0} : top \in Nat
  BY VisibleTypes DEF Mark
<1> QED
  BY <1>1 DEF TypeOK, BeginCheck

LEMMA EndTypes ==
  ASSUME TypeOK, NEW p \in Item, EndCheck(p)
  PROVE  /\ at' \in [Item -> Nat \ {0}] /\ high' \in [Item -> Nat]
         /\ degraded' \in [Item -> BOOLEAN] /\ hitBy' \in [Item -> SUBSET Item]
         /\ heldBy' \in [Item -> SUBSET Item] /\ floor' \in [Item -> Nat]
BY DEF TypeOK, EndCheck

LEMMA HitTypes ==
  ASSUME TypeOK, NEW p \in Item, NEW whose \in SUBSET Item, Hit(p, whose)
  PROVE  TypeOK'
BY DEF TypeOK, Hit, PC, machineVars, remoteVars

LEMMA ForeignTypes ==
  ASSUME TypeOK, NEW p \in Item
  PROVE  /\ Here(p) \subseteq Mark
         /\ {x.item : x \in Foreign(p)} \subseteq Item
         /\ {x.item : x \in Here(p)} \subseteq Item
<1>1. SourceAt(p) \in {"branches", "artifacts", "reservations"}
  BY SourceNames DEF TypeOK
<1>2. Here(p) \subseteq Mark
  BY <1>1, MarksTypes DEF Here
<1>3. Foreign(p) \subseteq Here(p)
  BY <1>1 DEF Foreign
<1> QED
  BY <1>2, <1>3 DEF Mark

LEMMA NextRepoType ==
  ASSUME NEW p \in Item, at[p] \in Nat \ {0}
  PROVE  NextRepo(p) \in Nat \ {0}
<1>1. at[p] - 1 \in Nat
  OBVIOUS
<1>2. PICK k \in Nat, d \in {2, 3} : k = at[p] - 1 /\ d = Len(Sources)
  BY <1>1, SourceCount
<1>3. k % d \in 0 .. d - 1
  BY Remainder
<1>4. NextRepo(p) = (k + 1) + d - (k % d)
  BY <1>2 DEF NextRepo
<1> QED
  BY <1>3, <1>4

LEMMA TypeStep == TypeOK /\ [Next]_vars => TypeOK'
<1> SUFFICES ASSUME TypeOK, [Next]_vars PROVE TypeOK'
  OBVIOUS
<1> USE DEF machineVars, remoteVars, checkVars
<1>1. ASSUME NEW p \in Item, Allocate(p) PROVE TypeOK'
  <2>1. PICK n \in 1 .. MaxNum : /\ PushWon(p, n) \/ PushDegraded(p, n)
                                 /\ num' = [num EXCEPT ![p] = n]
                                 /\ counter' = [counter EXCEPT ![MachineOf[p]] = n + 1]
    BY <1>1 DEF Allocate
  <2>2. n \in Nat \ {0} /\ MachineOf[p] \in Machine
    BY Params, PublishAssumption DEF PublishAssumption
  <2>3. refs' \subseteq Mark /\ ledger' \in [Machine -> SUBSET Mark] /\ won' \in [Item -> SUBSET Nat]
    BY <2>1, <2>2, PushTypes
  <2>4. counter' \in [Machine -> Nat \ {0}] /\ num' \in [Item -> Nat]
    BY <2>1, <2>2 DEF TypeOK
  <2>5. /\ UNCHANGED <<branches, artifacts, at, high, degraded, hitBy, heldBy, floor, renumbering, target>>
        /\ pc' = [pc EXCEPT ![p] = "allocated"]
    BY <1>1 DEF Allocate, Goto
  <2> QED
    BY <2>3, <2>4, <2>5 DEF TypeOK, PC
<1>2. ASSUME NEW p \in Item, MergeSpec(p) PROVE TypeOK'
  <2>1. MarkOf(p, num[p]) \in Mark
    BY MarkTypes DEF TypeOK
  <2> QED
    BY <1>2, <2>1 DEF TypeOK, MergeSpec, itemVars
<1>3. ASSUME NEW p \in Item, Recheck(p) PROVE TypeOK'
  <2>1. BeginCheck(p) /\ Holders(p, num[p]) \subseteq Item
    BY <1>3, HoldersTypes DEF Recheck
  <2> QED
    BY <1>3, <2>1, BeginTypes DEF TypeOK, Recheck, Goto, PC
<1>4. ASSUME NEW p \in Item, ResumeOwnBranch(p) PROVE TypeOK'
  BY <1>4 DEF TypeOK, ResumeOwnBranch, Goto, PC
<1>5. ASSUME NEW p \in Item, Derive(p) PROVE TypeOK'
  <2>1. SourceAt(p) \in {"branches", "artifacts", "reservations"}
    BY SourceNames DEF TypeOK
  <2>2. Marks(SourceAt(p)) \subseteq Mark
    BY <2>1, MarksTypes
  <2> DEFINE listed == {x.num : x \in {y \in Marks(SourceAt(p)) : y.repo = RepoAt(p)}}
  <2>3. \A top \in listed \cup {0} : top \in Nat
    BY <2>2 DEF Mark
  <2>4. at' = [at EXCEPT ![p] = @ + 1]
    BY <1>5 DEF Derive
  <2>5. at' \in [Item -> Nat \ {0}]
    BY <2>4 DEF TypeOK
  <2>6. \/ \E top \in listed \cup {0} : /\ high' = [high EXCEPT ![p] = Larger(@, top)]
                                       /\ UNCHANGED degraded
        \/ /\ degraded' = [degraded EXCEPT ![p] = TRUE]
           /\ UNCHANGED high
    BY <1>5 DEF Derive
  <2>7. high' \in [Item -> Nat] /\ degraded' \in [Item -> BOOLEAN]
    <3> HIDE DEF listed
    <3>1. CASE \E top \in listed \cup {0} : /\ high' = [high EXCEPT ![p] = Larger(@, top)]
                                         /\ UNCHANGED degraded
      BY <2>3, <3>1 DEF TypeOK, Larger
    <3>2. CASE degraded' = [degraded EXCEPT ![p] = TRUE] /\ UNCHANGED high
      BY <3>2 DEF TypeOK
    <3> QED
      BY <2>6, <3>1, <3>2
  <2> QED
    BY <1>5, <2>5, <2>7 DEF TypeOK, Derive, itemVars
<1>6. ASSUME NEW p \in Item, Derived(p) PROVE TypeOK'
  <2>1. (degraded[p] \/ Calls(p) = 0) \in BOOLEAN
    OBVIOUS
  <2>2. pc' \in [Item -> PC]
    BY <1>6 DEF TypeOK, Derived, Goto, Clear, PC
  <2>3. /\ degraded' \in [Item -> BOOLEAN] /\ high' \in [Item -> Nat] /\ floor' \in [Item -> Nat]
        /\ at' \in [Item -> Nat \ {0}]
    BY <1>6 DEF TypeOK, Derived
  <2> QED
    BY <1>6, <2>2, <2>3 DEF TypeOK, Derived
<1>7. ASSUME NEW p \in Item, WalkOn(p) PROVE TypeOK'
  <2>1. at' \in [Item -> Nat \ {0}]
    BY <1>7 DEF TypeOK, WalkOn
  <2> QED
    BY <1>7, <2>1 DEF TypeOK, WalkOn, itemVars
<1>8. ASSUME NEW p \in Item, WalkHits(p) \/ NamesCallFails(p) PROVE TypeOK'
  BY <1>8, ForeignTypes, HitTypes DEF WalkHits, NamesCallFails
<1>9. ASSUME NEW p \in Item, WalkCallFails(p) PROVE TypeOK'
  <2>1. NextRepo(p) \in Nat \ {0}
    BY NextRepoType DEF TypeOK
  <2>2. at' \in [Item -> Nat \ {0}]
    BY <1>9, <2>1 DEF TypeOK, WalkCallFails
  <2> QED
    BY <1>9, <2>2 DEF TypeOK, WalkCallFails, itemVars
<1>10. ASSUME NEW p \in Item, WalkEnds(p) PROVE TypeOK'
  BY <1>10 DEF TypeOK, WalkEnds, Goto, Clear, PC
<1>11. ASSUME NEW p \in Item, Renumber(p) PROVE TypeOK'
  <2>1. BeginCheck(p) /\ Holders(p, target[p]) \subseteq Item
    BY <1>11, HoldersTypes DEF Renumber
  <2> QED
    BY <1>11, <2>1, BeginTypes DEF TypeOK, Renumber, PC
<1>12. ASSUME NEW p \in Item, ReserveNew(p) PROVE TypeOK'
  <2>1. target[p] \in Nat
    BY DEF TypeOK
  <2>2. refs' \subseteq Mark /\ ledger' \in [Machine -> SUBSET Mark] /\ won' \in [Item -> SUBSET Nat]
    BY <1>12, <2>1, PushTypes DEF ReserveNew
  <2> QED
    BY <1>12, <2>2, EndTypes DEF TypeOK, ReserveNew, Goto, PC
<1>13. ASSUME NEW p \in Item, ReserveLost(p) PROVE TypeOK'
  BY <1>13, EndTypes DEF TypeOK, ReserveLost, Goto, PC
<1>14. ASSUME NEW p \in Item, Apply(p) PROVE TypeOK'
  BY <1>14 DEF TypeOK, Apply, Goto, PC
<1>15. ASSUME NEW p \in Item, Restart(p) PROVE TypeOK'
  BY <1>15, EndTypes DEF TypeOK, Restart, PC
<1>16. ASSUME NEW p \in Item, Crash(p) PROVE TypeOK'
  BY <1>16, EndTypes DEF TypeOK, Crash, PC
<1>17. ASSUME NEW p \in Item, PushBranch(p) PROVE TypeOK'
  <2>1. MarkOf(p, num[p]) \in Mark
    BY MarkTypes DEF TypeOK
  <2> QED
    BY <1>17, <2>1, EndTypes DEF TypeOK, PushBranch, Goto, PC
<1>18. ASSUME NEW p \in Item, MergePR(p) PROVE TypeOK'
  <2>1. MarkOf(p, num[p]) \in Mark
    BY MarkTypes DEF TypeOK
  <2> QED
    BY <1>18, <2>1 DEF TypeOK, MergePR, Goto, PC
<1>19. CASE UNCHANGED vars
  BY <1>19 DEF TypeOK, vars, itemVars
<1> QED
  BY <1>1, <1>2, <1>3, <1>4, <1>5, <1>6, <1>7, <1>8, <1>9, <1>10, <1>11, <1>12,
     <1>13, <1>14, <1>15, <1>16, <1>17, <1>18, <1>19 DEF Next

\* The variables of the model keep their types.
THEOREM TypeCorrect == Spec => []TypeOK
BY TypeInit, TypeStep, PTL DEF Spec

\* ------------------------------------------------- 2. who has won a number

\* An origin accepts one reservation of a number, and what an item was told to
\* have won it holds there.
WonInv ==
  /\ \A x, y \in refs : x.repo = y.repo /\ x.num = y.num => x = y
  /\ \A p \in Item : \A n \in won[p] : MarkOf(p, n) \in refs

LEMMA PushKeepsWon ==
  ASSUME TypeOK, WonInv, NEW p \in Item, NEW n \in Nat, PushWon(p, n) \/ PushDegraded(p, n)
  PROVE  WonInv'
<1>1. \/ refs' = refs
      \/ ~Reserved(p, n) /\ refs' = refs \cup {MarkOf(p, n)}
  BY DEF PushWon, PushDegraded
<1>2. \/ won' = won
      \/ won' = [won EXCEPT ![p] = @ \cup {n}] /\ MarkOf(p, n) \in refs'
  BY DEF PushWon, PushDegraded
<1>3. ASSUME ~Reserved(p, n), NEW x \in refs PROVE ~(x.repo = MarkOf(p, n).repo /\ x.num = MarkOf(p, n).num)
  BY <1>3 DEF Reserved, MarkOf
<1>4. \A x, y \in refs' : x.repo = y.repo /\ x.num = y.num => x = y
  BY <1>1, <1>3 DEF WonInv
<1>5. \A q \in Item : \A k \in won'[q] : MarkOf(q, k) \in refs'
  BY <1>1, <1>2 DEF WonInv, TypeOK
<1> QED
  BY <1>4, <1>5 DEF WonInv, MarkOf

LEMMA WonInvStep == TypeOK /\ WonInv /\ [Next]_vars => WonInv'
<1> SUFFICES ASSUME TypeOK, WonInv, [Next]_vars PROVE WonInv'
  OBVIOUS
<1>1. \/ UNCHANGED <<refs, won>>
      \/ \E p \in Item, n \in Nat : PushWon(p, n) \/ PushDegraded(p, n)
  <2>1. ASSUME NEW p \in Item, Allocate(p)
        PROVE  \E n \in Nat : PushWon(p, n) \/ PushDegraded(p, n)
    BY <2>1, PublishAssumption DEF Allocate, PublishAssumption
  <2>2. ASSUME NEW p \in Item, ReserveNew(p)
        PROVE  \E n \in Nat : PushWon(p, n) \/ PushDegraded(p, n)
    BY <2>2 DEF ReserveNew, TypeOK
  <2> QED
    BY <2>1, <2>2 DEF Next, MergeSpec, Recheck, ResumeOwnBranch, Derive, Derived, WalkOn,
       WalkHits, WalkCallFails, NamesCallFails, Hit, WalkEnds, Renumber, ReserveLost, Apply,
       Restart, Crash, PushBranch, MergePR, machineVars, remoteVars, itemVars, vars
<1>2. CASE UNCHANGED <<refs, won>>
  BY <1>2 DEF WonInv, MarkOf
<1> QED
  BY <1>1, <1>2, PushKeepsWon

\* No number of an origin is won by two work items, by allocation or by
\* renumbering to the number that both were told to take (adlc_reserve_id).
THEOREM WonDistinctHolds == Spec => []WonDistinct
<1>1. Init => TypeOK /\ WonInv
  BY TypeInit DEF Init, WonInv
<1>2. (TypeOK /\ WonInv) /\ [Next]_vars => (TypeOK /\ WonInv)'
  BY TypeStep, WonInvStep
<1>3. ASSUME TypeOK, WonInv, NEW p \in Item, NEW q \in Item, p # q, RepoOf[p] = RepoOf[q],
             NEW n \in won[p], n \in won[q]
      PROVE  FALSE
  <2>1. MarkOf(p, n) \in refs /\ MarkOf(q, n) \in refs
    BY <1>3 DEF WonInv
  <2>2. MarkOf(p, n) = MarkOf(q, n)
    BY <1>3, <2>1 DEF WonInv, MarkOf
  <2> QED
    BY <1>3, <2>2 DEF MarkOf
<1>4. TypeOK /\ WonInv => WonDistinct
  BY <1>3 DEF WonDistinct
<1> QED
  BY <1>1, <1>2, <1>4, PTL DEF Spec

\* ------------------------------------------------ 3. what a step may touch

Act(p) ==
  \/ Allocate(p) \/ MergeSpec(p) \/ Recheck(p) \/ ResumeOwnBranch(p) \/ Derive(p) \/ Derived(p)
  \/ WalkOn(p) \/ WalkHits(p) \/ WalkCallFails(p) \/ NamesCallFails(p) \/ WalkEnds(p)
  \/ Renumber(p) \/ ReserveNew(p) \/ ReserveLost(p) \/ Apply(p) \/ Restart(p) \/ Crash(p)
  \/ PushBranch(p) \/ MergePR(p)

\* Nothing of p's session changes.
Still(p) ==
  /\ pc'[p] = pc[p] /\ num'[p] = num[p] /\ renumbering'[p] = renumbering[p]
  /\ target'[p] = target[p] /\ at'[p] = at[p] /\ high'[p] = high[p] /\ floor'[p] = floor[p]
  /\ degraded'[p] = degraded[p] /\ hitBy'[p] = hitBy[p] /\ heldBy'[p] = heldBy[p]

LEMMA OthersStandStill ==
  ASSUME TypeOK, NEW q \in Item, NEW p \in Item \ {q}, Act(q)
  PROVE  Still(p)
<1> USE DEF Still, TypeOK, Goto, itemVars, checkVars
<1>1. CASE Allocate(q) \/ MergeSpec(q) \/ ResumeOwnBranch(q) \/ MergePR(q) \/ Apply(q)
  BY <1>1 DEF Allocate, MergeSpec, ResumeOwnBranch, MergePR, Apply
<1>2. CASE Recheck(q) \/ Renumber(q)
  BY <1>2 DEF Recheck, Renumber, BeginCheck
<1>3. CASE Derive(q) \/ Derived(q) \/ WalkOn(q) \/ WalkCallFails(q) \/ WalkEnds(q)
  BY <1>3 DEF Derive, Derived, WalkOn, WalkCallFails, WalkEnds
<1>4. CASE WalkHits(q) \/ NamesCallFails(q)
  <2>1. \E whose : Hit(q, whose)
    BY <1>4 DEF WalkHits, NamesCallFails
  <2> QED
    BY <2>1 DEF Hit
<1>5. CASE ReserveNew(q) \/ ReserveLost(q) \/ Restart(q) \/ Crash(q) \/ PushBranch(q)
  BY <1>5 DEF ReserveNew, ReserveLost, Restart, Crash, PushBranch, EndCheck
<1> QED
  BY <1>1, <1>2, <1>3, <1>4, <1>5 DEF Act

LEMMA ActOrStill ==
  ASSUME TypeOK, [Next]_vars, NEW p \in Item
  PROVE  Act(p) \/ Still(p)
<1>1. CASE Next
  <2>1. PICK q \in Item : Act(q)
    BY <1>1 DEF Next, Act
  <2> QED
    BY <2>1, OthersStandStill
<1>2. CASE UNCHANGED vars
  BY <1>2 DEF Still, vars, itemVars, checkVars
<1> QED
  BY <1>1, <1>2

\* The ways in which the origins change.
Reserves(p, n) ==
  /\ UNCHANGED <<branches, artifacts>> /\ refs' = refs \cup {MarkOf(p, n)}
  /\ pc[p] = "none" \/ (pc[p] = "reserve" /\ n = target[p])
Pushes(p) ==
  /\ UNCHANGED <<refs, artifacts>> /\ branches' = branches \cup {MarkOf(p, num[p])}
  /\ HasBranches /\ pc[p] = "cleared" /\ pc'[p] = "published"
Merges(p) ==
  /\ UNCHANGED refs
  /\ artifacts' = {x \in artifacts : x.item # p} \cup {MarkOf(p, num[p])}
  /\ \/ IsReq /\ pc[p] = "allocated" /\ UNCHANGED branches
     \/ pc[p] = "published" /\ pc'[p] = "merged" /\ branches' = branches \ {MarkOf(p, num[p])}

LEMMA OriginSteps ==
  ASSUME TypeOK, [Next]_vars
  PROVE  \/ UNCHANGED remoteVars
         \/ \E p \in Item : Pushes(p) \/ Merges(p) \/ \E n \in Nat : Reserves(p, n)
<1> USE DEF remoteVars
<1>1. ASSUME NEW p \in Item, Allocate(p)
      PROVE  UNCHANGED remoteVars \/ \E n \in Nat : Reserves(p, n)
  BY <1>1, PublishAssumption DEF Allocate, PushWon, PushDegraded, Reserves, Goto, PublishAssumption
<1>2. ASSUME NEW p \in Item, ReserveNew(p)
      PROVE  UNCHANGED remoteVars \/ \E n \in Nat : Reserves(p, n)
  <2>1. target[p] \in Nat
    BY DEF TypeOK
  <2> QED
    BY <1>2, <2>1 DEF ReserveNew, PushWon, PushDegraded, Reserves, Goto
<1>3. ASSUME NEW p \in Item, MergeSpec(p) PROVE Merges(p)
  BY <1>3 DEF MergeSpec, Merges
<1>4. ASSUME NEW p \in Item, MergePR(p) PROVE Merges(p)
  BY <1>4 DEF MergePR, Merges, Goto, TypeOK
<1>5. ASSUME NEW p \in Item, PushBranch(p) PROVE UNCHANGED remoteVars \/ Pushes(p)
  BY <1>5 DEF PushBranch, Pushes, Goto, TypeOK
<1>6. ASSUME NEW p \in Item, WalkHits(p) \/ NamesCallFails(p) PROVE UNCHANGED remoteVars
  BY <1>6 DEF WalkHits, NamesCallFails, Hit
<1>7. ASSUME NEW p \in Item,
             \/ Recheck(p) \/ ResumeOwnBranch(p) \/ Derive(p) \/ Derived(p) \/ WalkOn(p)
             \/ WalkCallFails(p) \/ WalkEnds(p) \/ Renumber(p) \/ ReserveLost(p) \/ Apply(p)
             \/ Restart(p) \/ Crash(p)
      PROVE  UNCHANGED remoteVars
  BY <1>7 DEF Recheck, ResumeOwnBranch, Derive, Derived, WalkOn, WalkCallFails, WalkEnds,
              Renumber, ReserveLost, Apply, Restart, Crash
<1>8. CASE UNCHANGED vars
  BY <1>8 DEF vars
<1> QED
  BY <1>1, <1>2, <1>3, <1>4, <1>5, <1>6, <1>7, <1>8 DEF Next

\* --------------------------------------- 4. the marks of an item only grow

\* What the origins show of an item: its own repository, nothing higher than its
\* present number among the artifacts, and on a branch its present number, as long
\* as a resumed session can ask for its own branch.
MarksInv ==
  /\ \A x \in branches \cup artifacts \cup refs : x.repo = RepoOf[x.item]
  /\ branches # {} => HasBranches
  /\ "probe" \notin Faults =>
       \A x \in branches : /\ x.num = num[x.item]
                           /\ pc[x.item] = "published" \/ (IsReq /\ pc[x.item] = "allocated")
  /\ \A x \in artifacts : /\ x.num <= num[x.item]
                          /\ pc[x.item] # "none"
                          /\ IsReq \/ pc[x.item] = "merged"

\* When a session has a target, and when it is renumbering.
PhaseInv ==
  \A p \in Item :
    /\ pc[p] \notin {"halted", "lost"} /\ ~renumbering[p] => target[p] = 0
    /\ pc[p] \in {"none", "allocated", "cleared", "published", "merged"} => ~renumbering[p]
    /\ pc[p] \in {"reserve", "apply", "lost"} => renumbering[p]
    /\ renumbering[p] \/ pc[p] = "halted" => target[p] # 0

\* A target is above what the item has merged already.
TargetInv == \A x \in artifacts : target[x.item] # 0 => x.num < target[x.item]

LEMMA MarkIs ==
  ASSUME TypeOK, MarksInv, NEW x \in branches \cup artifacts \cup refs
  PROVE  x \in Mark /\ x.item \in Item /\ x.num \in Nat /\ x = MarkOf(x.item, x.num)
BY DEF TypeOK, MarksInv, Mark, MarkOf

LEMMA PhaseInvStep == TypeOK /\ PhaseInv /\ [Next]_vars => PhaseInv'
<1> DEFINE Phase(p) ==
      /\ pc[p] \notin {"halted", "lost"} /\ ~renumbering[p] => target[p] = 0
      /\ pc[p] \in {"none", "allocated", "cleared", "published", "merged"} => ~renumbering[p]
      /\ pc[p] \in {"reserve", "apply", "lost"} => renumbering[p]
      /\ renumbering[p] \/ pc[p] = "halted" => target[p] # 0
<1> SUFFICES ASSUME TypeOK, PhaseInv, [Next]_vars, NEW p \in Item PROVE Phase(p)'
  BY DEF PhaseInv
<1>1. Phase(p)
  BY DEF PhaseInv
<1>2. CASE Still(p)
  BY <1>1, <1>2 DEF Still
<1> USE DEF TypeOK, Goto, itemVars
<1>3. CASE Allocate(p) \/ MergeSpec(p) \/ Recheck(p) \/ ResumeOwnBranch(p) \/ Renumber(p)
  BY <1>1, <1>3 DEF Allocate, MergeSpec, Recheck, ResumeOwnBranch, Renumber
<1>4. CASE Derive(p) \/ Derived(p) \/ WalkOn(p) \/ WalkCallFails(p) \/ WalkEnds(p)
  BY <1>1, <1>4 DEF Derive, Derived, WalkOn, WalkCallFails, WalkEnds, Clear, Walking
<1>5. CASE WalkHits(p) \/ NamesCallFails(p)
  <2>1. pc[p] = "walk" /\ \E whose : Hit(p, whose)
    BY <1>5 DEF WalkHits, NamesCallFails, Walking
  <2> QED
    BY <1>1, <2>1 DEF Hit
<1>6. CASE ReserveNew(p) \/ ReserveLost(p) \/ Apply(p) \/ Restart(p)
  BY <1>1, <1>6 DEF ReserveNew, ReserveLost, Apply, Restart
<1>7. CASE Crash(p) \/ PushBranch(p) \/ MergePR(p)
  BY <1>1, <1>7 DEF Crash, PushBranch, MergePR
<1> QED
  BY <1>2, <1>3, <1>4, <1>5, <1>6, <1>7, ActOrStill DEF Act

\* A number of an item changes when it is allocated and when a target is applied.
LEMMA NumberSteps ==
  ASSUME TypeOK, [Next]_vars, NEW p \in Item
  PROVE  \/ num'[p] = num[p]
         \/ pc[p] = "none" /\ pc'[p] = "allocated"
         \/ pc[p] = "apply" /\ num'[p] = target[p]
<1> USE DEF TypeOK, Goto, itemVars
<1>1. CASE Allocate(p) \/ Apply(p)
  BY <1>1 DEF Allocate, Apply
<1>2. CASE \/ MergeSpec(p) \/ Recheck(p) \/ ResumeOwnBranch(p) \/ Derive(p) \/ Derived(p)
           \/ WalkOn(p) \/ WalkCallFails(p) \/ WalkEnds(p) \/ Renumber(p) \/ ReserveNew(p)
           \/ ReserveLost(p) \/ Restart(p) \/ Crash(p) \/ PushBranch(p) \/ MergePR(p)
  BY <1>2 DEF MergeSpec, Recheck, ResumeOwnBranch, Derive, Derived, WalkOn, WalkCallFails,
              WalkEnds, Renumber, ReserveNew, ReserveLost, Restart, Crash, PushBranch, MergePR
<1>3. CASE WalkHits(p) \/ NamesCallFails(p)
  BY <1>3 DEF WalkHits, NamesCallFails, Hit
<1> QED
  BY <1>1, <1>2, <1>3, ActOrStill DEF Act, Still

\* How long an item has a branch, and what it has merged.
LEMMA PlaceSteps ==
  ASSUME TypeOK, PhaseInv, [Next]_vars, NEW p \in Item
  PROVE  /\ pc'[p] = "none" => pc[p] = "none"
         /\ pc[p] = "merged" => pc'[p] = "merged"
         /\ pc[p] = "published" => \/ pc'[p] \in {"published", "merged"}
                                   \/ IsReq /\ pc'[p] = "allocated"
         /\ pc[p] = "published" /\ pc'[p] = "merged" => MarkOf(p, num[p]) \notin branches'
         /\ pc[p] = "allocated" /\ IsReq /\ MarkOf(p, num[p]) \in branches
              => pc'[p] \in {"allocated", "published"} \/ "probe" \in Faults
<1> USE DEF TypeOK, Goto, itemVars
<1>1. CASE Still(p)
  BY <1>1 DEF Still
<1>2. CASE Allocate(p) \/ MergeSpec(p) \/ Recheck(p) \/ ResumeOwnBranch(p) \/ Apply(p)
  BY <1>2 DEF Allocate, MergeSpec, Recheck, ResumeOwnBranch, Apply
<1>3. CASE \/ Derive(p) \/ Derived(p) \/ WalkOn(p) \/ WalkCallFails(p) \/ WalkEnds(p)
           \/ Renumber(p) \/ ReserveNew(p) \/ ReserveLost(p) \/ Restart(p)
  BY <1>3 DEF Derive, Derived, WalkOn, WalkCallFails, WalkEnds, Walking, Clear, Renumber,
              ReserveNew, ReserveLost, Restart
<1>4. CASE WalkHits(p) \/ NamesCallFails(p)
  BY <1>4 DEF WalkHits, NamesCallFails, Hit, Walking
<1>5. CASE PushBranch(p) \/ MergePR(p)
  BY <1>5 DEF PushBranch, MergePR
<1>6. CASE Crash(p)
  BY <1>6 DEF Crash, PhaseInv
<1> QED
  BY <1>1, <1>2, <1>3, <1>4, <1>5, <1>6, ActOrStill DEF Act

LEMMA BranchesStep ==
  ASSUME TypeOK, MarksInv, PhaseInv, [Next]_vars, NEW x \in branches'
  PROVE  /\ x.repo = RepoOf[x.item] /\ HasBranches
         /\ "probe" \notin Faults =>
              /\ x.num = num'[x.item]
              /\ pc'[x.item] = "published" \/ (IsReq /\ pc'[x.item] = "allocated")
<1>1. CASE x \in branches
  <2>1. x.item \in Item /\ x = MarkOf(x.item, x.num)
    BY <1>1, MarkIs
  <2>2. /\ x.repo = RepoOf[x.item] /\ HasBranches
        /\ "probe" \notin Faults =>
             /\ x.num = num[x.item]
             /\ pc[x.item] = "published" \/ (IsReq /\ pc[x.item] = "allocated")
    BY <1>1 DEF MarksInv
  <2>3. CASE "probe" \notin Faults
    <3>1. num'[x.item] = num[x.item]
      BY <2>1, <2>2, <2>3, NumberSteps
    <3>2. x = MarkOf(x.item, num[x.item]) /\ x \in branches'
      BY <2>1, <2>2, <2>3
    <3> QED
      BY <1>1, <2>1, <2>2, <2>3, <3>1, <3>2, PlaceSteps
  <2> QED
    BY <2>2, <2>3
<1>2. CASE x \notin branches
  <2>1. PICK p \in Item : Pushes(p)
    BY <1>2, OriginSteps DEF Merges, Reserves, remoteVars
  <2>2. x = MarkOf(p, num[p]) /\ HasBranches /\ pc[p] = "cleared" /\ pc'[p] = "published"
    BY <1>2, <2>1 DEF Pushes
  <2>3. num'[p] = num[p]
    BY <2>2, NumberSteps
  <2> QED
    BY <2>2, <2>3 DEF MarkOf
<1> QED
  BY <1>1, <1>2

LEMMA ArtifactsStep ==
  ASSUME TypeOK, MarksInv, PhaseInv, TargetInv, [Next]_vars, NEW x \in artifacts'
  PROVE  /\ x.repo = RepoOf[x.item] /\ x.num <= num'[x.item] /\ pc'[x.item] # "none"
         /\ IsReq \/ pc'[x.item] = "merged"
<1>1. CASE x \in artifacts
  <2>1. x.item \in Item /\ x.num \in Nat
    BY <1>1, MarkIs
  <2>2. /\ x.repo = RepoOf[x.item] /\ x.num <= num[x.item] /\ pc[x.item] # "none"
        /\ IsReq \/ pc[x.item] = "merged"
    BY <1>1 DEF MarksInv
  <2>3. x.num <= num'[x.item]
    <3>1. CASE num'[x.item] = num[x.item]
      BY <2>2, <3>1
    <3>2. CASE pc[x.item] = "apply" /\ num'[x.item] = target[x.item]
      <4>1. target[x.item] # 0 /\ target[x.item] \in Nat
        BY <2>1, <3>2 DEF PhaseInv, TypeOK
      <4> QED
        BY <1>1, <2>1, <3>2, <4>1 DEF TargetInv
    <3> QED
      BY <2>1, <2>2, <3>1, <3>2, NumberSteps
  <2> QED
    BY <2>1, <2>2, <2>3, PlaceSteps
<1>2. CASE x \notin artifacts
  <2>1. PICK p \in Item : Merges(p)
    BY <1>2, OriginSteps DEF Pushes, Reserves, remoteVars
  <2>2. x = MarkOf(p, num[p]) /\ num[p] \in Nat
    BY <1>2, <2>1 DEF Merges, TypeOK
  <2>3. /\ pc[p] \in {"allocated", "published"}
        /\ IsReq \/ pc'[p] = "merged"
    BY <2>1 DEF Merges
  <2>4. num'[p] = num[p] /\ pc'[p] # "none"
    BY <2>3, NumberSteps, PlaceSteps
  <2> QED
    BY <2>2, <2>3, <2>4 DEF MarkOf
<1> QED
  BY <1>1, <1>2

LEMMA MarksInvStep == TypeOK /\ MarksInv /\ PhaseInv /\ TargetInv /\ [Next]_vars => MarksInv'
<1> SUFFICES ASSUME TypeOK, MarksInv, PhaseInv, TargetInv, [Next]_vars PROVE MarksInv'
  OBVIOUS
<1>1. \A x \in refs' : x.repo = RepoOf[x.item]
  BY OriginSteps DEF Reserves, Pushes, Merges, MarksInv, MarkOf, remoteVars
<1> QED
  BY <1>1, BranchesStep, ArtifactsStep DEF MarksInv

\* The marks of before are still there, or a higher one took their place; the
\* new one of an item is not below what that item has merged.
LEMMA MarksClimb ==
  ASSUME TypeOK, MarksInv, PhaseInv, TargetInv, [Next]_vars
  PROVE  /\ \A x \in refs : x \in refs'
         /\ \A x \in branches : x \in branches' \/ x \in artifacts'
         /\ \A x \in artifacts : \/ x \in artifacts'
                                 \/ \E y \in artifacts' : /\ y.item = x.item /\ y.repo = x.repo
                                                          /\ y.num > x.num
         /\ \A y \in (branches \cup artifacts \cup refs)' \ (branches \cup artifacts \cup refs) :
              \A x \in artifacts : x.item = y.item => x.num <= y.num
<1>1. \A x \in refs : x \in refs'
  BY OriginSteps DEF Reserves, Pushes, Merges, remoteVars
<1>2. ASSUME NEW x \in branches, x \notin branches' PROVE x \in artifacts'
  <2>1. PICK p \in Item : Merges(p)
    BY <1>2, OriginSteps DEF Pushes, Reserves, remoteVars
  <2>2. x = MarkOf(p, num[p])
    BY <1>2, <2>1 DEF Merges
  <2> QED
    BY <2>1, <2>2 DEF Merges
<1>3. ASSUME NEW x \in artifacts, x \notin artifacts'
      PROVE  \E y \in artifacts' : y.item = x.item /\ y.repo = x.repo /\ y.num > x.num
  <2>1. PICK p \in Item : Merges(p)
    BY <1>3, OriginSteps DEF Pushes, Reserves, remoteVars
  <2>2. x.item = p
    BY <1>3, <2>1 DEF Merges
  <2>3. x = MarkOf(p, x.num) /\ x.num \in Nat /\ num[p] \in Nat
    BY <2>2, MarkIs DEF TypeOK
  <2>4. MarkOf(p, num[p]) \in artifacts' /\ x.num # num[p]
    BY <1>3, <2>1, <2>3 DEF Merges
  <2>5. x.num <= num[p]
    BY <2>2 DEF MarksInv
  <2>6. MarkOf(p, num[p]).item = p /\ MarkOf(p, num[p]).repo = x.repo /\ MarkOf(p, num[p]).num = num[p]
    BY <2>2 DEF MarkOf, MarksInv
  <2> QED
    BY <2>2, <2>3, <2>4, <2>5, <2>6
<1>4. ASSUME NEW y \in (branches \cup artifacts \cup refs)' \ (branches \cup artifacts \cup refs),
             NEW x \in artifacts, x.item = y.item
      PROVE  x.num <= y.num
  <2>1. \E p \in Item : Pushes(p) \/ Merges(p) \/ \E n \in Nat : Reserves(p, n)
    BY <1>4, OriginSteps DEF remoteVars
  <2>2. x.num <= num[x.item] /\ x.num \in Nat /\ pc[x.item] # "none"
    BY MarkIs DEF MarksInv
  <2>3. ASSUME NEW p \in Item, Pushes(p) \/ Merges(p) PROVE x.num <= y.num
    <3>1. y = MarkOf(p, num[p])
      BY <1>4, <2>3 DEF Pushes, Merges
    <3> QED
      BY <1>4, <2>2, <3>1 DEF MarkOf
  <2>4. ASSUME NEW p \in Item, NEW n \in Nat, Reserves(p, n) PROVE x.num <= y.num
    <3>1. y = MarkOf(p, n)
      BY <1>4, <2>4 DEF Reserves
    <3>2. x.item = p /\ y.num = n
      BY <1>4, <3>1 DEF MarkOf
    <3>3. pc[p] = "reserve" /\ n = target[p]
      BY <2>2, <2>4, <3>2 DEF Reserves
    <3>4. target[p] # 0
      BY <3>3 DEF PhaseInv
    <3> QED
      BY <2>2, <3>2, <3>3, <3>4 DEF TargetInv
  <2> QED
    BY <2>1, <2>3, <2>4
<1> QED
  BY <1>1, <1>2, <1>3, <1>4

\* ------------------------------------------------ 5. the calls of a listing

CallRepo(i, k)   == ((i - 1) \div k) + 1
CallSource(i, k) == ((i - 1) % k) + 1

RepoOfCall(p, i) == Scan(p)[CallRepo(i, Len(Sources))]
SourceOfCall(i)  == Sources[CallSource(i, Len(Sources))]
MarksAt(p, i)    == {x \in Marks(SourceOfCall(i)) : x.repo = RepoOfCall(p, i)}

LEMMA CallsNat == \A p \in Item : Len(Scan(p)) \in Nat /\ Calls(p) \in Nat
<1> SUFFICES ASSUME NEW p \in Item PROVE Len(Scan(p)) \in Nat /\ Calls(p) \in Nat
  OBVIOUS
<1>1. Len(Scan(p)) \in Nat
  BY Params, PublishAssumption DEF PublishAssumption, Scan
<1>2. CASE Len(Sources) = 2
  BY <1>1, <1>2 DEF Calls
<1>3. CASE Len(Sources) = 3
  BY <1>1, <1>3 DEF Calls
<1> QED
  BY <1>1, <1>2, <1>3, SourceCount

\* The call after the one for the branches is for the artifacts of the same
\* origin, the one after that for its reservations.
LEMMA NextCall ==
  ASSUME NEW p \in Item, NEW i \in Nat \ {0}, i <= Calls(p),
         SourceOfCall(i) \in {"branches", "artifacts"}
  PROVE  /\ i + 1 <= Calls(p) /\ RepoOfCall(p, i + 1) = RepoOfCall(p, i)
         /\ SourceOfCall(i) = "branches" => SourceOfCall(i + 1) = "artifacts"
         /\ SourceOfCall(i) = "artifacts" => SourceOfCall(i + 1) = "reservations"
<1>1. Len(Scan(p)) \in Nat
  BY CallsNat
<1>2. CASE ~HasBranches
  <2>1. Len(Sources) = 2 /\ Sources[1] = "artifacts" /\ Sources[2] = "reservations"
    BY <1>2 DEF Sources
  <2>2. CallSource(i, 2) \in 1 .. 2
    BY DEF CallSource
  <2>3. CallSource(i, 2) = 1 /\ SourceOfCall(i) = "artifacts"
    BY <2>1, <2>2 DEF SourceOfCall
  <2>4. (i - 1) % 2 = 0
    BY <2>3 DEF CallSource
  <2>5. CallSource(i + 1, 2) = 2 /\ CallRepo(i + 1, 2) = CallRepo(i, 2)
    BY <2>4 DEF CallSource, CallRepo
  <2>6. i + 1 <= Calls(p)
    <3>1. i <= Len(Scan(p)) * 2
      BY <2>1 DEF Calls
    <3>2. i + 1 <= Len(Scan(p)) * 2
      BY <3>1, <2>4, <1>1
    <3> QED
      BY <3>2, <2>1 DEF Calls
  <2> QED
    BY <2>1, <2>3, <2>5, <2>6 DEF SourceOfCall, RepoOfCall
<1>3. CASE HasBranches
  <2>1. /\ Len(Sources) = 3 /\ Sources[1] = "branches" /\ Sources[2] = "artifacts"
        /\ Sources[3] = "reservations"
    BY <1>3 DEF Sources
  <2>2. CallSource(i, 3) \in 1 .. 3
    BY DEF CallSource
  <2>3. CallSource(i, 3) \in 1 .. 2 /\ SourceOfCall(i) = Sources[CallSource(i, 3)]
    BY <2>1, <2>2 DEF SourceOfCall
  <2>4. (i - 1) % 3 \in {0, 1}
    BY <2>3 DEF CallSource
  <2>5. CallSource(i + 1, 3) = CallSource(i, 3) + 1 /\ CallRepo(i + 1, 3) = CallRepo(i, 3)
    BY <2>4 DEF CallSource, CallRepo
  <2>6. i + 1 <= Calls(p)
    <3>1. i <= Len(Scan(p)) * 3
      BY <2>1 DEF Calls
    <3>2. i + 1 <= Len(Scan(p)) * 3
      BY <3>1, <2>4, <1>1
    <3> QED
      BY <3>2, <2>1 DEF Calls
  <2>7. SourceOfCall(i + 1) = Sources[CallSource(i, 3) + 1]
    BY <2>1, <2>5 DEF SourceOfCall
  <2> QED
    BY <2>1, <2>3, <2>5, <2>6, <2>7 DEF RepoOfCall
<1> QED
  BY <1>2, <1>3

\* Every listing of an origin in the scope has its call.
LEMMA CallOf ==
  ASSUME NEW p \in Item, NEW r \in Scope(p), NEW b \in 1 .. Len(Sources)
  PROVE  \E i \in Nat \ {0} : i <= Calls(p) /\ RepoOfCall(p, i) = r /\ SourceOfCall(i) = Sources[b]
<1>1. Len(Scan(p)) \in Nat
  BY CallsNat
<1>2. PICK a \in 1 .. Len(Scan(p)) : Scan(p)[a] = r
  BY Params, PublishAssumption DEF PublishAssumption, Scope, Scan
<1>3. \E i \in Nat \ {0} : /\ i <= Calls(p) /\ CallRepo(i, Len(Sources)) = a
                           /\ CallSource(i, Len(Sources)) = b
  <2>1. CASE Len(Sources) = 2
    <3>1. PICK i \in Int : i = (a - 1) * 2 + b
      OBVIOUS
    <3>2. i \in Nat \ {0} /\ CallRepo(i, 2) = a /\ CallSource(i, 2) = b /\ i <= Len(Scan(p)) * 2
      BY <1>1, <2>1, <3>1 DEF CallRepo, CallSource
    <3> QED
      BY <2>1, <3>2 DEF Calls
  <2>2. CASE Len(Sources) = 3
    <3>1. PICK i \in Int : i = (a - 1) * 3 + b
      OBVIOUS
    <3>2. i \in Nat \ {0} /\ CallRepo(i, 3) = a /\ CallSource(i, 3) = b /\ i <= Len(Scan(p)) * 3
      BY <1>1, <2>2, <3>1 DEF CallRepo, CallSource
    <3> QED
      BY <2>2, <3>2 DEF Calls
  <2> QED
    BY <2>1, <2>2, SourceCount
<1> QED
  BY <1>2, <1>3 DEF RepoOfCall, SourceOfCall

LEMMA SourcesOfCalls ==
  ASSUME NEW i \in Nat \ {0}
  PROVE  SourceOfCall(i) \in {"branches", "artifacts", "reservations"}
<1>1. CallSource(i, Len(Sources)) \in 1 .. Len(Sources)
  <2>1. CASE Len(Sources) = 2
    BY <2>1 DEF CallSource
  <2>2. CASE Len(Sources) = 3
    BY <2>2 DEF CallSource
  <2> QED
    BY <2>1, <2>2, SourceCount
<1> QED
  BY <1>1, Params DEF Sources, SourceOfCall

LEMMA ListedByCall ==
  ASSUME MarksInv, NEW p \in Item, NEW x \in Visible(p)
  PROVE  \E i \in Nat \ {0} : i <= Calls(p) /\ x \in MarksAt(p, i)
<1>1. x.repo \in Scope(p) /\ x \in branches \cup artifacts \cup refs
  BY DEF Visible
<1>2. \E b \in 1 .. Len(Sources) : x \in Marks(Sources[b])
  <2>1. CASE HasBranches
    <3>1. /\ Len(Sources) = 3 /\ Sources[1] = "branches" /\ Sources[2] = "artifacts"
          /\ Sources[3] = "reservations"
      BY <2>1 DEF Sources
    <3> QED
      BY <3>1, <1>1 DEF Marks
  <2>2. CASE ~HasBranches
    <3>1. Len(Sources) = 2 /\ Sources[1] = "artifacts" /\ Sources[2] = "reservations"
      BY <2>2 DEF Sources
    <3>2. x \notin branches
      BY <2>2 DEF MarksInv
    <3> QED
      BY <3>1, <3>2, <1>1 DEF Marks
  <2> QED
    BY <2>1, <2>2
<1> QED
  BY <1>1, <1>2, CallOf DEF MarksAt

\* ------------------------------------------------------ 6. fresh targets

\* The checkout a session works in is one of those it scans: the default root
\* is the directory the main worktree lies in (id-recheck.sh:153).
OwnRepoScanned == \A p \in Item : RepoOf[p] \in Scope(p)

StillListed(p) ==
  \E i \in Nat \ {0} : /\ at[p] <= i /\ i <= Calls(p)
                       /\ \E x \in MarksAt(p, i) : x.num >= floor[p]

FloorOf(p) ==
  /\ pc[p] \in {"derive", "walk"} => \A x \in artifacts : x.item = p => x.num <= floor[p]
  /\ pc[p] = "derive" /\ ~degraded[p] => (floor[p] <= high[p] \/ StillListed(p))
  /\ pc[p] = "walk" => floor[p] <= high[p] /\ ~degraded[p]
  /\ pc[p] = "halted" /\ ~renumbering[p] => target[p] > floor[p]

FloorInv == \A p \in Item : FloorOf(p)

FreshInv == MarksInv /\ PhaseInv /\ TargetInv /\ FloorInv

\* Only an item that is allocated or published merges.
LEMMA OwnArtifacts ==
  ASSUME TypeOK, [Next]_vars, NEW p \in Item, pc[p] \notin {"allocated", "published"},
         NEW x \in artifacts', x.item = p
  PROVE  x \in artifacts
<1>1. ASSUME NEW q \in Item, Merges(q) PROVE x \in artifacts
  <2>1. q # p
    BY <1>1 DEF Merges
  <2> QED
    BY <1>1, <2>1 DEF Merges, MarkOf
<1> QED
  BY <1>1, OriginSteps DEF Pushes, Reserves, remoteVars

LEMMA MarkLater ==
  ASSUME TypeOK, MarksInv, PhaseInv, TargetInv, [Next]_vars,
         NEW p \in Item, NEW i \in Nat \ {0}, i <= Calls(p), NEW x \in MarksAt(p, i)
  PROVE  \/ x \in MarksAt(p, i)'
         \/ i + 1 <= Calls(p) /\ x \in MarksAt(p, i + 1)'
         \/ /\ SourceOfCall(i) = "artifacts"
            /\ \E y \in MarksAt(p, i)' : y.item = x.item /\ y.num > x.num
<1>1. x \in Marks(SourceOfCall(i)) /\ x.repo = RepoOfCall(p, i)
  BY DEF MarksAt
<1>2. CASE SourceOfCall(i) = "reservations"
  BY <1>1, <1>2, MarksClimb DEF MarksAt, Marks
<1>3. CASE SourceOfCall(i) = "artifacts"
  BY <1>1, <1>3, MarksClimb DEF MarksAt, Marks
<1>4. CASE SourceOfCall(i) = "branches"
  <2>1. i + 1 <= Calls(p) /\ RepoOfCall(p, i + 1) = RepoOfCall(p, i) /\ SourceOfCall(i + 1) = "artifacts"
    BY <1>4, NextCall
  <2>2. x \in branches' \/ x \in artifacts'
    BY <1>1, <1>4, MarksClimb DEF Marks
  <2> QED
    BY <1>1, <1>4, <2>1, <2>2 DEF MarksAt, Marks
<1> QED
  BY <1>2, <1>3, <1>4, SourcesOfCalls

LEMMA StillListedLater ==
  ASSUME TypeOK, MarksInv, MarksInv', TypeOK', PhaseInv, TargetInv, [Next]_vars,
         NEW p \in Item, at'[p] = at[p], floor'[p] = floor[p], StillListed(p)
  PROVE  StillListed(p)'
<1>0. PICK i \in Nat \ {0} : /\ at[p] <= i /\ i <= Calls(p)
                            /\ \E x \in MarksAt(p, i) : x.num >= floor[p]
  BY DEF StillListed
<1>1. PICK x \in MarksAt(p, i) : at[p] <= i /\ i <= Calls(p) /\ x.num >= floor[p]
  BY <1>0
<1>2. Calls(p)' = Calls(p) /\ Calls(p) \in Nat /\ at[p] \in Nat /\ floor[p] \in Nat
  BY CallsNat DEF TypeOK, Calls, Scan, Sources
<1>3. x.num \in Nat
  <2>1. x \in branches \cup artifacts \cup refs
    BY <1>1, SourcesOfCalls DEF MarksAt, Marks
  <2> QED
    BY <2>1, MarkIs
<1>4. CASE x \in MarksAt(p, i)'
  BY <1>1, <1>2, <1>4 DEF StillListed
<1>5. CASE i + 1 <= Calls(p) /\ x \in MarksAt(p, i + 1)'
  <2>1. i + 1 \in Nat \ {0} /\ at'[p] <= i + 1
    BY <1>1, <1>2
  <2> QED
    BY <1>1, <1>2, <1>5, <2>1 DEF StillListed
<1>6. CASE SourceOfCall(i) = "artifacts" /\ \E y \in MarksAt(p, i)' : y.num > x.num
  <2>1. PICK y \in MarksAt(p, i)' : y.num > x.num
    BY <1>6
  <2>2. y \in artifacts'
    BY <1>6, <2>1 DEF MarksAt, Marks
  <2>3. y.num \in Nat
    BY <2>2 DEF TypeOK, Mark
  <2>4. y.num >= floor'[p]
    BY <1>1, <1>2, <1>3, <2>1, <2>3
  <2> QED
    BY <1>1, <1>2, <2>1, <2>4 DEF StillListed
<1> QED
  BY <1>1, <1>4, <1>5, <1>6, MarkLater

\* A check begins with everything still to be listed.
LEMMA BeginFloor ==
  ASSUME TypeOK, MarksInv, OwnRepoScanned, NEW p \in Item, BeginCheck(p), UNCHANGED remoteVars,
         pc'[p] = "derive"
  PROVE  FloorOf(p)'
<1>1. PICK top \in {x.num : x \in Visible(p)} \cup {0} :
        /\ IsListMax(top, {x.num : x \in Visible(p)})
        /\ floor' = [floor EXCEPT ![p] = top]
  BY DEF BeginCheck
<1>2. at'[p] = 1 /\ high'[p] = 0 /\ floor'[p] = top
  BY <1>1 DEF BeginCheck, TypeOK
<1>3. \A x \in artifacts' : x.item = p => x.num <= floor'[p]
  <2> SUFFICES ASSUME NEW x \in artifacts', x.item = p PROVE x.num <= floor'[p]
    OBVIOUS
  <2>1. x \in Visible(p)
    BY DEF remoteVars, MarksInv, OwnRepoScanned, Visible
  <2> QED
    BY <1>1, <1>2, <2>1 DEF IsListMax
<1>4. floor'[p] <= high'[p] \/ StillListed(p)'
  <2>1. CASE top = 0
    BY <1>2, <2>1
  <2>2. CASE top # 0
    <3>1. PICK x \in Visible(p) : x.num = top
      BY <2>2
    <3>2. PICK i \in Nat \ {0} : i <= Calls(p) /\ x \in MarksAt(p, i)
      BY ListedByCall
    <3>3. x \in MarksAt(p, i)' /\ Calls(p)' = Calls(p) /\ x.num \in Nat
      <4>1. x \in branches \cup artifacts \cup refs
        BY DEF Visible
      <4> QED
        BY <3>2, <4>1, MarkIs DEF MarksAt, Marks, remoteVars, SourceOfCall, RepoOfCall, Calls,
                                Scan, Sources
    <3> QED
      BY <1>2, <3>1, <3>2, <3>3 DEF StillListed
  <2> QED
    BY <2>1, <2>2
<1> QED
  BY <1>3, <1>4 DEF FloorOf

\* The listing asked for now is read, the others wait.
LEMMA DeriveFloor ==
  ASSUME TypeOK, NEW p \in Item, FloorOf(p), Derive(p)
  PROVE  FloorOf(p)'
<1> DEFINE listed == {x.num : x \in {y \in Marks(SourceAt(p)) : y.repo = RepoAt(p)}}
<1>1. /\ pc[p] = "derive" /\ pc'[p] = pc[p] /\ at[p] <= Calls(p) /\ at'[p] = at[p] + 1
      /\ UNCHANGED <<branches, artifacts, refs, floor>>
  BY DEF Derive, itemVars, remoteVars, TypeOK
<1>2. at[p] \in Nat \ {0} /\ Calls(p) \in Nat /\ Calls(p)' = Calls(p) /\ floor[p] \in Nat
      /\ high[p] \in Nat
  BY CallsNat DEF TypeOK, Calls, Scan, Sources
<1>3. \A x \in artifacts' : x.item = p => x.num <= floor'[p]
  BY <1>1 DEF FloorOf
<1>4. CASE degraded'[p] = TRUE
  BY <1>1, <1>3, <1>4 DEF FloorOf
<1>5. CASE UNCHANGED degraded /\ \E top \in listed \cup {0} :
                                    /\ IsListMax(top, listed)
                                    /\ high' = [high EXCEPT ![p] = Larger(@, top)]
  <2>1. PICK top \in listed \cup {0} : /\ IsListMax(top, listed)
                                      /\ high' = [high EXCEPT ![p] = Larger(@, top)]
    BY <1>5
  <2>2. listed \subseteq Nat
    BY <1>2, SourceNames, MarksTypes DEF Mark
  <2>3. top \in Nat /\ high'[p] = Larger(high[p], top)
    BY <2>1, <2>2 DEF TypeOK
  <2>4. high'[p] >= high[p] /\ high'[p] >= top /\ high'[p] \in Nat
    BY <2>3, <1>2 DEF Larger
  <2>5. ASSUME StillListed(p) PROVE floor'[p] <= high'[p] \/ StillListed(p)'
    <3>1. PICK i \in Nat \ {0} : /\ at[p] <= i /\ i <= Calls(p)
                                /\ \E x \in MarksAt(p, i) : x.num >= floor[p]
      BY <2>5 DEF StillListed
    <3>2. PICK x \in MarksAt(p, i) : x.num >= floor[p]
      BY <3>1
    <3>3. CASE i = at[p]
      <4>1. x.num \in listed
        BY <3>3 DEF MarksAt, RepoOfCall, SourceOfCall, CallRepo, CallSource, RepoAt, SourceAt
      <4>2. x.num <= top /\ x.num \in Nat
        BY <4>1, <2>1, <2>2 DEF IsListMax
      <4> QED
        BY <4>2, <3>2, <2>3, <2>4, <1>1, <1>2
    <3>4. CASE i # at[p]
      <4>1. at'[p] <= i
        BY <3>1, <3>4, <1>1, <1>2
      <4>2. MarksAt(p, i)' = MarksAt(p, i)
        BY <1>1 DEF MarksAt, Marks, SourceOfCall, RepoOfCall, Scan, Sources
      <4> QED
        BY <3>1, <4>1, <4>2, <1>1, <1>2 DEF StillListed
    <3> QED
      BY <3>3, <3>4
  <2>6. ~degraded'[p] => floor'[p] <= high'[p] \/ StillListed(p)'
    <3>1. ~degraded[p] /\ floor[p] <= high[p] => floor'[p] <= high'[p]
      BY <2>4, <1>1, <1>2
    <3> QED
      BY <3>1, <2>5, <1>1, <1>5 DEF FloorOf
  <2> QED
    BY <1>1, <1>3, <2>6 DEF FloorOf
<1>6. \/ degraded'[p] = TRUE
      \/ UNCHANGED degraded /\ \E top \in listed \cup {0} :
                                  /\ IsListMax(top, listed)
                                  /\ high' = [high EXCEPT ![p] = Larger(@, top)]
  BY DEF Derive, TypeOK
<1> QED
  BY <1>4, <1>5, <1>6

\* A healthy derivation has read all there was to stay above.
LEMMA DerivedFloor ==
  ASSUME TypeOK, NEW p \in Item, FloorOf(p), Derived(p)
  PROVE  FloorOf(p)'
<1>1. /\ pc[p] = "derive" /\ at[p] > Calls(p) /\ UNCHANGED <<artifacts, renumbering>>
      /\ pc'[p] \in {"walk", "cleared", "reserve"}
      /\ pc'[p] = "walk" => /\ ~degraded[p] /\ ~degraded'[p]
                            /\ high'[p] = high[p] /\ floor'[p] = floor[p]
  BY DEF Derived, Goto, Clear, TypeOK, remoteVars
<1>2. ~StillListed(p)
  BY <1>1, CallsNat DEF StillListed, TypeOK
<1> QED
  BY <1>1, <1>2 DEF FloorOf

LEMMA WalkFloor ==
  ASSUME TypeOK, NEW p \in Item, FloorOf(p), WalkOn(p) \/ WalkCallFails(p)
  PROVE  FloorOf(p)'
BY DEF FloorOf, WalkOn, WalkCallFails, Walking, itemVars, remoteVars

LEMMA HitFloor ==
  ASSUME TypeOK, NEW p \in Item, FloorOf(p), WalkHits(p) \/ NamesCallFails(p)
  PROVE  FloorOf(p)'
<1>1. pc[p] = "walk" /\ \E whose : Hit(p, whose)
  BY DEF WalkHits, NamesCallFails, Walking
<1>2. floor[p] <= high[p] /\ floor[p] \in Nat /\ high[p] \in Nat
  BY <1>1 DEF FloorOf, TypeOK
<1>3. /\ pc'[p] = "halted" /\ floor'[p] = floor[p] /\ renumbering'[p] = renumbering[p]
      /\ ~renumbering[p] => target'[p] = high[p] + 1
  BY <1>1 DEF Hit, TypeOK
<1> QED
  BY <1>2, <1>3 DEF FloorOf

\* The other steps lead out of the check.
LEMMA LeaveFloor ==
  ASSUME TypeOK, PhaseInv, NEW p \in Item,
         \/ Allocate(p) \/ MergeSpec(p) \/ ResumeOwnBranch(p) \/ WalkEnds(p) \/ ReserveNew(p)
         \/ ReserveLost(p) \/ Apply(p) \/ Restart(p) \/ Crash(p) \/ PushBranch(p) \/ MergePR(p)
  PROVE  FloorOf(p)'
<1> SUFFICES pc'[p] \notin {"derive", "walk", "halted"} \/ (pc'[p] = "halted" /\ renumbering'[p])
  BY DEF FloorOf
<1> USE DEF TypeOK, Goto, itemVars
<1>1. CASE Crash(p)
  BY <1>1 DEF Crash
<1>2. CASE Allocate(p) \/ MergeSpec(p) \/ ResumeOwnBranch(p) \/ WalkEnds(p) \/ Apply(p)
  BY <1>2 DEF Allocate, MergeSpec, ResumeOwnBranch, WalkEnds, Clear, Apply
<1>3. CASE ReserveNew(p) \/ ReserveLost(p) \/ Restart(p) \/ PushBranch(p) \/ MergePR(p)
  BY <1>3 DEF ReserveNew, ReserveLost, Restart, PushBranch, MergePR
<1> QED
  BY <1>1, <1>2, <1>3

LEMMA StillFloor ==
  ASSUME TypeOK, TypeOK', MarksInv, MarksInv', PhaseInv, TargetInv, [Next]_vars,
         NEW p \in Item, FloorOf(p), Still(p)
  PROVE  FloorOf(p)'
<1>1. pc[p] \in {"derive", "walk"} => \A x \in artifacts' : x.item = p => x.num <= floor'[p]
  BY OwnArtifacts DEF FloorOf, Still
<1>2. StillListed(p) => StillListed(p)'
  BY StillListedLater DEF Still
<1> QED
  BY <1>1, <1>2 DEF FloorOf, Still

LEMMA FloorInvStep ==
  ASSUME OwnRepoScanned, TypeOK, TypeOK', MarksInv, MarksInv', PhaseInv, TargetInv, FloorInv,
         [Next]_vars
  PROVE  FloorInv'
<1> SUFFICES ASSUME NEW p \in Item PROVE FloorOf(p)'
  BY DEF FloorInv
<1>1. FloorOf(p)
  BY DEF FloorInv
<1>2. CASE Recheck(p) \/ Renumber(p)
  <2>1. BeginCheck(p) /\ UNCHANGED remoteVars /\ pc'[p] = "derive"
    BY <1>2 DEF Recheck, Renumber, Goto, TypeOK
  <2> QED
    BY <2>1, BeginFloor
<1> QED
  BY <1>1, <1>2, ActOrStill, StillFloor, DeriveFloor, DerivedFloor, WalkFloor, HitFloor,
     LeaveFloor DEF Act

LEMMA TargetSteps ==
  ASSUME TypeOK, [Next]_vars, NEW p \in Item
  PROVE  \/ target'[p] = target[p]
         \/ target'[p] = 0
         \/ pc[p] = "walk" /\ target'[p] = high[p] + 1
<1> USE DEF TypeOK, Goto, itemVars
<1>1. CASE WalkHits(p) \/ NamesCallFails(p)
  BY <1>1 DEF WalkHits, NamesCallFails, Hit, Walking
<1>2. CASE \/ Allocate(p) \/ MergeSpec(p) \/ Recheck(p) \/ ResumeOwnBranch(p) \/ Derive(p)
           \/ Derived(p) \/ WalkOn(p) \/ WalkCallFails(p) \/ WalkEnds(p) \/ Renumber(p)
           \/ ReserveNew(p) \/ ReserveLost(p) \/ Apply(p) \/ Restart(p) \/ Crash(p)
           \/ PushBranch(p) \/ MergePR(p)
  BY <1>2 DEF Allocate, MergeSpec, Recheck, ResumeOwnBranch, Derive, Derived, WalkOn,
              WalkCallFails, WalkEnds, Renumber, ReserveNew, ReserveLost, Apply, Restart, Crash,
              PushBranch, MergePR
<1> QED
  BY <1>1, <1>2, ActOrStill DEF Act, Still

LEMMA TargetInvStep ==
  ASSUME TypeOK, TypeOK', MarksInv, MarksInv', PhaseInv, TargetInv, FloorInv, [Next]_vars
  PROVE  TargetInv'
<1> SUFFICES ASSUME NEW x \in artifacts', target'[x.item] # 0 PROVE x.num < target'[x.item]
  BY DEF TargetInv
<1> DEFINE q == x.item
<1>1. q \in Item /\ x.num \in Nat
  BY DEF TypeOK, Mark
<1>2. CASE x \in artifacts
  <2>1. CASE target'[q] = target[q]
    BY <1>2, <2>1 DEF TargetInv
  <2>2. CASE pc[q] = "walk" /\ target'[q] = high[q] + 1
    <3>1. x.num <= floor[q] /\ floor[q] <= high[q]
      BY <1>1, <1>2, <2>2 DEF FloorInv, FloorOf
    <3>2. floor[q] \in Nat /\ high[q] \in Nat
      BY <1>1 DEF TypeOK
    <3> QED
      BY <1>1, <2>2, <3>1, <3>2
  <2> QED
    BY <1>1, <2>1, <2>2, TargetSteps
<1>3. CASE x \notin artifacts
  <2>1. PICK p \in Item : Merges(p)
    BY <1>3, OriginSteps DEF Pushes, Reserves, remoteVars
  <2>2. q = p /\ pc[p] \in {"allocated", "published"}
    BY <1>3, <2>1 DEF Merges, MarkOf
  <2>3. target[p] = 0
    BY <2>2 DEF PhaseInv
  <2> QED
    BY <2>2, <2>3, TargetSteps
<1> QED
  BY <1>2, <1>3

LEMMA FreshInit == Init => FreshInv
BY DEF Init, FreshInv, MarksInv, PhaseInv, TargetInv, FloorInv, FloorOf

LEMMA FreshStep ==
  ASSUME OwnRepoScanned
  PROVE  TypeOK /\ TypeOK' /\ FreshInv /\ [Next]_vars => FreshInv'
BY MarksInvStep, PhaseInvStep, TargetInvStep, FloorInvStep DEF FreshInv

\* The number a halt tells the operator to take is above everything that was
\* visible on the scanned origins when the recheck began, whatever was pushed,
\* merged or renumbered while it listed (adlc_recheck_id), if sessions scan the
\* repository they work in.
THEOREM FreshTargetHolds ==
  ASSUME OwnRepoScanned
  PROVE  Spec => []FreshTarget
<1>1. FreshInv => FreshTarget
  BY DEF FreshInv, FloorInv, FloorOf, FreshTarget
<1> QED
  BY <1>1, FreshInit, FreshStep, TypeCorrect, PTL DEF Spec

\* ------------------------------------------ 7. a quiet check missed nobody

\* A machine's ledger names its own items only, and all that they reserved
\* unless a reply or a ledger entry was lost.
LedgerInv ==
  /\ \A m \in Machine : \A x \in ledger[m] : MachineOf[x.item] = m
  /\ Faults \cap {"reply", "ledger"} = {} => \A x \in refs : x \in ledger[MachineOf[x.item]]

LEMMA LedgerInvStep == TypeOK /\ LedgerInv /\ [Next]_vars => LedgerInv'
<1> SUFFICES ASSUME TypeOK, LedgerInv, [Next]_vars PROVE LedgerInv'
  OBVIOUS
<1>1. \/ UNCHANGED <<refs, ledger>>
      \/ \E p \in Item, n \in Nat : PushWon(p, n) \/ PushDegraded(p, n)
  <2>1. ASSUME NEW p \in Item, Allocate(p)
        PROVE  \E n \in Nat : PushWon(p, n) \/ PushDegraded(p, n)
    BY <2>1, PublishAssumption DEF Allocate, PublishAssumption
  <2>2. ASSUME NEW p \in Item, ReserveNew(p)
        PROVE  \E n \in Nat : PushWon(p, n) \/ PushDegraded(p, n)
    BY <2>2 DEF ReserveNew, TypeOK
  <2> QED
    BY <2>1, <2>2 DEF Next, MergeSpec, Recheck, ResumeOwnBranch, Derive, Derived, WalkOn,
       WalkHits, WalkCallFails, NamesCallFails, Hit, WalkEnds, Renumber, ReserveLost, Apply,
       Restart, Crash, PushBranch, MergePR, machineVars, remoteVars, itemVars, vars
<1>2. CASE UNCHANGED <<refs, ledger>>
  BY <1>2 DEF LedgerInv
<1>3. ASSUME NEW p \in Item, NEW n \in Nat, PushWon(p, n)
      PROVE  LedgerInv'
  <2>1. MarkOf(p, n).item = p /\ MachineOf[p] \in Machine /\ ledger \in [Machine -> SUBSET Mark]
    BY Params DEF MarkOf, TypeOK
  <2>2. refs' = refs \cup {MarkOf(p, n)}
    BY <1>3 DEF PushWon
  <2>3. CASE ledger' = [ledger EXCEPT ![MachineOf[p]] = @ \cup {MarkOf(p, n)}]
    BY <2>1, <2>2, <2>3 DEF LedgerInv
  <2>4. CASE "ledger" \in Faults /\ UNCHANGED ledger
    BY <2>4 DEF LedgerInv
  <2> QED
    BY <1>3, <2>3, <2>4 DEF PushWon
<1>4. ASSUME NEW p \in Item, NEW n \in Nat, PushDegraded(p, n)
      PROVE  LedgerInv'
  BY <1>4 DEF LedgerInv, PushDegraded
<1> QED
  BY <1>1, <1>2, <1>3, <1>4

\* An item that has merged a higher number than n does not come back to n.
Outgrown(q, n) == \E x \in artifacts : x.item = q /\ x.num > n
Shows(p, q, n) == \E x \in Visible(p) : x.item = q /\ x.num = n

StillFound(p, q) ==
  \E i \in Nat \ {0} : /\ at[p] <= i /\ i <= Calls(p)
                       /\ \E x \in MarksAt(p, i) : x.item = q /\ x.num = Checked(p)

HeldOf(p) ==
  pc[p] \in {"derive", "walk", "cleared", "reserve"} =>
    \A q \in heldBy[p] :
      /\ MachineOf[q] # MachineOf[p]
      /\ Shows(p, q, Checked(p)) \/ Outgrown(q, Checked(p))
      /\ pc[p] = "walk" /\ Shows(p, q, Checked(p)) => StillFound(p, q)
      /\ pc[p] \in {"cleared", "reserve"} /\ ~degraded[p] => ~Shows(p, q, Checked(p))

HeldInv == \A p \in Item : HeldOf(p)

LEMMA HoldersAre ==
  ASSUME TypeOK, NEW p \in Item, NEW q, NEW n
  PROVE  q \in Holders(p, n) <=> q \in Item /\ Shows(p, q, n) /\ MachineOf[q] # MachineOf[p]
<1>1. \A x \in Visible(p) : x.item \in Item
  BY VisibleTypes DEF Mark
<1> QED
  BY <1>1 DEF Holders, Shows

LEMMA CheckedNat == ASSUME TypeOK, NEW p \in Item PROVE Checked(p) \in Nat
BY DEF Checked, TypeOK

LEMMA ShowsLater ==
  ASSUME TypeOK, TypeOK', MarksInv, MarksInv', PhaseInv, TargetInv, [Next]_vars,
         NEW p \in Item, NEW q, NEW n \in Nat
  PROVE  /\ Outgrown(q, n) => Outgrown(q, n)'
         /\ Shows(p, q, n) => Shows(p, q, n)' \/ Outgrown(q, n)'
         /\ Outgrown(q, n) /\ Shows(p, q, n)' => Shows(p, q, n)
<1>1. ASSUME Outgrown(q, n) PROVE Outgrown(q, n)'
  <2>1. PICK x \in artifacts : x.item = q /\ x.num > n /\ x.num \in Nat
    BY <1>1, MarkIs DEF Outgrown
  <2>2. \A y \in artifacts' : y.num \in Nat
    BY DEF TypeOK, Mark
  <2> QED
    BY <2>1, <2>2, MarksClimb DEF Outgrown
<1>2. ASSUME Shows(p, q, n) PROVE Shows(p, q, n)' \/ Outgrown(q, n)'
  <2>1. PICK x \in Visible(p) : x.item = q /\ x.num = n
    BY <1>2 DEF Shows
  <2>2. /\ x \in branches \cup artifacts \cup refs /\ x.repo \in Scope(p)
        /\ Scope(p)' = Scope(p)
    BY DEF Visible, Scope, Scan
  <2>3. CASE x \in (branches \cup artifacts \cup refs)'
    BY <2>1, <2>2, <2>3 DEF Shows, Visible
  <2>4. CASE x \notin (branches \cup artifacts \cup refs)'
    BY <2>1, <2>2, <2>4, MarksClimb DEF Outgrown
  <2> QED
    BY <2>3, <2>4
<1>3. ASSUME Outgrown(q, n), Shows(p, q, n)' PROVE Shows(p, q, n)
  <2>1. PICK x \in artifacts : x.item = q /\ x.num > n /\ x.num \in Nat
    BY <1>3, MarkIs DEF Outgrown
  <2>2. PICK y \in Visible(p)' : y.item = q /\ y.num = n
    BY <1>3 DEF Shows
  <2>3. /\ y \in (branches \cup artifacts \cup refs)' /\ y.repo \in Scope(p)
    BY DEF Visible, Scope, Scan
  <2>4. y \in branches \cup artifacts \cup refs
    BY <2>1, <2>2, <2>3, MarksClimb
  <2> QED
    BY <2>2, <2>3, <2>4 DEF Shows, Visible
<1> QED
  BY <1>1, <1>2, <1>3

LEMMA CallMarks ==
  ASSUME TypeOK, NEW p \in Item, NEW i \in Nat \ {0}, NEW x \in MarksAt(p, i)
  PROVE  /\ x \in branches \cup artifacts \cup refs
         /\ SourceOfCall(i) = "artifacts" => x \in artifacts
BY SourcesOfCalls DEF MarksAt, Marks

\* What is still to be found of an item stays ahead of the walk: it moves to a
\* later listing, or to the reservations that come after the artifacts.
LEMMA FoundLater ==
  ASSUME "probe" \notin Faults, TypeOK, TypeOK', MarksInv, MarksInv', PhaseInv, TargetInv, [Next]_vars,
         NEW p \in Item, NEW q \in Item, Still(p), StillFound(p, q), Shows(p, q, Checked(p))'
  PROVE  StillFound(p, q)'
<1> DEFINE n == Checked(p)
<1>1. PICK i \in Nat \ {0} : /\ at[p] <= i /\ i <= Calls(p)
                            /\ \E x \in MarksAt(p, i) : x.item = q /\ x.num = n
  BY DEF StillFound
<1>2. PICK x \in MarksAt(p, i) : x.item = q /\ x.num = n
  BY <1>1
<1>3. /\ Calls(p)' = Calls(p) /\ Calls(p) \in Nat /\ at[p] \in Nat /\ at'[p] = at[p]
      /\ Checked(p)' = n /\ n \in Nat
  BY CallsNat, CheckedNat DEF TypeOK, Calls, Scan, Sources, Checked, Still
<1>4. CASE x \in MarksAt(p, i)'
  BY <1>1, <1>2, <1>3, <1>4 DEF StillFound
<1>5. CASE i + 1 <= Calls(p) /\ x \in MarksAt(p, i + 1)'
  <2>1. i + 1 \in Nat \ {0} /\ at'[p] <= i + 1
    BY <1>1, <1>3
  <2> QED
    BY <1>2, <1>3, <1>5, <2>1 DEF StillFound
<1>6. CASE /\ SourceOfCall(i) = "artifacts" /\ x \notin MarksAt(p, i)'
           /\ \E y \in MarksAt(p, i)' : y.item = x.item /\ y.num > x.num
  <2>1. x \in artifacts /\ x \notin artifacts'
    BY <1>6, CallMarks DEF MarksAt, Marks
  <2>2. PICK r \in Item : Merges(r)
    BY <2>1, OriginSteps DEF Pushes, Reserves, remoteVars
  <2>3. r = q
    BY <1>2, <2>1, <2>2 DEF Merges
  <2>4. PICK y \in artifacts' : y.item = q /\ y.num > n
    BY <1>2, <1>6 DEF MarksAt, Marks
  <2>5. PICK z \in Visible(p)' : z.item = q /\ z.num = n
    BY <1>3 DEF Shows
  <2>6. y.num \in Nat /\ y.num <= num'[q] /\ num'[q] \in Nat
    BY <2>4 DEF TypeOK, Mark, MarksInv
  <2>7. y = MarkOf(q, num[q])
    BY <2>2, <2>3, <2>4 DEF Merges
  <2>8. z \notin artifacts'
    <3>1. SUFFICES ASSUME z \in artifacts' PROVE FALSE
      OBVIOUS
    <3>2. z = y
      BY <3>1, <2>2, <2>3, <2>5, <2>7 DEF Merges
    <3> QED
      BY <3>2, <2>4, <2>5, <1>3
  <2>9. z \notin branches'
    BY <2>4, <2>5, <2>6, <1>3 DEF MarksInv
  <2>10. z \in refs' /\ z.repo = RepoOf[q]
    BY <2>5, <2>8, <2>9 DEF Visible, MarksInv
  <2>11. RepoOfCall(p, i) = RepoOf[q]
    BY <1>2, <2>1 DEF MarksAt, MarksInv
  <2>12. /\ i + 1 <= Calls(p) /\ RepoOfCall(p, i + 1) = RepoOfCall(p, i)
         /\ SourceOfCall(i + 1) = "reservations"
    BY <1>1, <1>6, NextCall
  <2>13. z \in MarksAt(p, i + 1)'
    BY <2>10, <2>11, <2>12 DEF MarksAt, Marks
  <2>14. i + 1 \in Nat \ {0} /\ at'[p] <= i + 1
    BY <1>1, <1>3
  <2> QED
    BY <1>3, <2>5, <2>12, <2>13, <2>14 DEF StillFound
<1> QED
  BY <1>1, <1>4, <1>5, <1>6, MarkLater

LEMMA StillHeld ==
  ASSUME "probe" \notin Faults, TypeOK, TypeOK', MarksInv, MarksInv', PhaseInv, TargetInv, [Next]_vars,
         NEW p \in Item, HeldOf(p), Still(p)
  PROVE  HeldOf(p)'
<1> SUFFICES ASSUME pc[p] \in {"derive", "walk", "cleared", "reserve"}, NEW q \in heldBy[p]
             PROVE  /\ Shows(p, q, Checked(p))' \/ Outgrown(q, Checked(p))'
                    /\ pc[p] = "walk" /\ Shows(p, q, Checked(p))' => StillFound(p, q)'
                    /\ pc[p] \in {"cleared", "reserve"} /\ ~degraded[p] => ~Shows(p, q, Checked(p))'
  BY DEF HeldOf, Still
<1>1. q \in Item /\ Checked(p) \in Nat /\ Checked(p)' = Checked(p)
  BY CheckedNat DEF TypeOK, Checked, Still
<1>2. /\ Shows(p, q, Checked(p)) \/ Outgrown(q, Checked(p))
      /\ pc[p] = "walk" /\ Shows(p, q, Checked(p)) => StillFound(p, q)
      /\ pc[p] \in {"cleared", "reserve"} /\ ~degraded[p] => ~Shows(p, q, Checked(p))
  BY DEF HeldOf
<1>3. PICK n \in Nat : n = Checked(p)
  BY <1>1
<1>4. /\ Outgrown(q, n) => Outgrown(q, n)'
      /\ Shows(p, q, n) => Shows(p, q, n)' \/ Outgrown(q, n)'
      /\ Outgrown(q, n) /\ Shows(p, q, n)' => Shows(p, q, n)
  BY <1>1, ShowsLater
<1>5. /\ Shows(p, q, Checked(p))' <=> Shows(p, q, n)'
      /\ Outgrown(q, Checked(p))' <=> Outgrown(q, n)'
  BY <1>1, <1>3 DEF Shows, Outgrown
<1> QED
  BY <1>1, <1>2, <1>3, <1>4, <1>5, FoundLater

\* A check begins with what the others show at that moment.
LEMMA BeginHeld ==
  ASSUME TypeOK, NEW p \in Item, UNCHANGED remoteVars, pc'[p] = "derive",
         heldBy'[p] = Holders(p, Checked(p)')
  PROVE  HeldOf(p)'
<1>1. \A n : Holders(p, n)' = Holders(p, n) /\ \A q : Shows(p, q, n)' <=> Shows(p, q, n)
  BY DEF Holders, Shows, Visible, Scope, Scan, remoteVars
<1>2. \A q \in heldBy'[p] : MachineOf[q] # MachineOf[p] /\ Shows(p, q, Checked(p)')
  BY HoldersAre
<1>3. \A q \in heldBy'[p] : Shows(p, q, Checked(p))'
  BY <1>1, <1>2 DEF Shows, Visible, Scope, Scan, remoteVars
<1> QED
  BY <1>2, <1>3 DEF HeldOf

LEMMA DeriveHeld ==
  ASSUME TypeOK, NEW p \in Item, HeldOf(p), Derive(p)
  PROVE  HeldOf(p)'
<1>1. /\ pc[p] = "derive" /\ UNCHANGED <<pc, heldBy, num, target, renumbering, branches, artifacts, refs>>
  BY DEF Derive, itemVars, remoteVars
<1>2. \A q : /\ Shows(p, q, Checked(p))' <=> Shows(p, q, Checked(p))
             /\ Outgrown(q, Checked(p))' <=> Outgrown(q, Checked(p))
  BY <1>1 DEF Shows, Outgrown, Visible, Scope, Scan, Checked
<1> QED
  BY <1>1, <1>2 DEF HeldOf

\* The walk begins with a call ahead for everything that is visible.
LEMMA DerivedHeld ==
  ASSUME TypeOK, MarksInv, NEW p \in Item, HeldOf(p), Derived(p)
  PROVE  HeldOf(p)'
<1>1. /\ pc[p] = "derive" /\ UNCHANGED <<heldBy, num, target, renumbering, branches, artifacts, refs>>
      /\ at'[p] = 1
      /\ pc'[p] \in {"walk", "cleared", "reserve"}
      /\ pc'[p] \in {"cleared", "reserve"} => degraded'[p]
  BY DEF Derived, Goto, Clear, remoteVars, TypeOK
<1>2. \A q : /\ Shows(p, q, Checked(p))' <=> Shows(p, q, Checked(p))
             /\ Outgrown(q, Checked(p))' <=> Outgrown(q, Checked(p))
  BY <1>1 DEF Shows, Outgrown, Visible, Scope, Scan, Checked
<1>3. ASSUME NEW q, Shows(p, q, Checked(p)) PROVE StillFound(p, q)'
  <2>1. PICK x \in Visible(p) : x.item = q /\ x.num = Checked(p)
    BY <1>3 DEF Shows
  <2>2. PICK i \in Nat \ {0} : i <= Calls(p) /\ x \in MarksAt(p, i)
    BY ListedByCall
  <2>3. x \in MarksAt(p, i)' /\ Calls(p)' = Calls(p) /\ Checked(p)' = Checked(p)
    BY <2>2, <1>1 DEF MarksAt, Marks, SourceOfCall, RepoOfCall, Calls, Scan, Sources, Checked
  <2> QED
    BY <2>1, <2>2, <2>3, <1>1 DEF StillFound
<1> QED
  BY <1>1, <1>2, <1>3 DEF HeldOf

\* The walk does not step over the mark of another machine's item.
LEMMA WalkOnHeld ==
  ASSUME TypeOK, LedgerInv, NEW p \in Item, HeldOf(p), WalkOn(p)
  PROVE  HeldOf(p)'
<1>1. /\ pc[p] = "walk" /\ at[p] <= Calls(p) /\ Foreign(p) = {} /\ at'[p] = at[p] + 1
      /\ UNCHANGED <<pc, heldBy, num, target, renumbering, branches, artifacts, refs>>
  BY DEF WalkOn, Walking, itemVars, remoteVars, TypeOK
<1>2. \A q : /\ Shows(p, q, Checked(p))' <=> Shows(p, q, Checked(p))
             /\ Outgrown(q, Checked(p))' <=> Outgrown(q, Checked(p))
  BY <1>1 DEF Shows, Outgrown, Visible, Scope, Scan, Checked
<1>3. at[p] \in Nat \ {0} /\ Calls(p) \in Nat /\ Calls(p)' = Calls(p)
  BY CallsNat DEF TypeOK, Calls, Scan, Sources
<1>4. ASSUME NEW q \in heldBy[p], MachineOf[q] # MachineOf[p], StillFound(p, q)
      PROVE  StillFound(p, q)'
  <2>1. PICK i \in Nat \ {0} : /\ at[p] <= i /\ i <= Calls(p)
                              /\ \E x \in MarksAt(p, i) : x.item = q /\ x.num = Checked(p)
    BY <1>4 DEF StillFound
  <2>2. PICK x \in MarksAt(p, i) : x.item = q /\ x.num = Checked(p)
    BY <2>1
  <2>3. CASE i = at[p]
    <3>1. x \in Here(p)
      BY <2>2, <2>3 DEF MarksAt, RepoOfCall, SourceOfCall, CallRepo, CallSource, Here, RepoAt, SourceAt
    <3>2. x.item # p
      BY <1>4, <2>2
    <3>3. x \notin ledger[MachineOf[p]]
      BY <1>4, <2>2, Params DEF LedgerInv
    <3>4. x \in Foreign(p)
      BY <3>1, <3>2, <3>3, <1>3, SourceNames DEF Foreign
    <3> QED
      BY <3>4, <1>1
  <2>4. CASE i # at[p]
    <3>1. at'[p] <= i
      BY <2>1, <2>4, <1>1, <1>3
    <3>2. MarksAt(p, i)' = MarksAt(p, i) /\ Checked(p)' = Checked(p)
      BY <1>1 DEF MarksAt, Marks, SourceOfCall, RepoOfCall, Scan, Sources, Checked
    <3> QED
      BY <2>1, <3>1, <3>2, <1>3 DEF StillFound
  <2> QED
    BY <2>3, <2>4
<1> QED
  BY <1>1, <1>2, <1>4 DEF HeldOf

\* After the last call nothing is left to be found.
LEMMA WalkEndsHeld ==
  ASSUME TypeOK, NEW p \in Item, HeldOf(p), WalkEnds(p)
  PROVE  HeldOf(p)'
<1>1. /\ pc[p] = "walk" /\ at[p] > Calls(p) /\ pc'[p] \in {"cleared", "reserve"}
      /\ UNCHANGED <<heldBy, num, target, renumbering, branches, artifacts, refs>>
  BY DEF WalkEnds, Goto, Clear, remoteVars, TypeOK
<1>2. \A q : /\ Shows(p, q, Checked(p))' <=> Shows(p, q, Checked(p))
             /\ Outgrown(q, Checked(p))' <=> Outgrown(q, Checked(p))
  BY <1>1 DEF Shows, Outgrown, Visible, Scope, Scan, Checked
<1>3. \A q : ~StillFound(p, q)
  BY <1>1, CallsNat DEF StillFound, TypeOK
<1> QED
  BY <1>1, <1>2, <1>3 DEF HeldOf

LEMMA LeaveHeld ==
  ASSUME TypeOK, PhaseInv, NEW p \in Item,
         \/ Allocate(p) \/ MergeSpec(p) \/ ResumeOwnBranch(p) \/ WalkHits(p) \/ NamesCallFails(p)
         \/ ReserveNew(p) \/ ReserveLost(p) \/ Apply(p) \/ Restart(p) \/ Crash(p)
         \/ PushBranch(p) \/ MergePR(p)
  PROVE  HeldOf(p)'
<1> SUFFICES pc'[p] \notin {"derive", "walk", "cleared", "reserve"}
  BY DEF HeldOf
<1> USE DEF TypeOK, Goto, itemVars
<1>1. CASE WalkHits(p) \/ NamesCallFails(p)
  BY <1>1 DEF WalkHits, NamesCallFails, Hit
<1>2. CASE Allocate(p) \/ MergeSpec(p) \/ ResumeOwnBranch(p) \/ Apply(p) \/ Crash(p)
  BY <1>2 DEF Allocate, MergeSpec, ResumeOwnBranch, Apply, Crash
<1>3. CASE ReserveNew(p) \/ ReserveLost(p) \/ Restart(p) \/ PushBranch(p) \/ MergePR(p)
  BY <1>3 DEF ReserveNew, ReserveLost, Restart, PushBranch, MergePR
<1> QED
  BY <1>1, <1>2, <1>3

LEMMA HeldInvStep ==
  ASSUME "probe" \notin Faults, TypeOK, TypeOK', MarksInv, MarksInv', PhaseInv, TargetInv,
         LedgerInv, HeldInv, [Next]_vars
  PROVE  HeldInv'
<1> SUFFICES ASSUME NEW p \in Item PROVE HeldOf(p)'
  BY DEF HeldInv
<1>1. HeldOf(p)
  BY DEF HeldInv
<1>2. CASE Recheck(p) \/ Renumber(p)
  <2>1. /\ UNCHANGED remoteVars /\ pc'[p] = "derive" /\ num'[p] = num[p] /\ target'[p] = target[p]
        /\ \/ heldBy'[p] = Holders(p, num[p]) /\ ~renumbering'[p]
           \/ heldBy'[p] = Holders(p, target[p]) /\ renumbering'[p]
    BY <1>2 DEF Recheck, Renumber, Goto, TypeOK
  <2>2. heldBy'[p] = Holders(p, Checked(p)')
    BY <2>1 DEF Checked
  <2> QED
    BY <2>1, <2>2, BeginHeld
<1>3. ~WalkCallFails(p)
  BY DEF WalkCallFails
<1> QED
  BY <1>1, <1>2, <1>3, ActOrStill, StillHeld, DeriveHeld, DerivedHeld, WalkOnHeld, WalkEndsHeld,
     LeaveHeld DEF Act

\* A check that ends without a warning did not miss an item of another machine
\* that showed the number from its beginning to its end (adlc_recheck_id),
\* provided that no call of the walk fails unseen: that is what the code does
\* not promise, a failed listing counts as an empty one.
THEOREM QuietMeansFreeHolds ==
  ASSUME OwnRepoScanned, "probe" \notin Faults
  PROVE  Spec => []QuietMeansFree
<1> DEFINE Inv == TypeOK /\ FreshInv /\ LedgerInv /\ HeldInv
<1>1. Init => Inv
  BY TypeInit, FreshInit DEF Init, LedgerInv, HeldInv, HeldOf
<1>2. Inv /\ [Next]_vars => Inv'
  <2> SUFFICES ASSUME Inv, [Next]_vars PROVE Inv'
    OBVIOUS
  <2>1. TypeOK' /\ FreshInv' /\ LedgerInv'
    BY TypeStep, FreshStep, LedgerInvStep
  <2>2. HeldInv'
    BY <2>1, HeldInvStep DEF FreshInv
  <2> QED
    BY <2>1, <2>2
<1>3. Inv => QuietMeansFree
  <2> SUFFICES ASSUME Inv, NEW p \in Item, pc[p] \in {"cleared", "reserve"}, ~degraded[p],
                      NEW q \in heldBy[p]
               PROVE  q \notin Holders(p, Checked(p))
    BY DEF QuietMeansFree
  <2>1. ~Shows(p, q, Checked(p))
    BY DEF HeldInv, HeldOf
  <2> QED
    BY <2>1, HoldersAre
<1> QED
  BY <1>1, <1>2, <1>3, PTL DEF Spec

\* --------------------------------------------------- 8. no halt on oneself

LEMMA WalkHitsOthers ==
  ASSUME TypeOK, FreshInv, LedgerInv, Faults \cap {"probe", "reply", "ledger"} = {},
         NEW p \in Item, pc[p] = "walk", Foreign(p) # {}
  PROVE  {x.item : x \in Foreign(p)} # {p}
<1> SUFFICES ASSUME \A x \in Foreign(p) : x.item = p PROVE FALSE
  BY Zenon
<1>1. PICK x \in Foreign(p) : x.item = p
  OBVIOUS
<1>2. SourceAt(p) \in {"branches", "artifacts", "reservations"}
  BY SourceNames DEF TypeOK
<1>3. Foreign(p) \subseteq Here(p)
  BY <1>2 DEF Foreign
<1>4. x \in Marks(SourceAt(p)) /\ x.num = Checked(p)
  BY <1>1, <1>3 DEF Here
<1>5. CASE SourceAt(p) = "branches"
  BY <1>1, <1>4, <1>5 DEF Marks, FreshInv, MarksInv
<1>6. CASE SourceAt(p) = "reservations"
  <2>1. x \in refs /\ x \notin ledger[MachineOf[p]]
    BY <1>1, <1>4, <1>6 DEF Marks, Foreign
  <2> QED
    BY <1>1, <2>1 DEF LedgerInv
<1>7. CASE SourceAt(p) = "artifacts"
  <2>1. x \in artifacts
    BY <1>4, <1>7 DEF Marks
  <2>2. IsReq
    BY <1>1, <2>1 DEF FreshInv, MarksInv
  <2>3. CASE renumbering[p]
    <3>1. target[p] # 0 /\ x.num = target[p] /\ target[p] \in Nat
      BY <1>4, <2>3 DEF FreshInv, PhaseInv, Checked, TypeOK
    <3>2. x.num < target[p]
      BY <1>1, <2>1, <3>1 DEF FreshInv, TargetInv
    <3> QED
      BY <3>1, <3>2
  <2>4. CASE ~renumbering[p]
    <3>1. Foreign(p) = Here(p)
      BY <1>1, <1>7 DEF Foreign
    <3>2. Foreign(p) = {}
      BY <1>7, <2>2, <2>4, <3>1 DEF Foreign
    <3> QED
      BY <3>2
  <2> QED
    BY <2>3, <2>4
<1> QED
  BY <1>2, <1>5, <1>6, <1>7

LEMMA HaltStep ==
  ASSUME Faults \cap {"probe", "reply", "ledger"} = {}, TypeOK, FreshInv, LedgerInv, NoFalseHalt,
         [Next]_vars
  PROVE  NoFalseHalt'
<1> SUFFICES ASSUME NEW p \in Item PROVE (pc[p] = "halted" /\ hitBy[p] # {} => hitBy[p] # {p})'
  BY DEF NoFalseHalt
<1> USE DEF TypeOK, Goto, itemVars
<1>1. CASE Still(p)
  BY <1>1 DEF Still, NoFalseHalt
<1>2. CASE WalkHits(p)
  <2>1. pc[p] = "walk" /\ Foreign(p) # {} /\ hitBy'[p] = {x.item : x \in Foreign(p)}
    BY <1>2 DEF WalkHits, Walking, Hit
  <2> QED
    BY <2>1, WalkHitsOthers
<1>3. CASE Crash(p)
  BY <1>3 DEF Crash, EndCheck
<1>4. CASE WalkCallFails(p) \/ NamesCallFails(p)
  BY <1>4 DEF WalkCallFails, NamesCallFails
<1>5. CASE \/ Allocate(p) \/ MergeSpec(p) \/ Recheck(p) \/ ResumeOwnBranch(p) \/ Derive(p)
           \/ Derived(p) \/ WalkOn(p) \/ WalkEnds(p)
  BY <1>5 DEF Allocate, MergeSpec, Recheck, ResumeOwnBranch, Derive, Derived, WalkOn, Walking,
              WalkEnds, Clear
<1>6. CASE \/ Renumber(p) \/ ReserveNew(p) \/ ReserveLost(p) \/ Apply(p) \/ Restart(p)
           \/ PushBranch(p) \/ MergePR(p)
  BY <1>6 DEF Renumber, ReserveNew, ReserveLost, Apply, Restart, PushBranch, MergePR
<1> QED
  BY <1>1, <1>2, <1>3, <1>4, <1>5, <1>6, ActOrStill DEF Act

\* What halts a work item is the footprint of another one (adlc_recheck_id),
\* as long as no call fails, no reply of a push is lost and every own
\* reservation is recorded: with one of these faults an item meets itself.
THEOREM NoFalseHaltHolds ==
  ASSUME OwnRepoScanned, Faults \cap {"probe", "reply", "ledger"} = {}
  PROVE  Spec => []NoFalseHalt
<1> DEFINE Inv == TypeOK /\ FreshInv /\ LedgerInv /\ NoFalseHalt
<1>1. Init => Inv
  BY TypeInit, FreshInit DEF Init, LedgerInv, NoFalseHalt
<1>2. Inv /\ [Next]_vars => Inv'
  BY TypeStep, FreshStep, LedgerInvStep, HaltStep
<1> QED
  BY <1>1, <1>2, PTL DEF Spec
=============================================================================
