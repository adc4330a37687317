----------------------------- MODULE IdPublish -----------------------------
(***************************************************************************)
(* What happens to an allocated id before and while it becomes visible on  *)
(* the remotes: the pre-push recheck (adlc_recheck_id in                   *)
(* partials/id-recheck.sh), the halt it may cause, and `adlc renumber`     *)
(* (tools/adlc/renumber.py), for one id kind.                              *)
(*                                                                         *)
(* An Item is a work item; its session runs on a machine, in a checkout of *)
(* a repository.  Allocation is one step here, with the outcomes that      *)
(* IdAlloc shows it to have: a number past the machine's counter, either   *)
(* reserved by a ref nobody else holds, or not reserved.  The object of a  *)
(* reservation is named by the origin, number and item it was made for:    *)
(* at most one object is ever accepted per origin and number.              *)
(***************************************************************************)
EXTENDS Integers, Sequences, FiniteSets

CONSTANTS
  Machine, Repo, Item,
  MachineOf,      \* [Item -> Machine]
  RepoOf,         \* [Item -> Repo]
  ScanOrder,      \* [Machine -> Seq(Repo)]: the checkouts under ADLC_REPOS_ROOT
  IsReq,          \* kind req: the spec merges first and names itself, a branch resumes
  HasBranches,    \* kinds req and bug
  MaxNum,         \* bound on the numbers of the model
  Faults          \* subset of FaultKind

FaultKind == {"derive", "probe", "push", "reply", "ledger"}

ASSUME PublishAssumption ==
  /\ MachineOf \in [Item -> Machine]
  /\ RepoOf \in [Item -> Repo]
  /\ ScanOrder \in [Machine -> Seq(Repo)]
  /\ IsReq \in BOOLEAN /\ HasBranches \in BOOLEAN /\ (IsReq => HasBranches)
  /\ MaxNum \in Nat
  /\ Faults \subseteq FaultKind

VARIABLES
  counter,        \* per machine: the counter file, the next number
  ledger,         \* per machine: reservations it knows to be its own
  refs,           \* reservations on the origins
  branches,       \* pushed branches
  artifacts,      \* merged artifacts
  pc,
  num,            \* the number the item's artifact carries
  won,            \* the numbers whose reservation it was told to have won
  renumbering,    \* is the walk made for `adlc renumber`?
  target,         \* the number the last halt suggested
  at,             \* next remote call of the derivation or of the walk
  high,           \* adlc_rc_high
  degraded,       \* adlc_rc_degraded
  hitBy,          \* whose footprint the walk took for a collision
  heldBy,         \* history: items that held the number when the check began
  floor           \* history: highest number visible when the check began

machineVars == <<counter, ledger>>
remoteVars  == <<refs, branches, artifacts>>
checkVars   == <<at, high, degraded, hitBy, heldBy, floor>>
itemVars    == <<pc, num, won, renumbering, target>>
vars        == <<machineVars, remoteVars, checkVars, itemVars>>

----------------------------------------------------------------------------
Mark == [repo : Repo, num : Nat, item : Item]      \* a footprint on an origin

MarkOf(p, n) == [repo |-> RepoOf[p], num |-> n, item |-> p]

\* (mutant) Reservations and artifacts listed before branches.
SourcesBranchesLast ==
  IF HasBranches THEN <<"reservations", "artifacts", "branches">>
                 ELSE <<"reservations", "artifacts">>

Sources == IF HasBranches THEN <<"branches", "artifacts", "reservations">>
                          ELSE <<"artifacts", "reservations">>

Marks(source) ==
  CASE source = "branches"     -> branches
    [] source = "artifacts"    -> artifacts
    [] source = "reservations" -> refs

Scan(p)   == ScanOrder[MachineOf[p]]
Scope(p)  == {Scan(p)[i] : i \in DOMAIN Scan(p)}
Calls(p)  == Len(Scan(p)) * Len(Sources)
RepoAt(p)   == Scan(p)[((at[p] - 1) \div Len(Sources)) + 1]
SourceAt(p) == Sources[((at[p] - 1) % Len(Sources)) + 1]
NextRepo(p) == at[p] + Len(Sources) - ((at[p] - 1) % Len(Sources))

Larger(a, b) == IF a >= b THEN a ELSE b
IsListMax(m, S) == m \in S \cup {0} /\ \A n \in S : n <= m

Visible(p) == {x \in branches \cup artifacts \cup refs : x.repo \in Scope(p)}

\* The number a check of p is about.
Checked(p) == IF renumbering[p] THEN target[p] ELSE num[p]

\* The items of other machines with a footprint of n in p's scan root.
\* A reservation of p's own machine is its own (the ledger is machine-wide).
Holders(p, n) ==
  {x.item : x \in {y \in Visible(p) : y.num = n}} \ {q \in Item : MachineOf[q] = MachineOf[p]}

----------------------------------------------------------------------------
Init ==
  /\ counter = [m \in Machine |-> 1]
  /\ ledger = [m \in Machine |-> {}]
  /\ refs = {} /\ branches = {} /\ artifacts = {}
  /\ pc = [p \in Item |-> "none"]
  /\ num = [p \in Item |-> 0]
  /\ won = [p \in Item |-> {}]
  /\ renumbering = [p \in Item |-> FALSE]
  /\ target = [p \in Item |-> 0]
  /\ at = [p \in Item |-> 1]
  /\ high = [p \in Item |-> 0]
  /\ degraded = [p \in Item |-> FALSE]
  /\ hitBy = [p \in Item |-> {}]
  /\ heldBy = [p \in Item |-> {}]
  /\ floor = [p \in Item |-> 0]

Goto(p, from, to) == pc[p] = from /\ pc' = [pc EXCEPT ![p] = to]

(***************************************************************************)
(* adlc_reserve_id for p and number n: the ways it can end.                *)
(***************************************************************************)
Reserved(p, n) == \E x \in refs : x.repo = RepoOf[p] /\ x.num = n

PushWon(p, n) ==
  /\ ~Reserved(p, n)
  /\ refs' = refs \cup {MarkOf(p, n)}
  /\ \/ ledger' = [ledger EXCEPT ![MachineOf[p]] = @ \cup {MarkOf(p, n)}]
     \/ "ledger" \in Faults /\ UNCHANGED ledger
  /\ won' = [won EXCEPT ![p] = @ \cup {n}]

PushDegraded(p, n) ==
  /\ \/ "push" \in Faults /\ UNCHANGED refs
     \/ "reply" \in Faults /\ ~Reserved(p, n) /\ refs' = refs \cup {MarkOf(p, n)}
  /\ UNCHANGED <<ledger, won>>

\* The listings of a derivation, and the numbers heard from those that answered.
Listings(p) == Scope(p) \X {Sources[i] : i \in DOMAIN Sources}
Heard(answered) ==
  UNION {{x.num : x \in {y \in Marks(listing[2]) : y.repo = listing[1]}} : listing \in answered}

\* adlc_alloc_id, in one step: from a derivation all of whose listings answered,
\* or from one that failed in part or altogether, never below the machine's counter.
Allocate(p) ==
  /\ Goto(p, "none", "allocated")
  /\ \E answered \in IF "derive" \in Faults THEN SUBSET Listings(p) ELSE {Listings(p)},
        top \in {x.num : x \in Visible(p)} \cup {0}, n \in 1..MaxNum :
       /\ IsListMax(top, Heard(answered))
       /\ \A k \in Larger(top + 1, counter[MachineOf[p]])..(n - 1) : Reserved(p, k)
       /\ n >= Larger(top + 1, counter[MachineOf[p]])
       /\ PushWon(p, n) \/ PushDegraded(p, n)
       /\ num' = [num EXCEPT ![p] = n]
       /\ counter' = [counter EXCEPT ![MachineOf[p]] = n + 1]
  /\ UNCHANGED <<branches, artifacts, checkVars, renumbering, target>>

\* Kind req: /spec's own PR merges the spec before /proceed starts; after a
\* renumber the next merge replaces the old directory.
MergeSpec(p) ==
  /\ IsReq
  /\ pc[p] = "allocated"
  /\ MarkOf(p, num[p]) \notin artifacts
  /\ artifacts' = {x \in artifacts : x.item # p} \cup {MarkOf(p, num[p])}
  /\ UNCHANGED <<machineVars, refs, branches, checkVars, itemVars>>

----------------------------------------------------------------------------
\* The shell function returned: its variables are gone.
EndCheck(p) ==
  /\ at' = [at EXCEPT ![p] = 1]
  /\ high' = [high EXCEPT ![p] = 0]
  /\ degraded' = [degraded EXCEPT ![p] = FALSE]
  /\ hitBy' = [hitBy EXCEPT ![p] = {}]
  /\ heldBy' = [heldBy EXCEPT ![p] = {}]
  /\ floor' = [floor EXCEPT ![p] = 0]

\* (mutant) Calls counted from zero.
BeginCheckAtZero(p) ==
  /\ at' = [at EXCEPT ![p] = 0]
  /\ high' = [high EXCEPT ![p] = 0]
  /\ degraded' = [degraded EXCEPT ![p] = FALSE]
  /\ hitBy' = [hitBy EXCEPT ![p] = {}]
  /\ UNCHANGED floor

\* A check starts from nothing; floor notes what is visible at this moment.
BeginCheck(p) ==
  /\ at' = [at EXCEPT ![p] = 1]
  /\ high' = [high EXCEPT ![p] = 0]
  /\ degraded' = [degraded EXCEPT ![p] = FALSE]
  /\ hitBy' = [hitBy EXCEPT ![p] = {}]
  /\ \E top \in {x.num : x \in Visible(p)} \cup {0} :
       /\ IsListMax(top, {x.num : x \in Visible(p)})
       /\ floor' = [floor EXCEPT ![p] = top]

\* (mutant) /proceed rechecks without asking for its own branch.
RecheckAlways(p) ==
  /\ Goto(p, "allocated", "derive")
  /\ BeginCheck(p)
  /\ heldBy' = [heldBy EXCEPT ![p] = Holders(p, num[p])]
  /\ renumbering' = [renumbering EXCEPT ![p] = FALSE]
  /\ UNCHANGED <<machineVars, remoteVars, num, won, target>>

\* A pipeline is about to push.  /proceed skips the recheck when the remote says
\* that it already carries this pipeline's own branch; a question that fails reads
\* as no.
Recheck(p) ==
  /\ (IsReq /\ MarkOf(p, num[p]) \in branches) => "probe" \in Faults
  /\ Goto(p, "allocated", "derive")
  /\ BeginCheck(p)
  /\ heldBy' = [heldBy EXCEPT ![p] = Holders(p, num[p])]
  /\ renumbering' = [renumbering EXCEPT ![p] = FALSE]
  /\ UNCHANGED <<machineVars, remoteVars, num, won, target>>

ResumeOwnBranch(p) ==
  /\ IsReq /\ MarkOf(p, num[p]) \in branches
  /\ Goto(p, "allocated", "published")
  /\ UNCHANGED <<machineVars, remoteVars, checkVars, num, won, renumbering, target>>

\* One listing of adlc_remote_high.
Derive(p) ==
  /\ pc[p] = "derive"
  /\ at[p] <= Calls(p)
  /\ LET listed == {x.num : x \in {y \in Marks(SourceAt(p)) : y.repo = RepoAt(p)}}
     IN  \/ \E top \in listed \cup {0} :
              /\ IsListMax(top, listed)
              /\ high' = [high EXCEPT ![p] = Larger(@, top)]
              /\ UNCHANGED degraded
         \/ /\ "derive" \in Faults
            /\ degraded' = [degraded EXCEPT ![p] = TRUE]
            /\ UNCHANGED high
  /\ at' = [at EXCEPT ![p] = @ + 1]
  /\ UNCHANGED <<machineVars, remoteVars, itemVars, hitBy, heldBy, floor>>

\* Where a check that found nothing leads.
Clear(p) == IF renumbering[p] THEN "reserve" ELSE "cleared"

\* A degraded derivation ends the check without looking for the id.
Derived(p) ==
  /\ at[p] > Calls(p)
  /\ LET blind == degraded[p] \/ Calls(p) = 0
     IN  /\ Goto(p, "derive", IF blind THEN Clear(p) ELSE "walk")
         /\ degraded' = [degraded EXCEPT ![p] = blind]
         /\ high' = IF blind THEN [high EXCEPT ![p] = 0] ELSE high
         /\ floor' = IF blind THEN [floor EXCEPT ![p] = 0] ELSE floor
  /\ at' = [at EXCEPT ![p] = 1]
  /\ UNCHANGED <<machineVars, remoteVars, num, won, renumbering, target, hitBy, heldBy>>

(***************************************************************************)
(* The exact-id walk: the same calls again, now looking for one number.    *)
(***************************************************************************)
Here(p) == {x \in Marks(SourceAt(p)) : x.repo = RepoAt(p) /\ x.num = Checked(p)}

\* (mutant) Artifacts compared by number only.
ForeignByNumber(p) ==
  CASE SourceAt(p) = "branches"     -> Here(p)
    [] SourceAt(p) = "artifacts"    -> Here(p)
    [] SourceAt(p) = "reservations" -> Here(p) \ ledger[MachineOf[p]]

\* What the walk takes for a collision: any branch; artifacts, unless all of
\* them bear the caller's own name (the req call site alone passes it); a
\* reservation that is not in this machine's ledger.
Foreign(p) ==
  CASE SourceAt(p) = "branches"     -> Here(p)
    [] SourceAt(p) = "artifacts"    ->
         IF IsReq /\ ~renumbering[p] /\ \A x \in Here(p) : x.item = p THEN {} ELSE Here(p)
    [] SourceAt(p) = "reservations" -> Here(p) \ ledger[MachineOf[p]]

Walking(p) == pc[p] = "walk" /\ at[p] <= Calls(p)

WalkOn(p) ==
  /\ Walking(p)
  /\ Foreign(p) = {}
  /\ at' = [at EXCEPT ![p] = @ + 1]
  /\ UNCHANGED <<machineVars, remoteVars, itemVars, high, degraded, hitBy, heldBy, floor>>

\* (mutant) The number after the colliding one is suggested.
HitSuggestsNext(p, whose) ==
  /\ pc' = [pc EXCEPT ![p] = "halted"]
  /\ hitBy' = [hitBy EXCEPT ![p] = whose]
  /\ target' = IF renumbering[p] THEN target ELSE [target EXCEPT ![p] = num[p] + 1]
  /\ at' = [at EXCEPT ![p] = 1]
  /\ high' = [high EXCEPT ![p] = 0]
  /\ heldBy' = [heldBy EXCEPT ![p] = {}]
  /\ UNCHANGED <<machineVars, remoteVars, num, won, renumbering, degraded, floor>>

\* A collision ends the recheck with the number to renumber to; found by
\* renumber itself, it refuses the new number.
Hit(p, whose) ==
  /\ pc' = [pc EXCEPT ![p] = "halted"]
  /\ hitBy' = [hitBy EXCEPT ![p] = whose]
  /\ target' = IF renumbering[p] THEN target ELSE [target EXCEPT ![p] = high[p] + 1]
  /\ at' = [at EXCEPT ![p] = 1]
  /\ high' = [high EXCEPT ![p] = 0]
  /\ heldBy' = [heldBy EXCEPT ![p] = {}]
  /\ UNCHANGED <<machineVars, remoteVars, num, won, renumbering, degraded, floor>>

WalkHits(p) ==
  /\ Walking(p)
  /\ Foreign(p) # {}
  /\ Hit(p, {x.item : x \in Foreign(p)})

\* A failed ls-remote of the branches skips the repository, a failed artifact
\* or reservation listing counts as an empty one: no warning is printed.
WalkCallFails(p) ==
  /\ "probe" \in Faults
  /\ Walking(p)
  /\ at' = [at EXCEPT ![p] = IF SourceAt(p) = "branches" THEN NextRepo(p) ELSE @ + 1]
  /\ UNCHANGED <<machineVars, remoteVars, itemVars, high, degraded, hitBy, heldBy, floor>>

\* The numbers were listed and ours is there, but the second listing, for the
\* names, fails: no name is our own, and the hit stands.
NamesCallFails(p) ==
  /\ "probe" \in Faults
  /\ Walking(p)
  /\ IsReq /\ ~renumbering[p] /\ SourceAt(p) = "artifacts" /\ Here(p) # {}
  /\ Hit(p, {x.item : x \in Here(p)})

WalkEnds(p) ==
  /\ at[p] > Calls(p)
  /\ Goto(p, "walk", Clear(p))
  /\ at' = [at EXCEPT ![p] = 1]
  /\ high' = [high EXCEPT ![p] = 0]
  /\ floor' = [floor EXCEPT ![p] = 0]
  /\ UNCHANGED <<machineVars, remoteVars, num, won, renumbering, target,
                 degraded, hitBy, heldBy>>

----------------------------------------------------------------------------
\* `adlc renumber <num> <target> --yes`, the command the halt printed.
Renumber(p) ==
  /\ pc[p] \in {"halted", "lost"}
  /\ target[p] \in 1..MaxNum
  /\ target[p] # num[p]
  /\ pc' = [pc EXCEPT ![p] = "derive"]
  /\ renumbering' = [renumbering EXCEPT ![p] = TRUE]
  /\ BeginCheck(p)
  /\ heldBy' = [heldBy EXCEPT ![p] = Holders(p, target[p])]
  /\ UNCHANGED <<machineVars, remoteVars, num, won, target>>

\* reserve_new_id: lost stops, won and degraded go on.
ReserveNew(p) ==
  /\ Goto(p, "reserve", "apply")
  /\ PushWon(p, target[p]) \/ PushDegraded(p, target[p])
  /\ EndCheck(p)
  /\ UNCHANGED <<counter, branches, artifacts, num, renumbering, target>>

\* (mutant) A lost reservation is taken for a won one.
ReserveLostGoesOn(p) ==
  /\ Reserved(p, target[p])
  /\ Goto(p, "reserve", "apply")
  /\ won' = [won EXCEPT ![p] = @ \cup {target[p]}]
  /\ EndCheck(p)
  /\ UNCHANGED <<machineVars, remoteVars, num, renumbering, target>>

ReserveLost(p) ==
  /\ Reserved(p, target[p])
  /\ Goto(p, "reserve", "lost")
  /\ EndCheck(p)
  /\ UNCHANGED <<machineVars, remoteVars, num, won, renumbering, target>>

\* The rename of the artifact and the rewriting of every reference to it.
Apply(p) ==
  /\ Goto(p, "apply", "allocated")
  /\ num' = [num EXCEPT ![p] = target[p]]
  /\ renumbering' = [renumbering EXCEPT ![p] = FALSE]
  /\ target' = [target EXCEPT ![p] = 0]
  /\ UNCHANGED <<machineVars, remoteVars, checkVars, won>>

\* A halted session is started again: the recheck runs once more.
Restart(p) ==
  /\ pc[p] \in {"halted", "lost"}
  /\ pc' = [pc EXCEPT ![p] = "allocated"]
  /\ renumbering' = [renumbering EXCEPT ![p] = FALSE]
  /\ target' = [target EXCEPT ![p] = 0]
  /\ EndCheck(p)
  /\ UNCHANGED <<machineVars, remoteVars, num, won>>

\* A session dies.  A pipeline starts over, a renumber is run again; a req
\* pipeline that died after its push is resumed.
Crash(p) ==
  /\ pc[p] \in {"derive", "walk", "reserve", "apply"} \/ (IsReq /\ pc[p] = "published")
  /\ pc' = [pc EXCEPT ![p] = IF renumbering[p] THEN "halted" ELSE "allocated"]
  /\ EndCheck(p)
  /\ UNCHANGED <<machineVars, remoteVars, num, won, renumbering, target>>

PushBranch(p) ==
  /\ Goto(p, "cleared", "published")
  /\ branches' = IF HasBranches THEN branches \cup {MarkOf(p, num[p])} ELSE branches
  /\ EndCheck(p)
  /\ UNCHANGED <<machineVars, refs, artifacts, num, won, renumbering, target>>

\* The pull request merges: the artifact is on the default branch, its branch goes.
MergePR(p) ==
  /\ Goto(p, "published", "merged")
  /\ artifacts' = {x \in artifacts : x.item # p} \cup {MarkOf(p, num[p])}
  /\ branches' = branches \ {MarkOf(p, num[p])}
  /\ UNCHANGED <<machineVars, refs, checkVars, num, won, renumbering, target>>

Next == \E p \in Item :
  \/ Allocate(p)
  \/ MergeSpec(p)
  \/ Recheck(p)
  \/ ResumeOwnBranch(p)
  \/ Derive(p)
  \/ Derived(p)
  \/ WalkOn(p)
  \/ WalkHits(p)
  \/ WalkCallFails(p)
  \/ NamesCallFails(p)
  \/ WalkEnds(p)
  \/ Renumber(p)
  \/ ReserveNew(p)
  \/ ReserveLost(p)
  \/ Apply(p)
  \/ Restart(p)
  \/ Crash(p)
  \/ PushBranch(p)
  \/ MergePR(p)

Spec == Init /\ [][Next]_vars

----------------------------------------------------------------------------
PC == {"none", "allocated", "derive", "walk", "cleared", "halted",
       "reserve", "lost", "apply", "published", "merged"}

TypeOK ==
  /\ counter \in [Machine -> Nat \ {0}]
  /\ ledger \in [Machine -> SUBSET Mark]
  /\ refs \subseteq Mark /\ branches \subseteq Mark /\ artifacts \subseteq Mark
  /\ pc \in [Item -> PC]
  /\ num \in [Item -> Nat]
  /\ won \in [Item -> SUBSET Nat]
  /\ renumbering \in [Item -> BOOLEAN]
  /\ target \in [Item -> Nat]
  /\ at \in [Item -> Nat \ {0}]
  /\ high \in [Item -> Nat]
  /\ degraded \in [Item -> BOOLEAN]
  /\ hitBy \in [Item -> SUBSET Item]
  /\ heldBy \in [Item -> SUBSET Item]
  /\ floor \in [Item -> Nat]

\* "return 0 -> <ID> is NOT present on any reachable remote, OR the remote was
\* unreachable (degraded: cannot find a collision; warns)" (id-recheck.sh:31):
\* a check that ends without a warning did not miss an item of another machine
\* that had a footprint of the number from its beginning to its end.
QuietMeansFree ==
  \A p \in Item :
    pc[p] \in {"cleared", "reserve"} /\ ~degraded[p]
      => heldBy[p] \cap Holders(p, Checked(p)) = {}

\* The recheck "can only fail to FIND a collision, never invent one"
\* (id-recheck.sh:41): what halts a work item is the footprint of another one.
NoFalseHalt ==
  \A p \in Item : pc[p] = "halted" /\ hitBy[p] # {} => hitBy[p] # {p}

\* The number a halt suggests is above everything that was visible on the
\* scanned origins when the recheck began, whatever merged meanwhile.
FreshTarget ==
  \A p \in Item :
    pc[p] = "halted" /\ ~renumbering[p] => target[p] > floor[p]

\* No number of an origin is won by two work items, by allocation or by
\* renumbering to the number that both were told to take.
WonDistinct ==
  \A p, q \in Item : p # q /\ RepoOf[p] = RepoOf[q] => won[p] \cap won[q] = {}

=============================================================================
