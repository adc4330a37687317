------------------------------ MODULE IdAlloc ------------------------------
(***************************************************************************)
(* Work-item id allocation: adlc_alloc_id and what it calls, in            *)
(* partials/id-alloc.sh, for one id kind (req, bug, lesson or assume).     *)
(*                                                                         *)
(* A Run is one call of adlc_alloc_id: a shell process on a machine,       *)
(* inside a checkout of a repository.  Runs of one machine share the       *)
(* counter file and the mkdir lock under $HOME; runs of all machines share *)
(* the origins: their branches, their merged artifacts and the reservation *)
(* refs refs/adlc/ids/<kind>/<num>.                                        *)
(***************************************************************************)
EXTENDS Integers, Sequences, FiniteSets

CONSTANTS
  Machine,        \* developer machines (for kind assume: clones)
  Repo,           \* repositories, identified with their origin
  Run,            \* calls of adlc_alloc_id
  NoRepo,         \* RepoOf of a run outside any git repository
  MachineOf,      \* [Run -> Machine]
  RepoOf,         \* [Run -> Repo \cup {NoRepo}]: where the run was started
  ScanOrder,      \* [Machine -> Seq(Repo)]: the checkouts under ADLC_REPOS_ROOT
  LocalHigh,      \* [Machine -> Nat]: what the bootstrap scan of the disk finds
  OldBranches,    \* [Repo -> SUBSET Nat]: ids in branches before the first run
  OldArtifacts,   \* [Repo -> SUBSET Nat]: ids merged before the first run
  OldCounters,    \* what a counter file may hold before the first run
  HasBranches,    \* kinds req and bug publish the id in a branch name
  MaxTries,       \* ADLC_RESERVE_MAX_TRIES
  Faults,         \* what can go wrong: subset of FaultKind
  WaitExpires,    \* can the 50 x 0.1s lock wait run out?
  HolderCrashes   \* can a run die inside the critical section?

FaultKind == {"read", "push", "reply", "ledger"}

ASSUME ConstantsAssumption ==
  /\ NoRepo \notin Repo
  /\ MachineOf \in [Run -> Machine]
  /\ RepoOf \in [Run -> Repo \cup {NoRepo}]
  /\ ScanOrder \in [Machine -> Seq(Repo)]
  /\ LocalHigh \in [Machine -> Nat]
  /\ OldBranches \in [Repo -> SUBSET Nat]
  /\ OldArtifacts \in [Repo -> SUBSET Nat]
  /\ OldCounters \subseteq Nat \ {0}
  /\ MaxTries \in Nat \ {0}
  /\ Faults \subseteq FaultKind
  /\ HasBranches \in BOOLEAN
  /\ WaitExpires \in BOOLEAN
  /\ HolderCrashes \in BOOLEAN

VARIABLES
  \* per machine, under $HOME/.claude
  lockdir,        \* does the lock directory exist?
  file,           \* the counter file: absent, empty (truncated) or set
  counter,        \* the number in it
  ledger,         \* own reservations: {[num, obj]}
  \* per origin
  refs,           \* reservation refs: {[repo, num, obj]}
  \* per run
  pc,
  at,             \* next probe of the remote derivation
  high,           \* adlc_rh_max, later REMOTE_HIGH
  degraded,       \* the derivation's second token
  num,            \* ALLOC
  tries,          \* TRIES
  won,            \* RESERVED
  floor           \* history: highest id visible on the scanned origins at start

machineVars == <<lockdir, file, counter, ledger>>
runVars     == <<pc, at, high, degraded, num, tries, won, floor>>
vars        == <<machineVars, refs, runVars>>

----------------------------------------------------------------------------
Ref   == [repo : Repo, num : Nat, obj : Run]
Entry == [num : Nat, obj : Run]

\* (mutant) No nonce: equal candidates make equal objects.
NonceConstant(p) == CHOOSE q \in Run : TRUE

\* The commit object a run pushes.  Its message carries the nonce, so two
\* runs never build the same object for one number.
Nonce(p) == p

(***************************************************************************)
(* The remote derivation asks every origin under the scan root, in glob    *)
(* order, for its branches, then its merged artifacts, then its            *)
(* reservations.  Each answer comes from the remote at the moment of the   *)
(* call, and each call can fail on its own.                                *)
(***************************************************************************)
\* (mutant) Artifacts listed before branches.
SourcesArtifactsFirst == IF HasBranches THEN <<"artifacts", "branches", "reservations">>
                                        ELSE <<"artifacts", "reservations">>

Sources == IF HasBranches THEN <<"branches", "artifacts", "reservations">>
                          ELSE <<"artifacts", "reservations">>

\* The ids of the work items of r whose branch is pushed, or that are merged.
Published(r, stage) == {num[p] : p \in {q \in Run : RepoOf[q] = r /\ pc[q] = stage}}

Listing(r, source) ==
  CASE source = "branches"     -> OldBranches[r] \cup Published(r, "pushed")
    [] source = "artifacts"    -> OldArtifacts[r] \cup Published(r, "merged")
    [] source = "reservations" -> {x.num : x \in {y \in refs : y.repo = r}}

Probes(p) == Len(ScanOrder[MachineOf[p]]) * Len(Sources)
ProbedRepo(p)   == ScanOrder[MachineOf[p]][((at[p] - 1) \div Len(Sources)) + 1]
ProbedSource(p) == Sources[((at[p] - 1) % Len(Sources)) + 1]

Larger(a, b) == IF a >= b THEN a ELSE b

\* adlc_id_list_max: the largest number of a list, 0 for an empty one.
IsListMax(m, S) == m \in S \cup {0} /\ \A n \in S : n <= m

Footprint(m) ==
  UNION {Listing(ScanOrder[m][i], s) : i \in DOMAIN ScanOrder[m],
                                       s \in {Sources[j] : j \in DOMAIN Sources}}

----------------------------------------------------------------------------
Init ==
  /\ lockdir = [m \in Machine |-> FALSE]
  /\ file \in [Machine -> {"absent", "set"}]
  /\ counter \in [Machine -> OldCounters \cup {0}]
  /\ \A m \in Machine : file[m] = "absent" <=> counter[m] = 0
  /\ ledger = [m \in Machine |-> {}]
  /\ refs = {}
  /\ pc = [p \in Run |-> "idle"]
  /\ at = [p \in Run |-> 1]
  /\ high = [p \in Run |-> 0]
  /\ degraded = [p \in Run |-> FALSE]
  /\ num = [p \in Run |-> 0]
  /\ tries = [p \in Run |-> 0]
  /\ won = [p \in Run |-> FALSE]
  /\ floor = [p \in Run |-> 0]

Goto(p, from, to) == pc[p] = from /\ pc' = [pc EXCEPT ![p] = to]

\* A skill calls adlc_alloc_id.
Start(p) ==
  /\ Goto(p, "idle", "scan")
  /\ \E top \in Footprint(MachineOf[p]) \cup {0} :
       /\ IsListMax(top, Footprint(MachineOf[p]))
       /\ floor' = [floor EXCEPT ![p] = top]
  /\ UNCHANGED <<machineVars, refs, at, high, degraded, num, tries, won>>

\* One remote listing of adlc_remote_high.  It runs outside the lock.
Probe(p) ==
  /\ pc[p] = "scan"
  /\ at[p] <= Probes(p)
  /\ \/ \E top \in Listing(ProbedRepo(p), ProbedSource(p)) \cup {0} :
          /\ IsListMax(top, Listing(ProbedRepo(p), ProbedSource(p)))
          /\ high' = [high EXCEPT ![p] = Larger(@, top)]
          /\ UNCHANGED degraded
     \/ /\ "read" \in Faults
        /\ degraded' = [degraded EXCEPT ![p] = TRUE]
        /\ UNCHANGED high
  /\ at' = [at EXCEPT ![p] = @ + 1]
  /\ UNCHANGED <<machineVars, refs, pc, num, tries, won, floor>>

\* adlc_remote_high prints its two tokens; no participating remote is degraded.
Derived(p) ==
  /\ at[p] > Probes(p)
  /\ Goto(p, "scan", "lock")
  /\ degraded' = [degraded EXCEPT ![p] = @ \/ Probes(p) = 0]
  /\ UNCHANGED <<machineVars, refs, at, high, num, tries, won, floor>>

\* (mutant) mkdir -p: succeeds on the directory of another run.
MkdirP(p) ==
  /\ Goto(p, "lock", "check")
  /\ lockdir' = [lockdir EXCEPT ![MachineOf[p]] = TRUE]
  /\ UNCHANGED <<file, counter, ledger, refs,
                 at, high, degraded, num, tries, won, floor>>

\* A mkdir of the wait loop succeeds.
Mkdir(p) ==
  /\ ~lockdir[MachineOf[p]]
  /\ Goto(p, "lock", "check")
  /\ lockdir' = [lockdir EXCEPT ![MachineOf[p]] = TRUE]
  /\ UNCHANGED <<file, counter, ledger, refs,
                 at, high, degraded, num, tries, won, floor>>

\* (mutant) The wait loop has no budget.
WaitForever(p) == FALSE /\ UNCHANGED vars

\* The fiftieth mkdir fails too and the loop ends without the lock.
WaitRunsOut(p) ==
  /\ WaitExpires
  /\ lockdir[MachineOf[p]]
  /\ Goto(p, "lock", "check")
  /\ UNCHANGED <<machineVars, refs,
                 at, high, degraded, num, tries, won, floor>>

\* `[ -d "$LOCK" ] || exit 1`: whoever created the directory.
CheckLock(p) ==
  /\ Goto(p, "check", IF lockdir[MachineOf[p]] THEN "read" ELSE "failed")
  /\ UNCHANGED <<machineVars, refs,
                 at, high, degraded, num, tries, won, floor>>

\* (mutant) The counter is ignored once the remote was read.
CandidateRemoteOnly(p) == high[p] + 1

\* The candidate is one past the higher of the remote and the local high.
Candidate(p) ==
  LET m == MachineOf[p]
      next == IF file[m] = "absent" THEN LocalHigh[m] + 1 ELSE counter[m]
  IN  Larger(high[p], next - 1) + 1

ReadCounter(p) ==
  /\ file[MachineOf[p]] # "empty"
  /\ Goto(p, "read", IF RepoOf[p] = NoRepo THEN "truncate" ELSE "reserve")
  /\ num' = [num EXCEPT ![p] = Candidate(p)]
  /\ UNCHANGED <<machineVars, refs, at, high, degraded, tries, won, floor>>

\* "counter is empty -- aborting (would reset to 1)"
RefuseEmptyCounter(p) ==
  /\ file[MachineOf[p]] = "empty"
  /\ Goto(p, "read", "abort")
  /\ UNCHANGED <<machineVars, refs,
                 at, high, degraded, num, tries, won, floor>>

(***************************************************************************)
(* adlc_reserve_id pushes the run's object to the ref of the candidate.    *)
(* The server creates the ref if it does not exist; a push of the object   *)
(* the ref already names is an up-to-date no-op; any other object is       *)
(* rejected.                                                               *)
(***************************************************************************)
Holder(r, n) == {x.obj : x \in {y \in refs : y.repo = r /\ y.num = n}}
Accepts(r, n, obj) == Holder(r, n) \subseteq {obj}
NewRef(p) == [repo |-> RepoOf[p], num |-> num[p], obj |-> Nonce(p)]

PushWins(p) ==
  /\ Accepts(RepoOf[p], num[p], Nonce(p))
  /\ Goto(p, "reserve", "record")
  /\ refs' = refs \cup {NewRef(p)}
  /\ won' = [won EXCEPT ![p] = TRUE]
  /\ UNCHANGED <<machineVars, at, high, degraded, num, tries, floor>>

\* (mutant) Any output of git push is taken for success.
PushRejectedAsWon(p) ==
  /\ ~Accepts(RepoOf[p], num[p], Nonce(p))
  /\ Goto(p, "reserve", "record")
  /\ won' = [won EXCEPT ![p] = TRUE]
  /\ UNCHANGED <<machineVars, refs, at, high, degraded, num, tries, floor>>

\* (mutant) A lost race is counted twice.
PushRejectedCountedTwice(p) ==
  /\ ~Accepts(RepoOf[p], num[p], Nonce(p))
  /\ Goto(p, "reserve", IF tries[p] + 1 < MaxTries THEN "reserve" ELSE "abort")
  /\ num' = [num EXCEPT ![p] = @ + 1]
  /\ tries' = [tries EXCEPT ![p] = @ + 2]
  /\ UNCHANGED <<machineVars, refs, at, high, degraded, won, floor>>

\* Rejected: try the next number, and give up loudly after MaxTries.
PushRejected(p) ==
  /\ ~Accepts(RepoOf[p], num[p], Nonce(p))
  /\ Goto(p, "reserve", IF tries[p] + 1 < MaxTries THEN "reserve" ELSE "abort")
  /\ num' = [num EXCEPT ![p] = @ + 1]
  /\ tries' = [tries EXCEPT ![p] = @ + 1]
  /\ UNCHANGED <<machineVars, refs, at, high, degraded, won, floor>>

\* (mutant) The ledger is written whatever the push returned.
PushDegradedRecorded(p) ==
  /\ "push" \in Faults
  /\ Goto(p, "reserve", "record")
  /\ UNCHANGED <<machineVars, refs,
                 at, high, degraded, num, tries, won, floor>>

\* Offline, no auth or forbidden: proceed without a reservation.
PushDegraded(p) ==
  /\ "push" \in Faults
  /\ Goto(p, "reserve", "truncate")
  /\ UNCHANGED <<machineVars, refs,
                 at, high, degraded, num, tries, won, floor>>

\* The server created the ref and the connection died before it said so:
\* for the run this is a degraded push like any other.
PushReplyLost(p) ==
  /\ "reply" \in Faults
  /\ Accepts(RepoOf[p], num[p], Nonce(p))
  /\ Goto(p, "reserve", "truncate")
  /\ refs' = refs \cup {NewRef(p)}
  /\ UNCHANGED <<machineVars,
                 at, high, degraded, num, tries, won, floor>>

\* adlc_record_own_reservation: a best-effort append.
RecordOwn(p) ==
  /\ Goto(p, "record", "truncate")
  /\ \/ ledger' = [ledger EXCEPT ![MachineOf[p]] =
                     @ \cup {[num |-> num[p], obj |-> Nonce(p)]}]
     \/ "ledger" \in Faults /\ UNCHANGED ledger
  /\ UNCHANGED <<lockdir, file, counter, refs,
                 at, high, degraded, num, tries, won, floor>>

\* `echo $(( ALLOC + 1 )) > "$COUNTER"` first truncates the file ...
Truncate(p) ==
  /\ Goto(p, "truncate", "write")
  /\ file' = [file EXCEPT ![MachineOf[p]] = "empty"]
  /\ UNCHANGED <<lockdir, counter, ledger, refs,
                 at, high, degraded, num, tries, won, floor>>

\* (mutant) The allocated number is written, not the next one.
WriteAllocated(p) ==
  /\ Goto(p, "write", "unlock")
  /\ file' = [file EXCEPT ![MachineOf[p]] = "set"]
  /\ counter' = [counter EXCEPT ![MachineOf[p]] = num[p]]
  /\ UNCHANGED <<lockdir, ledger, refs,
                 at, high, degraded, num, tries, won, floor>>

\* ... and then writes the number.
Write(p) ==
  /\ Goto(p, "write", "unlock")
  /\ file' = [file EXCEPT ![MachineOf[p]] = "set"]
  /\ counter' = [counter EXCEPT ![MachineOf[p]] = num[p] + 1]
  /\ UNCHANGED <<lockdir, ledger, refs,
                 at, high, degraded, num, tries, won, floor>>

\* rmdir removes the directory, whoever created it; the run prints ALLOC.
Unlock(p) ==
  /\ Goto(p, "unlock", "done")
  /\ lockdir' = [lockdir EXCEPT ![MachineOf[p]] = FALSE]
  /\ UNCHANGED <<file, counter, ledger, refs,
                 at, high, degraded, num, tries, won, floor>>

\* (mutant) The error exit forgets the rmdir.
AbortKeepsLock(p) ==
  /\ Goto(p, "abort", "failed")
  /\ UNCHANGED <<machineVars, refs,
                 at, high, degraded, num, tries, won, floor>>

\* The rmdir of the error exits.
AbortUnlock(p) ==
  /\ Goto(p, "abort", "failed")
  /\ lockdir' = [lockdir EXCEPT ![MachineOf[p]] = FALSE]
  /\ UNCHANGED <<file, counter, ledger, refs,
                 at, high, degraded, num, tries, won, floor>>

----------------------------------------------------------------------------
Critical == {"read", "reserve", "record", "truncate", "write", "unlock", "abort"}
Inside   == {"check"} \cup Critical    \* between mkdir and rmdir
Running  == {"scan", "lock"} \cup Inside
Returned == {"done", "pushed", "merged"}
PC       == {"idle", "failed", "crashed"} \cup Running \cup Returned

\* The shell dies: everything it left behind stays.
Crash(p) ==
  /\ pc[p] \in Running
  /\ HolderCrashes \/ pc[p] \in {"scan", "lock"}
  /\ pc' = [pc EXCEPT ![p] = "crashed"]
  /\ UNCHANGED <<machineVars, refs,
                 at, high, degraded, num, tries, won, floor>>

\* The work item's life after allocation: its branch is pushed, and when it
\* merges the artifact appears on the default branch and the branch goes.
PushBranch(p) ==
  /\ RepoOf[p] # NoRepo
  /\ Goto(p, "done", "pushed")
  /\ UNCHANGED <<machineVars, refs,
                 at, high, degraded, num, tries, won, floor>>

Merge(p) ==
  /\ Goto(p, "pushed", "merged")
  /\ UNCHANGED <<machineVars, refs,
                 at, high, degraded, num, tries, won, floor>>

----------------------------------------------------------------------------
Reserve(p) ==
  \/ PushWins(p)
  \/ PushRejected(p)
  \/ PushDegraded(p)
  \/ PushReplyLost(p)

\* What the shell does by itself once it was called.
Step(p) ==
  \/ Probe(p)
  \/ Derived(p)
  \/ Mkdir(p)
  \/ WaitRunsOut(p)
  \/ CheckLock(p)
  \/ ReadCounter(p)
  \/ RefuseEmptyCounter(p)
  \/ Reserve(p)
  \/ RecordOwn(p)
  \/ Truncate(p)
  \/ Write(p)
  \/ Unlock(p)
  \/ AbortUnlock(p)

Next == \E p \in Run :
  \/ Start(p)
  \/ Step(p)
  \/ Crash(p)
  \/ PushBranch(p)
  \/ Merge(p)

Spec == Init /\ [][Next]_vars

\* A shell that was started keeps running: every loop of it is bounded and
\* every network call returns (GIT_TERMINAL_PROMPT=0).
FairSpec == Spec /\ \A p \in Run : WF_vars(Step(p))

----------------------------------------------------------------------------
TypeOK ==
  /\ lockdir \in [Machine -> BOOLEAN]
  /\ file \in [Machine -> {"absent", "empty", "set"}]
  /\ counter \in [Machine -> Nat]
  /\ ledger \in [Machine -> SUBSET Entry]
  /\ refs \subseteq Ref
  /\ pc \in [Run -> PC]
  /\ at \in [Run -> Nat \ {0}]
  /\ high \in [Run -> Nat]
  /\ degraded \in [Run -> BOOLEAN]
  /\ num \in [Run -> Nat]
  /\ tries \in [Run -> 0..MaxTries]
  /\ won \in [Run -> BOOLEAN]
  /\ floor \in [Run -> Nat]

SameMachine(p, q) == MachineOf[p] = MachineOf[q]

\* The comment over the lock's guard (id-alloc.sh:611-613): a contended lock
\* never lets two runs of one machine into the critical section together.
MutualExclusion ==
  \A p, q \in Run :
    p # q /\ SameMachine(p, q) => ~(pc[p] \in Critical /\ pc[q] \in Critical)

\* Two runs of one machine never return the same number, reserved or not and
\* whatever the network did ("prevents concurrent /sprint pipelines from
\* double-allocating ids", architecture.md:118).
SameMachineDistinct ==
  \A p, q \in Run :
    p # q /\ SameMachine(p, q) /\ pc[p] \in Returned /\ pc[q] \in Returned
      => num[p] # num[q]

\* First-wins reservation: two runs that were told they won a number on the
\* same origin hold different numbers, on whichever machines they run.
ReservedDistinct ==
  \A p, q \in Run :
    p # q /\ RepoOf[p] = RepoOf[q] /\ won[p] /\ won[q] => num[p] # num[q]

\* A run whose derivation was not degraded returns a number above everything
\* that was visible on the scanned origins when it was called, although
\* branches turned into merged artifacts while it was scanning.
FreshAboveFloor ==
  \A p \in Run : pc[p] \in Returned /\ ~degraded[p] => num[p] > floor[p]

\* No machine takes a foreign reservation for its own: every ledger line names
\* an object that a run of this machine put on an origin.
LedgerSound ==
  \A m \in Machine : \A e \in ledger[m] :
    /\ \E x \in refs : x.num = e.num /\ x.obj = e.obj
    /\ \E p \in Run : Nonce(p) = e.obj /\ MachineOf[p] = m

\* Every way out of the allocator removes the lock directory: as long as nobody
\* dies inside, a lock directory means that somebody is between mkdir and rmdir.
NoLeakedLock ==
  \A m \in Machine : lockdir[m] =>
    \E p \in Run : MachineOf[p] = m /\ pc[p] \in Inside

\* The counter file never regresses and never disappears.
CounterGrows ==
  \A m \in Machine : /\ counter'[m] >= counter[m]
                     /\ file[m] # "absent" => file'[m] # "absent"

CounterMonotone == [][CounterGrows]_vars

\* The reservation protocol implements the atomic claim.
Claims == INSTANCE IdClaim WITH claim <- [p \in Run |-> IF won[p] THEN num[p] ELSE 0]

ClaimSpec == Claims!ClaimSpec

\* Every run that was started ends, even behind the lock of a dead process.
RunsEnd ==
  \A p \in Run :
    pc[p] = "scan" ~> pc[p] \in Returned \cup {"failed", "crashed"}

=============================================================================
