--------------------------- MODULE IdAllocProofs ---------------------------
(***************************************************************************)
(* Theorems about IdAlloc, for every set of machines, repositories and     *)
(* runs, every bound and every combination of faults.                      *)
(***************************************************************************)
EXTENDS IdAlloc, TLAPS

----------------------------------------------------------------------------
LEMMA RunPlace == \A p \in Run : MachineOf[p] \in Machine /\ RepoOf[p] \in Repo \cup {NoRepo}
BY ConstantsAssumption

LEMMA MaxTriesPositive == MaxTries \in Nat /\ MaxTries > 0
BY ConstantsAssumption

\* A probe always names a source, so what it lists is a set of numbers.
LEMMA ListingNat ==
  ASSUME TypeOK, NEW r, r \in Repo, NEW s \in {"branches", "artifacts", "reservations"}
  PROVE  Listing(r, s) \subseteq Nat
BY ConstantsAssumption DEF TypeOK, Listing, Published, Ref

LEMMA SourcesLen ==
  /\ Len(Sources) \in {2, 3}
  /\ \A j \in 1..Len(Sources) : Sources[j] \in {"branches", "artifacts", "reservations"}
BY DEF Sources

LEMMA ProbedOK ==
  ASSUME TypeOK, NEW p \in Run, at[p] <= Probes(p)
  PROVE  /\ ProbedRepo(p) \in Repo
         /\ ProbedSource(p) \in {"branches", "artifacts", "reservations"}
<1> DEFINE order == ScanOrder[MachineOf[p]]
<1>1. order \in Seq(Repo) /\ Len(order) \in Nat
  BY ConstantsAssumption
<1>2. at[p] \in Nat /\ at[p] >= 1 /\ at[p] <= Len(order) * Len(Sources)
  BY DEF TypeOK, Probes
<1>3. ((at[p] - 1) \div Len(Sources)) + 1 \in 1..Len(order)
  <2>1. CASE Len(Sources) = 2
    BY <2>1, <1>1, <1>2
  <2>2. CASE Len(Sources) = 3
    BY <2>2, <1>1, <1>2
  <2>3. QED
    BY <2>1, <2>2, SourcesLen
<1>4. ((at[p] - 1) % Len(Sources)) + 1 \in 1..Len(Sources)
  <2>1. CASE Len(Sources) = 2
    BY <2>1, <1>2
  <2>2. CASE Len(Sources) = 3
    BY <2>2, <1>2
  <2>3. QED
    BY <2>1, <2>2, SourcesLen
<1>5. ProbedRepo(p) \in Repo
  <2>1. order[((at[p] - 1) \div Len(Sources)) + 1] \in Repo
    BY <1>1, <1>3
  <2>2. QED
    BY <2>1 DEF ProbedRepo
<1>6. ProbedSource(p) \in {"branches", "artifacts", "reservations"}
  BY <1>4, SourcesLen DEF ProbedSource
<1>7. QED
  BY <1>5, <1>6

LEMMA FootprintNat ==
  ASSUME TypeOK, NEW m \in Machine
  PROVE  Footprint(m) \subseteq Nat
<1>1. \A i \in DOMAIN ScanOrder[m] : ScanOrder[m][i] \in Repo
  BY ConstantsAssumption
<1>2. \A j \in DOMAIN Sources : Sources[j] \in {"branches", "artifacts", "reservations"}
  BY DEF Sources
<1>3. QED
  BY <1>1, <1>2, ListingNat DEF Footprint

----------------------------------------------------------------------------
\* The retry loop runs while TRIES < MAXTRIES, so TypeOK's bound on tries needs
\* to know where a run is.
TriesInv ==
  \A p \in Run :
    /\ pc[p] \in {"idle", "scan", "lock", "check", "read"} => tries[p] = 0
    /\ pc[p] = "reserve" => tries[p] < MaxTries /\ RepoOf[p] # NoRepo

LEMMA InitTypeOK == Init => TypeOK /\ TriesInv
<1> SUFFICES ASSUME Init PROVE TypeOK /\ TriesInv
  OBVIOUS
<1> USE ConstantsAssumption DEF Init
<1>1. lockdir \in [Machine -> BOOLEAN] /\ file \in [Machine -> {"absent", "empty", "set"}]
  OBVIOUS
<1>2. counter \in [Machine -> Nat] /\ ledger \in [Machine -> SUBSET Entry]
  <2>1. OldCounters \cup {0} \subseteq Nat
    OBVIOUS
  <2>2. QED
    BY <2>1
<1>3. pc \in [Run -> PC]
  BY DEF PC
<1>4. /\ at \in [Run -> Nat \ {0}] /\ high \in [Run -> Nat]
      /\ num \in [Run -> Nat] /\ floor \in [Run -> Nat] /\ tries \in [Run -> 0..MaxTries]
  OBVIOUS
<1>5. degraded \in [Run -> BOOLEAN] /\ won \in [Run -> BOOLEAN] /\ refs \subseteq Ref
  OBVIOUS
<1>6. TriesInv
  BY DEF TriesInv
<1>7. QED
  BY <1>1, <1>2, <1>3, <1>4, <1>5, <1>6 DEF TypeOK

LEMMA NextTypeOK == TypeOK /\ TriesInv /\ [Next]_vars => TypeOK' /\ TriesInv'
<1> SUFFICES ASSUME TypeOK, TriesInv, [Next]_vars PROVE TypeOK' /\ TriesInv'
  OBVIOUS
<1> USE RunPlace DEF TriesInv
<1>1. CASE UNCHANGED vars
  BY <1>1 DEF TypeOK, vars, machineVars, runVars
<1>2. ASSUME NEW p \in Run, Start(p) PROVE TypeOK' /\ TriesInv'
  <2>1. floor' \in [Run -> Nat]
    BY <1>2, FootprintNat DEF Start, TypeOK
  <2>2. QED
    BY <1>2, <2>1 DEF Start, Goto, TypeOK, machineVars, PC, Running, Inside
<1>3. ASSUME NEW p \in Run, Probe(p) PROVE TypeOK' /\ TriesInv'
  <2>1. Listing(ProbedRepo(p), ProbedSource(p)) \subseteq Nat
    BY <1>3, ProbedOK, ListingNat DEF Probe
  <2>2. high' \in [Run -> Nat]
    <3>1. CASE UNCHANGED high
      BY <3>1 DEF TypeOK
    <3>2. ASSUME NEW top \in Listing(ProbedRepo(p), ProbedSource(p)) \cup {0},
                 high' = [high EXCEPT ![p] = Larger(high[p], top)]
          PROVE  high' \in [Run -> Nat]
      <4>1. Larger(high[p], top) \in Nat
        BY <2>1 DEF TypeOK, Larger
      <4>2. QED
        BY <3>2, <4>1 DEF TypeOK
    <3>3. QED
      BY <1>3, <3>1, <3>2 DEF Probe
  <2>3. degraded' \in [Run -> BOOLEAN]
    BY <1>3 DEF Probe, TypeOK
  <2>4. QED
    BY <1>3, <2>2, <2>3 DEF Probe, TypeOK, machineVars
<1>4. ASSUME NEW p \in Run, Derived(p) PROVE TypeOK' /\ TriesInv'
  <2>1. degraded' \in [Run -> BOOLEAN]
    BY <1>4 DEF Derived, TypeOK
  <2>2. QED
    BY <1>4, <2>1 DEF Derived, Goto, TypeOK, machineVars, PC, Running, Inside
<1>5. ASSUME NEW p \in Run, Mkdir(p) \/ WaitRunsOut(p) \/ CheckLock(p)
      PROVE  TypeOK' /\ TriesInv'
  BY <1>5 DEF Mkdir, WaitRunsOut, CheckLock, Goto, TypeOK, machineVars, PC, Running, Inside, Critical
<1>6. ASSUME NEW p \in Run, ReadCounter(p) PROVE TypeOK' /\ TriesInv'
  <2>1. Candidate(p) \in Nat
    BY ConstantsAssumption DEF TypeOK, Candidate, Larger
  <2>2. num' \in [Run -> Nat]
    BY <1>6, <2>1 DEF ReadCounter, TypeOK
  <2>3. QED
    BY <1>6, <2>2, MaxTriesPositive DEF ReadCounter, Goto, TypeOK, machineVars, PC, Running, Inside, Critical
<1>7. ASSUME NEW p \in Run, RefuseEmptyCounter(p) PROVE TypeOK' /\ TriesInv'
  BY <1>7 DEF RefuseEmptyCounter, Goto, TypeOK, machineVars, PC, Running, Inside, Critical
<1>8. ASSUME NEW p \in Run, PushWins(p) \/ PushReplyLost(p) PROVE TypeOK' /\ TriesInv'
  <2>1. pc[p] = "reserve" /\ refs' = refs \cup {NewRef(p)} /\ UNCHANGED <<machineVars, num>>
    BY <1>8 DEF PushWins, PushReplyLost, Goto
  <2>2. RepoOf[p] \in Repo => NewRef(p) \in Ref
    BY DEF NewRef, Ref, Nonce, TypeOK
  <2>3. RepoOf[p] \in Repo
    BY <2>1
  <2>4. QED
    BY <1>8, <2>1, <2>2, <2>3
       DEF PushWins, PushReplyLost, Goto, TypeOK, machineVars, PC, Running, Inside, Critical
<1>9. ASSUME NEW p \in Run, PushRejected(p) PROVE TypeOK' /\ TriesInv'
  <2>1. pc[p] = "reserve" /\ tries[p] < MaxTries /\ tries[p] \in Nat
    BY <1>9, MaxTriesPositive DEF PushRejected, Goto, TypeOK
  <2>2. tries' \in [Run -> 0..MaxTries]
    BY <1>9, <2>1, MaxTriesPositive DEF PushRejected, TypeOK
  <2>3. num' \in [Run -> Nat] /\ pc' \in [Run -> PC]
    BY <1>9 DEF PushRejected, Goto, TypeOK, PC, Running, Inside, Critical
  <2>4. TriesInv'
    BY <1>9, <2>1 DEF PushRejected, Goto, TypeOK
  <2>5. QED
    BY <1>9, <2>2, <2>3, <2>4 DEF PushRejected, TypeOK, machineVars
<1>10. ASSUME NEW p \in Run, PushDegraded(p) PROVE TypeOK' /\ TriesInv'
  BY <1>10 DEF PushDegraded, Goto, TypeOK, machineVars, PC, Running, Inside, Critical
<1>11. ASSUME NEW p \in Run, RecordOwn(p) PROVE TypeOK' /\ TriesInv'
  <2>1. [num |-> num[p], obj |-> Nonce(p)] \in Entry
    BY DEF TypeOK, Entry, Nonce
  <2>2. ledger' \in [Machine -> SUBSET Entry]
    BY <1>11, <2>1 DEF RecordOwn, TypeOK
  <2>3. QED
    BY <1>11, <2>2 DEF RecordOwn, Goto, TypeOK, PC, Running, Inside, Critical
<1>12. ASSUME NEW p \in Run, Truncate(p) \/ Write(p) PROVE TypeOK' /\ TriesInv'
  <2>1. file' \in [Machine -> {"absent", "empty", "set"}]
    BY <1>12 DEF Truncate, Write, TypeOK
  <2>2. counter' \in [Machine -> Nat]
    BY <1>12 DEF Truncate, Write, TypeOK
  <2>3. QED
    BY <1>12, <2>1, <2>2 DEF Truncate, Write, Goto, TypeOK, PC, Running, Inside, Critical
<1>13. ASSUME NEW p \in Run, Unlock(p) \/ AbortUnlock(p) PROVE TypeOK' /\ TriesInv'
  BY <1>13 DEF Unlock, AbortUnlock, Goto, TypeOK, PC, Returned
<1>14. ASSUME NEW p \in Run, Crash(p) \/ PushBranch(p) \/ Merge(p)
       PROVE  TypeOK' /\ TriesInv'
  BY <1>14 DEF Crash, PushBranch, Merge, Goto, TypeOK, machineVars, PC, Returned
<1>15. QED
  BY <1>1, <1>2, <1>3, <1>4, <1>5, <1>6, <1>7, <1>8, <1>9, <1>10, <1>11, <1>12,
     <1>13, <1>14 DEF Next, Step, Reserve

\* Type correctness: every variable keeps its type, whatever fails.
THEOREM TypeCorrect == Spec => [](TypeOK /\ TriesInv)
BY InitTypeOK, NextTypeOK, PTL DEF Spec

----------------------------------------------------------------------------
\* What the lock directory means when no wait runs out: a run inside holds it,
\* and it is the only one of its machine.
LockInv ==
  /\ \A p \in Run : pc[p] \in Inside => lockdir[MachineOf[p]]
  /\ \A p, q \in Run :
       p # q /\ SameMachine(p, q) => ~(pc[p] \in Inside /\ pc[q] \in Inside)

\* Steps that neither enter nor leave the region between mkdir and rmdir.
StaysPut(p) ==
  /\ lockdir' = lockdir
  /\ \E to \in PC : /\ pc' = [pc EXCEPT ![p] = to]
                    /\ to \in Inside => pc[p] \in Inside

LEMMA StaysPutKeepsLock ==
  ASSUME TypeOK, LockInv, NEW p \in Run, StaysPut(p)
  PROVE  LockInv'
BY RunPlace DEF TypeOK, LockInv, StaysPut, SameMachine

LEMMA StepsStayPut ==
  ASSUME TypeOK, NEW p \in Run,
         \/ Start(p) \/ Probe(p) \/ Derived(p) \/ CheckLock(p) \/ ReadCounter(p)
         \/ RefuseEmptyCounter(p) \/ Reserve(p) \/ RecordOwn(p) \/ Truncate(p)
         \/ Write(p) \/ Crash(p) \/ PushBranch(p) \/ Merge(p)
  PROVE  StaysPut(p)
<1> USE DEF StaysPut, PC, Running, Inside, Critical, Returned
<1>1. CASE Probe(p)
  <2>1. pc' = [pc EXCEPT ![p] = pc[p]] /\ pc[p] \in PC
    BY <1>1 DEF Probe, TypeOK
  <2>2. QED
    BY <1>1, <2>1 DEF Probe, machineVars
<1>2. CASE Start(p) \/ Derived(p) \/ CheckLock(p)
  BY <1>2 DEF Start, Derived, CheckLock, Goto, machineVars
<1>3. CASE ReadCounter(p) \/ RefuseEmptyCounter(p)
  BY <1>3 DEF ReadCounter, RefuseEmptyCounter, Goto, machineVars
<1>4. CASE Reserve(p)
  BY <1>4 DEF Reserve, PushWins, PushRejected, PushDegraded, PushReplyLost, Goto, machineVars
<1>5. CASE RecordOwn(p) \/ Truncate(p) \/ Write(p)
  BY <1>5 DEF RecordOwn, Truncate, Write, Goto
<1>6. CASE Crash(p) \/ PushBranch(p) \/ Merge(p)
  BY <1>6 DEF Crash, PushBranch, Merge, Goto, machineVars
<1>7. QED
  BY <1>1, <1>2, <1>3, <1>4, <1>5, <1>6

LEMMA NextLockInv ==
  ASSUME ~WaitExpires, TypeOK, LockInv, [Next]_vars
  PROVE  LockInv'
<1>1. CASE UNCHANGED vars
  BY <1>1 DEF LockInv, vars, machineVars, runVars
<1>2. ASSUME NEW p \in Run, StaysPut(p) PROVE LockInv'
  BY <1>2, StaysPutKeepsLock
<1>3. ASSUME NEW p \in Run, Mkdir(p) PROVE LockInv'
  <2>1. \A q \in Run : SameMachine(p, q) => pc[q] \notin Inside
    BY <1>3, RunPlace DEF Mkdir, LockInv, SameMachine
  <2>2. QED
    BY <1>3, <2>1, RunPlace DEF Mkdir, Goto, LockInv, SameMachine, TypeOK
<1>4. ASSUME NEW p \in Run, Unlock(p) \/ AbortUnlock(p) PROVE LockInv'
  <2>1. pc[p] \in Inside /\ pc'[p] \notin Inside
    BY <1>4 DEF Unlock, AbortUnlock, Goto, TypeOK, Inside, Critical
  <2>2. \A q \in Run \ {p} : SameMachine(p, q) => pc[q] \notin Inside
    BY <2>1 DEF LockInv
  <2>3. QED
    BY <1>4, <2>1, <2>2, RunPlace
       DEF Unlock, AbortUnlock, Goto, LockInv, SameMachine, TypeOK
<1>5. ASSUME NEW p \in Run, WaitRunsOut(p) PROVE LockInv'
  BY <1>5 DEF WaitRunsOut
<1>6. QED
  BY <1>1, <1>2, <1>3, <1>4, <1>5, StepsStayPut DEF Next, Step

\* The lock serializes the runs of one machine, crashes of the holder included,
\* as long as the five-second wait never runs out.
THEOREM MutualExclusionHolds ==
  ASSUME ~WaitExpires
  PROVE  Spec => []MutualExclusion
<1>1. Init => LockInv
  BY DEF Init, LockInv, Inside, Critical
<1>2. TypeOK /\ LockInv /\ [Next]_vars => LockInv'
  BY NextLockInv
<1>3. LockInv => MutualExclusion
  BY DEF LockInv, MutualExclusion, Inside
<1>4. QED
  BY <1>1, <1>2, <1>3, TypeCorrect, PTL DEF Spec

----------------------------------------------------------------------------
\* What the per-machine counter means: it is past every number its machine has
\* written, and not past the candidate of a run that has read it.
Holding == {"reserve", "record", "truncate", "write"}
Past    == {"unlock"} \cup Returned

CounterInv ==
  /\ \A m \in Machine : file[m] = "absent" => counter[m] = 0
  /\ \A p \in Run : pc[p] \in Holding => counter[MachineOf[p]] <= num[p]
  /\ \A p \in Run : pc[p] \in Past =>
       file[MachineOf[p]] # "absent" /\ num[p] < counter[MachineOf[p]]
  /\ \A p, q \in Run :
       p # q /\ SameMachine(p, q) /\ pc[p] \in Past /\ pc[q] \in Past => num[p] # num[q]

\* Steps that touch neither the counter nor the number of a run that holds one.
KeepsCounter(p) ==
  /\ UNCHANGED <<file, counter>>
  /\ \E to \in PC : /\ pc' = [pc EXCEPT ![p] = to]
                    /\ to \in Holding => pc[p] \in Holding
                    /\ to \in Past => pc[p] \in Past
  /\ \A q \in Run \ {p} : num'[q] = num[q]
  /\ num'[p] = num[p] \/ (pc[p] \in Holding /\ num'[p] = num[p] + 1)

LEMMA KeepsCounterInv ==
  ASSUME TypeOK, CounterInv, NEW p \in Run, KeepsCounter(p), num' \in [Run -> Nat]
  PROVE  CounterInv'
<1> USE RunPlace DEF KeepsCounter, Holding, Past, Returned
<1>1. \A m \in Machine : file'[m] = "absent" => counter'[m] = 0
  BY DEF CounterInv
<1>2. \A q \in Run : pc'[q] \in Holding => pc[q] \in Holding /\ num[q] <= num'[q]
  BY DEF TypeOK
<1>3. \A q \in Run : pc'[q] \in Past => pc[q] \in Past /\ num[q] = num'[q]
  BY DEF TypeOK
<1>4. \A q \in Run : counter'[MachineOf[q]] = counter[MachineOf[q]] /\ counter[MachineOf[q]] \in Nat
  BY DEF TypeOK
<1>5. \A q \in Run : pc'[q] \in Holding => counter'[MachineOf[q]] <= num'[q]
  BY <1>2, <1>4 DEF CounterInv, TypeOK
<1>6. \A q \in Run : pc'[q] \in Past =>
        file'[MachineOf[q]] # "absent" /\ num'[q] < counter'[MachineOf[q]]
  BY <1>3, <1>4 DEF CounterInv
<1>7. \A q, r \in Run :
        q # r /\ SameMachine(q, r) /\ pc'[q] \in Past /\ pc'[r] \in Past => num'[q] # num'[r]
  BY <1>3 DEF CounterInv
<1>8. QED
  BY <1>1, <1>5, <1>6, <1>7 DEF CounterInv, SameMachine

LEMMA StepsKeepCounter ==
  ASSUME TypeOK, NEW p \in Run,
         \/ Start(p) \/ Probe(p) \/ Derived(p) \/ Mkdir(p) \/ WaitRunsOut(p)
         \/ CheckLock(p) \/ RefuseEmptyCounter(p) \/ Reserve(p) \/ RecordOwn(p)
         \/ Unlock(p) \/ AbortUnlock(p) \/ Crash(p) \/ PushBranch(p) \/ Merge(p)
  PROVE  KeepsCounter(p)
<1> USE DEF KeepsCounter, Holding, Past, PC, Running, Inside, Critical, Returned
<1>1. CASE Probe(p)
  <2>1. pc' = [pc EXCEPT ![p] = pc[p]] /\ pc[p] \in PC
    BY <1>1 DEF Probe, TypeOK
  <2>2. QED
    BY <1>1, <2>1 DEF Probe, machineVars
<1>2. CASE Start(p) \/ Derived(p) \/ Mkdir(p) \/ WaitRunsOut(p) \/ CheckLock(p)
  BY <1>2 DEF Start, Derived, Mkdir, WaitRunsOut, CheckLock, Goto, machineVars
<1>3. CASE RefuseEmptyCounter(p) \/ RecordOwn(p)
  BY <1>3 DEF RefuseEmptyCounter, RecordOwn, Goto, machineVars
<1>4. CASE PushRejected(p)
  <2>1. \E to \in {"reserve", "abort"} : pc' = [pc EXCEPT ![p] = to]
    BY <1>4 DEF PushRejected, Goto
  <2>2. pc[p] = "reserve" /\ UNCHANGED <<file, counter>> /\ num' = [num EXCEPT ![p] = @ + 1]
    BY <1>4 DEF PushRejected, Goto, machineVars
  <2>3. num \in [Run -> Nat]
    BY DEF TypeOK
  <2>4. QED
    BY <2>1, <2>2, <2>3
<1>5. CASE PushWins(p) \/ PushDegraded(p) \/ PushReplyLost(p)
  BY <1>5 DEF PushWins, PushDegraded, PushReplyLost, Goto, machineVars
<1>6. CASE Unlock(p) \/ AbortUnlock(p) \/ Crash(p) \/ PushBranch(p) \/ Merge(p)
  BY <1>6 DEF Unlock, AbortUnlock, Crash, PushBranch, Merge, Goto, machineVars
<1>7. QED
  BY <1>1, <1>2, <1>3, <1>4, <1>5, <1>6 DEF Reserve

LEMMA CandidateAboveCounter ==
  ASSUME TypeOK, CounterInv, NEW p \in Run, file[MachineOf[p]] # "empty"
  PROVE  Candidate(p) \in Nat /\ Candidate(p) >= 1 /\ counter[MachineOf[p]] <= Candidate(p)
<1>1. counter[MachineOf[p]] \in Nat /\ high[p] \in Nat /\ LocalHigh[MachineOf[p]] \in Nat
  BY RunPlace, ConstantsAssumption DEF TypeOK
<1>2. file[MachineOf[p]] = "absent" => counter[MachineOf[p]] = 0
  BY RunPlace DEF CounterInv
<1>3. QED
  BY <1>1, <1>2 DEF Candidate, Larger

LEMMA NextCounterInv ==
  ASSUME TypeOK, TypeOK', LockInv, CounterInv, [Next]_vars
  PROVE  CounterInv'
<1> USE RunPlace
<1>1. CASE UNCHANGED vars
  BY <1>1 DEF CounterInv, SameMachine, vars, machineVars, runVars
<1>2. ASSUME NEW p \in Run, KeepsCounter(p) PROVE CounterInv'
  BY <1>2, KeepsCounterInv DEF TypeOK
<1>3. ASSUME NEW p \in Run, ReadCounter(p) PROVE CounterInv'
  <2>1. counter[MachineOf[p]] <= Candidate(p)
    BY <1>3, CandidateAboveCounter DEF ReadCounter
  <2>2. QED
    BY <1>3, <2>1
       DEF ReadCounter, Goto, CounterInv, TypeOK, machineVars, Holding, Past, Returned, SameMachine
<1>4. ASSUME NEW p \in Run, Truncate(p) PROVE CounterInv'
  BY <1>4 DEF Truncate, Goto, CounterInv, TypeOK, Holding, Past, Returned, SameMachine
<1>5. ASSUME NEW p \in Run, Write(p) PROVE CounterInv'
  <2>1. pc[p] = "write" /\ counter[MachineOf[p]] <= num[p] /\ num[p] \in Nat
    BY <1>5 DEF Write, Goto, CounterInv, TypeOK, Holding
  <2>2. \A q \in Run \ {p} : SameMachine(p, q) => pc[q] \notin Holding
    BY <2>1 DEF LockInv, Inside, Critical, Holding
  <2>3. counter' = [counter EXCEPT ![MachineOf[p]] = num[p] + 1]
        /\ file' = [file EXCEPT ![MachineOf[p]] = "set"]
        /\ pc' = [pc EXCEPT ![p] = "unlock"] /\ num' = num
    BY <1>5 DEF Write, Goto
  <2>4. \A q \in Run \ {p} : SameMachine(p, q) /\ pc[q] \in Past => num[q] < num[p]
    BY <2>1 DEF CounterInv, SameMachine, TypeOK
  <2>5. \A m \in Machine : file'[m] = "absent" => counter'[m] = 0
    BY <2>3 DEF CounterInv, TypeOK
  <2>6. \A q \in Run : pc'[q] \in Holding => counter'[MachineOf[q]] <= num'[q]
    BY <2>1, <2>2, <2>3 DEF CounterInv, SameMachine, TypeOK, Holding
  <2>7. \A q \in Run : pc'[q] \in Past =>
          file'[MachineOf[q]] # "absent" /\ num'[q] < counter'[MachineOf[q]]
    <3> SUFFICES ASSUME NEW q \in Run, pc'[q] \in Past
                 PROVE  file'[MachineOf[q]] # "absent" /\ num'[q] < counter'[MachineOf[q]]
      OBVIOUS
    <3>1. CASE MachineOf[q] = MachineOf[p]
      <4>1. num[q] <= num[p] /\ num[q] \in Nat
        BY <2>1, <2>3, <2>4, <3>1 DEF SameMachine, TypeOK
      <4>2. QED
        BY <2>1, <2>3, <3>1, <4>1 DEF TypeOK
    <3>2. CASE MachineOf[q] # MachineOf[p]
      BY <2>3, <3>2 DEF CounterInv, TypeOK
    <3>3. QED
      BY <3>1, <3>2
  <2>8. \A q, r \in Run :
          q # r /\ SameMachine(q, r) /\ pc'[q] \in Past /\ pc'[r] \in Past => num'[q] # num'[r]
    BY <2>1, <2>3, <2>4 DEF CounterInv, SameMachine, TypeOK
  <2>9. QED
    BY <2>5, <2>6, <2>7, <2>8 DEF CounterInv, SameMachine
<1>6. QED
  BY <1>1, <1>2, <1>3, <1>4, <1>5, StepsKeepCounter DEF Next, Step

\* No machine returns a number twice, reserved or not, whatever the network
\* does and whoever dies where, as long as the lock wait never runs out.
THEOREM SameMachineDistinctHolds ==
  ASSUME ~WaitExpires
  PROVE  Spec => []SameMachineDistinct
<1>1. Init => LockInv /\ CounterInv
  BY DEF Init, LockInv, CounterInv, Inside, Critical, Holding, Past, Returned
<1>2. TypeOK /\ TypeOK' /\ LockInv /\ CounterInv /\ [Next]_vars => LockInv' /\ CounterInv'
  BY NextLockInv, NextCounterInv
<1>3. CounterInv => SameMachineDistinct
  BY DEF CounterInv, SameMachineDistinct, Past
<1>4. QED
  BY <1>1, <1>2, <1>3, TypeCorrect, PTL DEF Spec

\* The counter file of a machine never regresses and never disappears.
THEOREM CounterMonotoneHolds ==
  ASSUME ~WaitExpires
  PROVE  Spec => CounterMonotone
<1>1. Init => LockInv /\ CounterInv
  BY DEF Init, LockInv, CounterInv, Inside, Critical, Holding, Past, Returned
<1>2. TypeOK /\ TypeOK' /\ LockInv /\ CounterInv /\ [Next]_vars => LockInv' /\ CounterInv'
  BY NextLockInv, NextCounterInv
<1>3. TypeOK /\ CounterInv /\ [Next]_vars => [CounterGrows]_vars
  <2> SUFFICES ASSUME TypeOK, CounterInv, [Next]_vars PROVE CounterGrows
    OBVIOUS
  <2> USE RunPlace DEF CounterGrows
  <2>1. CASE UNCHANGED <<counter, file>>
    BY <2>1 DEF TypeOK
  <2>2. ASSUME NEW p \in Run, Truncate(p) PROVE CounterGrows
    BY <2>2 DEF Truncate, TypeOK
  <2>3. ASSUME NEW p \in Run, Write(p) PROVE CounterGrows
    <3>1. counter[MachineOf[p]] <= num[p] /\ num[p] \in Nat
      BY <2>3 DEF Write, Goto, CounterInv, Holding, TypeOK
    <3>2. QED
      BY <2>3, <3>1 DEF Write, TypeOK
  <2>4. ASSUME NEW p \in Run, ReadCounter(p) PROVE CounterGrows
    BY <2>4, <2>1 DEF ReadCounter, machineVars
  <2>5. ASSUME NEW p \in Run, KeepsCounter(p) PROVE CounterGrows
    BY <2>5, <2>1 DEF KeepsCounter
  <2>6. CASE UNCHANGED vars
    BY <2>6, <2>1 DEF vars, machineVars
  <2>7. QED
    BY <2>2, <2>3, <2>4, <2>5, <2>6, StepsKeepCounter DEF Next, Step
<1>4. QED
  BY <1>1, <1>2, <1>3, TypeCorrect, PTL DEF Spec, CounterMonotone

----------------------------------------------------------------------------
(***************************************************************************)
(* Freshness.  While p scans, the highest number it has to stay above was  *)
(* read already or is still in a listing that p has yet to ask for: a      *)
(* number that leaves the branches of an origin turns up in its artifacts, *)
(* and those are asked for right after the branches.                       *)
(***************************************************************************)
RepoNumber(i, k)   == ((i - 1) \div k) + 1
SourceNumber(i, k) == ((i - 1) % k) + 1

ListingAt(m, i) ==
  Listing(ScanOrder[m][RepoNumber(i, Len(Sources))], Sources[SourceNumber(i, Len(Sources))])

StillListed(p) ==
  \E i \in Nat : at[p] <= i /\ i <= Probes(p) /\ floor[p] \in ListingAt(MachineOf[p], i)

FloorOf(p) ==
  /\ pc[p] = "idle" => at[p] = 1
  /\ pc[p] = "scan" /\ ~degraded[p] => (floor[p] <= high[p] \/ StillListed(p))
  /\ pc[p] \in {"lock", "check", "read"} \cup Holding \cup Past /\ ~degraded[p]
       => floor[p] <= high[p]
  /\ pc[p] \in Holding \cup Past => num[p] > high[p]

FloorInv == \A p \in Run : FloorOf(p)

\* A pushed or merged item keeps its number and goes forward only, and no
\* reservation goes away.
LEMMA ItemsGoForward ==
  ASSUME TypeOK, [Next]_vars
  PROVE  /\ refs \subseteq refs'
         /\ \A q \in Run : pc[q] = "merged" => pc'[q] = "merged" /\ num'[q] = num[q]
         /\ \A q \in Run : pc[q] = "pushed" => pc'[q] \in {"pushed", "merged"} /\ num'[q] = num[q]
<1>1. CASE UNCHANGED vars
  BY <1>1 DEF vars, machineVars, runVars
<1>2. ASSUME NEW p \in Run, Start(p) \/ Probe(p) \/ Derived(p)
      PROVE  UNCHANGED <<refs, num>> /\ pc[p] \notin {"pushed", "merged"}
             /\ \A q \in Run \ {p} : pc'[q] = pc[q]
  BY <1>2 DEF Start, Probe, Derived, Goto, TypeOK
<1>3. ASSUME NEW p \in Run,
             Mkdir(p) \/ WaitRunsOut(p) \/ CheckLock(p) \/ RefuseEmptyCounter(p) \/ RecordOwn(p)
               \/ Truncate(p) \/ Write(p) \/ Unlock(p) \/ AbortUnlock(p) \/ PushDegraded(p)
      PROVE  UNCHANGED <<refs, num>> /\ pc[p] \notin {"pushed", "merged"}
             /\ \A q \in Run \ {p} : pc'[q] = pc[q]
  BY <1>3 DEF Mkdir, WaitRunsOut, CheckLock, RefuseEmptyCounter, RecordOwn, Truncate, Write,
              Unlock, AbortUnlock, PushDegraded, Goto, TypeOK, machineVars
<1>4. ASSUME NEW p \in Run, ReadCounter(p) \/ PushWins(p) \/ PushRejected(p) \/ PushReplyLost(p)
      PROVE  /\ refs \subseteq refs' /\ pc[p] \notin {"pushed", "merged"}
             /\ \A q \in Run \ {p} : pc'[q] = pc[q] /\ num'[q] = num[q]
  BY <1>4 DEF ReadCounter, PushWins, PushRejected, PushReplyLost, Goto, TypeOK
<1>5. ASSUME NEW p \in Run, Crash(p)
      PROVE  UNCHANGED <<refs, num>> /\ pc[p] \notin {"pushed", "merged"}
             /\ \A q \in Run \ {p} : pc'[q] = pc[q]
  BY <1>5 DEF Crash, Running, Inside, Critical, TypeOK
<1>6. ASSUME NEW p \in Run, PushBranch(p) \/ Merge(p)
      PROVE  /\ UNCHANGED <<refs, num>>
             /\ \A q \in Run \ {p} : pc'[q] = pc[q]
             /\ \/ pc[p] = "done"
                \/ pc[p] = "pushed" /\ pc'[p] = "merged"
  BY <1>6 DEF PushBranch, Merge, Goto, TypeOK
<1> QED
  BY <1>1, <1>2, <1>3, <1>4, <1>5, <1>6 DEF Next, Step, Reserve

LEMMA ListingsGoForward ==
  ASSUME TypeOK, [Next]_vars, NEW r \in Repo, NEW n
  PROVE  /\ n \in Listing(r, "artifacts") => n \in Listing(r, "artifacts")'
         /\ n \in Listing(r, "reservations") => n \in Listing(r, "reservations")'
         /\ n \in Listing(r, "branches") =>
              n \in Listing(r, "branches")' \/ n \in Listing(r, "artifacts")'
<1>1. ASSUME n \in Listing(r, "artifacts") PROVE n \in Listing(r, "artifacts")'
  BY <1>1, ItemsGoForward DEF Listing, Published
<1>2. ASSUME n \in Listing(r, "reservations") PROVE n \in Listing(r, "reservations")'
  BY <1>2, ItemsGoForward DEF Listing
<1>3. ASSUME n \in Listing(r, "branches")
      PROVE  n \in Listing(r, "branches")' \/ n \in Listing(r, "artifacts")'
  BY <1>3, ItemsGoForward DEF Listing, Published
<1> QED
  BY <1>1, <1>2, <1>3

\* The i-th listing a scan asks for is one of an origin of its scan root.
LEMMA Placed ==
  ASSUME NEW p \in Run, NEW i \in Nat \ {0}, i <= Probes(p)
  PROVE  /\ ScanOrder[MachineOf[p]][((i - 1) \div Len(Sources)) + 1] \in Repo
         /\ Sources[((i - 1) % Len(Sources)) + 1] \in {"branches", "artifacts", "reservations"}
<1> DEFINE order == ScanOrder[MachineOf[p]]
<1>1. order \in Seq(Repo) /\ Len(order) \in Nat
  BY ConstantsAssumption
<1>2. i <= Len(order) * Len(Sources)
  BY DEF Probes
<1>3. /\ ((i - 1) \div Len(Sources)) + 1 \in 1 .. Len(order)
      /\ ((i - 1) % Len(Sources)) + 1 \in 1 .. Len(Sources)
  <2>1. CASE Len(Sources) = 2
    BY <2>1, <1>1, <1>2
  <2>2. CASE Len(Sources) = 3
    BY <2>2, <1>1, <1>2
  <2> QED
    BY <2>1, <2>2, SourcesLen
<1> QED
  BY <1>1, <1>3, SourcesLen

\* The listing after the one of the branches is that origin's artifacts.
LEMMA ArtifactsFollow ==
  ASSUME NEW p \in Run, NEW i \in Nat \ {0}, i <= Probes(p),
         Sources[((i - 1) % Len(Sources)) + 1] = "branches"
  PROVE  /\ i + 1 <= Probes(p)
         /\ (i \div Len(Sources)) = ((i - 1) \div Len(Sources))
         /\ Sources[(i % Len(Sources)) + 1] = "artifacts"
<1>1. Len(ScanOrder[MachineOf[p]]) \in Nat
  BY ConstantsAssumption
<1>2. CASE ~HasBranches
  <2>1. Len(Sources) = 2 /\ \A j \in 1 .. 2 : Sources[j] # "branches"
    BY <1>2 DEF Sources
  <2>2. ((i - 1) % 2) + 1 \in 1 .. 2
    OBVIOUS
  <2> QED
    BY <2>1, <2>2
<1>3. CASE HasBranches
  <2>1. /\ Len(Sources) = 3 /\ Sources[1] = "branches" /\ Sources[2] = "artifacts"
        /\ Sources[3] = "reservations"
    BY <1>3 DEF Sources
  <2>2. ((i - 1) % 3) + 1 \in 1 .. 3
    OBVIOUS
  <2>3. (i - 1) % 3 = 0
    BY <2>1, <2>2
  <2>4. i % 3 = 1 /\ (i \div 3) = ((i - 1) \div 3)
    BY <2>3
  <2>5. i + 1 <= Len(ScanOrder[MachineOf[p]]) * 3
    BY <2>1, <2>3, <1>1 DEF Probes
  <2> QED
    BY <2>1, <2>4, <2>5 DEF Probes
<1> QED
  BY <1>2, <1>3

LEMMA StillListedLater ==
  ASSUME TypeOK, [Next]_vars, NEW p \in Run, at'[p] = at[p], floor'[p] = floor[p], StillListed(p)
  PROVE  StillListed(p)'
<1>1. PICK i \in Nat : at[p] <= i /\ i <= Probes(p) /\ floor[p] \in ListingAt(MachineOf[p], i)
  BY DEF StillListed
<1> DEFINE r == ScanOrder[MachineOf[p]][((i - 1) \div Len(Sources)) + 1]
           s == Sources[((i - 1) % Len(Sources)) + 1]
<1>2. i \in Nat \ {0} /\ Probes(p)' = Probes(p)
  BY <1>1 DEF TypeOK, Probes, Sources
<1>3. r \in Repo /\ s \in {"branches", "artifacts", "reservations"} /\ floor[p] \in Listing(r, s)
  BY <1>1, <1>2, Placed DEF ListingAt, RepoNumber, SourceNumber
<1>4. CASE floor[p] \in Listing(r, s)'
  <2>1. floor'[p] \in ListingAt(MachineOf[p], i)'
    BY <1>4 DEF ListingAt, RepoNumber, SourceNumber, Sources
  <2> QED
    BY <2>1, <1>1, <1>2 DEF StillListed
<1>5. CASE s = "branches" /\ floor[p] \in Listing(r, "artifacts")'
  <2>1. /\ i + 1 <= Probes(p) /\ (i \div Len(Sources)) = ((i - 1) \div Len(Sources))
        /\ Sources[(i % Len(Sources)) + 1] = "artifacts"
    BY <1>1, <1>2, <1>5, ArtifactsFollow
  <2>2. (i + 1) - 1 = i
    BY <1>2
  <2>3. floor'[p] \in ListingAt(MachineOf[p], i + 1)'
    BY <1>5, <2>1, <2>2 DEF ListingAt, RepoNumber, SourceNumber, Sources
  <2>4. at'[p] <= i + 1
    BY <1>1 DEF TypeOK
  <2> QED
    BY <2>1, <2>3, <2>4, <1>2 DEF StillListed
<1> QED
  BY <1>3, <1>4, <1>5, ListingsGoForward

LEMMA FloorInvInit == Init => FloorInv
BY DEF Init, FloorInv, FloorOf, Holding, Past, Returned

LEMMA OthersKeepFloor ==
  ASSUME TypeOK, [Next]_vars, NEW p \in Run, FloorOf(p),
         pc'[p] = pc[p], at'[p] = at[p], high'[p] = high[p], num'[p] = num[p],
         degraded'[p] = degraded[p], floor'[p] = floor[p]
  PROVE  FloorOf(p)'
<1>1. StillListed(p) => StillListed(p)'
  BY StillListedLater
<1> QED
  BY <1>1 DEF FloorOf, TypeOK

\* The listing asked for now is read, the others wait.
LEMMA ProbeKeepsFloor ==
  ASSUME TypeOK, [Next]_vars, NEW p \in Run, FloorOf(p), Probe(p)
  PROVE  FloorOf(p)'
<1> DEFINE now == Listing(ProbedRepo(p), ProbedSource(p))
<1>1. /\ pc[p] = "scan" /\ pc' = pc /\ UNCHANGED <<refs, num, floor>>
      /\ at'[p] = at[p] + 1 /\ at[p] \in Nat \ {0} /\ at[p] <= Probes(p)
  BY DEF Probe, TypeOK
<1>2. CASE \E top \in now \cup {0} : /\ IsListMax(top, now)
                                    /\ high' = [high EXCEPT ![p] = Larger(@, top)]
                                    /\ UNCHANGED degraded
  <2>1. PICK top \in now \cup {0} : /\ IsListMax(top, now)
                                   /\ high' = [high EXCEPT ![p] = Larger(@, top)]
                                   /\ UNCHANGED degraded
    BY <1>2
  <2>2. now \subseteq Nat
    BY <1>1, ProbedOK, ListingNat
  <2>3. top \in Nat /\ high[p] \in Nat /\ floor[p] \in Nat /\ high'[p] = Larger(high[p], top)
    BY <2>1, <2>2 DEF TypeOK
  <2>4. /\ high'[p] >= high[p] /\ high'[p] >= top /\ high'[p] \in Nat
    BY <2>3 DEF Larger
  <2>5. ASSUME StillListed(p) PROVE floor'[p] <= high'[p] \/ StillListed(p)'
    <3>1. PICK i \in Nat : /\ at[p] <= i /\ i <= Probes(p)
                           /\ floor[p] \in ListingAt(MachineOf[p], i)
      BY <2>5 DEF StillListed
    <3>2. CASE i = at[p]
      <4>1. floor[p] \in now
        BY <3>1, <3>2 DEF ListingAt, RepoNumber, SourceNumber, ProbedRepo, ProbedSource
      <4>2. floor[p] <= top
        BY <4>1, <2>1 DEF IsListMax
      <4> QED
        BY <4>2, <2>3, <2>4, <1>1
    <3>3. CASE i # at[p]
      <4>1. at'[p] <= i
        BY <3>1, <3>3, <1>1
      <4>2. ListingAt(MachineOf[p], i)' = ListingAt(MachineOf[p], i) /\ Probes(p)' = Probes(p)
        BY <1>1 DEF ListingAt, RepoNumber, SourceNumber, Listing, Published, Probes, Sources
      <4> QED
        BY <3>1, <4>1, <4>2, <1>1 DEF StillListed
    <3> QED
      BY <3>2, <3>3
  <2> QED
    BY <1>1, <2>1, <2>3, <2>4, <2>5 DEF FloorOf, Holding, Past, Returned
<1>3. CASE degraded' = [degraded EXCEPT ![p] = TRUE]
  BY <1>1, <1>3 DEF FloorOf, Holding, Past, Returned, TypeOK
<1> QED
  BY <1>2, <1>3 DEF Probe

\* Listing b of origin a has its place in the order of the scan.
LEMMA Position ==
  ASSUME NEW k \in {2, 3}, NEW a \in Nat \ {0}, NEW b \in 1 .. k
  PROVE  \E i \in Nat \ {0} : RepoNumber(i, k) = a /\ SourceNumber(i, k) = b
<1>1. PICK i \in Int : i = (a - 1) * k + b
  OBVIOUS
<1>2. i \in Nat \ {0} /\ RepoNumber(i, k) = a /\ SourceNumber(i, k) = b
  <2>1. CASE k = 2
    BY <1>1, <2>1 DEF RepoNumber, SourceNumber
  <2>2. CASE k = 3
    BY <1>1, <2>2 DEF RepoNumber, SourceNumber
  <2> QED
    BY <2>1, <2>2
<1> QED
  BY <1>2

LEMMA WithinScan ==
  ASSUME NEW p \in Run, NEW i \in Nat \ {0},
         RepoNumber(i, Len(Sources)) <= Len(ScanOrder[MachineOf[p]])
  PROVE  i <= Probes(p)
<1>1. Len(ScanOrder[MachineOf[p]]) \in Nat
  BY ConstantsAssumption
<1>2. CASE Len(Sources) = 2
  BY <1>1, <1>2 DEF RepoNumber, Probes
<1>3. CASE Len(Sources) = 3
  BY <1>1, <1>3 DEF RepoNumber, Probes
<1> QED
  BY <1>2, <1>3, SourcesLen

\* When p starts, all it has to stay above is still to be listed.
LEMMA StartKeepsFloor ==
  ASSUME TypeOK, NEW p \in Run, FloorOf(p), Start(p)
  PROVE  FloorOf(p)'
<1> DEFINE m == MachineOf[p]
<1>1. /\ pc[p] = "idle" /\ pc'[p] = "scan" /\ at[p] = 1 /\ high[p] \in Nat
      /\ UNCHANGED <<refs, num, at, high, degraded>>
      /\ \A q \in Run \ {p} : pc'[q] = pc[q]
  BY DEF Start, Goto, TypeOK, FloorOf
<1>2. PICK top \in Footprint(m) \cup {0} : floor'[p] = top
  BY DEF Start, TypeOK
<1>3. CASE top = 0
  BY <1>1, <1>2, <1>3 DEF FloorOf, Holding, Past, Returned
<1>4. CASE top \in Footprint(m)
  <2>1. PICK a \in DOMAIN ScanOrder[m], b \in DOMAIN Sources :
          top \in Listing(ScanOrder[m][a], Sources[b])
    BY <1>4 DEF Footprint
  <2>2. /\ Len(ScanOrder[m]) \in Nat /\ Len(Sources) \in {2, 3}
        /\ a \in 1 .. Len(ScanOrder[m]) /\ b \in 1 .. Len(Sources)
    BY <2>1, RunPlace, ConstantsAssumption, SourcesLen DEF Sources
  <2>3. a \in Nat \ {0}
    BY <2>2
  <2>4. PICK i \in Nat \ {0} : /\ RepoNumber(i, Len(Sources)) = a
                               /\ SourceNumber(i, Len(Sources)) = b
    BY <2>2, <2>3, Position
  <2>5. top \in Listing(ScanOrder[m][a], Sources[b])'
    BY <2>1, <1>1 DEF Listing, Published, Sources
  <2>6. ListingAt(m, i)' = Listing(ScanOrder[m][a], Sources[b])' /\ Probes(p)' = Probes(p)
    BY <2>4 DEF ListingAt, Sources, Probes
  <2>7. at'[p] <= i /\ i <= Probes(p)
    BY <2>2, <2>4, <1>1, WithinScan
  <2>8. StillListed(p)'
    BY <2>4, <2>5, <2>6, <2>7, <1>2 DEF StillListed
  <2> QED
    BY <2>8, <1>1 DEF FloorOf, Holding, Past, Returned
<1> QED
  BY <1>2, <1>3, <1>4

LEMMA DerivedKeepsFloor ==
  ASSUME TypeOK, NEW p \in Run, FloorOf(p), Derived(p)
  PROVE  FloorOf(p)'
<1>1. /\ at[p] > Probes(p) /\ pc[p] = "scan" /\ pc'[p] = "lock"
      /\ UNCHANGED <<high, num, floor>>
      /\ degraded[p] => degraded'[p]
  BY DEF Derived, Goto, TypeOK
<1>2. Probes(p) \in Int /\ at[p] \in Int
  <2>1. Len(ScanOrder[MachineOf[p]]) \in Nat /\ Len(Sources) \in Nat
    BY ConstantsAssumption, SourcesLen
  <2> QED
    BY <2>1, ConstantsAssumption DEF Probes, TypeOK
<1>3. ~StillListed(p)
  BY <1>1, <1>2 DEF StillListed
<1>4. ~degraded'[p] => floor'[p] <= high'[p]
  BY <1>1, <1>3 DEF FloorOf
<1>5. pc'[p] \notin {"idle", "scan"} /\ pc'[p] \notin Holding \cup Past
  BY <1>1 DEF Holding, Past, Returned
<1> QED
  BY <1>4, <1>5 DEF FloorOf

\* The candidate is one past the higher of the remote and the local high.
LEMMA ReadCounterKeepsFloor ==
  ASSUME TypeOK, NEW p \in Run, FloorOf(p), ReadCounter(p)
  PROVE  FloorOf(p)'
<1>1. /\ pc[p] = "read" /\ pc'[p] \in {"truncate", "reserve"} /\ num'[p] = Candidate(p)
      /\ UNCHANGED <<at, high, degraded, floor>>
  BY DEF ReadCounter, Goto, TypeOK
<1>2. Candidate(p) > high[p]
  BY RunPlace, ConstantsAssumption DEF Candidate, Larger, TypeOK
<1> QED
  BY <1>1, <1>2 DEF FloorOf, Holding, Past, Returned

LEMMA PushRejectedKeepsFloor ==
  ASSUME TypeOK, NEW p \in Run, FloorOf(p), PushRejected(p)
  PROVE  FloorOf(p)'
<1>1. /\ pc[p] = "reserve" /\ pc'[p] \in {"reserve", "abort"} /\ num'[p] = num[p] + 1
      /\ UNCHANGED <<at, high, degraded, floor>>
  BY DEF PushRejected, Goto, TypeOK
<1>2. num[p] \in Nat /\ high[p] \in Nat
  BY DEF TypeOK
<1> QED
  BY <1>1, <1>2 DEF FloorOf, Holding, Past, Returned

\* The other steps of p only move it forward.
Forward(p) ==
  \/ Mkdir(p) \/ WaitRunsOut(p) \/ CheckLock(p) \/ RefuseEmptyCounter(p)
  \/ PushWins(p) \/ PushDegraded(p) \/ PushReplyLost(p) \/ RecordOwn(p)
  \/ Truncate(p) \/ Write(p) \/ Unlock(p) \/ AbortUnlock(p)
  \/ Crash(p) \/ PushBranch(p) \/ Merge(p)

LEMMA ForwardKeepsFloor ==
  ASSUME TypeOK, NEW p \in Run, FloorOf(p), Forward(p)
  PROVE  FloorOf(p)'
<1>1. UNCHANGED <<at, high, degraded, num, floor>>
  BY DEF Forward, Mkdir, WaitRunsOut, CheckLock, RefuseEmptyCounter, PushWins, PushDegraded,
         PushReplyLost, RecordOwn, Truncate, Write, Unlock, AbortUnlock, Crash, PushBranch, Merge
<1>2. CASE Mkdir(p) \/ WaitRunsOut(p) \/ CheckLock(p) \/ RefuseEmptyCounter(p)
  <2>1. /\ pc[p] \in {"lock", "check", "read"}
        /\ pc'[p] \in {"check", "read", "failed", "abort"}
    BY <1>2 DEF Mkdir, WaitRunsOut, CheckLock, RefuseEmptyCounter, Goto, TypeOK
  <2> QED
    BY <1>1, <2>1 DEF FloorOf, Holding, Past, Returned
<1>3. CASE PushWins(p) \/ PushDegraded(p) \/ PushReplyLost(p) \/ RecordOwn(p)
             \/ Truncate(p) \/ Write(p) \/ Unlock(p) \/ PushBranch(p) \/ Merge(p)
  <2>1. pc[p] \in Holding \cup Past /\ pc'[p] \in Holding \cup Past
    BY <1>3 DEF PushWins, PushDegraded, PushReplyLost, RecordOwn, Truncate, Write, Unlock,
                PushBranch, Merge, Goto, TypeOK, Holding, Past, Returned
  <2>2. pc'[p] \notin {"idle", "scan"}
    BY <2>1 DEF Holding, Past, Returned
  <2> QED
    BY <1>1, <2>1, <2>2 DEF FloorOf
<1>4. CASE AbortUnlock(p) \/ Crash(p)
  <2>1. pc'[p] \in {"failed", "crashed"}
    BY <1>4 DEF AbortUnlock, Crash, Goto, TypeOK
  <2> QED
    BY <2>1 DEF FloorOf, Holding, Past, Returned
<1> QED
  BY <1>2, <1>3, <1>4 DEF Forward

\* A step of p leaves the registers of the other runs alone.
LEMMA OwnRegisters ==
  ASSUME TypeOK, [Next]_vars, NEW p \in Run
  PROVE  \/ Start(p) \/ Probe(p) \/ Derived(p) \/ ReadCounter(p) \/ PushRejected(p) \/ Forward(p)
         \/ /\ pc'[p] = pc[p] /\ at'[p] = at[p] /\ high'[p] = high[p] /\ num'[p] = num[p]
            /\ degraded'[p] = degraded[p] /\ floor'[p] = floor[p]
<1> DEFINE Same(q) == /\ pc'[q] = pc[q] /\ at'[q] = at[q] /\ high'[q] = high[q]
                      /\ num'[q] = num[q] /\ degraded'[q] = degraded[q] /\ floor'[q] = floor[q]
<1>1. CASE UNCHANGED vars
  BY <1>1 DEF vars, runVars
<1>2. ASSUME NEW q \in Run \ {p}, Start(q) \/ Probe(q) \/ Derived(q) PROVE Same(p)
  BY <1>2 DEF Start, Probe, Derived, Goto, TypeOK
<1>3. ASSUME NEW q \in Run \ {p}, ReadCounter(q) \/ PushRejected(q) PROVE Same(p)
  BY <1>3 DEF ReadCounter, PushRejected, Goto, TypeOK
<1>4. ASSUME NEW q \in Run \ {p}, Forward(q) PROVE Same(p)
  <2>1. UNCHANGED <<at, high, degraded, num, floor>>
    BY <1>4 DEF Forward, Mkdir, WaitRunsOut, CheckLock, RefuseEmptyCounter, PushWins, PushDegraded,
           PushReplyLost, RecordOwn, Truncate, Write, Unlock, AbortUnlock, Crash, PushBranch, Merge
  <2>2. pc'[p] = pc[p]
    BY <1>4 DEF Forward, Mkdir, WaitRunsOut, CheckLock, RefuseEmptyCounter, PushWins, PushDegraded,
           PushReplyLost, RecordOwn, Truncate, Write, Unlock, AbortUnlock, Crash, PushBranch, Merge,
           Goto, TypeOK
  <2> QED
    BY <2>1, <2>2
<1>5. ASSUME NEW q \in Run \ {p},
             Start(q) \/ Step(q) \/ Crash(q) \/ PushBranch(q) \/ Merge(q)
      PROVE  Same(p)
  BY <1>2, <1>3, <1>4, <1>5 DEF Step, Reserve, Forward
<1>6. ASSUME Start(p) \/ Step(p) \/ Crash(p) \/ PushBranch(p) \/ Merge(p)
      PROVE  \/ Start(p) \/ Probe(p) \/ Derived(p)
             \/ ReadCounter(p) \/ PushRejected(p) \/ Forward(p)
  BY <1>6 DEF Step, Reserve, Forward
<1>7. CASE Next
  <2>1. PICK q \in Run : Start(q) \/ Step(q) \/ Crash(q) \/ PushBranch(q) \/ Merge(q)
    BY <1>7 DEF Next
  <2>2. CASE q = p
    BY <2>1, <2>2, <1>6
  <2>3. CASE q # p
    BY <2>1, <2>3, <1>5
  <2> QED
    BY <2>2, <2>3
<1> QED
  BY <1>1, <1>7

LEMMA FloorInvStep == TypeOK /\ FloorInv /\ [Next]_vars => FloorInv'
<1> SUFFICES ASSUME TypeOK, FloorInv, [Next]_vars, NEW p \in Run PROVE FloorOf(p)'
  BY DEF FloorInv
<1>1. FloorOf(p)
  BY DEF FloorInv
<1> QED
  BY <1>1, OwnRegisters, OthersKeepFloor, StartKeepsFloor, ProbeKeepsFloor, DerivedKeepsFloor,
     ReadCounterKeepsFloor, PushRejectedKeepsFloor, ForwardKeepsFloor

\* A run whose derivation was not degraded returns a number above everything
\* that was visible on the origins of its scan root when it was called, in
\* whatever order the items of others were pushed, reserved and merged while
\* it listed (adlc_remote_high and adlc_alloc_id).  No assumption on the lock.
THEOREM FreshAboveFloorHolds == Spec => []FreshAboveFloor
<1>1. TypeOK /\ FloorInv => FreshAboveFloor
  <2> SUFFICES ASSUME TypeOK, FloorInv, NEW p \in Run, pc[p] \in Returned, ~degraded[p]
               PROVE  num[p] > floor[p]
    BY DEF FreshAboveFloor
  <2>1. floor[p] <= high[p] /\ num[p] > high[p]
    BY DEF FloorInv, FloorOf, Past, Returned
  <2> QED
    BY <2>1 DEF TypeOK
<1> QED
  BY <1>1, FloorInvInit, FloorInvStep, TypeCorrect, PTL DEF Spec
=============================================================================
