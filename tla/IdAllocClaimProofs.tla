------------------------- MODULE IdAllocClaimProofs -------------------------
(***************************************************************************)
(* Proofs about the reservation side of IdAlloc: no two runs win a number  *)
(* on one origin, the ledger names only reservations of its own machine,   *)
(* the protocol implements IdClaim, and no exit leaves the lock behind.    *)
(***************************************************************************)
EXTENDS IdAllocProofs

\* Before the push of a run is accepted.
Early == {"idle", "scan", "lock", "check", "read", "reserve"}

(***************************************************************************)
(* An origin holds one object per number; a win is backed by the run's own *)
(* object on the origin, and nobody has won before its push.               *)
(***************************************************************************)
OneObject == \A x, y \in refs : x.repo = y.repo /\ x.num = y.num => x = y

WinsBacked == \A p \in Run : won[p] => NewRef(p) \in refs /\ num[p] >= 1

WinAfterPush ==
  /\ \A p \in Run : pc[p] \in Early => ~won[p]
  /\ \A p \in Run : pc[p] = "reserve" => RepoOf[p] \in Repo /\ num[p] >= 1
  /\ \A p \in Run : pc[p] = "record" => won[p]

ReserveInv == OneObject /\ WinsBacked /\ WinAfterPush

\* Steps of p other than its push that leave the origins alone.
KeepsRefs(p) ==
  /\ UNCHANGED <<refs, won>>
  /\ \E to \in PC : /\ pc' = [pc EXCEPT ![p] = to]
                    /\ to \in Early => pc[p] \in Early
                    /\ to = "reserve" => RepoOf[p] \in Repo /\ num'[p] >= 1
                    /\ to = "record" => pc[p] = "record"
  /\ \A q \in Run : won[q] => num'[q] = num[q]
  /\ \A q \in Run \ {p} : num'[q] = num[q]

LEMMA KeepsRefsInv ==
  ASSUME TypeOK, ReserveInv, NEW p \in Run, KeepsRefs(p)
  PROVE  ReserveInv'
<1>1. OneObject'
  BY DEF ReserveInv, OneObject, KeepsRefs
<1>2. WinsBacked'
  BY DEF ReserveInv, WinsBacked, KeepsRefs, NewRef, Nonce
<1>3. WinAfterPush'
  BY DEF ReserveInv, WinAfterPush, KeepsRefs, Early, TypeOK
<1>4. QED
  BY <1>1, <1>2, <1>3 DEF ReserveInv

LEMMA CandidatePositive ==
  ASSUME TypeOK, NEW p \in Run, file[MachineOf[p]] # "empty"
  PROVE  Candidate(p) >= 1
<1>1. counter[MachineOf[p]] \in Nat /\ high[p] \in Nat /\ LocalHigh[MachineOf[p]] \in Nat
  BY RunPlace, ConstantsAssumption DEF TypeOK
<1>2. QED
  BY <1>1 DEF Candidate, Larger

LEMMA StepsKeepRefs ==
  ASSUME TypeOK, ReserveInv, NEW p \in Run,
         \/ Start(p) \/ Probe(p) \/ Derived(p) \/ Mkdir(p) \/ WaitRunsOut(p)
         \/ CheckLock(p) \/ ReadCounter(p) \/ RefuseEmptyCounter(p) \/ PushRejected(p)
         \/ PushDegraded(p) \/ RecordOwn(p) \/ Truncate(p) \/ Write(p) \/ Unlock(p)
         \/ AbortUnlock(p) \/ Crash(p) \/ PushBranch(p) \/ Merge(p)
  PROVE  KeepsRefs(p)
<1> USE DEF KeepsRefs, PC, Running, Inside, Critical, Returned, Early
<1>1. CASE Probe(p)
  <2>1. pc' = [pc EXCEPT ![p] = pc[p]] /\ pc[p] \in PC /\ pc[p] = "scan"
    BY <1>1 DEF Probe, TypeOK
  <2>2. QED
    BY <1>1, <2>1 DEF Probe
<1>2. CASE Start(p) \/ Derived(p) \/ Mkdir(p) \/ WaitRunsOut(p) \/ CheckLock(p)
  BY <1>2 DEF Start, Derived, Mkdir, WaitRunsOut, CheckLock, Goto
<1>3. CASE ReadCounter(p)
  <2>1. Candidate(p) >= 1
    BY <1>3, CandidatePositive DEF ReadCounter
  <2>2. pc[p] = "read" /\ ~won[p]
    BY <1>3 DEF ReadCounter, Goto, ReserveInv, WinAfterPush
  <2>3. \E to \in {"truncate", "reserve"} :
          pc' = [pc EXCEPT ![p] = to] /\ (to = "reserve" => RepoOf[p] \in Repo)
    BY <1>3, RunPlace DEF ReadCounter, Goto
  <2>4. num' = [num EXCEPT ![p] = Candidate(p)] /\ UNCHANGED <<refs, won>>
    BY <1>3 DEF ReadCounter
  <2>5. num \in [Run -> Nat]
    BY DEF TypeOK
  <2>6. QED
    BY <2>1, <2>2, <2>3, <2>4, <2>5
<1>4. CASE RefuseEmptyCounter(p) \/ RecordOwn(p) \/ PushDegraded(p)
  BY <1>4 DEF RefuseEmptyCounter, RecordOwn, PushDegraded, Goto
<1>5. CASE PushRejected(p)
  <2>1. pc[p] = "reserve" /\ ~won[p] /\ RepoOf[p] \in Repo /\ num[p] >= 1
    BY <1>5 DEF PushRejected, Goto, ReserveInv, WinAfterPush
  <2>2. \E to \in {"reserve", "abort"} : pc' = [pc EXCEPT ![p] = to]
    BY <1>5 DEF PushRejected, Goto
  <2>3. num' = [num EXCEPT ![p] = @ + 1] /\ UNCHANGED <<refs, won>>
    BY <1>5 DEF PushRejected
  <2>4. num'[p] >= 1 /\ \A q \in Run \ {p} : num'[q] = num[q]
    BY <2>1, <2>3 DEF TypeOK
  <2>5. QED
    BY <2>1, <2>2, <2>3, <2>4
<1>6. CASE Truncate(p) \/ Write(p) \/ Unlock(p) \/ AbortUnlock(p)
  BY <1>6 DEF Truncate, Write, Unlock, AbortUnlock, Goto
<1>7. CASE Crash(p) \/ PushBranch(p) \/ Merge(p)
  BY <1>7 DEF Crash, PushBranch, Merge, Goto
<1>8. QED
  BY <1>1, <1>2, <1>3, <1>4, <1>5, <1>6, <1>7

\* An accepted push keeps the origin one object per number.
LEMMA AcceptedPush ==
  ASSUME TypeOK, ReserveInv, NEW p \in Run, pc[p] = "reserve",
         Accepts(RepoOf[p], num[p], Nonce(p)), refs' = refs \cup {NewRef(p)}
  PROVE  /\ OneObject'
         /\ \A q \in Run : won[q] /\ RepoOf[q] = RepoOf[p] => num[q] # num[p]
<1>1. \A x \in refs : x.repo = RepoOf[p] /\ x.num = num[p] => x = NewRef(p)
  <2> SUFFICES ASSUME NEW x \in refs, x.repo = RepoOf[p], x.num = num[p]
               PROVE  x = NewRef(p)
    OBVIOUS
  <2>1. x.obj = p
    BY DEF Accepts, Holder, Nonce
  <2>2. x = [repo |-> x.repo, num |-> x.num, obj |-> x.obj]
    BY DEF TypeOK, Ref
  <2>3. QED
    BY <2>1, <2>2 DEF NewRef, Nonce
<1>2. OneObject'
  BY <1>1 DEF OneObject, ReserveInv, NewRef
<1>3. ~won[p]
  BY DEF ReserveInv, WinAfterPush, Early
<1>4. ASSUME NEW q \in Run, won[q], RepoOf[q] = RepoOf[p], num[q] = num[p]
      PROVE  FALSE
  <2>1. NewRef(q) = NewRef(p)
    BY <1>1, <1>4 DEF ReserveInv, WinsBacked, NewRef
  <2>2. QED
    BY <1>3, <1>4, <2>1 DEF NewRef, Nonce
<1>5. QED
  BY <1>2, <1>4

LEMMA NextReserveInv ==
  ASSUME TypeOK, ReserveInv, [Next]_vars
  PROVE  ReserveInv'
<1>1. CASE UNCHANGED vars
  BY <1>1 DEF ReserveInv, OneObject, WinsBacked, WinAfterPush, NewRef, vars, machineVars, runVars
<1>2. ASSUME NEW p \in Run, KeepsRefs(p) PROVE ReserveInv'
  BY <1>2, KeepsRefsInv
<1>3. ASSUME NEW p \in Run, PushWins(p) PROVE ReserveInv'
  <2>1. pc[p] = "reserve" /\ RepoOf[p] \in Repo /\ num[p] >= 1
    BY <1>3 DEF PushWins, Goto, ReserveInv, WinAfterPush
  <2>2. /\ pc' = [pc EXCEPT ![p] = "record"] /\ won' = [won EXCEPT ![p] = TRUE]
        /\ refs' = refs \cup {NewRef(p)} /\ num' = num
    BY <1>3 DEF PushWins, Goto
  <2>3. OneObject'
    BY <1>3, <2>1, AcceptedPush DEF PushWins
  <2>4. WinsBacked'
    BY <2>1, <2>2 DEF ReserveInv, WinsBacked, NewRef, Nonce, TypeOK
  <2>5. WinAfterPush'
    BY <2>1, <2>2 DEF ReserveInv, WinAfterPush, Early, TypeOK
  <2>6. QED
    BY <2>3, <2>4, <2>5 DEF ReserveInv
<1>4. ASSUME NEW p \in Run, PushReplyLost(p) PROVE ReserveInv'
  <2>1. pc[p] = "reserve"
    BY <1>4 DEF PushReplyLost, Goto
  <2>2. /\ pc' = [pc EXCEPT ![p] = "truncate"] /\ won' = won
        /\ refs' = refs \cup {NewRef(p)} /\ num' = num
    BY <1>4 DEF PushReplyLost, Goto
  <2>3. OneObject'
    BY <1>4, <2>1, AcceptedPush DEF PushReplyLost
  <2>4. WinsBacked'
    BY <2>2 DEF ReserveInv, WinsBacked, NewRef, Nonce
  <2>5. WinAfterPush'
    BY <2>2 DEF ReserveInv, WinAfterPush, Early, TypeOK
  <2>6. QED
    BY <2>3, <2>4, <2>5 DEF ReserveInv
<1>5. QED
  BY <1>1, <1>2, <1>3, <1>4, StepsKeepRefs DEF Next, Step, Reserve

LEMMA InitReserveInv ==
  ASSUME Init
  PROVE  ReserveInv
BY DEF Init, ReserveInv, OneObject, WinsBacked, WinAfterPush

LEMMA AlwaysReserveInv == Spec => []ReserveInv
<1>1. TypeOK /\ ReserveInv /\ [Next]_vars => ReserveInv'
  BY NextReserveInv
<1>2. QED
  BY <1>1, InitReserveInv, TypeCorrect, PTL DEF Spec

\* First-wins: whatever fails, whoever dies, whatever the locks do, no two runs
\* are told that they won one number on one origin.
THEOREM ReservedDistinctHolds == Spec => []ReservedDistinct
<1>1. ReserveInv => ReservedDistinct
  BY DEF ReserveInv, OneObject, WinsBacked, ReservedDistinct, NewRef, Nonce
<1>2. QED
  BY <1>1, AlwaysReserveInv, PTL

----------------------------------------------------------------------------
\* The claim a run holds under the refinement mapping of Claims.
ClaimOf == [p \in Run |-> IF won[p] THEN num[p] ELSE 0]

\* A win is an atomic claim of a number nobody on that origin has claimed.
LEMMA WinIsClaim ==
  ASSUME TypeOK, TypeOK', ReserveInv, NEW p \in Run, PushWins(p)
  PROVE  Claims!Claim(p)
<1>1. pc[p] = "reserve" /\ num[p] >= 1 /\ ~won[p]
  BY DEF PushWins, Goto, ReserveInv, WinAfterPush, Early
<1>2. won' = [won EXCEPT ![p] = TRUE] /\ num' = num
  BY DEF PushWins
<1>3. ClaimOf[p] = 0
  BY <1>1 DEF ClaimOf
<1>4. ClaimOf' \in [Run -> Nat]
  BY DEF ClaimOf, TypeOK
<1>5. ClaimOf'[p] = num[p]
  BY <1>2 DEF ClaimOf, TypeOK
<1>6. \A q \in Run \ {p} : ClaimOf'[q] = ClaimOf[q]
  BY <1>2 DEF ClaimOf, TypeOK
<1>7. num[p] \notin {ClaimOf[q] : q \in {x \in Run : RepoOf[x] = RepoOf[p]}}
  <2> SUFFICES ASSUME NEW q \in Run, RepoOf[q] = RepoOf[p] PROVE ClaimOf[q] # num[p]
    OBVIOUS
  <2>1. CASE won[q]
    <3>1. Accepts(RepoOf[p], num[p], Nonce(p)) /\ refs' = refs \cup {NewRef(p)}
      BY DEF PushWins
    <3>2. num[q] # num[p]
      BY <1>1, <2>1, <3>1, AcceptedPush
    <3>3. QED
      BY <2>1, <3>2 DEF ClaimOf
  <2>2. CASE ~won[q]
    BY <1>1, <2>2 DEF ClaimOf
  <2>3. QED
    BY <2>1, <2>2
<1>8. num[p] \in Nat \ {0}
  BY <1>1 DEF TypeOK
<1>9. QED
  BY <1>3, <1>4, <1>5, <1>6, <1>7, <1>8 DEF Claims!Claim, Claims!Claimed, ClaimOf

LEMMA NextClaims ==
  ASSUME TypeOK, TypeOK', ReserveInv, [Next]_vars
  PROVE  [Claims!ClaimNext]_ClaimOf
<1>1. ASSUME won' = won, \A p \in Run : won[p] => num'[p] = num[p]
      PROVE  UNCHANGED ClaimOf
  BY <1>1 DEF ClaimOf
<1>2. CASE UNCHANGED vars
  BY <1>1, <1>2 DEF vars, runVars
<1>3. ASSUME NEW p \in Run, KeepsRefs(p) PROVE UNCHANGED ClaimOf
  BY <1>1, <1>3 DEF KeepsRefs
<1>4. ASSUME NEW p \in Run, PushReplyLost(p) PROVE UNCHANGED ClaimOf
  BY <1>1, <1>4 DEF PushReplyLost
<1>5. ASSUME NEW p \in Run, PushWins(p) PROVE Claims!ClaimNext
  BY <1>5, WinIsClaim DEF Claims!ClaimNext
<1>6. QED
  BY <1>2, <1>3, <1>4, <1>5, StepsKeepRefs DEF Next, Step, Reserve

\* The reservation protocol, with its locks, retries, lost replies and crashes,
\* implements the atomic claim of IdClaim.
THEOREM ImplementsClaim == Spec => ClaimSpec
<1>1. Init => Claims!ClaimInit
  BY DEF Init, Claims!ClaimInit
<1>2. TypeOK /\ TypeOK' /\ ReserveInv /\ [Next]_vars => [Claims!ClaimNext]_ClaimOf
  BY NextClaims
<1>3. QED
  BY <1>1, <1>2, AlwaysReserveInv, TypeCorrect, PTL
     DEF Spec, ClaimSpec, Claims!ClaimSpec, ClaimOf

----------------------------------------------------------------------------
LEMMA NextLedgerSound ==
  ASSUME TypeOK, ReserveInv, LedgerSound, [Next]_vars
  PROVE  LedgerSound'
<1>1. ASSUME ledger' = ledger, refs \subseteq refs' PROVE LedgerSound'
  BY <1>1 DEF LedgerSound, Nonce
<1>2. ASSUME NEW p \in Run, RecordOwn(p) PROVE LedgerSound'
  <2>1. NewRef(p) \in refs
    BY <1>2 DEF RecordOwn, Goto, ReserveInv, WinsBacked, WinAfterPush
  <2>2. refs' = refs
    BY <1>2 DEF RecordOwn
  <2>3. CASE ledger' = ledger
    BY <1>1, <2>2, <2>3
  <2>4. CASE ledger' = [ledger EXCEPT ![MachineOf[p]] = @ \cup {[num |-> num[p], obj |-> Nonce(p)]}]
    <3> SUFFICES ASSUME NEW m \in Machine, NEW e \in ledger'[m]
                 PROVE  /\ \E x \in refs : x.num = e.num /\ x.obj = e.obj
                        /\ \E q \in Run : Nonce(q) = e.obj /\ MachineOf[q] = m
      BY <2>2 DEF LedgerSound, Nonce
    <3>1. CASE e \in ledger[m]
      BY <3>1 DEF LedgerSound
    <3>2. CASE e \notin ledger[m]
      <4>1. m = MachineOf[p] /\ e = [num |-> num[p], obj |-> Nonce(p)]
        BY <2>4, <3>2 DEF TypeOK
      <4>2. QED
        BY <2>1, <4>1 DEF NewRef
    <3>3. QED
      BY <3>1, <3>2
  <2>5. QED
    BY <1>2, <2>3, <2>4 DEF RecordOwn
<1>3. CASE UNCHANGED vars
  BY <1>1, <1>3 DEF vars, machineVars
<1>4. ASSUME NEW p \in Run,
             \/ Start(p) \/ Probe(p) \/ Derived(p) \/ Mkdir(p) \/ WaitRunsOut(p)
             \/ CheckLock(p) \/ ReadCounter(p) \/ RefuseEmptyCounter(p)
      PROVE  LedgerSound'
  BY <1>1, <1>4 DEF Start, Probe, Derived, Mkdir, WaitRunsOut, CheckLock, ReadCounter,
                    RefuseEmptyCounter, machineVars
<1>5. ASSUME NEW p \in Run, Reserve(p) PROVE LedgerSound'
  BY <1>1, <1>5 DEF Reserve, PushWins, PushRejected, PushDegraded, PushReplyLost, machineVars
<1>6. ASSUME NEW p \in Run,
             \/ Truncate(p) \/ Write(p) \/ Unlock(p) \/ AbortUnlock(p)
             \/ Crash(p) \/ PushBranch(p) \/ Merge(p)
      PROVE  LedgerSound'
  BY <1>1, <1>6 DEF Truncate, Write, Unlock, AbortUnlock, Crash, PushBranch, Merge, machineVars
<1>7. QED
  BY <1>2, <1>3, <1>4, <1>5, <1>6 DEF Next, Step

\* No machine ever takes a foreign reservation for its own.
THEOREM LedgerSoundHolds == Spec => []LedgerSound
<1>1. Init => LedgerSound
  BY DEF Init, LedgerSound
<1>2. TypeOK /\ ReserveInv /\ LedgerSound /\ [Next]_vars => LedgerSound'
  BY NextLedgerSound
<1>3. QED
  BY <1>1, <1>2, AlwaysReserveInv, TypeCorrect, PTL DEF Spec

----------------------------------------------------------------------------
\* A step that leaves the lock directory alone and its run inside.
StaysInside(p) ==
  /\ lockdir' = lockdir
  /\ \E to \in PC : /\ pc' = [pc EXCEPT ![p] = to]
                    /\ pc[p] \in Inside => to \in Inside \/ ~lockdir[MachineOf[p]]

LEMMA StepsStayInside ==
  ASSUME ~HolderCrashes, TypeOK, NEW p \in Run,
         \/ Start(p) \/ Probe(p) \/ Derived(p) \/ WaitRunsOut(p) \/ CheckLock(p)
         \/ ReadCounter(p) \/ RefuseEmptyCounter(p) \/ Reserve(p) \/ RecordOwn(p)
         \/ Truncate(p) \/ Write(p) \/ Crash(p) \/ PushBranch(p) \/ Merge(p)
  PROVE  StaysInside(p)
<1> USE DEF StaysInside, PC, Running, Inside, Critical, Returned
<1>1. CASE Probe(p)
  <2>1. pc' = [pc EXCEPT ![p] = pc[p]] /\ pc[p] \in PC
    BY <1>1 DEF Probe, TypeOK
  <2>2. QED
    BY <1>1, <2>1 DEF Probe, machineVars
<1>2. CASE Start(p) \/ Derived(p) \/ WaitRunsOut(p)
  BY <1>2 DEF Start, Derived, WaitRunsOut, Goto, machineVars
<1>3. CASE CheckLock(p)
  BY <1>3 DEF CheckLock, Goto, machineVars
<1>4. CASE ReadCounter(p) \/ RefuseEmptyCounter(p)
  BY <1>4 DEF ReadCounter, RefuseEmptyCounter, Goto, machineVars
<1>5. CASE Reserve(p)
  BY <1>5 DEF Reserve, PushWins, PushRejected, PushDegraded, PushReplyLost, Goto, machineVars
<1>6. CASE RecordOwn(p) \/ Truncate(p) \/ Write(p)
  BY <1>6 DEF RecordOwn, Truncate, Write, Goto
<1>7. CASE Crash(p) \/ PushBranch(p) \/ Merge(p)
  BY <1>7 DEF Crash, PushBranch, Merge, Goto, machineVars
<1>8. QED
  BY <1>1, <1>2, <1>3, <1>4, <1>5, <1>6, <1>7

LEMMA NextNoLeakedLock ==
  ASSUME ~HolderCrashes, TypeOK, NoLeakedLock, [Next]_vars
  PROVE  NoLeakedLock'
<1>1. CASE UNCHANGED vars
  BY <1>1 DEF NoLeakedLock, vars, machineVars, runVars
<1>2. ASSUME NEW p \in Run, StaysInside(p) PROVE NoLeakedLock'
  <2> SUFFICES ASSUME NEW m \in Machine, lockdir'[m]
               PROVE  \E q \in Run : MachineOf[q] = m /\ pc'[q] \in Inside
    BY DEF NoLeakedLock
  <2>1. PICK q \in Run : MachineOf[q] = m /\ pc[q] \in Inside
    BY <1>2 DEF StaysInside, NoLeakedLock
  <2>2. pc'[q] \in Inside
    BY <1>2, <2>1 DEF StaysInside, TypeOK
  <2>3. QED
    BY <2>1, <2>2
<1>3. ASSUME NEW p \in Run, Mkdir(p) PROVE NoLeakedLock'
  <2> SUFFICES ASSUME NEW m \in Machine, lockdir'[m]
               PROVE  \E q \in Run : MachineOf[q] = m /\ pc'[q] \in Inside
    BY DEF NoLeakedLock
  <2>1. CASE m = MachineOf[p]
    BY <1>3, <2>1 DEF Mkdir, Goto, TypeOK, Inside
  <2>2. CASE m # MachineOf[p]
    BY <1>3, <2>2 DEF Mkdir, Goto, TypeOK, NoLeakedLock
  <2>3. QED
    BY <2>1, <2>2
<1>4. ASSUME NEW p \in Run, Unlock(p) \/ AbortUnlock(p) PROVE NoLeakedLock'
  BY <1>4, RunPlace DEF Unlock, AbortUnlock, Goto, TypeOK, NoLeakedLock
<1>5. QED
  BY <1>1, <1>2, <1>3, <1>4, StepsStayInside DEF Next, Step

\* Unless its holder dies, every way through the allocator removes the lock.
THEOREM NoLeakedLockHolds ==
  ASSUME ~HolderCrashes
  PROVE  Spec => []NoLeakedLock
<1>1. Init => NoLeakedLock
  BY DEF Init, NoLeakedLock
<1>2. TypeOK /\ NoLeakedLock /\ [Next]_vars => NoLeakedLock'
  BY NextNoLeakedLock
<1>3. QED
  BY <1>1, <1>2, TypeCorrect, PTL DEF Spec

=============================================================================
