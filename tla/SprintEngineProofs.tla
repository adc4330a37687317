------------------------- MODULE SprintEngineProofs -------------------------
(***************************************************************************)
(* Proofs about the sprint engine: its type invariant, that a REQ reported *)
(* merged has every pull request its terminal carries merged on the forge  *)
(* and no blockers entry left, that one handed back to the user has not    *)
(* landed, that a repo takes one landing at a time and that a branch is    *)
(* rebased only when it must be.  They hold for any batch of REQs, any     *)
(* repos and conflicts, any bounds, and with or without agents that return *)
(* null.                                                                   *)
(***************************************************************************)
EXTENDS SprintEngine, FiniteSetTheorems, TLAPS

LEMMA GateBound == MaxGate \in Nat \ {0}
  BY SprintAssumption DEF SprintAssumption

LEMMA RepoSets == Touched \in [Reqs -> SUBSET Repos]
  BY SprintAssumption DEF SprintAssumption

\* What a reported conflict leaves behind.
LEMMA ConflictEffect ==
  ASSUME TypeOK, NEW r \in Reqs, NEW d \in Repos, Conflict(r, d)
  PROVE  /\ hold' \in [Reqs -> Reqs \union {NoReq}]
         /\ pc' = [pc EXCEPT ![r] = "done"]
         /\ result' = [result EXCEPT ![r] = "merge-conflict"]
         /\ trunk' = trunk
BY DEF TypeOK, Conflict, Ahead, Return

\* What a merged pull request leaves behind.
LEMMA LandEffect ==
  ASSUME TypeOK, NEW r \in Reqs, NEW d \in Repos, NEW clears \in BOOLEAN,
         Land(r, d, clears)
  PROVE  /\ hold' \in [Reqs -> Reqs \union {NoReq}]
         /\ trunk' = trunk \union {<<r, d>>}
         /\ trunk' \subseteq Reqs \X Repos
         /\ base \in [Reqs -> SUBSET (trunk')]
<1>1. hold' \in [Reqs -> Reqs \union {NoReq}]
  BY DEF TypeOK, Land
<1>2. trunk' = trunk \union {<<r, d>>}
  BY DEF Land
<1> QED
  BY <1>1, <1>2 DEF TypeOK

\* One step of the script or of a chain keeps the types.
LEMMA TypeStep == TypeOK /\ [Next]_vars => TypeOK'
<1> SUFFICES ASSUME TypeOK, [Next]_vars PROVE TypeOK'
  OBVIOUS
<1>1. CASE Preflight
  BY <1>1 DEF TypeOK, Preflight, world, Steps
<1>2. CASE BeginBarrier
  BY <1>2 DEF TypeOK, BeginBarrier, world, Steps, Todo
<1>3. CASE BeginUnblock
  BY <1>3 DEF TypeOK, BeginUnblock, world, Steps, Todo
<1>4. CASE EndRun
  BY <1>4 DEF TypeOK, EndRun, chain, world
<1>7. CASE PreflightNull
  BY <1>7 DEF TypeOK, PreflightNull, chain, world
<1>5. ASSUME NEW r \in Reqs, Chain(r) PROVE TypeOK'
  <2>1. CASE Phase0(r)
    BY <2>1 DEF TypeOK, Phase0, Goto, Return, script, Steps, Terminals
  <2>2. CASE GatePass(r)
    BY <2>2, GateBound DEF TypeOK, GatePass, Goto, script, world, Steps
  <2>3. CASE GateFail(r)
    BY <2>3, GateBound DEF TypeOK, GateFail, Return, script, world, Steps,
                           Terminals, Blocked
  <2>4. CASE Plan(r)
    BY <2>4 DEF TypeOK, Plan, Goto, script, world, Steps
  <2>5. CASE Implement(r)
    BY <2>5 DEF TypeOK, Implement, Goto, script, world, Steps
  <2>6. CASE Review(r)
    BY <2>6 DEF TypeOK, Review, Goto, Return, script, world, Steps, Terminals, Blocked
  <2>7. CASE Fix(r)
    BY <2>7 DEF TypeOK, Fix, Goto, script, world, Steps
  <2>8. CASE OpenPRs(r)
    BY <2>8, RepoSets DEF TypeOK, OpenPRs, Goto, script, world, Steps
  <2>9. CASE WatchCI(r)
    BY <2>9 DEF TypeOK, WatchCI, Goto, Return, script, world, Steps, Terminals
  <2>10. CASE VerifyOpen(r)
    BY <2>10 DEF TypeOK, VerifyOpen, Return, script, world, Steps, Terminals
  <2>11. CASE Merge(r)
    <3>1. PICK d \in prs[r] : \/ Conflict(r, d)
                              \/ Land(r, d, freed[r]) /\ Goto(r, "verify")
                              \/ UNCHANGED <<hold, trunk>> /\ Goto(r, "verify")
      BY <2>11 DEF Merge
    <3>2. d \in Repos /\ freed[r] \in BOOLEAN
      BY DEF TypeOK
    <3>3. UNCHANGED <<phase, batch, tries, freed, blocks, prs, worktree, base>>
      BY <2>11 DEF Merge, script
    <3>4. CASE Conflict(r, d)
      BY <3>2, <3>3, <3>4, ConflictEffect DEF TypeOK, Steps, Terminals, Blocked
    <3>5. CASE Land(r, d, freed[r]) /\ Goto(r, "verify")
      BY <3>2, <3>3, <3>5, LandEffect DEF TypeOK, Goto, Steps
    <3>6. CASE UNCHANGED <<hold, trunk>> /\ Goto(r, "verify")
      BY <3>3, <3>6 DEF TypeOK, Goto, Steps
    <3> QED
      BY <3>1, <3>4, <3>5, <3>6
  <2>12. CASE Verify(r)
    BY <2>12 DEF TypeOK, Verify, Verdict, Return, script, world, Steps, Terminals,
                 Blocked
  <2>13. CASE Throw(r)
    BY <2>13, GateBound DEF TypeOK, Throw, Return, script, world, Steps, Terminals
  <2>14. CASE ThrowOut(r)
    BY <2>14 DEF TypeOK, ThrowOut, world, Steps
  <2>15. CASE StartLanding(r)
    BY <2>15 DEF TypeOK, StartLanding, Goto, script, world, Steps
  <2>16. CASE LandPR(r)
    <3>1. PICK d \in prs[r] : \/ Conflict(r, d)
                              \/ Land(r, d, FALSE) /\ UNCHANGED <<pc, result>>
      BY <2>16 DEF LandPR
    <3>2. d \in Repos
      BY DEF TypeOK
    <3>3. UNCHANGED <<phase, batch, tries, freed, blocks, prs, worktree, base>>
      BY <2>16 DEF LandPR, script
    <3>4. CASE Conflict(r, d)
      BY <3>2, <3>3, <3>4, ConflictEffect DEF TypeOK, Steps, Terminals, Blocked
    <3>5. CASE Land(r, d, FALSE) /\ UNCHANGED <<pc, result>>
      BY <3>2, <3>3, <3>5, LandEffect DEF TypeOK
    <3> QED
      BY <3>1, <3>4, <3>5
  <2>17. CASE EndLanding(r)
    BY <2>17 DEF TypeOK, EndLanding, Goto, script, world, Steps
  <2>18. CASE VerifyLanded(r)
    BY <2>18 DEF TypeOK, VerifyLanded, Verdict, Return, script, world, Steps,
                 Terminals, Blocked
  <2>19. CASE NextHeld(r)
    BY <2>19 DEF TypeOK, NextHeld, Goto, script, world, Steps
  <2>20. CASE Rebase(r)
    BY <2>20 DEF TypeOK, Rebase, Goto, Return, script, Steps, Terminals, Blocked
  <2> QED
    BY <1>5, <2>1, <2>2, <2>3, <2>4, <2>5, <2>6, <2>7, <2>8, <2>9, <2>10, <2>11,
       <2>12, <2>13, <2>14, <2>15, <2>16, <2>17, <2>18, <2>19, <2>20 DEF Chain
<1>6. CASE UNCHANGED vars
  BY <1>6 DEF TypeOK, vars, script, chain, world
<1> QED
  BY <1>1, <1>2, <1>3, <1>4, <1>5, <1>6, <1>7 DEF Next, Script

LEMMA TypeInit == Init => TypeOK
  BY GateBound, SprintAssumption
  DEF Init, TypeOK, Steps, Terminals, Blocked, SprintAssumption

\* The variables of the engine keep their types.
THEOREM TypeCorrect == Spec => []TypeOK
  BY TypeInit, TypeStep, PTL DEF Spec

-----------------------------------------------------------------------------
\* A chain knows no pull request but those of its REQ.
PrsTouched == \A r \in Reqs : prs[r] \subseteq Touched[r]

LEMMA PrsInit == Init => PrsTouched
  BY DEF Init, PrsTouched

\* Nothing unmerges a pull request.
LEMMA TrunkGrows ==
  ASSUME TypeOK, [Next]_vars PROVE trunk \subseteq trunk'
<1>1. CASE Script
  BY <1>1 DEF Script, Preflight, PreflightNull, BeginBarrier, BeginUnblock, EndRun, world
<1>2. ASSUME NEW r \in Reqs, Chain(r) PROVE trunk \subseteq trunk'
  BY <1>2 DEF Chain, Phase0, GatePass, GateFail, Plan, Implement, Review, Fix, OpenPRs,
    WatchCI, VerifyOpen, Merge, Verify, Throw, ThrowOut, StartLanding, LandPR,
    EndLanding, VerifyLanded, NextHeld, Rebase, Conflict, Land, world
<1>3. CASE UNCHANGED vars
  BY <1>3 DEF vars, world
<1> QED
  BY <1>1, <1>2, <1>3 DEF Next

LEMMA PrsStep == TypeOK /\ PrsTouched /\ [Next]_vars => PrsTouched'
<1> SUFFICES ASSUME TypeOK, PrsTouched, [Next]_vars PROVE PrsTouched'
  OBVIOUS
<1>1. CASE Script
  BY <1>1 DEF Script, Preflight, PreflightNull, BeginBarrier, BeginUnblock, EndRun, chain,
              PrsTouched
<1>2. ASSUME NEW r \in Reqs, Chain(r) PROVE PrsTouched'
  <2>1. CASE OpenPRs(r)
    BY <2>1 DEF OpenPRs, PrsTouched, TypeOK
  <2>2. CASE VerifyOpen(r)
    BY <2>2 DEF VerifyOpen, PrsTouched, TypeOK
  <2>3. CASE Verify(r) \/ VerifyLanded(r)
    BY <2>3 DEF Verify, VerifyLanded, Verdict, PrsTouched, TypeOK
  <2>4. CASE prs' = prs
    BY <2>4 DEF PrsTouched
  <2> QED
    BY <1>2, <2>1, <2>2, <2>3, <2>4 DEF Chain, Phase0, GatePass, GateFail, Plan, Implement,
      Review, Fix, WatchCI, Merge, Throw, ThrowOut, StartLanding, LandPR, EndLanding,
      NextHeld, Rebase
<1>3. CASE UNCHANGED vars
  BY <1>3 DEF vars, chain, PrsTouched
<1> QED
  BY <1>1, <1>2, <1>3 DEF Next

-----------------------------------------------------------------------------
\* How a REQ's own step moves its chain, whatever the other chains are at: what
\* the two invariants below need to know of the twenty actions of Chain.

Early == {"phase0", "spec", "plan", "arch", "implement", "review", "fix", "openPRs",
          "ci", "verifyOpen", "rebase"}
Unlanded(r) == \E d \in prs[r] : <<r, d>> \notin trunk

\* The chain goes on, or returns, before its merge.
EarlyStep(r) ==
  /\ pc[r] \in Early /\ UNCHANGED <<hold, trunk>>
  /\ \/ pc'[r] \in (Early \ {"rebase"}) \union {"merge"}
     \/ pc'[r] = "done" /\ result'[r] \notin {"merged", "merge-unverified"}
\* A merge agent was told of a conflict.
ConflictStep(r) ==
  /\ pc[r] \in {"merge", "landing"} /\ UNCHANGED trunk
  /\ Unlanded(r) /\ pc'[r] = "done" /\ result'[r] = "merge-conflict"
MergeStep(r)   == pc[r] = "merge" /\ pc'[r] = "verify" /\ hold'[r] \in {hold[r], NoReq}
LandingStep(r) == pc[r] = "landing" /\ pc'[r] \in {"landing", "verifyLanded"} /\ UNCHANGED hold
VerdictStep(r) == /\ pc[r] \in {"verify", "verifyLanded"} /\ UNCHANGED <<hold, trunk>>
                  /\ pc'[r] = "done" /\ result'[r] \in {"merged", "merge-unverified"}
QueueStep(r) ==
  /\ pc[r] = "queued" /\ UNCHANGED <<hold, trunk>>
  /\ \/ /\ phase = "barrier" /\ pc'[r] = "landing"
        /\ \A s \in Group(r, batch) \ {r} : pc[s] \in {"queued", "done"}
     \/ /\ phase = "unblock" /\ pc'[r] = "rebase"
        /\ \A s \in batch : pc[s] \in {"queued", "done"}

LEMMA ChainKinds ==
  ASSUME TypeOK, NEW r \in Reqs, Chain(r), ~ThrowOut(r)
  PROVE  \/ EarlyStep(r) \/ ConflictStep(r) \/ MergeStep(r) \/ LandingStep(r)
         \/ VerdictStep(r) \/ QueueStep(r)
<1> USE DEF TypeOK, Goto, Return
<1>1. CASE Phase0(r) \/ GatePass(r) \/ GateFail(r) \/ Plan(r) \/ Implement(r)
           \/ Review(r) \/ Fix(r)
  BY <1>1 DEF Phase0, GatePass, GateFail, Plan, Implement, Review, Fix, EarlyStep, Early, world
<1>2. CASE OpenPRs(r) \/ WatchCI(r) \/ VerifyOpen(r) \/ Throw(r) \/ Rebase(r)
  BY <1>2 DEF OpenPRs, WatchCI, VerifyOpen, Throw, Rebase, EarlyStep, Early, world
<1>3. CASE Merge(r)
  <2>1. PICK d \in prs[r] : \/ Conflict(r, d)
                            \/ Land(r, d, freed[r]) /\ Goto(r, "verify")
                            \/ UNCHANGED <<hold, trunk>> /\ Goto(r, "verify")
    BY <1>3 DEF Merge
  <2>2. pc[r] = "merge"
    BY <1>3 DEF Merge
  <2>3. CASE Conflict(r, d)
    BY <2>2, <2>3 DEF Conflict, ConflictStep, Unlanded
  <2>4. CASE Land(r, d, freed[r]) /\ Goto(r, "verify")
    BY <2>2, <2>4 DEF Land, MergeStep
  <2>5. CASE UNCHANGED <<hold, trunk>> /\ Goto(r, "verify")
    BY <2>2, <2>5 DEF MergeStep
  <2> QED
    BY <2>1, <2>3, <2>4, <2>5
<1>4. CASE LandPR(r)
  <2>1. PICK d \in prs[r] : \/ Conflict(r, d)
                            \/ Land(r, d, FALSE) /\ UNCHANGED <<pc, result>>
    BY <1>4 DEF LandPR
  <2>2. pc[r] = "landing"
    BY <1>4 DEF LandPR
  <2>3. CASE Conflict(r, d)
    BY <2>2, <2>3 DEF Conflict, ConflictStep, Unlanded
  <2>4. CASE Land(r, d, FALSE) /\ UNCHANGED <<pc, result>>
    BY <2>2, <2>4 DEF Land, LandingStep
  <2> QED
    BY <2>1, <2>3, <2>4
<1>5. CASE Verify(r) \/ VerifyLanded(r)
  BY <1>5 DEF Verify, VerifyLanded, Verdict, VerdictStep, world
<1>6. CASE EndLanding(r)
  BY <1>6 DEF EndLanding, LandingStep, world
<1>7. CASE StartLanding(r) \/ NextHeld(r)
  BY <1>7 DEF StartLanding, NextHeld, QueueStep, world
<1> QED
  BY <1>1, <1>2, <1>3, <1>4, <1>5, <1>6, <1>7 DEF Chain

\* It leaves the other chains, the phase and the queue alone.
LEMMA OthersStay ==
  ASSUME TypeOK, NEW r \in Reqs, Chain(r), ~ThrowOut(r)
  PROVE  /\ UNCHANGED <<phase, batch>>
         /\ \A q \in Reqs \ {r} : /\ pc'[q] = pc[q] /\ result'[q] = result[q]
                                  /\ hold'[q] = hold[q]
                                  /\ \A d \in Repos : <<q, d>> \in trunk' => <<q, d>> \in trunk
<1> USE DEF TypeOK, Goto, Return, script
<1>1. CASE Phase0(r) \/ GatePass(r) \/ GateFail(r) \/ Plan(r) \/ Implement(r)
           \/ Review(r) \/ Fix(r)
  BY <1>1 DEF Phase0, GatePass, GateFail, Plan, Implement, Review, Fix, world
<1>2. CASE OpenPRs(r) \/ WatchCI(r) \/ VerifyOpen(r) \/ Throw(r) \/ Rebase(r)
  BY <1>2 DEF OpenPRs, WatchCI, VerifyOpen, Throw, Rebase, world
<1>3. CASE Merge(r) \/ LandPR(r)
  BY <1>3 DEF Merge, LandPR, Conflict, Land
<1>4. CASE Verify(r) \/ VerifyLanded(r) \/ EndLanding(r) \/ StartLanding(r) \/ NextHeld(r)
  BY <1>4 DEF Verify, VerifyLanded, Verdict, EndLanding, StartLanding, NextHeld, world
<1> QED
  BY <1>1, <1>2, <1>3, <1>4 DEF Chain

-----------------------------------------------------------------------------
\* The barrier: what is queued or landing belongs to its batch, nothing else runs
\* there, and no two REQs of one group are landing at once.

Landing(r) == pc[r] \in {"landing", "verifyLanded"}

LandInv ==
  /\ \A r \in Reqs : Landing(r) => phase = "barrier"
  /\ phase = "barrier" =>
       \A r \in Reqs : \/ pc[r] \in {"off", "done"}
                       \/ r \in batch /\ (pc[r] = "queued" \/ Landing(r))
  /\ \A r, s \in Reqs : r # s /\ Landing(r) /\ Landing(s) => ~SharesRepo(r, s)

LEMMA GroupMates ==
  ASSUME NEW r, NEW s \in batch, SharesRepo(r, s)
  PROVE  s \in Group(r, batch)
BY DEF Group

LEMMA SharingIsMutual == \A r, s : SharesRepo(r, s) => SharesRepo(s, r)
BY DEF SharesRepo

LEMMA LandInvInit == Init => LandInv
BY DEF Init, LandInv, Landing

LEMMA LandInvStep == TypeOK /\ LandInv /\ [Next]_vars => LandInv'
<1> SUFFICES ASSUME TypeOK, LandInv, [Next]_vars PROVE LandInv'
  OBVIOUS
<1>1. CASE Preflight
  BY <1>1 DEF Preflight, LandInv, Landing
<1>2. CASE BeginBarrier
  <2>1. \A r \in Reqs : \/ pc'[r] \in {"off", "done"}
                        \/ r \in batch' /\ pc'[r] = "queued"
    BY <1>2 DEF BeginBarrier, Idle, TypeOK
  <2>2. phase' = "barrier"
    BY <1>2 DEF BeginBarrier
  <2> QED
    BY <2>1, <2>2 DEF LandInv, Landing
<1>3. CASE BeginUnblock
  <2>1. \A r \in Reqs : pc'[r] \in {"off", "done", "queued"}
    BY <1>3 DEF BeginUnblock, Idle, TypeOK
  <2>2. phase' = "unblock"
    BY <1>3 DEF BeginUnblock
  <2> QED
    BY <2>1, <2>2 DEF LandInv, Landing
<1>4. CASE EndRun
  <2>1. phase = "unblock" /\ phase' = "ended" /\ pc' = pc
    BY <1>4 DEF EndRun, chain
  <2> QED
    BY <2>1 DEF LandInv, Landing
<1>7. CASE PreflightNull
  BY <1>7 DEF PreflightNull, chain, world, LandInv, Landing
<1>5. ASSUME NEW r \in Reqs, Chain(r) PROVE LandInv'
  <2>1. CASE ThrowOut(r)
    <3>1. phase' = "crashed" /\ \A q \in Reqs : pc'[q] \in {"off", "done"}
      BY <2>1 DEF ThrowOut
    <3> QED
      BY <3>1 DEF LandInv, Landing
  <2>2. CASE ~ThrowOut(r)
    <3>1. /\ phase' = phase /\ batch' = batch
          /\ \A q \in Reqs \ {r} : pc'[q] = pc[q]
      BY <1>5, <2>2, OthersStay
    <3>2. CASE pc'[r] # "landing" /\ pc'[r] # "verifyLanded"
      <4>1. phase = "barrier" => pc'[r] = "done"
        BY <1>5, <2>2, <3>2, ChainKinds DEF EarlyStep, ConflictStep, MergeStep, LandingStep,
           VerdictStep, QueueStep, LandInv, Landing, Early
      <4> QED
        BY <3>1, <3>2, <4>1 DEF LandInv, Landing
    <3>3. CASE Landing(r) /\ pc'[r] \in {"landing", "verifyLanded"}
      BY <3>1, <3>3 DEF LandInv, Landing
    <3>4. CASE ~Landing(r) /\ pc'[r] \in {"landing", "verifyLanded"}
      <4>1. /\ phase = "barrier" /\ pc[r] = "queued"
            /\ \A s \in Group(r, batch) \ {r} : pc[s] \in {"queued", "done"}
        BY <1>5, <2>2, <3>4, ChainKinds DEF EarlyStep, ConflictStep, MergeStep, LandingStep,
           VerdictStep, QueueStep, Landing, Early
      <4>2. r \in batch
        BY <4>1 DEF LandInv, Landing
      <4>3. ASSUME NEW s \in Reqs, s # r, Landing(s) PROVE ~SharesRepo(r, s)
        <5>1. s \in batch
          BY <4>1, <4>3 DEF LandInv, Landing
        <5> QED
          BY <4>1, <4>3, <5>1, GroupMates DEF Landing
      <4> QED
        BY <3>1, <3>4, <4>1, <4>2, <4>3, SharingIsMutual DEF LandInv, Landing, SharesRepo
    <3> QED
      BY <3>2, <3>3, <3>4
  <2> QED
    BY <2>1, <2>2
<1>6. CASE UNCHANGED vars
  BY <1>6 DEF vars, script, chain, LandInv, Landing
<1> QED
  BY <1>1, <1>2, <1>3, <1>4, <1>5, <1>6, <1>7 DEF Next, Script

LEMMA LandInvHolds == Spec => [](TypeOK /\ LandInv)
<1>1. Init => TypeOK /\ LandInv
  BY TypeInit, LandInvInit
<1>2. (TypeOK /\ LandInv) /\ [Next]_vars => (TypeOK /\ LandInv)'
  BY TypeStep, LandInvStep
<1> QED
  BY <1>1, <1>2, PTL DEF Spec

\* A shared repo takes one merge at a time (ADR-12), for any batch whose Preflight
\* named at least the repos that Phase 0 later finds the REQs to touch.
THEOREM OneLandingPerRepoHolds ==
  ASSUME \A r \in Reqs : Touched[r] \subseteq Scored[r]
  PROVE  Spec => []OneLandingPerRepo
<1>1. TypeOK /\ LandInv => OneLandingPerRepo
  BY DEF LandInv, Landing, OneLandingPerRepo, SharesRepo
<1> QED
  BY <1>1, LandInvHolds, PTL

-----------------------------------------------------------------------------
\* What a halted REQ has landed.  Before its merge a REQ has not landed whole; a
\* REQ with a live blockers entry halted on a conflict; and in the unblock pass
\* one REQ runs at a time, so a crash of the script finds no other half way.

Free(r) == pc[r] \in {"off", "queued", "done"}

HaltInv ==
  /\ \A r \in Reqs :
       \/ pc[r] \in {"verify", "landing", "verifyLanded"}
       \/ pc[r] = "done" /\ result[r] \in {"merged", "merge-unverified"}
       \/ ~AllMerged(r, Touched[r])
  /\ phase \in {"preflight", "pipeline", "barrier"} =>
       \A r \in Reqs : hold[r] # NoReq => pc[r] = "done" /\ result[r] = "merge-conflict"
  /\ phase = "unblock" =>
       /\ \A r \in Reqs : pc[r] = "queued" => r \in batch
       /\ \A r \in Reqs : ~Free(r) => r \in batch
       /\ \A r, s \in Reqs : ~Free(r) /\ ~Free(s) => r = s
  /\ phase = "preflight" => \A r \in Reqs : pc[r] = "off"

LEMMA HaltInvInit == Init => HaltInv
BY DEF Init, HaltInv, Free, AllMerged

\* A REQ's landed pull requests are the same after a step that lands nothing of it.
LEMMA SameLandings ==
  ASSUME NEW q \in Reqs, NEW ds \in SUBSET Repos,
         \A d \in Repos : <<q, d>> \in trunk' => <<q, d>> \in trunk,
         ~AllMerged(q, ds)
  PROVE  ~AllMerged(q, ds)'
BY DEF AllMerged

LEMMA HaltInvStep == TypeOK /\ PrsTouched /\ HaltInv /\ [Next]_vars => HaltInv'
<1> SUFFICES ASSUME TypeOK, PrsTouched, HaltInv, [Next]_vars PROVE HaltInv'
  OBVIOUS
<1>1. CASE Preflight
  <2>1. /\ phase = "preflight" /\ phase' = "pipeline"
        /\ \A r \in Reqs : pc'[r] \in {"off", "phase0"}
        /\ trunk' = trunk /\ hold' = hold
    BY <1>1 DEF Preflight, world
  <2>2. \A r \in Reqs : pc[r] = "off" /\ hold[r] = NoReq
    BY <2>1 DEF HaltInv
  <2> QED
    BY <2>1, <2>2 DEF HaltInv, AllMerged
<1>2. CASE BeginBarrier
  <2>1. /\ phase = "pipeline" /\ phase' = "barrier" /\ trunk' = trunk /\ hold' = hold /\ result' = result
        /\ \A r \in Reqs : pc'[r] = pc[r] \/ (result[r] = "pr-ready" /\ pc'[r] = "queued")
    BY <1>2 DEF BeginBarrier, world, TypeOK
  <2>2. \A r \in Reqs : pc[r] \in {"off", "done"}
    BY <1>2 DEF BeginBarrier, Idle
  <2> QED
    BY <2>1, <2>2 DEF HaltInv, AllMerged
<1>3. CASE BeginUnblock
  <2>1. /\ phase = "barrier" /\ phase' = "unblock" /\ trunk' = trunk /\ hold' = hold /\ result' = result
        /\ \A r \in Reqs : pc'[r] = IF r \in batch' THEN "queued" ELSE pc[r]
        /\ \A r \in batch' : r \in Reqs /\ hold[r] \in Reqs
    BY <1>3 DEF BeginUnblock, world, TypeOK, Todo, Cleared
  <2>2. \A r \in Reqs : pc[r] \in {"off", "done"}
    BY <1>3 DEF BeginUnblock, Idle
  <2>3. ASSUME NEW r \in batch' PROVE ~AllMerged(r, Touched[r])
    <3>1. r \in Reqs /\ hold[r] # NoReq
      BY <2>1, SprintAssumption DEF SprintAssumption
    <3>2. pc[r] = "done" /\ result[r] = "merge-conflict"
      BY <2>1, <3>1 DEF HaltInv
    <3> QED
      BY <3>1, <3>2 DEF HaltInv
  <2> QED
    BY <2>1, <2>2, <2>3 DEF HaltInv, AllMerged, Free
<1>4. CASE EndRun
  <2>1. phase' = "ended" /\ pc' = pc /\ result' = result /\ trunk' = trunk
    BY <1>4 DEF EndRun, chain, world
  <2> QED
    BY <2>1 DEF HaltInv, AllMerged
<1>7. CASE PreflightNull
  BY <1>7 DEF PreflightNull, chain, world, HaltInv, AllMerged
<1>5. ASSUME NEW r \in Reqs, Chain(r) PROVE HaltInv'
  <2>1. CASE ThrowOut(r)
    <3>1. /\ phase = "unblock" /\ phase' = "crashed" /\ result' = result /\ trunk' = trunk
          /\ \A q \in Reqs : pc'[q] = IF pc[q] = "off" THEN "off" ELSE "done"
          /\ pc[r] \in {"phase0", "spec", "plan", "arch"}
      BY <2>1 DEF ThrowOut, world
    <3>2. \A q \in Reqs : pc[q] \notin {"verify", "landing", "verifyLanded"}
      BY <3>1 DEF HaltInv, Free
    <3> QED
      BY <3>1, <3>2 DEF HaltInv, AllMerged
  <2>2. CASE ~ThrowOut(r)
    <3>1. /\ phase' = phase /\ batch' = batch
          /\ \A q \in Reqs \ {r} : /\ pc'[q] = pc[q] /\ result'[q] = result[q]
                                   /\ hold'[q] = hold[q]
                                   /\ \A d \in Repos : <<q, d>> \in trunk' => <<q, d>> \in trunk
      BY <1>5, <2>2, OthersStay
    <3>2. \/ EarlyStep(r) \/ ConflictStep(r) \/ MergeStep(r) \/ LandingStep(r)
          \/ VerdictStep(r) \/ QueueStep(r)
      BY <1>5, <2>2, ChainKinds
    <3>3. \/ pc'[r] \in {"verify", "landing", "verifyLanded"}
          \/ pc'[r] = "done" /\ result'[r] \in {"merged", "merge-unverified"}
          \/ ~AllMerged(r, Touched[r])'
      <4>1. CASE EarlyStep(r)
        BY <4>1 DEF EarlyStep, Early, HaltInv, AllMerged
      <4>2. CASE ConflictStep(r)
        BY <4>2 DEF ConflictStep, Unlanded, PrsTouched, AllMerged
      <4>3. CASE MergeStep(r) \/ LandingStep(r) \/ VerdictStep(r)
        BY <4>3 DEF MergeStep, LandingStep, VerdictStep
      <4>4. CASE QueueStep(r)
        BY <4>4 DEF QueueStep, HaltInv, AllMerged
      <4> QED
        BY <3>2, <4>1, <4>2, <4>3, <4>4
    <3>4. \A q \in Reqs : \/ pc'[q] \in {"verify", "landing", "verifyLanded"}
                          \/ pc'[q] = "done" /\ result'[q] \in {"merged", "merge-unverified"}
                          \/ ~AllMerged(q, Touched[q])'
      BY <3>1, <3>3, RepoSets, SameLandings DEF HaltInv
    <3>5. ASSUME phase' \in {"preflight", "pipeline", "barrier"}, NEW q \in Reqs, hold'[q] # NoReq
          PROVE  pc'[q] = "done" /\ result'[q] = "merge-conflict"
      <4>1. CASE q # r
        BY <3>1, <3>5, <4>1 DEF HaltInv
      <4>2. CASE q = r
        BY <3>1, <3>2, <3>5, <4>2 DEF EarlyStep, Early, ConflictStep, MergeStep, LandingStep,
           VerdictStep, QueueStep, HaltInv
      <4> QED
        BY <4>1, <4>2
    <3>6. ASSUME phase' = "unblock"
          PROVE  /\ \A q \in Reqs : pc'[q] = "queued" => q \in batch'
                 /\ \A q \in Reqs : ~Free(q)' => q \in batch'
                 /\ \A q, s \in Reqs : ~Free(q)' /\ ~Free(s)' => q = s
      <4>1. pc'[r] # "queued"
        BY <3>2 DEF EarlyStep, Early, ConflictStep, MergeStep, LandingStep,
           VerdictStep, QueueStep
      <4>2. CASE QueueStep(r)
        <5>1. r \in batch /\ \A s \in batch : pc[s] \in {"queued", "done"}
          BY <3>1, <3>6, <4>2 DEF QueueStep, HaltInv
        <5>2. \A q \in Reqs : Free(q)
          BY <3>1, <3>6, <5>1 DEF HaltInv, Free
        <5> QED
          BY <3>1, <3>6, <4>1, <5>1, <5>2 DEF HaltInv, Free
      <4>3. CASE ~QueueStep(r)
        <5>1. ~Free(r)
          BY <3>2, <4>3 DEF EarlyStep, Early, ConflictStep, MergeStep,
             LandingStep, VerdictStep, Free
        <5> QED
          BY <3>1, <3>6, <4>1, <5>1 DEF HaltInv, Free
      <4> QED
        BY <4>2, <4>3
    <3>7. phase' = "preflight" => \A q \in Reqs : pc'[q] = "off"
      BY <3>1, <3>2 DEF HaltInv, EarlyStep, Early, ConflictStep, MergeStep, LandingStep,
         VerdictStep, QueueStep
    <3> QED
      BY <3>4, <3>5, <3>6, <3>7 DEF HaltInv
  <2> QED
    BY <2>1, <2>2
<1>6. CASE UNCHANGED vars
  BY <1>6 DEF vars, script, chain, world, HaltInv, Free, AllMerged
<1> QED
  BY <1>1, <1>2, <1>3, <1>4, <1>5, <1>6, <1>7 DEF Next, Script

\* A REQ handed back to the user is not one whose changes all landed, also after
\* the barrier and the unblock pass replaced its terminal, and when an agent's
\* null answer ended the script in the middle of the pass.
THEOREM HaltedIsNotLandedHolds == Spec => []HaltedIsNotLanded
<1>1. Init => TypeOK /\ PrsTouched /\ HaltInv
  BY TypeInit, PrsInit, HaltInvInit
<1>2. (TypeOK /\ PrsTouched /\ HaltInv) /\ [Next]_vars => (TypeOK /\ PrsTouched /\ HaltInv)'
  BY TypeStep, PrsStep, HaltInvStep
<1>3. HaltInv => HaltedIsNotLanded
  BY DEF HaltInv, HaltedIsNotLanded, Blocked
<1> QED
  BY <1>1, <1>2, <1>3, PTL DEF Spec

-----------------------------------------------------------------------------
\* The unblock pass: a REQ that waits there to be rebased is held by one that is
\* not in the pass itself, so the terminal that frees it is final.

Owed(r) == hold[r] \in Reqs \ batch /\ result[hold[r]] \in {"merged", "failed"}

OwedInv ==
  /\ \A r \in Reqs : pc[r] = "rebase" => phase = "unblock"
  /\ phase = "unblock" =>
       \A r \in Reqs : pc[r] \in {"queued", "rebase"} => r \in batch /\ Owed(r)

LEMMA OwedInvInit == Init => OwedInv
BY DEF Init, OwedInv

LEMMA OwedInvStep == TypeOK /\ HaltInv /\ OwedInv /\ [Next]_vars => OwedInv'
<1> SUFFICES ASSUME TypeOK, HaltInv, OwedInv, [Next]_vars PROVE OwedInv'
  OBVIOUS
<1>1. CASE Preflight
  <2>1. phase' = "pipeline" /\ \A r \in Reqs : pc'[r] # "rebase"
    BY <1>1 DEF Preflight
  <2> QED
    BY <2>1 DEF OwedInv
<1>2. CASE BeginBarrier
  <2>1. phase' = "barrier" /\ \A r \in Reqs : pc'[r] # "rebase"
    BY <1>2 DEF BeginBarrier, Idle, TypeOK
  <2> QED
    BY <2>1 DEF OwedInv
<1>3. CASE BeginUnblock
  <2>1. /\ phase = "barrier" /\ phase' = "unblock" /\ hold' = hold /\ result' = result
        /\ \A r \in Reqs : pc'[r] \in {"queued", "rebase"} => r \in batch'
        /\ \A r \in batch' : r \in Reqs /\ hold[r] \in Cleared
    BY <1>3 DEF BeginUnblock, world, TypeOK, Todo, Idle
  <2>2. Cleared \subseteq Reqs /\ \A b \in Cleared : result[b] \in {"merged", "failed"}
    BY DEF Cleared, Todo
  <2>3. ASSUME NEW r \in batch' PROVE hold[r] \notin batch'
    <3>1. ASSUME NEW b \in batch' PROVE result[b] = "merge-conflict"
      BY <2>1, <2>2, <3>1, SprintAssumption DEF HaltInv, SprintAssumption
    <3> QED
      BY <2>1, <2>2, <3>1
  <2> QED
    BY <2>1, <2>2, <2>3 DEF OwedInv, Owed
<1>4. CASE EndRun
  <2>1. phase' = "ended" /\ \A r \in Reqs : pc'[r] # "rebase"
    BY <1>4 DEF EndRun, chain, Idle
  <2> QED
    BY <2>1 DEF OwedInv
<1>7. CASE PreflightNull
  BY <1>7 DEF PreflightNull, chain, world, HaltInv, OwedInv
<1>5. ASSUME NEW r \in Reqs, Chain(r) PROVE OwedInv'
  <2>1. CASE ThrowOut(r)
    <3>1. phase' = "crashed" /\ \A q \in Reqs : pc'[q] # "rebase"
      BY <2>1 DEF ThrowOut
    <3> QED
      BY <3>1 DEF OwedInv
  <2>2. CASE ~ThrowOut(r)
    <3>1. /\ phase' = phase /\ batch' = batch
          /\ \A q \in Reqs \ {r} : pc'[q] = pc[q] /\ result'[q] = result[q] /\ hold'[q] = hold[q]
      BY <1>5, <2>2, OthersStay
    <3>2. \/ EarlyStep(r) \/ ConflictStep(r) \/ MergeStep(r) \/ LandingStep(r)
          \/ VerdictStep(r) \/ QueueStep(r)
      BY <1>5, <2>2, ChainKinds
    <3>3. /\ pc'[r] # "queued"
          /\ pc'[r] = "rebase" => QueueStep(r) /\ phase = "unblock"
      BY <3>2 DEF EarlyStep, Early, ConflictStep, MergeStep, LandingStep, VerdictStep, QueueStep
    <3>4. phase = "unblock" => r \in batch
      BY <3>2 DEF EarlyStep, Early, ConflictStep, MergeStep, LandingStep, VerdictStep,
         QueueStep,
                  HaltInv, Free
    <3>5. ASSUME phase = "unblock", NEW q \in Reqs, pc'[q] \in {"queued", "rebase"}
          PROVE  q \in batch' /\ Owed(q)'
      <4>1. /\ pc[q] \in {"queued", "rebase"} /\ hold'[q] = hold[q]
        BY <3>1, <3>3, <3>5 DEF QueueStep
      <4>2. q \in batch /\ hold[q] \in Reqs \ batch /\ result[hold[q]] \in {"merged", "failed"}
        BY <3>5, <4>1 DEF OwedInv, Owed
      <4> QED
        BY <3>1, <3>4, <3>5, <4>1, <4>2 DEF Owed
    <3> QED
      BY <3>1, <3>3, <3>5 DEF OwedInv
  <2> QED
    BY <2>1, <2>2
<1>6. CASE UNCHANGED vars
  BY <1>6 DEF vars, script, chain, world, OwedInv, Owed
<1> QED
  BY <1>1, <1>2, <1>3, <1>4, <1>5, <1>6, <1>7 DEF Next, Script

-----------------------------------------------------------------------------
\* What becomes of a blockers entry.  A REQ that has one waits on its conflict until
\* the unblock pass frees it, so one that merges was never held, or was freed and
\* cleared its entry when it landed.

Single(r) == \A d, e \in Touched[r] : d = e

\* r is freed by its rebase in the unblock pass, and not before.
NotYetFreed(r) ==
  /\ phase \in {"preflight", "pipeline", "barrier"} => ~freed[r]
  /\ pc[r] \in {"queued", "rebase", "landing", "verifyLanded"} => ~freed[r]
\* r merges itself only with one repo, and lands nowhere else than in its repos.
OwnMerge(r) ==
  /\ pc[r] \in {"merge", "verify"} => Single(r)
  /\ Landed(r) \subseteq Touched[r]
\* A merged r is settled for good.
Final(r) ==
  result[r] = "merged" => pc[r] = "done" /\ hold[r] = NoReq /\ AllMerged(r, prs[r])
\* Landing in its one repo clears the entry of r.
ClearedByLanding(r) == Single(r) /\ Landed(r) # {} => hold[r] = NoReq
\* Until it is freed, a held r waits on its conflict.
Waits(r) ==
  hold[r] # NoReq /\ ~freed[r] =>
    /\ pc[r] \in {"done", "queued", "rebase"}
    /\ result[r] \in {"merge-conflict", "needs-manual-rebase"}
    /\ \E d \in Touched[r] \ Landed(r) : hold[r] \in Ahead(r, d)

Settled(r) == NotYetFreed(r) /\ OwnMerge(r) /\ Final(r) /\ ClearedByLanding(r) /\ Waits(r)

SettledInv == \A r \in Reqs : Settled(r)

LEMMA SettledInit == Init => SettledInv
BY DEF Init, SettledInv, Settled, NotYetFreed, OwnMerge, Final, ClearedByLanding,
  Waits, Landed

\* A repo count of at most one, without counting.
LEMMA AtMostOne ==
  ASSUME NEW r \in Reqs
  PROVE  /\ ~(Cardinality(Touched[r]) > 1) => Single(r)
         /\ Cardinality(Touched[r]) = 1 => \E d : Touched[r] = {d}
<1>1. IsFiniteSet(Touched[r])
  BY RepoSets, FS_Subset, SprintAssumption DEF SprintAssumption
<1>2. Cardinality(Touched[r]) \in Nat
  BY <1>1, FS_CardinalityType
<1>3. Cardinality(Touched[r]) = 1 => \E d : Touched[r] = {d}
  BY <1>1, FS_Singleton
<1>4. Cardinality(Touched[r]) = 0 => Touched[r] = {}
  BY <1>1, FS_EmptySet
<1> QED
  BY <1>2, <1>3, <1>4 DEF Single

\* A REQ whose own chain, branch and pull requests a step leaves alone stays settled,
\* whatever else lands.
LEMMA BystanderStays ==
  ASSUME NEW q \in Reqs, Settled(q), trunk \subseteq trunk',
         \A d \in Repos : <<q, d>> \in trunk' => <<q, d>> \in trunk,
         base'[q] = base[q], prs'[q] = prs[q], freed'[q] = freed[q],
         hold'[q] = hold[q], result'[q] = result[q],
         pc'[q] = pc[q] \/ pc'[q] = "done",
         phase' \in {"preflight", "pipeline", "barrier"}
            => phase \in {"preflight", "pipeline", "barrier"}
  PROVE  Settled(q)'
<1>1. Landed(q)' = Landed(q)
  BY DEF Landed
<1>2. \A d : Ahead(q, d) \subseteq Ahead(q, d)'
  BY DEF Ahead
<1>3. AllMerged(q, prs[q]) => AllMerged(q, prs[q])'
  BY DEF AllMerged
<1> QED
  BY <1>1, <1>2, <1>3 DEF Settled, NotYetFreed, OwnMerge, Final, ClearedByLanding, Waits, Single

\* The chain of a settled REQ leaves it settled.
LEMMA ActorStays ==
  ASSUME TypeOK, PrsTouched, HaltInv, OwedInv, NEW r \in Reqs, Settled(r),
         Chain(r), ~ThrowOut(r)
  PROVE  Settled(r)'
<1> USE DEF TypeOK, Goto, Return, script
<1>1. CASE Phase0(r)
  <2>1. hold[r] # NoReq => freed[r]
    BY <1>1 DEF Phase0, Settled, Waits
  <2>2. pc[r] = "phase0" /\ pc'[r] \in {"done", "spec"} /\ result'[r] \in {result[r], "failed"}
    BY <1>1 DEF Phase0
  <2>3. UNCHANGED <<phase, freed, prs, hold, trunk>>
    BY <1>1 DEF Phase0
  <2>4. result'[r] # "merged"
    BY <2>2 DEF Settled, NotYetFreed, OwnMerge, Final, ClearedByLanding, Waits
  <2>5. Landed(r)' = Landed(r)
    BY <2>3 DEF Landed
  <2>6. hold'[r] # NoReq => freed'[r]
    BY <2>1, <2>3
  <2>7. /\ phase' = phase /\ freed'[r] = freed[r] /\ hold'[r] = hold[r]
        /\ pc'[r] \notin {"queued", "rebase", "landing", "verifyLanded", "merge", "verify"}
    BY <2>2, <2>3
  <2>8. NotYetFreed(r)' /\ OwnMerge(r)'
    BY <2>5, <2>7 DEF Settled, NotYetFreed, OwnMerge
  <2>9. Final(r)' /\ ClearedByLanding(r)' /\ Waits(r)'
    BY <2>4, <2>5, <2>6, <2>7 DEF Settled, Final, ClearedByLanding, Waits, Single
  <2> QED
    BY <2>8, <2>9 DEF Settled
<1>2. CASE GatePass(r) \/ GateFail(r) \/ Plan(r) \/ Implement(r) \/ Review(r) \/ Fix(r)
  BY <1>2 DEF GatePass, GateFail, Plan, Implement, Review, Fix, world, Settled,
     NotYetFreed, OwnMerge, Final, ClearedByLanding, Waits, Single,
              Landed, AllMerged, Ahead
<1>3. CASE WatchCI(r)
  <2>1. pc'[r] = "merge" => Single(r)
    BY <1>3, AtMostOne DEF WatchCI
  <2> QED
    BY <1>3, <2>1 DEF WatchCI, world, Settled, NotYetFreed, OwnMerge, Final,
       ClearedByLanding, Waits, Single, Landed, AllMerged, Ahead
<1>4. CASE OpenPRs(r) \/ VerifyOpen(r) \/ Throw(r) \/ EndLanding(r)
  BY <1>4 DEF OpenPRs, VerifyOpen, Throw, EndLanding, world, Settled, NotYetFreed,
     OwnMerge, Final, ClearedByLanding, Waits, Single, Landed,
              AllMerged, Ahead
<1>5. CASE StartLanding(r) \/ NextHeld(r)
  BY <1>5 DEF StartLanding, NextHeld, HaltInv, world, Settled, NotYetFreed, OwnMerge,
     Final, ClearedByLanding, Waits, Single, Landed, AllMerged,
              Ahead
<1>6. CASE Rebase(r)
  <2>1. phase = "unblock" /\ pc[r] = "rebase"
    BY <1>6 DEF Rebase, OwedInv
  <2> QED
    BY <1>6, <2>1 DEF Rebase, Settled, NotYetFreed, OwnMerge, Final, ClearedByLanding,
       Waits, Single, Landed, AllMerged, Ahead
<1>7. ASSUME NEW d \in prs[r], Conflict(r, d), pc[r] \in {"merge", "landing"},
             UNCHANGED <<phase, freed, prs, base>>
      PROVE  Settled(r)'
  <2>1. d \in Touched[r] \ Landed(r)
    BY <1>7 DEF PrsTouched, Conflict, Landed
  <2>2. hold'[r] \in Ahead(r, d) /\ trunk' = trunk
    BY <1>7 DEF Conflict, Ahead
  <2>3. Single(r) => Landed(r) = {}
    BY <2>1 DEF Settled, NotYetFreed, OwnMerge, Final, ClearedByLanding, Waits, Single, Landed
  <2>4. pc'[r] = "done" /\ result'[r] = "merge-conflict"
    BY <1>7 DEF Conflict
  <2>5. Landed(r)' = Landed(r) /\ Ahead(r, d)' = Ahead(r, d)
    BY <1>7, <2>2 DEF Landed, Ahead
  <2> QED
    BY <1>7, <2>1, <2>2, <2>3, <2>4, <2>5 DEF Settled, NotYetFreed, OwnMerge, Final,
       ClearedByLanding, Waits, Single
<1>8. ASSUME NEW d \in prs[r], NEW clears \in BOOLEAN, Land(r, d, clears), freed[r] => clears,
             <<pc[r], pc'[r]>> \in {<<"merge", "verify">>, <<"landing", "landing">>},
             UNCHANGED <<phase, freed, prs, base, result>>
      PROVE  Settled(r)'
  <2>1. Landed(r)' = Landed(r) \union {d} /\ d \in Touched[r]
    BY <1>8 DEF Land, Landed, PrsTouched
  <2>2. hold'[r] = NoReq
    BY <1>8 DEF Land, Settled, NotYetFreed, Waits
  <2> QED
    BY <1>8, <2>1, <2>2 DEF Settled, NotYetFreed, OwnMerge, Final, ClearedByLanding,
       Waits, Single
<1>9. CASE Merge(r)
  <2>1. /\ pc[r] = "merge" /\ UNCHANGED <<phase, freed, prs, base>>
        /\ \E d \in prs[r] : \/ Conflict(r, d)
                             \/ Land(r, d, freed[r]) /\ Goto(r, "verify")
                             \/ UNCHANGED <<hold, trunk>> /\ Goto(r, "verify")
    BY <1>9 DEF Merge
  <2>2. Goto(r, "verify") => pc'[r] = "verify" /\ result' = result
    OBVIOUS
  <2>3. CASE UNCHANGED <<hold, trunk>> /\ Goto(r, "verify")
    <3>1. hold[r] # NoReq => freed[r]
      BY <2>1 DEF Settled, NotYetFreed, OwnMerge, Final, ClearedByLanding, Waits
    <3> QED
      BY <2>1, <2>2, <2>3, <3>1 DEF Settled, NotYetFreed, OwnMerge, Final,
         ClearedByLanding, Waits, Single, Landed
  <2>4. PICK d \in prs[r] : \/ Conflict(r, d)
                            \/ Land(r, d, freed[r]) /\ Goto(r, "verify")
                            \/ UNCHANGED <<hold, trunk>> /\ Goto(r, "verify")
    BY <2>1
  <2>5. CASE Conflict(r, d)
    BY <1>7, <2>1, <2>5
  <2>6. CASE Land(r, d, freed[r]) /\ Goto(r, "verify")
    <3>1. UNCHANGED <<phase, freed, prs, base, result>>
      BY <2>1, <2>2, <2>6
    <3>2. pc'[r] = "verify" /\ pc[r] = "merge"
      BY <2>1, <2>2, <2>6
    <3>3. freed[r] \in BOOLEAN /\ Land(r, d, freed[r])
      BY <2>6
    <3>4. <<pc[r], pc'[r]>> \in {<<"merge", "verify">>, <<"landing", "landing">>}
      BY <3>2
    <3> QED
      BY <1>8, <3>1, <3>2, <3>3, <3>4
  <2> QED
    BY <2>3, <2>4, <2>5, <2>6
<1>10. CASE LandPR(r)
  <2>1. /\ pc[r] = "landing" /\ UNCHANGED <<phase, freed, prs, base>>
        /\ \E d \in prs[r] : \/ Conflict(r, d)
                             \/ Land(r, d, FALSE) /\ UNCHANGED <<pc, result>>
    BY <1>10 DEF LandPR
  <2>2. ~freed[r]
    BY <2>1 DEF Settled, NotYetFreed, OwnMerge, Final, ClearedByLanding, Waits
  <2> QED
    BY <1>7, <1>8, <2>1, <2>2
<1>11. CASE Verify(r) \/ VerifyLanded(r)
  <2>1. pc[r] \in {"verify", "verifyLanded"} /\ UNCHANGED <<phase, freed, base, hold, trunk>>
    BY <1>11 DEF Verify, VerifyLanded, world
  <2>2. PICK rows \in SUBSET prs[r] :
          IF AllMerged(r, rows)
            THEN Return(r, "merged") /\ prs' = [prs EXCEPT ![r] = rows]
            ELSE Return(r, "merge-unverified") /\ UNCHANGED prs
    BY <1>11 DEF Verify, VerifyLanded, Verdict
  <2>3. AllMerged(r, rows) => hold[r] = NoReq
    <3>1. AllMerged(r, rows) => Landed(r) # {}
      BY DEF AllMerged, Landed
    <3> QED
      BY <2>1, <3>1 DEF Settled, NotYetFreed, OwnMerge, Final, ClearedByLanding, Waits
  <2>4. pc'[r] = "done"
    BY <2>2
  <2>5. \/ result'[r] = "merged" /\ AllMerged(r, prs[r])' /\ hold'[r] = NoReq
        \/ result'[r] = "merge-unverified"
    BY <2>1, <2>2, <2>3 DEF AllMerged
  <2>6. hold'[r] # NoReq => freed[r]
    BY <2>1 DEF Settled, NotYetFreed, OwnMerge, Final, ClearedByLanding, Waits
  <2>7. Landed(r)' = Landed(r)
    BY <2>1 DEF Landed
  <2> QED
    BY <2>1, <2>4, <2>5, <2>6, <2>7 DEF Settled, NotYetFreed, OwnMerge, Final,
       ClearedByLanding, Waits, Single
<1> QED
  BY <1>1, <1>2, <1>3, <1>4, <1>5, <1>6, <1>9, <1>10, <1>11 DEF Chain

\* A chain's step leaves the branch, the pull requests and the release of the others.
LEMMA OthersKeep ==
  ASSUME TypeOK, NEW r \in Reqs, Chain(r), NEW q \in Reqs \ {r}
  PROVE  base'[q] = base[q] /\ prs'[q] = prs[q] /\ freed'[q] = freed[q]
BY DEF TypeOK, Chain, Phase0, GatePass, GateFail, Plan, Implement, Review, Fix, OpenPRs,
  WatchCI, VerifyOpen, Merge, Verify, Verdict, Throw, ThrowOut, StartLanding, LandPR,
  EndLanding, VerifyLanded, NextHeld, Rebase, world

LEMMA SettledStep ==
  TypeOK /\ PrsTouched /\ HaltInv /\ OwedInv /\ SettledInv /\ [Next]_vars => SettledInv'
<1> SUFFICES ASSUME TypeOK, PrsTouched, HaltInv, OwedInv, SettledInv, [Next]_vars
             PROVE  SettledInv'
  OBVIOUS
<1>1. CASE Preflight
  <2>1. /\ phase = "preflight" /\ phase' = "pipeline"
        /\ UNCHANGED <<freed, prs, result, hold, trunk, base>>
        /\ \A r \in Reqs : pc'[r] \in {"off", "phase0"}
    BY <1>1 DEF Preflight, world
  <2>2. \A r \in Reqs : pc[r] = "off" /\ hold[r] = NoReq
    BY <2>1 DEF HaltInv
  <2>3. ASSUME NEW r \in Reqs PROVE Settled(r)'
    <3>1. NotYetFreed(r)' /\ OwnMerge(r)'
      BY <2>1 DEF SettledInv, Settled, NotYetFreed, OwnMerge, Single, Landed
    <3>2. Final(r)'
      BY <2>1, <2>2 DEF SettledInv, Settled, Final
    <3>3. ClearedByLanding(r)' /\ Waits(r)'
      BY <2>1, <2>2 DEF ClearedByLanding, Waits
    <3> QED
      BY <3>1, <3>2, <3>3 DEF Settled
  <2> QED
    BY <2>3 DEF SettledInv
<1>2. CASE PreflightNull \/ EndRun \/ UNCHANGED vars
  <2>1. UNCHANGED <<pc, freed, prs, result, hold, trunk, base>>
    BY <1>2 DEF PreflightNull, EndRun, vars, chain, world
  <2>2. phase' \in {phase, "ended", "crashed"}
    BY <1>2 DEF PreflightNull, EndRun, vars, script
  <2> QED
    BY <2>1, <2>2, TrunkGrows, BystanderStays DEF SettledInv
<1>3. CASE BeginBarrier
  <2>1. /\ phase = "pipeline" /\ phase' = "barrier" /\ UNCHANGED <<freed, prs, result, world>>
        /\ \A r \in Reqs : pc'[r] = pc[r] \/ (result[r] = "pr-ready" /\ pc'[r] = "queued")
    BY <1>3 DEF BeginBarrier, TypeOK
  <2>2. \A r \in Reqs : pc[r] \in {"off", "done"}
    BY <1>3 DEF BeginBarrier, Idle
  <2> QED
    BY <2>1, <2>2 DEF world, SettledInv, Settled, NotYetFreed, OwnMerge, Final,
       ClearedByLanding, Waits, Single, Landed, AllMerged, Ahead
<1>4. CASE BeginUnblock
  <2>1. /\ phase = "barrier" /\ phase' = "unblock" /\ UNCHANGED <<freed, prs, result, world>>
        /\ \A r \in Reqs : pc'[r] = pc[r] \/ (hold[r] \in Reqs /\ pc'[r] = "queued")
    BY <1>4 DEF BeginUnblock, TypeOK, Todo, Cleared
  <2>2. \A r \in Reqs : pc[r] \in {"off", "done"}
    BY <1>4 DEF BeginUnblock, Idle
  <2>3. UNCHANGED <<hold, trunk, base>> /\ NoReq \notin Reqs
    BY <2>1, SprintAssumption DEF world, SprintAssumption
  <2>4. ASSUME NEW r \in Reqs PROVE Settled(r)'
    <3>1. Settled(r) /\ (pc'[r] = pc[r] \/ (hold[r] \in Reqs /\ pc'[r] = "queued"))
      BY <2>1 DEF SettledInv
    <3>2. Settled(r)'
      <4>1. /\ Landed(r)' = Landed(r) /\ \A d : Ahead(r, d)' = Ahead(r, d)
            /\ AllMerged(r, prs[r])' <=> AllMerged(r, prs[r])
        BY <2>1, <2>3 DEF Landed, Ahead, AllMerged
      <4>2. pc'[r] = "queued" => pc[r] = "queued" \/ hold[r] # NoReq
        BY <2>3, <3>1
      <4>3. ~freed[r] /\ pc[r] \in {"off", "done"}
        BY <2>1, <2>2, <3>1 DEF Settled, NotYetFreed, OwnMerge, Final, ClearedByLanding, Waits
      <4>4. result'[r] = result[r] /\ hold'[r] = hold[r] /\ freed'[r] = freed[r]
        BY <2>1, <2>3
      <4>5. phase' = "unblock" /\ pc'[r] \in {pc[r], "queued"}
        BY <2>1, <3>1
      <4> QED
        BY <3>1, <4>1, <4>2, <4>3, <4>4, <4>5 DEF Settled, NotYetFreed, OwnMerge,
           Final, ClearedByLanding, Waits, Single
    <3> QED
      BY <3>2
  <2> QED
    BY <2>4 DEF SettledInv
<1>5. ASSUME NEW r \in Reqs, Chain(r) PROVE SettledInv'
  <2>1. CASE ThrowOut(r)
    <3>1. /\ phase' = "crashed" /\ UNCHANGED <<freed, prs, result, world>>
          /\ \A q \in Reqs : pc'[q] = IF pc[q] = "off" THEN "off" ELSE "done"
      BY <2>1 DEF ThrowOut
    <3> QED
      BY <3>1 DEF world, SettledInv, Settled, NotYetFreed, OwnMerge, Final,
         ClearedByLanding, Waits, Single, Landed, AllMerged, Ahead
  <2>2. CASE ~ThrowOut(r)
    <3>1. trunk \subseteq trunk'
      BY TrunkGrows
    <3>2. ASSUME NEW q \in Reqs \ {r} PROVE Settled(q)'
      BY <1>5, <2>2, <3>1, OthersStay, OthersKeep, BystanderStays DEF SettledInv
    <3> QED
      BY <1>5, <2>2, <3>2, ActorStays DEF SettledInv
  <2> QED
    BY <2>1, <2>2
<1> QED
  BY <1>1, <1>2, <1>3, <1>4, <1>5 DEF Next, Script

SprintInv == TypeOK /\ PrsTouched /\ HaltInv /\ OwedInv /\ SettledInv

LEMMA SprintInvHolds == Spec => []SprintInv
<1>1. Init => SprintInv
  BY TypeInit, PrsInit, HaltInvInit, OwedInvInit, SettledInit DEF SprintInv
<1>2. SprintInv /\ [Next]_vars => SprintInv'
  BY TypeStep, PrsStep, HaltInvStep, OwedInvStep, SettledStep DEF SprintInv
<1> QED
  BY <1>1, <1>2, PTL DEF Spec

\* A REQ reported merged has every pull request its terminal carries merged on the
\* forge - the whole REQ when it touches one repo - whatever the merge agents claimed
\* and whichever answers were null, and the unblock pass never takes it up again.
THEOREM MergedIsLandedHolds == Spec => []MergedIsLanded
<1>1. SprintInv => MergedIsLanded
  <2> SUFFICES ASSUME SprintInv, NEW r \in Reqs, result[r] = "merged"
               PROVE  /\ pc[r] = "done" /\ hold[r] = NoReq
                      /\ AllMerged(r, prs[r])
                      /\ Cardinality(Touched[r]) = 1 => AllMerged(r, Touched[r])
    BY DEF MergedIsLanded
  <2>1. pc[r] = "done" /\ hold[r] = NoReq /\ AllMerged(r, prs[r])
    BY DEF SprintInv, SettledInv, Settled, Final
  <2>2. ASSUME Cardinality(Touched[r]) = 1 PROVE prs[r] = Touched[r]
    <3>1. PICK d : Touched[r] = {d}
      BY <2>2, AtMostOne
    <3> QED
      BY <2>1, <3>1 DEF SprintInv, PrsTouched, AllMerged
  <2> QED
    BY <2>1, <2>2
<1> QED
  BY <1>1, SprintInvHolds, PTL

\* Only two actions touch a branch, and Phase 0 leaves that of a worktree alone.
LEMMA BaseMoves ==
  ASSUME TypeOK, [Next]_vars, NEW r \in worktree, base'[r] # base[r]
  PROVE  pc[r] = "rebase"
<1>1. PICK s \in Reqs : Chain(s)
  BY DEF Next, Script, Preflight, PreflightNull, BeginBarrier, BeginUnblock, EndRun, world, vars
<1>2. Phase0(s) \/ Rebase(s)
  BY <1>1 DEF Chain, GatePass, GateFail, Plan, Implement, Review, Fix, OpenPRs, WatchCI,
    VerifyOpen, Merge, Verify, Throw, ThrowOut, StartLanding, LandPR, EndLanding,
    VerifyLanded, NextHeld, world
<1>3. CASE Phase0(s)
  BY <1>3 DEF Phase0, TypeOK
<1>4. CASE Rebase(s)
  BY <1>4 DEF Rebase, TypeOK
<1> QED
  BY <1>2, <1>3, <1>4

\* An existing worktree is rebased only for a REQ whose blocker ended merged or failed
\* in this run, and over a landed pull request of it that the branch conflicts with and
\* does not contain, in a repo where the REQ has not landed (BR-2, BR-9 and BR-11).
THEOREM RebaseIsOwedHolds == Spec => RebaseIsOwed
<1>1. SprintInv /\ [Next]_vars => [RebasedWhenOwed]_vars
  <2> SUFFICES ASSUME SprintInv, [Next]_vars, NEW r \in worktree, base'[r] # base[r]
               PROVE  /\ hold[r] \in Reqs /\ result[hold[r]] \in {"merged", "failed"}
                      /\ \E d \in Touched[r] \ Landed(r) : hold[r] \in Ahead(r, d)
    BY DEF RebasedWhenOwed
  <2>1. r \in Reqs /\ pc[r] = "rebase"
    BY BaseMoves DEF SprintInv, TypeOK
  <2>2. hold[r] \in Reqs /\ result[hold[r]] \in {"merged", "failed"}
    BY <2>1 DEF SprintInv, OwedInv, Owed
  <2>3. \E d \in Touched[r] \ Landed(r) : hold[r] \in Ahead(r, d)
    BY <2>1, <2>2, SprintAssumption 
    DEF SprintInv, SettledInv, Settled, NotYetFreed, Waits, SprintAssumption
  <2> QED
    BY <2>2, <2>3
<1> QED
  BY <1>1, SprintInvHolds, PTL DEF Spec, RebaseIsOwed
=============================================================================
