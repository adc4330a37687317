---------------------------- MODULE SprintEngine ----------------------------
(***************************************************************************)
(* The Workflow sprint engine (workflows/adlc-sprint.workflow.js): one     *)
(* script drives a batch of REQs.  Preflight picks at most MaxConcurrent   *)
(* of them; each runs its own chain of phases (runReq), interleaved with   *)
(* the others at every awaited agent call; after all of them ended, a      *)
(* merge barrier lands the cross-repo REQs and an unblock pass rebases and *)
(* re-runs REQs held behind one that landed.  A run may itself be the      *)
(* relaunch of one in which nothing landed, with the answers of the user   *)
(* to the REQs that halted.                                                *)
(*                                                                         *)
(* Agents are the environment: a leaf that merges, verifies, scans or      *)
(* rebases does what its prompt says, fails to, or returns null, and one   *)
(* that lists pull requests may leave some out: the script never compares  *)
(* a list with the repos the REQ touches.  The forge is the ground truth:  *)
(* a pull request of a REQ lands unless it conflicts with one that landed  *)
(* after the REQ's branch was based.                                       *)
(***************************************************************************)
EXTENDS Integers, FiniteSets

CONSTANTS
    Reqs,          \* the requested REQ ids, ordered as their strings are
    Repos,         \* the repositories of the product
    Touched,       \* Touched[r]: the repos Phase 0 finds r touches
    Scored,        \* Scored[r]: the touchedRepos Preflight reported for r
    Conflicts,     \* sets {r, s} of REQs whose changes conflict
    MaxConcurrent, \* MAX_CONCURRENT_REQS
    MaxGate,       \* MAX_GATE_ITERATIONS
    MaxRebase,     \* AUTO_REBASE_MAX_ATTEMPTS
    Answers,       \* args.answers: the halted REQs the user answered
    Faults,        \* "drop": an agent call may return null
    NoReq          \* no blockers entry

ASSUME SprintAssumption ==
    /\ Reqs \subseteq Nat /\ IsFiniteSet(Reqs) /\ IsFiniteSet(Repos)
    /\ Touched \in [Reqs -> SUBSET Repos] /\ Scored \in [Reqs -> SUBSET Repos]
    /\ Conflicts \subseteq SUBSET Reqs
    /\ MaxConcurrent \in Nat /\ MaxGate \in Nat \ {0} /\ MaxRebase \in Nat \ {0}
    /\ Answers \subseteq Reqs
    /\ Faults \subseteq {"drop"} /\ NoReq \notin Reqs

VARIABLES
    phase,     \* what the script's top level is at
    pc,        \* pc[r]: the agent call r's chain awaits
    tries,     \* tries[r]: the validations of the gate r is in
    freed,     \* args.blockerCleared[r] is set
    blocks,    \* blocks[r]: Phase 5 ended with blocking findings
    prs,       \* prs[r]: the repos of the pull requests r's chain knows
    result,    \* result[r]: r's TERMINAL value
    batch,     \* the REQs the barrier or the unblock pass works through
    hold,      \* hold[r]: blockers.blockedBy in r's pipeline-state.json
    worktree,  \* REQs with a worktree
    base,      \* base[r]: the landed changes r's branch contains
    trunk      \* <<r, d>>: r's pull request in repo d is MERGED

script == <<phase, batch>>
chain  == <<pc, tries, freed, blocks, prs, result>>
world  == <<hold, worktree, base, trunk>>
vars   == <<script, chain, world>>

Steps == {"off", "phase0", "spec", "plan", "arch", "implement", "review", "fix",
          "openPRs", "ci", "merge", "verify", "verifyOpen", "queued", "landing",
          "verifyLanded", "rebase", "done"}
Blocked == {"validation", "questions", "merge-conflict", "merge-unverified",
            "needs-manual-rebase"}
Terminals == Blocked \union {"merged", "pr-ready", "failed", "thrown"}

-----------------------------------------------------------------------------
(* The forge and the git graph                                             *)

Landed(r) == {d \in Repos : <<r, d>> \in trunk}

\* The landed REQs that keep r's pull request in d from merging.
Ahead(r, d) == {s \in Reqs : <<s, d>> \in trunk \ base[r] /\ {r, s} \in Conflicts}

\* What `gh pr view` says of the pull requests in ds: every one is MERGED.
AllMerged(r, ds) == ds # {} /\ \A d \in ds : <<r, d>> \in trunk

Todo == {r \in Reqs : pc[r] # "off"}
Idle == \A r \in Reqs : pc[r] \in {"off", "done"}

Dropped == "drop" \in Faults

\* REQs that share a repo, directly or along a chain of the REQs in S.
SharesRepo(r, s) == Scored[r] \intersect Scored[s] # {}
Group(r, S) ==
    {s \in S : \A C \in SUBSET S :
        (r \in C /\ \A a \in C, b \in S : SharesRepo(a, b) => b \in C) => s \in C}

-----------------------------------------------------------------------------
Init ==
    /\ phase = "preflight" /\ batch = {}
    /\ pc = [r \in Reqs |-> "off"] /\ tries = [r \in Reqs |-> 1]
    /\ freed = [r \in Reqs |-> FALSE]
    /\ blocks = [r \in Reqs |-> FALSE] /\ prs = [r \in Reqs |-> {}]
    /\ result = [r \in Reqs |-> "none"]
    /\ hold = [r \in Reqs |-> NoReq]
    /\ worktree = Answers
    /\ base = [r \in Reqs |-> {}] /\ trunk = {}

\* selectEligible: the agent ranks the eligible REQs, the first MaxConcurrent run.
Preflight ==
    /\ phase = "preflight"
    /\ \E eligible \in SUBSET Reqs : \E todo \in SUBSET eligible :
        /\ \/ todo = eligible /\ Cardinality(eligible) <= MaxConcurrent
           \/ Cardinality(todo) = MaxConcurrent
        /\ pc' = [r \in Reqs |-> IF r \in todo THEN "phase0" ELSE "off"]
    /\ phase' = "pipeline"
    /\ UNCHANGED <<batch, tries, freed, blocks, prs, result, world>>

\* A null eligibility record is dereferenced: the script fails before any chain.
PreflightNull ==
    /\ phase = "preflight" /\ Dropped
    /\ phase' = "crashed"
    /\ UNCHANGED <<batch, chain, world>>

-----------------------------------------------------------------------------
(* runReq: one REQ's chain of phases                                       *)

Goto(r, at) == pc' = [pc EXCEPT ![r] = at] /\ UNCHANGED result
Return(r, terminal) ==
    /\ pc' = [pc EXCEPT ![r] = "done"]
    /\ result' = [result EXCEPT ![r] = terminal]

\* The worktree is cut from the fetched integration branch, or reused.
Phase0(r) ==
    /\ pc[r] = "phase0"
    /\ IF Touched[r] = {}
         THEN Return(r, "failed") /\ UNCHANGED <<worktree, base>>
         ELSE /\ Goto(r, "spec")
              /\ worktree' = worktree \union {r}
              /\ base' = IF r \in worktree THEN base
                                           ELSE [base EXCEPT ![r] = trunk]
    /\ UNCHANGED <<script, tries, freed, blocks, prs, hold, trunk>>

\* gate: validate; on a failure fix and validate again, MaxGate times in all.
\* The count is the gate's own and starts over with the next one.
GatePass(r) ==
    /\ pc[r] \in {"spec", "arch"}
    /\ Goto(r, IF pc[r] = "spec" THEN "plan" ELSE "implement")
    /\ tries' = [tries EXCEPT ![r] = 1]
    /\ UNCHANGED <<script, freed, blocks, prs, world>>

\* (mutant) The last failing validation is fixed and counted once more.
GateFailOneMore(r) ==
    /\ pc[r] \in {"spec", "arch"}
    /\ IF tries[r] > MaxGate
         THEN Return(r, "validation") /\ UNCHANGED tries
         ELSE tries' = [tries EXCEPT ![r] = @ + 1] /\ UNCHANGED <<pc, result>>
    /\ UNCHANGED <<script, freed, blocks, prs, world>>

\* (mutant) The last failure starts the count over instead of halting.
GateFailForever(r) ==
    /\ pc[r] \in {"spec", "arch"}
    /\ tries' = [tries EXCEPT ![r] = IF @ = MaxGate THEN 1 ELSE @ + 1]
    /\ UNCHANGED <<script, pc, result, freed, blocks, prs, world>>

GateFail(r) ==
    /\ pc[r] \in {"spec", "arch"}
    /\ IF tries[r] = MaxGate
         THEN Return(r, "validation") /\ tries' = [tries EXCEPT ![r] = 1]
         ELSE tries' = [tries EXCEPT ![r] = @ + 1] /\ UNCHANGED <<pc, result>>
    /\ UNCHANGED <<script, freed, blocks, prs, world>>

\* The explore trio and the architect's plan.
Plan(r) ==
    /\ pc[r] = "plan"
    /\ Goto(r, "arch")
    /\ UNCHANGED <<script, tries, freed, blocks, prs, world>>

\* Phase 4: every task of the plan, one writer at a time.
Implement(r) ==
    /\ pc[r] = "implement"
    /\ Goto(r, "review")
    /\ UNCHANGED <<script, tries, freed, blocks, prs, world>>

\* verify, the panel: an unanswered question of the reflector halts the REQ;
\* blocking findings, or an answer to apply, go through one fix.
Review(r) ==
    /\ pc[r] = "review"
    /\ \E question, blocking \in BOOLEAN :
        /\ blocks' = [blocks EXCEPT ![r] = blocking]
        /\ IF question /\ r \notin Answers
             THEN Return(r, "questions")
             ELSE Goto(r, IF blocking \/ question THEN "fix" ELSE "openPRs")
    /\ UNCHANGED <<script, tries, freed, prs, world>>

\* The fix and the one re-verification of the dimensions it touched; nothing is
\* re-checked when nothing was blocking.
Fix(r) ==
    /\ pc[r] = "fix"
    /\ \E left \in BOOLEAN :
        /\ left => blocks[r]
        /\ blocks' = [blocks EXCEPT ![r] = left]
    /\ Goto(r, "openPRs")
    /\ UNCHANGED <<script, tries, freed, prs, world>>

\* One leaf opens the pull requests of all the repos; the chain knows those it lists.
OpenPRs(r) ==
    /\ pc[r] = "openPRs"
    /\ \E opened \in SUBSET Touched[r] : prs' = [prs EXCEPT ![r] = opened]
    /\ Goto(r, "ci")
    /\ UNCHANGED <<script, tries, freed, blocks, world>>

\* Phase 7, then the start of wrapupAndMerge: a cross-repo REQ only has its pull
\* requests viewed, a single-repo REQ merges its own.
WatchCI(r) ==
    /\ pc[r] = "ci"
    /\ IF Cardinality(Touched[r]) > 1 THEN Goto(r, "verifyOpen")
       ELSE IF prs[r] = {} THEN Return(r, "failed")
       ELSE Goto(r, "merge")
    /\ UNCHANGED <<script, tries, freed, blocks, prs, world>>

\* The terminal carries the rows the verification returned: none for null.
VerifyOpen(r) ==
    /\ pc[r] = "verifyOpen"
    /\ \E rows \in SUBSET prs[r] : prs' = [prs EXCEPT ![r] = rows]
    /\ Return(r, "pr-ready")
    /\ UNCHANGED <<script, tries, freed, blocks, world>>

\* A leaf told of a conflict stops; the blockers entry names one it waits for.
Conflict(r, d) ==
    /\ <<r, d>> \notin trunk
    /\ \E s \in Ahead(r, d) : hold' = [hold EXCEPT ![r] = s]
    /\ Return(r, "merge-conflict")
    /\ UNCHANGED trunk

\* The merge command goes through; on a blocker-cleared resume of a single-repo
\* REQ the same state write clears the blockers entry.
Land(r, d, clears) ==
    /\ <<r, d>> \notin trunk /\ Ahead(r, d) = {}
    /\ trunk' = trunk \union {<<r, d>>}
    /\ hold' = IF clears THEN [hold EXCEPT ![r] = NoReq] ELSE hold

\* The self-merge agent: it may also end without merging, whatever it claims.
Merge(r) ==
    /\ pc[r] = "merge"
    /\ \E d \in prs[r] :
        \/ Conflict(r, d)
        \/ Land(r, d, freed[r]) /\ Goto(r, "verify")
        \/ UNCHANGED <<hold, trunk>> /\ Goto(r, "verify")
    /\ UNCHANGED <<script, tries, freed, blocks, prs, worktree, base>>

\* (mutant) One MERGED row is enough.
VerdictAny(r) ==
    \E rows \in SUBSET prs[r] :
        IF \E d \in rows : <<r, d>> \in trunk
          THEN Return(r, "merged") /\ prs' = [prs EXCEPT ![r] = rows]
          ELSE Return(r, "merge-unverified") /\ UNCHANGED prs

\* Claim is not truth: only the forge's MERGED, in every row the verification
\* returned, makes the REQ merged; that terminal carries these rows.
Verdict(r) ==
    \E rows \in SUBSET prs[r] :
        IF AllMerged(r, rows)
          THEN Return(r, "merged") /\ prs' = [prs EXCEPT ![r] = rows]
          ELSE Return(r, "merge-unverified") /\ UNCHANGED prs

Verify(r) ==
    /\ pc[r] = "verify"
    /\ Verdict(r)
    /\ UNCHANGED <<script, tries, freed, blocks, world>>

\* A null Phase-0 record, gate verdict or plan is dereferenced: the chain throws,
\* and the pipeline keeps null for the REQ.
Throw(r) ==
    /\ Dropped /\ phase = "pipeline"
    /\ pc[r] \in {"phase0", "spec", "plan", "arch"}
    /\ Return(r, "thrown")
    /\ tries' = [tries EXCEPT ![r] = 1]
    /\ UNCHANGED <<script, freed, blocks, prs, world>>

\* In the unblock pass nothing catches it: the script fails and returns nothing.
ThrowOut(r) ==
    /\ Dropped /\ phase = "unblock"
    /\ pc[r] \in {"phase0", "spec", "plan", "arch"}
    /\ phase' = "crashed"
    /\ pc' = [s \in Reqs |-> IF pc[s] = "off" THEN "off" ELSE "done"]
    /\ UNCHANGED <<batch, tries, freed, blocks, prs, result, world>>

-----------------------------------------------------------------------------
(* sequenceCrossRepoMerges: the barrier                                    *)

\* A pr-ready REQ without a pull request keeps its terminal.
BeginBarrier ==
    /\ phase = "pipeline" /\ Idle
    /\ phase' = "barrier"
    /\ batch' = {r \in Todo : result[r] = "pr-ready"}
    /\ pc' = [r \in Reqs |->
                IF r \in batch' /\ prs[r] # {} THEN "queued" ELSE pc[r]]
    /\ UNCHANGED <<tries, freed, blocks, prs, result, world>>

\* (mutant) Every queued REQ starts at once.
StartLandingAtOnce(r) ==
    /\ phase = "barrier" /\ pc[r] = "queued"
    /\ Goto(r, "landing")
    /\ UNCHANGED <<script, tries, freed, blocks, prs, world>>

\* Groups run side by side, the REQs of one group after each other.
StartLanding(r) ==
    /\ phase = "barrier" /\ pc[r] = "queued"
    /\ \A s \in Group(r, batch) \ {r} : pc[s] \in {"queued", "done"}
    /\ Goto(r, "landing")
    /\ UNCHANGED <<script, tries, freed, blocks, prs, world>>

\* The barrier's merge agent, one pull request at a time.
LandPR(r) ==
    /\ pc[r] = "landing"
    /\ \E d \in prs[r] :
        \/ Conflict(r, d)
        \/ Land(r, d, FALSE) /\ UNCHANGED <<pc, result>>
    /\ UNCHANGED <<script, tries, freed, blocks, prs, worktree, base>>

\* It ends, having merged all of them or not.
EndLanding(r) ==
    /\ pc[r] = "landing"
    /\ Goto(r, "verifyLanded")
    /\ UNCHANGED <<script, tries, freed, blocks, prs, world>>

VerifyLanded(r) ==
    /\ pc[r] = "verifyLanded"
    /\ Verdict(r)
    /\ UNCHANGED <<script, tries, freed, blocks, world>>

-----------------------------------------------------------------------------
(* unblockHeldReqs: one pass over the held REQs                            *)

\* (mutant) A blocker that halted is cleared too.
ClearedHalted == {r \in Todo : result[r] \in {"merged", "failed", "merge-conflict"}}

Cleared == {r \in Todo : result[r] \in {"merged", "failed"}}

\* (mutant) The scan does not look for a live blockers entry.
BeginUnblockAll ==
    /\ phase = "barrier" /\ Idle
    /\ batch' = IF Cleared = {} THEN {} ELSE Todo
    /\ phase' = "unblock"
    /\ pc' = [r \in Reqs |-> IF r \in batch' THEN "queued" ELSE pc[r]]
    /\ UNCHANGED <<tries, freed, blocks, prs, result, world>>

\* The scan leaf reports the REQs with a live blockers entry on a cleared one.
BeginUnblock ==
    /\ phase = "barrier" /\ Idle
    /\ \/ batch' = {r \in Todo : hold[r] \in Cleared}
       \/ Dropped /\ batch' = {}
    /\ phase' = "unblock"
    /\ pc' = [r \in Reqs |-> IF r \in batch' THEN "queued" ELSE pc[r]]
    /\ UNCHANGED <<tries, freed, blocks, prs, result, world>>

\* unblockOneReq: the lowest id first, one at a time.
NextHeld(r) ==
    /\ phase = "unblock" /\ pc[r] = "queued"
    /\ \A s \in batch : pc[s] \in {"queued", "done"} /\ (pc[s] = "queued" => r <= s)
    /\ Goto(r, "rebase")
    /\ UNCHANGED <<script, tries, freed, blocks, prs, world>>

\* A clean rebase re-runs the REQ's chain; a conflict aborts the rebase.  The
\* count of attempts starts over each time: nothing writes rebaseAttempts.
Rebase(r) ==
    /\ pc[r] = "rebase"
    /\ \/ /\ base' = [base EXCEPT ![r] = trunk]
          /\ freed' = [freed EXCEPT ![r] = TRUE]
          /\ Goto(r, "phase0")
       \/ /\ Return(r, IF MaxRebase <= 1 THEN "needs-manual-rebase"
                                         ELSE "merge-conflict")
          /\ UNCHANGED <<base, freed>>
    /\ UNCHANGED <<script, tries, blocks, prs, hold, worktree, trunk>>

EndRun ==
    /\ phase = "unblock" /\ Idle
    /\ phase' = "ended"
    /\ UNCHANGED <<batch, chain, world>>

-----------------------------------------------------------------------------
Chain(r) ==
    \/ Phase0(r) \/ GatePass(r) \/ GateFail(r) \/ Plan(r) \/ Implement(r)
    \/ Review(r) \/ Fix(r) \/ OpenPRs(r) \/ WatchCI(r) \/ VerifyOpen(r)
    \/ Merge(r) \/ Verify(r) \/ Throw(r) \/ ThrowOut(r)
    \/ StartLanding(r) \/ LandPR(r) \/ EndLanding(r) \/ VerifyLanded(r)
    \/ NextHeld(r) \/ Rebase(r)
Script == Preflight \/ PreflightNull \/ BeginBarrier \/ BeginUnblock \/ EndRun
Next == Script \/ \E r \in Reqs : Chain(r)

Spec == Init /\ [][Next]_vars

\* Agent calls return and the script goes on; nothing else is owed.
FairSpec == Spec /\ WF_vars(Script) /\ \A r \in Reqs : WF_vars(Chain(r))

-----------------------------------------------------------------------------
(* Properties                                                              *)

\* The state the actions work on keeps its shape.
TypeOK ==
    /\ phase \in {"preflight", "pipeline", "barrier", "unblock", "ended", "crashed"}
    /\ batch \subseteq Reqs
    /\ pc \in [Reqs -> Steps] /\ tries \in [Reqs -> 1..MaxGate]
    /\ freed \in [Reqs -> BOOLEAN]
    /\ blocks \in [Reqs -> BOOLEAN] /\ prs \in [Reqs -> SUBSET Repos]
    /\ result \in [Reqs -> Terminals \union {"none"}]
    /\ hold \in [Reqs -> Reqs \union {NoReq}] /\ worktree \subseteq Reqs
    /\ trunk \subseteq Reqs \X Repos /\ base \in [Reqs -> SUBSET trunk]

\* A REQ reported merged is settled.  Every pull request its terminal carries is
\* merged on the forge - for a REQ of one repo that is the whole REQ - and no claim
\* of a merge agent, null answer or partial landing ends as "merged" (BR-6,
\* allMerged); and no blockers entry of it is left, so that the unblock pass never
\* takes it up again, a REQ that was itself held before it landed included (BR-11).
MergedIsLanded ==
    \A r \in Reqs : result[r] = "merged" =>
        /\ pc[r] = "done" /\ hold[r] = NoReq
        /\ AllMerged(r, prs[r])
        /\ Cardinality(Touched[r]) = 1 => AllMerged(r, Touched[r])

\* A REQ that halted for the user - validation, question, conflict, rebase - is
\* not one whose changes all landed, also after the barrier and the unblock pass
\* replaced its terminal: no landed REQ is handed back as work to do.
HaltedIsNotLanded ==
    \A r \in Reqs :
        pc[r] = "done" /\ result[r] \in Blocked \ {"merge-unverified"}
            => ~AllMerged(r, Touched[r])

\* While the barrier lands a REQ, no other REQ lands or merges itself in a repo
\* they share (ADR-12: a shared repo takes one merge at a time).
OneLandingPerRepo ==
    \A r, s \in Reqs :
        /\ r # s /\ pc[r] \in {"landing", "verifyLanded"}
        /\ pc[s] \in {"merge", "landing", "verifyLanded"}
        => Touched[r] \intersect Touched[s] = {}

\* An existing worktree is only ever rebased for a REQ held behind one that ended
\* merged or failed in this run, and while it must be: in a repo where the REQ has
\* not landed, a pull request of the blocker has, conflicts with the REQ's branch
\* and is not in it yet (BR-2, BR-9, BR-11 of REQ-485).
RebasedWhenOwed ==
    \A r \in worktree :
        base'[r] # base[r] =>
            /\ hold[r] \in Reqs /\ result[hold[r]] \in {"merged", "failed"}
            /\ \E d \in Touched[r] \ Landed(r) : hold[r] \in Ahead(r, d)
RebaseIsOwed == [][RebasedWhenOwed]_vars

\* The batch comes to an end whatever the agents answer: no gate, queue or
\* rebase is retried for ever and no REQ waits for another that waits for it.
RunEnds == <>(phase \in {"ended", "crashed"})

\* What verify() says of its findings: the merge gate of Phase 8 acts on them, so
\* a REQ with blocking findings left after its one fix is not merged.
UnresolvedIsNotMerged ==
    \A r \in Reqs : result[r] = "merged" => ~blocks[r]

=============================================================================
