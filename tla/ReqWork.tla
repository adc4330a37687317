------------------------------ MODULE ReqWork ------------------------------
(***************************************************************************)
(* Phases 4 and 5 of one REQ of the sprint engine, which SprintEngine      *)
(* takes as the three steps Implement, Review and Fix: the serial          *)
(* implementation of the architect's tasks with the record a later session *)
(* resumes from, then the review panel, the consolidation of its findings, *)
(* the one fix and the one re-verification.                                *)
(*                                                                         *)
(* A task is its position in the architect's plan.  A member of the panel  *)
(* answers with a set of findings or is lost (null).  A finding is a       *)
(* record [key, severity, mustFix, userFacing]: key stands for the file    *)
(* and the normalised title, severity counts down from 0 = Critical.  A    *)
(* session may die at any call; the next one starts from the state file    *)
(* and has no journal of the calls already answered.                       *)
(***************************************************************************)
EXTENDS Integers, Sequences, FiniteSets, FiniteSetsExt

CONSTANTS
    Tiers,     \* the tier of each task of the plan, or NoTier
    NoTier,
    Repo,      \* the repos of the REQ
    Reviewer,  \* REVIEWER_DIMENSIONS
    Reflector,
    Says,      \* Says[m]: the sets of findings a member m may answer with
    NoReport,  \* a lost answer, or none yet
    Faults     \* "drop": a call may return null

\* The schema of a task's tier is an integer, without bounds.
ASSUME TiersAssumption == Tiers \in Seq(Int \union {NoTier})

\* The schema of an answer, a list of findings.
ASSUME VoicesAssumption ==
    /\ IsFiniteSet(Repo) /\ IsFiniteSet(Reviewer)
    /\ \A m \in Reviewer \union {Reflector} : \A a \in Says[m] :
        /\ a # NoReport /\ IsFiniteSet(a)
        /\ \A f \in a : f.severity \in 0..3 /\ {f.mustFix, f.userFacing} \subseteq BOOLEAN

VARIABLES
    pc,        \* the call the chain awaits
    answer,    \* which halt args.answers[id] was the user's reply to
    recorded,  \* pipeline-state.json.phase4.completedTasks
    todo,      \* the tasks this session has yet to get through
    asked,     \* the members whose answer is awaited
    reports,   \* findingsByRepo
    fresh,     \* reverified
    verdict,   \* consolidated.findings
    attempted, \* (history) tasks an implementer has worked on, in any session
    said       \* (history) what each member answered last in this session

tasks == <<recorded, todo, attempted>>
panel == <<asked, reports, fresh, verdict, said>>
vars  == <<pc, answer, tasks, panel>>

Task   == DOMAIN Tiers
Member == Reviewer \union {Reflector}
Panel  == Repo \X Member
Severities == 0..3
Silence == [p \in Panel |-> NoReport]
Dropped == "drop" \in Faults
Answered == answer # "none"

-----------------------------------------------------------------------------
(* Phase 4                                                                 *)

\* A task without a tier sorts as tier 0.
TierOf(t) == IF Tiers[t] = NoTier THEN 0 ELSE Tiers[t]

\* (mutant) In plan order.
BeforeInPlan(s, t) == s < t

\* orderByTier: by tier, and in plan order within a tier.
Before(s, t) == TierOf(s) < TierOf(t) \/ (TierOf(s) = TierOf(t) /\ s < t)

Current == CHOOSE t \in todo : \A s \in todo \ {t} : Before(t, s)

\* The REQ comes here on its first run or resumed after a failed gate.
Init ==
    /\ pc = "read" /\ answer \in {"none", "gate"}
    /\ recorded = {} /\ attempted = {}
    /\ todo = {}
    /\ asked = {} /\ reports = Silence /\ fresh = Silence /\ verdict = {}
    /\ said = Silence

TasksLeft(known) == Task \ known

\* A null read counts as nothing completed.
ReadCompleted ==
    /\ pc = "read"
    /\ \/ todo' = TasksLeft(recorded)
       \/ Dropped /\ todo' = TasksLeft({})
    /\ pc' = "tasks"
    /\ UNCHANGED <<answer, recorded, attempted, panel>>

\* The implementer of the next task ends; what it answers is not looked at.
Implement ==
    /\ pc = "tasks" /\ todo # {}
    /\ attempted' = attempted \union {Current}
    /\ pc' = "record"
    /\ UNCHANGED <<answer, recorded, todo, panel>>

\* The state write; the script goes on whether or not it took place.
Record ==
    /\ pc = "record"
    /\ \/ recorded' = recorded \union {Current}
       \/ Dropped /\ UNCHANGED recorded
    /\ todo' = todo \ {Current}
    /\ pc' = "tasks"
    /\ UNCHANGED <<answer, attempted, panel>>

-----------------------------------------------------------------------------
(* Consolidation of findings                                               *)

Flat(rep) ==
    UNION {{[repo |-> p[1], key |-> f.key, severity |-> f.severity,
             mustFix |-> f.mustFix, dims |-> {p[2]}] : f \in rep[p]} :
           p \in {q \in Panel : rep[q] # NoReport}}

Same(f, g) == f.repo = g.repo /\ f.key = g.key

\* (mutant) The severity of the first one stays.
WorseFirst(f, g) ==
    [g EXCEPT !.mustFix = @ \/ f.mustFix, !.dims = @ \union f.dims]

Worse(f, g) ==
    [g EXCEPT !.severity = IF f.severity < @ THEN f.severity ELSE @,
              !.mustFix = @ \/ f.mustFix, !.dims = @ \union f.dims]

Absorb(f, survivors) ==
    IF \E g \in survivors : Same(f, g)
      THEN {IF Same(f, g) THEN Worse(f, g) ELSE g : g \in survivors}
      ELSE survivors \union {f}

\* Findings on one key in one repo collapse; one key in two repos is tagged.
DedupeAndRank(rep) ==
    LET deduped == FoldSet(Absorb, {}, Flat(rep))
    IN  {[repo |-> f.repo, key |-> f.key, severity |-> f.severity,
          mustFix |-> f.mustFix, dims |-> f.dims,
          crossRepo |-> \E g \in deduped : g.key = f.key /\ g.repo # f.repo] :
         f \in deduped}

Blocking(findings) == {f \in findings : f.severity = 0 \/ f.mustFix}
Blocks(findings) == Blocking(findings) # {}

ReflectorQuestions(rep) ==
    \E d \in Repo : /\ rep[<<d, Reflector>>] # NoReport
                    /\ \E f \in rep[<<d, Reflector>>] : f.userFacing

\* (mutant) The reflector is asked again as well.
FixedPairsOfAll(findings) ==
    {p \in Panel : \E f \in Blocking(findings) : f.repo = p[1] /\ p[2] \in f.dims}

\* (mutant) Every reviewer looks again after a fix.
FixedPairsEverywhere(findings) == Repo \X Reviewer

\* The reviewers to ask again: those that raised a blocking finding.
FixedPairs(findings) ==
    {p \in Repo \X Reviewer :
        \E f \in Blocking(findings) : f.repo = p[1] /\ p[2] \in f.dims}

\* (mutant) What was asked again is replaced, also by a lost answer.
MergeReverifiedAsked(original, again) ==
    [p \in Panel |-> IF p \in FixedPairs(verdict) THEN again[p] ELSE original[p]]

\* Only an answer that came replaces the original one.
MergeReverified(original, again) ==
    [p \in Panel |-> IF again[p] # NoReport THEN again[p] ELSE original[p]]

-----------------------------------------------------------------------------
(* Phase 5                                                                 *)

TasksDone ==
    /\ pc = "tasks" /\ todo = {}
    /\ asked' = Panel
    /\ pc' = "panel"
    /\ UNCHANGED <<answer, recorded, todo, attempted,
                   reports, fresh, verdict, said>>

\* The members of a fan-out answer in any order.
Report(p) ==
    /\ pc \in {"panel", "recheck"} /\ p \in asked
    /\ asked' = asked \ {p}
    /\ \E a \in Says[p[2]] \union (IF Dropped THEN {NoReport} ELSE {}) :
        /\ IF pc = "panel" THEN reports' = [reports EXCEPT ![p] = a] /\ UNCHANGED fresh
                           ELSE fresh' = [fresh EXCEPT ![p] = a] /\ UNCHANGED reports
        /\ said' = IF a = NoReport THEN said ELSE [said EXCEPT ![p] = a]
    /\ UNCHANGED <<pc, answer, tasks, verdict>>

\* Blocking findings do, and so does the reply to a question of this pass.
NeedsFix(findings) == Blocks(findings) \/ (Answered /\ ReflectorQuestions(reports))

\* An open question halts the REQ before anything is consolidated.
Judge ==
    /\ pc = "panel" /\ asked = {}
    /\ IF ReflectorQuestions(reports) /\ ~Answered
         THEN pc' = "halted" /\ UNCHANGED verdict
         ELSE /\ verdict' = DedupeAndRank(reports)
              /\ pc' = IF NeedsFix(verdict') THEN "fix" ELSE "done"
    /\ UNCHANGED <<answer, tasks, asked, reports, fresh, said>>

\* One fix, told the user's reply if there is one, then one re-verification.
Fix ==
    /\ pc = "fix"
    /\ asked' = FixedPairs(verdict)
    /\ pc' = "recheck"
    /\ UNCHANGED <<answer, tasks, reports, fresh, verdict, said>>

Rejudge ==
    /\ pc = "recheck" /\ asked = {}
    /\ reports' = MergeReverified(reports, fresh)
    /\ verdict' = DedupeAndRank(reports')
    /\ pc' = "done"
    /\ UNCHANGED <<answer, tasks, asked, fresh, said>>

-----------------------------------------------------------------------------
(* The user and the environment                                            *)

\* A new session knows what the state file holds.
NewSession ==
    /\ pc' = "read"
    /\ todo' = {}
    /\ asked' = {} /\ reports' = Silence /\ fresh' = Silence /\ verdict' = {}
    /\ said' = Silence
    /\ UNCHANGED <<recorded, attempted>>

\* The user replies to the question and the REQ is run again.
Relaunch == pc = "halted" /\ answer' = "question" /\ NewSession

\* The session dies, here or in a later phase, and is started again.
Crash == pc \notin {"read", "halted"} /\ UNCHANGED answer /\ NewSession

Next ==
    \/ ReadCompleted \/ Implement \/ Record \/ TasksDone
    \/ (\E p \in Panel : Report(p)) \/ Judge \/ Fix \/ Rejudge
    \/ Relaunch \/ Crash

Spec == Init /\ [][Next]_vars

-----------------------------------------------------------------------------
(* Properties                                                              *)

Findings == UNION {UNION Says[m] : m \in Member}

\* The state the actions work on keeps its shape; in particular the reflector is
\* not asked again, which could only raise a question nobody is there to answer.
TypeOK ==
    /\ pc \in {"read", "tasks", "record", "panel", "halted", "fix", "recheck", "done"}
    /\ answer \in {"none", "gate", "question"}
    /\ recorded \subseteq attempted /\ attempted \subseteq Task /\ todo \subseteq Task
    /\ pc = "record" => todo # {}
    /\ asked \subseteq IF pc = "recheck" THEN Repo \X Reviewer ELSE Panel
    /\ {reports, fresh, said} \subseteq
           [Panel -> {NoReport} \union UNION {Says[m] : m \in Member}]
    /\ \A f \in verdict : /\ f.repo \in Repo /\ f.severity \in Severities
                          /\ f.dims \subseteq Member /\ f.dims # {}

\* No implementer starts before those of all lower tiers have run, in this or an
\* earlier session, whatever was recorded, lost or interrupted (ADR-5).
TierOrder ==
    pc = "record" =>
        \A t \in Task : TierOf(t) < TierOf(Current) => t \in attempted

\* The consolidated findings are those the panel raised: one for each key and
\* repo, as severe as the most severe one, mustFix if any is, naming every member
\* that raised it, and tagged if another repo has it too (BR-7).
StrongestSurvives ==
    LET Raised(d, k) == {x \in Member \X Findings :
                            /\ reports[<<d, x[1]>>] # NoReport
                            /\ x[2] \in reports[<<d, x[1]>>] /\ x[2].key = k}
        Keys == {f.key : f \in Findings}
        Found == {y \in Repo \X Keys : Raised(y[1], y[2]) # {}}
        Strongest(d, k) ==
            [repo |-> d, key |-> k,
             severity |-> Min({x[2].severity : x \in Raised(d, k)}),
             mustFix |-> \E x \in Raised(d, k) : x[2].mustFix,
             dims |-> {x[1] : x \in Raised(d, k)},
             crossRepo |-> \E c \in Repo \ {d} : Raised(c, k) # {}]
    IN  pc \in {"fix", "recheck", "done"} => verdict = {Strongest(y[1], y[2]) : y \in Found}

\* What counts in the end is the last thing each member said: a reviewer that is
\* lost in the re-verification does not take its finding with it (AC-5).
LastWordCounts == pc = "done" => reports = said

\* SprintEngine with this REQ alone, which is 1, and replied = {1} or {}.
SprintPc ==
    CASE pc \in {"read", "tasks", "record"} -> "implement"
      [] pc = "panel" -> "review"
      [] pc \in {"fix", "recheck"} -> "fix"
      [] pc = "halted" -> "done"
      [] pc = "done" -> "openPRs"
One(v) == [r \in {1} |-> v]
Sprint(replied) == INSTANCE SprintEngine WITH
    Reqs <- {1}, Repos <- Repo, Touched <- One(Repo), Scored <- One(Repo),
    Conflicts <- {}, MaxConcurrent <- 1, MaxGate <- 1, MaxRebase <- 1,
    Answers <- replied, Faults <- {}, NoReq <- 0,
    phase <- "pipeline", batch <- {}, pc <- One(SprintPc), tries <- One(1),
    freed <- One(FALSE), blocks <- One(Blocks(verdict)), prs <- One({}),
    result <- One(IF pc = "halted" THEN "questions" ELSE "none"),
    hold <- One(0), worktree <- {1}, base <- One({}), trunk <- {}
SprintStep(replied) ==
    \/ Sprint(replied)!Implement(1)
    \/ Sprint(replied)!Review(1)
    \/ Sprint(replied)!Fix(1)

\* Until the next session starts, every step is one SprintEngine takes or changes
\* nothing it sees: a question halts exactly the unanswered REQ, and findings
\* block after the fix only if they blocked before it.
ImplementsSprint ==
    [][\/ pc' = "read"
       \/ Answered /\ SprintStep({1})
       \/ ~Answered /\ SprintStep({})]_<<SprintPc, Blocks(verdict)>>

\* What verify() says of its answers: a reflector question is not asked only if
\* the user has already answered this REQ's reflector question.
QuestionIsAsked ==
    pc = "done" /\ ReflectorQuestions(reports) => answer = "question"
=============================================================================
