--------------------------- MODULE ReqWorkProofs ---------------------------
(***************************************************************************)
(* Proofs about the work of one REQ: its type correctness, in which order  *)
(* its tasks run, which answers of its panel count in the end, that the    *)
(* consolidation of the findings is what its definition says, and that all *)
(* of it is what SprintEngine takes for three steps.  For any plan, panel  *)
(* and answers, with or without lost ones, however often the session dies. *)
(***************************************************************************)
EXTENDS ReqWork, FiniteSetTheorems, WellFoundedInduction, TLAPS

\* ------------------------------------------------------ 1. the order of tasks

LEMMA TaskFacts ==
  /\ IsFiniteSet(Task)
  /\ \A t \in Task : TierOf(t) \in Int /\ t \in Int
<1>1. Task = 1 .. Len(Tiers) /\ Len(Tiers) \in Nat
  BY TiersAssumption DEF TiersAssumption, Task
<1>2. IsFiniteSet(Task)
  BY <1>1, FS_Interval
<1>3. \A t \in Task : TierOf(t) \in Int /\ t \in Int
  BY <1>1, TiersAssumption DEF TiersAssumption, Task, TierOf
<1> QED
  BY <1>2, <1>3

\* The tasks that come before a task, and how many they are.
Earlier(t) == {s \in Task : Before(s, t)}
Rank == [t \in Task |-> Cardinality(Earlier(t))]

LEMMA RankGrows ==
  /\ Rank \in [Task -> Nat]
  /\ \A s, t \in Task : Before(s, t) => Rank[s] < Rank[t]
<1>1. \A t \in Task : IsFiniteSet(Earlier(t)) /\ Cardinality(Earlier(t)) \in Nat
  BY TaskFacts, FS_Subset, FS_CardinalityType DEF Earlier
<1>2. ASSUME NEW s \in Task, NEW t \in Task, Before(s, t) PROVE Rank[s] < Rank[t]
  <2>1. Earlier(s) \subseteq Earlier(t)
    BY <1>2, TaskFacts DEF Earlier, Before
  <2>2. s \in Earlier(t) /\ s \notin Earlier(s)
    BY <1>2, TaskFacts DEF Earlier, Before
  <2>3. Cardinality(Earlier(s)) <= Cardinality(Earlier(t))
    BY <1>1, <2>1, FS_Subset
  <2>4. Cardinality(Earlier(s)) # Cardinality(Earlier(t))
    BY <1>1, <2>1, <2>2, FS_Subset
  <2> QED
    BY <1>1, <2>3, <2>4 DEF Rank
<1> QED
  BY <1>1, <1>2 DEF Rank

\* Some task of the ones left comes before all the others.
LEMMA FirstExists ==
  ASSUME NEW T \in SUBSET Task, T # {}
  PROVE  \E t \in T : \A s \in T \ {t} : Before(t, s)
<1> PICK ranks : ranks = {Rank[t] : t \in T}
  OBVIOUS
<1>1. ranks \subseteq Nat /\ ranks # {}
  BY RankGrows
<1>2. PICK n \in ranks : \A m \in ranks : ~(<<m, n>> \in OpToRel(<, Nat))
  BY <1>1, NatLessThanWellFounded, WFMin
<1>3. PICK t \in T : Rank[t] = n
  OBVIOUS
<1>4. ASSUME NEW s \in T \ {t} PROVE Before(t, s)
  <2>1. ~(Rank[s] < Rank[t])
    BY <1>1, <1>2, <1>3 DEF OpToRel
  <2>2. ~Before(s, t)
    BY <2>1, RankGrows
  <2> QED
    BY <2>2, TaskFacts DEF Before
<1> QED
  BY <1>4

\* A task of the plan is left to do in this session or was worked on; the
\* implementer that is being recorded is the one of the current task.
TierInv ==
  /\ todo \subseteq Task /\ recorded \subseteq attempted
  /\ pc \in {"tasks", "record"} => Task \subseteq todo \union attempted
  /\ pc = "record" => todo # {} /\ Current \in attempted

LEMMA CurrentIsFirst ==
  ASSUME todo \in SUBSET Task, todo # {}
  PROVE  Current \in todo /\ \A s \in todo \ {Current} : Before(Current, s)
BY FirstExists DEF Current

LEMMA TierInvInit == Init => TierInv
BY DEF Init, TierInv

\* The steps of the panel and of a new session.
LEMMA PanelKeepsTasks ==
  ASSUME TierInv,
         \/ TasksDone \/ (\E p \in Panel : Report(p)) \/ Judge \/ Fix \/ Rejudge
         \/ Relaunch \/ Crash
  PROVE  TierInv'
<1>1. \/ UNCHANGED tasks /\ pc' \notin {"tasks", "record"}
      \/ todo' = {} /\ UNCHANGED <<recorded, attempted>> /\ pc' = "read"
  <2>1. CASE TasksDone
    BY <2>1 DEF TasksDone, tasks
  <2>2. ASSUME NEW p \in Panel, Report(p) PROVE UNCHANGED tasks /\ pc' \notin {"tasks", "record"}
    BY <2>2 DEF Report, tasks
  <2>3. CASE Judge \/ Fix \/ Rejudge
    BY <2>3 DEF Judge, Fix, Rejudge, tasks
  <2>4. CASE Relaunch \/ Crash
    BY <2>4 DEF Relaunch, Crash, NewSession
  <2> QED
    BY <2>1, <2>2, <2>3, <2>4
<1> QED
  BY <1>1 DEF TierInv, tasks

LEMMA TierInvStep == TierInv /\ [Next]_vars => TierInv'
<1> SUFFICES ASSUME TierInv, [Next]_vars PROVE TierInv'
  OBVIOUS
<1>1. CASE ReadCompleted
  BY <1>1 DEF ReadCompleted, TasksLeft, TierInv
<1>2. CASE Implement
  <2>1. Current' = Current
    BY <1>2 DEF Implement, Current
  <2> QED
    BY <1>2, <2>1 DEF Implement, TierInv
<1>3. CASE Record
  <2>1. /\ pc = "record" /\ pc' = "tasks" /\ todo' = todo \ {Current} /\ attempted' = attempted
        /\ recorded' \subseteq recorded \union {Current}
    BY <1>3 DEF Record
  <2> QED
    BY <2>1 DEF TierInv
<1>4. CASE UNCHANGED vars
  <2>1. Current' = Current
    BY <1>4 DEF vars, tasks, Current
  <2> QED
    BY <1>4, <2>1 DEF vars, tasks, TierInv
<1> QED
  BY <1>1, <1>2, <1>3, <1>4, PanelKeepsTasks DEF Next

\* No implementer starts before those of all lower tiers have run, in this or an
\* earlier session, whatever was recorded or lost (orderByTier, ADR-5).
THEOREM TierOrderHolds == Spec => []TierOrder
<1>1. ASSUME TierInv, pc = "record", NEW t \in Task, TierOf(t) < TierOf(Current)
      PROVE  t \in attempted
  <2>1. /\ todo \in SUBSET Task /\ Current \in attempted
        /\ Current \in todo /\ \A s \in todo \ {Current} : Before(Current, s)
    BY <1>1, CurrentIsFirst DEF TierInv
  <2>2. CASE t = Current
    BY <2>1, <2>2
  <2>3. CASE t # Current
    <3>1. ~Before(Current, t)
      BY <1>1, <2>1, TaskFacts DEF Before
    <3> QED
      BY <1>1, <2>1, <2>3, <3>1 DEF TierInv
  <2> QED
    BY <2>2, <2>3
<1>2. TierInv => TierOrder
  BY <1>1 DEF TierOrder
<1> QED
  BY <1>2, TierInvInit, TierInvStep, PTL DEF Spec

\* ------------------------------------------------ 2. the answers that count

\* During the panel the answers are what was said; during the re-verification
\* what was said is the fresh answer where one came, the first one elsewhere.
\* A member that has not answered this time has left no mark of it.
WordInv ==
  /\ \A f \in {reports, fresh, said} : f = [p \in Panel |-> f[p]]
  /\ asked \subseteq Panel
  /\ pc \in {"read", "tasks", "record"} => reports = Silence /\ fresh = Silence /\ said = Silence
  /\ pc \in {"panel", "fix", "halted"} => fresh = Silence
  /\ pc \in {"panel", "fix", "done"} => reports = said
  /\ pc = "panel" => \A p \in asked : reports[p] = NoReport
  /\ pc = "recheck" => \A p \in asked : fresh[p] = NoReport
  /\ pc = "recheck" => said = MergeReverified(reports, fresh)

LEMMA WordInvInit == Init => WordInv
BY DEF Init, WordInv, Silence

\* One answer of the panel or of the re-verification.
LEMMA ReportKeeps ==
  ASSUME WordInv, NEW p \in Panel, Report(p)
  PROVE  WordInv'
<1>1. PICK a : /\ IF pc = "panel" THEN reports' = [reports EXCEPT ![p] = a] /\ UNCHANGED fresh
                                  ELSE fresh' = [fresh EXCEPT ![p] = a] /\ UNCHANGED reports
               /\ said' = IF a = NoReport THEN said ELSE [said EXCEPT ![p] = a]
  BY DEF Report
<1>2. pc \in {"panel", "recheck"} /\ pc' = pc /\ p \in asked /\ asked' = asked \ {p}
  BY DEF Report
<1>3. DOMAIN reports = Panel /\ DOMAIN fresh = Panel /\ DOMAIN said = Panel
  BY DEF WordInv
<1>4. \A f \in {reports', fresh', said'} : f = [q \in Panel |-> f[q]]
  BY <1>1, <1>3 DEF WordInv
<1>5. CASE pc = "panel"
  <2>1. fresh' = fresh /\ fresh = Silence
    BY <1>1, <1>5 DEF WordInv
  <2>2. reports' = said'
    BY <1>1, <1>2, <1>3, <1>5 DEF WordInv
  <2>3. \A q \in asked' : reports'[q] = NoReport
    BY <1>1, <1>2, <1>3, <1>5 DEF WordInv
  <2> QED
    BY <1>2, <1>4, <1>5, <2>1, <2>2, <2>3 DEF WordInv
<1>6. CASE pc = "recheck"
  <2>1. \A q \in Panel : said'[q] = IF fresh'[q] # NoReport THEN fresh'[q] ELSE reports'[q]
    BY <1>1, <1>2, <1>3, <1>6 DEF WordInv, MergeReverified
  <2>2. said' = MergeReverified(reports', fresh')
    BY <1>4, <2>1 DEF MergeReverified
  <2>3. \A q \in asked' : fresh'[q] = NoReport
    BY <1>1, <1>2, <1>3, <1>6 DEF WordInv
  <2> QED
    BY <1>2, <1>4, <1>6, <2>2, <2>3 DEF WordInv, MergeReverified
<1> QED
  BY <1>2, <1>5, <1>6

LEMMA FixKeeps ==
  ASSUME WordInv, Fix
  PROVE  WordInv'
<1>1. /\ pc = "fix" /\ pc' = "recheck" /\ asked' = FixedPairs(verdict)
      /\ UNCHANGED <<reports, fresh, said>>
  BY DEF Fix
<1>2. FixedPairs(verdict) \subseteq Panel
  BY DEF FixedPairs, Panel, Member
<1>3. fresh = Silence /\ reports = said /\ reports = [p \in Panel |-> reports[p]]
  BY <1>1 DEF WordInv
<1>4. said = MergeReverified(reports, fresh)
  BY <1>3 DEF MergeReverified, Silence
<1>5. \A p \in asked' : fresh[p] = NoReport
  BY <1>1, <1>2, <1>3 DEF Silence
<1> QED
  BY <1>1, <1>2, <1>4, <1>5 DEF WordInv, MergeReverified

LEMMA WordInvStep == WordInv /\ [Next]_vars => WordInv'
<1> SUFFICES ASSUME WordInv, [Next]_vars PROVE WordInv'
  OBVIOUS
<1>1. CASE ReadCompleted \/ Implement \/ Record
  BY <1>1 DEF ReadCompleted, Implement, Record, panel, WordInv
<1>2. CASE TasksDone
  <2>1. /\ pc = "tasks" /\ pc' = "panel" /\ asked' = Panel /\ UNCHANGED <<reports, fresh, said>>
    BY <1>2 DEF TasksDone
  <2>2. reports = Silence /\ fresh = Silence /\ said = Silence
    BY <2>1 DEF WordInv
  <2> QED
    BY <2>1, <2>2 DEF WordInv, Silence
<1>3. ASSUME NEW p \in Panel, Report(p) PROVE WordInv'
  BY <1>3, ReportKeeps
<1>4. CASE Judge
  <2>1. /\ pc = "panel" /\ pc' \in {"halted", "fix", "done"}
        /\ UNCHANGED <<asked, reports, fresh, said>>
    BY <1>4 DEF Judge
  <2> QED
    BY <2>1 DEF WordInv
<1>5. CASE Fix
  BY <1>5, FixKeeps
<1>6. CASE Rejudge
  <2>1. /\ pc = "recheck" /\ pc' = "done" /\ reports' = MergeReverified(reports, fresh)
        /\ UNCHANGED <<asked, fresh, said>>
    BY <1>6 DEF Rejudge
  <2>2. reports' = said
    BY <2>1 DEF WordInv
  <2> QED
    BY <2>1, <2>2 DEF WordInv
<1>7. CASE Relaunch \/ Crash
  <2>1. pc' = "read" /\ asked' = {} /\ reports' = Silence /\ fresh' = Silence /\ said' = Silence
    BY <1>7 DEF Relaunch, Crash, NewSession
  <2> QED
    BY <2>1 DEF WordInv, Silence
<1>8. CASE UNCHANGED vars
  BY <1>8 DEF vars, panel, WordInv, MergeReverified
<1> QED
  BY <1>1, <1>2, <1>3, <1>4, <1>5, <1>6, <1>7, <1>8 DEF Next

\* What counts in the end is the last thing each member said, in whichever order
\* the answers came and whichever were lost (mergeReverified, AC-5).
THEOREM LastWordCountsHolds == Spec => []LastWordCounts
<1>1. WordInv => LastWordCounts
  BY DEF WordInv, LastWordCounts
<1> QED
  BY <1>1, WordInvInit, WordInvStep, PTL DEF Spec

\* ------------------------------------- 3. three steps of SprintEngine, at most

\* A verdict that is given is that of the answers as they stand; if nothing of it
\* blocks, then nobody was asked again.
VerdictInv ==
  /\ pc \in {"fix", "recheck", "done"} => verdict = DedupeAndRank(reports)
  /\ (pc = "recheck" /\ ~Blocks(verdict)) => asked = {} /\ fresh = Silence

LEMMA NoneAskedAgain ==
  ASSUME NEW findings, ~Blocks(findings)
  PROVE  FixedPairs(findings) = {}
BY DEF Blocks, FixedPairs

LEMMA VerdictInvStep == WordInv /\ VerdictInv /\ [Next]_vars => VerdictInv'
<1> SUFFICES ASSUME WordInv, VerdictInv, [Next]_vars PROVE VerdictInv'
  OBVIOUS
<1>1. CASE ReadCompleted \/ Implement \/ Record \/ TasksDone
  BY <1>1 DEF ReadCompleted, Implement, Record, TasksDone, VerdictInv
<1>2. ASSUME NEW p \in Panel, Report(p) PROVE VerdictInv'
  <2>1. /\ pc' = pc /\ verdict' = verdict /\ p \in asked
        /\ pc = "recheck" => reports' = reports
    BY <1>2 DEF Report
  <2>2. pc \in {"panel", "recheck"}
    BY <1>2 DEF Report
  <2> QED
    BY <2>1, <2>2 DEF VerdictInv
<1>3. CASE Judge
  <2>1. /\ pc' \in {"fix", "done"} => verdict' = DedupeAndRank(reports)
        /\ pc' # "recheck" /\ reports' = reports
    BY <1>3 DEF Judge
  <2> QED
    BY <2>1 DEF VerdictInv
<1>4. CASE Fix
  <2>1. /\ pc = "fix" /\ pc' = "recheck" /\ verdict' = verdict /\ reports' = reports
        /\ fresh' = fresh /\ asked' = FixedPairs(verdict)
    BY <1>4 DEF Fix
  <2>2. fresh = Silence
    BY <2>1 DEF WordInv
  <2>3. Silence' = Silence
    BY DEF Silence
  <2> QED
    BY <2>1, <2>2, <2>3, NoneAskedAgain DEF VerdictInv
<1>5. CASE Rejudge \/ Relaunch \/ Crash
  BY <1>5 DEF Rejudge, Relaunch, Crash, NewSession, VerdictInv
<1>6. CASE UNCHANGED vars
  BY <1>6 DEF vars, panel, VerdictInv, Silence
<1> QED
  BY <1>1, <1>2, <1>3, <1>4, <1>5, <1>6 DEF Next

\* The steps that SprintEngine does not see.
Unseen == UNCHANGED <<SprintPc, Blocks(verdict)>>

LEMMA TasksDoneIsImplement ==
  ASSUME TasksDone, NEW replied
  PROVE  Sprint(replied)!Implement(1)
<1>1. pc = "tasks" /\ pc' = "panel" /\ verdict' = verdict
  BY DEF TasksDone
<1>2. SprintPc = "implement" /\ SprintPc' = "review"
  BY <1>1 DEF SprintPc
<1> QED
  BY <1>1, <1>2 DEF Sprint!Implement, Sprint!Goto, Sprint!script, Sprint!world, One

LEMMA JudgeIsReview ==
  ASSUME Judge, NEW replied, (1 \in replied) <=> Answered
  PROVE  Sprint(replied)!Review(1)
<1>1. pc = "panel" /\ SprintPc = "review"
  BY DEF Judge, SprintPc
<1>2. PICK question, blocking \in BOOLEAN :
        /\ question = ReflectorQuestions(reports) /\ blocking = Blocks(verdict')
  BY DEF ReflectorQuestions, Blocks
<1>3. CASE question /\ ~Answered
  <2>1. pc' = "halted" /\ SprintPc' = "done"
    BY <1>2, <1>3 DEF Judge, SprintPc
  <2> QED
    BY <1>1, <1>2, <1>3, <2>1 DEF Sprint!Review, Sprint!Return, Sprint!script, Sprint!world, One
<1>4. CASE ~(question /\ ~Answered)
  <2>1. /\ pc' = IF blocking \/ question THEN "fix" ELSE "done"
    BY <1>2, <1>4 DEF Judge, NeedsFix
  <2>2. SprintPc' = IF blocking \/ question THEN "fix" ELSE "openPRs"
    BY <2>1 DEF SprintPc
  <2> QED
    BY <1>1, <1>2, <1>4, <2>1, <2>2
    DEF Sprint!Review, Sprint!Goto, Sprint!script, Sprint!world, One
<1> QED
  BY <1>3, <1>4

LEMMA RejudgeIsFix ==
  ASSUME WordInv, VerdictInv, Rejudge, NEW replied
  PROVE  Sprint(replied)!Fix(1)
<1>1. /\ pc = "recheck" /\ pc' = "done" /\ SprintPc = "fix" /\ SprintPc' = "openPRs"
      /\ reports' = MergeReverified(reports, fresh) /\ verdict' = DedupeAndRank(reports')
  BY DEF Rejudge, SprintPc
<1>2. ASSUME ~Blocks(verdict) PROVE verdict' = verdict
  <2>1. fresh = Silence /\ reports = [p \in Panel |-> reports[p]]
    BY <1>1, <1>2 DEF VerdictInv, WordInv
  <2>2. reports' = reports
    BY <1>1, <2>1 DEF MergeReverified, Silence
  <2> QED
    BY <1>1, <2>2 DEF VerdictInv
<1>3. PICK left \in BOOLEAN : left = Blocks(verdict')
  BY DEF Blocks
<1>4. left => Blocks(verdict)
  BY <1>2, <1>3
<1> QED
  BY <1>1, <1>3, <1>4 DEF Sprint!Fix, Sprint!Goto, Sprint!script, Sprint!world, One, Blocks

LEMMA StepIsSprints ==
  ASSUME WordInv, VerdictInv, [Next]_vars
  PROVE  \/ Unseen \/ pc' = "read"
         \/ Answered /\ SprintStep({1})
         \/ ~Answered /\ SprintStep({})
<1>1. CASE ReadCompleted \/ Implement \/ Record
  BY <1>1 DEF ReadCompleted, Implement, Record, panel, Unseen, SprintPc
<1>2. CASE TasksDone
  BY <1>2, TasksDoneIsImplement DEF SprintStep
<1>3. ASSUME NEW p \in Panel, Report(p) PROVE Unseen
  BY <1>3 DEF Report, Unseen, SprintPc
<1>4. CASE Judge
  BY <1>4, JudgeIsReview DEF SprintStep
<1>5. CASE Fix
  BY <1>5 DEF Fix, Unseen, SprintPc
<1>6. CASE Rejudge
  BY <1>6, RejudgeIsFix DEF SprintStep
<1>7. CASE Relaunch \/ Crash
  BY <1>7 DEF Relaunch, Crash, NewSession
<1>8. CASE UNCHANGED vars
  BY <1>8 DEF vars, panel, Unseen, SprintPc
<1> QED
  BY <1>1, <1>2, <1>3, <1>4, <1>5, <1>6, <1>7, <1>8 DEF Next

\* Phases 4 and 5 implement the three steps of SprintEngine: a question halts
\* exactly the unanswered REQ, and findings block after the fix only if they did
\* before it, whatever the re-verification loses (runReq, verify).
THEOREM ImplementsSprintHolds == Spec => ImplementsSprint
<1>1. Init => WordInv /\ VerdictInv
  BY WordInvInit DEF Init, VerdictInv
<1>2. (WordInv /\ VerdictInv) /\ [Next]_vars => (WordInv /\ VerdictInv)'
  BY WordInvStep, VerdictInvStep
<1>3. (WordInv /\ VerdictInv) /\ [Next]_vars
        => [\/ pc' = "read"
            \/ Answered /\ SprintStep({1})
            \/ ~Answered /\ SprintStep({})]_<<SprintPc, Blocks(verdict)>>
  BY StepIsSprints DEF Unseen
<1> QED
  BY <1>1, <1>2, <1>3, PTL DEF Spec, ImplementsSprint

\* ------------------------------------------------- 4. the fold of the findings

\* Induction over a set of numbers: the least one that is not in it has no
\* predecessor.
LEMMA ReachesAll ==
  ASSUME NEW T, 0 \in T, \A n \in Nat : n \in T => n + 1 \in T
  PROVE  Nat \subseteq T
<1> SUFFICES ASSUME NEW m \in Nat, m \notin T PROVE FALSE
  OBVIOUS
<1> PICK missing : missing = Nat \ T
  OBVIOUS
<1>1. missing \subseteq Nat /\ missing # {}
  OBVIOUS
<1>2. PICK n \in missing : \A k \in missing : ~(<<k, n>> \in OpToRel(<, Nat))
  BY <1>1, NatLessThanWellFounded, WFMin
<1>3. n \in Nat /\ n # 0 /\ n - 1 \in Nat /\ n - 1 < n
  OBVIOUS
<1>4. n - 1 \notin missing
  BY <1>2, <1>3 DEF OpToRel
<1>5. n - 1 \in T => (n - 1) + 1 \in T
  BY <1>3
<1> QED
  BY <1>3, <1>4, <1>5

\* The element a fold takes next, and the fold of Absorb over the subsets of S.
Picked(s) == CHOOSE x \in s : TRUE

Unrolled(g, D) ==
    g = [s \in D |-> IF s = {} THEN {} ELSE Absorb(Picked(s), g[s \ {Picked(s)}])]

Folded(S) == CHOOSE g : Unrolled(g, SUBSET S)

LEMMA FoldIsFolded ==
  ASSUME NEW S
  PROVE  FoldSet(Absorb, {}, S) = Folded(S)[S]
BY DEF FoldSet, MapThenFoldSet, Folded, Unrolled, Picked

LEMMA OneLess ==
  ASSUME NEW s, IsFiniteSet(s), s # {}
  PROVE  /\ Picked(s) \in s /\ IsFiniteSet(s \ {Picked(s)})
         /\ Cardinality(s) \in Nat /\ Cardinality(s \ {Picked(s)}) = Cardinality(s) - 1
<1>1. Picked(s) \in s
  BY DEF Picked
<1> QED
  BY <1>1, FS_RemoveElement, FS_CardinalityType

Small(S, n) == {s \in SUBSET S : Cardinality(s) <= n}
Reached(S) == {n \in Nat : \E g : Unrolled(g, Small(S, n))}

LEMMA FoldReaches ==
  ASSUME NEW S, IsFiniteSet(S), NEW n \in Nat, n \in Reached(S)
  PROVE  n + 1 \in Reached(S)
<1> PICK g : Unrolled(g, Small(S, n))
  BY DEF Reached
<1> PICK h : h = [s \in Small(S, n + 1) |->
                    IF s = {} THEN {} ELSE Absorb(Picked(s), g[s \ {Picked(s)}])]
  OBVIOUS
<1>1. ASSUME NEW s \in Small(S, n + 1), s # {}
      PROVE  s \ {Picked(s)} \in Small(S, n) /\ s \ {Picked(s)} \in Small(S, n + 1)
  <2>1. IsFiniteSet(s) /\ Cardinality(s) <= n + 1 /\ s \ {Picked(s)} \in SUBSET S
    BY <1>1, FS_Subset DEF Small
  <2>2. Cardinality(s) \in Nat /\ Cardinality(s \ {Picked(s)}) = Cardinality(s) - 1
    BY <1>1, <2>1, OneLess
  <2>3. Cardinality(s \ {Picked(s)}) <= n /\ Cardinality(s \ {Picked(s)}) <= n + 1
    BY <2>1, <2>2
  <2> QED
    BY <2>1, <2>3 DEF Small
<1>2. ASSUME NEW s \in Small(S, n) PROVE s \in Small(S, n + 1) /\ h[s] = g[s]
  <2>1. IsFiniteSet(s) /\ Cardinality(s) <= n /\ Cardinality(s) \in Nat
    BY <1>2, FS_Subset, FS_CardinalityType DEF Small
  <2>2. s \in Small(S, n + 1)
    BY <1>2, <2>1 DEF Small
  <2> QED
    BY <1>2, <2>2 DEF Unrolled
<1>3. Unrolled(h, Small(S, n + 1))
  BY <1>1, <1>2 DEF Unrolled
<1> QED
  BY <1>3 DEF Reached

LEMMA FoldedUnrolls ==
  ASSUME NEW S, IsFiniteSet(S)
  PROVE  Unrolled(Folded(S), SUBSET S)
<1>1. 0 \in Reached(S)
  <2>1. \A s \in Small(S, 0) : s = {}
    <3> SUFFICES ASSUME NEW s \in Small(S, 0) PROVE s = {}
      OBVIOUS
    <3>1. IsFiniteSet(s) /\ Cardinality(s) \in Nat /\ Cardinality(s) <= 0
      BY FS_Subset, FS_CardinalityType DEF Small
    <3>2. Cardinality(s) = 0
      BY <3>1
    <3> QED
      BY <3>1, <3>2, FS_EmptySet
  <2> PICK g : g = [s \in Small(S, 0) |-> {}]
    OBVIOUS
  <2>2. Unrolled(g, Small(S, 0))
    BY <2>1 DEF Unrolled
  <2> QED
    BY <2>2 DEF Reached
<1>2. Nat \subseteq Reached(S)
  BY <1>1, FoldReaches, ReachesAll
<1>3. Cardinality(S) \in Nat
  BY FS_CardinalityType
<1>4. Small(S, Cardinality(S)) = SUBSET S
  BY FS_Subset DEF Small
<1>5. \E g : Unrolled(g, SUBSET S)
  BY <1>2, <1>3, <1>4 DEF Reached
<1> QED
  BY <1>5 DEF Folded

\* What a set of survivors V owes to the raw findings S: one survivor for each key
\* and repo of S, as severe as the most severe of them, with all they say together.
Shaped(f) ==
    /\ f = [repo |-> f.repo, key |-> f.key, severity |-> f.severity,
            mustFix |-> f.mustFix, dims |-> f.dims]
    /\ f.repo \in Repo /\ f.severity \in Severities /\ f.mustFix \in BOOLEAN
    /\ f.dims \subseteq Member /\ f.dims # {}

Gathers(g, S) ==
    /\ \E f \in S : Same(f, g) /\ f.severity = g.severity
    /\ \A f \in S : Same(f, g) =>
           g.severity <= f.severity /\ f.dims \subseteq g.dims
    /\ g.mustFix <=> \E f \in S : Same(f, g) /\ f.mustFix
    /\ \A m \in g.dims : \E f \in S : Same(f, g) /\ m \in f.dims

Consolidates(V, S) ==
    /\ \A g \in V : Shaped(g) /\ Gathers(g, S)
    /\ \A f \in S : \E g \in V : Same(f, g)

LEMMA WorseGathers ==
  ASSUME NEW S, \A f \in S : Shaped(f), NEW x, Shaped(x), NEW g, Shaped(g),
         Gathers(g, S), Same(x, g)
  PROVE  Shaped(Worse(x, g)) /\ Gathers(Worse(x, g), S \union {x}) /\ Same(x, Worse(x, g))
<1> PICK w : w = Worse(x, g)
  OBVIOUS
<1>1. /\ w = [repo |-> g.repo, key |-> g.key,
              severity |-> IF x.severity < g.severity THEN x.severity ELSE g.severity,
              mustFix |-> g.mustFix \/ x.mustFix, dims |-> g.dims \union x.dims]
  BY DEF Worse, Shaped
<1>2. /\ w.repo = g.repo /\ w.key = g.key /\ w.dims = g.dims \union x.dims
      /\ w.severity = IF x.severity < g.severity THEN x.severity ELSE g.severity
      /\ w.mustFix = (g.mustFix \/ x.mustFix)
      /\ w = [repo |-> w.repo, key |-> w.key, severity |-> w.severity,
              mustFix |-> w.mustFix, dims |-> w.dims]
  BY <1>1
<1>3. Same(x, w) /\ \A f : Same(f, w) <=> Same(f, g)
  BY <1>2 DEF Same
<1>4. Shaped(w)
  BY <1>2 DEF Shaped, Severities
<1>5. \E f \in S \union {x} : Same(f, w) /\ f.severity = w.severity
  BY <1>2, <1>3 DEF Gathers, Shaped
<1>6. ASSUME NEW f \in S \union {x}, Same(f, w)
      PROVE  w.severity <= f.severity /\ f.dims \subseteq w.dims
  <2>1. /\ x.severity \in Int /\ g.severity \in Int /\ f.severity \in Int
    BY DEF Shaped, Severities
  <2>2. f = x \/ (g.severity <= f.severity /\ f.dims \subseteq g.dims)
    BY <1>3, <1>6 DEF Gathers
  <2> QED
    BY <1>2, <2>1, <2>2
<1>7. w.mustFix <=> \E f \in S \union {x} : Same(f, w) /\ f.mustFix
  BY <1>2, <1>3 DEF Gathers
<1>8. \A m \in w.dims : \E f \in S \union {x} : Same(f, w) /\ m \in f.dims
  BY <1>2, <1>3 DEF Gathers
<1>9. Gathers(w, S \union {x})
  BY <1>5, <1>6, <1>7, <1>8 DEF Gathers
<1> QED
  BY <1>3, <1>4, <1>9

LEMMA AbsorbConsolidates ==
  ASSUME NEW S, \A f \in S : Shaped(f), NEW x, Shaped(x), NEW V, Consolidates(V, S)
  PROVE  Consolidates(Absorb(x, V), S \union {x})
<1>1. ASSUME NEW g \in V, ~Same(x, g) PROVE Shaped(g) /\ Gathers(g, S \union {x})
  BY <1>1 DEF Consolidates, Gathers
<1>2. ASSUME NEW g \in V, Same(x, g)
      PROVE  Shaped(Worse(x, g)) /\ Gathers(Worse(x, g), S \union {x}) /\ Same(x, Worse(x, g))
  BY <1>2, WorseGathers DEF Consolidates
<1>3. CASE \E g \in V : Same(x, g)
  <2>1. Absorb(x, V) = {IF Same(x, g) THEN Worse(x, g) ELSE g : g \in V}
    BY <1>3 DEF Absorb
  <2>2. \A h \in Absorb(x, V) : Shaped(h) /\ Gathers(h, S \union {x})
    BY <1>1, <1>2, <2>1
  <2>3. \E h \in Absorb(x, V) : Same(x, h)
    BY <1>2, <1>3, <2>1
  <2>4. ASSUME NEW f \in S PROVE \E h \in Absorb(x, V) : Same(f, h)
    <3>1. PICK g \in V : Same(f, g)
      BY DEF Consolidates
    <3>2. Same(x, g) => Same(f, Worse(x, g))
      BY <1>2, <3>1 DEF Same
    <3> QED
      BY <2>1, <3>1, <3>2
  <2> QED
    BY <2>2, <2>3, <2>4 DEF Consolidates
<1>4. CASE ~\E g \in V : Same(x, g)
  <2>1. Absorb(x, V) = V \union {x}
    BY <1>4 DEF Absorb
  <2>2. \A f \in S : ~Same(f, x)
    BY <1>4 DEF Consolidates, Same
  <2>3. Gathers(x, S \union {x})
    BY <2>2 DEF Gathers, Same, Shaped, Severities
  <2> QED
    BY <1>1, <1>4, <2>1, <2>3 DEF Consolidates, Same
<1> QED
  BY <1>3, <1>4

LEMMA FoldConsolidates ==
  ASSUME NEW S, IsFiniteSet(S), \A f \in S : Shaped(f)
  PROVE  Consolidates(FoldSet(Absorb, {}, S), S)
<1> PICK F : F = Folded(S)
  OBVIOUS
<1>0. Unrolled(F, SUBSET S)
  BY FoldedUnrolls
<1>1. F = [s \in SUBSET S |->
              IF s = {} THEN {} ELSE Absorb(Picked(s), F[s \ {Picked(s)}])]
  BY <1>0 DEF Unrolled
<1> PICK T : T = {n \in Nat : \A s \in SUBSET S :
                                 Cardinality(s) = n => Consolidates(F[s], s)}
  OBVIOUS
<1>2. 0 \in T
  <2>1. ASSUME NEW s \in SUBSET S, Cardinality(s) = 0 PROVE Consolidates(F[s], s)
    <3>1. s = {}
      BY <2>1, FS_Subset, FS_EmptySet
    <3> QED
      BY <1>1, <3>1 DEF Consolidates
  <2> QED
    BY <2>1
<1>3. ASSUME NEW n \in Nat, n \in T PROVE n + 1 \in T
  <2>1. ASSUME NEW s \in SUBSET S, Cardinality(s) = n + 1 PROVE Consolidates(F[s], s)
    <3> PICK x, r : x = Picked(s) /\ r = s \ {Picked(s)}
      OBVIOUS
    <3>1. IsFiniteSet(s) /\ s # {}
      BY <2>1, FS_Subset, FS_EmptySet
    <3>2. x \in s /\ Cardinality(r) = Cardinality(s) - 1
      BY <3>1, OneLess
    <3>3. Cardinality(r) = n
      BY <2>1, <3>2
    <3>4. r \in SUBSET S /\ s = r \union {x}
      BY <3>2
    <3>5. Consolidates(F[r], r)
      BY <1>3, <3>3, <3>4
    <3>6. Consolidates(Absorb(x, F[r]), r \union {x})
      BY <3>2, <3>5, <3>4, AbsorbConsolidates
    <3>7. F[s] = Absorb(x, F[r])
      BY <1>1, <3>1
    <3> QED
      BY <3>6, <3>7, <3>4
  <2> QED
    BY <2>1
<1>4. Nat \subseteq T
  BY <1>2, <1>3, ReachesAll
<1>5. Cardinality(S) \in Nat
  BY FS_CardinalityType
<1> QED
  BY <1>4, <1>5, FoldIsFolded

\* ------------------------------------------- 5. the verdict is what was raised

\* Every member answers with one of its answers, or not at all.
Spoken(rep) == rep \in [Panel -> {NoReport} \union UNION {Says[m] : m \in Member}]
                 /\ \A p \in Panel : rep[p] \in Says[p[2]] \union {NoReport}

SpokenInv == Spoken(reports) /\ Spoken(fresh) /\ Spoken(said)

LEMMA MemberSays ==
  ASSUME NEW rep, Spoken(rep), NEW p \in Panel, rep[p] # NoReport
  PROVE  /\ p[1] \in Repo /\ p[2] \in Member /\ p = <<p[1], p[2]>>
         /\ rep[p] \in Says[p[2]] /\ IsFiniteSet(rep[p])
         /\ \A f \in rep[p] : /\ f \in Findings /\ f.severity \in Severities
                              /\ f.mustFix \in BOOLEAN
<1>1. p[1] \in Repo /\ p[2] \in Member /\ p = <<p[1], p[2]>>
  BY DEF Panel
<1>2. rep[p] \in Says[p[2]]
  BY DEF Spoken
<1>3. rep[p] \subseteq Findings
  BY <1>1, <1>2 DEF Findings
<1> QED
  BY <1>1, <1>2, <1>3, VoicesAssumption DEF VoicesAssumption, Member, Severities

LEMMA PanelFinite == IsFiniteSet(Panel)
<1>1. IsFiniteSet(Member)
  BY VoicesAssumption, FS_AddElement DEF VoicesAssumption, Member
<1> QED
  BY <1>1, VoicesAssumption, FS_Product DEF VoicesAssumption, Panel

\* The raw finding of one finding of one member.
RawOf(p, f) == [repo |-> p[1], key |-> f.key, severity |-> f.severity,
                mustFix |-> f.mustFix, dims |-> {p[2]}]

LEMMA FlatIs ==
  ASSUME NEW rep
  PROVE  \A r : r \in Flat(rep) <=>
             \E p \in Panel : rep[p] # NoReport /\ \E f \in rep[p] : r = RawOf(p, f)
BY DEF Flat, RawOf

LEMMA FlatShaped ==
  ASSUME NEW rep, Spoken(rep)
  PROVE  IsFiniteSet(Flat(rep)) /\ \A r \in Flat(rep) : Shaped(r)
<1> PICK Of : Of = [p \in Panel |-> IF rep[p] = NoReport THEN {}
                                    ELSE {RawOf(p, f) : f \in rep[p]}]
  OBVIOUS
<1>1. ASSUME NEW p \in Panel PROVE IsFiniteSet(Of[p])
  <2>1. CASE rep[p] = NoReport
    BY <2>1, FS_EmptySet
  <2>2. CASE rep[p] # NoReport
    <3> PICK h : h = [f \in rep[p] |-> RawOf(p, f)]
      OBVIOUS
    <3>1. h \in Surjection(rep[p], Of[p])
      BY <2>2 DEF Surjection
    <3> QED
      BY <2>2, <3>1, MemberSays, FS_Surjection
  <2> QED
    BY <2>1, <2>2
<1> PICK All : All = {Of[p] : p \in Panel}
  OBVIOUS
<1>2. IsFiniteSet(All)
  <2>1. Of \in Surjection(Panel, All)
    BY DEF Surjection
  <2> QED
    BY <2>1, PanelFinite, FS_Surjection
<1>3. IsFiniteSet(UNION All)
  BY <1>1, <1>2, FS_UNION
<1>4. Flat(rep) = UNION All
  BY FlatIs
<1>5. ASSUME NEW r \in Flat(rep) PROVE Shaped(r)
  <2>1. PICK p \in Panel : rep[p] # NoReport /\ \E f \in rep[p] : r = RawOf(p, f)
    BY FlatIs
  <2>2. PICK f \in rep[p] : r = RawOf(p, f)
    BY <2>1
  <2> QED
    BY <2>1, <2>2, MemberSays DEF Shaped, RawOf
<1> QED
  BY <1>3, <1>4, <1>5

\* The survivors of the fold, before the tag for other repos is put on them.
Survivors(rep) == FoldSet(Absorb, {}, Flat(rep))
Tagged(f, V) ==
    [repo |-> f.repo, key |-> f.key, severity |-> f.severity,
     mustFix |-> f.mustFix, dims |-> f.dims,
     crossRepo |-> \E g \in V : g.key = f.key /\ g.repo # f.repo]

LEMMA RankIs ==
  ASSUME NEW rep
  PROVE  DedupeAndRank(rep) = {Tagged(f, Survivors(rep)) : f \in Survivors(rep)}
BY DEF DedupeAndRank, Tagged, Survivors

LEMMA SurvivorsConsolidate ==
  ASSUME NEW rep, Spoken(rep)
  PROVE  Consolidates(Survivors(rep), Flat(rep))
BY FlatShaped, FoldConsolidates DEF Survivors

LEMMA RankShaped ==
  ASSUME NEW rep, Spoken(rep)
  PROVE  \A f \in DedupeAndRank(rep) :
             /\ f.repo \in Repo /\ f.severity \in Severities
             /\ f.dims \subseteq Member /\ f.dims # {}
<1>1. \A g \in Survivors(rep) : Shaped(g)
  BY SurvivorsConsolidate DEF Consolidates
<1> QED
  BY <1>1, RankIs DEF Tagged, Shaped

\* The answers are those of the members, whoever is awaited, and every finding of
\* a verdict has a repo, a rank and somebody who raised it.
ShapeInv ==
  /\ pc \in {"read", "tasks", "record", "panel", "halted", "fix", "recheck", "done"}
  /\ answer \in {"none", "gate", "question"}
  /\ attempted \subseteq Task
  /\ asked \subseteq IF pc = "recheck" THEN Repo \X Reviewer ELSE Panel
  /\ SpokenInv
  /\ \A f \in verdict : /\ f.repo \in Repo /\ f.severity \in Severities
                        /\ f.dims \subseteq Member /\ f.dims # {}

LEMMA SilenceSpoken == Spoken(Silence)
BY DEF Spoken, Silence

LEMMA MergeSpoken ==
  ASSUME NEW original, Spoken(original), NEW again, Spoken(again)
  PROVE  Spoken(MergeReverified(original, again))
BY DEF Spoken, MergeReverified

LEMMA ReportSpeaks ==
  ASSUME ShapeInv, NEW p \in Panel, Report(p)
  PROVE  SpokenInv'
<1>1. p[2] \in Member
  BY DEF Panel
<1>2. PICK a \in Says[p[2]] \union {NoReport} :
        /\ IF pc = "panel" THEN reports' = [reports EXCEPT ![p] = a] /\ UNCHANGED fresh
                           ELSE fresh' = [fresh EXCEPT ![p] = a] /\ UNCHANGED reports
        /\ said' = IF a = NoReport THEN said ELSE [said EXCEPT ![p] = a]
  BY DEF Report
<1>3. ASSUME NEW f, Spoken(f) PROVE Spoken([f EXCEPT ![p] = a])
  BY <1>1, <1>3 DEF Spoken
<1>4. Spoken(reports) /\ Spoken(fresh) /\ Spoken(said)
  BY DEF ShapeInv, SpokenInv
<1>5. Spoken(reports')
  BY <1>2, <1>3, <1>4
<1>6. Spoken(fresh')
  BY <1>2, <1>3, <1>4
<1>7. Spoken(said')
  BY <1>2, <1>3, <1>4
<1> QED
  BY <1>5, <1>6, <1>7 DEF SpokenInv, Spoken

LEMMA ShapeInvStep == TierInv /\ ShapeInv /\ [Next]_vars => ShapeInv'
<1> SUFFICES ASSUME TierInv, ShapeInv, [Next]_vars PROVE ShapeInv'
  OBVIOUS
<1>1. ASSUME UNCHANGED <<reports, fresh, said>> PROVE SpokenInv'
  BY <1>1 DEF ShapeInv, SpokenInv, Spoken
<1>2. ASSUME reports' = Silence, fresh' = Silence, said' = Silence PROVE SpokenInv'
  BY <1>2, SilenceSpoken DEF SpokenInv, Spoken
<1>3. CASE ReadCompleted \/ Record
  <2>1. /\ pc' \in {"tasks"} /\ pc \in {"read", "record"}
        /\ UNCHANGED <<answer, attempted, panel>>
    BY <1>3 DEF ReadCompleted, Record
  <2> QED
    BY <1>1, <2>1 DEF ShapeInv, panel, Task
<1>4. CASE Implement
  <2>1. /\ pc = "tasks" /\ pc' = "record" /\ todo # {}
        /\ attempted' = attempted \union {Current} /\ UNCHANGED <<answer, panel>>
    BY <1>4 DEF Implement
  <2>2. Current \in Task
    BY <2>1, CurrentIsFirst DEF TierInv
  <2> QED
    BY <1>1, <2>1, <2>2 DEF ShapeInv, panel, Task
<1>5. CASE TasksDone
  BY <1>1, <1>5 DEF TasksDone, ShapeInv, Task, Panel
<1>6. ASSUME NEW p \in Panel, Report(p) PROVE ShapeInv'
  <2>1. /\ pc' = pc /\ answer' = answer /\ attempted' = attempted /\ verdict' = verdict
        /\ asked' = asked \ {p}
    BY <1>6 DEF Report, tasks
  <2> QED
    BY <1>6, <2>1, ReportSpeaks DEF ShapeInv, Task, Panel
<1>7. CASE Judge
  <2>1. /\ pc' \in {"halted", "fix", "done"} /\ asked' = {}
        /\ verdict' = verdict \/ verdict' = DedupeAndRank(reports)
        /\ UNCHANGED <<answer, attempted, reports, fresh, said>>
    BY <1>7 DEF Judge, tasks
  <2>2. Spoken(reports)
    BY DEF ShapeInv, SpokenInv
  <2>3. \A f \in verdict' : /\ f.repo \in Repo /\ f.severity \in Severities
                            /\ f.dims \subseteq Member /\ f.dims # {}
    BY <2>1, <2>2, RankShaped DEF ShapeInv
  <2> QED
    BY <1>1, <2>1, <2>3 DEF ShapeInv, Task
<1>8. CASE Fix
  <2>1. /\ pc' = "recheck" /\ asked' = FixedPairs(verdict)
        /\ UNCHANGED <<answer, attempted, verdict, reports, fresh, said>>
    BY <1>8 DEF Fix, tasks
  <2>2. FixedPairs(verdict) \subseteq Repo \X Reviewer
    BY DEF FixedPairs
  <2> QED
    BY <1>1, <2>1, <2>2 DEF ShapeInv, Task
<1>9. CASE Rejudge
  <2>1. /\ pc' = "done" /\ asked' = {} /\ reports' = MergeReverified(reports, fresh)
        /\ verdict' = DedupeAndRank(reports')
        /\ UNCHANGED <<answer, attempted, fresh, said>>
    BY <1>9 DEF Rejudge, tasks
  <2>2. Spoken(reports') /\ Spoken(fresh') /\ Spoken(said')
    BY <2>1, MergeSpoken DEF ShapeInv, SpokenInv
  <2>3. SpokenInv'
    BY <2>2 DEF SpokenInv, Spoken
  <2> QED
    BY <2>1, <2>2, <2>3, RankShaped DEF ShapeInv, Task
<1>10. CASE Relaunch \/ Crash
  <2>1. /\ pc' = "read" /\ asked' = {} /\ verdict' = {} /\ attempted' = attempted
        /\ answer' \in {answer, "question"}
        /\ reports' = Silence /\ fresh' = Silence /\ said' = Silence
    BY <1>10 DEF Relaunch, Crash, NewSession
  <2> QED
    BY <1>2, <2>1 DEF ShapeInv, Task
<1>11. CASE UNCHANGED vars
  BY <1>1, <1>11 DEF vars, tasks, panel, ShapeInv, Task
<1> QED
  BY <1>3, <1>4, <1>5, <1>6, <1>7, <1>8, <1>9, <1>10, <1>11 DEF Next

\* The state keeps its shape for any plan, panel and answers; in particular the
\* reflector is not asked again after a fix (verify, fixedPairs).
THEOREM TypeCorrect == Spec => []TypeOK
<1>1. Init => ShapeInv
  BY SilenceSpoken DEF Init, ShapeInv, SpokenInv
<1>2. TierInv /\ ShapeInv => TypeOK
  BY DEF TierInv, ShapeInv, SpokenInv, Spoken, TypeOK
<1> QED
  BY <1>1, <1>2, ShapeInvStep, TierInvInit, TierInvStep, PTL DEF Spec

\* Who raised key k in repo d, with what, and the strongest of it.
RaisedBy(d, k) ==
    {x \in Member \X Findings : /\ reports[<<d, x[1]>>] # NoReport
                                /\ x[2] \in reports[<<d, x[1]>>] /\ x[2].key = k}
StrongestOf(d, k) ==
    [repo |-> d, key |-> k,
     severity |-> Min({x[2].severity : x \in RaisedBy(d, k)}),
     mustFix |-> \E x \in RaisedBy(d, k) : x[2].mustFix,
     dims |-> {x[1] : x \in RaisedBy(d, k)},
     crossRepo |-> \E c \in Repo \ {d} : RaisedBy(c, k) # {}]
FoundPairs == {y \in Repo \X {f.key : f \in Findings} : RaisedBy(y[1], y[2]) # {}}

LEMMA StrongestIs ==
  (pc \in {"fix", "recheck", "done"} => verdict = {StrongestOf(y[1], y[2]) : y \in FoundPairs})
      => StrongestSurvives
BY DEF StrongestSurvives, StrongestOf, RaisedBy, FoundPairs

\* The raw findings of one key and repo are those somebody raised.
LEMMA RaisedIsFlat ==
  ASSUME SpokenInv, NEW d \in Repo, NEW k
  PROVE  /\ \A x \in RaisedBy(d, k) :
              /\ x[2].severity \in Severities /\ x[2].mustFix \in BOOLEAN
              /\ \E r \in Flat(reports) :
                   /\ r.repo = d /\ r.key = k /\ r.severity = x[2].severity
                   /\ r.mustFix = x[2].mustFix /\ x[1] \in r.dims
         /\ \A r \in Flat(reports) : r.repo = d /\ r.key = k =>
              \E x \in RaisedBy(d, k) : /\ r.severity = x[2].severity
                                        /\ r.mustFix = x[2].mustFix /\ r.dims = {x[1]}
<1>1. ASSUME NEW x \in RaisedBy(d, k)
      PROVE  /\ x[2].severity \in Severities /\ x[2].mustFix \in BOOLEAN
             /\ \E r \in Flat(reports) :
                   /\ r.repo = d /\ r.key = k /\ r.severity = x[2].severity
                   /\ r.mustFix = x[2].mustFix /\ x[1] \in r.dims
  <2> PICK p : p = <<d, x[1]>>
    OBVIOUS
  <2>1. p \in Panel /\ reports[p] # NoReport /\ x[2] \in reports[p] /\ x[2].key = k
    BY <1>1 DEF RaisedBy, Panel
  <2>2. RawOf(p, x[2]) \in Flat(reports)
    BY <2>1, FlatIs
  <2>3. x[2].severity \in Severities /\ x[2].mustFix \in BOOLEAN
    BY <2>1, MemberSays DEF SpokenInv
  <2> QED
    BY <2>1, <2>2, <2>3 DEF RawOf
<1>2. ASSUME NEW r \in Flat(reports), r.repo = d, r.key = k
      PROVE  \E x \in RaisedBy(d, k) : /\ r.severity = x[2].severity
                                       /\ r.mustFix = x[2].mustFix /\ r.dims = {x[1]}
  <2>1. PICK p \in Panel : reports[p] # NoReport /\ \E f \in reports[p] : r = RawOf(p, f)
    BY FlatIs
  <2>2. PICK f \in reports[p] : r = RawOf(p, f)
    BY <2>1
  <2>3. p = <<d, p[2]>> /\ p[2] \in Member /\ f \in Findings /\ f.key = k
    BY <1>2, <2>1, <2>2, MemberSays DEF SpokenInv, RawOf
  <2>4. <<p[2], f>> \in RaisedBy(d, k)
    BY <2>1, <2>2, <2>3 DEF RaisedBy
  <2> QED
    BY <2>2, <2>4 DEF RawOf
<1> QED
  BY <1>1, <1>2

\* A survivor is the strongest of what was raised on its key in its repo.
LEMMA SurvivorIsStrongest ==
  ASSUME SpokenInv, NEW g \in Survivors(reports)
  PROVE  /\ g.repo \in Repo /\ RaisedBy(g.repo, g.key) # {}
         /\ Tagged(g, Survivors(reports)) = StrongestOf(g.repo, g.key)
<1> PICK V, S : V = Survivors(reports) /\ S = Flat(reports)
  OBVIOUS
<1>1. Consolidates(V, S)
  BY SurvivorsConsolidate DEF SpokenInv
<1>2. Shaped(g) /\ Gathers(g, S)
  BY <1>1 DEF Consolidates
<1> PICK d, k : d = g.repo /\ k = g.key
  OBVIOUS
<1>3. d \in Repo
  BY <1>2 DEF Shaped
<1>4. \A r : Same(r, g) <=> r.repo = d /\ r.key = k
  BY DEF Same
<1>5. PICK r0 \in S : Same(r0, g) /\ r0.severity = g.severity
  BY <1>2 DEF Gathers
<1>6. PICK x0 \in RaisedBy(d, k) : r0.severity = x0[2].severity
  BY <1>3, <1>4, <1>5, RaisedIsFlat
<1>7. g.severity = Min({x[2].severity : x \in RaisedBy(d, k)})
  <2> PICK Z : Z = {x[2].severity : x \in RaisedBy(d, k)}
    OBVIOUS
  <2>1. Z \subseteq Int /\ g.severity \in Z
    BY <1>3, <1>5, <1>6, RaisedIsFlat DEF Severities
  <2>2. \A z \in Z : g.severity <= z
    <3> SUFFICES ASSUME NEW x \in RaisedBy(d, k) PROVE g.severity <= x[2].severity
      OBVIOUS
    <3>1. PICK r \in S : r.repo = d /\ r.key = k /\ r.severity = x[2].severity
      BY <1>3, RaisedIsFlat
    <3> QED
      BY <1>2, <1>4, <3>1 DEF Gathers
  <2>3. ASSUME NEW z \in Z, \A y \in Z : z <= y PROVE z = g.severity
    <3>1. z <= g.severity /\ g.severity <= z
      BY <2>1, <2>2, <2>3
    <3>2. z \in Int /\ g.severity \in Int
      BY <2>1
    <3> QED
      BY <3>1, <3>2
  <2> QED
    BY <2>1, <2>2, <2>3 DEF Min
<1>8. g.mustFix = \E x \in RaisedBy(d, k) : x[2].mustFix
  <2>1. g.mustFix \in BOOLEAN
    BY <1>2 DEF Shaped
  <2>2. g.mustFix <=> \E r \in S : Same(r, g) /\ r.mustFix
    BY <1>2 DEF Gathers
  <2>3. (\E r \in S : Same(r, g) /\ r.mustFix) => \E x \in RaisedBy(d, k) : x[2].mustFix
    BY <1>3, <1>4, RaisedIsFlat
  <2>4. (\E x \in RaisedBy(d, k) : x[2].mustFix) => \E r \in S : Same(r, g) /\ r.mustFix
    BY <1>3, <1>4, RaisedIsFlat
  <2> QED
    BY <2>1, <2>2, <2>3, <2>4
<1>9. g.dims = {x[1] : x \in RaisedBy(d, k)}
  <2>1. ASSUME NEW m \in g.dims PROVE m \in {x[1] : x \in RaisedBy(d, k)}
    <3>1. PICK r \in S : Same(r, g) /\ m \in r.dims
      BY <1>2 DEF Gathers
    <3> QED
      BY <1>3, <1>4, <3>1, RaisedIsFlat
  <2>2. ASSUME NEW x \in RaisedBy(d, k) PROVE x[1] \in g.dims
    <3>1. PICK r \in S : r.repo = d /\ r.key = k /\ x[1] \in r.dims
      BY <1>3, RaisedIsFlat
    <3> QED
      BY <1>2, <1>4, <3>1 DEF Gathers
  <2> QED
    BY <2>1, <2>2
<1>10. (\E h \in V : h.key = k /\ h.repo # d) <=> \E c \in Repo \ {d} : RaisedBy(c, k) # {}
  <2>1. ASSUME NEW h \in V, h.key = k, h.repo # d
        PROVE  \E c \in Repo \ {d} : RaisedBy(c, k) # {}
    <3>1. Shaped(h) /\ Gathers(h, S)
      BY <1>1 DEF Consolidates
    <3>2. PICK r \in S : Same(r, h)
      BY <3>1 DEF Gathers
    <3>3. h.repo \in Repo /\ r.repo = h.repo /\ r.key = k
      BY <2>1, <3>1, <3>2 DEF Shaped, Same
    <3>4. RaisedBy(h.repo, k) # {}
      BY <3>3, RaisedIsFlat
    <3> QED
      BY <2>1, <3>3, <3>4
  <2>2. ASSUME NEW c \in Repo \ {d}, RaisedBy(c, k) # {}
        PROVE  \E h \in V : h.key = k /\ h.repo # d
    <3>1. PICK r \in S : r.repo = c /\ r.key = k
      BY <2>2, RaisedIsFlat
    <3>2. PICK h \in V : Same(r, h)
      BY <1>1 DEF Consolidates
    <3> QED
      BY <2>2, <3>1, <3>2 DEF Same
  <2> QED
    BY <2>1, <2>2
<1> QED
  BY <1>3, <1>6, <1>7, <1>8, <1>9, <1>10 DEF Tagged, StrongestOf

LEMMA RankIsStrongest ==
  ASSUME SpokenInv
  PROVE  DedupeAndRank(reports) = {StrongestOf(y[1], y[2]) : y \in FoundPairs}
<1>1. ASSUME NEW g \in Survivors(reports)
      PROVE  Tagged(g, Survivors(reports)) \in {StrongestOf(y[1], y[2]) : y \in FoundPairs}
  <2>1. g.repo \in Repo /\ RaisedBy(g.repo, g.key) # {}
    BY SurvivorIsStrongest
  <2>2. PICK x \in RaisedBy(g.repo, g.key) : TRUE
    BY <2>1
  <2>3. g.key \in {f.key : f \in Findings}
    BY <2>2 DEF RaisedBy
  <2>4. <<g.repo, g.key>> \in FoundPairs
    BY <2>1, <2>3 DEF FoundPairs
  <2> QED
    BY <2>4, SurvivorIsStrongest
<1>2. ASSUME NEW y \in FoundPairs
      PROVE  \E g \in Survivors(reports) : Tagged(g, Survivors(reports)) = StrongestOf(y[1], y[2])
  <2>1. y[1] \in Repo /\ RaisedBy(y[1], y[2]) # {}
    BY DEF FoundPairs
  <2>2. PICK r \in Flat(reports) : r.repo = y[1] /\ r.key = y[2]
    BY <2>1, RaisedIsFlat
  <2>3. PICK g \in Survivors(reports) : Same(r, g)
    BY SurvivorsConsolidate DEF SpokenInv, Consolidates
  <2>4. g.repo = y[1] /\ g.key = y[2]
    BY <2>2, <2>3 DEF Same
  <2> QED
    BY <2>4, SurvivorIsStrongest
<1> QED
  BY <1>1, <1>2, RankIs

\* The verdict is that of a definition with no order in it: one finding for each
\* key and repo, the strongest of all the panel raised, naming everybody who did,
\* for any findings (dedupeAndRank, BR-7).
THEOREM StrongestSurvivesHolds == Spec => []StrongestSurvives
<1>1. Init => ShapeInv /\ WordInv /\ VerdictInv
  BY SilenceSpoken, WordInvInit DEF Init, ShapeInv, SpokenInv, VerdictInv
<1>2. ShapeInv /\ VerdictInv => StrongestSurvives
  BY RankIsStrongest, StrongestIs DEF ShapeInv, VerdictInv
<1>3. (WordInv /\ VerdictInv) /\ [Next]_vars => (WordInv /\ VerdictInv)'
  BY WordInvStep, VerdictInvStep
<1> QED
  BY <1>1, <1>2, <1>3, ShapeInvStep, TierInvInit, TierInvStep, PTL DEF Spec
=============================================================================
