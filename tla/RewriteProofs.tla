---------------------------- MODULE RewriteProofs ----------------------------
(***************************************************************************)
(* Proofs about the two commands that rewrite a checkout side by side: no  *)
(* file is ever half written, a render that ran alone settles every agent, *)
(* a renumber that refuses leaves no trace, and one that was applied       *)
(* has made of every file what it planned.  For any agents, notes, trees,  *)
(* settings, and any number of runs and kills.                             *)
(***************************************************************************)
EXTENDS Checkout, TLAPS

rewriteVars == <<tree, dir, settingVars, renderVars, alone, remoteVars, renumberVars, solo>>

Settled(a, text) == text.frontmatter => text.model = ResolveModel(a, config)

\* What the render knows of the file it works on.
RenderInv ==
  /\ tmp \in [Agent -> Texts] /\ draft \in Texts
  /\ todo \in Seq(Agent)
  /\ render \in {"idle", "read", "open", "fill", "replace", "done", "rejected", "failed"}
  /\ render \in {"read", "open", "fill", "replace"} => Valid(config)
  /\ render \in {"open", "fill", "replace"} =>
       todo # << >> /\ draft.whole /\ Settled(Head(todo), draft)
  /\ render = "replace" => tmp[Head(todo)] = draft

\* The tree, and the text the renumber has in hand.
TreeInv ==
  /\ tree \in [Path -> Texts] /\ AlwaysWhole
  /\ refs \subseteq Path \ {Artifact} /\ path \in Path /\ read \in Texts
  /\ renumber = "replace" => read.whole

LEMMA Resolved ==
  ASSUME NEW a \in Agent, NEW s, Valid(s)
  PROVE  ResolveModel(a, s) \in Models
BY RenderAssumption DEF RenderAssumption, ResolveModel, Valid, ValueOK, Aliases, FullIds, Models

LEMMA AgentIsPath == \A a \in Agent : a \in Path /\ a # Artifact
  BY TreeAssumption DEF TreeAssumption, Path

LEMMA ArtifactIs == Artifact \in Path \ Agent /\ Artifact \notin Beside
  BY TreeAssumption DEF TreeAssumption, Path

LEMMA Rendered ==
  ASSUME NEW t \in Texts, NEW m \in Models
  PROVE  /\ RenderText(t, m) \in Texts
         /\ RenderText(t, m).whole = t.whole /\ RenderText(t, m).ref = t.ref
         /\ RenderText(t, m).frontmatter = t.frontmatter
         /\ t.frontmatter => RenderText(t, m).model = m
BY DEF RenderText, Texts

LEMMA TornIsText == Torn \in Texts
  BY DEF Torn, Text, Texts, Models, Ids, Old, New, Sibling

LEMMA RewrittenIsText ==
  ASSUME NEW t \in Texts
  PROVE  Rewritten(t) \in Texts /\ Rewritten(t).whole = t.whole
BY DEF Rewritten, Texts, Ids, New

\* ----------------------------------------------------------- one step of each

LEMMA InitInv == Init => RenderInv /\ TreeInv
<1> SUFFICES ASSUME Init PROVE RenderInv /\ TreeInv
  OBVIOUS
<1>1. PICK s \in Scenarios : tree \in s.trees
  BY DEF Init
<1>2. tree \in [Path -> {x \in Texts : x.whole}]
  BY <1>1, ScenarioAssumption DEF ScenarioAssumption
<1>3. tmp = [a \in Agent |-> Torn] /\ draft = Torn /\ todo = << >> /\ render = "idle"
  BY DEF Init, RenderInit
<1>4. RenderInv
  BY <1>3, TornIsText DEF RenderInv
<1>5. refs = {} /\ path = Artifact /\ read = Torn /\ renumber = "idle"
  BY DEF Init, RenumberInit
<1>6. TreeInv
  BY <1>2, <1>5, TornIsText DEF TreeInv, AlwaysWhole, Path
<1> QED
  BY <1>4, <1>6

\* A step that touches none of the render's variables keeps what it knows.
LEMMA RenderUntouched ==
  ASSUME RenderInv, UNCHANGED renderVars
  PROVE  RenderInv'
BY DEF RenderInv, renderVars, Settled, ResolveModel

LEMMA RenderStep ==
  ASSUME RenderInv, TreeInv, RenderNext
  PROVE  RenderInv' /\ tree' \in [Path -> Texts] /\ AlwaysWhole'
<1> USE DEF RenderInv, TreeInv, Settled, AlwaysWhole
<1>1. CASE EditSettings
  BY <1>1 DEF EditSettings, renderVars, ResolveModel
<1>2. CASE RenderStart
  BY <1>2, RenderAssumption DEF RenderStart, RenderAssumption
<1>3. CASE RenderRead
  <2> PICK a \in Agent : a = Head(todo)
    BY <1>3 DEF RenderRead
  <2> PICK m \in Models : m = ResolveModel(a, config)
    BY <1>3, Resolved DEF RenderRead
  <2> PICK text \in Texts : text = tree[a] /\ text.whole
    BY AgentIsPath
  <2>1. todo # << >> /\ Valid(config)
    BY <1>3 DEF RenderRead
  <2>2. tree' = tree /\ config' = config /\ tmp' = tmp
    BY <1>3 DEF RenderRead
  <2>3. CASE RenderText(text, m) = text
    BY <1>3, <2>1, <2>2, <2>3 DEF RenderRead
  <2>4. CASE RenderText(text, m) # text
    <3>1. draft' = RenderText(text, m) /\ render' = "open" /\ todo' = todo
      BY <1>3, <2>4 DEF RenderRead
    <3>2. draft' \in Texts /\ draft'.whole
      BY <3>1, Rendered
    <3>3. draft'.frontmatter => draft'.model = ResolveModel(a, config)'
      BY <3>1, <2>2, Rendered DEF ResolveModel
    <3> QED
      BY <2>1, <2>2, <3>1, <3>2, <3>3
  <2> QED
    BY <2>3, <2>4
<1>4. CASE RenderOpen
  BY <1>4, TornIsText DEF RenderOpen, ResolveModel
<1>5. CASE RenderFill
  BY <1>5 DEF RenderFill, ResolveModel
<1>6. CASE RenderReplace
  <2>1. Head(todo) \in Agent /\ tmp[Head(todo)] = draft /\ draft.whole /\ draft \in Texts
    BY <1>6 DEF RenderReplace
  <2>2. tree' = [tree EXCEPT ![Head(todo)] = draft]
    BY <1>6, <2>1 DEF RenderReplace
  <2>3. tree' \in [Path -> Texts] /\ AlwaysWhole'
    BY <2>1, <2>2
  <2>4. RenderInv'
    BY <1>6, <2>1, TornIsText DEF RenderReplace
  <2> QED
    BY <2>3, <2>4
<1>7. CASE RenderDone
  BY <1>7 DEF RenderDone
<1>8. CASE RenderKilled
  BY <1>8, TornIsText DEF RenderKilled
<1>9. CASE RenderFailed
  BY <1>9 DEF RenderFailed
<1> QED
  BY <1>1, <1>2, <1>3, <1>4, <1>5, <1>6, <1>7, <1>8, <1>9 DEF RenderNext

LEMMA RenumberStep ==
  ASSUME TreeInv, RenumberNext
  PROVE  TreeInv'
<1> USE DEF TreeInv, AlwaysWhole
<1>1. CASE OtherReserves \/ NetworkChanges
  BY <1>1 DEF OtherReserves, NetworkChanges, renumberVars
<1>2. CASE RenumberStart
  <2>1. refs' \subseteq Path \ {Artifact} /\ renumber' # "replace"
    BY <1>2 DEF RenumberStart, References, Goes
  <2> QED
    BY <1>2, <2>1 DEF RenumberStart
<1>3. CASE Reserve
  BY <1>3 DEF Reserve, Goes
<1>4. CASE Rename
  BY <1>4 DEF Rename, Goes
<1>5. CASE ReadFile
  <2>1. path' \in Path
    BY <1>5 DEF ReadFile, Path
  <2> QED
    BY <1>5, <2>1 DEF ReadFile, Goes
<1>6. CASE ReplaceFile
  <2>1. Rewritten(read) \in Texts /\ Rewritten(read).whole
    BY <1>6, RewrittenIsText DEF ReplaceFile
  <2>2. tree' = tree \/ tree' = [tree EXCEPT ![path] = Rewritten(read)]
    BY <1>6 DEF ReplaceFile
  <2>3. refs' \subseteq Path \ {Artifact} /\ path' = Artifact /\ read' = Torn /\ renumber' = "read ref"
    BY <1>6 DEF ReplaceFile, Goes
  <2> QED
    BY <2>1, <2>2, <2>3, TornIsText DEF Path
<1>7. CASE Applied
  BY <1>7 DEF Applied, Goes
<1>8. CASE RenumberKilled
  BY <1>8, TornIsText DEF RenumberKilled, Goes, Path
<1> QED
  BY <1>1, <1>2, <1>3, <1>4, <1>5, <1>6, <1>7, <1>8 DEF RenumberNext

\* ------------------------------------------- what the renders keep to themselves

\* A render names no artifact, and writes nothing but agents.
LEMMA RenderKeepsNotes ==
  ASSUME RenderInv, TreeInv, RenderNext
  PROVE  dir' = dir /\ \A p \in Path \ Agent : tree'[p] = tree[p]
<1>1. CASE RenderReplace
  <2>1. Head(todo) \in Agent
    BY <1>1 DEF RenderInv, RenderReplace
  <2> QED
    BY <1>1, <2>1, AgentIsPath DEF TreeInv, RenderReplace
<1>2. CASE ~RenderReplace
  BY <1>2 DEF RenderNext, EditSettings, RenderStart, RenderRead, RenderFailed, RenderOpen,
              RenderFill, RenderDone, RenderKilled
<1> QED
  BY <1>1, <1>2

\* ---------------------------------------------- 1. no file is ever half written

BothInv == RenderInv /\ TreeInv

LEMMA BothStep ==
  ASSUME BothInv, [Next]_vars
  PROVE  BothInv'
<1> USE DEF BothInv
<1>1. CASE UNCHANGED vars
  <2>1. RenderInv'
    BY <1>1, RenderUntouched DEF vars
  <2> QED
    BY <1>1, <2>1 DEF vars, renumberVars, TreeInv, AlwaysWhole
<1>2. CASE RenderNext /\ UNCHANGED renumberVars
  <2>1. RenderInv' /\ tree' \in [Path -> Texts] /\ AlwaysWhole'
    BY <1>2, RenderStep
  <2> QED
    BY <1>2, <2>1 DEF TreeInv, renumberVars
<1>3. CASE RenumberNext /\ UNCHANGED renderVars
  BY <1>3, RenumberStep, RenderUntouched
<1>4. CASE UNCHANGED <<tree, renderVars, renumberVars>>
  <2>1. RenderInv'
    BY <1>4, RenderUntouched
  <2> QED
    BY <1>4, <2>1 DEF renumberVars, TreeInv, AlwaysWhole
<1> QED
  BY <1>1, <1>2, <1>3, <1>4 DEF Next

THEOREM BothHold == Spec => []BothInv
<1>1. Init => BothInv
  BY InitInv DEF BothInv
<1>2. BothInv /\ [Next]_vars => BothInv'
  BY BothStep
<1> QED
  BY <1>1, <1>2, PTL DEF Spec

\* Both commands write a file of their own and put it in place of the path
\* (agents_render.py 266-270, renumber.py 295-329), so that whoever reads the
\* checkout at any moment, and after any kill, finds whole files.
THEOREM AlwaysWholeHolds == Spec => []AlwaysWhole
<1>1. BothInv => AlwaysWhole
  BY DEF BothInv, TreeInv
<1> QED
  BY BothHold, <1>1, PTL

\* ------------------------------------------------ 2. a refusal leaves no trace

\* Until it renames the artifact a run has written nothing.
QuietInv ==
  (solo /\ renumber \in {"refused", "dry run", "reserve", "rename", "failed"}) => <<tree, dir>> = before

LEMMA QuietStep ==
  ASSUME BothInv, QuietInv, [Next]_vars
  PROVE  QuietInv'
<1> USE DEF QuietInv
<1>1. CASE UNCHANGED vars
  BY <1>1 DEF vars, renumberVars
<1>2. CASE RenderNext /\ solo' = (solo /\ tree' = tree) /\ UNCHANGED renumberVars
  <2>1. dir' = dir
    BY <1>2, RenderKeepsNotes DEF BothInv
  <2> QED
    BY <1>2, <2>1 DEF renumberVars
<1>3. CASE RenumberNext
  <2>1. CASE OtherReserves \/ NetworkChanges
    BY <2>1 DEF OtherReserves, NetworkChanges, renumberVars
  <2>2. CASE RenumberStart
    BY <2>2 DEF RenumberStart
  <2>3. CASE Reserve
    BY <2>3 DEF Reserve, Goes
  <2>4. CASE Rename \/ ReadFile \/ ReplaceFile \/ Applied \/ RenumberKilled
    BY <2>4 DEF Rename, ReadFile, ReplaceFile, Applied, RenumberKilled, Goes
  <2> QED
    BY <1>3, <2>1, <2>2, <2>3, <2>4 DEF RenumberNext
<1>4. CASE UNCHANGED <<tree, dir, renumberVars, solo>>
  BY <1>4 DEF renumberVars
<1> QED
  BY <1>1, <1>2, <1>3, <1>4 DEF Next

\* Every refusal of renumber.py (ids 389-406, recheck 222-256, artifact 332-359,
\* a lost reservation 450-461) comes before its first write, a dry run ends there, and
\* a rename that fails (466) has moved nothing.
THEOREM RefusalLeavesTreeHolds == Spec => []RefusalLeavesTree
<1>1. Init => QuietInv
  BY DEF Init, RenumberInit, QuietInv
<1>2. BothInv /\ QuietInv /\ [Next]_vars => QuietInv'
  BY QuietStep
<1>3. QuietInv => RefusalLeavesTree
  BY DEF QuietInv, RefusalLeavesTree
<1> QED
  BY BothHold, <1>1, <1>2, <1>3, PTL DEF Spec

\* ----------------------------------- 3. an applied run has made what it planned

\* The name of the artifact goes with the phase of the run, and the id in its
\* file with the name until the file is written.
NameInv ==
  /\ dir \in {Old, New}
  /\ dir = Old => tree[Artifact].ref = Old
  /\ renumber \in {"reserve", "rename"} => dir = Old
  /\ renumber \in {"read own", "replace", "read ref", "applied"} => dir = New

Active == renumber \in {"reserve", "rename", "read own", "replace", "read ref", "applied"}

\* The files a run answers for: an agent file only while it is alone.
Mine(p) == p \in Agent => solo

\* Of a file it answers for: as it was, and then still on the list, or as planned.
Underway(p) ==
  /\ tree[p] \in {before[1][p], Planned(p, before[1][p])}
  /\ (p # Artifact /\ tree[p] # Planned(p, before[1][p])) => p \in refs \cup Untracked

\* The artifact's own file is done with first, and the text in hand is what the
\* file on hand holds.
InHand ==
  /\ refs \cap Beside = {}
  /\ renumber = "replace" => /\ path \in refs \cup {Artifact}
                             /\ Mine(path) => read = tree[path]
  /\ (renumber \in {"read ref", "applied"} \/ (renumber = "replace" /\ path # Artifact)) =>
       tree[Artifact] = Planned(Artifact, before[1][Artifact])
  /\ renumber = "applied" => refs = {}

PlanInv ==
  /\ before[1] \in [Path -> Texts]
  /\ Active => InHand /\ \A p \in Path : Mine(p) => Underway(p)

LEMMA NameStep ==
  ASSUME BothInv, NameInv, [Next]_vars
  PROVE  NameInv'
<1> USE DEF NameInv
<1>1. CASE UNCHANGED vars
  BY <1>1 DEF vars, renumberVars
<1>2. CASE RenderNext /\ UNCHANGED renumberVars
  BY <1>2, RenderKeepsNotes, ArtifactIs DEF BothInv, renumberVars
<1>3. CASE RenumberNext
  <2>1. CASE OtherReserves \/ NetworkChanges
    BY <2>1 DEF OtherReserves, NetworkChanges, renumberVars
  <2>2. CASE RenumberStart
    BY <2>2 DEF RenumberStart, Refusal, Goes
  <2>3. CASE Reserve
    BY <2>3 DEF Reserve, Goes
  <2>4. CASE Rename
    BY <2>4 DEF Rename, Goes, Old, New
  <2>5. CASE ReadFile \/ Applied \/ RenumberKilled
    BY <2>5 DEF ReadFile, Applied, RenumberKilled, Goes
  <2>6. CASE ReplaceFile
    BY <2>6 DEF ReplaceFile, Goes, Old, New
  <2> QED
    BY <1>3, <2>1, <2>2, <2>3, <2>4, <2>5, <2>6 DEF RenumberNext
<1>4. CASE UNCHANGED <<tree, dir, renumberVars>>
  BY <1>4 DEF renumberVars
<1> QED
  BY <1>1, <1>2, <1>3, <1>4 DEF Next

\* What a rewrite makes of a text that is as found, or as planned already.
LEMMA RewriteIsPlanned ==
  ASSUME NEW p, p \notin Beside, NEW t \in Texts, NEW r, r \in {t, Planned(p, t)}
  PROVE  (IF r.utf8 /\ Mentions(r.ref, Old) THEN Rewritten(r) ELSE r) = Planned(p, t)
<1>1. CASE ~t.utf8 \/ t.ref # Old
  BY <1>1 DEF Planned, Mentions, Rewritten
<1>2. CASE t.utf8 /\ t.ref = Old
  <2>1. Planned(p, t) = [t EXCEPT !.ref = New]
    BY <1>2 DEF Planned
  <2>2. [t EXCEPT !.ref = New].ref = New
    BY DEF Texts
  <2>3. CASE r = t
    BY <1>2, <2>1, <2>3 DEF Mentions, Rewritten
  <2>4. CASE r = [t EXCEPT !.ref = New]
    BY <2>1, <2>2, <2>4 DEF Mentions, Old, New
  <2> QED
    BY <2>1, <2>3, <2>4
<1> QED
  BY <1>1, <1>2

\* The plan of a run lists what it has to change and git tracks.
LEMMA PlanLists ==
  ASSUME NEW walk \in BOOLEAN, NEW p \in Path \ {Artifact}, Planned(p, tree[p]) # tree[p]
  PROVE  p \in References(walk) \cup Untracked
BY DEF Planned, References, Mentions

\* A step that leaves the run and its files alone leaves its plan alone.
LEMMA PlanUntouched ==
  ASSUME PlanInv, path \in Path, UNCHANGED <<renumberVars>>, solo' => solo,
         \A p \in Path : Mine(p)' => tree'[p] = tree[p]
  PROVE  PlanInv'
<1>1. /\ renumber' = renumber /\ refs' = refs /\ path' = path /\ read' = read /\ before' = before
  BY DEF renumberVars
<1>2. \A p \in Path : Mine(p)' => Mine(p) /\ tree'[p] = tree[p]
  BY DEF Mine
<1>3. Mine(Artifact)'
  BY ArtifactIs DEF Mine
<1>4. ASSUME Active PROVE InHand'
  <2>1. tree'[Artifact] = tree[Artifact] /\ Artifact \in Path
    BY <1>2, <1>3, ArtifactIs
  <2>2. InHand
    BY <1>4 DEF PlanInv
  <2>3. renumber = "replace" => (Mine(path)' => read' = tree'[path'])
    BY <1>1, <1>2, <2>2 DEF InHand, Mine
  <2> QED
    BY <1>1, <2>1, <2>2, <2>3 DEF InHand, Planned
<1> QED
  BY <1>1, <1>2, <1>4 DEF PlanInv, Active, Underway, Planned

LEMMA PlanStep ==
  ASSUME BothInv, NameInv, PlanInv, [Next]_vars
  PROVE  PlanInv'
<1>0. /\ tree \in [Path -> Texts] /\ path \in Path /\ refs \subseteq Path \ {Artifact}
      /\ Artifact \in Path /\ Mine(Artifact)
  BY ArtifactIs DEF BothInv, TreeInv, Mine
<1>1. CASE UNCHANGED vars
  BY <1>0, <1>1, PlanUntouched DEF vars, renumberVars, Mine
<1>2. CASE RenderNext /\ solo' = (solo /\ tree' = tree) /\ UNCHANGED renumberVars
  <2>1. \A p \in Path : Mine(p)' => tree'[p] = tree[p]
    BY <1>2, RenderKeepsNotes DEF Mine, BothInv
  <2> QED
    BY <1>0, <1>2, <2>1, PlanUntouched
<1>3. CASE RenumberNext
  <2>1. CASE OtherReserves \/ NetworkChanges
    BY <1>0, <2>1, PlanUntouched DEF OtherReserves, NetworkChanges, renumberVars, Mine
  <2>2. CASE RenumberStart
    <3>1. /\ tree' = tree /\ before'[1] = tree
          /\ renumber' \in {"refused", "dry run", "reserve"}
      BY <2>2 DEF RenumberStart, Goes
    <3>2. renumber' = "reserve" => \E walk \in BOOLEAN : refs' = References(walk)
      BY <2>2 DEF RenumberStart, Goes
    <3> SUFFICES ASSUME renumber' = "reserve" PROVE InHand' /\ \A p \in Path : Underway(p)'
      BY <1>0, <3>1 DEF PlanInv, Active, Mine
    <3>3. PICK walk \in BOOLEAN : refs' = References(walk)
      BY <3>2
    <3>4. InHand'
      BY <3>3 DEF InHand, References
    <3>5. \A p \in Path : Underway(p)'
      BY <3>1, <3>3, PlanLists DEF Underway, Planned
    <3> QED
      BY <3>4, <3>5
  <2>3. CASE Reserve
    BY <2>3 DEF Reserve, Goes, PlanInv, Active, InHand, Mine, Underway, Planned
  <2>4. CASE Rename
    BY <2>4 DEF Rename, Goes, PlanInv, Active, InHand, Mine, Underway, Planned
  <2>5. CASE ReadFile
    <3>1. /\ tree' = tree /\ before' = before /\ refs' = refs /\ solo' = solo
          /\ renumber' = "replace" /\ read' = tree[path'] /\ Active
      BY <2>5 DEF ReadFile, Goes, Active
    <3>2. \/ renumber = "read own" /\ path' = Artifact
          \/ renumber = "read ref" /\ path' \in refs
      BY <2>5 DEF ReadFile
    <3>3. InHand'
      BY <3>1, <3>2 DEF PlanInv, InHand, Mine, Planned
    <3> QED
      BY <3>1, <3>3 DEF PlanInv, Active, Mine, Underway, Planned
  <2>6. CASE ReplaceFile
    <3>1. /\ renumber = "replace" /\ renumber' = "read ref" /\ refs' = refs \ {path}
          /\ before' = before /\ solo' = solo /\ path' = Artifact
      BY <2>6 DEF ReplaceFile, Goes
    <3>2. /\ path \in refs \cup {Artifact} /\ path \notin Beside /\ (Mine(path) => read = tree[path])
          /\ InHand /\ before[1] \in [Path -> Texts] /\ \A p \in Path : Mine(p) => Underway(p)
      BY <3>1, ArtifactIs DEF PlanInv, Active, InHand
    <3>3. \A p \in Path \ {path} : tree'[p] = tree[p]
      BY <1>0, <2>6 DEF ReplaceFile
    <3>4. ASSUME Mine(path) PROVE tree'[path] = Planned(path, before[1][path])
      <4>1. tree'[path] = IF read.utf8 /\ Mentions(read.ref, Old) THEN Rewritten(read) ELSE read
        BY <1>0, <2>6, <3>2, <3>4 DEF ReplaceFile
      <4>2. read \in {before[1][path], Planned(path, before[1][path])} /\ before[1][path] \in Texts
        BY <1>0, <3>2, <3>4 DEF Underway
      <4> QED
        BY <3>2, <4>1, <4>2, RewriteIsPlanned
    <3>5. tree'[Artifact] = Planned(Artifact, before[1][Artifact])
      <4>1. CASE path = Artifact
        BY <1>0, <3>4, <4>1
      <4>2. CASE path # Artifact
        BY <1>0, <3>1, <3>2, <3>3, <4>2 DEF InHand
      <4> QED
        BY <4>1, <4>2
    <3>6. InHand'
      BY <3>1, <3>2, <3>5 DEF InHand, Planned
    <3>7. ASSUME NEW p \in Path, Mine(p) PROVE Underway(p)'
      <4>1. CASE p = path
        BY <3>1, <3>4, <3>7, <4>1 DEF Underway, Planned
      <4>2. CASE p # path
        BY <3>1, <3>2, <3>3, <3>7, <4>2 DEF Underway, Planned
      <4> QED
        BY <4>1, <4>2
    <3> QED
      BY <3>1, <3>2, <3>6, <3>7 DEF PlanInv, Mine
  <2>7. CASE Applied
    <3>1. /\ tree' = tree /\ before' = before /\ refs' = refs /\ solo' = solo /\ refs = {}
          /\ renumber = "read ref" /\ renumber' = "applied"
      BY <2>7 DEF Applied, Goes
    <3>2. InHand'
      BY <3>1 DEF PlanInv, Active, InHand, Planned
    <3> QED
      BY <3>1, <3>2 DEF PlanInv, Active, Mine, Underway, Planned
  <2>8. CASE RenumberKilled
    BY <2>8 DEF RenumberKilled, Goes, PlanInv, Active
  <2> QED
    BY <1>3, <2>1, <2>2, <2>3, <2>4, <2>5, <2>6, <2>7, <2>8 DEF RenumberNext
<1>4. CASE UNCHANGED <<tree, renumberVars, solo>>
  BY <1>0, <1>4, PlanUntouched DEF Mine
<1> QED
  BY <1>1, <1>2, <1>3, <1>4 DEF Next

\* Whatever killed runs and renders came before it or between its steps: the plan
\* of renumber.py (259-292, 332-359) and its rewrites (295-329, 466-478) make of
\* every tracked file but an agent what it was meant to become, and of an agent
\* too unless a render wrote meanwhile; what is beside the artifact or does not
\* decode stays as it was.
THEOREM AppliedAsPlannedHolds == Spec => []AppliedAsPlanned
<1>1. Init => NameInv /\ PlanInv
  <2> SUFFICES ASSUME Init PROVE NameInv /\ PlanInv
    OBVIOUS
  <2>1. tree[Artifact].ref = Old
    BY ScenarioAssumption DEF Init, ScenarioAssumption
  <2>2. tree \in [Path -> Texts]
    BY InitInv DEF TreeInv
  <2> QED
    BY <2>1, <2>2 DEF Init, RenumberInit, NameInv, PlanInv, Active
<1>2. BothInv /\ NameInv /\ PlanInv /\ [Next]_vars => NameInv' /\ PlanInv'
  BY NameStep, PlanStep
<1>3. NameInv /\ PlanInv => AppliedAsPlanned
  <2> SUFFICES ASSUME NameInv, PlanInv, renumber = "applied"
               PROVE  /\ dir = New
                      /\ \A p \in Path : Mine(p) =>
                           \/ tree[p] = Planned(p, before[1][p])
                           \/ p \in Untracked /\ tree[p] = before[1][p]
    BY DEF AppliedAsPlanned, Mine
  <2>1. InHand /\ \A p \in Path : Mine(p) => Underway(p)
    BY DEF PlanInv, Active
  <2> QED
    BY <2>1 DEF NameInv, InHand, Underway
<1> QED
  BY BothHold, <1>1, <1>2, <1>3, PTL DEF Spec

\* ------------------------------------- 4. a render settles what it came across

LEMMA InTail ==
  ASSUME NEW s \in Seq(Agent), s # << >>, NEW a,
         \A i \in DOMAIN Tail(s) : Tail(s)[i] # a, a # Head(s)
  PROVE  \A i \in DOMAIN s : s[i] # a
<1> SUFFICES ASSUME NEW i \in DOMAIN s, s[i] = a PROVE FALSE
  OBVIOUS
<1>1. i \in 2 .. Len(s)
  OBVIOUS
<1>2. i - 1 \in DOMAIN Tail(s) /\ Tail(s)[i - 1] = s[i]
  BY <1>1
<1> QED
  BY <1>2

\* Every agent that the render is past has the model of its config.
PastInv ==
  /\ (alone /\ render \in {"read", "open", "fill", "replace", "done"}) =>
       \A a \in Agent : (\A i \in DOMAIN todo : todo[i] # a) => Settled(a, tree[a])
  /\ render = "done" => todo = << >>

LEMMA PastStep ==
  ASSUME BothInv, PastInv, [Next]_vars
  PROVE  PastInv'
<1> USE DEF PastInv
<1>1. CASE UNCHANGED vars
  BY <1>1 DEF vars, renderVars, Settled, ResolveModel
<1>2. CASE RenderNext
  <2> USE DEF Settled, ResolveModel
  <2>1. CASE EditSettings
    BY <2>1 DEF EditSettings, renderVars
  <2>2. CASE RenderStart
    BY <2>2, RenderAssumption DEF RenderStart, RenderAssumption
  <2>3. CASE RenderRead
    <3> PICK a \in Agent : a = Head(todo)
      BY <2>3 DEF RenderRead, BothInv, RenderInv
    <3>1. /\ tree' = tree /\ config' = config /\ alone' = alone
          /\ todo \in Seq(Agent) /\ todo # << >> /\ Valid(config)
      BY <2>3 DEF RenderRead, BothInv, RenderInv
    <3>2. CASE todo' = todo /\ render' = "open"
      BY <2>3, <3>1, <3>2 DEF RenderRead
    <3>3. CASE todo' = Tail(todo) /\ render' = "read"
               /\ RenderText(tree[a], ResolveModel(a, config)) = tree[a]
      <4>1. PICK m \in Models : m = ResolveModel(a, config)
        BY <3>1, Resolved
      <4>2. tree[a] \in Texts
        BY AgentIsPath DEF BothInv, TreeInv
      <4>3. tree[a].frontmatter => tree[a].model = ResolveModel(a, config)
        BY <3>3, <4>1, <4>2, Rendered
      <4> SUFFICES ASSUME alone, NEW b \in Agent, \A i \in DOMAIN Tail(todo) : Tail(todo)[i] # b
                   PROVE  Settled(b, tree[b])
        BY <3>1, <3>3
      <4>4. CASE b = a
        BY <4>3, <4>4
      <4>5. CASE b # a
        <5>1. \A i \in DOMAIN todo : todo[i] # b
          BY <3>1, <4>5, InTail
        <5> QED
          BY <5>1, <2>3 DEF RenderRead
      <4> QED
        BY <4>4, <4>5
    <3> QED
      BY <2>3, <3>2, <3>3 DEF RenderRead
  <2>4. CASE RenderOpen \/ RenderFill \/ RenderKilled
    BY <2>4 DEF RenderOpen, RenderFill, RenderKilled
  <2>7. CASE RenderFailed
    BY <2>7 DEF RenderFailed
  <2>5. CASE RenderReplace
    <3> PICK a \in Agent : a = Head(todo)
      BY <2>5 DEF RenderReplace, BothInv, RenderInv
    <3>1. /\ config' = config /\ alone' = alone /\ todo \in Seq(Agent) /\ todo # << >>
          /\ draft.frontmatter => draft.model = ResolveModel(a, config)
          /\ tree' = [tree EXCEPT ![a] = draft] /\ todo' = Tail(todo) /\ render' = "read"
      BY <2>5 DEF RenderReplace, BothInv, RenderInv
    <3> SUFFICES ASSUME alone, NEW b \in Agent, \A i \in DOMAIN Tail(todo) : Tail(todo)[i] # b
                 PROVE  Settled(b, tree'[b])
      BY <3>1
    <3>2. CASE b = a
      BY <3>1, <3>2, AgentIsPath DEF BothInv, TreeInv
    <3>3. CASE b # a
      <4>1. \A i \in DOMAIN todo : todo[i] # b
        BY <3>1, <3>3, InTail
      <4>2. tree'[b] = tree[b]
        BY <3>1, <3>3, AgentIsPath DEF BothInv, TreeInv
      <4> QED
        BY <4>1, <4>2, <2>5 DEF RenderReplace
    <3> QED
      BY <3>2, <3>3
  <2>6. CASE RenderDone
    BY <2>6 DEF RenderDone
  <2> QED
    BY <1>2, <2>1, <2>2, <2>3, <2>4, <2>5, <2>6, <2>7 DEF RenderNext
<1>3. CASE RenumberNext /\ alone' = (alone /\ tree' = tree) /\ UNCHANGED renderVars
  BY <1>3 DEF renderVars, Settled, ResolveModel
<1>4. CASE UNCHANGED <<tree, renderVars, alone>>
  BY <1>4 DEF renderVars, Settled, ResolveModel
<1> QED
  BY <1>1, <1>2, <1>3, <1>4 DEF Next

\* main of agents_render.py (359-395) that came to its end with nobody writing
\* beside it: no agent with a frontmatter is off the config it had parsed.
THEOREM RenderSettlesHolds == Spec => []RenderSettles
<1>1. Init => PastInv
  BY DEF Init, RenderInit, PastInv
<1>2. BothInv /\ PastInv /\ [Next]_vars => PastInv'
  BY PastStep
<1>3. PastInv => RenderSettles
  BY DEF PastInv, RenderSettles, Settled, Drift, CurrentModel
<1> QED
  BY BothHold, <1>1, <1>2, <1>3, PTL DEF Spec
=============================================================================
