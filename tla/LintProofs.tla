------------------------------ MODULE LintProofs ------------------------------
(***************************************************************************)
(* Proofs about the skill linter and the file it passes: a green linter    *)
(* has looked at everything it is there for, and a file that lints clean   *)
(* runs without what the checks are there to prevent; and that the whole   *)
(* of a checkout is well typed.  For files of any length in any            *)
(* vocabulary, any number of fences, and any roots.                        *)
(***************************************************************************)
EXTENDS RewriteProofs, FiniteSetTheorems, WellFoundedInduction

\* ------------------------------------------------------ 1. a file is a finite thing

\* The spots of a file are the places of its lines.
LEMMA SpotsAre ==
  ASSUME file \in Files
  PROVE  /\ \A s \in Spots(file) :
              /\ s = <<s[1], s[2]>>
              /\ s[1] \in 1 .. Len(file.fences)
              /\ s[2] \in 1 .. Len(file.fences[s[1]].body)
         /\ \A i \in 1 .. Len(file.fences) : \A j \in 1 .. Len(file.fences[i].body) :
              <<i, j>> \in Spots(file)
<1>1. /\ file.fences \in Seq([lang: {"sh", "bash"}, body: Seq(lines)])
      /\ DOMAIN file.fences = 1 .. Len(file.fences)
      /\ \A i \in DOMAIN file.fences : DOMAIN file.fences[i].body = 1 .. Len(file.fences[i].body)
  BY DEF Files
<1>2. ASSUME NEW s \in Spots(file)
      PROVE  /\ s = <<s[1], s[2]>> /\ s[1] \in 1 .. Len(file.fences)
             /\ s[2] \in 1 .. Len(file.fences[s[1]].body)
  <2>1. PICK i \in DOMAIN file.fences : s \in {<<i, j>> : j \in DOMAIN file.fences[i].body}
    BY <1>2, Zenon DEF Spots
  <2>2. PICK j \in DOMAIN file.fences[i].body : s = <<i, j>>
    BY <2>1
  <2> QED
    BY <1>1, <2>2
<1>3. ASSUME NEW i \in 1 .. Len(file.fences), NEW j \in 1 .. Len(file.fences[i].body)
      PROVE  <<i, j>> \in Spots(file)
  <2>1. i \in DOMAIN file.fences /\ j \in DOMAIN file.fences[i].body
    BY <1>1
  <2>2. <<i, j>> \in {<<i, k>> : k \in DOMAIN file.fences[i].body}
    BY <2>1
  <2> QED
    BY <2>1, <2>2 DEF Spots
<1> QED
  BY <1>2, <1>3

LEMMA FoundFinite ==
  ASSUME NEW check, NEW S, IsFiniteSet(S)
  PROVE  IsFiniteSet(Found(check, S))
<1>1. IsFiniteSet({check} \X S)
  BY FS_Singleton, FS_Product
<1>2. Found(check, S) = {check} \X S
  BY DEF Found
<1> QED
  BY <1>1, <1>2

\* The image of a finite set under a function.
LEMMA ImageFinite ==
  ASSUME NEW S, IsFiniteSet(S), NEW g, DOMAIN g = S, g = [x \in S |-> g[x]]
  PROVE  IsFiniteSet({g[x] : x \in S})
<1> DEFINE T == {g[x] : x \in S}
<1>1. g \in Surjection(S, T)
  BY DEF Surjection
<1> QED
  BY <1>1, FS_Surjection

LEMMA SpotsFinite ==
  ASSUME file \in Files
  PROVE  IsFiniteSet(Spots(file)) /\ IsFiniteSet(DOMAIN file.fences) /\ IsFiniteSet(NamesIn(file))
<1>1. /\ file.fences \in Seq([lang: {"sh", "bash"}, body: Seq(lines)])
      /\ DOMAIN file.fences = 1 .. Len(file.fences) /\ Len(file.fences) \in Nat
      /\ \A i \in DOMAIN file.fences : /\ DOMAIN file.fences[i].body = 1 .. Len(file.fences[i].body)
                                       /\ Len(file.fences[i].body) \in Nat
  BY DEF Files
<1>2. IsFiniteSet(DOMAIN file.fences)
  BY <1>1, FS_Interval
<1> DEFINE row == [i \in DOMAIN file.fences |-> {<<i, j>> : j \in DOMAIN file.fences[i].body}]
<1>3. ASSUME NEW i \in DOMAIN file.fences PROVE IsFiniteSet(row[i])
  <2>1. IsFiniteSet(DOMAIN file.fences[i].body)
    <3>1. PICK n \in Nat : DOMAIN file.fences[i].body = 1 .. n
      BY <1>1
    <3>2. IsFiniteSet(1 .. n)
      BY FS_Interval
    <3> QED
      BY <3>1, <3>2
  <2>2. IsFiniteSet({i} \X DOMAIN file.fences[i].body)
    BY <2>1, FS_Singleton, FS_Product
  <2>3. row[i] = {i} \X DOMAIN file.fences[i].body
    OBVIOUS
  <2> QED
    BY <2>2, <2>3
<1>4. IsFiniteSet({row[i] : i \in DOMAIN file.fences})
  <2> HIDE DEF row
  <2>1. DOMAIN row = DOMAIN file.fences /\ row = [i \in DOMAIN file.fences |-> row[i]]
    BY DEF row
  <2> QED
    BY <1>2, <2>1, ImageFinite
<1>5. IsFiniteSet(UNION {row[i] : i \in DOMAIN file.fences})
  BY <1>3, <1>4, FS_UNION, Zenon
<1>6. Spots(file) = UNION {row[i] : i \in DOMAIN file.fences}
  BY DEF Spots
<1>7. IsFiniteSet(NamesIn(file))
  <2> DEFINE name == [s \in Spots(file) |-> LineAt(file, s).name]
  <2>1. NamesIn(file) = {name[s] : s \in Spots(file)}
    BY DEF NamesIn
  <2> HIDE DEF name
  <2>2. DOMAIN name = Spots(file) /\ name = [s \in Spots(file) |-> name[s]]
    BY DEF name
  <2>3. IsFiniteSet(Spots(file))
    BY <1>5, <1>6
  <2>4. IsFiniteSet({name[s] : s \in Spots(file)})
    BY <2>2, <2>3, ImageFinite
  <2> QED
    BY <2>1, <2>4
<1> QED
  BY <1>2, <1>5, <1>6, <1>7

LEMMA ProseFinite == \A what : IsFiniteSet(Prose(file, what))
  BY FS_EmptySet, FS_Singleton DEF Prose

LEMMA LiteralsFinite == IsFiniteSet(Literals) /\ IsFiniteSet(Sites)
<1>1. IsFiniteSet({}) /\ {} \cup {"start"} \cup {"resolver"} \cup {"emit"} \cup {"gate"} \cup {"tools path"} = Literals
  BY FS_EmptySet DEF Literals
<1>2. IsFiniteSet({} \cup {"start"} \cup {"resolver"} \cup {"emit"} \cup {"gate"} \cup {"tools path"})
  BY <1>1, FS_Singleton, FS_Union, Zenon
<1>3. {"architect"} \cup {"wrapup"} \cup {"proceed"} = Sites
  BY DEF Sites
<1>4. IsFiniteSet({"architect"} \cup {"wrapup"} \cup {"proceed"})
  BY FS_Singleton, FS_Union, Zenon
<1> QED
  BY <1>1, <1>2, <1>3, <1>4

LEMMA FencePlacesFinite ==
  ASSUME file \in Files, NEW S \in SUBSET (DOMAIN file.fences)
  PROVE  IsFiniteSet({<<i, 0>> : i \in S})
<1>1. IsFiniteSet(S)
  BY SpotsFinite, FS_Subset
<1>2. IsFiniteSet(S \X {0})
  BY <1>1, FS_Singleton, FS_Product
<1>3. {<<i, 0>> : i \in S} = S \X {0}
  OBVIOUS
<1> QED
  BY <1>2, <1>3

\* What one file can be blamed for is finite, whatever is in it.
LEMMA PerFileFinite ==
  ASSUME file \in Files, NEW r
  PROVE  IsFiniteSet(PerFile(file, r))
<1>1. ASSUME NEW S, S \subseteq Spots(file) PROVE IsFiniteSet(S)
  BY <1>1, SpotsFinite, FS_Subset
<1>2. \A D : Lines(file, D) \subseteq Spots(file) /\ Live(file, D) \subseteq Spots(file)
  BY DEF Lines, Live
<1>3. \A D : IsFiniteSet(Lines(file, D)) /\ IsFiniteSet(Live(file, D))
  BY <1>1, <1>2
<1>4. IsFiniteSet(CheckSentinels(file)) /\ IsFiniteSet(CheckArgTemplating(file))
  BY <1>3, ProseFinite, FS_Union, FoundFinite DEF CheckSentinels, CheckArgTemplating
<1>5. IsFiniteSet(CheckBalance(file))
  <2> DEFINE whole == {i \in DOMAIN file.fences : file.closed \/ i # Len(file.fences)}
             lost(o, c) == {j \in whole : Deficit(file, j, o, c)}
             places(S) == {<<i, 0>> : i \in S}
  <2>1. /\ IsFiniteSet(places(DOMAIN file.fences \ whole))
        /\ IsFiniteSet(places(lost("$(", ")"))) /\ IsFiniteSet(places(lost("$((", "))")))
    <3>1. DOMAIN file.fences \ whole \in SUBSET (DOMAIN file.fences)
      OBVIOUS
    <3>2. lost("$(", ")") \in SUBSET (DOMAIN file.fences) /\ lost("$((", "))") \in SUBSET (DOMAIN file.fences)
      OBVIOUS
    <3> QED
      BY <3>1, <3>2, FencePlacesFinite
  <2>2. CheckBalance(file) = Found("balance", places(DOMAIN file.fences \ whole))
                             \cup Found("balance $(", places(lost("$(", ")")))
                             \cup Found("balance $((", places(lost("$((", "))")))
    BY DEF CheckBalance
  <2> HIDE DEF places, lost, whole
  <2> QED
    BY <2>1, <2>2, FS_Union, FoundFinite
<1>6. IsFiniteSet(CheckCanonical(file, r))
  BY LiteralsFinite, FS_Difference, FS_EmptySet, FoundFinite DEF CheckCanonical
<1>7. IsFiniteSet(CheckPosixFence(file))
  <2>1. {s \in Live(file, {"local"}) : file.fences[s[1]].lang # "bash"} \subseteq Spots(file)
    BY <1>2
  <2> QED
    BY <2>1, <1>1, FoundFinite DEF CheckPosixFence
<1>8. ASSUME NEW S, S \subseteq NamesIn(file) PROVE IsFiniteSet(S)
  BY <1>8, SpotsFinite, FS_Subset
<1>9. IsFiniteSet(CheckCrossFenceFn(file))
  BY <1>8, FoundFinite DEF CheckCrossFenceFn
<1>10. IsFiniteSet(CheckCrossFenceVar(file))
  BY <1>8, FoundFinite DEF CheckCrossFenceVar
<1>11. IsFiniteSet(CheckForgeDirectGh(file))
  BY <1>3, FoundFinite DEF CheckForgeDirectGh
<1>12. IsFiniteSet(CheckReadBinFallback(file))
  <2>1. Unguarded(file) \subseteq Spots(file)
    BY <1>2 DEF Unguarded
  <2> QED
    BY <2>1, <1>1, <1>3, FS_Union, FoundFinite DEF CheckReadBinFallback
<1>13. IsFiniteSet(CheckUnguardedSource(file))
  BY <1>3, ProseFinite, FS_Union, FoundFinite DEF CheckUnguardedSource
<1>14. IsFiniteSet({<<"io-error", <<0, 0>>>>})
  BY FS_Singleton
<1>15. IsFiniteSet(CheckSentinels(file) \cup CheckBalance(file) \cup CheckCanonical(file, r)
              \cup CheckPosixFence(file) \cup CheckArgTemplating(file) \cup CheckCrossFenceFn(file)
              \cup CheckCrossFenceVar(file) \cup CheckForgeDirectGh(file)
              \cup CheckReadBinFallback(file) \cup CheckUnguardedSource(file))
  BY <1>4, <1>5, <1>6, <1>7, <1>9, <1>10, <1>11, <1>12, <1>13, FS_Union, Zenon
<1>16. IsFiniteSet(CheckReadBinFallback(file) \cup CheckUnguardedSource(file))
  BY <1>12, <1>13, FS_Union
<1>17. file.role \in {"skill", "agent", "phase", "partial"}
  BY DEF Files
<1> QED
  BY <1>13, <1>14, <1>15, <1>16, <1>17 DEF PerFile

RootKnown == \E s \in Scenarios : root \in s.roots

\* What ScenarioAssumption says of the root that is scanned.
LEMMA RootIs ==
  ASSUME RootKnown
  PROVE  /\ root.others \in Nat /\ DOMAIN root.sites \subseteq Sites
         /\ root.init # << >> => IsFiniteSet(Head(root.init))
         /\ root.drift # << >> => IsFiniteSet(Head(root.drift))
         /\ IsFiniteSet(All(root.reader)) /\ root.unread \cup root.outside \subseteq Compared
<1>1. PICK s \in Scenarios : root \in s.roots
  BY DEF RootKnown
<1>2. \A r \in s.roots : /\ r.others \in Nat /\ r.toolkit \in BOOLEAN
                         /\ r.unread \cup r.outside \subseteq Compared
                         /\ \A w \in DOMAIN r.sites : w \in Sites
                         /\ r.init # << >> => IsFiniteSet(Head(r.init))
                         /\ r.drift # << >> => IsFiniteSet(Head(r.drift))
                         /\ IsFiniteSet(All(r.reader))
  BY ScenarioAssumption DEF ScenarioAssumption
<1> QED
  BY <1>1, <1>2

LEMMA RootFindingsFinite ==
  ASSUME RootKnown
  PROVE  /\ IsFiniteSet(CheckAgentModelDrift(root))
         /\ IsFiniteSet(CheckSyncSurfaceParity(root))
         /\ IsFiniteSet(CheckRetrievalStatusParity(root)) /\ IsFiniteSet(WalkErrors(root))
<1>1. IsFiniteSet(CheckAgentModelDrift(root))
  <2>1. IsFiniteSet(Drift(settings))
    <3>1. Drift(settings) \subseteq Agent
      BY DEF Drift
    <3> QED
      BY <3>1, TreeAssumption, FS_Subset DEF TreeAssumption
  <2> QED
    BY <2>1, FS_EmptySet, FS_Singleton, FoundFinite DEF CheckAgentModelDrift
<1>2. IsFiniteSet(CheckSyncSurfaceParity(root))
  <2>1. CASE root.unread \cap {"init", "template-drift"} # {} \/ root.init = << >> \/ root.drift = << >>
    BY <2>1, FS_EmptySet DEF CheckSyncSurfaceParity
  <2>2. CASE /\ root.unread \cap {"init", "template-drift"} = {}
             /\ root.init # << >> /\ root.drift # << >>
    <3> DEFINE copied == Head(root.init)
               checked == Head(root.drift)
    <3>1. IsFiniteSet(copied) /\ IsFiniteSet(checked)
      BY <2>2, RootIs
    <3>2. CheckSyncSurfaceParity(root)
            = Found("unknown surface", copied \ SURFACES)
              \cup Found("unknown surface checked", checked \ SURFACES)
              \cup Found("surface not checked", (copied \cap COPIED) \ checked)
              \cup Found("surface not copied", (checked \cap COPIED) \ copied)
      BY <2>2 DEF CheckSyncSurfaceParity
    <3> HIDE DEF copied, checked
    <3>3. /\ IsFiniteSet(copied \ SURFACES) /\ IsFiniteSet(checked \ SURFACES)
          /\ IsFiniteSet((copied \cap COPIED) \ checked)
          /\ IsFiniteSet((checked \cap COPIED) \ copied)
      BY <3>1, FS_Difference, FS_Intersection
    <3> QED
      BY <3>2, <3>3, FoundFinite, FS_Union
  <2> QED
    BY <2>1, <2>2
<1>3. IsFiniteSet(CheckRetrievalStatusParity(root))
  <2> DEFINE seen == DOMAIN root.sites \ root.unread
             hidden == UNION {Found(w, All(root.sites[w]) \cap All(root.reader)) : w \in seen}
  <2>1. IsFiniteSet(hidden)
    <3>1. IsFiniteSet(Sites \X All(root.reader))
      BY LiteralsFinite, RootIs, FS_Product
    <3>2. hidden \subseteq Sites \X All(root.reader)
      BY RootIs DEF Found
    <3> QED
      BY <3>1, <3>2, FS_Subset
  <2>2. IsFiniteSet(Sites \ DOMAIN root.sites)
    BY LiteralsFinite, FS_Difference
  <2>3. IsFiniteSet({w \in seen : All(root.sites[w]) = {}})
    <3>1. {w \in seen : All(root.sites[w]) = {}} \subseteq Sites
      BY RootIs
    <3> QED
      BY <3>1, LiteralsFinite, FS_Subset
  <2>4. IsFiniteSet(IF All(root.reader) = {} THEN {"reader"} ELSE {})
    BY FS_EmptySet, FS_Singleton
  <2>5. \/ CheckRetrievalStatusParity(root) = {}
        \/ CheckRetrievalStatusParity(root) =
             Found("empty exclusion", IF All(root.reader) = {} THEN {"reader"} ELSE {})
             \cup Found("site missing", Sites \ DOMAIN root.sites)
             \cup Found("nothing declared", {w \in seen : All(root.sites[w]) = {}})
             \cup hidden
    BY Zenon DEF CheckRetrievalStatusParity
  <2> DEFINE empty == IF All(root.reader) = {} THEN {"reader"} ELSE {}
             bare == {w \in seen : All(root.sites[w]) = {}}
             reports == Found("empty exclusion", empty) \cup Found("site missing", Sites \ DOMAIN root.sites)
                          \cup Found("nothing declared", bare) \cup hidden
  <2>6. IsFiniteSet(empty) /\ IsFiniteSet(bare)
    BY <2>3, <2>4
  <2>7. CheckRetrievalStatusParity(root) = {} \/ CheckRetrievalStatusParity(root) = reports
    BY <2>5
  <2> HIDE DEF seen, hidden, empty, bare
  <2>8. IsFiniteSet(reports)
    BY <2>1, <2>2, <2>6, FoundFinite, FS_Union
  <2> QED
    BY <2>7, <2>8, FS_EmptySet
<1>4. IsFiniteSet(WalkErrors(root))
  <2>1. IsFiniteSet({"init"} \cup {"template-drift"} \cup {"reader"} \cup Sites)
    BY LiteralsFinite, FS_Singleton, FS_Union, Zenon
  <2>2. root.unread \ root.outside \subseteq {"init"} \cup {"template-drift"} \cup {"reader"} \cup Sites
    BY RootIs DEF Compared
  <2> QED
    BY <2>1, <2>2, FS_Subset, FoundFinite DEF WalkErrors
<1> QED
  BY <1>1, <1>2, <1>3, <1>4

LEMMA FindingsFinite ==
  ASSUME file \in Files, RootKnown
  PROVE  IsFiniteSet(Findings(file, root))
<1>1. IsFiniteSet(IF Walked(file) THEN PerFile(file, root) ELSE {})
  BY PerFileFinite, FS_EmptySet
<1> QED
  BY <1>1, RootFindingsFinite, FS_Union DEF Findings

\* ------------------------------------------- 2. the exit status says what was found

LEMMA SmallRemainder ==
  ASSUME NEW n \in Nat, NEW d \in Nat, n < d
  PROVE  n % d = n
OBVIOUS

\* The status is 0 for a scan that met a skill and had no finding, and then only:
\* neither the cap nor the wrap at 256 can make a number of findings look like none.
LEMMA ZeroStatus ==
  ASSUME NEW n \in Nat, NEW scanned \in Nat
  PROVE  /\ Status(n, scanned) \in 0 .. VACUOUS_SCAN_EXIT
         /\ Status(n, scanned) = 0 => n = 0 /\ scanned # 0
<1> DEFINE code == IF scanned = 0 THEN VACUOUS_SCAN_EXIT
                   ELSE IF n < MAX_FINDINGS_EXIT THEN n ELSE MAX_FINDINGS_EXIT
<1>1. /\ VACUOUS_SCAN_EXIT \in Nat /\ code \in 0 .. VACUOUS_SCAN_EXIT
      /\ code = 0 => n = 0 /\ scanned # 0
  BY ExitAssumption DEF ExitAssumption
<1>2. Status(n, scanned) = code % (VACUOUS_SCAN_EXIT + 1)
  BY DEF Status
<1> HIDE DEF code
<1>3. Status(n, scanned) = code
  BY <1>1, <1>2, SmallRemainder
<1> QED
  BY <1>1, <1>3

\* ------------------------------------- 3. what the author, the linter and the agent do

Report == [findings |-> Findings(file, root), scanned |-> Scanned(file, root),
           status |-> Status(Cardinality(Findings(file, root)), Scanned(file, root))]

\* A file is only ever linted as a whole, and what the linter looked at stays as
\* it is from then on.
ReportInv ==
  /\ file \in Files /\ RootKnown /\ room \in Nat
  /\ lint = NotRun \/ (task = "lint" /\ lint = Report)

\* What the linter does to its own variables, and what the rest leaves alone.
LEMMA LintOrNot ==
  ASSUME [Next]_vars
  PROVE  /\ task' = task
         /\ \/ LintNext /\ task = "lint" /\ UNCHANGED <<tree, settings>>
            \/ UNCHANGED lintVars /\ (task = "lint" => UNCHANGED <<tree, settings>>)
BY DEF Next, vars, lintVars, settingVars

LEMMA FilesOfLength ==
  ASSUME file \in Files
  PROVE  Len(file.fences) \in Nat /\ file.fences \in Seq([lang: {"sh", "bash"}, body: Seq(lines)])
BY DEF Files

LEMMA ReportType ==
  ASSUME file \in Files, RootKnown
  PROVE  Report.scanned \in Nat /\ Report.status \in 0 .. VACUOUS_SCAN_EXIT
<1>1. Cardinality(Findings(file, root)) \in Nat
  BY FindingsFinite, FS_CardinalityType
<1>2. Scanned(file, root) \in Nat
  BY RootIs DEF Scanned
<1> QED
  BY <1>1, <1>2, ZeroStatus DEF Report

\* A green report: something was scanned and nothing was found.
LEMMA GreenReport ==
  ASSUME ReportInv, Green
  PROVE  Findings(file, root) = {} /\ Scanned(file, root) # 0 /\ task = "lint" /\ lint = Report
<1>1. Cardinality(Findings(file, root)) \in Nat /\ IsFiniteSet(Findings(file, root))
  BY FindingsFinite, FS_CardinalityType DEF ReportInv
<1>2. Scanned(file, root) \in Nat
  BY RootIs DEF Scanned, ReportInv
<1>3. lint # NotRun
  BY ExitAssumption DEF ExitAssumption, Green, NotRun
<1>4. Status(Cardinality(Findings(file, root)), Scanned(file, root)) = 0
  BY <1>3 DEF ReportInv, Report, Green
<1>5. Cardinality(Findings(file, root)) = 0 /\ Scanned(file, root) # 0
  BY <1>1, <1>2, <1>4, ZeroStatus
<1> QED
  BY <1>1, <1>3, <1>5, FS_EmptySet DEF ReportInv

\* The edits of the author: the vocabulary, the root and the rest of the file stay.
LEMMA EditType ==
  ASSUME file \in Files,
         NEW fences \in Seq([lang: {"sh", "bash"}, body: Seq(lines)])
  PROVE  [file EXCEPT !.fences = fences] \in Files
BY DEF Files

LEMMA OpenFenceIs ==
  ASSUME file \in Files, OpenFence
  PROVE  /\ file' \in Files /\ lines' = lines /\ UNCHANGED <<root, room, lint, shellVars>>
         /\ lint = NotRun
<1>1. PICK lang \in {"sh", "bash"} : Edit(Append(file.fences, [lang |-> lang, body |-> << >>]))
  BY DEF OpenFence
<1>2. Append(file.fences, [lang |-> lang, body |-> << >>]) \in Seq([lang: {"sh", "bash"}, body: Seq(lines)])
  BY FilesOfLength
<1> QED
  BY <1>1, <1>2, EditType DEF Edit, OpenFence, Files

LEMMA LastOf ==
  ASSUME NEW S, NEW s \in Seq(S), s # << >>
  PROVE  /\ Len(s) \in DOMAIN s /\ s[Len(s)] \in S
         /\ \A x \in S : [s EXCEPT ![Len(s)] = x] \in Seq(S)
OBVIOUS

LEMMA WriteLineIs ==
  ASSUME file \in Files, WriteLine
  PROVE  /\ file' \in Files /\ lines' = lines /\ UNCHANGED <<root, lint, shellVars>>
         /\ room > 0 /\ room' = room - 1 /\ lint = NotRun
<1>1. PICK l \in lines : Edit([file.fences EXCEPT ![Len(file.fences)].body = Append(@, l)])
  BY DEF WriteLine
<1> DEFINE n == Len(file.fences)
           body == Append(file.fences[n].body, l)
           fences == [file.fences EXCEPT ![n] = [file.fences[n] EXCEPT !.body = body]]
<1>2. n \in DOMAIN file.fences /\ file.fences \in Seq([lang: {"sh", "bash"}, body: Seq(lines)])
  BY FilesOfLength, LastOf DEF WriteLine
<1>3. file.fences[n] \in [lang: {"sh", "bash"}, body: Seq(lines)]
  BY <1>2, FilesOfLength, LastOf DEF WriteLine
<1>4. [file.fences[n] EXCEPT !.body = body] \in [lang: {"sh", "bash"}, body: Seq(lines)]
  <2>1. file.fences[n].body \in Seq(lines)
    BY <1>3
  <2>2. body \in Seq(lines)
    BY <2>1
  <2> HIDE DEF body, n
  <2> QED
    BY <1>3, <2>2
<1>5. fences \in Seq([lang: {"sh", "bash"}, body: Seq(lines)])
  BY <1>2, <1>4, LastOf DEF WriteLine
<1>6. fences = [file.fences EXCEPT ![Len(file.fences)].body = Append(@, l)]
  BY <1>2
<1> HIDE DEF fences
<1>7. Edit(fences)
  BY <1>1, <1>6
<1> QED
  BY <1>5, <1>7, EditType DEF Edit, WriteLine, Files

\* The report is about the file, the root, the agents and the config; nothing
\* else is read.
LEMMA ReportStays ==
  ASSUME UNCHANGED <<file, root, tree, settings>>
  PROVE  Report' = Report
BY DEF Report, Findings, Scanned, CheckAgentModelDrift, Drift, Legible

LEMMA ReportStep ==
  ASSUME ReportInv, [Next]_vars
  PROVE  ReportInv'
<1> USE DEF ReportInv
<1>1. CASE UNCHANGED lintVars /\ (task = "lint" => UNCHANGED <<tree, settings>>) /\ task' = task
  <2>1. file' \in Files' /\ RootKnown' /\ room' \in Nat /\ lint' = lint /\ file' = file /\ root' = root
    BY <1>1 DEF lintVars, fileVars, RootKnown, Files
  <2> QED
    BY <1>1, <2>1, ReportStays
<1>2. CASE LintNext /\ task = "lint" /\ UNCHANGED <<tree, settings, task>>
  <2>1. CASE OpenFence
    <3>1. file' \in Files' /\ RootKnown' /\ lint' = NotRun /\ room' \in Nat
      BY <2>1, OpenFenceIs DEF RootKnown, Files
    <3> QED
      BY <3>1
  <2>2. CASE WriteLine
    <3>1. file' \in Files' /\ RootKnown' /\ lint' = NotRun
      BY <2>2, WriteLineIs DEF RootKnown, Files
    <3>2. room > 0 /\ room' = room - 1
      BY <2>2, WriteLineIs
    <3> QED
      BY <3>1, <3>2
  <2>3. CASE Lint
    <3>1. UNCHANGED <<file, root, lines, room>>
      BY <2>3 DEF Lint, fileVars
    <3>2. lint' = Report
      BY <2>3 DEF Lint, Report
    <3> QED
      BY <1>2, <3>1, <3>2, ReportStays DEF RootKnown, Files
  <2>4. CASE StartFence \/ RunLine \/ EndFence
    <3>1. UNCHANGED <<file, root, lines, room, lint>>
      BY <2>4 DEF StartFence, RunLine, EndFence, fileVars
    <3> QED
      BY <1>2, <3>1, ReportStays DEF RootKnown, Files
  <2> QED
    BY <1>2, <2>1, <2>2, <2>3, <2>4 DEF LintNext
<1> QED
  BY <1>1, <1>2, LintOrNot

LEMMA ReportInit == Init => ReportInv
<1> SUFFICES ASSUME Init PROVE ReportInv
  OBVIOUS
<1>1. PICK s \in Scenarios : file \in s.files /\ root \in s.roots /\ lines = s.lines /\ room = s.room
  BY DEF Init
<1>2. s.files \subseteq Files /\ s.room \in Nat
  BY <1>1, ScenarioAssumption DEF ScenarioAssumption, Files
<1>3. lint = NotRun
  BY DEF Init, LintInit
<1> QED
  BY <1>1, <1>2, <1>3 DEF ReportInv, RootKnown

\* What the linter reported is the report of the file, the settings and the root
\* it was given (check.py, main).
THEOREM ReportHolds == Spec => []ReportInv
<1>1. ReportInv /\ [Next]_vars => ReportInv'
  BY ReportStep
<1> QED
  BY ReportInit, <1>1, PTL DEF Spec

\* ------------------------------------------------ 4. a green linter has looked

LEMMA NothingFound == \A check, S : Found(check, S) = {} <=> S = {}
  BY Zenon DEF Found

\* An exit status of 0 (check.py 1587-1645) is no empty scan.  It is no drift of the
\* agents only if the render imports and every agent decodes: whatever else
\* check_drift raises is swallowed (1243-1244, 1261-1262).  And for the files that
\* are walked, it is no surface checked and not copied or copied and not checked,
\* and no status that a lifecycle step writes and retrieval leaves out.
THEOREM GreenMeansCheckedHolds == Spec => []GreenMeansChecked
<1>1. ReportInv => GreenMeansChecked
  <2> SUFFICES ASSUME ReportInv, Green
               PROVE  /\ root.others > 0 \/ (file.role = "skill" /\ file.readable /\ Walked(file))
                      /\ (root.toolkit /\ root.imports /\ Legible) =>
                           /\ Valid(settings)
                           /\ \A a \in Agent : /\ tree[a].frontmatter
                                             /\ tree[a].model = ResolveModel(a, settings)
                      /\ (/\ root.outside \cap {"init", "template-drift"} = {}
                          /\ root.init # << >> /\ root.drift # << >>) =>
                           Head(root.init) \cap COPIED = Head(root.drift) \cap COPIED
                      /\ ("reader" \notin root.outside /\ root.reader # << >>) =>
                           \A w \in Sites : /\ w \in DOMAIN root.sites
                                            /\ w \in root.outside \/
                                                 /\ All(root.sites[w]) # {}
                                                 /\ All(root.sites[w]) \cap All(root.reader) = {}
    BY DEF GreenMeansChecked
  <2>1. /\ Walked(file) => PerFile(file, root) = {}
        /\ CheckAgentModelDrift(root) = {} /\ CheckSyncSurfaceParity(root) = {}
        /\ CheckRetrievalStatusParity(root) = {} /\ WalkErrors(root) = {}
    BY GreenReport DEF Findings
  <2>2. root.others > 0 \/ (file.role = "skill" /\ file.readable /\ Walked(file))
    <3>1. root.others \in Nat /\ Scanned(file, root) # 0
      BY RootIs, GreenReport DEF ReportInv
    <3>2. CASE root.others # 0
      BY <3>1, <3>2
    <3>3. CASE root.others = 0
      <4>1. file.role = "skill" /\ Walked(file)
        BY <3>1, <3>3 DEF Scanned
      <4>2. file.readable
        BY <2>1, <4>1 DEF PerFile
      <4> QED
        BY <4>1, <4>2
    <3> QED
      BY <3>2, <3>3
  <2>3. ASSUME root.toolkit, root.imports, Legible
        PROVE  /\ Valid(settings)
               /\ \A a \in Agent : tree[a].frontmatter /\ tree[a].model = ResolveModel(a, settings)
    <3>1. Valid(settings) /\ Drift(settings) = {}
      BY <2>1, <2>3, NothingFound DEF CheckAgentModelDrift
    <3>2. ASSUME NEW a \in Agent PROVE tree[a].frontmatter /\ tree[a].model = ResolveModel(a, settings)
      <4>1. CurrentModel(tree[a]) = ResolveModel(a, settings)
        BY <3>1 DEF Drift
      <4>2. ResolveModel(a, settings) # "none"
        BY <3>1, Resolved DEF Models
      <4> QED
        BY <4>1, <4>2 DEF CurrentModel
    <3> QED
      BY <3>1, <3>2
  <2>6. root.unread \subseteq root.outside
    BY <2>1, NothingFound DEF WalkErrors
  <2>4. ASSUME root.outside \cap {"init", "template-drift"} = {}, root.init # << >>, root.drift # << >>
        PROVE  Head(root.init) \cap COPIED = Head(root.drift) \cap COPIED
    <3> DEFINE copied == Head(root.init)
               checked == Head(root.drift)
    <3>1. /\ Found("surface not checked", (copied \cap COPIED) \ checked) = {}
          /\ Found("surface not copied", (checked \cap COPIED) \ copied) = {}
      BY <2>1, <2>4, <2>6 DEF CheckSyncSurfaceParity
    <3>2. (copied \cap COPIED) \ checked = {} /\ (checked \cap COPIED) \ copied = {}
      BY <3>1, NothingFound
    <3> QED
      BY <3>2
  <2>5. ASSUME "reader" \notin root.outside, root.reader # << >>, NEW w \in Sites
        PROVE  /\ w \in DOMAIN root.sites
               /\ w \in root.outside \/
                    /\ All(root.sites[w]) # {}
                    /\ All(root.sites[w]) \cap All(root.reader) = {}
    <3> DEFINE seen == DOMAIN root.sites \ root.unread
    <3>1. /\ Found("site missing", Sites \ DOMAIN root.sites) = {}
          /\ Found("nothing declared", {v \in seen : All(root.sites[v]) = {}}) = {}
          /\ UNION {Found(v, All(root.sites[v]) \cap All(root.reader)) : v \in seen} = {}
      BY <2>1, <2>5, <2>6 DEF CheckRetrievalStatusParity
    <3>2. Sites \ DOMAIN root.sites = {} /\ {v \in seen : All(root.sites[v]) = {}} = {}
      BY <3>1, NothingFound
    <3>3. w \in DOMAIN root.sites
      BY <3>2
    <3>4. CASE w \in seen
      <4>1. Found(w, All(root.sites[w]) \cap All(root.reader)) = {}
        BY <3>1, <3>4
      <4> QED
        BY <3>2, <3>3, <3>4, <4>1, NothingFound
    <3>5. CASE w \in root.outside
      BY <3>3, <3>5
    <3> QED
      BY <2>6, <3>3, <3>4, <3>5
  <2> QED
    BY <2>2, <2>3, <2>4, <2>5
<1> QED
  BY ReportHolds, <1>1, PTL

\* -------------------------------------------------- 5. what a file does when it runs

\* The shell of a fence has only names of the file, and nothing has run before
\* the file was linted.
ShellInv ==
  /\ shell \in [fns: SUBSET NamesIn(file), vars: SUBSET NamesIn(file),
                unset: SUBSET NamesIn(file), called: SUBSET NamesIn(file),
                copy: BOOLEAN, bin: {"absolute", "bare", "empty"}]
  /\ env \subseteq NamesIn(file) /\ ever \subseteq NamesIn(file) /\ worked \subseteq NamesIn(file)
  /\ stopped \in BOOLEAN
  /\ trouble \subseteq {"corpus astray", "dead shell", "clobbered", "lost variable"}
  /\ at \in (0 .. Len(file.fences)) \X Nat
  /\ at[2] # 0 => at[1] # 0 /\ Green
  /\ lint = NotRun => /\ at = <<0, 0>> /\ shell = NoShell /\ env = {} /\ ever = {}
                      /\ worked = {} /\ stopped = FALSE /\ trouble = {}

LEMMA NotRunIsNotGreen == lint = NotRun => ~Green
  BY ExitAssumption DEF ExitAssumption, NotRun, Green

\* The line that runs next is one of the file's.
LEMMA LineOfFile ==
  ASSUME file \in Files, ShellInv, RunLine
  PROVE  /\ at \in Spots(file) /\ at = <<at[1], at[2]>> /\ LineAt(file, at).name \in NamesIn(file)
         /\ Green /\ at[1] \in 1 .. Len(file.fences) /\ at[2] \in Nat \ {0}
         /\ at[2] <= Len(file.fences[at[1]].body)
<1>1. /\ at = <<at[1], at[2]>> /\ at[1] \in 1 .. Len(file.fences) /\ at[2] \in Nat \ {0} /\ Green
      /\ at[2] <= Len(file.fences[at[1]].body)
  <2>1. at[2] # 0 /\ at[2] <= Len(file.fences[at[1]].body)
    BY DEF RunLine
  <2>2. at \in (0 .. Len(file.fences)) \X Nat /\ (at[2] # 0 => at[1] # 0 /\ Green)
    BY DEF ShellInv
  <2>3. at[1] \in 0 .. Len(file.fences) /\ at[2] \in Nat /\ at = <<at[1], at[2]>>
    BY <2>2
  <2> QED
    BY <2>1, <2>2, <2>3, FilesOfLength
<1>2. Len(file.fences[at[1]].body) \in Nat
  BY <1>1 DEF Files
<1>3. <<at[1], at[2]>> \in Spots(file)
  BY <1>1, <1>2, SpotsAre
<1>4. LineAt(file, at).name \in NamesIn(file)
  BY <1>1, <1>3 DEF NamesIn
<1> QED
  BY <1>1, <1>3, <1>4

\* A line that runs, and what it does: to the shell unless it is a comment, and
\* nothing to what the report is about.
Stops(l) == Dies(l) \/ (l.does = "guard" /\ shell.bin # "absolute")

LEMMA RunLineIs ==
  ASSUME RunLine, NEW l, l = LineAt(file, at)
  PROVE  /\ UNCHANGED <<file, root, lines, room, lint, worked>>
         /\ l.comment => at' = <<at[1], at[2] + 1>> /\ UNCHANGED <<shell, env, ever, stopped, trouble>>
         /\ ~l.comment =>
              /\ shell' = IF Stops(l) THEN NoShell ELSE After(l)
              /\ at' = IF Stops(l) THEN <<at[1], 0>> ELSE <<at[1], at[2] + 1>>
              /\ env' = IF l.does = "export" THEN env \cup {l.name} ELSE env
              /\ ever' = IF l.does = "assign" THEN ever \cup {l.name} ELSE ever
              /\ stopped' = (stopped \/ Stops(l))
              /\ trouble' = trouble \cup (IF Dies(l) THEN {"dead shell"} ELSE {})
                                    \cup (IF Astray(l) THEN {"corpus astray"} ELSE {})
                                    \cup (IF l.does = "$digit" THEN {"clobbered"} ELSE {})
BY DEF RunLine, Stops, fileVars

ShellOf(S) == [fns: SUBSET S, vars: SUBSET S, unset: SUBSET S, called: SUBSET S,
               copy: BOOLEAN, bin: {"absolute", "bare", "empty"}]

LEMMA AfterIs ==
  ASSUME NEW S, shell \in ShellOf(S), NEW l, l.name \in S
  PROVE  /\ After(l) \in ShellOf(S) /\ After(l).bin = shell.bin
         /\ shell.fns \subseteq After(l).fns /\ shell.called \subseteq After(l).called
         /\ shell.vars \subseteq After(l).vars
         /\ l.does = "def" => l.name \in After(l).fns
         /\ l.does = "call" => l.name \in After(l).called
         /\ l.does = "assign" => l.name \in After(l).vars
         /\ After(l).unset \subseteq shell.unset \cup (IF l.does = "read" THEN {l.name} ELSE {})
         /\ l.does # "copy" => After(l).copy = shell.copy
<1>1. CASE l.does = "def"
  BY <1>1 DEF After, ShellOf
<1>2. CASE l.does = "call"
  BY <1>2 DEF After, ShellOf
<1>3. CASE l.does \in {"assign", "export"}
  BY <1>3 DEF After, ShellOf
<1>4. CASE l.does = "read" /\ l.name \notin shell.vars \cup env
  BY <1>4 DEF After, ShellOf
<1>5. CASE l.does = "copy"
  BY <1>5 DEF After, ShellOf
<1>6. CASE /\ l.does \notin {"def", "call", "assign", "export", "copy"}
           /\ ~(l.does = "read" /\ l.name \notin shell.vars \cup env)
  <2>1. After(l) = shell
    BY <1>6 DEF After
  <2> QED
    BY <1>6, <2>1
<1> QED
  BY <1>1, <1>2, <1>3, <1>4, <1>5, <1>6

LEMMA NoShellType == \A S : NoShell \in ShellOf(S)
  BY DEF NoShell, ShellOf

LEMMA PlaceType ==
  ASSUME file \in Files, NEW i, NEW j, i \in 0 .. Len(file.fences), j \in Nat
  PROVE  <<i, j>> \in (0 .. Len(file.fences)) \X Nat /\ <<i, j>>[1] = i /\ <<i, j>>[2] = j
OBVIOUS

LEMMA PlaceIs ==
  ASSUME ReportInv, ShellInv
  PROVE  /\ file \in Files /\ Len(file.fences) \in Nat /\ at[1] \in 0 .. Len(file.fences)
         /\ at \in (0 .. Len(file.fences)) \X Nat
         /\ at[1] \in Nat /\ at[2] \in Nat /\ at = <<at[1], at[2]>>
<1>1. file \in Files /\ Len(file.fences) \in Nat /\ at \in (0 .. Len(file.fences)) \X Nat
  BY FilesOfLength DEF ReportInv, ShellInv
<1> QED
  BY <1>1

LEMMA ShellStep ==
  ASSUME ReportInv, ShellInv, [Next]_vars
  PROVE  ShellInv'
<1>0. /\ file \in Files /\ Len(file.fences) \in Nat /\ at[1] \in 0 .. Len(file.fences)
      /\ at \in (0 .. Len(file.fences)) \X Nat
  BY PlaceIs
<1>1. CASE UNCHANGED lintVars
  BY <1>1 DEF lintVars, fileVars, shellVars, Green, ShellInv
<1>2. CASE OpenFence \/ WriteLine
  <2>1. /\ UNCHANGED <<lint, at, shell, env, ever, worked, stopped, trouble>> /\ lint = NotRun
        /\ file' \in Files /\ lines' = lines
    BY <1>0, <1>2, OpenFenceIs, WriteLineIs DEF shellVars
  <2>2. Len(file'.fences) \in Nat
    BY <2>1 DEF Files
  <2>3. shell' \in ShellOf(NamesIn(file'))
    BY <2>1, NoShellType DEF ShellInv
  <2>4. at' \in (0 .. Len(file'.fences)) \X Nat /\ at'[2] = 0
    <3>1. at' = <<0, 0>>
      BY <2>1 DEF ShellInv
    <3>2. 0 \in 0 .. Len(file'.fences)
      BY <2>2
    <3> QED
      BY <3>1, <3>2
  <2> QED
    BY <2>1, <2>3, <2>4 DEF ShellOf, ShellInv
<1>3. CASE Lint
  <2>1. UNCHANGED <<file, at, shell, env, ever, worked, stopped, trouble>> /\ lint = NotRun
    BY <1>3 DEF Lint, fileVars, shellVars
  <2>2. /\ at = <<0, 0>> /\ shell = NoShell /\ env = {} /\ ever = {} /\ worked = {}
        /\ stopped = FALSE /\ trouble = {}
    BY <2>1, Zenon DEF ShellInv
  <2>5. at[2] = 0
    BY <2>2
  <2>3. at' \in (0 .. Len(file'.fences)) \X Nat
    BY <1>0, <2>1
  <2>4. shell' \in ShellOf(NamesIn(file'))
    BY <2>1, <2>2, NoShellType
  <2> QED
    BY <2>1, <2>2, <2>3, <2>4, <2>5 DEF ShellInv, ShellOf
<1>4. CASE StartFence
  <2>1. /\ UNCHANGED <<file, lint, env, ever, worked, stopped, trouble>> /\ Green /\ at[1] < Len(file.fences)
        /\ at' = <<at[1] + 1, 1>>
        /\ \E bin \in {"absolute", "bare", "empty"} : shell' = [NoShell EXCEPT !.bin = bin]
    BY <1>4 DEF StartFence, fileVars, Green
  <2>2. shell' \in ShellOf(NamesIn(file))
    <3>1. PICK bin \in {"absolute", "bare", "empty"} : shell' = [NoShell EXCEPT !.bin = bin]
      BY <2>1
    <3> QED
      BY <3>1, NoShellType DEF ShellOf
  <2>3. at' \in (0 .. Len(file.fences)) \X Nat /\ at'[1] # 0
    <3>1. at[1] + 1 \in 0 .. Len(file.fences) /\ at[1] + 1 # 0
      BY <1>0, <2>1
    <3> QED
      BY <1>0, <2>1, <3>1, PlaceType
  <2> QED
    BY <2>1, <2>2, <2>3, NotRunIsNotGreen DEF ShellOf, Green, ShellInv
<1>5. CASE RunLine
  <2> DEFINE l == LineAt(file, at)
             S == NamesIn(file)
  <2>1. /\ Green /\ l.name \in S /\ at[1] \in 1 .. Len(file.fences) /\ at[2] \in Nat \ {0}
    BY <1>0, <1>5, LineOfFile
  <2>2. UNCHANGED <<file, lint, worked>>
    BY <1>5, RunLineIs
  <2>3. shell \in ShellOf(S)
    BY DEF ShellOf, ShellInv
  <2>4. at' = <<at[1], at[2] + 1>> \/ at' = <<at[1], 0>>
    BY <1>5, RunLineIs
  <2>5. shell' = shell \/ shell' = NoShell \/ shell' = After(l)
    BY <1>5, RunLineIs
  <2>6. shell' \in ShellOf(S)
    <3> HIDE DEF l, S
    <3>1. After(l) \in ShellOf(S)
      BY <2>1, <2>3, AfterIs
    <3> QED
      BY <2>3, <2>5, <3>1, NoShellType
  <2>7. /\ env' \subseteq S /\ ever' \subseteq S /\ stopped' \in BOOLEAN
        /\ trouble' \subseteq {"corpus astray", "dead shell", "clobbered", "lost variable"}
    <3>1. CASE l.comment
      BY <1>5, <3>1, RunLineIs DEF ShellInv
    <3>2. CASE ~l.comment
      <4>1. /\ env' \subseteq env \cup {l.name} /\ ever' \subseteq ever \cup {l.name}
            /\ trouble' \subseteq trouble \cup {"dead shell", "corpus astray", "clobbered"}
        BY <1>5, <3>2, RunLineIs
      <4>2. stopped' \in BOOLEAN
        BY <1>5, <3>2, RunLineIs DEF ShellInv
      <4> HIDE DEF l, S
      <4> QED
        BY <2>1, <4>1, <4>2 DEF S, ShellInv
    <3> QED
      BY <3>1, <3>2
  <2> HIDE DEF l
  <2>8. at' \in (0 .. Len(file.fences)) \X Nat /\ at'[1] # 0
    <3>1. at[1] # 0 /\ at[2] + 1 \in Nat
      BY <1>0, <2>1
    <3> QED
      BY <1>0, <2>4, <3>1, PlaceType
  <2> QED
    BY <2>1, <2>2, <2>6, <2>7, <2>8, NotRunIsNotGreen DEF ShellOf, Green, ShellInv
<1>6. CASE EndFence
  <2>1. /\ UNCHANGED <<file, lint, env, ever, stopped>> /\ at' = <<at[1], 0>> /\ shell' = NoShell
        /\ worked' = worked \cup (shell.called \cap shell.fns) /\ at[2] # 0
        /\ trouble' \subseteq trouble \cup {"lost variable"}
    BY <1>6 DEF EndFence, fileVars
  <2>2. shell' \in ShellOf(NamesIn(file))
    BY <2>1, NoShellType
  <2>3. worked' \subseteq NamesIn(file)
    BY <2>1 DEF ShellInv
  <2> QED
    BY <2>1, <2>2, <2>3, NotRunIsNotGreen DEF ShellOf, Green, ShellInv
<1> QED
  BY <1>1, <1>2, <1>3, <1>4, <1>5, <1>6, LintOrNot DEF LintNext

LEMMA ShellInit == Init => ShellInv
<1> SUFFICES ASSUME Init PROVE ShellInv
  OBVIOUS
<1>1. LintInit /\ file \in Files
  BY ReportInit DEF Init, ReportInv
<1>2. Len(file.fences) \in Nat
  BY <1>1, FilesOfLength
<1>3. shell \in ShellOf(NamesIn(file))
  BY <1>1, NoShellType DEF LintInit
<1>4. at \in (0 .. Len(file.fences)) \X Nat /\ at[2] = 0
  BY <1>1, <1>2 DEF LintInit
<1> QED
  BY <1>1, <1>3, <1>4 DEF ShellInv, LintInit, ShellOf

\* The lines of the fence that have run.
Ran == {s \in Spots(file) : at[2] # 0 /\ s[1] = at[1] /\ s[2] < at[2]}

\* What the shells remember of the lines that ran: what they defined, called and
\* assigned, in which fence a name was read that the shell did not have, and
\* that no name was ever assigned but by a line that assigns it.
MemoryInv ==
  /\ \A s \in Ran :
       /\ s \in Live(file, {"def"}) => LineAt(file, s).name \in shell.fns
       /\ s \in Live(file, {"call"}) => LineAt(file, s).name \in shell.called
       /\ s \in Live(file, {"assign"}) => LineAt(file, s).name \in shell.vars
  /\ \A n \in shell.unset : \E s \in Lines(file, {"read"}) : s[1] = at[1] /\ LineAt(file, s).name = n
  /\ \A n \in ever : \E s \in Live(file, {"assign"}) : LineAt(file, s).name = n

\* A shell whose gate did not answer with a path has met neither a guard nor an
\* invocation, and no shell has a copy of what the gate answered.
Gated == Invocations \cup {"guard"}
GuardInv ==
  Clean({"skill", "agent"}) =>
    /\ ~shell.copy
    /\ shell.bin # "absolute" => \A s \in Ran : s \notin Live(file, Gated)

\* The fences that ran, and the functions that were defined and called in them.
Ended == 1 .. IF at[2] = 0 THEN at[1] ELSE at[1] - 1
WorkedInv ==
  ~stopped =>
    \A d \in Live(file, {"def"}), c \in Live(file, {"call"}) :
       (/\ d[1] \in Ended /\ c[1] = d[1]
        /\ LineAt(file, c).name = LineAt(file, d).name) => LineAt(file, d).name \in worked

\* ------------------------------------------------------- what a clean report rules out

LEMMA CleanSource ==
  ASSUME ReportInv, Green, Walked(file)
  PROVE  /\ Live(file, {"source unguarded"}) = {} /\ Lines(file, {"source retired"}) = {}
         /\ file.readable
<1>1. PerFile(file, root) = {}
  BY GreenReport DEF Findings
<1>2. file.readable
  BY <1>1 DEF PerFile
<1>3. CheckUnguardedSource(file) = {}
  BY <1>1, <1>2 DEF PerFile, ReportInv, Files
<1>4. Live(file, {"source unguarded"}) \cup Lines(file, {"source retired"}) \cup Prose(file, "retired") = {}
  BY <1>3, NothingFound DEF CheckUnguardedSource
<1> QED
  BY <1>2, <1>4

LEMMA CleanReads ==
  ASSUME ReportInv, Clean({"skill", "agent"})
  PROVE  /\ Live(file, {"default", "copy", "eval", "invoke without command", "invoke unquoted"}) = {}
         /\ Unguarded(file) = {}
<1>1. PerFile(file, root) = {} /\ file.readable /\ file.role \in {"skill", "agent"}
  BY GreenReport, CleanSource DEF Findings, Clean
<1>2. CheckReadBinFallback(file) = {}
  BY <1>1 DEF PerFile
<1> DEFINE bad == Live(file, {"default", "copy", "eval", "invoke without command", "invoke unquoted"})
<1>3. Found("read-bin-fallback", bad) = {} /\ Found("read-bin-guard", Unguarded(file)) = {}
  BY <1>2 DEF CheckReadBinFallback
<1> HIDE DEF bad
<1>4. bad = {} /\ Unguarded(file) = {}
  BY <1>3, NothingFound
<1> QED
  BY <1>4 DEF bad

LEMMA CleanSkill ==
  ASSUME ReportInv, Clean({"skill"})
  PROVE  /\ Lines(file, {"$digit"}) = {}
         /\ CheckCrossFenceFn(file) = {} /\ CheckCrossFenceVar(file) = {}
<1>1. PerFile(file, root) = {} /\ file.readable /\ file.role = "skill"
  BY GreenReport, CleanSource DEF Findings, Clean
<1>2. CheckArgTemplating(file) = {} /\ CheckCrossFenceFn(file) = {} /\ CheckCrossFenceVar(file) = {}
  BY <1>1 DEF PerFile
<1> QED
  BY <1>2, NothingFound DEF CheckArgTemplating

\* A line that runs is among the lines of its kind.
LEMMA RunningLine ==
  ASSUME file \in Files, ShellInv, RunLine, NEW D, LineAt(file, at).does \in D
  PROVE  at \in Lines(file, D) /\ (~LineAt(file, at).comment => at \in Live(file, D))
BY LineOfFile DEF Lines, Live

LEMMA KindOfLive ==
  ASSUME NEW D, NEW s \in Live(file, D)
  PROVE  s \in Spots(file) /\ LineAt(file, s).does \in D /\ ~LineAt(file, s).comment
BY DEF Live, Lines

LEMMA LiveIn ==
  ASSUME NEW D, NEW E, D \subseteq E
  PROVE  Live(file, D) \subseteq Live(file, E)
BY DEF Live, Lines

LEMMA RanStep ==
  ASSUME file \in Files, file' = file,
         at[1] \in Nat, at[2] \in Nat
  PROVE  /\ at[2] # 0 /\ at' = <<at[1], at[2] + 1>> => Ran' \subseteq Ran \cup {<<at[1], at[2]>>}
         /\ at'[2] \in {0, 1} => Ran' = {}
<1>1. \A s \in Spots(file) : s[1] \in Nat /\ s[2] \in Nat \ {0} /\ s = <<s[1], s[2]>>
  <2> TAKE s \in Spots(file)
  <2>1. Len(file.fences) \in Nat /\ s[1] \in 1 .. Len(file.fences)
    BY SpotsAre, FilesOfLength
  <2>2. Len(file.fences[s[1]].body) \in Nat
    BY <2>1 DEF Files
  <2> QED
    BY <2>1, <2>2, SpotsAre
<1>2. Ran' = {s \in Spots(file) : at'[2] # 0 /\ s[1] = at'[1] /\ s[2] < at'[2]}
  BY DEF Ran
<1>3. ASSUME at[2] # 0, at' = <<at[1], at[2] + 1>> PROVE Ran' \subseteq Ran \cup {<<at[1], at[2]>>}
  BY <1>1, <1>2, <1>3 DEF Ran
<1>4. ASSUME at'[2] \in {0, 1} PROVE Ran' = {}
  BY <1>1, <1>2, <1>4
<1> QED
  BY <1>3, <1>4

\* ----------------------------------------------------------- 6. one line at a time

\* What the steps other than a line that runs do to the shells.
LEMMA OtherSteps ==
  ASSUME ReportInv, ShellInv, OpenFence \/ WriteLine \/ Lint \/ StartFence \/ EndFence \/ UNCHANGED lintVars
  PROVE  \/ lint = NotRun /\ UNCHANGED shellVars
         \/ UNCHANGED <<file, lint, shellVars>>
         \/ StartFence /\ UNCHANGED <<file, lint>> /\ Ran' = {} /\ at[2] = 0
              /\ at' = <<at[1] + 1, 1>> /\ shell' = [NoShell EXCEPT !.bin = shell'.bin]
              /\ UNCHANGED <<env, ever, worked, stopped, trouble>>
         \/ EndFence /\ UNCHANGED <<file, lint>> /\ Ran' = {} /\ at[2] # 0
              /\ at' = <<at[1], 0>> /\ shell' = NoShell /\ UNCHANGED <<env, ever, stopped>>
<1>1. file \in Files /\ at[1] \in Nat /\ at[2] \in Nat
  BY PlaceIs
<1>2. CASE OpenFence \/ WriteLine
  BY <1>1, <1>2, OpenFenceIs, WriteLineIs
<1>3. CASE Lint
  BY <1>3 DEF Lint
<1>4. CASE StartFence
  <2>1. file' = file /\ lint' = lint /\ at' = <<at[1] + 1, 1>> /\ at[2] = 0
        /\ UNCHANGED <<env, ever, worked, stopped, trouble>>
    BY <1>4 DEF StartFence, fileVars
  <2>2. PICK bin \in {"absolute", "bare", "empty"} : shell' = [NoShell EXCEPT !.bin = bin]
    BY <1>4 DEF StartFence
  <2>3. shell'.bin = bin
    BY <2>2 DEF NoShell
  <2>4. Ran' = {}
    BY <1>1, <2>1, RanStep
  <2> QED
    BY <1>4, <2>1, <2>2, <2>3, <2>4
<1>5. CASE EndFence
  <2>1. /\ file' = file /\ lint' = lint /\ at' = <<at[1], 0>> /\ shell' = NoShell /\ at[2] # 0
        /\ UNCHANGED <<env, ever, stopped>>
    BY <1>5 DEF EndFence, fileVars
  <2>2. Ran' = {}
    BY <1>1, <2>1, RanStep
  <2> QED
    BY <1>5, <2>1, <2>2
<1>6. CASE UNCHANGED lintVars
  BY <1>6 DEF lintVars, fileVars
<1> QED
  BY <1>2, <1>3, <1>4, <1>5, <1>6

LEMMA Steps ==
  ASSUME [Next]_vars
  PROVE  \/ RunLine
         \/ OpenFence \/ WriteLine \/ Lint \/ StartFence \/ EndFence \/ UNCHANGED lintVars
BY LintOrNot DEF LintNext

LEMMA NothingRan ==
  ASSUME ReportInv, ShellInv, lint = NotRun, UNCHANGED shellVars
  PROVE  /\ Ran' = {} /\ shell' = NoShell /\ env' = {} /\ ever' = {} /\ worked' = {}
         /\ stopped' = FALSE /\ trouble' = {} /\ at' = <<0, 0>>
<1>1. /\ at = <<0, 0>> /\ shell = NoShell /\ env = {} /\ ever = {} /\ worked = {}
      /\ stopped = FALSE /\ trouble = {}
  BY Zenon DEF ShellInv
<1>2. /\ shell' = NoShell /\ env' = {} /\ ever' = {} /\ worked' = {}
      /\ stopped' = FALSE /\ trouble' = {} /\ at' = <<0, 0>>
  BY <1>1 DEF shellVars
<1> QED
  BY <1>2 DEF Ran

LEMMA MemoryStep ==
  ASSUME ReportInv, ShellInv, MemoryInv, [Next]_vars
  PROVE  MemoryInv'
<1>1. CASE lint = NotRun /\ UNCHANGED shellVars
  BY <1>1, NothingRan DEF MemoryInv, NoShell
<1>2. CASE UNCHANGED <<file, lint, shellVars>>
  BY <1>2 DEF MemoryInv, Ran, shellVars
<1>3. CASE file' = file /\ ever' = ever /\ Ran' = {} /\ shell'.unset = {}
  BY <1>3 DEF MemoryInv
<1>4. CASE RunLine
  <2> DEFINE l == LineAt(file, at)
  <2>1. /\ at \in Spots(file) /\ at = <<at[1], at[2]>> /\ at[1] \in Nat /\ at[2] \in Nat /\ at[2] # 0
        /\ l.name \in NamesIn(file) /\ file \in Files
    BY <1>4, LineOfFile, PlaceIs
  <2>2. file' = file
    BY <1>4, RunLineIs
  <2>3. shell \in ShellOf(NamesIn(file))
    BY DEF ShellInv, ShellOf
  <2>4. \A D : /\ at \in Live(file, D) => l.does \in D /\ ~l.comment
               /\ l.does \in D => at \in Lines(file, D)
    BY <2>1 DEF Live, Lines
  <2>5. CASE l.comment
    <3>1. at' = <<at[1], at[2] + 1>> /\ UNCHANGED <<shell, ever>>
      BY <1>4, <2>5, RunLineIs
    <3>2. Ran' \subseteq Ran \cup {at} /\ at'[1] = at[1]
      BY <2>1, <2>2, <3>1, RanStep
    <3> HIDE DEF l
    <3> QED
      BY <2>2, <2>4, <2>5, <3>1, <3>2 DEF MemoryInv
  <2>6. CASE ~l.comment /\ Stops(l)
    <3>1. shell' = NoShell /\ at' = <<at[1], 0>> /\ ever' \subseteq ever
      BY <1>4, <2>6, RunLineIs DEF Stops, Dies
    <3>2. Ran' = {}
      BY <2>1, <2>2, <3>1, RanStep
    <3> QED
      BY <2>2, <3>1, <3>2 DEF MemoryInv, NoShell
  <2>7. CASE ~l.comment /\ ~Stops(l)
    <3>1. /\ shell' = After(l) /\ at' = <<at[1], at[2] + 1>>
          /\ ever' = IF l.does = "assign" THEN ever \cup {l.name} ELSE ever
      BY <1>4, <2>7, RunLineIs
    <3>2. Ran' \subseteq Ran \cup {at} /\ at'[1] = at[1]
      BY <2>1, <2>2, <3>1, RanStep
    <3> HIDE DEF l
    <3>3. \A s \in Ran' : /\ s \in Live(file, {"def"}) => LineAt(file, s).name \in shell'.fns
                          /\ s \in Live(file, {"call"}) => LineAt(file, s).name \in shell'.called
                          /\ s \in Live(file, {"assign"}) => LineAt(file, s).name \in shell'.vars
      <4> TAKE s \in Ran'
      <4>1. /\ shell.fns \subseteq shell'.fns /\ shell.called \subseteq shell'.called
            /\ shell.vars \subseteq shell'.vars
            /\ l.does = "def" => l.name \in shell'.fns
            /\ l.does = "call" => l.name \in shell'.called
            /\ l.does = "assign" => l.name \in shell'.vars
        BY <2>1, <2>3, <3>1, AfterIs
      <4>2. CASE s \in Ran
        BY <4>1, <4>2 DEF MemoryInv
      <4>3. CASE s = at
        BY <2>4, <4>1, <4>3 DEF l
      <4> QED
        BY <3>2, <4>2, <4>3
    <3>4. \A n \in shell'.unset : \E s \in Lines(file, {"read"}) : s[1] = at'[1] /\ LineAt(file, s).name = n
      <4> TAKE n \in shell'.unset
      <4>1. n \in shell.unset \/ (l.does = "read" /\ n = l.name)
        BY <2>1, <2>3, <3>1, AfterIs
      <4>2. CASE n \in shell.unset
        BY <3>2, <4>2 DEF MemoryInv
      <4>3. CASE l.does = "read" /\ n = l.name
        BY <2>4, <3>2, <4>3 DEF l
      <4> QED
        BY <4>1, <4>2, <4>3
    <3>5. \A n \in ever' : \E s \in Live(file, {"assign"}) : LineAt(file, s).name = n
      <4> TAKE n \in ever'
      <4>1. CASE n \in ever
        BY <4>1 DEF MemoryInv
      <4>2. CASE l.does = "assign" /\ n = l.name
        <5>1. at \in Live(file, {"assign"})
          BY <2>1, <2>7, <4>2 DEF Live, Lines, l
        <5> QED
          BY <4>2, <5>1 DEF l
      <4> QED
        BY <3>1, <4>1, <4>2
    <3> QED
      BY <2>2, <3>3, <3>4, <3>5 DEF MemoryInv
  <2> QED
    BY <2>5, <2>6, <2>7
<1>5. CASE StartFence \/ EndFence
  <2>1. \/ UNCHANGED <<file, lint, shellVars>>
        \/ file' = file /\ ever' = ever /\ Ran' = {} /\ shell'.unset = {}
        \/ lint = NotRun /\ UNCHANGED shellVars
    BY <1>5, OtherSteps DEF NoShell
  <2> QED
    BY <1>1, <1>2, <1>3, <2>1
<1> QED
  BY <1>1, <1>2, <1>4, <1>5, OtherSteps, Steps

\* In a file that lints clean the first invocation of a fence comes after a
\* guard, and a guard lets no shell pass whose gate did not answer with a path.
LEMMA NoBareInvocation ==
  ASSUME ReportInv, ShellInv, GuardInv, RunLine, Clean({"skill", "agent"}), shell.bin # "absolute"
  PROVE  at \notin Live(file, Invocations)
<1> SUFFICES ASSUME at \in Live(file, Invocations) PROVE FALSE
  OBVIOUS
<1>1. /\ at = <<at[1], at[2]>> /\ at[1] \in Nat /\ at[2] \in Nat \ {0} /\ file \in Files
  BY LineOfFile, PlaceIs
<1>2. \A s \in Spots(file) : s = <<s[1], s[2]>> /\ s[1] \in Nat /\ s[2] \in Nat
  <2> TAKE s \in Spots(file)
  <2>1. Len(file.fences) \in Nat /\ s[1] \in 1 .. Len(file.fences)
    BY <1>1, SpotsAre, FilesOfLength
  <2>2. Len(file.fences[s[1]].body) \in Nat
    BY <1>1, <2>1 DEF Files
  <2> QED
    BY <1>1, <2>1, <2>2, SpotsAre
<1>3. \A s \in Live(file, Gated) :
        s[1] = at[1] => s \in Spots(file) /\ ~ (s[2] < at[2])
  BY <1>1, KindOfLive DEF GuardInv, Ran
<1>4. /\ Live(file, Invocations) \subseteq Live(file, Gated)
      /\ Live(file, {"guard"}) \subseteq Live(file, Gated)
  <2>1. Invocations \subseteq Gated /\ {"guard"} \subseteq Gated
    BY DEF Gated
  <2> QED
    BY <2>1, LiveIn
<1>5. \A t \in Live(file, Invocations) : t[1] = at[1] => at[2] <= t[2]
  BY <1>1, <1>2, <1>3, <1>4
<1>6. ASSUME NEW g \in Live(file, {"guard"}), g[1] = at[1] PROVE g[2] > at[2]
  <2>1. g \in Spots(file) /\ ~ (g[2] < at[2])
    BY <1>3, <1>4, <1>6
  <2>2. LineAt(file, g).does = "guard" /\ LineAt(file, at).does \in Invocations
    BY KindOfLive
  <2>3. g # at
    BY <2>2 DEF Invocations
  <2>4. g[2] # at[2]
    BY <1>1, <1>2, <1>6, <2>1, <2>3
  <2> QED
    BY <1>1, <1>2, <2>1, <2>4
<1>7. at \in Unguarded(file)
  BY <1>5, <1>6 DEF Unguarded
<1> QED
  BY <1>7, CleanReads

LEMMA GuardStep ==
  ASSUME ReportInv, ShellInv, GuardInv, [Next]_vars
  PROVE  GuardInv'
<1>1. CASE lint = NotRun /\ UNCHANGED shellVars
  BY <1>1, NothingRan DEF GuardInv, NoShell
<1>2. CASE UNCHANGED <<file, lint, shellVars>>
  BY <1>2 DEF GuardInv, Ran, shellVars, Clean, Green
<1>3. CASE Ran' = {} /\ ~shell'.copy
  BY <1>3 DEF GuardInv
<1>4. CASE RunLine
  <2> DEFINE l == LineAt(file, at)
  <2>1. /\ at \in Spots(file) /\ at = <<at[1], at[2]>> /\ at[1] \in Nat /\ at[2] \in Nat /\ at[2] # 0
        /\ l.name \in NamesIn(file) /\ file \in Files
    BY <1>4, LineOfFile, PlaceIs
  <2>2. file' = file /\ lint' = lint
    BY <1>4, RunLineIs
  <2>3. shell \in ShellOf(NamesIn(file))
    BY DEF ShellInv, ShellOf
  <2> SUFFICES ASSUME Clean({"skill", "agent"})
               PROVE  /\ ~shell'.copy
                      /\ shell'.bin # "absolute" => \A s \in Ran' : s \notin Live(file, Gated)
    BY <2>2 DEF GuardInv, Clean, Green
  <2>4. /\ ~shell.copy
        /\ shell.bin # "absolute" => \A s \in Ran : s \notin Live(file, Gated)
    BY DEF GuardInv
  <2>5. CASE l.comment
    <3>1. at' = <<at[1], at[2] + 1>> /\ shell' = shell
      BY <1>4, <2>5, RunLineIs
    <3>2. Ran' \subseteq Ran \cup {at}
      BY <2>1, <2>2, <3>1, RanStep
    <3>3. \A D : at \notin Live(file, D)
      BY <2>5, KindOfLive
    <3> QED
      BY <2>4, <3>1, <3>2, <3>3
  <2>6. CASE ~l.comment /\ Stops(l)
    <3>1. shell' = NoShell /\ at' = <<at[1], 0>>
      BY <1>4, <2>6, RunLineIs
    <3>2. Ran' = {}
      BY <2>1, <2>2, <3>1, RanStep
    <3> QED
      BY <3>1, <3>2 DEF NoShell
  <2>7. CASE ~l.comment /\ ~Stops(l)
    <3>1. shell' = After(l) /\ at' = <<at[1], at[2] + 1>>
      BY <1>4, <2>7, RunLineIs
    <3>2. Ran' \subseteq Ran \cup {at}
      BY <2>1, <2>2, <3>1, RanStep
    <3>3. l.does # "copy"
      <4> SUFFICES ASSUME l.does = "copy" PROVE FALSE
        OBVIOUS
      <4>1. at \in Live(file, {"default", "copy", "eval", "invoke without command", "invoke unquoted"})
        BY <1>4, <2>1, <2>7, RunningLine
      <4> QED
        BY <4>1, CleanReads
    <3>4. ~shell'.copy /\ shell'.bin = shell.bin
      BY <2>1, <2>3, <2>4, <3>1, <3>3, AfterIs
    <3>5. ASSUME shell.bin # "absolute" PROVE at \notin Live(file, Gated)
      <4>1. at \notin Live(file, Invocations)
        BY <1>4, <3>5, NoBareInvocation
      <4>2. l.does \notin Invocations
        BY <2>1, <2>7, <4>1 DEF Live, Lines
      <4>3. l.does # "guard"
        BY <2>7, <3>5 DEF Stops
      <4> QED
        BY <4>2, <4>3, KindOfLive DEF Gated
    <3> QED
      BY <2>4, <3>2, <3>4, <3>5
  <2> QED
    BY <2>5, <2>6, <2>7
<1>5. CASE StartFence \/ EndFence
  <2>1. \/ UNCHANGED <<file, lint, shellVars>>
        \/ Ran' = {} /\ ~shell'.copy
        \/ lint = NotRun /\ UNCHANGED shellVars
    BY <1>5, OtherSteps DEF NoShell
  <2> QED
    BY <1>1, <1>2, <1>3, <2>1
<1> QED
  BY <1>1, <1>2, <1>4, <1>5, OtherSteps, Steps

\* A fence that ends has run all of its lines.
LEMMA EndedRan ==
  ASSUME ReportInv, ShellInv, EndFence, NEW s \in Spots(file), s[1] = at[1]
  PROVE  s \in Ran
<1>1. file \in Files /\ at[2] \in Nat
  BY PlaceIs
<1>2. at[2] # 0 /\ at[2] > Len(file.fences[at[1]].body)
  BY DEF EndFence
<1>3. s[1] \in 1 .. Len(file.fences) /\ s[2] \in 1 .. Len(file.fences[s[1]].body)
  BY <1>1, SpotsAre
<1>4. Len(file.fences[s[1]].body) \in Nat
  BY <1>1, <1>3 DEF Files
<1> QED
  BY <1>1, <1>2, <1>3, <1>4 DEF Ran

LEMMA WorkedStep ==
  ASSUME ReportInv, ShellInv, MemoryInv, WorkedInv, [Next]_vars
  PROVE  WorkedInv'
<1>0. at[1] \in Nat /\ at[2] \in Nat /\ file \in Files
  BY PlaceIs
<1>1. CASE lint = NotRun /\ UNCHANGED shellVars
  <2>1. Ended' = {}
    BY <1>1, NothingRan DEF Ended
  <2> QED
    BY <2>1 DEF WorkedInv
<1>2. CASE UNCHANGED <<file, lint, shellVars>>
  BY <1>2 DEF WorkedInv, Ended, shellVars
<1>3. CASE RunLine
  <2> DEFINE l == LineAt(file, at)
  <2>1. at[2] \in Nat \ {0} /\ file' = file /\ worked' = worked
    BY <1>0, <1>3, LineOfFile, RunLineIs
  <2>2. CASE at' = <<at[1], at[2] + 1>> /\ (~stopped' => ~stopped)
    <3>1. Ended' = Ended
      BY <1>0, <2>1, <2>2 DEF Ended
    <3> QED
      BY <2>1, <2>2, <3>1 DEF WorkedInv
  <2>3. CASE stopped'
    BY <2>3 DEF WorkedInv
  <2>4. \/ stopped'
        \/ at' = <<at[1], at[2] + 1>> /\ (~stopped' => ~stopped)
    <3>1. l.comment \/ (~l.comment /\ Stops(l)) \/ (~l.comment /\ ~Stops(l))
      OBVIOUS
    <3> QED
      BY <1>3, <3>1, RunLineIs
  <2> QED
    BY <2>2, <2>3, <2>4
<1>4. CASE StartFence
  <2>1. file' = file /\ worked' = worked /\ stopped' = stopped /\ at[2] = 0 /\ at' = <<at[1] + 1, 1>>
    BY <1>4 DEF StartFence, fileVars
  <2>2. Ended' = Ended
    BY <1>0, <2>1 DEF Ended
  <2> QED
    BY <2>1, <2>2 DEF WorkedInv
<1>5. CASE EndFence
  <2>1. /\ file' = file /\ stopped' = stopped /\ at[2] # 0 /\ at' = <<at[1], 0>>
        /\ worked' = worked \cup (shell.called \cap shell.fns)
    BY <1>5 DEF EndFence, fileVars
  <2>2. Ended' = Ended \cup {at[1]}
    <3>1. at[1] # 0
      BY <2>1 DEF ShellInv
    <3> QED
      BY <1>0, <2>1, <3>1 DEF Ended
  <2> SUFFICES ASSUME ~stopped, NEW d \in Live(file, {"def"}), NEW c \in Live(file, {"call"}),
                      d[1] \in Ended \cup {at[1]}, c[1] = d[1],
                      LineAt(file, c).name = LineAt(file, d).name
               PROVE  LineAt(file, d).name \in worked'
    BY <2>1, <2>2 DEF WorkedInv
  <2>3. CASE d[1] \in Ended
    BY <2>1, <2>3 DEF WorkedInv
  <2>4. CASE d[1] = at[1]
    <3>1. c \in Ran /\ d \in Ran
      BY <1>5, <2>4, EndedRan, KindOfLive
    <3> QED
      BY <2>1, <3>1 DEF MemoryInv
  <2> QED
    BY <2>3, <2>4
<1> QED
  BY <1>1, <1>2, <1>3, <1>4, <1>5, OtherSteps, Steps

\* ------------------------------------------------- 7. what a clean file never does

\* No function is defined in a later fence than the first that defines it, so
\* First is one of them: the least number of a set of numbers.
LessThan == {x \in Nat \X Nat : x[1] < x[2]}

LEMMA LessThanWellFounded == IsWellFoundedOn(LessThan, Nat)
<1>1. OpToRel(<, Nat) = LessThan
  BY Zenon DEF OpToRel, LessThan
<1> QED
  BY <1>1, NatLessThanWellFounded, Zenon

LEMMA FirstIsOneOf ==
  ASSUME NEW S \in SUBSET Nat, S # {}
  PROVE  First(S) \in S
<1>1. PICK m \in S : \A k \in S : <<k, m>> \notin LessThan
  BY LessThanWellFounded, WFMin
<1>2. ASSUME NEW k \in S PROVE m <= k
  <2>1. m \in Nat /\ k \in Nat
    OBVIOUS
  <2>2. ~ (k < m)
    <3> SUFFICES ASSUME k < m PROVE FALSE
      OBVIOUS
    <3>1. <<k, m>> \in LessThan
      BY <2>1 DEF LessThan
    <3> QED
      BY <3>1, <1>1
  <2> QED
    BY <2>1, <2>2
<1> QED
  BY <1>2 DEF First

\* What may not happen while a clean file runs.
TroubleInv ==
  /\ Clean({"skill", "agent", "phase", "partial"}) => "dead shell" \notin trouble
  /\ Clean({"skill", "agent"}) => "corpus astray" \notin trouble
  /\ Clean({"skill"}) => "clobbered" \notin trouble
  /\ (Clean({"skill"}) /\ ~Exports) => "lost variable" \notin trouble

\* A line of a clean file does none of it.
LEMMA LineIsSafe ==
  ASSUME ReportInv, ShellInv, GuardInv, RunLine, NEW l, l = LineAt(file, at), ~l.comment
  PROVE  /\ Clean({"skill", "agent", "phase", "partial"}) => ~Dies(l)
         /\ Clean({"skill", "agent"}) => ~Astray(l)
         /\ Clean({"skill"}) => l.does # "$digit"
<1>1. \A D : l.does \in D => at \in Lines(file, D) /\ at \in Live(file, D)
  BY RunningLine DEF ReportInv
<1>2. ASSUME Clean({"skill", "agent", "phase", "partial"}) PROVE ~Dies(l)
  <2>1. Live(file, {"source unguarded"}) = {} /\ Lines(file, {"source retired"}) = {}
    BY <1>2, CleanSource DEF Clean
  <2>2. l.does # "source unguarded"
    BY <1>1, <2>1
  <2>3. l.does # "source retired"
    BY <1>1, <2>1
  <2> QED
    BY <2>2, <2>3 DEF Dies
<1>3. ASSUME Clean({"skill", "agent"}) PROVE ~Astray(l)
  <2>1. l.does \notin {"default", "copy", "eval", "invoke without command", "invoke unquoted"}
    BY <1>1, <1>3, CleanReads
  <2>2. ~shell.copy
    BY <1>3 DEF GuardInv
  <2>3. ~(l.does = "invoke" /\ shell.bin = "bare")
    <3> SUFFICES ASSUME l.does = "invoke", shell.bin = "bare" PROVE FALSE
      OBVIOUS
    <3>1. at \notin Live(file, Invocations)
      BY <1>3, NoBareInvocation
    <3>2. l.does \in Invocations
      BY DEF Invocations
    <3> QED
      BY <1>1, <3>1, <3>2
  <2> QED
    BY <2>1, <2>2, <2>3 DEF Astray
<1>4. ASSUME Clean({"skill"}) PROVE l.does # "$digit"
  <2>1. Lines(file, {"$digit"}) = {}
    BY <1>4, CleanSkill
  <2> QED
    BY <1>1, <2>1
<1> QED
  BY <1>2, <1>3, <1>4

\* A name that a fence read and never had is assigned in no other fence.
LEMMA NothingLost ==
  ASSUME ReportInv, ShellInv, MemoryInv, EndFence, Clean({"skill"}), ~Exports
  PROVE  (shell.unset \ shell.vars) \cap (ever \ Sanctioned) = {}
<1> SUFFICES ASSUME NEW n \in (shell.unset \ shell.vars) \cap (ever \ Sanctioned) PROVE FALSE
  OBVIOUS
<1> DEFINE assigned == FencesOf(Named(file, Live(file, {"assign"}), n))
           read_ == FencesOf(Named(file, Lines(file, {"read"}), n))
<1>1. PICK r \in Lines(file, {"read"}) : r[1] = at[1] /\ LineAt(file, r).name = n
  BY DEF MemoryInv
<1>2. PICK a \in Live(file, {"assign"}) : LineAt(file, a).name = n
  BY DEF MemoryInv
<1>3. at[1] \in read_
  BY <1>1 DEF FencesOf, Named
<1>4. assigned # {}
  BY <1>2 DEF FencesOf, Named
<1>5. n \in NamesIn(file) \ Sanctioned
  BY DEF ShellInv
<1>6. Named(file, Live(file, {"export"}), n) = {}
  BY DEF Exports, Named
<1>7. read_ \ assigned = {}
  <2>1. CheckCrossFenceVar(file) = {}
    BY CleanSkill
  <2>2. {m \in NamesIn(file) \ Sanctioned :
           /\ Named(file, Live(file, {"export"}), m) = {}
           /\ FencesOf(Named(file, Live(file, {"assign"}), m)) # {}
           /\ FencesOf(Named(file, Lines(file, {"read"}), m))
                \ FencesOf(Named(file, Live(file, {"assign"}), m)) # {}} = {}
    BY <2>1, NothingFound DEF CheckCrossFenceVar
  <2> QED
    BY <1>4, <1>5, <1>6, <2>2
<1>8. at[1] \in assigned
  BY <1>3, <1>7
<1>9. PICK s \in Live(file, {"assign"}) : s[1] = at[1] /\ LineAt(file, s).name = n
  BY <1>8 DEF FencesOf, Named
<1>10. s \in Ran
  BY <1>9, EndedRan, KindOfLive
<1> QED
  BY <1>9, <1>10 DEF MemoryInv

LEMMA TroubleStep ==
  ASSUME ReportInv, ShellInv, MemoryInv, GuardInv, TroubleInv, [Next]_vars
  PROVE  TroubleInv'
<1>1. CASE lint = NotRun /\ UNCHANGED shellVars
  BY <1>1, NothingRan DEF TroubleInv
<1>2. CASE UNCHANGED <<file, lint, shellVars>>
  BY <1>2 DEF TroubleInv, shellVars, Clean, Green, Exports
<1>3. CASE UNCHANGED <<file, lint, trouble>>
  BY <1>3 DEF TroubleInv, Clean, Green, Exports
<1>4. CASE RunLine
  <2> DEFINE l == LineAt(file, at)
  <2>1. file' = file /\ lint' = lint
    BY <1>4, RunLineIs
  <2>2. CASE l.comment
    <3>1. trouble' = trouble
      BY <1>4, <2>2, RunLineIs
    <3> QED
      BY <1>3, <2>1, <3>1
  <2>3. CASE ~l.comment
    <3>1. /\ "dead shell" \in trouble' => "dead shell" \in trouble \/ Dies(l)
          /\ "corpus astray" \in trouble' => "corpus astray" \in trouble \/ Astray(l)
          /\ "clobbered" \in trouble' => "clobbered" \in trouble \/ l.does = "$digit"
          /\ "lost variable" \in trouble' => "lost variable" \in trouble
      <4>1. trouble' = trouble \cup (IF Dies(l) THEN {"dead shell"} ELSE {})
                               \cup (IF Astray(l) THEN {"corpus astray"} ELSE {})
                               \cup (IF l.does = "$digit" THEN {"clobbered"} ELSE {})
        BY <1>4, <2>3, RunLineIs
      <4> QED
        BY <4>1
    <3>2. /\ Clean({"skill", "agent", "phase", "partial"}) => ~Dies(l)
          /\ Clean({"skill", "agent"}) => ~Astray(l)
          /\ Clean({"skill"}) => l.does # "$digit"
      BY <1>4, <2>3, LineIsSafe
    <3> HIDE DEF l
    <3> QED
      BY <2>1, <3>1, <3>2 DEF TroubleInv, Clean, Green, Exports
  <2> QED
    BY <2>2, <2>3
<1>5. CASE EndFence
  <2>1. /\ file' = file /\ lint' = lint
        /\ trouble' = trouble \cup
             (IF (shell.unset \ shell.vars) \cap (ever \ Sanctioned) # {} THEN {"lost variable"} ELSE {})
    BY <1>5 DEF EndFence, fileVars
  <2>2. CASE Clean({"skill"}) /\ ~Exports
    BY <1>3, <1>5, <2>1, <2>2, NothingLost
  <2>3. CASE ~(Clean({"skill"}) /\ ~Exports)
    BY <2>1, <2>3 DEF TroubleInv, Clean, Green, Exports
  <2> QED
    BY <2>2, <2>3
<1>6. CASE StartFence
  BY <1>3, <1>6 DEF StartFence, fileVars
<1> QED
  BY <1>1, <1>2, <1>4, <1>5, <1>6, OtherSteps, Steps

\* All that is known of a file that runs (every fence in a shell of its own).
RunInv == ReportInv /\ ShellInv /\ MemoryInv /\ GuardInv /\ WorkedInv /\ TroubleInv

\* Whatever lines run, end a shell or fail, these stay true of what it remembers.
THEOREM RunHolds == Spec => []RunInv
<1>1. Init => RunInv
  <2> SUFFICES ASSUME Init PROVE RunInv
    OBVIOUS
  <2>1. ReportInv /\ ShellInv
    BY ReportInit, ShellInit
  <2>2. /\ at = <<0, 0>> /\ shell = NoShell /\ ever = {} /\ trouble = {} /\ at[2] = 0 /\ at[1] = 0
    BY DEF Init, LintInit
  <2>3. Ran = {} /\ Ended = {}
    BY <2>2 DEF Ran, Ended
  <2>4. MemoryInv /\ GuardInv /\ WorkedInv /\ TroubleInv
    BY <2>2, <2>3 DEF MemoryInv, GuardInv, WorkedInv, TroubleInv, NoShell
  <2> QED
    BY <2>1, <2>4 DEF RunInv
<1>2. RunInv /\ [Next]_vars => RunInv'
  BY ReportStep, ShellStep, MemoryStep, GuardStep, WorkedStep, TroubleStep DEF RunInv
<1> QED
  BY <1>1, <1>2, PTL DEF Spec

\* A file that lints clean runs as the checks promise (check.py 248-1092): the
\* corpus goes to the binary the gate resolved, no shell dies of a partial that
\* is not there, no argument is clobbered, no value of another fence is read, and
\* a function that is called is called once where it is defined.
THEOREM CleanFileRunsHolds == Spec => []CleanFileRuns
<1>1. RunInv => CleanFileRuns
  <2> SUFFICES ASSUME RunInv, Clean({"skill"}), RanThrough, NEW n \in NamesIn(file),
                      Named(file, Live(file, {"def"}), n) # {},
                      Named(file, Live(file, {"call"}), n) # {}
               PROVE  n \in worked
    BY DEF RunInv, TroubleInv, CleanFileRuns
  <2> DEFINE defs == FencesOf(Named(file, Live(file, {"def"}), n))
             calls == FencesOf(Named(file, Live(file, {"call"}), n))
  <2>0. ReportInv /\ ShellInv /\ WorkedInv /\ file \in Files /\ Len(file.fences) \in Nat
    BY FilesOfLength DEF RunInv, ReportInv
  <2>1. /\ defs # {} /\ calls # {}
        /\ \A i \in defs : i \in 1 .. Len(file.fences)
    <3>1. \A s \in Named(file, Live(file, {"def"}), n) : s[1] \in 1 .. Len(file.fences)
      BY <2>0, SpotsAre, KindOfLive DEF Named
    <3> QED
      BY <3>1 DEF FencesOf
  <2>2. First(defs) \in defs
    <3>1. defs \in SUBSET Nat
      BY <2>0, <2>1
    <3> HIDE DEF defs
    <3> QED
      BY <2>1, <3>1, FirstIsOneOf
  <2>3. First(defs) \in calls
    <3>1. CheckCrossFenceFn(file) = {}
      BY <2>0, CleanSkill
    <3>2. {m \in NamesIn(file) :
             /\ FencesOf(Named(file, Live(file, {"def"}), m)) # {}
             /\ FencesOf(Named(file, Live(file, {"call"}), m)) # {}
             /\ First(FencesOf(Named(file, Live(file, {"def"}), m)))
                  \notin FencesOf(Named(file, Live(file, {"call"}), m))} = {}
      BY <3>1, NothingFound DEF CheckCrossFenceFn
    <3> QED
      BY <2>1, <3>2
  <2>4. PICK d \in Live(file, {"def"}) : d[1] = First(defs) /\ LineAt(file, d).name = n
    BY <2>2 DEF FencesOf, Named
  <2>5. PICK c \in Live(file, {"call"}) : c[1] = First(defs) /\ LineAt(file, c).name = n
    BY <2>3 DEF FencesOf, Named
  <2>6. First(defs) \in Ended
    <3>1. at[1] = Len(file.fences) /\ at[2] = 0
      BY DEF RanThrough
    <3> HIDE DEF defs
    <3> QED
      BY <2>1, <2>2, <3>1 DEF Ended
  <2> QED
    BY <2>0, <2>4, <2>5, <2>6 DEF WorkedInv, RanThrough
<1> QED
  BY RunHolds, <1>1, PTL

\* ------------------------------------------------------ 8. the checkout is well typed

\* What the proofs about the two commands do not need to know.
CommandsInv ==
  /\ task \in {"rewrite", "lint"} /\ kills \in 0 .. MaxKills
  /\ settings \in Settings /\ config \in Settings \cup {NoSettings}
  /\ remote \in {"nobody", "us", "other"} /\ online \in {"yes", "no", "no partials"}
  /\ renumber \in {"idle", "refused", "dry run", "reserve", "rename", "read own",
                   "read ref", "replace", "applied", "failed"}
  /\ outcome \in {"none", "won", "lost", "degraded", "unavailable"}

LEMMA OneMoreKill ==
  ASSUME NEW m \in Nat, NEW k \in 0 .. m, k < m
  PROVE  k + 1 \in 0 .. m
OBVIOUS

LEMMA CommandsStep ==
  ASSUME CommandsInv, [Next]_vars
  PROVE  CommandsInv'
<1> USE DEF CommandsInv
<1>0. MaxKills \in Nat
  BY TreeAssumption DEF TreeAssumption
<1>1. CASE UNCHANGED vars
  BY <1>1 DEF vars, settingVars, renderVars, remoteVars, renumberVars
<1>2. CASE RenderNext /\ UNCHANGED <<task, remoteVars, renumberVars>>
  <2>1. /\ settings' \in Settings /\ kills' \in 0 .. MaxKills
        /\ config' \in Settings \cup {NoSettings}
    <3>1. CASE EditSettings
      BY <3>1 DEF EditSettings, renderVars
    <3>2. CASE RenderStart
      BY <3>2 DEF RenderStart, settingVars
    <3>3. CASE RenderRead \/ RenderFailed \/ RenderOpen \/ RenderFill \/ RenderReplace \/ RenderDone
      BY <3>3 DEF RenderRead, RenderFailed, RenderOpen, RenderFill, RenderReplace, RenderDone, settingVars
    <3>4. CASE RenderKilled
      <4>1. kills < MaxKills /\ kills' = kills + 1 /\ config' = NoSettings /\ settings' = settings
        BY <3>4 DEF RenderKilled, settingVars
      <4> QED
        BY <1>0, <4>1, OneMoreKill
    <3> QED
      BY <1>2, <3>1, <3>2, <3>3, <3>4 DEF RenderNext
  <2> QED
    BY <1>2, <2>1 DEF remoteVars, renumberVars
<1>3. CASE RenumberNext /\ UNCHANGED <<task, settingVars, renderVars>>
  <2>1. kills' \in 0 .. MaxKills
    <3>1. CASE RenumberKilled
      <4>1. kills < MaxKills /\ kills' = kills + 1
        BY <3>1 DEF RenumberKilled
      <4> QED
        BY <1>0, <4>1, OneMoreKill
    <3>2. CASE ~RenumberKilled
      BY <1>3, <3>2 DEF RenumberNext, OtherReserves, NetworkChanges, RenumberStart, Reserve, Rename,
                        ReadFile, ReplaceFile, Applied
    <3> QED
      BY <3>1, <3>2
  <2>2. remote' \in {"nobody", "us", "other"} /\ online' \in {"yes", "no", "no partials"}
    BY <1>3 DEF RenumberNext, OtherReserves, NetworkChanges, RenumberStart, Reserve, Rename,
                 ReadFile, ReplaceFile, Applied, RenumberKilled, remoteVars
  <2>3. /\ renumber' \in {"idle", "refused", "dry run", "reserve", "rename", "read own",
                          "read ref", "replace", "applied", "failed"}
        /\ outcome' \in {"none", "won", "lost", "degraded", "unavailable"}
    BY <1>3 DEF RenumberNext, OtherReserves, NetworkChanges, RenumberStart, Reserve, Rename,
                 ReadFile, ReplaceFile, Applied, RenumberKilled, renumberVars, Goes
  <2> QED
    BY <1>3, <2>1, <2>2, <2>3 DEF settingVars, renderVars
<1>4. CASE UNCHANGED <<task, kills, settingVars, renderVars, remoteVars, renumberVars>>
  BY <1>4 DEF settingVars, renderVars, remoteVars, renumberVars
<1> QED
  BY <1>1, <1>2, <1>3, <1>4 DEF Next

LEMMA CommandsInit == Init => CommandsInv
<1> SUFFICES ASSUME Init PROVE CommandsInv
  OBVIOUS
<1>1. task \in {"rewrite", "lint"}
  BY ScenarioAssumption DEF Init, ScenarioAssumption
<1>2. kills \in 0 .. MaxKills
  BY TreeAssumption DEF Init, TreeAssumption
<1> QED
  BY <1>1, <1>2 DEF Init, RenderInit, RenumberInit, CommandsInv

\* Whatever the commands and the linter do, and whenever they are killed, the
\* checkout, the plans and the shells hold what their types say.
THEOREM TypeCorrect == Spec => []TypeOK
<1>1. Init => CommandsInv /\ NameInv
  <2>1. Init => tree[Artifact].ref = Old
    BY ScenarioAssumption DEF Init, ScenarioAssumption
  <2> QED
    BY <2>1, CommandsInit DEF Init, RenumberInit, NameInv
<1>2. BothInv /\ NameInv /\ CommandsInv /\ [Next]_vars => NameInv' /\ CommandsInv'
  BY NameStep, CommandsStep
<1>3. BothInv /\ NameInv /\ CommandsInv /\ RunInv => TypeOK
  <2> SUFFICES ASSUME BothInv, NameInv, CommandsInv, RunInv PROVE TypeOK
    OBVIOUS
  <2>1. dir \in Ids
    BY DEF NameInv, Ids
  <2>2. RenderTypeOK /\ tree \in [Path -> Texts]
    BY DEF BothInv, RenderInv, TreeInv, CommandsInv, RenderTypeOK
  <2>3. RenumberTypeOK
    BY DEF BothInv, TreeInv, CommandsInv, RenumberTypeOK
  <2>4. /\ file \in Files /\ room \in Nat
        /\ lint.scanned \in Nat /\ lint.status \in 0 .. VACUOUS_SCAN_EXIT + 1
    <3>1. file \in Files /\ room \in Nat /\ RootKnown /\ (lint = NotRun \/ lint = Report)
      BY DEF RunInv, ReportInv
    <3>2. Report.scanned \in Nat /\ Report.status \in 0 .. VACUOUS_SCAN_EXIT
      BY <3>1, ReportType
    <3>3. VACUOUS_SCAN_EXIT \in Nat
      BY ExitAssumption DEF ExitAssumption
    <3>4. NotRun.scanned \in Nat /\ NotRun.status = VACUOUS_SCAN_EXIT + 1
      BY DEF NotRun
    <3> QED
      BY <3>1, <3>2, <3>3, <3>4
  <2>5. /\ at \in (0 .. Len(file.fences)) \X Nat
        /\ shell.bin \in {"absolute", "bare", "empty"} /\ shell.copy \in BOOLEAN
        /\ shell.called \cup shell.fns \cup shell.vars \cup env \cup ever \cup worked \subseteq NamesIn(file)
        /\ stopped \in BOOLEAN
        /\ trouble \subseteq {"corpus astray", "dead shell", "clobbered", "lost variable"}
    BY DEF RunInv, ShellInv
  <2>6. LintTypeOK
    BY <2>4, <2>5 DEF LintTypeOK
  <2> QED
    BY <2>1, <2>2, <2>3, <2>6 DEF TypeOK, CommandsInv
<1> QED
  BY BothHold, RunHolds, <1>1, <1>2, <1>3, PTL DEF Spec
=============================================================================
