------------------------------ MODULE SkillLint ------------------------------
(***************************************************************************)
(* The skill linter (tools/lint-skills/check.py) and what it is for: a     *)
(* markdown file with shell fences is written, linted, and then run by an  *)
(* agent, every fence in a shell of its own.  A line of a fence is what it *)
(* does, the name it does it to, and whether it is commented out.          *)
(***************************************************************************)
EXTENDS AgentsRender

CONSTANTS
  MaxFences,          \* bound: the fences of the file
  MAX_FINDINGS_EXIT,  \* 254
  VACUOUS_SCAN_EXIT   \* 255, the last of the exit statuses

ASSUME ExitAssumption ==
  MAX_FINDINGS_EXIT \in Nat \ {0} /\ VACUOUS_SCAN_EXIT = MAX_FINDINGS_EXIT + 1

VARIABLES
  file,       \* the file that is written, see Files
  root,       \* what else the scan root holds, see Roots
  lines, room,\* the lines its author knows, and how many he still writes
  lint,       \* [findings, scanned, status]
  at,         \* the fence and line the agent runs next
  shell,      \* the shell of that fence
  env, ever,  \* names that were exported, and names that were ever assigned
  worked,     \* functions that were called in a fence that defines them
  stopped,    \* did a fence end before its last line?
  trouble     \* what went wrong while the file ran

fileVars  == <<file, root, lines, room>>
shellVars == <<at, shell, env, ever, worked, stopped, trouble>>
lintVars  == <<fileVars, lint, shellVars>>

Skipped  == {".git", ".worktrees", "node_modules"}
Literals == {"start", "resolver", "emit", "gate", "tools path"}   \* CANONICAL_LITERALS
ProseKinds == {"$digit", "sentinel", "retired", "anchor", "telemetry"}
Sites    == {"architect", "wrapup", "proceed"}                    \* LIFECYCLE_WRITE_SITES
COPIED   == {"templates", "partials", "ethos", "workflow-runtime"}
SURFACES == COPIED \cup {"workflow-test-landmine"}

\* role: skill, agent, phase or partial; parts: its directories below the root;
\* prose: what the text around the fences carries; literals: of the five.
Files == [role: {"skill", "agent", "phase", "partial"}, parts: SUBSET (Skipped \cup {"x"}),
          inside: BOOLEAN, readable: BOOLEAN, closed: BOOLEAN,
          prose: SUBSET ProseKinds,
          literals: SUBSET Literals, fences: Seq([lang: {"sh", "bash"}, body: Seq(lines)])]

\* ------------------------------------------------------------------- the walks

\* find_skill_files, find_read_bin_extra_files, find_phase_files and
\* find_partial_files: links that leave the root are not followed, and only the
\* walk of the skills leaves directories out.
Walked(f) == f.inside /\ (f.role = "skill" => f.parts \cap Skipped = {})

\* _iter_fences; a partial has no fences, all of it is one body.
Spots(f) == UNION {{<<i, j>> : j \in DOMAIN f.fences[i].body} : i \in DOMAIN f.fences}
LineAt(f, s) == f.fences[s[1]].body[s[2]]
Lines(f, does) == {s \in Spots(f) : LineAt(f, s).does \in does}
Live(f, does)  == {s \in Lines(f, does) : ~LineAt(f, s).comment}
Named(f, S, n) == {s \in S : LineAt(f, s).name = n}
FencesOf(S)    == {s[1] : s \in S}
First(S)       == CHOOSE i \in S : \A j \in S : i <= j
NamesIn(f)     == {LineAt(f, s).name : s \in Spots(f)}
Found(check, S) == {<<check, s>> : s \in S}
Prose(f, what)  == IF what \in f.prose THEN {<<0, 0>>} ELSE {}

\* ------------------------------------------------------------------ the checks

CheckSentinels(f) == Found("sentinel", Lines(f, {"sentinel"}) \cup Prose(f, "sentinel"))

\* check_balance and _count_balance: what opens and is not closed in its fence,
\* $( and $(( apart, and a last fence without its end.
Deficit(f, i, open, close) ==
  Cardinality({s \in Lines(f, {open}) : s[1] = i}) > Cardinality({s \in Lines(f, {close}) : s[1] = i})
CheckBalance(f) ==
  LET whole == {i \in DOMAIN f.fences : f.closed \/ i # Len(f.fences)}
  IN  Found("balance", {<<i, 0>> : i \in DOMAIN f.fences \ whole})
      \cup Found("balance $(", {<<i, 0>> : i \in {j \in whole : Deficit(f, j, "$(", ")")}})
      \cup Found("balance $((", {<<i, 0>> : i \in {j \in whole : Deficit(f, j, "$((", "))")}})

\* check_canonical and load_partials_blob: a literal may be in the partials if
\* the file sources the telemetry partial.
CheckCanonical(f, r) ==
  IF "anchor" \notin f.prose THEN {}
  ELSE Found("canonical-helper",
             Literals \ (f.literals \cup (IF "telemetry" \in f.prose THEN r.blob ELSE {})))

CheckPosixFence(f) ==
  Found("posix-fence", {s \in Live(f, {"local"}) : f.fences[s[1]].lang # "bash"})

CheckArgTemplating(f) == Found("arg-templating", Lines(f, {"$digit"}) \cup Prose(f, "$digit"))

\* check_cross_fence_fn: a function that is called, and not in the first of the
\* fences that define it.
CheckCrossFenceFn(f) ==
  Found("cross-fence-fn",
    {n \in NamesIn(f) :
       LET defs  == FencesOf(Named(f, Live(f, {"def"}), n))
           calls == FencesOf(Named(f, Live(f, {"call"}), n))
       IN  defs # {} /\ calls # {} /\ First(defs) \notin calls})

\* check_cross_fence_var: a name that is read, in a comment too, in a fence that
\* does not assign it while another one does; `export v=` is no assignment.
Sanctioned == {"flag", "BUG_NUM", "LESSON_NUM", "REQ_NUM"}
CheckCrossFenceVar(f) ==
  Found("cross-fence-var",
    {n \in NamesIn(f) \ Sanctioned :
       LET assigned == FencesOf(Named(f, Live(f, {"assign"}), n))
           read     == FencesOf(Named(f, Lines(f, {"read"}), n))
       IN  /\ Named(f, Live(f, {"export"}), n) = {}
           /\ assigned # {} /\ read \ assigned # {}})

CheckForgeDirectGh(f) == Found("forge-direct-gh", Lines(f, {"gh pr"}))

\* check_read_bin_fallback: no second default, no copy and no eval; every
\* invocation quoted and through `command`; the guard before the first of them.
Invocations == {"invoke", "invoke without command", "invoke unquoted"}
\* (mutant) a guard anywhere in the fence will do.
UnguardedAnywhere(f) ==
  {s \in Live(f, Invocations) : \A g \in Live(f, {"guard"}) : g[1] # s[1]}

Unguarded(f) ==
  {s \in Live(f, Invocations) :
     /\ \A t \in Live(f, Invocations) : t[1] = s[1] => s[2] <= t[2]
     /\ \A g \in Live(f, {"guard"}) : g[1] = s[1] => g[2] > s[2]}
CheckReadBinFallback(f) ==
  Found("read-bin-fallback",
        Live(f, {"default", "copy", "eval", "invoke without command", "invoke unquoted"}))
  \cup Found("read-bin-guard", Unguarded(f))

\* check_unguarded_source: the guarded spelling is the only one that may source
\* a partial, and the retired one may not even be shown.
CheckUnguardedSource(f) ==
  Found("unguarded-source",
        Live(f, {"source unguarded"}) \cup Lines(f, {"source retired"}) \cup Prose(f, "retired"))

\* ----------------------------------------------------- the checks of the root

\* parse_sync_surface_block takes the first block of a file and
\* parse_retrieval_status_block all of them; no block is an empty sequence.  The
\* files these checks compare, r.unread and r.outside among them, are walked like
\* any other: r.unread are there and cannot be read, r.outside are links that
\* leave the root.
All(blocks) == UNION {blocks[i] : i \in DOMAIN blocks}
Compared    == {"init", "template-drift", "reader"} \cup Sites
WalkErrors(r) == Found("io-error", r.unread \ r.outside)

CheckSyncSurfaceParity(r) ==
  IF r.unread \cap {"init", "template-drift"} # {} \/ r.init = << >> \/ r.drift = << >> THEN {}
  ELSE LET copied == Head(r.init)
           checked == Head(r.drift)
       IN  Found("unknown surface", copied \ SURFACES)
           \cup Found("unknown surface checked", checked \ SURFACES)
           \cup Found("surface not checked", (copied \cap COPIED) \ checked)
           \cup Found("surface not copied", (checked \cap COPIED) \ copied)

\* A site without a block is a finding of its own, and one that cannot be read is
\* passed over; a site is not there when it is not in the domain of r.sites.
CheckRetrievalStatusParity(r) ==
  LET read == DOMAIN r.sites \ r.unread IN
  IF "reader" \in r.unread \/ r.reader = << >> THEN {}
  ELSE Found("empty exclusion", IF All(r.reader) = {} THEN {"reader"} ELSE {})
       \cup Found("site missing", Sites \ DOMAIN r.sites)
       \cup Found("nothing declared", {w \in read : All(r.sites[w]) = {}})
       \cup UNION {Found(w, All(r.sites[w]) \cap All(r.reader)) : w \in read}

\* check_agent_model_drift calls check_drift of the render, in a toolkit only.
\* Whatever is raised but an invalid config is no finding: a render that does not
\* import, and an agent that does not decode, which hides the others too.
Legible == \A a \in Agent : tree[a].utf8
CheckAgentModelDrift(r) ==
  IF ~r.toolkit \/ ~r.imports THEN {}
  ELSE IF ~Valid(settings) THEN {<<"agent-model-drift", "invalid config">>}
  ELSE IF ~Legible THEN {}
  ELSE Found("agent-model-drift", Drift(settings))

\* ------------------------------------------------------------------------ run

PerFile(f, r) ==
  IF ~f.readable THEN {<<"io-error", <<0, 0>>>>}
  ELSE CASE f.role = "skill" ->
              CheckSentinels(f) \cup CheckBalance(f) \cup CheckCanonical(f, r)
              \cup CheckPosixFence(f) \cup CheckArgTemplating(f) \cup CheckCrossFenceFn(f)
              \cup CheckCrossFenceVar(f) \cup CheckForgeDirectGh(f)
              \cup CheckReadBinFallback(f) \cup CheckUnguardedSource(f)
         [] f.role = "agent" -> CheckReadBinFallback(f) \cup CheckUnguardedSource(f)
         [] f.role \in {"phase", "partial"} -> CheckUnguardedSource(f)

Findings(f, r) ==
  (IF Walked(f) THEN PerFile(f, r) ELSE {}) \cup WalkErrors(r)
  \cup CheckAgentModelDrift(r) \cup CheckSyncSurfaceParity(r) \cup CheckRetrievalStatusParity(r)

\* Only skills count as scanned; root.others are the skills besides the file,
\* those the root checks compare among them.
Scanned(f, r) == r.others + IF f.role = "skill" /\ Walked(f) THEN 1 ELSE 0

\* (mutant) a scan that found nothing to scan has no findings.
StatusOfFindings(n, scanned) == IF n < MAX_FINDINGS_EXIT THEN n ELSE MAX_FINDINGS_EXIT

\* main, and the exit status that is left of it.
Status(n, scanned) ==
  LET code == IF scanned = 0 THEN VACUOUS_SCAN_EXIT
              ELSE IF n < MAX_FINDINGS_EXIT THEN n ELSE MAX_FINDINGS_EXIT
  IN  code % (VACUOUS_SCAN_EXIT + 1)

\* ------------------------------------------- the author, the linter, the agent

NoShell == [fns |-> {}, vars |-> {}, unset |-> {}, called |-> {}, copy |-> FALSE, bin |-> "empty"]
NotRun  == [findings |-> {}, scanned |-> 0, status |-> VACUOUS_SCAN_EXIT + 1]

LintInit ==
  /\ lint = NotRun /\ at = <<0, 0>> /\ shell = NoShell
  /\ env = {} /\ ever = {} /\ worked = {} /\ stopped = FALSE /\ trouble = {}

\* The author opens a fence or writes a line at the end of the last one (external).
Edit(fences) ==
  /\ room > 0 /\ lint = NotRun
  /\ file' = [file EXCEPT !.fences = fences] /\ UNCHANGED <<root, lines, lint, shellVars>>

OpenFence ==
  /\ file.role # "partial" /\ Len(file.fences) < MaxFences
  /\ \E lang \in {"sh", "bash"} : Edit(Append(file.fences, [lang |-> lang, body |-> << >>]))
  /\ UNCHANGED room

WriteLine ==
  /\ file.fences # << >>
  /\ \E l \in lines : Edit([file.fences EXCEPT ![Len(file.fences)].body = Append(@, l)])
  /\ room' = room - 1

Lint ==
  /\ lint = NotRun
  /\ LET found == Findings(file, root) IN
     lint' = [findings |-> found, scanned |-> Scanned(file, root),
              status |-> Status(Cardinality(found), Scanned(file, root))]
  /\ UNCHANGED <<fileVars, shellVars>>

\* (mutant) one fence more than there are.
StartFencePastEnd ==
  /\ lint.status = 0 /\ at[2] = 0 /\ at[1] <= Len(file.fences)
  /\ at' = <<at[1] + 1, 1>> /\ shell' = NoShell
  /\ UNCHANGED <<fileVars, lint, env, ever, worked, stopped, trouble>>

\* The agent runs a file that linted clean (external).  In every fence the gate
\* has answered anew: an absolute path, nothing, or from a stale copy a bare name.
StartFence ==
  /\ lint.status = 0 /\ at[2] = 0 /\ at[1] < Len(file.fences)
  /\ at' = <<at[1] + 1, 1>>
  /\ \E bin \in {"absolute", "bare", "empty"} : shell' = [NoShell EXCEPT !.bin = bin]
  /\ UNCHANGED <<fileVars, lint, env, ever, worked, stopped, trouble>>

\* What a line does to the shell, and what may go wrong at it: another program
\* gets the corpus, or the shell dies of a file that is not there to source.
After(l) ==
  CASE l.does = "def"    -> [shell EXCEPT !.fns = @ \cup {l.name}]
    [] l.does = "call"   -> [shell EXCEPT !.called = @ \cup {l.name}]
    [] l.does \in {"assign", "export"} -> [shell EXCEPT !.vars = @ \cup {l.name}]
    [] l.does = "read" /\ l.name \notin shell.vars \cup env ->
                            [shell EXCEPT !.unset = @ \cup {l.name}]
    [] l.does = "copy"   -> [shell EXCEPT !.copy = TRUE]
    [] OTHER             -> shell

Astray(l) ==
  \/ l.does \in {"invoke", "invoke without command", "invoke unquoted", "eval"} /\ shell.bin = "bare"
  \/ l.does \in {"invoke without command", "invoke unquoted", "eval"} /\ shell.bin = "absolute"
  \/ l.does = "invoke copy" /\ shell.copy /\ shell.bin = "bare"
  \/ l.does = "default" /\ shell.bin # "absolute"

Dies(l) == l.does \in {"source unguarded", "source retired"}

RunLine ==
  /\ at[2] # 0 /\ at[2] <= Len(file.fences[at[1]].body)
  /\ LET l == LineAt(file, at) IN
     IF l.comment THEN at' = <<at[1], at[2] + 1>> /\ UNCHANGED <<shell, env, ever, stopped, trouble>>
     ELSE LET stops == Dies(l) \/ (l.does = "guard" /\ shell.bin # "absolute") IN
          /\ shell' = IF stops THEN NoShell ELSE After(l)
          /\ at' = IF stops THEN <<at[1], 0>> ELSE <<at[1], at[2] + 1>>
          /\ env' = IF l.does = "export" THEN env \cup {l.name} ELSE env
          /\ ever' = IF l.does = "assign" THEN ever \cup {l.name} ELSE ever
          /\ stopped' = (stopped \/ stops)
          /\ trouble' = trouble \cup (IF Dies(l) THEN {"dead shell"} ELSE {})
                                \cup (IF Astray(l) THEN {"corpus astray"} ELSE {})
                                \cup (IF l.does = "$digit" THEN {"clobbered"} ELSE {})
  /\ UNCHANGED <<fileVars, lint, worked>>

\* A fence that ran to its end read a value that another fence had assigned and
\* it never had; at the end of the file, a function never met its own definition.
EndFence ==
  /\ at[2] # 0 /\ at[2] > Len(file.fences[at[1]].body)
  /\ at' = <<at[1], 0>> /\ shell' = NoShell
  /\ worked' = worked \cup (shell.called \cap shell.fns)
  /\ trouble' = trouble \cup
       (IF (shell.unset \ shell.vars) \cap (ever \ Sanctioned) # {} THEN {"lost variable"} ELSE {})
  /\ UNCHANGED <<fileVars, lint, env, ever, stopped>>

LintNext == \/ OpenFence \/ WriteLine \/ Lint \/ StartFence \/ RunLine \/ EndFence

\* ------------------------------------------------------------------ properties

LintTypeOK ==
  /\ file \in Files /\ room \in Nat
  /\ lint.scanned \in Nat /\ lint.status \in 0 .. VACUOUS_SCAN_EXIT + 1
  /\ at \in (0 .. Len(file.fences)) \X Nat
  /\ shell.bin \in {"absolute", "bare", "empty"} /\ shell.copy \in BOOLEAN
  /\ shell.called \cup shell.fns \cup shell.vars \cup env \cup ever \cup worked \subseteq NamesIn(file)
  /\ stopped \in BOOLEAN
  /\ trouble \subseteq {"corpus astray", "dead shell", "clobbered", "lost variable"}

Green == lint.status = 0
Clean(role) == Green /\ file.role \in role /\ Walked(file)
RanThrough == at = <<Len(file.fences), 0>> /\ ~stopped
Exports    == Live(file, {"export"}) # {}

\* A file that lints clean runs without what the checks are there to prevent:
\* the corpus goes to the binary the gate resolved and nowhere else, no shell
\* dies of a partial that is not vendored, no argument is clobbered, nothing is
\* read that only another fence had, and a function the file defines and calls
\* is called at least once where it is defined.
CleanFileRuns ==
  /\ Clean({"skill", "agent", "phase", "partial"}) => "dead shell" \notin trouble
  /\ Clean({"skill", "agent"}) => "corpus astray" \notin trouble
  /\ Clean({"skill"}) => "clobbered" \notin trouble
  /\ (Clean({"skill"}) /\ ~Exports) => "lost variable" \notin trouble
  /\ (Clean({"skill"}) /\ RanThrough) =>
       \A n \in NamesIn(file) :
          (Named(file, Live(file, {"def"}), n) # {} /\ Named(file, Live(file, {"call"}), n) # {})
             => n \in worked

\* A green linter has looked at a skill.  If it could load the render and every
\* agent decodes, the config is valid and each agent has the model it resolves to.
\* Of the files the two other checks compare, those that are walked could be read:
\* every surface that is vendored is checked for drift, and no spec that a
\* lifecycle step has just written is hidden from retrieval.
GreenMeansChecked ==
  Green => /\ root.others > 0 \/ (file.role = "skill" /\ file.readable /\ Walked(file))
           /\ (root.toolkit /\ root.imports /\ Legible) =>
                 /\ Valid(settings)
                 /\ \A a \in Agent : tree[a].frontmatter /\ tree[a].model = ResolveModel(a, settings)
           /\ (/\ root.outside \cap {"init", "template-drift"} = {}
               /\ root.init # << >> /\ root.drift # << >>) =>
                 Head(root.init) \cap COPIED = Head(root.drift) \cap COPIED
           /\ ("reader" \notin root.outside /\ root.reader # << >>) =>
                 \A w \in Sites : /\ w \in DOMAIN root.sites
                                  /\ w \in root.outside \/
                                       /\ All(root.sites[w]) # {}
                                       /\ All(root.sites[w]) \cap All(root.reader) = {}
=============================================================================
