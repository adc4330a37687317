# A formal model of the ADLC toolkit

The repository is a toolkit that lets language-model agents carry a
requirement (REQ), a bug or a lesson through a development life cycle.  Most of
it is prose for agents; the executable core is small and concurrent:

* shell functions that hand out **work-item ids** to processes of several
  machines without a server (`partials/id-alloc.sh`, `partials/id-recheck.sh`,
  `tools/adlc/renumber.py`);
* a JavaScript workflow, the **sprint engine**, that runs a batch of REQs side
  by side, merges them and heals the ones that had to wait
  (`workflows/adlc-sprint.workflow.js`);
* the commands of a **workstation** that share one machine config file: the
  gate and client of delegated reads, the forge resolver, the doctor
  (`partials/delegate-gate.sh`, `tools/delegate/`, `partials/forge.sh`,
  `tools/adlc/forge_config.py`, `doctor.py`, `checks.py`);
* the commands that rewrite or judge a **checkout**: agent rendering, renumber,
  and the skill linter (`tools/adlc/agents_render.py`, `renumber.py`,
  `tools/lint-skills/check.py`).

All four are modelled and model-checked with TLC, and every safety property the
runs check is proved with TLAPS.

## 1. Inventory

| component | state | operations | interacts with |
|---|---|---|---|
| id allocation, `partials/id-alloc.sh` | per machine: lock directory, counter file, ledger of own reservations; per origin: `refs/adlc/ids/<kind>/<num>` | `adlc_remote_high` (derive), `adlc_alloc_id`, `adlc_reserve_id`, `adlc_record_own_reservation` | git origins; every skill that creates a work item; renumber |
| recheck, `partials/id-recheck.sh` | none of its own; reads ledger and origins | `adlc_recheck_id` | called by /proceed, /bugfix, /wrapup just before a push; by renumber for the new id |
| renumber, `tools/adlc/renumber.py` | the files and the artifact's name in a checkout | check ids, recheck, plan, reserve, rename, rewrite file by file | shells out to the two above; writes the tree that `agents render` writes |
| sprint engine, `workflows/adlc-sprint.workflow.js` | results and terminals in memory; `pipeline-state.json` per REQ (blockers); worktrees; pull requests on the forge | `preflight`, `runReq` (Phases 0-8), `gate`, `verify`, `wrapupAndMerge`, `sequenceCrossRepoMerges`, `unblockHeldReqs` | agents (leaf calls that may fail or answer null), git, forge |
| tasks and findings consolidation (same file, 366-634, 1590-1840) | none, pure | `dedupeAndRank`, `mergeReverified` | `verify` |
| trial merge, conflict bound, `partials/trial-merge.sh`, `partials/conflict-bound.sh` | none | a merge probe; a limit on automatic resolution | Phase 8 prompts |
| machine config, `tools/delegate/_machine_config.py` | none; `~/.claude/adlc/config.yml` is the user's | a strict loader: absent, malformed with a class, or parsed | delegation, forge, doctor |
| delegation gate, `partials/delegate-gate.sh` | environment | on/off decision with a precedence of sources, by a bounded probe of the client | skills that may delegate reading |
| delegate client, `tools/delegate/_common.py`, `adlc-read` | a request | consent, provider, key, one HTTP call; the config is read twice | an LLM service |
| forge layer, `partials/forge.sh`, `tools/adlc/forge_config.py` | none | which forge: project config, machine config, origin; pr create, view, merge | gh, az; the doctor |
| doctor, `tools/adlc/doctor.py`, `checks.py` | a probe ref on origin while it runs | a registry of checks run in order | everything a machine needs |
| agent rendering, `tools/adlc/agents_render.py` | the `model:` line of every agent file | validate, resolve, write through a temporary file; drift check | the linter; the tree renumber writes |
| skill linter, `tools/lint-skills/check.py` | none | walks, checks per file and per root, exit status | the author of a skill, the agent that runs it |
| intake, attribution | none | text extraction | tickets, git config |
| telemetry | append-only logs | one line per event | nothing reads it to decide |
| installers | copies and links | run once by hand | nothing |
| skills, agents, templates, presets | none | instructions in prose | everything above |

What is hard, and what makes each part correct:

* **Allocation.**  Processes of one machine race for a `mkdir` lock and a
  counter file; machines race for a ref on an origin; a push can be rejected,
  refused, or accepted with its reply lost; a holder can die inside the lock; a
  pull request can merge, and its branch vanish, between two listings.  Correct
  means: no number is handed out twice on a machine; no number is *won* twice on
  an origin; a healthy derivation never falls below what was published when it
  began; the ledger never names somebody else's reservation; the lock is always
  released and every run ends.
* **Recheck and renumber.**  A check before an act, made of many remote calls
  that fail one by one.  Correct means: a quiet check missed nothing; a pipeline
  never halts on itself; the number suggested is free; two colliders sent to one
  number do not both get it.
* **Sprint engine.**  Several REQs interleave at every awaited call, share
  repositories, conflict, wait for each other, and are judged by agents whose
  claims need not be true.  Correct means: *merged* is what the forge says of
  every pull request the script knows, and settles the REQ; nothing that landed is
  handed back as work; a repository takes one landing at a time; a REQ is rebased
  only when a change it conflicts with has landed before it; the batch ends.
* **Workstation.**  The config file is read by the gate's probe, twice by the
  call, and by the forge and the doctor, while its owner may save it.  Correct
  means: contents leave only with consent, to an endpoint and with a key that
  belong together; the gate and the call it guards agree; one broken file means
  the same to every reader; a doctor without complaint means a machine on which
  allocation and pull requests work.
* **Checkout.**  Two commands rewrite the same files without a lock and either
  may be killed between two writes; a linter stands between a skill's author and
  the agent that runs it.  Correct means: no file is ever half written; a refusal
  leaves no trace; a renumber that says it was applied has done all that it
  planned and nothing else; a file that lints clean runs without what the linter is
  there to prevent, and a green linter has looked at something.

`PROJECT.json` lists each hazard at the line where it bites, with the property
that would catch it.

## 2. Plan

Order, most important behaviour first:

1. `IdAlloc` with its abstract specification `IdClaim`: done, every safety
   property proved.
2. `IdPublish` (recheck, renumber between machines): done; every property proved,
   three of them without the faults they do not survive.
3. `SprintEngine` and `ReqWork`: done; all their safety properties proved, and
   the refinement between them.
4. `Workstation` (machine config, delegation, forge resolver, doctor): done,
   its properties and types proved.
5. `Checkout` (rendering, renumber, linter): done, its properties and types
   proved.
6. Not begun: the union-find of `groupCrossRepoReqs` against the connected
   components that `Group` states; `validateCitations`; the conflict bound and
   the trial merge; the pull-request operations of `forge.sh`; `adlc-write`.
7. Further proofs: what item 6 adds.  The liveness properties stay with TLC.

## 3. Modules

| module | what it is |
|---|---|
| `IdClaim` | abstract: a run atomically claims a number no other run has claimed on its origin |
| `IdAlloc` | `adlc_alloc_id` step by step, for any number of machines, origins and runs |
| `MCIdAlloc` | instances for TLC |
| `IdAllocProofs` | types, the lock, the counter |
| `IdAllocClaimProofs` | the reservations, the refinement of `IdClaim`, the ledger, the lock's release |
| `IdPublish`, `MCIdPublish` | recheck, halt, renumber, push and merge of work items |
| `IdPublishProofs` | types; a number is won once per origin; a halt's number is free, a quiet check missed nobody, no halt on oneself |
| `SprintEngine`, `MCSprintEngine` | the sprint workflow |
| `SprintEngineProofs` | types; what is merged, halted, landing, rebased |
| `ReqWork`, `MCReqWork` | tasks, review panel, consolidation and fix of one REQ; refines the steps `Implement`, `Review` and `Fix` of `SprintEngine` |
| `ReqWorkProofs` | types, task order, last words, the consolidation, the refinement |
| `MachineConfig` | what a config file means to the programs that read it: pure operators |
| `Delegation` | the gate and the delegated read, beside an editor of the config |
| `Forge` | the forge resolver |
| `Doctor` | the registry of checks on a machine with faults |
| `Workstation`, `MCWorkstation` | composes the four |
| `WorkstationProofs` | types, consent, keys, agreement, one verdict, a clean bill |
| `WorkTree` | the files two commands rewrite |
| `AgentsRender` | `adlc agents render` and its drift check |
| `Renumber` | `adlc renumber` on one checkout |
| `SkillLint` | writing, linting and running a skill |
| `Checkout`, `MCCheckout` | composes the four |
| `RewriteProofs` | whole files, settled renders, refusals, applied renumbers |
| `LintProofs` | a green linter, a clean file, the types of a checkout |

### IdAlloc

One `Run` is one shell process in `adlc_alloc_id`.  `pc` follows the text:

    idle -Start-> scan -Probe*-> scan -Derived-> lock -Mkdir-> check -CheckLock->
    read -ReadCounter-> reserve -PushWins-> record -RecordOwn-> truncate -Truncate->
    write -Write-> unlock -Unlock-> done

with `WaitRunsOut` (the fifty waits are over), `RefuseEmptyCounter`,
`PushRejected` (next number, or `abort`), `PushDegraded`, `PushReplyLost`,
`AbortUnlock` and `Crash`.  `Probe` is one remote listing, because a pull
request may merge between two of them: `PushBranch` and `Merge` move a number
from the branch listing to the artifact listing.  A counter write is two steps,
since the redirection truncates first.  A ref accepts a push if it is absent or
already holds that very object, which is what `git push` without force does and
why the code puts a nonce in the object (`Nonce`).  `floor` is a history
variable: the largest number published on the scanned origins when the
derivation began.  Numbers stand for the zero-padded ids, objects for commits.

### IdPublish

One `Item` is a work item with its session.  Allocation is a single step with
the outcomes `IdAlloc` has, from any part of the listings when a derivation may
fail (`Heard`); then `Recheck` (or `ResumeOwnBranch`, when the remote says that it
carries the pipeline's own branch: a question that fails reads as no), `Derive` per
listing, the exact-id walk (`WalkOn`, `WalkHits`, `WalkCallFails`,
`NamesCallFails`, `WalkEnds`), the halt with its suggested number (`Hit`),
`Renumber`, `ReserveNew` / `ReserveLost`, `Apply`, and `PushBranch`, `MergePR`,
`MergeSpec` for what makes the number visible.  `Crash` may come at any remote
call or between renumber's reservation and its rename.  `heldBy` and `floor`
are history variables, noted when the check begins.

### SprintEngine

`pc[r]` names the agent call the chain of REQ `r` is waiting for; `phase` is the
top-level await of the script.  The forge is `trunk`, the set of (REQ, repo) whose pull
request is MERGED; `base[r]` is what the branch of `r` was cut from or rebased on, and a
pull request conflicts with what landed outside it.  An agent may do what it is asked,
fail, claim what is not so, or return null (`"drop"` in `Faults`); a null that the
script dereferences throws (`Throw`), and in Preflight and the unblock pass, where
nothing catches it, ends the script (`PreflightNull`, `ThrowOut`).  `prs[r]` is the list
of pull requests the chain knows: any part of those the REQ needs, because the script
never compares what an agent listed, or what rows a verification returned, with the
repos the REQ touches (`OpenPRs`, `VerifyOpen`, `Verdict`).  A row is one of the pull
requests asked about, and says what the forge says. `hold[r]` is the blockers entry of
`pipeline-state.json`.  `Touched` is what Phase 0 reports and `Scored` what Preflight
reported: the code classifies by the first and groups by the second, and the model keeps
both.  The tasks of Phase 4, the explore trio, the delegate pre-pass and the panel of
reviewers are one step each: inside them nothing is shared between REQs (`ReqWork` opens
two of them).  A relaunch with answers is modelled as a run whose answered REQs already
have their worktree; a blockers entry that an earlier session left is not.

### ReqWork

One REQ between its second gate and `openPRs`.  Phase 4: `ReadCompleted`,
`Implement` and `Record` per task in the order of `orderByTier`; a null read
counts as nothing done, the implementer's answer is not looked at, a state write
may not take place.  Phase 5: `Report` is one answer of a fan-out (or its loss,
`parallel(...).filter(Boolean)`), `Judge` the question halt and the consolidation
(`DedupeAndRank`, a fold like the code's loop over the flat list), `Fix` the one
fix and the pairs to ask again, `Rejudge` the merge of the second answers.
`Crash` and `Relaunch` start a session that knows the state file only and has no
journal.  `answer` remembers which halt the reply in `args.answers[id]` was given
to; the code cannot tell.  `attempted` and `said` are history variables.  A
finding's file and normalised title are one key; the order of the ranked list,
the advisory candidates and the change manifest only reach prompts and are left
out; members report under their own dimension.

`ImplementsSprint` is the link to `SprintEngine`: under the mapping `SprintPc`,
`blocks = Blocks(verdict)`, every step short of a new session is a step
`Implement`, `Review` or `Fix` of a one-REQ instance of it, or a stutter.

### Workstation

A config file is a record of what the path is on disk and of the YAML node its
bytes hold, with pairs in the order they are written, since a key may be written
twice.  `Load` is `load_machine_config`, for an interpreter with or without
PyYAML: the first fault in the order of the code is the one reported.
`Delegation` puts two readers over it: `GateCheck` (missing binary, veto, probe;
`GateTimeout` is the probe that does not answer in time) and the call, `StartCall
-> Require -> Resolve -> GetClient -> Send`.  `Require` and `Resolve` are the two
reads of the config; between any two steps the operator may `Replace` the file or
`SaveInPlace`, which leaves it blank until `SaveDone`.  `seen` is a history
variable: the files the path held since the gate was asked.  A call needs no
gate: the code cannot tell whether one was asked.

`Forge` is `adlc_forge_provider`: a provider the environment forces (`ADLC_FORGE_MOCK`,
`ADLC_FORGE_PROVIDER_OVERRIDE`: `forced`) comes first and is not looked at; without a
config file the shell decides from the origin, and a path that is no regular file is
none to it (`[ -f ]`, `IsFile`); with one it runs the resolver, in an interpreter that
may lack PyYAML, with a loader that may be missing (`noticed` is the notice printed
then). `Doctor` runs its registry in order over a set of `Faults` of the machine; a
check that throws is a failure, a check may be skipped by an earlier verdict, and the
reservation check pushes a probe ref and deletes it (`RunCheck`, then `DeleteProbe`),
unless no commit can be made for the probe, whatever the reason (`NoProbeObject`).
`Workstation` lets one of the three commands run beside the editor.  `Scenarios` is the
set of initial workstations, because the product of all configs, environments and
machines is mostly repetition.

### Checkout

A file is `whole` or torn, decodes or not, has a frontmatter or not, a model and an id
it mentions.  A file that may not be opened is to both commands like one that does not
decode.  The render ends with a traceback at such a file (`RenderFailed`); the renumber
leaves it out of its plan and goes on.  `Beside` are the notes whose path begins like
the artifact's, which the plan leaves out too.  The render opens, fills and replaces a
temporary file per agent; the renumber reads a file and replaces it, path by path; both
may be killed at any step (`MaxKills`).  They share the tree and no lock: `alone` and
`solo` are history variables that say whether anybody else wrote since a command began,
and the properties of one command that hold only then name them.  `Renumber` starts with
any of four pairs of arguments and any plan (with `git grep`, or the walk that sees
untracked files too), and meets a remote that another allocator may reserve on and a
network that comes and goes.

`Planned` is what a renumber is meant to make of each file.  Which files a
render is to stamp is `Order`; an agent without a model line is one of model
`inherit`.

`SkillLint` knows a line by what it does (`does`), the name it does it to, and
whether it is commented out: the regular expressions of the checks are
abstracted to the kinds of lines they tell apart.  The author writes fences line
by line (`OpenFence`, `WriteLine`), `Lint` is the whole of `main`, and if the exit
status is 0 an agent runs the file, every fence in a new shell (`StartFence`,
`RunLine`, `EndFence`): what the linter promises is stated over that run, not over
its findings.  Of the scan root it knows what the checks across files compare:
`unread` are files that are there and cannot be read (a finding of the walks, if
they are walked), `outside` are links the walks do not follow; a render that does
not import and an agent that does not decode (`Legible`) end the drift check
without a finding.

Definitions marked `(mutant)` are not part of any specification: each is a
variant of the definition next to it with a plausible bug, kept to show that the
property named in `PROJECT.json` notices it.

## 4. Runs

| run | instance | shows |
|---|---|---|
| `IdAllocRace` | 3 machines, 1 origin, 1 run each, 2 tries, refused and lost pushes | the reservation race: `ReservedDistinct`, `FreshAboveFloor`, `LedgerSound`, `NoLeakedLock`, and the refinement `ClaimSpec` |
| `IdAllocLocal` | 1 machine, 2 repositories, 2 runs, all remote faults, counter absent, behind or ahead | `MutualExclusion`, `SameMachineDistinct`, `CounterMonotone`: the lock and the counter alone suffice on one machine |
| `IdAllocStaleLock` | 1 machine, 3 runs (one outside a repository), holder may die, waits may run out | every run ends: `RunsEnd` |
| `IdAllocExpiredWait` | 2 runs, waits may run out | **violates** `MutualExclusion` (finding 1) |
| `IdPublishReq` | 2 machines, 2 repositories scanned together, 2 specs, degraded derivations and pushes, no failing walk call | `QuietMeansFree`, `NoFalseHalt` |
| `IdPublishFaults` | the same on 1 origin, up to swapping the machines, with failing walk calls and own-branch questions, refused pushes, lost replies | `FreshTarget`, `WonDistinct` |
| `SprintRun` | 4 REQs (2 cross-repo, 2 single-repo), 2 repos, 3 at a time, neighbours conflict, null answers, incomplete lists | `MergedIsLanded`, `HaltedIsNotLanded`, `OneLandingPerRepo`, `RebaseIsOwed`, `RunEnds` |
| `SprintUnresolved` | 2 REQs | **violates** `UnresolvedIsNotMerged` (finding 2) |
| `ReqWorkRun` | 3 tasks (one without a tier, array order unlike tier order), 2 repos, reflector and one reviewer with four possible reports each, lost answers, crashes | `TierOrder`, `StrongestSurvives`, `LastWordCounts`, and the refinement `ImplementsSprint` |
| `ReqWorkAnswer` | the same | **violates** `QuestionIsAsked` (finding 3) |
| `Workstation` | 14 configs, 7 environments, 6 installations, 6 projects, 6 hosts, forced providers, every fault of a machine; one save at any moment | `SentByConsent`, `KeyOfItsEndpoint`, `GateAgreesWithCall`, `OneVerdictPerFile`, `OverrideIsReported`, `CleanBillMeansWorking` |
| `Checkout` | 2 agents, a tracked and an untracked note, a note with a longer id and one beside the artifact, files that do not decode, one kill, two renumbers, one edit; files of up to two fences and three lines from three vocabularies; roots with unreadable files, links, and a render that does not import | `AlwaysWhole`, `RenderSettles`, `RefusalLeavesTree`, `AppliedAsPlanned`, `CleanFileRuns`, `GreenMeansChecked` |

Findings, with the lines they contradict, are in `PROJECT.json`:

1. After the lock wait ran out the guard tests that the lock *exists*; it does,
   because another run holds it, and the run enters the critical section.
2. Blocking findings that survive the one fix are logged and dropped; the gate
   that is said to act on them in Phase 8 does not exist.
3. A REQ resumed after a failed validation gate never shows its first reflector
   question: the reply to the gate is taken for the answer.

Seen while modelling, and part of the model, without a run of their own:

* A renumber that died after its reservation, and whose ledger entry was not
  written, is refused by that reservation when it is run again (`Refusal`).
* A held cross-repo REQ that is healed stops at `pr-ready`, after the only
  barrier that could merge it.
* A config that becomes malformed between the two reads of a call is an empty one
  to the second read (`resolve_provider`), so the contents go to the default
  endpoint; the first read, which refuses a malformed file, is over by then.  The
  consent was given, which is why `SentByConsent` holds.
* A cross-repo REQ of which an agent opened, listed or verified the pull requests in
  part only is reported `merged` with a repo unlanded: `allMerged` ranges over the
  rows returned, and nothing compares them with the repos the REQ touches.
  `MergedIsLanded` is therefore about the pull requests of the terminal, and the
  whole REQ only where it touches one repo.
* The plan of a renumber leaves out every path that merely begins with the
  artifact's (`src/tools/adlc/renumber.py:350`), so a `REQ-120-demo-two/` or a
  `BUG-120-x.md.orig` keeps the old id, and so does a file that does not decode or
  open (lines 307, 355).  The command prints *Applied* all the same.
* One agent file that does not decode ends `adlc agents render` with a traceback,
  the agents before it stamped, and leaves the linter green with the drift of all
  agents unchecked (`src/tools/lint-skills/check.py:1261`).
* A provider forced by the environment overrides a written one without a notice and
  without validation.
* The doctor skips its push probe when `commit-tree` makes no commit, whatever the
  reason; without an identity another check fails, but for any other reason a
  refused push stays hidden behind an exit status of 0.
* When the question for its own branch fails, a resumed /proceed rechecks its number
  against that very branch and halts on itself.
* The shell's detection of a host takes `corp-github.com` for GitHub.
* The doctor does not look at the result of deleting its probe ref, and a ref
  may stay behind (`probe = "leaked"`).
* An agent file without frontmatter is left alone by the render and reported by
  the drift check for ever: hence the condition in `RenderSettles`.
* Two renders of one checkout share the name of the temporary file.
* `check_cross_fence_fn` compares the callers with the first fence that defines
  a function; a fence that defines the function again for its own use is
  reported all the same.

Two properties of the recheck hold only while its calls succeed, which is why
`IdPublishReq` has no failing walk call, lost reply or failing ledger.  With them
`NoFalseHalt` fails (the names listing is lost after the numbers listing was read, the
caller's own branch is not recognised, or its own reservation is unknown to it), and so
does `QuietMeansFree` (a lost listing counts as empty and nothing is said).

### Bounds and why they are enough

* Allocation: three machines let two lose to the first and the third lose twice,
  which is what `MaxTries = 2` needs to be exhausted; two origins are needed only
  for scans over several repositories (`IdAllocLocal`).  Seeds put old numbers in
  branches and artifacts so that a derivation has something to find and a merge
  something to move.  Counters start absent, behind and ahead of the origins.
* Publication: two work items suffice for a collision, `MaxNum = 2` lets one
  be renumbered out of it; beyond `MaxNum` nothing is allocated or renumbered.  One
  origin makes reservations contend (`IdPublishFaults`, 1.8 million states), two make
  the walk go from repo to repo while items merge behind it (`IdPublishReq`, 1.3
  million).  On one origin the two items and their machines play the same part and no
  definition chooses between them, so `IdPublishFaults` checks states up to swapping
  both pairs at once (`Swap`); its two properties are invariants that do not name an
  item.  A ledger that cannot be written is in no run: it leaves an own reservation
  unrecorded, as a lost reply does, and doubles the states; the proofs have it.
* Sprint: two cross-repo REQs of one group and two single-repo REQs, conflicts
  between neighbours, so that a REQ of each kind is held behind one of its own
  and of the other kind; three run at a time, so that one is cut off by the
  concurrency limit.  An agent lists or verifies any part of two pull requests:
  none, one and both are all the cases there are.  Two gate iterations and one
  rebase are the smallest bounds under which the last attempt differs from the others.  0.7 million states.
* One REQ: three tasks give two tiers and a tie, two repos the cross-repo tag, a
  reflector and a reviewer the union of dimensions; four reports per member hold
  agreement, disagreement on severity, `mustFix` on a Nit, two findings at once,
  and a question.  Sessions and crashes are not counted; the state is finite.
* Workstation: one save is enough to come between any two reads; the call reads
  twice and the gate once, so a second save could only return to a file already
  seen.  Every class of `MachineConfig` fault that differs for a reader is one of
  the configs, every arm of the precedence is decided by some environment.  Faults
  come one at a time and in the pairs in which one check hides another.  A provider is
  forced to a supported and to an unsupported value.  0.8 million states.
* Checkout: one kill leaves each command at every step; a second run of the
  renumber starts from what a killed one left.  `MAX_FINDINGS_EXIT` is 2 in the run
  and 254 in the code, so that the clamp is reached by files of three lines; the
  proofs hold for any value.  Files grow to two fences and three lines from a
  vocabulary at a time: functions and variables, reads through the delegate, and
  the remaining kinds of lines.  In the trees that do not decode throughout, it is an
  agent, every agent, or a note and the artifact.  2.1 million states.
* Deadlock checking is off where the system ends (a shell call, a workflow run, a
  command, a file that was run) and on in `ReqWork`, where a session can always be
  started again.

### Fairness

`IdAlloc!FairSpec` is weak fairness of each run's own steps: the loops of the shell code
are bounded, `GIT_TERMINAL_PROMPT=0` keeps git from waiting for a password, and a
process that is not killed goes on.  Nothing is assumed about crashes, merges or other
runs, and the lock needs no strong fairness, because the wait is bounded.
`SprintEngine!FairSpec` is weak fairness of each REQ's chain and of the script: an agent
call returns (with any answer) and an event loop goes on.  The publication runs check
safety only: when a user renumbers a halted item is not the code's to promise.  The
workstation and checkout runs check safety only: their commands are straight lines that
end or are killed.

## 5. Proofs

All theorems hold for every value of the constants under the named assumptions,
which give the types of the parameters and no bound of an instance:
`ConstantsAssumption`, `PublishAssumption`, `SprintAssumption`, `TiersAssumption`
(a tier is a number or missing), `VoicesAssumption` (an answer of the panel is a
finite set of findings in the shape of the answer schema), `MaxSavesAssumption`,
`ConfigsAssumption` (what a config file says is a node), `ScenariosAssumption`,
`TreeAssumption` (the notes of `Untracked` and `Beside` are notes, and the artifact is
neither a note nor an agent), `RenderAssumption` (every agent is in the order of the
walk), `ScenarioAssumption` (files are whole at the start and have finitely many
lines, the artifact carries its id), `ExitAssumption`.  What a theorem assumes beyond
them is in its statement.  The invariants below were checked by TLC on the runs
before they were proved.

**Allocation** (`IdAllocProofs`, `IdAllocClaimProofs`)

* `TypeCorrect`: `TypeOK` with `TriesInv`, the bound on tries.
* `MutualExclusionHolds`, assuming `~WaitExpires`.  Mutual exclusion alone is not
  inductive; `LockInv` adds that whoever is past `mkdir` has its directory there.
  The assumption cannot be dropped: that is finding 1.
* `SameMachineDistinctHolds`, `CounterMonotoneHolds`, same assumption.
  `CounterInv` says a finished run's number is below its machine's counter, a
  run about to write holds a number at or above it, and a truncated file means
  that its writer still holds the lock or died; nothing about the network is used.
* `FreshAboveFloorHolds`, without any assumption on the lock.  `FloorInv`: while a run
  scans, the highest number it has to stay above was read already or is in a listing
  still to come.  The invariant survives a merge in the middle of the scan because a
  number that leaves the branches of an origin turns up in its artifacts, and these
  are asked for right after its branches (`StillListedLater`).
* `ReservedDistinctHolds`, without any assumption on locks, waits or crashes.
  `ReserveInv`: an origin has one object per number, a win is backed by the
  run's own object, and nobody has won before its push.
* `ImplementsClaim`: `PushWins` is a `Claim`, every other step a stutter, under
  the mapping `claim[p] = num[p]` once won, else 0.
* `LedgerSoundHolds`; `NoLeakedLockHolds`, assuming `~HolderCrashes`.

**Publication** (`IdPublishProofs`)

* `TypeCorrect`, and `WonDistinctHolds` from `WonInv`: an origin has one
  reservation per number, and a number an item won is backed by that item's own
  reservation.  Whatever fails and whoever dies.
* `MarksInv` says what the origins show of an item; that its branch shows its present
  number holds only where /proceed's question for its own branch cannot fail, since
  else a session with a pushed branch may be sent to another number.
* `FreshTargetHolds`, assuming `OwnRepoScanned`: a session scans the repository it
  works in.  The code justifies it: the default scan root is the directory of the
  main worktree (`partials/id-recheck.sh:153`).  `FloorInv` says that while the
  derivation goes through its listings, the largest mark the floor stands for was
  read or is in a listing still ahead.  Marks move in two ways.  A merge takes a
  number from the branches to the artifacts, which are asked for later (the argument
  of allocation).  A renumbered item takes its old number off the artifacts at its
  next merge, and the floor would lose its witness; `TargetInv` saves it, since an
  item's target is above every number it ever showed: an item that outgrew a
  number leaves a higher one.  `TargetInv` is where the assumption is used: a
  session that could not see its own artifact could be sent below it.
* `QuietMeansFreeHolds`, assuming `OwnRepoScanned` and that no walk call fails, from
  `HeldInv`: an item of another machine that showed the number when the check began
  still shows it, and is then in a call of the walk still ahead, or has merged a
  higher number.  A merge moves a mark forward in the order of the walk, and an item
  that outgrew a number does not come back to it.
* `NoFalseHaltHolds`, assuming `OwnRepoScanned`, no failing walk call, no lost reply and
  no failing ledger, from `HeldInv` and `LedgerInv`: a reservation an item won is in
  its machine's ledger.  TLC finds a false halt with any one of the three faults, and
  a quiet check that missed somebody with failing walk calls.

**Sprint engine** (`SprintEngineProofs`)

* `TypeCorrect`; `PrsTouched`, that a chain knows no pull request outside the repos
  its REQ touches.
* `MergedIsLandedHolds` from `SettledInv`: a terminal that says merged carries rows
  that are merged, the forge never un-merges, and a REQ with a blockers entry waits on
  its conflict until the unblock pass frees it (`Waits`), so that one which merges was
  never held or cleared its entry when it landed (`ClearedByLanding`).  With one repo,
  a list that is not empty is the whole REQ.  With more, nothing in the code makes a
  list complete, and the theorem does not say that it is.
* `HaltedIsNotLandedHolds` from `HaltInv`: who halts had something unmerged, and only
  the barrier, a merge or a landing of its own could change that.
* `OneLandingPerRepoHolds` from `LandInv`, assuming `Touched[r] \subseteq Scored[r]`:
  the barrier classifies by what Phase 0 reports and orders by what Preflight
  scored, and without the inclusion a REQ could land in a repo its group does not
  know of.
* `RebaseIsOwedHolds`, an action property: from `OwedInv`, that the terminal which
  frees a held REQ is final, and from `Waits` in `SettledInv`, that the change the REQ
  conflicted with is still landed, not yet in its branch, and in its way.

**One REQ** (`ReqWorkProofs`)

* `TierOrderHolds` from `TierInv` by the rank of a task in the sorted order, and
  `LastWordCountsHolds` from `WordInv`.
* `TypeCorrect` from `ShapeInv` and `SpokenInv`: the consolidation returns findings
  of the shape the panel gave, and none that nobody raised.
* `StrongestSurvivesHolds`.  `Absorb`, one turn of the loop over the flat list, keeps
  "the list so far is consolidated": one finding per key and repo, the strongest
  raised, naming all who raised it (`AbsorbConsolidates`).  That the fold over any
  finite set of findings then is consolidated too (`FoldConsolidates`) needs an
  induction, and the induction theorems of the library cannot be used, as they take
  an operator.  `ReachesAll` states induction for a *set* of numbers, by its
  least missing element; with it `FoldReaches` shows that the recursive function
  inside `FoldSet` exists, by the number of elements, and `FoldedUnrolls` that it
  unrolls.
* `ImplementsSprintHolds`, which needs `VerdictInv` (what blocks is a function of the
  verdict, and there is none before the panel) to show that each step maps to
  `Implement`, `Review`, `Fix` or a stutter.

**Workstation** (`WorkstationProofs`).  `CallInv` carries what each step of the call
read: that the file the path held at `Require` consents, and that the provider is
the one some seen file resolves to; it gives `SentByConsentHolds`,
`KeyOfItsEndpointHolds` and `GateAgreesWithCallHolds`.  `ForgeInv` relates the
resolver's answer to the provider the environment forces, else to the project's file
(`ProjectProviderWinsHolds`) and to the notice it printed, and the doctor's PyYAML verdict to the
interpreter the resolver uses (`OverrideIsReportedHolds`).  `DoctorInv` says that the checks passed so far
have the verdict their fault demands, as long as nobody saved
(`CleanBillMeansWorkingHolds`).  `OneVerdictPerFileHolds` is a fact about `Load`.
`TypeCorrect` adds what is sent: an endpoint is never empty, whatever the config says
(`EndpointGiven`), and a key variable is the name of one, never a key pasted in its
place.

**Checkout** (`RewriteProofs`).  `RenderInv` and `TreeInv` give `AlwaysWholeHolds`: a
temporary file is whole when it replaces, for both commands at once.  `PastInv` says
that agents behind the render's position are stamped (`RenderSettlesHolds`);
`QuietInv`, that nothing is written before the reservation is decided
(`RefusalLeavesTreeHolds`).  `PlanInv` says of every file a run answers for that it
is as the run found it, and then still to be rewritten, untracked or to be left
alone, or as planned; agents are left out as soon as somebody else wrote, since a
render may write back what the run replaced (`AppliedAsPlannedHolds`, with `NameInv`
for the artifact's own file).

**Linter** (`LintProofs`)

* `GreenMeansCheckedHolds` from `ReportInv`, which says that the report is that of the
  file and the checkout as they still are.  What a check cannot look at gives no
  finding, and the theorem says nothing of it: agents that do not decode, a render
  that does not import, lists out of reach of the walks.  A file of finitely
  many fences and lines has finitely many findings, so that their number is 0 only if there are none, and
  the clamp of the exit status turns no other number into 0.
* `CleanFileRunsHolds` from `RunInv`, over the fences an agent runs in new shells.
  `ShellInv` types the running shell; `MemoryInv` relates what it has defined, called
  and assigned to the lines of the fence that ran; `GuardInv`, that a shell without
  the gate's answer has met neither a guard nor an invocation; `WorkedInv`, that a
  function defined and called in a fence that ran has worked there; `TroubleInv`
  says which trouble a clean file cannot meet, by exhibiting for each the line that
  `Lint` would have reported.  Where a check reports only the first line of its
  kind, that line is the least by well-foundedness.
* `TypeCorrect`, the types of the whole checkout, from `CommandsInv`.

Every invariant of the passing runs is stated by a theorem.  Only model-checked:
the liveness properties `RunsEnd` and `RunEnds`, which the prover does not reach.

## 6. Not modelled

* The `assume` kind's sibling scan, the legacy positional arguments, symlink
  refusals and the digit handling of ids.
* Reservations across origins: a number is unique per origin, which is what the
  code reserves.
* The journal of a relaunched workflow: it belongs to the workflow runtime, and
  a run of the model starts with nothing landed and no blockers entry.
* Rows about pull requests that nobody asked for, or that say MERGED of one that is
  not: the verification is an agent too, and what it returns is taken as the forge's.
* `os.rename` onto a file that is there already, which replaces it: the model's
  rename fails or moves.  An agent file that may not be opened is a finding of the
  linter; in the model it is one that does not decode.
* The delegate pre-pass and `validateCitations`: advisory text for reviewers.
* Of the delegate tools, `adlc-write`, `extract-chat`, the version report; of the
  forge layer the pull-request operations, which translate command lines.
* Text: prompts, messages, telemetry, the YAML dialect of the agents section, the
  regular expressions of the linter and of the reference rewriting.
* Intake, attribution, telemetry, installers, and the prose: no state, or no
  executable semantics.  The conflict bound and the trial merge are sequential
  procedures over git's exit codes; item 6 of the plan has them.
