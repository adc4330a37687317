------------------------------ MODULE Renumber ------------------------------
(***************************************************************************)
(* adlc renumber Old New (tools/adlc/renumber.py): checks and plans, then  *)
(* reserves New on the remote, renames the artifact and rewrites every     *)
(* file that mentions Old.  The allocator and the recheck it calls are     *)
(* those of IdAlloc and IdPublish; here each is one step with its outcomes.*)
(***************************************************************************)
EXTENDS WorkTree

CONSTANT
  MaxRuns      \* bound: how often renumber is run

VARIABLES
  remote,      \* who holds New on the remote: "nobody", "us", "other"
  known,       \* does this machine's ledger know our reservation of New?
  online,      \* can the remote be reached, are the partials installed
  runs,
  renumber,    \* where renumber is
  refs,        \* the files its plan lists, and those still to be rewritten
  path, read,  \* the file it rewrites, and the text it has read from it
  outcome,     \* what reserve_new_id answered: won, lost, degraded, unavailable
  before,      \* history: tree and directory when it started
  solo         \* history: nobody else has written the tree since it started

remoteVars   == <<remote, known, online>>
renumberVars == <<renumber, refs, path, read, outcome, before>>

KindOf(id)  == IF id \in {Old, New, Sibling} THEN "REQ" ELSE id

\* _validate_id and main: both well formed, of one kind, and different.
Arguments == {<<Old, New>>, <<Old, Old>>, <<Old, "BUG">>, <<Old, "junk">>}
WellFormed(a) == /\ KindOf(a[1]) \in {"REQ", "BUG"} /\ KindOf(a[2]) \in {"REQ", "BUG"}
                 /\ KindOf(a[1]) = KindOf(a[2]) /\ a[1] # a[2]

\* (mutant) a longer id that begins with the old one is taken for it.
MentionsPrefix(ref, id) == ref = id \/ (id = Old /\ ref = Sibling)

\* _id_boundary_re: an id is not found inside a longer one.
Mentions(ref, id) == ref = id
Rewritten(text) == IF Mentions(text.ref, Old) THEN [text EXCEPT !.ref = New] ELSE text

\* _grep_references and plan: what git tracks, or without git grep the whole tree.
\* The artifact's own files are kept apart by their path, which keeps apart every
\* path that begins like it; what does not decode counts no reference.
References(walk) ==
  {p \in Path \ (Beside \cup {Artifact}) :
     tree[p].utf8 /\ Mentions(tree[p].ref, Old) /\ (walk \/ p \notin Untracked)}

RenumberInit ==
  /\ remote \in {"nobody", "other"} /\ known = FALSE /\ online \in {"yes", "no", "no partials"}
  /\ runs = 0 /\ renumber = "idle" /\ refs = {} /\ path = Artifact /\ read = Torn
  /\ outcome = "none" /\ before = <<tree, dir>> /\ solo = TRUE

Goes(where) == renumber' = where

\* Another allocator reserves New, or the network comes and goes (external).
OtherReserves ==
  /\ remote = "nobody" /\ remote' = "other"
  /\ UNCHANGED <<tree, dir, kills, known, online, runs, renumberVars, solo>>

NetworkChanges ==
  /\ online \in {"yes", "no"} /\ online' \in {"yes", "no"} \ {online}
  /\ UNCHANGED <<tree, dir, kills, remote, known, runs, renumberVars, solo>>

\* main up to plan: ids, then the recheck (which passes when it cannot see the
\* remote, and knows our own reservation from the ledger), then the artifact.
Refusal(a) == \/ ~WellFormed(a)
              \/ online = "yes" /\ (remote = "other" \/ (remote = "us" /\ ~known))
              \/ dir # Old

RenumberStart ==
  /\ renumber \in {"idle", "refused", "dry run", "applied", "failed"} /\ runs < MaxRuns
  /\ runs' = runs + 1 /\ before' = <<tree, dir>> /\ solo' = TRUE /\ outcome' = "none"
  /\ \E a \in Arguments, walk \in BOOLEAN :
       IF Refusal(a) THEN Goes("refused") /\ refs' = {}
       ELSE /\ refs' = References(walk)
            /\ \/ Goes("dry run")
               \/ Goes("reserve")
  /\ UNCHANGED <<tree, dir, kills, remoteVars, path, read>>

\* (mutant) the artifact is renamed before the reservation is decided.
ReserveAfterRename ==
  /\ renumber = "reserve" /\ dir' = New
  /\ IF online = "yes" /\ remote # "nobody"
     THEN outcome' = "lost" /\ Goes("refused") /\ UNCHANGED <<remote, known>>
     ELSE /\ outcome' = (IF online = "yes" THEN "won" ELSE "degraded") /\ Goes("rename")
          /\ remote' = (IF online = "yes" THEN "us" ELSE remote) /\ UNCHANGED known
  /\ UNCHANGED <<tree, kills, online, runs, refs, path, read, before, solo>>

\* reserve_new_id: the ref is created, or was already there (ours or not), or
\* the push did not get through, or there is no allocator to ask.
Reserve ==
  /\ renumber = "reserve"
  /\ \/ /\ online = "yes" /\ remote = "nobody"
        /\ remote' = "us" /\ known' \in BOOLEAN /\ outcome' = "won" /\ Goes("rename")
     \/ /\ online = "yes" /\ remote # "nobody"
        /\ outcome' = "lost" /\ Goes("refused") /\ UNCHANGED <<remote, known>>
     \/ /\ online # "yes"
        /\ outcome' = IF online = "no" THEN "degraded" ELSE "unavailable"
        /\ Goes("rename") /\ UNCHANGED <<remote, known>>
  /\ UNCHANGED <<tree, dir, kills, online, runs, refs, path, read, before, solo>>

\* os.rename fails, onto a directory that is there, or moves the artifact.
Rename ==
  /\ renumber = "rename"
  /\ \/ Goes("failed") /\ UNCHANGED dir
     \/ Goes("read own") /\ dir' = New
  /\ UNCHANGED <<tree, kills, remoteVars, runs, refs, path, read, outcome, before, solo>>

\* _rewrite_file reads a text, writes it out in a file of its own, and puts that
\* in place of the path.  The artifact's own file comes first.
ReadFile ==
  /\ \/ renumber = "read own" /\ path' = Artifact
     \/ renumber = "read ref" /\ refs # {} /\ path' = CHOOSE p \in refs : TRUE
  /\ read' = tree[path']
  /\ Goes("replace")
  /\ UNCHANGED <<tree, dir, kills, remoteVars, runs, refs, outcome, before, solo>>

ReplaceFile ==
  /\ renumber = "replace" /\ Goes("read ref")
  /\ IF read.utf8 /\ Mentions(read.ref, Old)
     THEN tree' = [tree EXCEPT ![path] = Rewritten(read)]
     ELSE UNCHANGED tree
  /\ refs' = refs \ {path} /\ path' = Artifact /\ read' = Torn
  /\ UNCHANGED <<dir, kills, remoteVars, runs, outcome, before, solo>>

Applied ==
  /\ renumber = "read ref" /\ refs = {} /\ Goes("applied")
  /\ UNCHANGED <<tree, dir, kills, remoteVars, runs, refs, path, read, outcome, before, solo>>

RenumberKilled ==
  /\ renumber \in {"reserve", "rename", "read own", "read ref", "replace"} /\ kills < MaxKills
  /\ Goes("idle") /\ kills' = kills + 1
  /\ refs' = {} /\ path' = Artifact /\ read' = Torn
  /\ UNCHANGED <<tree, dir, remoteVars, runs, outcome, before, solo>>

RenumberNext == \/ OtherReserves \/ NetworkChanges
                \/ RenumberStart \/ Reserve \/ Rename
                \/ ReadFile \/ ReplaceFile \/ Applied \/ RenumberKilled

\* ---------------------------------------------------------------- properties

RenumberTypeOK ==
  /\ remote \in {"nobody", "us", "other"} /\ online \in {"yes", "no", "no partials"}
  /\ renumber \in {"idle", "refused", "dry run", "reserve", "rename", "read own",
                   "read ref", "replace", "applied", "failed"}
  /\ refs \subseteq Path /\ path \in Path /\ read \in Texts
  /\ outcome \in {"none", "won", "lost", "degraded", "unavailable"}

\* A run that refuses, whatever the step it refuses at, a dry run, and a run whose
\* rename fails leave the tree and the name of the artifact as they found them.
RefusalLeavesTree ==
  (renumber \in {"refused", "dry run", "failed"} /\ solo) => <<tree, dir>> = before

\* What the command is meant to make of a text it found: a file beside the
\* artifact and one that does not decode stay as they are, in any other the id is
\* the new one, and a longer id stays.
Planned(p, text) ==
  IF p \in Beside \/ ~text.utf8 \/ text.ref # Old THEN text ELSE [text EXCEPT !.ref = New]

\* A run that was applied, whatever killed runs and renders came before or came
\* between, has named the artifact by the new id and made of every tracked file
\* what was planned; of an agent file if nobody else wrote the tree meanwhile.
\* What git does not track is as it was or as planned.
AppliedAsPlanned ==
  renumber = "applied" =>
    /\ dir = New
    /\ \A p \in Path : (p \in Agent => solo) =>
         \/ tree[p] = Planned(p, before[1][p])
         \/ p \in Untracked /\ tree[p] = before[1][p]

============================================================================
