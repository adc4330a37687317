------------------------------ MODULE Checkout ------------------------------
(***************************************************************************)
(* One checkout: agents are rendered and an artifact is renumbered at the  *)
(* same time, both commands rewrite agent files and neither locks the      *)
(* tree; or a skill is written, linted with the agents as they are, and    *)
(* run.                                                                    *)
(***************************************************************************)
EXTENDS SkillLint, Renumber

\* A scenario says what is done and what is there at the start: the trees and
\* settings to choose from, and the linter's file, root, lines and room.
CONSTANT Scenarios

\* Every file is whole at the start, and the artifact's own one carries its id;
\* a block of the scan root lists finitely many words.
ASSUME ScenarioAssumption ==
  \A s \in Scenarios :
    /\ s.task \in {"rewrite", "lint"}
    /\ \A t \in s.trees : t \in [Path -> {x \in Texts : x.whole}] /\ t[Artifact].ref = Old
    /\ s.settings \subseteq Settings
    /\ s.files \subseteq [role: {"skill", "agent", "phase", "partial"},
                          parts: SUBSET (Skipped \cup {"x"}),
                          inside: BOOLEAN, readable: BOOLEAN, closed: BOOLEAN,
                          prose: SUBSET ProseKinds, literals: SUBSET Literals,
                          fences: Seq([lang: {"sh", "bash"}, body: Seq(s.lines)])]
    /\ \A r \in s.roots : /\ r.others \in Nat /\ r.toolkit \in BOOLEAN /\ r.imports \in BOOLEAN
                          /\ r.unread \cup r.outside \subseteq Compared
                          /\ \A w \in DOMAIN r.sites : w \in Sites
                          /\ r.init # << >> => IsFiniteSet(Head(r.init))
                          /\ r.drift # << >> => IsFiniteSet(Head(r.drift))
                          /\ IsFiniteSet(All(r.reader))
    /\ s.room \in Nat

VARIABLE task    \* "rewrite" or "lint"

vars == <<task, tree, dir, kills, settingVars, renderVars, alone, remoteVars, runs,
          renumberVars, solo, lintVars>>

Init ==
  /\ \E s \in Scenarios :
       /\ task = s.task /\ tree \in s.trees /\ settings \in s.settings
       /\ file \in s.files /\ root \in s.roots /\ lines = s.lines /\ room = s.room
  /\ dir = Old /\ kills = 0
  /\ RenderInit /\ RenumberInit /\ LintInit
  /\ task = "lint" => remote = "nobody" /\ online = "yes"

\* A write by one command ends the other's time alone with the tree.
Next ==
  /\ UNCHANGED task
  /\ \/ /\ task = "rewrite" /\ RenderNext
        /\ solo' = (solo /\ tree' = tree)
        /\ UNCHANGED <<remoteVars, runs, renumberVars, lintVars>>
     \/ /\ task = "rewrite" /\ RenumberNext
        /\ alone' = (alone /\ tree' = tree)
        /\ UNCHANGED <<settingVars, renderVars, lintVars>>
     \/ /\ task = "lint" /\ LintNext
        /\ UNCHANGED <<tree, dir, kills, settingVars, renderVars, alone, remoteVars, runs,
                       renumberVars, solo>>

Spec == Init /\ [][Next]_vars

TypeOK == /\ task \in {"rewrite", "lint"}
          /\ tree \in [Path -> Texts] /\ dir \in Ids /\ kills \in 0 .. MaxKills
          /\ RenderTypeOK /\ RenumberTypeOK /\ LintTypeOK

\* A file of the checkout is whole at every moment: no reader, and no run after
\* a command was killed, ever meets half of one.
AlwaysWhole == \A p \in Path : tree[p].whole
============================================================================
