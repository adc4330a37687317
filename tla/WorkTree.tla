------------------------------ MODULE WorkTree ------------------------------
(***************************************************************************)
(* The working tree of a toolkit checkout as adlc agents render and adlc   *)
(* renumber see it: files that are whole or torn, that decode or do not,   *)
(* the model line of an agent, and the artifact id a file mentions.        *)
(***************************************************************************)
EXTENDS Naturals, Sequences, FiniteSets

CONSTANTS
  Agent,       \* the agent files of the checkout
  Note,        \* the other files that may mention an artifact
  Untracked,   \* the notes git does not track
  Beside,      \* the notes whose path begins with the artifact's: x.md.orig, x-two/y.md
  Artifact,    \* the artifact that is renumbered, a directory or a file
  MaxKills     \* bound: how often a command is killed

ASSUME TreeAssumption ==
  /\ Untracked \cup Beside \subseteq Note /\ Artifact \notin Agent \cup Note
  /\ IsFiniteSet(Agent) /\ MaxKills \in Nat

VARIABLES
  tree,        \* what each path holds
  dir,         \* the id in the name of the artifact
  kills        \* how often a command was killed

Path == Agent \cup Note \cup {Artifact}

\* The ids a file may mention: the old one, the new one, and a longer id that
\* begins with the old one.
Old == "REQ-120"
New == "REQ-131"
Sibling == "REQ-1200"
Ids == {Old, New, Sibling, ""}

Models == {"opus", "sonnet", "haiku", "inherit", "claude-opus-4-8"}

\* A file's text: torn, or whole with a frontmatter (an agent's model is
\* "inherit" when it has no model line) and the id it mentions.  One that is not
\* utf8 does not decode; to both commands one they may not open is the same.
Text(frontmatter, model, ref) ==
  [whole |-> TRUE, utf8 |-> TRUE, frontmatter |-> frontmatter, model |-> model, ref |-> ref]
Texts == [whole: BOOLEAN, utf8: BOOLEAN, frontmatter: BOOLEAN, model: Models, ref: Ids]
Torn  == [Text(FALSE, "inherit", "") EXCEPT !.whole = FALSE]
============================================================================
