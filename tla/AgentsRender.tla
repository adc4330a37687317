---------------------------- MODULE AgentsRender ----------------------------
(***************************************************************************)
(* adlc agents render (tools/adlc/agents_render.py): the model: line of    *)
(* every agent file is stamped from the agents section of the machine      *)
(* config, file by file, each through a temporary file next to it.         *)
(***************************************************************************)
EXTENDS WorkTree

CONSTANTS
  Shipped,     \* [Agent -> [tier, model]], _SHIPPED_DEFAULTS
  Order,       \* the agents in the order of their names
  Settings,    \* what an operator may write in the agents section
  MaxEdits     \* bound: how often he does

ASSUME RenderAssumption ==
  /\ Order \in Seq(Agent) /\ \A a \in Agent : \E i \in DOMAIN Order : Order[i] = a
  /\ \A a \in Agent : Shipped[a].model \in Models

VARIABLES
  settings,    \* the agents section now: [classes, overrides]
  edits,
  render,      \* where the render is: idle, read, open, fill, replace, done, rejected,
               \* failed
  config,      \* the section the render parsed when it started
  todo,        \* the agents still to be rendered
  draft,       \* the text to be written for the first of them
  tmp,         \* the temporary file next to each agent, Torn when there is none:
               \* it is only ever opened to be truncated
  alone        \* history: nobody else has written the tree since it started

settingVars == <<settings, edits>>
renderVars  == <<render, config, todo, draft, tmp>>

Classes == {"reviewer", "scanner", "explorer", "implementer", "orchestrator"}
Aliases == {"opus", "sonnet", "haiku", "inherit"}
FullIds == {"claude-opus-4-8"}
ValueOK(value) == value \in Aliases \cup FullIds

\* parse_agents_config of a file that is not there, or has no such section.
NoSettings == [classes |-> << >>, overrides |-> << >>]

\* validate_config
Valid(s) == /\ DOMAIN s.classes \subseteq Classes
            /\ \A c \in DOMAIN s.classes : ValueOK(s.classes[c])
            /\ \A a \in DOMAIN s.overrides : ValueOK(s.overrides[a])

\* resolve_model: the override, then the class, then what is shipped.
ResolveModel(a, s) ==
  IF a \in DOMAIN s.overrides THEN s.overrides[a]
  ELSE IF Shipped[a].tier \in DOMAIN s.classes THEN s.classes[Shipped[a].tier]
  ELSE Shipped[a].model

\* (mutant) "inherit" leaves the line that is there.
RenderTextKeepsLine(text, m) ==
  IF text.frontmatter /\ m # "inherit" THEN [text EXCEPT !.model = m] ELSE text

\* _render_text: "inherit" takes the line out; a file without frontmatter is
\* left as it is.
RenderText(text, m) == IF text.frontmatter THEN [text EXCEPT !.model = m] ELSE text

\* _current_model and check_drift.
CurrentModel(text) == IF text.frontmatter THEN text.model ELSE "none"
Drift(s) == {a \in Agent : CurrentModel(tree[a]) # ResolveModel(a, s)}

RenderInit ==
  /\ settings \in Settings /\ edits = 0
  /\ render = "idle" /\ config = NoSettings /\ todo = << >> /\ draft = Torn
  /\ tmp = [a \in Agent |-> Torn] /\ alone = TRUE

\* The operator edits the section (external).
EditSettings ==
  /\ edits < MaxEdits /\ edits' = edits + 1
  /\ settings' \in Settings \ {settings}
  /\ UNCHANGED <<tree, dir, kills, renderVars, alone>>

\* The config is parsed and validated before any file is looked at.
RenderStart ==
  /\ render \in {"idle", "done", "rejected", "failed"}
  /\ config' = settings
  /\ render' = IF Valid(settings) THEN "read" ELSE "rejected"
  /\ todo' = IF Valid(settings) THEN Order ELSE << >>
  /\ alone' = TRUE
  /\ UNCHANGED <<tree, dir, settingVars, kills, draft, tmp>>

RenderRead ==
  /\ render = "read" /\ todo # << >> /\ tree[Head(todo)].utf8
  /\ LET text == tree[Head(todo)]
         new  == RenderText(text, ResolveModel(Head(todo), config))
     IN  IF new = text THEN todo' = Tail(todo) /\ UNCHANGED <<render, draft>>
                       ELSE draft' = new /\ render' = "open" /\ UNCHANGED todo
  /\ UNCHANGED <<tree, dir, settingVars, kills, config, tmp, alone>>

\* An agent that does not decode ends the command where it is, with a traceback:
\* main catches a ConfigError only.
RenderFailed ==
  /\ render = "read" /\ todo # << >> /\ ~tree[Head(todo)].utf8
  /\ render' = "failed" /\ todo' = << >>
  /\ UNCHANGED <<tree, dir, settingVars, kills, config, draft, tmp, alone>>

\* (mutant) the agent file itself is opened for writing.
RenderOpenInPlace ==
  /\ render = "open" /\ render' = "fill"
  /\ tree' = [tree EXCEPT ![Head(todo)] = Torn]
  /\ UNCHANGED <<dir, settingVars, kills, config, todo, draft, tmp, alone>>

\* _atomic_write: the temporary file is truncated, filled, and put in place.
RenderOpen ==
  /\ render = "open" /\ render' = "fill"
  /\ tmp' = [tmp EXCEPT ![Head(todo)] = Torn]
  /\ UNCHANGED <<tree, dir, settingVars, kills, config, todo, draft, alone>>

RenderFill ==
  /\ render = "fill" /\ render' = "replace"
  /\ tmp' = [tmp EXCEPT ![Head(todo)] = draft]
  /\ UNCHANGED <<tree, dir, settingVars, kills, config, todo, draft, alone>>

RenderReplace ==
  /\ render = "replace" /\ render' = "read"
  /\ tree' = [tree EXCEPT ![Head(todo)] = tmp[Head(todo)]]
  /\ tmp' = [tmp EXCEPT ![Head(todo)] = Torn]
  /\ todo' = Tail(todo) /\ draft' = Torn
  /\ UNCHANGED <<dir, settingVars, kills, config, alone>>

RenderDone ==
  /\ render = "read" /\ todo = << >> /\ render' = "done"
  /\ UNCHANGED <<tree, dir, settingVars, kills, config, todo, draft, tmp, alone>>

RenderKilled ==
  /\ render \in {"read", "open", "fill", "replace"} /\ kills < MaxKills
  /\ render' = "idle" /\ kills' = kills + 1
  /\ config' = NoSettings /\ todo' = << >> /\ draft' = Torn
  /\ UNCHANGED <<tree, dir, settingVars, tmp, alone>>

RenderNext == \/ EditSettings \/ RenderStart \/ RenderRead \/ RenderFailed \/ RenderOpen
              \/ RenderFill \/ RenderReplace \/ RenderDone \/ RenderKilled

\* ---------------------------------------------------------------- properties

RenderTypeOK ==
  /\ settings \in Settings /\ config \in Settings \cup {NoSettings}
  /\ render \in {"idle", "read", "open", "fill", "replace", "done", "rejected", "failed"}
  /\ draft \in Texts /\ tmp \in [Agent -> Texts]

\* A render that ran to its end has stamped every agent that has a frontmatter
\* with the model of the config it read, whatever killed renders left before.
RenderSettles ==
  (render = "done" /\ alone) =>
     \A a \in Agent : tree[a].frontmatter => a \notin Drift(config)
============================================================================
