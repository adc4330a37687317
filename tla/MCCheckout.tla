---------------------------- MODULE MCCheckout ----------------------------
(* Two agents, one of which mentions the artifact, a tracked and an untracked *)
(* note, one beside the artifact, one that mentions a longer id, some that do *)
(* not decode, and settings of every kind; then                               *)
(* files of up to three lines from three vocabularies, and roots of all kinds.  *)
EXTENDS Checkout

CONSTANTS a1, a2, n1, n2, n3, n4, spec

MCShipped == [a \in Agent |-> IF a = a1 THEN [tier |-> "reviewer", model |-> "opus"]
                                        ELSE [tier |-> "explorer", model |-> "haiku"]]
MCOrder == <<a1, a2>>

MCSettings ==
  { NoSettings,
    [classes |-> [c \in {"reviewer", "explorer"} |-> "claude-opus-4-8"],
     overrides |-> [a \in {a2} |-> "inherit"]],
    [classes |-> [c \in {"reviewer"} |-> "gpt"], overrides |-> << >>] }

Plain(ref) == Text(FALSE, "inherit", ref)
TreeOf(m, fm) == [p \in Path |-> CASE p = a1 -> Text(TRUE, "opus", Old)
                                   [] p = a2 -> Text(fm, m, "")
                                   [] p = n1 -> Plain(Sibling)
                                   [] p \in {n2, n3, n4, spec} -> Plain(Old)]

\* A tree in which some files do not decode.
Garbled(t, ps) == [p \in Path |-> [t[p] EXCEPT !.utf8 = p \notin ps]]

Empty == [role |-> "skill", parts |-> {"x"}, inside |-> TRUE, readable |-> TRUE, closed |-> TRUE,
          prose |-> {}, literals |-> {}, fences |-> << >>]
Roles(rs) == {[Empty EXCEPT !.role = r] : r \in rs \ {"partial"}}
  \cup {[Empty EXCEPT !.role = r, !.fences = <<[lang |-> "sh", body |-> << >>]>>] : r \in rs \cap {"partial"}}

Bare == [others |-> 1, toolkit |-> FALSE, imports |-> TRUE, blob |-> {}, init |-> << >>,
         drift |-> << >>, reader |-> << >>, sites |-> << >>, unread |-> {}, outside |-> {}]

Ln(does, name)  == [does |-> does, name |-> name, comment |-> FALSE]
Com(does, name) == [does |-> does, name |-> name, comment |-> TRUE]
Scenario(task_, trees, sets, files, roots, words, n) ==
  [task |-> task_, trees |-> trees, settings |-> sets, files |-> files, roots |-> roots,
   lines |-> words, room |-> n]
Writing(files, words, n) ==
  Scenario("lint", {TreeOf("haiku", TRUE)}, {NoSettings}, files, {Bare}, words, n)

States == {Ln("def", "f"), Ln("call", "f"), Ln("assign", "v"), Ln("read", "v"), Com("read", "v"),
           Ln("export", "v"), Ln("assign", "flag"), Ln("read", "flag")}
Reads == {Ln("guard", ""), Com("guard", ""), Ln("invoke", ""), Com("invoke", ""),
          Ln("invoke without command", ""), Ln("invoke unquoted", ""), Ln("default", ""),
          Ln("copy", ""), Ln("invoke copy", ""), Ln("eval", "")}
Words == {Ln("source guarded", ""), Ln("source unguarded", ""), Ln("source retired", ""),
          Com("source retired", ""), Ln("local", ""), Ln("gh pr", ""), Ln("$digit", ""),
          Ln("sentinel", ""), Ln("$(", ""), Ln(")", ""), Ln("$((", ""), Ln("))", "")}

Texts0 == [role: {"skill"}, parts: {{"x"}, {".worktrees"}}, inside: BOOLEAN, readable: BOOLEAN,
           closed: BOOLEAN, prose: {{}, {"anchor"}, {"anchor", "telemetry"}, {"$digit"}, {"retired"}},
           literals: {{"start"}, Literals}, fences: {<<[lang |-> "bash", body |-> << >>]>>}]
Roots0 == [others: {0, 1}, toolkit: BOOLEAN, imports: {TRUE}, blob: {{}, Literals}, init: {<< >>},
           drift: {<< >>}, reader: {<< >>}, sites: {<< >>}, unread: {{}}, outside: {{}}]
Toolkits == {[Bare EXCEPT !.toolkit = TRUE, !.imports = i] : i \in BOOLEAN}
Parities == [others: {1}, toolkit: {FALSE}, imports: {TRUE}, blob: {{}},
             unread: {{}, {"init"}, {"reader"}, {"wrapup"}}, outside: {{}, {"init", "reader", "wrapup"}},
             init: {<< >>, <<COPIED>>, <<COPIED \ {"ethos"}>>, <<{"ethos"}, COPIED>>, <<{"typo"}>>},
             drift: {<< >>, <<SURFACES>>, <<{"ethos"}>>, <<{"typo"}>>},
             reader: {<< >>, <<{}>>, <<{"draft"}>>, <<{"draft"}, {"complete"}>>},
             sites: {<< >>, [w \in Sites |-> << >>], [w \in Sites |-> <<{"approved"}>>],
                     [w \in Sites |-> IF w = "wrapup" THEN <<{"approved"}, {"complete"}>>
                                                      ELSE <<{"approved"}>>]}]

Rewritable == {TreeOf("inherit", fm) : fm \in BOOLEAN}
  \cup {Garbled(TreeOf("inherit", TRUE), ps) : ps \in {{a2}, {n2, spec}}}

MCScenarios ==
  { Scenario("rewrite", Rewritable, MCSettings, {Empty}, {Bare}, {}, 0),
    Writing(Roles({"skill"}), States, 3),
    Writing(Roles({"skill", "agent"}), Reads, 3),
    Writing(Roles({"skill", "agent", "phase", "partial"}), Words, 2),
    Scenario("lint", {TreeOf(m, fm) : m \in {"haiku", "inherit"}, fm \in BOOLEAN}, MCSettings,
             Texts0, Roots0, {}, 0),
    Scenario("lint", {Garbled(TreeOf("inherit", TRUE), ps) : ps \in SUBSET {a1, a2}}, MCSettings,
             {Empty}, Toolkits, {}, 0),
    Scenario("lint", {TreeOf("haiku", TRUE)}, {NoSettings}, {Empty}, Parities, {}, 0) }
============================================================================
