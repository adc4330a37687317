--------------------------- MODULE MachineConfig ---------------------------
(***************************************************************************)
(* The one loader of the machine config (tools/delegate/_machine_config):  *)
(* what a file on disk means to the programs that read it.  There is no    *)
(* state here; Delegation and Forge read their file through Load.          *)
(*                                                                         *)
(* A file is a record [node, text]: what the path is on disk, and the YAML *)
(* node its bytes hold.  A YAML node is Scalar(type, value), Mapping(pairs)*)
(* with pairs in the order they are written (a key may be written twice),  *)
(* or Blob(form) for what is not a document at all.                        *)
(***************************************************************************)
EXTENDS Sequences, Naturals

\* --------------------------------------------------------------- YAML trees

Scalar(type, value) == [form |-> type, value |-> value]
Mapping(pairs)      == [form |-> "mapping", pairs |-> pairs]
Blob(form)          == [form |-> form]

File(text) == [node |-> "regular", text |-> text]
NoFile     == [node |-> "missing", text |-> Blob("blank")]
Node(kind) == [node |-> kind, text |-> Blob("blank")]
Nodes      == {"missing", "special", "dangling", "denied", "regular"}

Pairs(node)  == IF node.form = "mapping" THEN node.pairs ELSE << >>
KeysOf(node) == {Pairs(node)[i][1] : i \in DOMAIN Pairs(node)}
Values(node) == {Pairs(node)[i][2] : i \in DOMAIN Pairs(node)}

\* construct_mapping: the mapping of a node whose keys are all different.
Constructed(node) ==
  [k \in KeysOf(node) |->
     LET i == CHOOSE j \in DOMAIN Pairs(node) : Pairs(node)[j][1] = k
     IN  Pairs(node)[i][2]]

\* ------------------------------------------------------- the strict grammar

MergeKey == "<<"

Repeats(node) == \E i, j \in DOMAIN Pairs(node) :
                    i < j /\ Pairs(node)[i][1] = Pairs(node)[j][1]

\* An alias is met while the document is composed, before anything is
\* constructed; a merge key when its mapping is flattened, before the keys of
\* that mapping are compared.
Aliased(node) == node.form = "alias"
                 \/ \E v \in Values(node) : v.form = "alias"
                                            \/ \E w \in Values(v) : w.form = "alias"

MappingFault(node) == IF MergeKey \in KeysOf(node) THEN "alias-or-merge"
                      ELSE IF Repeats(node) THEN "duplicate-key" ELSE "none"

\* The outer mapping is constructed before the ones nested in it, and those in
\* the order they are written: the first fault is the one reported.
ConstructFault(node) ==
  LET nested == {i \in DOMAIN Pairs(node) : MappingFault(Pairs(node)[i][2]) # "none"}
      first  == CHOOSE i \in nested : \A j \in nested : i <= j
  IN  CASE MappingFault(node) # "none" -> MappingFault(node)
        [] MappingFault(node) = "none" /\ nested # {} -> MappingFault(Pairs(node)[first][2])
        [] OTHER -> "none"

ParseFault(node) == CASE node.form = "garbled" -> "yaml-error"
                      [] Aliased(node)         -> "alias-or-merge"
                      [] OTHER                 -> ConstructFault(node)

\* ------------------------------------------------------------- the outcome

Outcome(kind, why, document) == [kind |-> kind, why |-> why, document |-> document]
Absent       == Outcome("absent", "none", << >>)
Malformed(c) == Outcome("malformed", c, << >>)
Parsed(d)    == Outcome("parsed", "none", d)

\* _open_regular, _read_capped and _decode: why the bytes cannot be had.
ReadFault(file) ==
  CASE file.node = "special"         -> "not-regular-file"
    [] file.node = "dangling"        -> "dangling-symlink"
    [] file.node = "denied"          -> "unreadable"
    [] file.text.form = "oversized"  -> "over-cap"
    [] file.text.form = "binary"     -> "undecodable"
    [] OTHER                         -> "none"

\* load_machine_config in an interpreter that has PyYAML or has not.  Without
\* it every file that can be read is dependency-missing, an empty one too.
Load(file, yaml) ==
  CASE file.node = "missing"             -> Absent
    [] file.node # "missing" /\ ReadFault(file) # "none" -> Malformed(ReadFault(file))
    [] file.node = "regular" /\ ReadFault(file) = "none" /\ ~yaml -> Malformed("dependency-missing")
    [] OTHER -> LET node == file.text IN
                CASE ParseFault(node) # "none" -> Malformed(ParseFault(node))
                  [] node.form = "blank"       -> Parsed(<< >>)
                  [] node.form = "mapping"     -> Parsed(Constructed(node))
                  [] OTHER                     -> Malformed("not-a-mapping")

\* ------------------------------------------------------ the delegate schema

DELEGATE_KEYS == {"enabled", "base_url", "model", "api_key_env"}

\* validate_delegate_section, of a parsed document: the section, or its fault.
DelegateFault(document) ==
  /\ "delegate" \in DOMAIN document
  /\ LET section == document["delegate"] IN
     \/ section.form # "mapping"
     \/ \E k \in KeysOf(section) :
          \/ k \notin DELEGATE_KEYS
          \/ Constructed(section)[k].form # (IF k = "enabled" THEN "bool" ELSE "str")

DelegateSection(document) ==
  IF "delegate" \notin DOMAIN document THEN << >>
  ELSE LET section == Constructed(document["delegate"])
       IN  [k \in DOMAIN section |-> section[k].value]
============================================================================
