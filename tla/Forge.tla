------------------------------- MODULE Forge -------------------------------
(***************************************************************************)
(* Which forge a pull-request operation talks to: adlc_forge_provider in   *)
(* partials/forge.sh, and the resolver it runs when a config file exists   *)
(* (tools/adlc/forge_config.py).  The machine config is the one Delegation *)
(* reads; the interpreter may have PyYAML or not.                          *)
(***************************************************************************)
EXTENDS Delegation

VARIABLES
  project,     \* the project config of the repository
  host,        \* the host of its origin, "" when it has none
  loader,      \* whether _machine_config.py is at one of its candidates
  forced,      \* the provider the environment forces, "" for none
  forge        \* [at, provider, noticed] of the resolution under way

repoVars  == <<project, host, loader, forced>>
forgeVars == <<repoVars, forge>>

SUPPORTED_PROVIDERS == {"github", "azure-devops"}
Neither == "none"

\* ------------------------------------------------------------- the section

Section(error, keys, noticed) == [error |-> error, keys |-> keys, noticed |-> noticed]
Unconfigured(noticed) == Section(FALSE, << >>, noticed)
Refused == Section(TRUE, << >>, FALSE)

\* _forge_section: a null section or value is one that is not there.
ForgeSection(document) ==
  IF "forge" \notin DOMAIN document \/ document["forge"].form = "null"
  THEN Unconfigured(FALSE)
  ELSE LET node  == document["forge"]
           value == Constructed(node)
           given == {k \in KeysOf(node) \cap {"provider", "auth"} : value[k].form # "null"}
       IN  IF node.form # "mapping" \/ \E k \in given : value[k].form # "str"
           THEN Refused
           ELSE Section(FALSE, [k \in given |-> value[k].value], FALSE)

\* (mutant) whatever cannot be loaded is no config.
ParseForgeConfigTolerant(file, yaml) ==
  LET o == Load(file, yaml)
  IN  IF loader /\ o.kind = "parsed" THEN ForgeSection(o.document) ELSE Unconfigured(o.kind = "malformed")

\* parse_forge_config: no loader and no PyYAML are told on stderr and read as
\* no config at all; every other file that cannot be used is an error.
ParseForgeConfig(file, yaml) ==
  LET o == Load(file, yaml)
  IN  CASE ~loader \/ o.why = "dependency-missing"    -> Unconfigured(TRUE)
        [] loader /\ o.kind = "absent"                -> Unconfigured(FALSE)
        [] loader /\ o.kind = "parsed"                -> ForgeSection(o.document)
        [] OTHER                                      -> Refused

\* ----------------------------------------------------------- auto-detection

\* detect_provider_from_url compares the host, in lower case, with the known
\* ones and their subdomains; the shell looks for their names before a / or :.
Detect(h) == CASE h \in {"github.com", "GitHub.com"}                 -> "github"
               [] h \in {"dev.azure.com", "org.visualstudio.com", "visualstudio.com"} -> "azure-devops"
               [] OTHER                                              -> Neither

ShellDetect(h) == CASE h \in {"github.com", "corp-github.com"}        -> "github"
                    [] h \in {"dev.azure.com", "org.visualstudio.com"} -> "azure-devops"
                    [] OTHER                                          -> Neither

\* ------------------------------------------------------------- resolution

Chosen(section) == IF "provider" \notin DOMAIN section.keys THEN ""
                   ELSE IF section.keys["provider"] = "auto" THEN "" ELSE section.keys["provider"]

\* resolve_provider: both files are parsed before either is looked at.
ResolveForge(proj, mach) ==
  LET chosen == IF Chosen(proj) # "" THEN Chosen(proj) ELSE Chosen(mach)
  IN  CASE proj.error \/ mach.error                            -> Neither
        [] ~(proj.error \/ mach.error) /\ chosen # ""          ->
             IF chosen \in SUPPORTED_PROVIDERS THEN chosen ELSE Neither
        [] OTHER                                               -> Detect(host)

\* THE RULE, in the shim, in forge.sh and in the doctor's checks: the delegate
\* venv when it carries PyYAML, else python3 from PATH.
RuleHasYaml == machine.venv = "ready" \/ machine.systemYaml

ForgeInit == forge = [at |-> "start", provider |-> Neither, noticed |-> FALSE]

Resolves(answer, noticed) ==
  forge' = [at |-> "done", provider |-> answer, noticed |-> noticed]
IsFile(file) == file.node \in {"regular", "denied"}

\* adlc_forge_provider: the mock and the override of the environment come first,
\* whatever they name; python is asked only when one of the files is there.
ForgeStart ==
  /\ forge.at = "start"
  /\ \/ forced # "" /\ Resolves(forced, FALSE)
     \/ /\ forced = "" /\ (IsFile(project) \/ IsFile(config))
        /\ forge' = [forge EXCEPT !.at = "python"]
     \/ /\ forced = "" /\ ~(IsFile(project) \/ IsFile(config))
        /\ Resolves(ShellDetect(host), FALSE)
  /\ UNCHANGED repoVars

ForgePython ==
  /\ forge.at = "python"
  /\ LET proj == ParseForgeConfig(project, RuleHasYaml)
         mach == ParseForgeConfig(config, RuleHasYaml)
     IN  Resolves(ResolveForge(proj, mach), proj.noticed \/ mach.noticed)
  /\ UNCHANGED repoVars

ForgeNext == ForgeStart \/ ForgePython

\* ---------------------------------------------------------------- properties

ForgeTypeOK == /\ forge.at \in {"start", "python", "done"}
               /\ forge.provider \in SUPPORTED_PROVIDERS \cup {Neither, forced}
               /\ forge.noticed \in BOOLEAN

\* A provider the repository wrote down is never overridden by what is detected:
\* the operation uses it or refuses, unless the parser or its loader is missing,
\* and that is said.  The environment alone may force another one in its place.
ProjectProviderWins ==
  LET written == ParseForgeConfig(project, TRUE)
  IN  (forge.at = "done" /\ ~forge.noticed /\ loader /\ Chosen(written) # "")
        => forge.provider \in (IF forced = "" THEN {Chosen(written), Neither} ELSE {forced})

\* One loader, two consumers: a defect of the file refuses both, and the section
\* of one consumer never locks the other out.
OneVerdictPerFile ==
  LET o == Load(config, TRUE)
      delegate == ParseDelegateConfig(config, TRUE)
      section  == ParseForgeConfig(config, TRUE)
  IN  loader =>
      /\ o.kind = "malformed" => delegate.malformed /\ section.error
      /\ (o.kind = "parsed" /\ "forge" \notin DOMAIN o.document) => ~section.error
      /\ (o.kind = "parsed" /\ "delegate" \notin DOMAIN o.document) => ~delegate.malformed

============================================================================
