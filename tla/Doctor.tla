------------------------------- MODULE Doctor -------------------------------
(***************************************************************************)
(* adlc doctor (tools/adlc/doctor.py and checks.py): the ordered registry  *)
(* of checks, each over the machine as it is when the check runs, and the  *)
(* verdict.  Skills call it as their pre-flight, with a subset of the      *)
(* checks.  What is wrong with a machine is a set of faults; the configs,  *)
(* the interpreters and the forge resolution are those of Forge.           *)
(***************************************************************************)
EXTENDS Forge

VARIABLES
  faults,      \* what is wrong with this machine
  os,          \* its operating system
  only,        \* the value of --checks, a sequence of ids, << >> for none
  at,          \* how many checks of the registry have been dealt with
  outcome,     \* the result of each check that was dealt with
  probe,       \* the doctor's ref on origin: "none", "pushed" or "leaked"
  exit         \* "running", or the exit code: "clean" 0, "failed" 1, "usage" 2

machineFacts == <<faults, os, only>>
doctorVars == <<machineFacts, at, outcome, probe, exit>>

Faults == {"no git", "no skills link", "no agents link", "detached", "dirty",
           "no adlc", "adlc broken", "no gh", "gh logged out", "no az", "az logged out",
           "no PAT", "no forge partial", "no gate partial", "read refused", "push refused",
           "no identity", "no objects", "counter unreadable", "counter not numeric", "stale lock",
           "agent not loaded", "python hangs", "no template", "no claude"}

Has(fault) == fault \in faults

REGISTRY == <<"skills-symlink", "agents-symlink", "toolkit-clean", "path-shims",
              "gh-present", "forge", "reservations", "git-identity", "delegate-gate",
              "pyyaml", "counters", "launchctl", "template-version", "claude-code">>
Ids == {REGISTRY[i] : i \in DOMAIN REGISTRY}

\* -------------------------------------------------------- the single checks

FailIf(cond) == IF cond THEN "FAIL" ELSE "PASS"
SkipIf(cond) == IF cond THEN "SKIP" ELSE "PASS"

\* A check that shells out to a git that is not there raises: run_checks reports
\* every exception as a failure.
Git(found) == IF Has("no git") THEN "FAIL" ELSE found

HasRemote == host # ""

SkillsSymlink == Git(FailIf(Has("no skills link")))
AgentsSymlink == FailIf(Has("no agents link"))
ToolkitClean  == Git(FailIf(Has("detached") \/ Has("dirty")))
PathShims     == FailIf(Has("no adlc") \/ Has("adlc broken"))
GhPresent     == FailIf(Has("no gh"))
\* (mutant) a missing identity is only told, as in the reservations check.
GitIdentitySkips == Git(SkipIf(Has("no identity")))

GitIdentity   == Git(FailIf(Has("no identity")))

\* adlc_forge_provider in a shell of its own, as ForgeStart and ForgePython; of
\* what it prints only a supported provider is taken for an answer.
ForgeVerdict ==
  LET answer == CASE forced # "" -> forced
                  [] forced = "" /\ (IsFile(project) \/ IsFile(config)) ->
                       ResolveForge(ParseForgeConfig(project, RuleHasYaml),
                                    ParseForgeConfig(config, RuleHasYaml))
                  [] OTHER -> ShellDetect(host)
  IN  IF answer \in SUPPORTED_PROVIDERS THEN answer ELSE Neither

\* _forge_pat_status: the auth of the project config alone, when it names a
\* variable and that variable is set.
PatSet ==
  LET s == ParseForgeConfig(project, RuleHasYaml)
  IN  /\ ~s.error /\ "auth" \in DOMAIN s.keys
      /\ s.keys["auth"] \notin {"", "gh", "az"} /\ ~Has("no PAT") /\ ~Has("python hangs")

CheckForge ==
  Git(CASE ~HasRemote -> "SKIP"
        [] HasRemote /\ (Has("no forge partial") \/ ForgeVerdict = Neither) -> "FAIL"
        [] HasRemote /\ ~Has("no forge partial") /\ ForgeVerdict = "github"
             -> FailIf(Has("no gh") \/ Has("gh logged out"))
        [] OTHER -> FailIf(Has("no az") \/ (Has("az logged out") /\ ~PatSet)))

\* commit-tree makes no commit: for want of an identity, or for any other reason,
\* such as an object store that cannot be written.
NoProbeObject == Has("no identity") \/ Has("no objects")

\* check_reservations up to its push: the namespace is read, then an object is
\* made; without one the push is not tried.
ReservationsBeforePush ==
  Git(CASE ~HasRemote                                      -> "SKIP"
        [] HasRemote /\ Has("read refused")                -> "FAIL"
        [] HasRemote /\ ~Has("read refused") /\ NoProbeObject -> "SKIP"
        [] OTHER                                           -> FailIf(Has("push refused")))

\* _config_enabled runs under THE RULE's interpreter, unlike adlc-read.
ConfigEnabled ==
  ~Has("python hangs") /\ Written(ParseDelegateConfig(config, RuleHasYaml), "enabled") = "true"

DelegateGate ==
  CASE Has("no gate partial")                            -> "FAIL"
    [] ~Has("no gate partial") /\ GateAnswer.rc = 0       -> "PASS"
    [] ~Has("no gate partial") /\ GateAnswer.rc = 1       -> "SKIP"
    [] OTHER -> IF ConfigEnabled THEN "FAIL" ELSE "SKIP"

\* (mutant) without a venv there is nothing to check.
PyYamlOfVenv == IF machine.venv = "absent" THEN "SKIP"
                ELSE FailIf(Has("python hangs") \/ ~RuleHasYaml)

\* check_pyyaml: nothing to parse with and nothing to parse is the one skip.
PyYaml ==
  IF machine.venv = "absent" /\ ~IsFile(config) /\ ~IsFile(project) THEN "SKIP"
  ELSE FailIf(Has("python hangs") \/ ~RuleHasYaml)

Counters == FailIf(Has("counter unreadable") \/ Has("counter not numeric") \/ Has("stale lock"))

Launchctl == IF Has("no gate partial") \/ GateAnswer.rc # 0 THEN "SKIP"
             ELSE FailIf(Has("agent not loaded"))

CheckResult(id) ==
  CASE id = "skills-symlink"   -> SkillsSymlink
    [] id = "agents-symlink"   -> AgentsSymlink
    [] id = "toolkit-clean"    -> ToolkitClean
    [] id = "path-shims"       -> PathShims
    [] id = "gh-present"       -> GhPresent
    [] id = "forge"            -> CheckForge
    [] id = "reservations"     -> ReservationsBeforePush
    [] id = "git-identity"     -> GitIdentity
    [] id = "delegate-gate"    -> DelegateGate
    [] id = "pyyaml"           -> PyYaml
    [] id = "counters"         -> Counters
    [] id = "launchctl"        -> Launchctl
    [] id = "template-version" -> SkipIf(Has("no template"))
    [] id = "claude-code"      -> SkipIf(Has("no claude"))

Applies(id) == id = "launchctl" => os = "Darwin"

\* ------------------------------------------------------------- a doctor run

DoctorInit ==
  /\ at = 0 /\ outcome = << >> /\ probe = "none" /\ exit = "running"

Requested == {only[i] : i \in DOMAIN only}
Selected  == IF only = << >> THEN Ids ELSE Requested

\* _parse_only: an id nobody registered is an error before any check runs.
RejectSubset ==
  /\ at = 0 /\ exit = "running" /\ ~(Requested \subseteq Ids)
  /\ exit' = "usage"
  /\ UNCHANGED <<machineFacts, at, outcome, probe>>

Current == REGISTRY[at + 1]
Ready  == exit = "running" /\ Requested \subseteq Ids /\ at < Len(REGISTRY)
Record(id, found) == outcome' = [i \in DOMAIN outcome \cup {id} |->
                                    IF i = id THEN found ELSE outcome[i]]

PassOver ==
  /\ Ready /\ Current \notin Selected
  /\ at' = at + 1
  /\ UNCHANGED <<machineFacts, outcome, probe, exit>>

RunCheck ==
  /\ Ready /\ Current \in Selected /\ probe # "pushed"
  /\ LET found == IF Applies(Current) THEN CheckResult(Current) ELSE "SKIP"
     IN  IF Current = "reservations" /\ found = "PASS"
         THEN probe' = "pushed" /\ UNCHANGED <<at, outcome>>
         ELSE Record(Current, found) /\ at' = at + 1 /\ UNCHANGED probe
  /\ UNCHANGED <<machineFacts, exit>>

\* The probe ref is deleted again; nobody looks at whether that worked.
DeleteProbe ==
  /\ exit = "running" /\ probe = "pushed"
  /\ probe' \in {"none", "leaked"}
  /\ Record("reservations", "PASS") /\ at' = at + 1
  /\ UNCHANGED <<machineFacts, exit>>

Verdict ==
  /\ exit = "running" /\ at = Len(REGISTRY)
  /\ exit' = IF \E id \in DOMAIN outcome : outcome[id] = "FAIL" THEN "failed" ELSE "clean"
  /\ UNCHANGED <<machineFacts, at, outcome, probe>>

DoctorNext == RejectSubset \/ PassOver \/ RunCheck \/ DeleteProbe \/ Verdict

\* ---------------------------------------------------------------- properties

DoctorTypeOK == /\ faults \subseteq Faults
                /\ at \in 0 .. Len(REGISTRY)
                /\ DOMAIN outcome \subseteq Ids
                /\ \A id \in DOMAIN outcome : outcome[id] \in {"PASS", "FAIL", "SKIP"}
                /\ probe \in {"none", "pushed", "leaked"}
                /\ exit \in {"running", "clean", "failed", "usage"}

\* A full run that ends with 0 on a machine nobody reconfigures means the toolkit
\* works there: an allocation can reserve its id on origin, as far as the probe saw
\* (a skip for want of an identity hides no degraded allocator; one for want of an
\* object hides whether origin refuses the push), and a pull-request operation
\* finds its forge, its command and its credentials.
CleanBillMeansWorking ==
  (exit = "clean" /\ only = << >> /\ saves = 0 /\ HasRemote) =>
    /\ ~Has("no identity") /\ ~Has("read refused")
    /\ Has("push refused") => Has("no objects")
    /\ ForgeVerdict = "github" => ~Has("no gh") /\ ~Has("gh logged out")
    /\ ForgeVerdict = "azure-devops" => ~Has("no az") /\ (~Has("az logged out") \/ PatSet)
    /\ ForgeVerdict # Neither

\* A provider the repository wrote down and a missing parser overrode is never
\* silent: the doctor's PyYAML check of that machine fails.
OverrideIsReported ==
  LET written == Chosen(ParseForgeConfig(project, TRUE))
  IN  (loader /\ forced = "" /\ forge.at = "done" /\ written # "" /\ forge.provider \notin {written, Neither}
         /\ "pyyaml" \in DOMAIN outcome)
        => outcome["pyyaml"] = "FAIL"

============================================================================
