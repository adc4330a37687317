-------------------------- MODULE MCWorkstation --------------------------
(* Workstation on the configs, environments, machines and repositories that *)
(* tell the branches of the code apart.                                      *)
EXTENDS Workstation

Str(value) == Scalar("str", value)
Bool(value) == Scalar("bool", value)
Delegate(pairs) == <<"delegate", Mapping(pairs)>>
ForgeSec(pairs) == <<"forge", Mapping(pairs)>>
Doc(pairs) == File(Mapping(pairs))

On   == Delegate(<< <<"enabled", Bool("true")>>, <<"base_url", Str("corp")>>,
                    <<"api_key_env", Str("CORP_KEY")>> >>)
Off  == Delegate(<< <<"enabled", Bool("false")>>, <<"base_url", Str("corp")>> >>)
Silent == Delegate(<< <<"base_url", Str("corp")>> >>)
Azure == ForgeSec(<< <<"provider", Str("azure-devops")>>, <<"auth", Str("ADO_PAT")>> >>)

MCConfigs ==
  { NoFile, Node("special"), Node("denied"), File(Blob("garbled")), File(Blob("blank")),
    Doc(<<On>>), Doc(<<Off>>), Doc(<<Silent>>), Doc(<<On, Off>>), Doc(<<Azure>>),
    Doc(<< <<"delegate", Blob("alias")>> >>),
    Doc(<<On, ForgeSec(<< <<"provider", Scalar("number", "1")>> >>)>>),
    Doc(<<Delegate(<< <<"enabled", Str("yes")>> >>), Azure>>),
    Doc(<<Delegate(<< <<"enabled", Bool("true")>>, <<"api_key_env", Str("sk-secret")>> >>)>>) }

Env(veto, optIn, keys, baseUrl, keyEnv, rc) ==
  [veto |-> veto, optIn |-> optIn, keys |-> keys, baseUrl |-> baseUrl, keyEnv |-> keyEnv, rc |-> rc]
Bare == <<"missing", "other", "missing">>
CorpEnv == Env(FALSE, FALSE, {"CORP_KEY"}, "", "", Bare)
Envs == { Env(FALSE, FALSE, {}, "", "", Bare), CorpEnv,
          Env(TRUE, TRUE, {"MOONSHOT_API_KEY", "CORP_KEY"}, "", "", Bare),
          Env(FALSE, FALSE, {"MOONSHOT_API_KEY", "CORP_KEY"}, "", "", Bare),
          Env(FALSE, FALSE, {"KIMI_API_KEY"}, "env", "", <<"other", "export", "missing">>),
          Env(FALSE, TRUE, {"CORP_KEY"}, "", "CORP_KEY", Bare),
          Env(FALSE, TRUE, {"MOONSHOT_API_KEY"}, "", "corp_key", Bare) }

Install(shim, venv, systemYaml, openai) ==
  [shim |-> shim, venv |-> venv, systemYaml |-> systemYaml, openai |-> openai]
Full == Install(TRUE, "ready", FALSE, TRUE)
Stale == Install(TRUE, "no-pyyaml", FALSE, TRUE)
Installs == { Full, Stale, Install(TRUE, "no-pyyaml", TRUE, TRUE), Install(FALSE, "absent", FALSE, FALSE),
              Install(TRUE, "ready", TRUE, FALSE), Install(TRUE, "absent", TRUE, FALSE) }

Projects == { NoFile, File(Blob("garbled")), Doc(<<Azure>>),
              Doc(<<ForgeSec(<< <<"provider", Str("github")>> >>)>>),
              Doc(<<ForgeSec(<< <<"provider", Str("auto")>> >>)>>),
              Doc(<<ForgeSec(<< <<"provider", Str("gitlab")>> >>)>>) }
Hosts == {"", "github.com", "GitHub.com", "corp-github.com", "dev.azure.com", "corp.example"}

\* One fault, or the pairs of which one check skips what another reports.
FaultSets == {{f} : f \in Faults} \cup
  { {}, {"az logged out", "no PAT"}, {"no identity", "push refused"}, {"no objects", "push refused"},
    {"no gh", "no identity"} }

Some(tasks, configs, envs, installs, projects, hosts, loaders, forcedBy, faultSets, systems, subsets) ==
  [task : tasks, config : configs, env : envs, machine : installs, project : projects,
   host : hosts, loader : loaders, forced : forcedBy, faults : faultSets, os : systems, only : subsets]

Delegations == Some({"delegate"}, MCConfigs, Envs, Installs, {NoFile}, {""}, {TRUE},
                    {""}, {{}}, {"Linux"}, {<< >>})
Resolutions == Some({"forge"}, MCConfigs, {CorpEnv}, Installs, Projects, Hosts, BOOLEAN,
                    {""}, {{}}, {"Linux"}, {<< >>})
Forcings == Some({"forge", "doctor"}, {NoFile, Doc(<<Azure>>)}, {CorpEnv}, {Full, Stale}, Projects,
                 {"", "github.com"}, {TRUE}, {"github", "gitlab"}, {{}}, {"Linux"}, {<< >>})
Diagnoses == Some({"doctor"}, {Doc(<<On>>)}, {CorpEnv}, {Full}, {NoFile, Doc(<<Azure>>)},
                  {"", "github.com", "dev.azure.com"}, {TRUE}, {""}, FaultSets, {"Darwin"}, {<< >>})
Interpreters == Some({"doctor"}, {NoFile, Doc(<<On>>)}, {CorpEnv}, Installs, Projects,
                     {"github.com"}, {TRUE}, {""}, {{}}, {"Linux"}, {<< >>})
Preflights == Some({"doctor"}, {NoFile, Doc(<<On, Azure>>)}, {CorpEnv}, {Full}, {NoFile}, {"github.com"}, {TRUE},
                   {""}, {{}, {"no identity"}}, {"Linux"}, {<<"forge", "delegate-gate">>, <<"nothing">>})
MCScenarios == Delegations \cup Resolutions \cup Forcings \cup Diagnoses
               \cup Interpreters \cup Preflights
============================================================================
