----------------------------- MODULE Delegation -----------------------------
(***************************************************************************)
(* Delegated reads: a skill asks the shell gate (delegate-gate.sh) whether *)
(* it may delegate, and adlc-read sends file contents to the configured    *)
(* endpoint (tools/delegate/_common).  The machine config is read once by  *)
(* the gate's probe and twice by the call, and an operator may save it at  *)
(* any moment in between, by replacing the file or by writing it in place. *)
(***************************************************************************)
EXTENDS MachineConfig, FiniteSets

CONSTANTS
  Configs,     \* the files an operator leaves at the config path
  MaxSaves     \* bound: how many times the operator saves the config

ASSUME MaxSavesAssumption == MaxSaves \in Nat
ASSUME ConfigsAssumption == \A f \in Configs : f.node \in Nodes

VARIABLES
  config,      \* the file at the config path
  saving,      \* the file an in-place save is still writing, or Idle
  saves,       \* how many saves have begun
  machine,     \* [shim, venv, systemYaml, openai]: what install.sh left behind
  env,         \* the environment of the shell, inherited by every command
  gate,        \* [rc, reason, answered] of the gate check, or Unset
  pc,          \* where the skill is
  args,        \* the flags of the call
  provider,    \* what resolve_provider answered, or Unset
  sent,        \* [endpoint, key] the contents were sent to, or Unset
  result,      \* how the call ended
  seen         \* history: the files the path held since the gate was asked

configVars == <<config, saving, saves>>
callVars   == <<gate, pc, args, provider, sent, result>>
delegationVars == <<config, saving, saves, machine, env, seen, callVars>>

Unset == [unset |-> TRUE]
Idle  == NoFile

\* ------------------------------------------------------- config and cascade

DefaultKeyVar == "MOONSHOT_API_KEY"
LegacyKeyVars == {DefaultKeyVar, "KIMI_API_KEY"}
DefaultUrl    == "moonshot"

\* Names of variables are UPPER_SNAKE or lower_snake; any other value that
\* appears in these configs is a key, or a string no variable could be named.
UpperNames == LegacyKeyVars \cup {"CORP_KEY"}
LowerNames == {"corp_key"}
LooksLikeKey(value) == value # "" /\ value \notin UpperNames \cup LowerNames

Cfg(malformed, keys) == [malformed |-> malformed, keys |-> keys]

ParseDelegateConfig(file, yaml) ==
  LET o == Load(file, yaml)
  IN  IF o.kind = "malformed" \/ (o.kind = "parsed" /\ DelegateFault(o.document))
      THEN Cfg(TRUE, << >>)
      ELSE Cfg(FALSE, DelegateSection(o.document))

Written(cfg, key) == IF key \in DOMAIN cfg.keys THEN cfg.keys[key] ELSE ""

\* (mutant) the veto of the environment is left to the gate.
DelegationEnabledNoVeto(cfg, e) ==
  /\ ~cfg.malformed
  /\ \/ e.optIn
     \/ Written(cfg, "enabled") = "true"
     \/ Written(cfg, "enabled") = "" /\ e.keys \cap LegacyKeyVars # {}

\* delegation_enabled: the veto, then a config that cannot be used, then the
\* opt-in of the environment, then what the config says, then a legacy key.
DelegationEnabled(cfg, e) ==
  /\ ~e.veto
  /\ ~cfg.malformed
  /\ \/ e.optIn
     \/ Written(cfg, "enabled") = "true"
     \/ Written(cfg, "enabled") = "" /\ e.keys \cap LegacyKeyVars # {}

FirstOf(values) == LET given == {i \in DOMAIN values : values[i] # ""}
                   IN  values[CHOOSE i \in given : \A j \in given : i <= j]

\* resolve_provider: flag, then environment, then config, then the default;
\* a malformed config is an empty one here.
ApiKeyEnv(cfg, e) == FirstOf(<<e.keyEnv, Written(cfg, "api_key_env"), DefaultKeyVar>>)

ProviderRefused(cfg, e) ==
  \/ LooksLikeKey(Written(cfg, "api_key_env"))
  \/ ApiKeyEnv(cfg, e) \notin UpperNames

ResolveProvider(cfg, e, flagUrl) ==
  [endpoint |-> FirstOf(<<flagUrl, e.baseUrl, Written(cfg, "base_url"), DefaultUrl>>),
   keyVar   |-> ApiKeyEnv(cfg, e),
   enabled  |-> DelegationEnabled(cfg, e),
   source   |-> CASE flagUrl # ""           -> "flags"
                  [] flagUrl = "" /\ e.baseUrl # "" -> "env"
                  [] flagUrl = "" /\ e.baseUrl = "" /\ DOMAIN cfg.keys # {} -> "config"
                  [] OTHER                  -> "defaults"]

\* _read_key_from_rc: the first rc file with a usable export line decides; one
\* that is missing, not a regular file or badly quoted is passed over.
RcExports(e) == \E i \in DOMAIN e.rc : e.rc[i] = "export"

\* resolve_key: the variable, or for the default variable an rc file.
KeyFound(keyVar, e) == keyVar \in e.keys \/ (keyVar = DefaultKeyVar /\ RcExports(e))

\* (mutant) the gate stops at the cascade and does not look for the key.
GateVerdictCascadeOnly(cfg, e) ==
  CASE e.veto -> "disabled-via-env"
    [] ~e.veto /\ (cfg.malformed \/ Written(cfg, "enabled") = "false") -> "disabled-via-config"
    [] OTHER -> IF DelegationEnabled(cfg, e) THEN "ok" ELSE "not-opted-in"

\* resolve_gate_verdict: the cascade decides, the rest labels its answer.
GateVerdict(cfg, e) ==
  CASE ~DelegationEnabled(cfg, e) /\ e.veto -> "disabled-via-env"
    [] ~DelegationEnabled(cfg, e) /\ ~e.veto /\ (cfg.malformed \/ Written(cfg, "enabled") = "false")
         -> "disabled-via-config"
    [] ~DelegationEnabled(cfg, e) /\ ~e.veto /\ ~cfg.malformed /\ Written(cfg, "enabled") # "false"
         -> "not-opted-in"
    [] OTHER -> IF ProviderRefused(cfg, e) \/ ~KeyFound(ApiKeyEnv(cfg, e), e)
                THEN "disabled-via-config" ELSE "ok"

\* What adlc-read makes of the config now: its shim runs the venv's python.
CfgNow == ParseDelegateConfig(config, machine.venv = "ready")

\* ------------------------------------------------------------ state and Init

Venvs     == {"absent", "no-pyyaml", "ready"}
Machines  == [shim: BOOLEAN, venv: Venvs, systemYaml: BOOLEAN, openai: BOOLEAN]
RcFiles   == {"missing", "export", "other"}
FlagUrls  == {"", "flag"}
Args      == [url: FlagUrls, readable: BOOLEAN, dryRun: BOOLEAN]
Verdicts  == {"ok", "disabled-via-env", "disabled-via-config", "not-opted-in"}
Results   == {"none", "direct read", "no files", "dry run", "refused", "no key",
              "crashed", "failed", "printed"}

DelegationInit ==
  /\ saving = Idle /\ saves = 0
  /\ gate = Unset /\ pc = "start" /\ args = Unset /\ provider = Unset
  /\ sent = Unset /\ result = "none" /\ seen = {}

\* ----------------------------------------- the operator's editor (external)

Holds(file) == config' = file /\ seen' = seen \cup {file}

Replace ==
  /\ saving = Idle /\ saves < MaxSaves
  /\ \E f \in Configs \ {config} : Holds(f)
  /\ saves' = saves + 1
  /\ UNCHANGED <<saving, machine, env, callVars>>

\* An editor that truncates the file and writes it: until it is done the path
\* holds a document that says nothing.
SaveInPlace ==
  /\ saving = Idle /\ saves < MaxSaves /\ config.node = "regular"
  /\ \E f \in Configs \ {config} : f.node = "regular" /\ saving' = f
  /\ Holds(File(Blob("blank")))
  /\ saves' = saves + 1
  /\ UNCHANGED <<machine, env, callVars>>

SaveDone ==
  /\ saving # Idle
  /\ Holds(saving) /\ saving' = Idle
  /\ UNCHANGED <<saves, machine, env, callVars>>

\* ------------------------------------------------------- the gate of a skill

Answer(rc, reason, answered) == [rc |-> rc, reason |-> reason, answered |-> answered]
NoAnswer == Answer(1, "not-opted-in", FALSE)

\* (mutant) a probe that answered is taken for one that granted.
GateAnswerAnyVerdict ==
  IF ~machine.shim THEN Answer(2, "no-binary", FALSE)
  ELSE IF env.veto THEN Answer(1, "disabled-via-env", FALSE)
  ELSE IF machine.venv = "absent" THEN NoAnswer
  ELSE Answer(0, GateVerdict(CfgNow, env), TRUE)

\* adlc_delegate_gate_check: no binary, the veto, then the probe, whose
\* verdict is taken only when the command answered at all.
GateAnswer ==
  CASE ~machine.shim                                  -> Answer(2, "no-binary", FALSE)
    [] machine.shim /\ env.veto                       -> Answer(1, "disabled-via-env", FALSE)
    [] machine.shim /\ ~env.veto /\ machine.venv = "absent" -> NoAnswer
    [] OTHER -> LET v == GateVerdict(CfgNow, env)
                IN  Answer(IF v = "ok" THEN 0 ELSE 1, v, TRUE)

Asked(answer) ==
  /\ pc = "start"
  /\ gate' = answer /\ pc' = "gated" /\ seen' = {config}
  /\ UNCHANGED <<configVars, machine, env, args, provider, sent, result>>

GateCheck == Asked(GateAnswer)

\* The probe is bounded by timeout(1): one that does not answer is a refusal.
GateTimeout == machine.shim /\ ~env.veto /\ Asked(NoAnswer)

Ended(how) == pc' = "done" /\ result' = how

\* A gate that withholds delegation sends the skill to the files themselves.
ReadDirectly ==
  /\ pc = "gated" /\ gate.rc # 0
  /\ Ended("direct read")
  /\ UNCHANGED <<configVars, machine, env, seen, gate, args, provider, sent>>

\* ------------------------------------------------------------ adlc-read main

\* Started by a gate that granted it, by a stale vendored copy of the gate, or
\* by hand: the CLI cannot tell.  Without files, or dry, it ends here.
StartCall ==
  /\ pc = "gated" /\ machine.shim
  /\ \E a \in Args :
       /\ args' = a
       /\ CASE machine.venv = "absent" -> Ended("crashed")
            [] machine.venv # "absent" /\ ~a.readable -> Ended("no files")
            [] machine.venv # "absent" /\ a.readable /\ a.dryRun -> Ended("dry run")
            [] OTHER -> pc' = "require" /\ UNCHANGED result
  /\ UNCHANGED <<configVars, machine, env, seen, gate, provider, sent>>

\* pack_corpus: a file that was readable is gone when it is opened.
FileVanishes ==
  /\ pc = "require" /\ Ended("no files")
  /\ UNCHANGED <<configVars, machine, env, seen, gate, args, provider, sent>>

\* require_delegation_enabled: the first read of the config.
Require ==
  /\ pc = "require"
  /\ IF DelegationEnabled(CfgNow, env) THEN pc' = "resolve" /\ UNCHANGED result
                                       ELSE Ended("refused")
  /\ UNCHANGED <<configVars, machine, env, seen, gate, args, provider, sent>>

\* resolve_provider: the second read; provider.enabled is not looked at.
Resolve ==
  /\ pc = "resolve"
  /\ IF ProviderRefused(CfgNow, env)
     THEN Ended("refused") /\ UNCHANGED provider
     ELSE /\ provider' = ResolveProvider(CfgNow, env, args.url)
          /\ pc' = "client" /\ UNCHANGED result
  /\ UNCHANGED <<configVars, machine, env, seen, gate, args, sent>>

\* (mutant) the key is looked up in the config once more.
TransmitRereads(endpoint, keyVar) ==
  sent' = [endpoint |-> endpoint,
           keyVar |-> IF ProviderRefused(CfgNow, env) THEN keyVar ELSE ApiKeyEnv(CfgNow, env)]

Transmit(endpoint, keyVar) == sent' = [endpoint |-> endpoint, keyVar |-> keyVar]

\* get_client: the key is resolved before the client library is imported.
GetClient ==
  /\ pc = "client"
  /\ CASE ~KeyFound(provider.keyVar, env) -> Ended("no key")
       [] KeyFound(provider.keyVar, env) /\ ~machine.openai -> Ended("crashed")
       [] OTHER -> pc' = "send" /\ UNCHANGED result
  /\ UNCHANGED <<configVars, machine, env, seen, gate, args, provider, sent>>

Responses == [choices: BOOLEAN, finish: {"stop", "length", "content_filter"}, blank: BOOLEAN]

\* complete: a status error, an unreachable endpoint, no choices, a completion
\* cut off at the budget even with content, and an empty one all fail.
Usable(r) == r.choices /\ r.finish # "length" /\ ~r.blank

Send ==
  /\ pc = "send"
  /\ Transmit(provider.endpoint, provider.keyVar)
  /\ \/ Ended("failed")
     \/ \E r \in Responses : Ended(IF Usable(r) THEN "printed" ELSE "failed")
  /\ UNCHANGED <<configVars, machine, env, seen, gate, args, provider>>

DelegationStep ==
  \/ GateCheck \/ GateTimeout \/ ReadDirectly
  \/ StartCall \/ FileVanishes \/ Require \/ Resolve \/ GetClient \/ Send

\* ---------------------------------------------------------------- properties

DelegationTypeOK ==
  /\ config.node \in Nodes
  /\ saves \in 0 .. MaxSaves
  /\ machine \in Machines
  /\ gate # Unset => /\ gate.rc \in 0 .. 2 /\ gate.reason \in Verdicts \cup {"no-binary"}
                     /\ (gate.rc = 0) = (gate.reason = "ok")
  /\ pc \in {"start", "gated", "require", "resolve", "client", "send", "done"}
  /\ args # Unset => args \in Args
  /\ sent # Unset => /\ sent = [endpoint |-> sent.endpoint, keyVar |-> sent.keyVar]
                     /\ sent.endpoint # "" /\ sent.keyVar \in UpperNames
  /\ result \in Results /\ (pc = "done") = (result # "none")

CfgOf(file) == ParseDelegateConfig(file, machine.venv = "ready")

\* The documented precedence, as a list of arms of which the first that
\* applies decides.
Arms(cfg) == << <<env.veto, FALSE>>, <<cfg.malformed, FALSE>>, <<env.optIn, TRUE>>,
                <<Written(cfg, "enabled") = "false", FALSE>>,
                <<Written(cfg, "enabled") = "true", TRUE>>,
                <<env.keys \cap LegacyKeyVars # {}, TRUE>>, <<TRUE, FALSE>> >>
Consents(cfg) == LET arms == Arms(cfg)
                     applies == {i \in DOMAIN arms : arms[i][1]}
                 IN  arms[CHOOSE i \in applies : \A j \in applies : i <= j][2]

\* Contents leave the machine only if, at some moment since the gate was asked,
\* the path held a file that consents by the documented precedence: the veto
\* and a config that cannot be used stop a call no gate has stopped.
SentByConsent == sent # Unset => \E f \in seen : Consents(CfgOf(f))

\* The key that goes out with the contents is the one the same read of the
\* config named for that endpoint, however the file is edited during the call.
KeyOfItsEndpoint ==
  sent # Unset =>
    \E f \in seen : LET p == ResolveProvider(CfgOf(f), env, args.url)
                    IN  sent = [endpoint |-> p.endpoint, keyVar |-> p.keyVar]

\* The probe shares the call's resolution: over a config nobody touches, a call
\* the gate granted is not refused, and one it withheld on the probe's word
\* sends nothing even when it is made anyway.
GateAgreesWithCall ==
  (gate # Unset /\ Cardinality(seen) = 1) =>
    /\ gate.rc = 0 => result \notin {"refused", "no key"}
    /\ (gate.answered /\ gate.rc # 0) => sent = Unset

============================================================================
