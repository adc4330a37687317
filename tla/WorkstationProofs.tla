-------------------------- MODULE WorkstationProofs --------------------------
(***************************************************************************)
(* Proofs about one workstation: what a delegated read may send and with   *)
(* which key, that the gate and the call agree, that the consumers of one  *)
(* config judge it alike, and what a clean doctor run means.  For any      *)
(* configs, environments, machines and repositories, however often the     *)
(* config is saved and however the saves fall between the steps.           *)
(***************************************************************************)
EXTENDS Workstation, FiniteSetTheorems, TLAPS

\* The parts of a workstation that a step may leave alone.
facts == <<machine, env, repoVars, machineFacts, task>>

\* What is there, where the path's files come from, and what no step changes.
LEMMA StepKinds ==
  ASSUME [Next]_vars
  PROVE  /\ UNCHANGED facts
         /\ \/ Editor /\ UNCHANGED <<callVars, forgeVars, doctorVars>>
            \/ DelegationStep /\ UNCHANGED <<configVars, forgeVars, doctorVars>>
            \/ ForgeNext /\ UNCHANGED <<delegationVars, doctorVars>>
            \/ DoctorNext /\ UNCHANGED <<delegationVars, forgeVars>>
            \/ UNCHANGED <<delegationVars, forgeVars, doctorVars>>
<1> USE DEF facts, repoVars, machineFacts, delegationVars, configVars, callVars, forgeVars, doctorVars
<1>1. CASE Editor /\ UNCHANGED <<forgeVars, doctorVars, task>>
  BY <1>1 DEF Editor, Replace, SaveInPlace, SaveDone
<1>2. CASE DelegationStep /\ UNCHANGED <<forgeVars, doctorVars, task>>
  BY <1>2 DEF DelegationStep, GateCheck, GateTimeout, Asked, ReadDirectly, StartCall,
              FileVanishes, Require, Resolve, GetClient, Send
<1>3. CASE ForgeNext /\ UNCHANGED <<delegationVars, doctorVars, task>>
  BY <1>3 DEF ForgeNext, ForgeStart, ForgePython
<1>4. CASE DoctorNext /\ UNCHANGED <<delegationVars, forgeVars, task>>
  BY <1>4 DEF DoctorNext, RejectSubset, PassOver, RunCheck, DeleteProbe, Verdict
<1>5. CASE UNCHANGED vars
  BY <1>5 DEF vars
<1> QED
  BY <1>1, <1>2, <1>3, <1>4, <1>5 DEF Next, Delegating, Resolving, Diagnosing

\* -------------------------------------------------- 1. the steps of a call

\* What the files that the path held since the gate was asked must include, for
\* the call to be where it is: one that consents, one that names the endpoint
\* and the key together, one whose key was fit for use.
Consented  == \E f \in seen : DelegationEnabled(CfgOf(f), env)
Named(p)   == \E f \in seen : LET q == ResolveProvider(CfgOf(f), env, args.url)
                              IN  p.endpoint = q.endpoint /\ p.keyVar = q.keyVar
Fit(p)     == \E f \in seen : ~ProviderRefused(CfgOf(f), env) /\ p.keyVar = ApiKeyEnv(CfgOf(f), env)
Unfit      == \E f \in seen : ~DelegationEnabled(CfgOf(f), env) \/ ProviderRefused(CfgOf(f), env)
Keyless    == \E f \in seen : ~KeyFound(ApiKeyEnv(CfgOf(f), env), env)
Granting   == \E f \in seen : GateVerdict(CfgOf(f), env) = "ok"
Withheld   == \E f \in seen : GateVerdict(CfgOf(f), env) # "ok"

CallInv ==
  /\ pc = "start" => gate = Unset
  /\ pc \in {"start", "gated"} => sent = Unset /\ result = "none"
  /\ pc # "start" => config \in seen
  /\ IsFiniteSet(seen)
  /\ pc \in {"resolve", "client", "send"} => Consented
  /\ pc \in {"client", "send"} => Named(provider) /\ Fit(provider)
  /\ pc = "send" => KeyFound(provider.keyVar, env)
  /\ sent # Unset => /\ sent = [endpoint |-> sent.endpoint, keyVar |-> sent.keyVar]
                     /\ Consented /\ Named(sent) /\ Fit(sent) /\ KeyFound(sent.keyVar, env)
  /\ result = "refused" => Unfit
  /\ result = "no key" => Keyless
  /\ (gate # Unset /\ gate.rc = 0) => Granting
  /\ (gate # Unset /\ gate.answered /\ gate.rc # 0) => Withheld

\* A file that was seen stays seen: what it bore witness to stays true.
LEMMA WitnessesStay ==
  ASSUME seen \subseteq seen', UNCHANGED <<machine, env, args>>
  PROVE  /\ Consented => Consented'
         /\ Unfit => Unfit'
         /\ Keyless => Keyless'
         /\ Granting => Granting'
         /\ Withheld => Withheld'
         /\ \A p : Named(p) => Named(p)'
         /\ \A p : Fit(p) => Fit(p)'
BY DEF Consented, Unfit, Keyless, Granting, Withheld, Named, Fit, CfgOf

\* Before the gate is asked nothing has been seen, sent or answered.
LEMMA CallInvInit == Init => CallInv
BY FS_EmptySet DEF Init, DelegationInit, CallInv, Unset

\* The editor leaves one more file behind, and the call where it is.
LEMMA EditorKeeps ==
  ASSUME CallInv, Editor, UNCHANGED <<machine, env>>
  PROVE  CallInv'
<1>1. UNCHANGED <<gate, pc, args, provider, sent, result, env>>
  BY DEF Editor, Replace, SaveInPlace, SaveDone, callVars
<1>2. PICK f : Holds(f)
  BY DEF Editor, Replace, SaveInPlace, SaveDone
<1>3. seen' = seen \cup {f} /\ config' = f
  BY <1>2 DEF Holds
<1>4. IsFiniteSet(seen')
  BY <1>3, FS_AddElement DEF CallInv
<1>5. /\ Consented => Consented'
      /\ Unfit => Unfit'
      /\ Keyless => Keyless'
      /\ Granting => Granting'
      /\ Withheld => Withheld'
      /\ \A p : Named(p) => Named(p)'
      /\ \A p : Fit(p) => Fit(p)'
  BY <1>1, <1>3, WitnessesStay
<1>6. /\ pc \in {"client", "send"} => Named(provider)' /\ Fit(provider)'
      /\ sent # Unset => Named(sent)' /\ Fit(sent)'
  BY <1>1, <1>5 DEF CallInv
<1> QED
  BY <1>1, <1>3, <1>4, <1>5, <1>6 DEF CallInv

\* A step of the call that neither saves nor asks the gate: what was seen and
\* the gate's answer stay, so only what the step itself touches is in question.
still == <<machine, env, config, seen, gate>>

LEMMA SameWitnesses ==
  ASSUME UNCHANGED still, UNCHANGED args
  PROVE  /\ Consented' = Consented /\ Unfit' = Unfit /\ Keyless' = Keyless
         /\ Granting' = Granting /\ Withheld' = Withheld
         /\ \A p : Named(p)' = Named(p)
         /\ \A p : Fit(p)' = Fit(p)
BY DEF still, Consented, Unfit, Keyless, Granting, Withheld, Named, Fit, CfgOf

\* The gate is asked of the file that is there now.
LEMMA GateKeeps ==
  ASSUME CallInv, GateCheck \/ GateTimeout, UNCHANGED <<machine, env>>
  PROVE  CallInv'
<1>1. PICK answer : /\ Asked(answer)
                    /\ answer = GateAnswer \/ answer = NoAnswer
  BY DEF GateCheck, GateTimeout
<1>2. /\ pc = "start" /\ pc' = "gated" /\ gate' = answer /\ seen' = {config}
      /\ config' = config /\ sent' = sent /\ result' = result
  BY <1>1 DEF Asked, configVars
<1>3. sent' = Unset /\ result' = "none"
  BY <1>2 DEF CallInv
<1>4. IsFiniteSet(seen')
  BY <1>2, FS_Singleton
<1>5. CfgNow = CfgOf(config)
  BY DEF CfgNow, CfgOf
<1>6. CfgOf(config)' = CfgOf(config)
  BY <1>2 DEF CfgOf
<1>7. /\ answer.rc = 0 => GateVerdict(CfgOf(config), env) = "ok"
      /\ (answer.answered /\ answer.rc # 0) => GateVerdict(CfgOf(config), env) # "ok"
  BY <1>1, <1>5 DEF GateAnswer, NoAnswer, Answer
<1>8. /\ (gate' # Unset /\ gate'.rc = 0) => Granting'
      /\ (gate' # Unset /\ gate'.answered /\ gate'.rc # 0) => Withheld'
  BY <1>2, <1>6, <1>7 DEF Granting, Withheld
<1> QED
  BY <1>2, <1>3, <1>4, <1>8 DEF CallInv

\* The call is started, or the skill reads the files itself.
LEMMA StartKeeps ==
  ASSUME CallInv, ReadDirectly \/ StartCall
  PROVE  CallInv'
<1>1. /\ UNCHANGED <<machine, env, config, seen, gate, provider, sent>>
      /\ pc = "gated" /\ pc' \in {"require", "done"}
      /\ result' \in {"none", "direct read", "no files", "dry run", "crashed"}
  BY DEF ReadDirectly, StartCall, Ended, configVars, CallInv
<1>2. sent' = Unset
  BY <1>1 DEF CallInv
<1>3. Granting' = Granting /\ Withheld' = Withheld
  BY <1>1 DEF Granting, Withheld, CfgOf
<1> QED
  BY <1>1, <1>2, <1>3 DEF CallInv

\* Each read of the config is of the file that is there, which has been seen.
LEMMA NowSeen ==
  ASSUME CallInv, pc # "start"
  PROVE  config \in seen /\ CfgNow = CfgOf(config)
BY DEF CallInv, CfgNow, CfgOf

LEMMA RequireKeeps ==
  ASSUME CallInv, Require
  PROVE  CallInv'
<1>1. UNCHANGED still /\ UNCHANGED <<args, provider, sent>> /\ pc = "require"
  BY DEF Require, still, configVars
<1>2. config \in seen /\ CfgNow = CfgOf(config)
  BY <1>1, NowSeen
<1>3. CASE DelegationEnabled(CfgNow, env)
  <2>1. Consented /\ pc' = "resolve" /\ result' = result
    BY <1>2, <1>3 DEF Require, Consented
  <2> QED
    BY <1>1, <2>1, SameWitnesses DEF CallInv, still
<1>4. CASE ~DelegationEnabled(CfgNow, env)
  <2>1. Unfit /\ pc' = "done" /\ result' = "refused"
    BY <1>2, <1>4 DEF Require, Unfit, Ended
  <2> QED
    BY <1>1, <2>1, SameWitnesses DEF CallInv, still
<1> QED
  BY <1>3, <1>4

LEMMA ResolveKeeps ==
  ASSUME CallInv, Resolve
  PROVE  CallInv'
<1>1. UNCHANGED still /\ UNCHANGED <<args, sent>> /\ pc = "resolve" /\ Consented
  BY DEF Resolve, still, configVars, CallInv
<1>2. config \in seen /\ CfgNow = CfgOf(config)
  BY <1>1, NowSeen
<1>3. CASE ProviderRefused(CfgNow, env)
  <2>1. Unfit /\ pc' = "done" /\ result' = "refused"
    BY <1>2, <1>3 DEF Resolve, Unfit, Ended
  <2> QED
    BY <1>1, <2>1, SameWitnesses DEF CallInv, still
<1>4. CASE ~ProviderRefused(CfgNow, env)
  <2>1. /\ provider' = ResolveProvider(CfgOf(config), env, args.url)
        /\ pc' = "client" /\ result' = result
    BY <1>2, <1>4 DEF Resolve
  <2>2. Named(provider')
    BY <1>2, <2>1 DEF Named
  <2>3. provider'.keyVar = ApiKeyEnv(CfgOf(config), env)
    BY <2>1 DEF ResolveProvider
  <2>4. Fit(provider')
    BY <1>2, <1>4, <2>3 DEF Fit
  <2> QED
    BY <1>1, <2>1, <2>2, <2>4, SameWitnesses DEF CallInv, still, Named, Fit, CfgOf
<1> QED
  BY <1>3, <1>4

\* The key is looked for under the name that was resolved, and sent with the
\* endpoint it was resolved with.
LEMMA SendKeeps ==
  ASSUME CallInv, FileVanishes \/ GetClient \/ Send
  PROVE  CallInv'
<1>1. UNCHANGED still /\ UNCHANGED <<args, provider>>
  BY DEF FileVanishes, GetClient, Send, still, configVars
<1>2. CASE FileVanishes
  <2>1. sent' = sent /\ pc = "require" /\ pc' = "done" /\ result' = "no files"
    BY <1>2 DEF FileVanishes, Ended
  <2> QED
    BY <1>1, <2>1, SameWitnesses DEF CallInv, still
<1>3. CASE GetClient
  <2>1. sent' = sent /\ pc = "client" /\ Consented /\ Named(provider) /\ Fit(provider)
    BY <1>3 DEF GetClient, CallInv
  <2>2. CASE ~KeyFound(provider.keyVar, env)
    <3>1. pc' = "done" /\ result' = "no key"
      BY <1>3, <2>2 DEF GetClient, Ended
    <3>2. Keyless
      BY <2>1, <2>2 DEF Keyless, Fit
    <3> QED
      BY <1>1, <2>1, <3>1, <3>2, SameWitnesses DEF CallInv, still
  <2>3. CASE KeyFound(provider.keyVar, env)
    <3>1. \/ pc' = "done" /\ result' = "crashed"
          \/ pc' = "send" /\ result' = result
      BY <1>3, <2>3 DEF GetClient, Ended
    <3>2. Named(provider)' /\ Fit(provider)'
      BY <1>1, <2>1, SameWitnesses DEF Named, Fit, CfgOf, still
    <3> QED
      BY <1>1, <2>1, <2>3, <3>1, <3>2, SameWitnesses DEF CallInv, still
  <2> QED
    BY <2>2, <2>3
<1>4. CASE Send
  <2>1. /\ pc = "send" /\ Consented /\ Named(provider) /\ Fit(provider)
        /\ KeyFound(provider.keyVar, env)
    BY <1>4 DEF Send, CallInv
  <2>2. /\ sent' = [endpoint |-> provider.endpoint, keyVar |-> provider.keyVar]
        /\ pc' = "done" /\ result' \in {"printed", "failed"}
    BY <1>4 DEF Send, Transmit, Ended
  <2>3. Named(sent') /\ Fit(sent') /\ KeyFound(sent'.keyVar, env)
    BY <2>1, <2>2 DEF Named, Fit
  <2>4. Named(sent)' /\ Fit(sent)'
    BY <1>1, <2>3 DEF still, Named, Fit, CfgOf
  <2> QED
    BY <1>1, <2>1, <2>2, <2>3, <2>4, SameWitnesses DEF CallInv, still
<1> QED
  BY <1>2, <1>3, <1>4

LEMMA CallInvStep == CallInv /\ [Next]_vars => CallInv'
<1> SUFFICES ASSUME CallInv, [Next]_vars
             PROVE  CallInv'
  OBVIOUS
<1>1. UNCHANGED <<machine, env>>
  BY StepKinds DEF facts
<1>2. CASE Editor
  BY <1>1, <1>2, EditorKeeps
<1>3. CASE DelegationStep
  BY <1>1, <1>3, GateKeeps, StartKeeps, RequireKeeps, ResolveKeeps, SendKeeps DEF DelegationStep
<1>4. CASE UNCHANGED delegationVars
  BY <1>4, SameWitnesses DEF delegationVars, callVars, CallInv, still
<1> QED
  BY <1>2, <1>3, <1>4, StepKinds

THEOREM CallInvHolds == Spec => []CallInv
BY CallInvInit, CallInvStep, PTL DEF Spec

\* -------------------------------------------------- 2. what a call may send

\* Of the arms of the documented precedence, the one that decides is the first
\* that applies.
LEMMA FirstArm ==
  ASSUME NEW cfg, NEW n \in 1 .. 7, Arms(cfg)[n][1],
         \A m \in 1 .. n - 1 : ~Arms(cfg)[m][1]
  PROVE  Consents(cfg) = Arms(cfg)[n][2]
<1>1. DOMAIN Arms(cfg) = 1 .. 7
  BY DEF Arms
<1>2. PICK applies : applies = {i \in DOMAIN Arms(cfg) : Arms(cfg)[i][1]}
  OBVIOUS
<1>3. n \in applies /\ \A j \in applies : n <= j
  BY <1>1, <1>2
<1>4. \A i \in applies : (\A j \in applies : i <= j) => i = n
  BY <1>1, <1>2, <1>3
<1>5. (CHOOSE i \in applies : \A j \in applies : i <= j) = n
  BY <1>3, <1>4
<1> QED
  BY <1>2, <1>5 DEF Consents

\* The cascade of the code enables nothing the documented precedence forbids.
LEMMA EnabledConsents ==
  ASSUME NEW cfg, DelegationEnabled(cfg, env)
  PROVE  Consents(cfg)
<1>1. ~env.veto /\ ~cfg.malformed
  BY DEF DelegationEnabled
<1>2. ~Arms(cfg)[1][1] /\ ~Arms(cfg)[2][1]
  BY <1>1 DEF Arms
<1>3. CASE env.optIn
  <2>1. Arms(cfg)[3][1] /\ Arms(cfg)[3][2] = TRUE
    BY <1>3 DEF Arms
  <2>2. Consents(cfg) = Arms(cfg)[3][2]
    BY <1>2, <2>1, FirstArm
  <2> QED
    BY <2>1, <2>2
<1>4. CASE ~env.optIn /\ Written(cfg, "enabled") = "true"
  <2>1. ~Arms(cfg)[3][1] /\ ~Arms(cfg)[4][1]
    BY <1>4 DEF Arms
  <2>2. Arms(cfg)[5][1] /\ Arms(cfg)[5][2] = TRUE
    BY <1>4 DEF Arms
  <2>3. Consents(cfg) = Arms(cfg)[5][2]
    BY <1>2, <2>1, <2>2, FirstArm
  <2> QED
    BY <2>2, <2>3
<1>5. CASE ~env.optIn /\ Written(cfg, "enabled") = "" /\ env.keys \cap LegacyKeyVars # {}
  <2>1. ~Arms(cfg)[3][1] /\ ~Arms(cfg)[4][1] /\ ~Arms(cfg)[5][1]
    BY <1>5 DEF Arms
  <2>2. Arms(cfg)[6][1] /\ Arms(cfg)[6][2] = TRUE
    BY <1>5 DEF Arms
  <2>3. Consents(cfg) = Arms(cfg)[6][2]
    BY <1>2, <2>1, <2>2, FirstArm
  <2> QED
    BY <2>2, <2>3
<1> QED
  BY <1>3, <1>4, <1>5 DEF DelegationEnabled

\* Contents leave the machine only by consent of a file the path held since the
\* gate was asked, wherever the saves fall (require_delegation_enabled).
THEOREM SentByConsentHolds == Spec => []SentByConsent
<1>1. CallInv => SentByConsent
  BY EnabledConsents DEF CallInv, Consented, SentByConsent
<1> QED
  BY <1>1, CallInvHolds, PTL

\* The key that is sent is the one the same read of the config named for the
\* endpoint it is sent to (resolve_provider).
THEOREM KeyOfItsEndpointHolds == Spec => []KeyOfItsEndpoint
<1>1. CallInv => KeyOfItsEndpoint
  BY DEF CallInv, Named, KeyOfItsEndpoint
<1> QED
  BY <1>1, CallInvHolds, PTL

\* The verdict of the gate is the resolution of the call (resolve_gate_verdict
\* against require_delegation_enabled, resolve_provider and resolve_key).
LEMMA VerdictIsResolution ==
  ASSUME NEW cfg, NEW e
  PROVE  GateVerdict(cfg, e) = "ok"
           <=> /\ DelegationEnabled(cfg, e) /\ ~ProviderRefused(cfg, e)
               /\ KeyFound(ApiKeyEnv(cfg, e), e)
BY DEF GateVerdict, DelegationEnabled

\* Over a config nobody touches the gate and the call agree: a granted call is
\* not refused, a withheld one sends nothing.
THEOREM GateAgreesWithCallHolds == Spec => []GateAgreesWithCall
<1>1. ASSUME CallInv PROVE GateAgreesWithCall
  <2> SUFFICES ASSUME gate # Unset, Cardinality(seen) = 1
               PROVE  /\ gate.rc = 0 => result \notin {"refused", "no key"}
                      /\ (gate.answered /\ gate.rc # 0) => sent = Unset
    BY DEF GateAgreesWithCall
  <2>1. PICK f : seen = {f}
    BY <1>1, FS_Singleton DEF CallInv
  <2>2. ASSUME gate.rc = 0, result \in {"refused", "no key"} PROVE FALSE
    <3>1. GateVerdict(CfgOf(f), env) = "ok"
      BY <1>1, <2>1, <2>2 DEF CallInv, Granting
    <3>2. \/ ~DelegationEnabled(CfgOf(f), env) \/ ProviderRefused(CfgOf(f), env)
          \/ ~KeyFound(ApiKeyEnv(CfgOf(f), env), env)
      BY <1>1, <2>1, <2>2 DEF CallInv, Unfit, Keyless
    <3> QED
      BY <3>1, <3>2, VerdictIsResolution
  <2>3. ASSUME gate.answered, gate.rc # 0, sent # Unset PROVE FALSE
    <3>1. GateVerdict(CfgOf(f), env) # "ok"
      BY <1>1, <2>1, <2>3 DEF CallInv, Withheld
    <3>2. /\ DelegationEnabled(CfgOf(f), env) /\ ~ProviderRefused(CfgOf(f), env)
          /\ KeyFound(ApiKeyEnv(CfgOf(f), env), env)
      BY <1>1, <2>1, <2>3 DEF CallInv, Consented, Fit
    <3> QED
      BY <3>1, <3>2, VerdictIsResolution
  <2> QED
    BY <2>2, <2>3
<1> QED
  BY <1>1, CallInvHolds, PTL

\* --------------------------------------------- 3. the consumers of one config

\* With PyYAML at hand a file is never refused for want of it, and what is
\* parsed has no fault.
LEMMA LoadKinds ==
  ASSUME NEW file
  PROVE  LET o == Load(file, TRUE)
         IN  /\ o.kind \in {"absent", "malformed", "parsed"}
             /\ o.why # "dependency-missing"
<1>1. ParseFault(file.text) # "dependency-missing"
  BY DEF ParseFault, ConstructFault, MappingFault
<1>2. ReadFault(file) # "dependency-missing"
  BY DEF ReadFault
<1> QED
  BY <1>1, <1>2 DEF Load, Absent, Malformed, Parsed, Outcome

\* A defect of the file refuses both of its consumers, a defect of the other
\* consumer's section neither (parse_forge_config, parse_delegate_config).
THEOREM OneVerdictPerFileHolds == Spec => []OneVerdictPerFile
<1>1. OneVerdictPerFile
  <2> SUFFICES ASSUME NEW o, o = Load(config, TRUE), loader
               PROVE  /\ o.kind = "malformed"
                           => /\ ParseDelegateConfig(config, TRUE).malformed
                              /\ ParseForgeConfig(config, TRUE).error
                      /\ (o.kind = "parsed" /\ "forge" \notin DOMAIN o.document)
                           => ~ParseForgeConfig(config, TRUE).error
                      /\ (o.kind = "parsed" /\ "delegate" \notin DOMAIN o.document)
                           => ~ParseDelegateConfig(config, TRUE).malformed
    BY DEF OneVerdictPerFile
  <2>1. o.why # "dependency-missing"
    BY LoadKinds
  <2>2. ASSUME o.kind = "malformed"
        PROVE  ParseDelegateConfig(config, TRUE).malformed /\ ParseForgeConfig(config, TRUE).error
    BY <2>1, <2>2 DEF ParseDelegateConfig, ParseForgeConfig, Cfg, Refused, Section
  <2>3. ASSUME o.kind = "parsed", "forge" \notin DOMAIN o.document
        PROVE  ~ParseForgeConfig(config, TRUE).error
    BY <2>1, <2>3 DEF ParseForgeConfig, ForgeSection, Unconfigured, Section
  <2>4. ASSUME o.kind = "parsed", "delegate" \notin DOMAIN o.document
        PROVE  ~ParseDelegateConfig(config, TRUE).malformed
    BY <2>4 DEF ParseDelegateConfig, DelegateFault, Cfg
  <2> QED
    BY <2>2, <2>3, <2>4
<1> QED
  BY <1>1, PTL

\* ------------------------------------------------- 4. the repository's forge

WrittenProvider == Chosen(ParseForgeConfig(project, TRUE))

ForgeInv ==
  /\ project.node \in Nodes
  /\ "at" \in DOMAIN forge
  /\ forge.at = "python" => forced = ""
  /\ (forge.at = "done" /\ forced # "") => forge.provider = forced
  /\ (forge.at = "done" /\ forced = "" /\ loader /\ WrittenProvider # "" /\ RuleHasYaml)
       => forge.provider \in {WrittenProvider, Neither}
  /\ (forge.at = "done" /\ forced = "" /\ loader /\ WrittenProvider # "" /\ ~RuleHasYaml)
       => forge.noticed
  /\ ("pyyaml" \in DOMAIN outcome /\ IsFile(project) /\ ~RuleHasYaml)
       => outcome["pyyaml"] = "FAIL"

\* A section without keys names nothing, a doctor that has not begun knows nothing.
LEMMA NothingKnown == DOMAIN << >> = {}
<1>1. << >> \in Seq({1}) /\ Len(<< >>) = 0
  OBVIOUS
<1>2. DOMAIN << >> = 1 .. 0
  BY <1>1
<1>3. 1 .. 0 = {}
  OBVIOUS
<1> QED
  BY <1>2, <1>3

\* Only a file that can be read and parsed names a provider.
LEMMA NamedInAFile ==
  ASSUME project.node \in Nodes, loader, WrittenProvider # ""
  PROVE  /\ project.node = "regular" /\ ReadFault(project) = "none"
         /\ Load(project, TRUE).kind = "parsed"
<1>1. "provider" \notin DOMAIN << >>
  BY NothingKnown
<1>2. /\ Refused.keys = << >> /\ Unconfigured(TRUE).keys = << >>
      /\ Unconfigured(FALSE).keys = << >>
  BY DEF Refused, Unconfigured, Section
<1>3. Chosen(Refused) = "" /\ Chosen(Unconfigured(TRUE)) = "" /\ Chosen(Unconfigured(FALSE)) = ""
  BY <1>1, <1>2 DEF Chosen
<1>4. Load(project, TRUE).kind = "parsed"
  BY <1>3, LoadKinds DEF WrittenProvider, ParseForgeConfig
<1> QED
  BY <1>4 DEF Load, Absent, Malformed, Outcome, Nodes, ReadFault

LEMMA ForgeInvInit == Init => ForgeInv
<1> SUFFICES ASSUME Init PROVE ForgeInv
  OBVIOUS
<1>1. project.node \in Nodes
  BY ScenariosAssumption DEF Init, Nodes
<1>2. forge.at = "start" /\ "at" \in DOMAIN forge
  BY DEF Init, ForgeInit
<1>3. "pyyaml" \notin DOMAIN outcome
  <2>1. outcome = << >>
    BY DEF Init, DoctorInit
  <2>2. "pyyaml" \notin DOMAIN << >>
    BY NothingKnown
  <2> QED
    BY <2>1, <2>2
<1> QED
  BY <1>1, <1>2, <1>3 DEF ForgeInv

\* A file that could not be loaded for want of the parser is told and dropped.
LEMMA WantOfParser ==
  ASSUME NEW f, NEW yaml, Load(f, yaml) = Malformed("dependency-missing")
  PROVE  ParseForgeConfig(f, yaml).noticed
<1>1. Load(f, yaml).why = "dependency-missing" /\ Load(f, yaml).kind = "malformed"
  BY DEF Malformed, Outcome
<1>2. ParseForgeConfig(f, yaml) = Unconfigured(TRUE)
  BY <1>1 DEF ParseForgeConfig
<1> QED
  BY <1>2 DEF Unconfigured, Section

\* Asked without a parser, python reads a repository that named its provider as
\* one that did not, and says so; with one it takes the name.
LEMMA PythonAnswers ==
  ASSUME project.node \in Nodes, loader, WrittenProvider # "", ForgePython
  PROVE  /\ RuleHasYaml => forge'.provider \in {WrittenProvider, Neither}
         /\ ~RuleHasYaml => forge'.noticed
<1> PICK proj, mach : /\ proj = ParseForgeConfig(project, RuleHasYaml)
                      /\ mach = ParseForgeConfig(config, RuleHasYaml)
  OBVIOUS
<1>1. /\ forge'.provider = ResolveForge(proj, mach)
      /\ forge'.noticed = (proj.noticed \/ mach.noticed)
  BY DEF ForgePython, Resolves
<1>2. ASSUME RuleHasYaml PROVE forge'.provider \in {WrittenProvider, Neither}
  <2>1. Chosen(proj) = WrittenProvider
    <3>1. RuleHasYaml = TRUE
      BY <1>2 DEF RuleHasYaml
    <3> QED
      BY <3>1 DEF WrittenProvider
  <2> QED
    BY <1>1, <2>1 DEF ResolveForge
<1>3. ASSUME ~RuleHasYaml PROVE forge'.noticed
  <2>1. project.node = "regular" /\ ReadFault(project) = "none"
    BY NamedInAFile
  <2>2. Load(project, RuleHasYaml) = Malformed("dependency-missing")
    BY <1>3, <2>1 DEF Load
  <2>3. proj.noticed
    BY <2>2, WantOfParser
  <2> QED
    BY <1>1, <2>3
<1> QED
  BY <1>2, <1>3

\* What a check records leaves the results of the other checks alone.
LEMMA RecordKeeps ==
  ASSUME NEW id, NEW found, Record(id, found), NEW other, other # id
  PROVE  /\ other \in DOMAIN outcome' <=> other \in DOMAIN outcome
         /\ other \in DOMAIN outcome => outcome'[other] = outcome[other]
BY DEF Record

\* The results a doctor step adds: the check's own, or for the probed namespace
\* a pass that follows a push.
LEMMA DoctorAdds ==
  ASSUME DoctorNext
  PROVE  \/ outcome' = outcome
         \/ probe # "pushed" /\ Ready /\ Record(Current, IF Applies(Current) THEN CheckResult(Current) ELSE "SKIP")
         \/ probe = "pushed" /\ Record("reservations", "PASS")
BY DEF DoctorNext, RejectSubset, PassOver, RunCheck, DeleteProbe, Verdict

LEMMA ForgeInvStep == ForgeInv /\ [Next]_vars => ForgeInv'
<1> SUFFICES ASSUME ForgeInv, [Next]_vars PROVE ForgeInv'
  OBVIOUS
<1>1. /\ UNCHANGED <<machine, project, host, loader, forced>>
  BY StepKinds DEF facts, repoVars
<1>2. WrittenProvider' = WrittenProvider /\ RuleHasYaml' = RuleHasYaml /\ IsFile(project)' = IsFile(project)
  BY <1>1 DEF WrittenProvider, RuleHasYaml, IsFile, ParseForgeConfig
<1>3. CASE forge' = forge /\ outcome' = outcome
  BY <1>1, <1>2, <1>3 DEF ForgeInv
<1>4. CASE ForgeNext /\ outcome' = outcome
  <2>0. "at" \in DOMAIN forge'
    <3>1. ASSUME NEW answer, NEW noticed, Resolves(answer, noticed)
          PROVE  "at" \in DOMAIN forge'
      BY <3>1 DEF Resolves
    <3>2. \/ DOMAIN forge' = DOMAIN forge
          \/ \E answer, noticed : Resolves(answer, noticed)
      BY <1>4 DEF ForgeNext, ForgeStart, ForgePython
    <3> QED
      BY <3>1, <3>2 DEF ForgeInv
  <2>1. CASE ForgeStart
    <3>0. CASE forced # ""
      <4>0. Resolves(forced, FALSE)
        BY <2>1, <3>0, Zenon DEF ForgeStart
      <4>1. forge'.at = "done" /\ forge'.provider = forced
        BY <4>0 DEF Resolves
      <4> QED
        BY <1>1, <1>2, <1>4, <2>0, <3>0, <4>1 DEF ForgeInv
    <3>1. CASE forced = "" /\ (IsFile(project) \/ IsFile(config))
      <4>1. forge'.at = "python" /\ DOMAIN forge' = DOMAIN forge
        BY <2>1, <3>1 DEF ForgeStart, ForgeInv
      <4> QED
        BY <1>1, <1>2, <1>4, <3>1, <4>1 DEF ForgeInv
    <3>2. CASE forced = "" /\ ~(IsFile(project) \/ IsFile(config))
      <4>1. ~(loader /\ WrittenProvider # "")
        BY <3>2, NamedInAFile DEF ForgeInv, IsFile
      <4>2. Resolves(ShellDetect(host), FALSE)
        BY <2>1, <3>2, Zenon DEF ForgeStart
      <4>3. forge'.at = "done"
        BY <4>2 DEF Resolves
      <4> QED
        BY <1>1, <1>2, <1>4, <2>0, <3>2, <4>1, <4>3 DEF ForgeInv
    <3> QED
      BY <3>0, <3>1, <3>2
  <2>2. CASE ForgePython
    <3>1. forced = "" /\ forge'.at = "done"
      BY <2>2 DEF ForgePython, Resolves, ForgeInv
    <3> QED
      BY <1>1, <1>2, <1>4, <2>0, <2>2, <3>1, PythonAnswers DEF ForgeInv
  <2> QED
    BY <1>4, <2>1, <2>2 DEF ForgeNext
<1>5. CASE DoctorNext /\ forge' = forge
  <2>1. ASSUME "pyyaml" \in DOMAIN outcome', IsFile(project), ~RuleHasYaml
        PROVE  outcome'["pyyaml"] = "FAIL"
    <3>1. CASE outcome' = outcome
      BY <2>1, <3>1 DEF ForgeInv
    <3>2. CASE Record("reservations", "PASS")
      <4>1. /\ "pyyaml" \in DOMAIN outcome
            /\ outcome'["pyyaml"] = outcome["pyyaml"]
        BY <2>1, <3>2, RecordKeeps
      <4> QED
        BY <2>1, <4>1 DEF ForgeInv
    <3>3. CASE Record(Current, IF Applies(Current) THEN CheckResult(Current) ELSE "SKIP")
      <4>1. CASE Current = "pyyaml"
        <5>1. Record("pyyaml", CheckResult("pyyaml"))
          BY <3>3, <4>1 DEF Applies
        <5>2. CheckResult("pyyaml") = "FAIL"
          BY <2>1 DEF CheckResult, PyYaml, FailIf
        <5> QED
          BY <5>1, <5>2 DEF Record
      <4>2. CASE Current # "pyyaml"
        <5>1. /\ "pyyaml" \in DOMAIN outcome
              /\ outcome'["pyyaml"] = outcome["pyyaml"]
          BY <2>1, <3>3, <4>2, RecordKeeps
        <5> QED
          BY <2>1, <5>1 DEF ForgeInv
      <4> QED
        BY <4>1, <4>2
    <3> QED
      BY <1>5, <3>1, <3>2, <3>3, DoctorAdds
  <2> QED
    BY <1>1, <1>2, <1>5, <2>1 DEF ForgeInv
<1> QED
  BY <1>3, <1>4, <1>5, StepKinds DEF delegationVars, forgeVars, doctorVars

THEOREM ForgeInvHolds == Spec => []ForgeInv
BY ForgeInvInit, ForgeInvStep, PTL DEF Spec

\* A provider the repository wrote down is used or refused, unless the parser is
\* missing, and that is said on stderr, or the environment forces another one,
\* which is then used (adlc_forge_provider, resolve_provider, parse_forge_config).
THEOREM ProjectProviderWinsHolds == Spec => []ProjectProviderWins
<1>1. ForgeInv => ProjectProviderWins
  BY DEF ForgeInv, ProjectProviderWins, WrittenProvider
<1> QED
  BY <1>1, ForgeInvHolds, PTL

\* An override that a missing parser caused is one that the doctor's PyYAML
\* check of the same machine reports (check_pyyaml).
THEOREM OverrideIsReportedHolds == Spec => []OverrideIsReported
<1>1. ForgeInv => OverrideIsReported
  BY NamedInAFile DEF ForgeInv, OverrideIsReported, WrittenProvider, IsFile
<1> QED
  BY <1>1, ForgeInvHolds, PTL

\* ------------------------------------------------------ 5. a clean doctor run

\* What a doctor run knows while it is under way: every check of the registry
\* that was dealt with has its result, that of the machine as it is, the config
\* apart, which the operator may have saved since.
DoctorInv ==
  /\ saves \in Nat /\ (saving # Idle => saves # 0)
  /\ at \in 0 .. 14
  /\ \A i \in 1 .. at : REGISTRY[i] \in Selected => REGISTRY[i] \in DOMAIN outcome
  /\ probe = "pushed" => /\ Ready /\ Current = "reservations" /\ "reservations" \in Selected
                         /\ ReservationsBeforePush = "PASS"
  /\ "reservations" \in DOMAIN outcome => outcome["reservations"] = ReservationsBeforePush
  /\ "git-identity" \in DOMAIN outcome => outcome["git-identity"] = GitIdentity
  /\ ("forge" \in DOMAIN outcome /\ saves = 0) => outcome["forge"] = CheckForge
  /\ exit = "clean" => at = 14 /\ \A id \in DOMAIN outcome : outcome[id] # "FAIL"

LEMMA DoctorInvInit == Init => DoctorInv
<1> SUFFICES ASSUME Init PROVE DoctorInv
  OBVIOUS
<1>1. saving = Idle /\ saves = 0
  BY DEF Init, DelegationInit
<1>2. at = 0 /\ outcome = << >> /\ probe = "none" /\ exit = "running"
  BY DEF Init, DoctorInit
<1>3. \A id : id \notin DOMAIN outcome
  BY <1>2, NothingKnown
<1> QED
  BY <1>1, <1>2, <1>3 DEF DoctorInv

\* The results that do not depend on the config stay true of the machine, and
\* while nobody has saved the config, so does the forge's.
LEMMA MachineStays ==
  ASSUME DoctorInv, [Next]_vars
  PROVE  /\ ReservationsBeforePush' = ReservationsBeforePush
         /\ GitIdentity' = GitIdentity
         /\ Selected' = Selected
         /\ saves' \in Nat /\ (saving' # Idle => saves' # 0)
         /\ saves' = 0 => saves = 0 /\ CheckForge' = CheckForge
<1>1. UNCHANGED <<machine, project, host, loader, forced, faults, only>>
  BY StepKinds DEF facts, repoVars, machineFacts
<1>2. saves' \in Nat /\ (saving' # Idle => saves' # 0) /\ (saves' = 0 => saves = 0 /\ config' = config)
  <2>1. CASE Editor
    BY <2>1 DEF Editor, Replace, SaveInPlace, SaveDone, DoctorInv
  <2>2. CASE UNCHANGED configVars
    BY <2>2 DEF configVars, DoctorInv
  <2> QED
    BY <2>1, <2>2, StepKinds DEF delegationVars, configVars
<1>3. /\ ReservationsBeforePush' = ReservationsBeforePush
      /\ GitIdentity' = GitIdentity
  BY <1>1 DEF ReservationsBeforePush, NoProbeObject, GitIdentity, Git, Has, HasRemote
<1>4. Selected' = Selected
  BY <1>1 DEF Selected, Requested
<1>5. ASSUME config' = config PROVE CheckForge' = CheckForge
  <2>1. ForgeVerdict' = ForgeVerdict
    BY <1>1, <1>5 DEF ForgeVerdict, IsFile, ResolveForge, ParseForgeConfig, RuleHasYaml
  <2>2. PatSet' = PatSet
    BY <1>1 DEF PatSet, ParseForgeConfig, RuleHasYaml, Has
  <2> QED
    BY <1>1, <2>1, <2>2 DEF CheckForge, Git, Has, HasRemote
<1> QED
  BY <1>2, <1>3, <1>4, <1>5

\* The doctor's own steps.
LEMMA DoctorKeeps ==
  ASSUME DoctorInv, DoctorNext, UNCHANGED <<machineFacts, configVars, machine, repoVars>>
  PROVE  /\ at' \in 0 .. 14
         /\ \A i \in 1 .. at' : REGISTRY[i] \in Selected => REGISTRY[i] \in DOMAIN outcome'
         /\ probe' = "pushed" => /\ exit' = "running" /\ Requested \subseteq Ids /\ at' < 14
                                 /\ REGISTRY[at' + 1] = "reservations" /\ "reservations" \in Selected
                                 /\ ReservationsBeforePush = "PASS"
         /\ "reservations" \in DOMAIN outcome' => outcome'["reservations"] = ReservationsBeforePush
         /\ "git-identity" \in DOMAIN outcome' => outcome'["git-identity"] = GitIdentity
         /\ ("forge" \in DOMAIN outcome' /\ saves = 0) => outcome'["forge"] = CheckForge
         /\ exit' = "clean" => at' = 14 /\ \A id \in DOMAIN outcome' : outcome'[id] # "FAIL"
<1>1. Len(REGISTRY) = 14
  BY DEF REGISTRY
<1>2. ASSUME RejectSubset \/ Verdict PROVE /\ UNCHANGED <<at, outcome, probe>> /\ probe # "pushed"
                                           /\ exit' = "clean" => at = 14 /\ \A id \in DOMAIN outcome : outcome[id] # "FAIL"
  BY <1>1, <1>2 DEF RejectSubset, Verdict, DoctorInv, Ready
<1>3. CASE RejectSubset \/ Verdict
  BY <1>2, <1>3 DEF DoctorInv
<1>4. CASE PassOver
  <2>1. /\ at \in 0 .. 13 /\ at' = at + 1 /\ REGISTRY[at + 1] \notin Selected
        /\ UNCHANGED <<outcome, probe, exit>> /\ exit = "running"
    BY <1>1, <1>4 DEF PassOver, DoctorInv, Ready, Current
  <2>2. probe # "pushed"
    BY <2>1 DEF DoctorInv, Current
  <2>3. \A i \in 1 .. at' : REGISTRY[i] \in Selected => REGISTRY[i] \in DOMAIN outcome'
    BY <2>1 DEF DoctorInv
  <2> QED
    BY <2>1, <2>2, <2>3 DEF DoctorInv
<1>5. CASE DeleteProbe
  <2>1. /\ at \in 0 .. 13 /\ REGISTRY[at + 1] = "reservations" /\ ReservationsBeforePush = "PASS"
        /\ Record("reservations", "PASS") /\ at' = at + 1 /\ probe' # "pushed" /\ exit' = exit /\ exit = "running"
    BY <1>1, <1>5 DEF DeleteProbe, DoctorInv, Ready, Current
  <2>2. DOMAIN outcome' = DOMAIN outcome \cup {"reservations"} /\ outcome'["reservations"] = "PASS"
    BY <2>1 DEF Record
  <2>3. /\ "git-identity" \in DOMAIN outcome => outcome'["git-identity"] = outcome["git-identity"]
        /\ "forge" \in DOMAIN outcome => outcome'["forge"] = outcome["forge"]
    BY <2>1, RecordKeeps
  <2>4. \A i \in 1 .. at' : REGISTRY[i] \in Selected => REGISTRY[i] \in DOMAIN outcome'
    BY <2>1, <2>2 DEF DoctorInv
  <2> QED
    BY <2>1, <2>2, <2>3, <2>4 DEF DoctorInv
<1>6. CASE RunCheck
  <2> PICK found : found = IF Applies(Current) THEN CheckResult(Current) ELSE "SKIP"
    OBVIOUS
  <2>1. Ready /\ exit' = exit /\ at \in 0 .. 13 /\ probe # "pushed" /\ Current \in Selected
    BY <1>1, <1>6 DEF RunCheck, DoctorInv, Ready
  <2>2. /\ Current = "reservations" => found = ReservationsBeforePush
        /\ Current = "git-identity" => found = GitIdentity
        /\ Current = "forge" => found = CheckForge
    BY DEF Applies, CheckResult
  <2>3. CASE Current = "reservations" /\ found = "PASS"
    <3>1. probe' = "pushed" /\ UNCHANGED <<at, outcome>>
      BY <1>6, <2>3 DEF RunCheck
    <3> QED
      BY <1>1, <2>1, <2>2, <2>3, <3>1 DEF DoctorInv, Ready, Current
  <2>4. CASE ~(Current = "reservations" /\ found = "PASS")
    <3>1. Record(Current, found) /\ at' = at + 1 /\ probe' = probe
      BY <1>6, <2>4 DEF RunCheck
    <3>2. DOMAIN outcome' = DOMAIN outcome \cup {Current} /\ outcome'[Current] = found
      BY <3>1 DEF Record
    <3>3. \A id : id # Current /\ id \in DOMAIN outcome => outcome'[id] = outcome[id]
      BY <3>1, RecordKeeps
    <3>4. \A i \in 1 .. at' : REGISTRY[i] \in Selected => REGISTRY[i] \in DOMAIN outcome'
      BY <2>1, <3>1, <3>2 DEF DoctorInv, Current
    <3>5. exit' # "clean"
      BY <2>1 DEF Ready
    <3> QED
      BY <2>1, <2>2, <3>1, <3>2, <3>3, <3>4, <3>5 DEF DoctorInv
  <2> QED
    BY <2>3, <2>4
<1> QED
  BY <1>3, <1>4, <1>5, <1>6 DEF DoctorNext

LEMMA DoctorInvStep == DoctorInv /\ [Next]_vars => DoctorInv'
<1> SUFFICES ASSUME DoctorInv, [Next]_vars PROVE DoctorInv'
  OBVIOUS
<1>1. /\ ReservationsBeforePush' = ReservationsBeforePush
      /\ GitIdentity' = GitIdentity
      /\ Selected' = Selected
      /\ saves' \in Nat /\ (saving' # Idle => saves' # 0)
      /\ saves' = 0 => saves = 0 /\ CheckForge' = CheckForge
  BY MachineStays
<1>2. UNCHANGED <<machineFacts, machine, repoVars>> /\ Requested' = Requested
  BY StepKinds DEF facts, repoVars, machineFacts, Requested
<1>3. CASE UNCHANGED doctorVars
  BY <1>1, <1>2, <1>3 DEF doctorVars, DoctorInv, Ready, Current
<1>4. CASE DoctorNext /\ UNCHANGED delegationVars
  <2>1. UNCHANGED configVars
    BY <1>4 DEF delegationVars, configVars
  <2>2. Len(REGISTRY) = 14
    BY DEF REGISTRY
  <2> QED
    BY <1>1, <1>2, <1>4, <2>1, <2>2, DoctorKeeps DEF DoctorInv, Ready, Current
<1> QED
  BY <1>3, <1>4, StepKinds DEF delegationVars

THEOREM DoctorInvHolds == Spec => []DoctorInv
BY DoctorInvInit, DoctorInvStep, PTL DEF Spec

\* A full doctor run that ends with 0, over a config nobody saved, means that an
\* allocation can reserve its id and that a pull-request operation finds its
\* forge, its command and its credentials (run_checks, main).
THEOREM CleanBillMeansWorkingHolds == Spec => []CleanBillMeansWorking
<1>1. ASSUME DoctorInv, exit = "clean", only = << >>, saves = 0
      PROVE  ReservationsBeforePush # "FAIL" /\ GitIdentity # "FAIL" /\ CheckForge # "FAIL"
  <2>1. at = 14 /\ Selected = Ids
    BY <1>1 DEF DoctorInv, Selected
  <2>2. /\ REGISTRY[6] = "forge" /\ REGISTRY[7] = "reservations" /\ REGISTRY[8] = "git-identity"
        /\ {6, 7, 8} \subseteq DOMAIN REGISTRY
    BY DEF REGISTRY
  <2>3. {"forge", "reservations", "git-identity"} \subseteq DOMAIN outcome
    BY <1>1, <2>1, <2>2 DEF DoctorInv, Ids
  <2> QED
    BY <1>1, <2>3 DEF DoctorInv
<1>2. ASSUME ReservationsBeforePush # "FAIL", GitIdentity # "FAIL", HasRemote
      PROVE  /\ ~Has("no git") /\ ~Has("no identity") /\ ~Has("read refused")
             /\ Has("push refused") => Has("no objects")
  BY <1>2 DEF ReservationsBeforePush, NoProbeObject, GitIdentity, Git, FailIf
<1>3. ASSUME CheckForge # "FAIL", HasRemote
      PROVE  /\ ForgeVerdict # Neither
             /\ ForgeVerdict = "github" => ~Has("no gh") /\ ~Has("gh logged out")
             /\ ForgeVerdict = "azure-devops" => ~Has("no az") /\ (~Has("az logged out") \/ PatSet)
  BY <1>3 DEF CheckForge, Git, FailIf, Neither
<1>4. DoctorInv => CleanBillMeansWorking
  BY <1>1, <1>2, <1>3 DEF CleanBillMeansWorking
<1> QED
  BY <1>4, DoctorInvHolds, PTL

\* ------------------------------------------------------ 6. type correctness

\* The gate's answers, and the check's.
LEMMA VerdictIsOne ==
  ASSUME NEW cfg, NEW e
  PROVE  GateVerdict(cfg, e) \in Verdicts
BY DEF GateVerdict, Verdicts

\* An answer of the gate: it grants exactly when its reason says so.
Answered(g) == /\ g.rc \in 0 .. 2 /\ g.reason \in Verdicts \cup {"no-binary"}
               /\ (g.rc = 0) = (g.reason = "ok")

LEMMA GateAnswers ==
  /\ Answered(GateAnswer) /\ Answered(NoAnswer)
<1>1. ASSUME NEW v \in Verdicts PROVE Answered(Answer(IF v = "ok" THEN 0 ELSE 1, v, TRUE))
  BY DEF Answered, Answer, Verdicts
<1>2. /\ Answered(Answer(2, "no-binary", FALSE)) /\ Answered(Answer(1, "disabled-via-env", FALSE))
      /\ Answered(NoAnswer)
  BY DEF Answered, Answer, NoAnswer, Verdicts
<1> QED
  BY <1>1, <1>2, VerdictIsOne DEF GateAnswer

LEMMA ChecksAnswer ==
  ASSUME NEW id \in Ids
  PROVE  CheckResult(id) \in {"PASS", "FAIL", "SKIP"}
<1>1. /\ \A c : FailIf(c) \in {"PASS", "FAIL", "SKIP"}
      /\ \A c : SkipIf(c) \in {"PASS", "FAIL", "SKIP"}
      /\ \A r \in {"PASS", "FAIL", "SKIP"} : Git(r) \in {"PASS", "FAIL", "SKIP"}
  BY DEF FailIf, SkipIf, Git
<1>2. CheckForge \in {"PASS", "FAIL", "SKIP"}
  BY <1>1 DEF CheckForge
<1>3. ReservationsBeforePush \in {"PASS", "FAIL", "SKIP"}
  BY <1>1 DEF ReservationsBeforePush
<1>4. DelegateGate \in {"PASS", "FAIL", "SKIP"}
  BY <1>1 DEF DelegateGate
<1>5. PyYaml \in {"PASS", "FAIL", "SKIP"} /\ Launchctl \in {"PASS", "FAIL", "SKIP"}
  BY <1>1 DEF PyYaml, Launchctl
<1>6. /\ SkillsSymlink \in {"PASS", "FAIL", "SKIP"} /\ AgentsSymlink \in {"PASS", "FAIL", "SKIP"}
      /\ ToolkitClean \in {"PASS", "FAIL", "SKIP"} /\ PathShims \in {"PASS", "FAIL", "SKIP"}
      /\ GhPresent \in {"PASS", "FAIL", "SKIP"} /\ GitIdentity \in {"PASS", "FAIL", "SKIP"}
      /\ Counters \in {"PASS", "FAIL", "SKIP"}
  BY <1>1 DEF SkillsSymlink, AgentsSymlink, ToolkitClean, PathShims, GhPresent, GitIdentity, Counters
<1>7. id \in {"skills-symlink", "agents-symlink", "toolkit-clean", "path-shims",
              "gh-present", "forge", "reservations", "git-identity", "delegate-gate",
              "pyyaml", "counters", "launchctl", "template-version", "claude-code"}
  BY DEF Ids, REGISTRY
<1>8. /\ SkipIf(Has("no template")) \in {"PASS", "FAIL", "SKIP"}
      /\ SkipIf(Has("no claude")) \in {"PASS", "FAIL", "SKIP"}
  BY <1>1
<1>9. /\ id = "skills-symlink" => CheckResult(id) = SkillsSymlink
      /\ id = "agents-symlink" => CheckResult(id) = AgentsSymlink
      /\ id = "toolkit-clean" => CheckResult(id) = ToolkitClean
      /\ id = "path-shims" => CheckResult(id) = PathShims
      /\ id = "gh-present" => CheckResult(id) = GhPresent
      /\ id = "forge" => CheckResult(id) = CheckForge
      /\ id = "reservations" => CheckResult(id) = ReservationsBeforePush
      /\ id = "git-identity" => CheckResult(id) = GitIdentity
      /\ id = "delegate-gate" => CheckResult(id) = DelegateGate
      /\ id = "pyyaml" => CheckResult(id) = PyYaml
      /\ id = "counters" => CheckResult(id) = Counters
      /\ id = "launchctl" => CheckResult(id) = Launchctl
      /\ id = "template-version" => CheckResult(id) = SkipIf(Has("no template"))
      /\ id = "claude-code" => CheckResult(id) = SkipIf(Has("no claude"))
  BY DEF CheckResult
<1> QED
  BY <1>2, <1>3, <1>4, <1>5, <1>6, <1>7, <1>8, <1>9, Zenon

LEMMA LeastOfFour ==
  ASSUME NEW T \in SUBSET (1 .. 4), 4 \in T
  PROVE  \E i \in T : \A j \in T : i <= j
<1>1. \A j \in T : j \in {1, 2, 3, 4}
  OBVIOUS
<1>2. CASE 1 \in T
  BY <1>1, <1>2
<1>3. CASE 1 \notin T /\ 2 \in T
  BY <1>1, <1>3
<1>4. CASE 1 \notin T /\ 2 \notin T /\ 3 \in T
  BY <1>1, <1>4
<1>5. CASE 1 \notin T /\ 2 \notin T /\ 3 \notin T
  BY <1>1, <1>5
<1> QED
  BY <1>2, <1>3, <1>4, <1>5

Given(value) == value # ""

LEMMA FirstIsGiven ==
  ASSUME NEW values, DOMAIN values = 1 .. 4, Given(values[4])
  PROVE  Given(FirstOf(values))
<1>1. 4 \in DOMAIN values
  OBVIOUS
<1>2. PICK given : given = {i \in DOMAIN values : values[i] # ""}
  OBVIOUS
<1>3. 4 \in given /\ given \in SUBSET (1 .. 4)
  BY <1>1, <1>2, Zenon DEF Given
<1>4. PICK i \in given : \A j \in given : i <= j
  BY <1>3, LeastOfFour
<1>5. PICK first : first = CHOOSE k \in given : \A j \in given : k <= j
  OBVIOUS
<1>6. first \in given
  BY <1>4, <1>5, Zenon
<1>7. Given(values[first])
  BY <1>2, <1>6, Zenon DEF Given
<1>8. FirstOf(values) = values[first]
  BY <1>2, <1>5, Zenon DEF FirstOf
<1> QED
  BY <1>7, <1>8

\* resolve_provider always comes to an endpoint, if only to the default one.
LEMMA EndpointGiven ==
  ASSUME NEW cfg, NEW e, NEW flagUrl
  PROVE  ResolveProvider(cfg, e, flagUrl).endpoint # ""
<1>1. \A a, b, c, d : DOMAIN <<a, b, c, d>> = 1 .. 4 /\ <<a, b, c, d>>[4] = d
  OBVIOUS
<1>2. Given(DefaultUrl)
  BY DEF Given, DefaultUrl
<1>3. Given(FirstOf(<<flagUrl, e.baseUrl, Written(cfg, "base_url"), DefaultUrl>>))
  BY <1>1, <1>2, FirstIsGiven
<1> QED
  BY <1>3 DEF ResolveProvider, Given

LEMMA DetectedIsKnown ==
  ASSUME NEW h
  PROVE  Detect(h) \in SUPPORTED_PROVIDERS \cup {Neither} /\ ShellDetect(h) \in SUPPORTED_PROVIDERS \cup {Neither}
BY DEF Detect, ShellDetect, SUPPORTED_PROVIDERS

LEMMA ResolvedIsKnown ==
  ASSUME NEW proj, NEW mach
  PROVE  ResolveForge(proj, mach) \in SUPPORTED_PROVIDERS \cup {Neither}
BY DetectedIsKnown DEF ResolveForge

\* The files of the path are of the known kinds, a gate that was asked answered
\* in its own terms, and a call that ended says how.
DelegationShape ==
  /\ config.node \in Nodes /\ saving.node \in Nodes
  /\ saves \in 0 .. MaxSaves /\ machine \in Machines
  /\ gate # Unset => Answered(gate)
  /\ pc \in {"start", "gated", "require", "resolve", "client", "send", "done"}
  /\ args # Unset => args \in Args
  /\ result \in Results /\ ((pc = "done") <=> (result # "none"))

LEMMA CallShape ==
  ASSUME DelegationShape, DelegationStep, UNCHANGED <<configVars, machine>>
  PROVE  DelegationShape'
<1> USE DEF DelegationShape, configVars
<1>1. ASSUME NEW answer, Asked(answer), Answered(answer) PROVE DelegationShape'
  BY <1>1 DEF Asked
<1>2. CASE GateCheck \/ GateTimeout
  BY <1>1, <1>2, GateAnswers DEF GateCheck, GateTimeout
<1>3. CASE ReadDirectly \/ FileVanishes
  BY <1>3 DEF ReadDirectly, FileVanishes, Ended, Results
<1>4. CASE StartCall
  <2>1. PICK a \in Args : args' = a
    BY <1>4 DEF StartCall
  <2>2. /\ pc = "gated" /\ gate' = gate
        /\ \/ pc' = "done" /\ result' \in {"crashed", "no files", "dry run"}
           \/ pc' = "require" /\ result' = result
    BY <1>4 DEF StartCall, Ended
  <2> QED
    BY <2>1, <2>2 DEF Results
<1>5. CASE Require
  BY <1>5 DEF Require, Ended, Results
<1>6. CASE Resolve
  BY <1>6 DEF Resolve, Ended, Results
<1>7. CASE GetClient
  BY <1>7 DEF GetClient, Ended, Results
<1>8. CASE Send
  <2>1. /\ pc = "send" /\ pc' = "done" /\ result' \in {"failed", "printed"}
        /\ gate' = gate /\ args' = args
    BY <1>8 DEF Send, Ended
  <2> QED
    BY <2>1 DEF Results
<1> QED
  BY <1>2, <1>3, <1>4, <1>5, <1>6, <1>7, <1>8 DEF DelegationStep

LEMMA EditorShape ==
  ASSUME DelegationShape, Editor
  PROVE  DelegationShape'
<1>1. File(Blob("blank")).node = "regular" /\ Idle.node = "missing"
  BY DEF File, Idle, NoFile
<1>2. /\ config'.node \in Nodes /\ saving'.node \in Nodes
      /\ saves' \in 0 .. MaxSaves
      /\ UNCHANGED <<machine, callVars>>
  BY <1>1, MaxSavesAssumption, ConfigsAssumption
  DEF Editor, Replace, SaveInPlace, SaveDone, Holds, DelegationShape, MaxSavesAssumption,
      ConfigsAssumption, Nodes
<1> QED
  BY <1>2 DEF DelegationShape, callVars

LEMMA DelegationShapeStep == DelegationShape /\ [Next]_vars => DelegationShape'
<1> SUFFICES ASSUME DelegationShape, [Next]_vars PROVE DelegationShape'
  OBVIOUS
<1>1. CASE Editor
  BY <1>1, EditorShape
<1>2. CASE DelegationStep /\ UNCHANGED configVars
  BY <1>2, StepKinds, CallShape DEF facts
<1>3. CASE UNCHANGED delegationVars
  BY <1>3 DEF delegationVars, callVars, DelegationShape
<1> QED
  BY <1>1, <1>2, <1>3, StepKinds

\* The resolution under way answers with a forge or with none.
ForgeShape == forge \in [at : {"start", "python", "done"},
                         provider : SUPPORTED_PROVIDERS \cup {Neither, forced}, noticed : BOOLEAN]

LEMMA ForgeShapeStep == ForgeShape /\ [Next]_vars => ForgeShape'
<1> SUFFICES ASSUME ForgeShape, [Next]_vars PROVE ForgeShape'
  OBVIOUS
<1>0. forced' = forced
  BY StepKinds DEF facts, repoVars
<1>1. ASSUME NEW p \in SUPPORTED_PROVIDERS \cup {Neither, forced}, NEW n \in BOOLEAN,
             Resolves(p, n)
      PROVE  ForgeShape'
  BY <1>0, <1>1 DEF Resolves, ForgeShape
<1>2. CASE ForgeStart
  <2>1. CASE forge' = [forge EXCEPT !.at = "python"]
    BY <1>0, <2>1 DEF ForgeShape
  <2>2. CASE Resolves(ShellDetect(host), FALSE)
    BY <1>1, <2>2, DetectedIsKnown
  <2>3. CASE Resolves(forced, FALSE)
    BY <1>1, <2>3
  <2> QED
    BY <1>2, <2>1, <2>2, <2>3 DEF ForgeStart
<1>3. CASE ForgePython
  <2>1. PICK proj, mach : Resolves(ResolveForge(proj, mach), proj.noticed \/ mach.noticed)
    BY <1>3 DEF ForgePython
  <2>2. (proj.noticed \/ mach.noticed) \in BOOLEAN
    OBVIOUS
  <2> QED
    BY <1>1, <2>1, <2>2, ResolvedIsKnown
<1>4. CASE UNCHANGED forgeVars
  BY <1>0, <1>4 DEF forgeVars, ForgeShape
<1> QED
  BY <1>2, <1>3, <1>4, StepKinds DEF ForgeNext

\* What a doctor run has found are results of registered checks.
Found(id, r) == id \in Ids /\ r \in {"PASS", "FAIL", "SKIP"}

DoctorShape ==
  /\ faults \subseteq Faults
  /\ \A id \in DOMAIN outcome : Found(id, outcome[id])
  /\ probe \in {"none", "pushed", "leaked"}
  /\ exit \in {"running", "clean", "failed", "usage"}

LEMMA RecordShape ==
  ASSUME NEW id, NEW r, Record(id, r), Found(id, r),
         \A other \in DOMAIN outcome : Found(other, outcome[other])
  PROVE  \A other \in DOMAIN outcome' : Found(other, outcome'[other])
BY DEF Record

LEMMA DoctorShapeStep == DoctorInv /\ DoctorShape /\ [Next]_vars => DoctorShape'
<1> SUFFICES ASSUME DoctorInv, DoctorShape, [Next]_vars PROVE DoctorShape'
  OBVIOUS
<1>1. faults' = faults
  BY StepKinds DEF facts, machineFacts
<1>2. CASE DoctorNext
  <2>1. probe' \in {"none", "pushed", "leaked"} /\ exit' \in {"running", "clean", "failed", "usage"}
    BY <1>2 DEF DoctorNext, RejectSubset, PassOver, RunCheck, DeleteProbe, Verdict, DoctorShape
  <2>2. CASE outcome' = outcome
    BY <1>1, <2>1, <2>2 DEF DoctorShape
  <2>3. ASSUME Ready, Record(Current, IF Applies(Current) THEN CheckResult(Current) ELSE "SKIP")
        PROVE  DoctorShape'
    <3>1. Current \in Ids
      BY <2>3 DEF DoctorInv, Ready, Current, Ids, REGISTRY
    <3>2. Found(Current, IF Applies(Current) THEN CheckResult(Current) ELSE "SKIP")
      BY <3>1, ChecksAnswer DEF Found
    <3> QED
      BY <1>1, <2>1, <2>3, <3>2, RecordShape DEF DoctorShape
  <2>4. CASE Record("reservations", "PASS")
    <3>1. Found("reservations", "PASS")
      BY DEF Found, Ids, REGISTRY
    <3> QED
      BY <1>1, <2>1, <2>4, <3>1, RecordShape DEF DoctorShape
  <2> QED
    BY <1>2, <2>2, <2>3, <2>4, DoctorAdds
<1>3. CASE UNCHANGED doctorVars
  BY <1>3 DEF doctorVars, machineFacts, DoctorShape, Found
<1> QED
  BY <1>2, <1>3, StepKinds

\* What a call sent is an endpoint and the name of a variable, by the read of the
\* config that named them both.
LEMMA SentShape ==
  ASSUME CallInv, sent # Unset
  PROVE  /\ sent = [endpoint |-> sent.endpoint, keyVar |-> sent.keyVar]
         /\ sent.endpoint # "" /\ sent.keyVar \in UpperNames
<1>1. PICK f \in seen : ~ProviderRefused(CfgOf(f), env) /\ sent.keyVar = ApiKeyEnv(CfgOf(f), env)
  BY DEF CallInv, Fit
<1>2. PICK g \in seen : sent.endpoint = ResolveProvider(CfgOf(g), env, args.url).endpoint
  BY DEF CallInv, Named
<1> QED
  BY <1>1, <1>2, EndpointGiven DEF CallInv, ProviderRefused

\* Every reachable state of a workstation is well typed: a gate grants exactly
\* when its reason is ok, a call ends with a word on how, what it sends has an
\* endpoint and the name of a key, and every check answers in its own terms.
THEOREM TypeCorrect == Spec => []TypeOK
<1>1. Init => DelegationShape /\ ForgeShape /\ DoctorShape
  <2> SUFFICES ASSUME Init PROVE DelegationShape /\ ForgeShape /\ DoctorShape
    OBVIOUS
  <2>1. PICK s \in Scenarios : config = s.config /\ machine = s.machine /\ faults = s.faults
    BY DEF Init
  <2>2. config.node \in Nodes /\ machine \in Machines /\ faults \subseteq Faults
    BY <2>1, ScenariosAssumption DEF ScenariosAssumption
  <2>3. saving.node \in Nodes
    BY DEF Init, DelegationInit, Idle, NoFile, Nodes
  <2>4. DelegationShape
    BY <2>2, <2>3, MaxSavesAssumption
    DEF Init, DelegationInit, DelegationShape, Results, MaxSavesAssumption
  <2>5. ForgeShape
    BY DEF Init, ForgeInit, ForgeShape
  <2>6. DOMAIN outcome = {}
    BY NothingKnown DEF Init, DoctorInit
  <2>7. DoctorShape
    BY <2>2, <2>6 DEF Init, DoctorInit, DoctorShape
  <2> QED
    BY <2>4, <2>5, <2>7
<1>2. CallInv /\ DelegationShape => DelegationTypeOK
  BY SentShape DEF DelegationShape, DelegationTypeOK, Answered
<1>3. ForgeShape => ForgeTypeOK
  BY DEF ForgeShape, ForgeTypeOK
<1>4. DoctorInv /\ DoctorShape => DoctorTypeOK
  <2>1. Len(REGISTRY) = 14
    BY DEF REGISTRY
  <2> QED
    BY <2>1 DEF DoctorInv, DoctorShape, DoctorTypeOK, Found
<1> QED
  BY <1>1, <1>2, <1>3, <1>4, CallInvHolds, DoctorInvHolds, DelegationShapeStep, ForgeShapeStep,
     DoctorShapeStep, PTL DEF Spec, TypeOK
=============================================================================
