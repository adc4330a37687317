---------------------------- MODULE Workstation ----------------------------
(***************************************************************************)
(* One workstation: an operator who edits the machine config, and one of   *)
(* the commands that read it while he does.  A skill delegates a read, or  *)
(* it asks for the forge of its repository, or the doctor is run and then  *)
(* the forge is asked.  The commands meet in the config file only.         *)
(***************************************************************************)
EXTENDS Doctor

CONSTANT Scenarios   \* the workstations considered, records of what Init gives a value

ASSUME ScenariosAssumption ==
  \A s \in Scenarios : /\ {s.project.node, s.config.node} \subseteq Nodes
                      /\ s.machine \in Machines /\ s.faults \subseteq Faults

VARIABLE task   \* which of the commands is run: "delegate", "forge", "doctor"

vars == <<delegationVars, forgeVars, doctorVars, task>>

Init ==
  /\ DelegationInit /\ ForgeInit /\ DoctorInit
  /\ \E s \in Scenarios :
       /\ task = s.task
       /\ config = s.config /\ env = s.env /\ machine = s.machine
       /\ project = s.project /\ host = s.host /\ loader = s.loader /\ forced = s.forced
       /\ faults = s.faults /\ os = s.os /\ only = s.only

Editor     == Replace \/ SaveInPlace \/ SaveDone
Delegating == task = "delegate" /\ DelegationStep
Resolving  == /\ task = "forge" \/ (task = "doctor" /\ exit # "running")
              /\ ForgeNext
Diagnosing == task = "doctor" /\ DoctorNext

Next ==
  \/ Editor /\ UNCHANGED <<forgeVars, doctorVars, task>>
  \/ Delegating /\ UNCHANGED <<forgeVars, doctorVars, task>>
  \/ Resolving /\ UNCHANGED <<delegationVars, doctorVars, task>>
  \/ Diagnosing /\ UNCHANGED <<delegationVars, forgeVars, task>>

Spec == Init /\ [][Next]_vars

TypeOK == DelegationTypeOK /\ ForgeTypeOK /\ DoctorTypeOK
============================================================================
