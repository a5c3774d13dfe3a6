------------------------------ MODULE MCPlatform ------------------------------
(* The platform kernel beside the service registry, the identity centre, the files *)
(* of its users and the deployment scripts, each checked alone: subject names the  *)
(* part that runs, the others keep their first state.                             *)
EXTENDS PlatformStorage, ServiceGateway, ApplicationOnboarding, SchemaInclusion,
        Identity, ProductionRelease, FilesAndOffice, TLC

VARIABLE subject

Subjects == {"snapshot", "gateway", "onboarding", "user", "schema", "machine",
             "storage", "release", "account", "tokens", "services", "acceptance",
             "files", "office"}

Routes == <<{"a"}, {"b"}>>
Forms == {[request |-> "r1", actor |-> "ann", uris |-> "u1"],
          [request |-> "r1", actor |-> "ann", uris |-> "u2"]}
Environments == "n1" :> "e1" @@ "n2" :> "e2"

PlatformVars == <<SnapshotVars, GatewayVars, OnboardingVars, UserStateVars, SchemaVars,
                  MachineVars, switchVars, releaseVars, SecurityVars, TokenFlowVars,
                  servicesVars, acceptanceVars, fileVars, officeVars, subject>>

Init ==
    /\ subject \in Subjects
    /\ \/ subject = "schema"
       \/ subject # "schema" /\ source = Never /\ target = Never
    /\ subject = "acceptance" \/ (subject # "acceptance" /\ working = Fact)
    /\ SnapshotInit /\ GatewayInit /\ OnboardingInit /\ UserStateInit /\ MachineInit
    /\ SwitchInit /\ ReleaseInit /\ SecurityInit /\ TokenFlowInit /\ ServicesInit
    /\ AcceptanceInit /\ FileInit /\ OfficeInit /\ SchemaInit
    /\ subject # "account" => account.password
    /\ subject # "services" => \A v \in ServiceVersion : db.lifecycle[v] = "absent"
    /\ PlatformVars = PlatformVars  \* the functions of the idle parts are evaluated here

Next ==
    /\ UNCHANGED subject
    /\ \/ /\ subject = "snapshot" /\ SnapshotNext
          /\ UNCHANGED <<GatewayVars, OnboardingVars, UserStateVars, SchemaVars,
                         MachineVars, switchVars, releaseVars, SecurityVars,
                         TokenFlowVars, servicesVars, acceptanceVars, fileVars,
                         officeVars>>
       \/ /\ subject = "gateway" /\ GatewayNext
          /\ UNCHANGED <<SnapshotVars, OnboardingVars, UserStateVars, SchemaVars,
                         MachineVars, switchVars, releaseVars, SecurityVars,
                         TokenFlowVars, servicesVars, acceptanceVars, fileVars,
                         officeVars>>
       \/ /\ subject = "onboarding" /\ OnboardingNext
          /\ UNCHANGED <<SnapshotVars, GatewayVars, UserStateVars, SchemaVars,
                         MachineVars, switchVars, releaseVars, SecurityVars,
                         TokenFlowVars, servicesVars, acceptanceVars, fileVars,
                         officeVars>>
       \/ /\ subject = "user" /\ UserStateNext
          /\ UNCHANGED <<SnapshotVars, GatewayVars, OnboardingVars, SchemaVars,
                         MachineVars, switchVars, releaseVars, SecurityVars,
                         TokenFlowVars, servicesVars, acceptanceVars, fileVars,
                         officeVars>>
       \/ /\ subject = "schema" /\ SchemaNext
          /\ UNCHANGED <<SnapshotVars, GatewayVars, OnboardingVars, UserStateVars,
                         MachineVars, switchVars, releaseVars, SecurityVars,
                         TokenFlowVars, servicesVars, acceptanceVars, fileVars,
                         officeVars>>
       \/ /\ subject = "machine" /\ MachineNext
          /\ UNCHANGED <<SnapshotVars, GatewayVars, OnboardingVars, UserStateVars,
                         SchemaVars, switchVars, releaseVars, SecurityVars,
                         TokenFlowVars, servicesVars, acceptanceVars, fileVars,
                         officeVars>>
       \/ /\ subject = "storage" /\ SwitchNext
          /\ UNCHANGED <<SnapshotVars, GatewayVars, OnboardingVars, UserStateVars,
                         SchemaVars, MachineVars, releaseVars, SecurityVars,
                         TokenFlowVars, servicesVars, acceptanceVars, fileVars,
                         officeVars>>
       \/ /\ subject = "release" /\ ReleaseNext
          /\ UNCHANGED <<SnapshotVars, GatewayVars, OnboardingVars, UserStateVars,
                         SchemaVars, MachineVars, switchVars, SecurityVars,
                         TokenFlowVars, servicesVars, acceptanceVars, fileVars,
                         officeVars>>
       \/ /\ subject = "account" /\ SecurityNext
          /\ UNCHANGED <<SnapshotVars, GatewayVars, OnboardingVars, UserStateVars,
                         SchemaVars, MachineVars, switchVars, releaseVars,
                         TokenFlowVars, servicesVars, acceptanceVars, fileVars,
                         officeVars>>
       \/ /\ subject = "tokens" /\ TokenFlowNext
          /\ UNCHANGED <<SnapshotVars, GatewayVars, OnboardingVars, UserStateVars,
                         SchemaVars, MachineVars, switchVars, releaseVars, SecurityVars,
                         servicesVars, acceptanceVars, fileVars, officeVars>>
       \/ /\ subject = "services" /\ ServicesNext
          /\ UNCHANGED <<SnapshotVars, GatewayVars, OnboardingVars, UserStateVars,
                         SchemaVars, MachineVars, switchVars, releaseVars, SecurityVars,
                         TokenFlowVars, acceptanceVars, fileVars, officeVars>>
       \/ /\ subject = "acceptance" /\ AcceptanceNext
          /\ UNCHANGED <<SnapshotVars, GatewayVars, OnboardingVars, UserStateVars,
                         SchemaVars, MachineVars, switchVars, releaseVars, SecurityVars,
                         TokenFlowVars, servicesVars, fileVars, officeVars>>
       \/ /\ subject = "files" /\ FileNext
          /\ UNCHANGED <<SnapshotVars, GatewayVars, OnboardingVars, UserStateVars,
                         SchemaVars, MachineVars, switchVars, releaseVars, SecurityVars,
                         TokenFlowVars, servicesVars, acceptanceVars, officeVars>>
       \/ /\ subject = "office" /\ OfficeNext
          /\ UNCHANGED <<SnapshotVars, GatewayVars, OnboardingVars, UserStateVars,
                         SchemaVars, MachineVars, switchVars, releaseVars, SecurityVars,
                         TokenFlowVars, servicesVars, acceptanceVars, fileVars>>

\* Only the part that runs moves: its variables tell the states apart.
Focus ==
    CASE subject = "snapshot" -> <<subject, SnapshotVars>>
      [] subject = "gateway" -> <<subject, GatewayVars>>
      [] subject = "onboarding" -> <<subject, OnboardingVars>>
      [] subject = "user" -> <<subject, UserStateVars>>
      [] subject = "schema" -> <<subject, SchemaVars>>
      [] subject = "machine" -> <<subject, MachineVars>>
      [] subject = "storage" -> <<subject, switchVars>>
      [] subject = "release" -> <<subject, releaseVars>>
      [] subject = "account" -> <<subject, SecurityVars>>
      [] subject = "tokens" -> <<subject, TokenFlowVars>>
      [] subject = "services" -> <<subject, servicesVars>>
      [] subject = "acceptance" -> <<subject, acceptanceVars>>
      [] subject = "files" -> <<subject, fileVars>>
      [] subject = "office" -> <<subject, officeVars>>

Spec == Init /\ [][Next]_PlatformVars

\* Every part keeps its variables in their types: the fields of a storage object,
\* the phases of a call, the revisions of a row, the sessions of an account.
TypeOK ==
    /\ subject = "snapshot" => SnapshotTypeOK
    /\ subject = "gateway" => GatewayTypeOK
    /\ subject = "onboarding" => OnboardingTypeOK
    /\ subject = "user" => UserStateTypeOK
    /\ subject = "schema" => SchemaTypeOK
    /\ subject = "machine" => MachineTypeOK
    /\ subject = "storage" => SwitchTypeOK
    /\ subject = "release" => ReleaseTypeOK
    /\ subject = "account" => SecurityTypeOK
    /\ subject = "tokens" => TokenFlowTypeOK
    /\ subject = "services" => ServicesTypeOK
    /\ subject = "acceptance" => AcceptanceTypeOK
    /\ subject = "files" => FileTypeOK
    /\ subject = "office" => OfficeTypeOK
=============================================================================
