----------------------------- MODULE MCRuntime -----------------------------
(***************************************************************************)
(* Four parts of zebra_day that share no state, side by side: starting the *)
(* program, the simulated printers, the status cache and the preview.  A   *)
(* behaviour is one of one part, while the others rest: what they could do *)
(* meanwhile changes nothing for the part that is looked at.               *)
(***************************************************************************)
EXTENDS Deployment, SimulatorFleet, StatusCache, ZplPreview, TLC

\* Deployment.
Env == [keys |-> Directories \cup {"deployment_code", "certificates"},
        flawed |-> {}, mode |-> "", noAuth |-> FALSE]
ContainerEnv == [Env EXCEPT !.mode = "cognito",
  !.keys = @ \cup {"ZEBRA_DAY_CONFIG_PATH", "HOST", "PORT"} \cup CognitoKeys]

\* Which process is which makes no difference.
Interchangeable == Permutations(Processes)

MCLaunches ==
  {[kind |-> "gui", auth |-> "", env |-> Env],
   [kind |-> "gui", auth |-> "external_broker", env |-> Env],
   [kind |-> "container", auth |-> "", env |-> ContainerEnv],
   [kind |-> "container", auth |-> "", env |-> Env],
   [kind |-> "cli", auth |-> "", env |-> Env]}

Good == [file |-> "mapping", sections |-> Sections,
  keys |-> TapdbKeys \cup Accounts \cup CognitoKeys \cup {"default_scan_wait_seconds"},
  flawed |-> {}, mode |-> "cognito", owner |-> "zebra-day", domain |-> "Z"]

MCVersions ==
  {Good, Template(Env),
   [Good EXCEPT !.mode = "external_broker", !.keys = (@ \cup BrokerKeys) \ CognitoKeys,
                !.domain = "z"],
   [Good EXCEPT !.owner = "zebra-two", !.mode = "", !.keys = @ \ CognitoKeys],
   [Good EXCEPT !.sections = @ \ {"ui"}, !.mode = "Cognito"]}

MCUpper == [Z |-> "Z", z |-> "Z"]

Claim(owner, issuer) ==
  [k \in Keys |-> IF k[2] = "ZPR" THEN [owner |-> owner, issuer |-> issuer]
                  ELSE [owner |-> "", issuer |-> FALSE]]

MCRegistries ==
  {[state |-> "absent", claims |-> NoClaims], [state |-> "whole", claims |-> NoClaims],
   [state |-> "whole", claims |-> Claim("zebra-day", FALSE)]}

NoRows == [k \in RowKeys |-> ""]
MCRows == {NoRows, [NoRows EXCEPT ![<<"Z", "zebra-two">>] = "earlier"]}

\* What the validator says of any file, over any environment, made of these.
ValidatedFiles ==
  {[Good EXCEPT !.sections = Sections \ s, !.flawed = w, !.mode = m,
                !.keys = (@ \cup BrokerKeys \cup {"service_id"}) \ k] :
     s \in SUBSET {"tapdb", "ui"},
     k \in SUBSET {"owner_repo_name", "local_ui_port", "login_url", "cognito_domain"},
     w \in SUBSET {"cognito_domain", "cognito.domain", "port", "cognito",
                   "external_broker", "group_role_map"},
     m \in {"none", "Cognito", "external_broker", "", "saml"}}

ValidatedEnvs ==
  {Env, [Env EXCEPT !.keys = @ \cup BrokerEntries],
   [Env EXCEPT !.keys = @ \cup CognitoKeys, !.flawed = {"cognito_domain", "ca_bundle"}]}

ASSUME ValidatorAssumption ==
  \A c \in ValidatedFiles, e \in ValidatedEnvs : ValidatorLeavesOpen(c, e)

-----------------------------------------------------------------------------
\* ZplPreview.
Command(op, args) == [op |-> op, args |-> args]

Commands ==
  {Command("", <<>>), Command("FO", <<"10">>), Command("FO", <<";", "10">>),
   Command("A0N", <<"20">>), Command("A0N", <<"wide">>), Command("BY", <<"0">>),
   Command("BCN", <<"70">>), Command("BQN", <<"Q">>), Command("FD", <<"name">>),
   Command("FD", <<"id", "FS">>), Command("FD", <<"id", ";", "note">>)}

MCLabels == UNION {[1..n -> Commands] : n \in 0..3} \cup
  {<<c, d, e, f>> : c \in {Command("BCN", <<"70">>), Command("FO", <<"10">>)},
                    d, e \in Commands, f \in {k \in Commands : k.op = "FD"}}

MCValue == ("0" :> 0) @@ ("10" :> 10) @@ ("20" :> 20) @@ ("70" :> 70)
MCUnencodable == {<<"name">>}

-----------------------------------------------------------------------------
VARIABLE part
allVars == <<part, deploymentVars, fleetVars, statusVars, previewVars>>

Init ==
  /\ part \in {"deployment", "simulators", "status", "preview"}
  /\ IF part = "deployment" THEN DeploymentInit
     ELSE Deployed(Good, [state |-> "absent", claims |-> NoClaims], NoRows)
  /\ FleetInit
  /\ IF part = "status" THEN StatusInit ELSE Found([p \in Printers |-> "ready"])
  /\ IF part = "preview" THEN PreviewInit ELSE Rendering(<<>>, FALSE, FALSE)

Next ==
  \/ /\ part = "deployment" /\ DeploymentNext
     /\ UNCHANGED <<part, fleetVars, statusVars, previewVars>>
  \/ /\ part = "simulators" /\ FleetNext
     /\ UNCHANGED <<part, deploymentVars, statusVars, previewVars>>
  \/ /\ part = "status" /\ StatusNext
     /\ UNCHANGED <<part, deploymentVars, fleetVars, previewVars>>
  \/ /\ part = "preview" /\ PreviewNext
     /\ UNCHANGED <<part, deploymentVars, fleetVars, statusVars>>

Spec == Init /\ [][Next]_allVars

TypeOK ==
  /\ part \in {"deployment", "simulators", "status", "preview"}
  /\ part = "deployment" => DeploymentTypeOK
  /\ part = "simulators" => FleetTypeOK
  /\ part = "status"     => StatusTypeOK
  /\ part = "preview"    => PreviewTypeOK

=============================================================================
