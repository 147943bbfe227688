----------------------------- MODULE MCPlatform -----------------------------
(***************************************************************************)
(* What surrounds the deployments, for TLC: the modules share no state, so *)
(* each behaviour plays one of them, its scene, while the others rest in   *)
(* an initial state.                                                       *)
(***************************************************************************)
EXTENDS Platform, Secrets, Upgrade, OutputStream

VARIABLE scene

sceneVars == <<platformVars, secretVars, upgradeVars, outputVars, scene>>

\* The services of the dashboard change in a scene of their own; in the output
\* scene there is one, at rest.
SceneInit ==
  /\ scene \in {"platform", "secrets", "upgrade", "dashboard", "output"}
  /\ PlatformInit
  /\ scene # "platform" => ~installed /\ ~data
  /\ SecretsInit
  /\ scene # "secrets" => newest = Nothing
  /\ UpgradeInit
  /\ scene # "upgrade" => executable = 0 /\ ~apart /\ ~catalog.prefixed
  /\ OutputInit
  /\ uiUp = (scene \in {"dashboard", "output"})
  /\ ~uiUp => swarmServices = {}
  /\ scene = "output" => swarmServices = {1}
  /\ IF scene = "output"
       THEN changes = MaxChanges /\ queryFailures = MaxQueryFailures /\ picks = MaxPicks
       ELSE changes = 0 /\ queryFailures = 0 /\ picks = 0

SceneNext ==
  /\ UNCHANGED scene
  /\ \/ /\ scene = "platform"
        /\ PlatformNext
        /\ UNCHANGED <<secretVars, upgradeVars, outputVars>>
     \/ /\ scene = "secrets"
        /\ SecretsNext
        /\ UNCHANGED <<platformVars, upgradeVars, outputVars>>
     \/ /\ scene = "upgrade"
        /\ UpgradeNext
        /\ UNCHANGED <<platformVars, secretVars, outputVars>>
     \/ /\ scene = "dashboard"
        /\ DashboardNext
        /\ UNCHANGED <<platformVars, secretVars, upgradeVars, streamVars>>
     \/ /\ scene = "output"
        /\ OutputNext
        /\ UNCHANGED <<platformVars, secretVars, upgradeVars>>

\* A module at rest has no step that fairness would ask for.
SceneSpec == SceneInit /\ [][SceneNext]_sceneVars /\ PlatformFairness /\ OutputFairness

\* Every module's types.
SceneTypeOK == PlatformTypeOK /\ SecretsTypeOK /\ UpgradeTypeOK /\ OutputTypeOK
=============================================================================
