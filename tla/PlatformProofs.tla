--------------------------- MODULE PlatformProofs ---------------------------
(***************************************************************************)
(* Proofs about the commands that change the host: about Platform, install *)
(* and uninstall with the networks of deploys, for any environments,       *)
(* networks and processes, and about Upgrade, for any releases, processes  *)
(* and edits; for any number of commands and faults in both. At the end,   *)
(* the scenes together.                                                    *)
(***************************************************************************)
EXTENDS MCPlatform, SecretsProofs, DashboardProofs

-----------------------------------------------------------------------------
(* Install, deploy and uninstall: the inductive invariants *)

Updates       == {"", "pending", "updating", "completed", "rolled_back"}
IngressStates == [on : BOOLEAN, nets : SUBSET Networks, previous : SUBSET Networks, update : Updates]
PlatformCmds  == [env : Envs, purge : BOOLEAN, fd : Int, nets : SUBSET (Networks \cup {Shared}),
                  todo : SUBSET Envs]

Labels == Locking \cup Uninstalling \cup
  {"idle", "swarm", "inspect_net", "create_net", "registry_files", "registry", "registry_wait",
   "open_write", "lock_write", "open_ensure", "lock_ensure", "open_attach", "lock_attach",
   "open_route", "lock_route", "metadata", "app"}

PlatformTypes ==
  /\ PlatformTypeOK
  /\ inodes \in Nat
  /\ ingress \in IngressStates /\ (~ingress.on => ingress = NoIngress)
  /\ nPc \in [Commands -> Labels] /\ nCmd \in [Commands -> PlatformCmds]
  /\ raced \in BOOLEAN

\* Labels of a deploy that has a network, and those where the ingress has it too.
Attached == {"converge", "save_nets", "open_route", "lock_route", "reconcile"}
Attaching == {"open_attach", "lock_attach", "attach"} \cup Attached

\* The environments with a route, or with a deploy that is about to write one.
Routed == routes \cup {nCmd[p].env : p \in {q \in Commands : nPc[q] \in Attached}}

\* Swarm may still return to the networks that were there before.
MayRollBack == ingress.update \in {"pending", "updating"}

NetworksExist ==
  /\ Routed \cup ingress.nets \subseteq overlays
  /\ MayRollBack => ingress.previous \subseteq overlays
  /\ \A p \in Commands : nPc[p] \in Attaching => nCmd[p].env \in overlays

\* Apart from the exceptions, the stack file, the service and what Swarm may
\* return to have the same networks, and with them all that is routed.
NetworksAgree ==
  /\ MayRollBack => ingress.previous \ unseen = ingress.nets \ unseen
  /\ stackFile # Absent /\ ingress.on => stackFile \ unseen = ingress.nets \ unseen
  /\ stackFile # Absent => Routed \ unseen \subseteq stackFile
  /\ ingress.on => Routed \ unseen \subseteq ingress.nets

AttachInv == PlatformTypes /\ NetworksExist /\ NetworksAgree

\* What an uninstall has removed at each of its labels.
Removed(p) ==
  /\ nPc[p] = "rm_apps" =>
       \A e \in Envs : <<e, "in-place">> \in stacks => e \in nCmd[p].todo
  /\ nPc[p] \in {"rm_registry", "rm_nginx", "rm_net", "rm_state", "rm_data", "rm_meta"} =>
       \A e \in Envs : <<e, "in-place">> \notin stacks
  /\ nPc[p] \in {"rm_nginx", "rm_net", "rm_state", "rm_data", "rm_meta"} => registry = "absent"
  /\ nPc[p] \in {"rm_net", "rm_state", "rm_data", "rm_meta"} => ~ingress.on
  /\ nPc[p] \in {"rm_state", "rm_data", "rm_meta"} => Shared \notin overlays
  /\ nPc[p] \in {"rm_data", "rm_meta"} =>
       appDirs = {} /\ routes = {} /\ stackFile = Absent /\ mainConf = "none"
  /\ nPc[p] = "rm_meta" /\ nCmd[p].purge => ~data

\* Until an uninstall overlaps another command, every in-place stack has its
\* directory, and an uninstall is the only command.
UninstallInv == ~raced =>
  /\ \A e \in Envs : <<e, "in-place">> \in stacks => e \in appDirs
  /\ \A p \in Commands : nPc[p] \in Uninstalling =>
       Removed(p) /\ \A q \in Commands \ {p} : nPc[q] = "idle"

-----------------------------------------------------------------------------
(* Types *)

\* A step of the process p of the platform.
PlatformStepOf(p) ==
  \/ StartInstall(p)
  \/ \E e \in Envs : StartDeployApp(p, e)
  \/ \E purge \in BOOLEAN : StartUninstall(p, purge)
  \/ PlatformStep(p) \/ PlatformFault(p)

CommandTypes == nPc \in [Commands -> Labels] /\ nCmd \in [Commands -> PlatformCmds]

\* The locals of an idle process.
LEMMA NoPlatformCmdType == NoPlatformCmd \in PlatformCmds
<1>1. (CHOOSE e \in Envs : TRUE) \in Envs
  BY PlatformAssumption
<1> QED
  BY <1>1 DEF NoPlatformCmd, PlatformCmds

\* A process that goes to a label, or ends, keeps the types of all of them.
LEMMA Moves ==
  ASSUME CommandTypes, NEW p \in Commands,
         Finish(p) \/ \E l \in Labels : NGoto(p, l) /\ UNCHANGED nCmd
  PROVE  /\ CommandTypes'
         /\ \A q \in Commands \ {p} : nPc'[q] = nPc[q] /\ nCmd'[q] = nCmd[q]
<1>1. CASE Finish(p)
  <2>1. nCmd' \in [Commands -> PlatformCmds]
    BY <1>1, NoPlatformCmdType DEF Finish, CommandTypes
  <2>2. nPc' \in [Commands -> Labels]
    BY <1>1 DEF Labels, Locking, Uninstalling, Finish, NGoto, CommandTypes
  <2> QED
    BY <1>1, <2>1, <2>2 DEF Labels, Locking, Uninstalling, Finish, NGoto, CommandTypes
<1>2. CASE \E l \in Labels : NGoto(p, l) /\ UNCHANGED nCmd
  BY <1>2 DEF NGoto, CommandTypes
<1> QED
  BY <1>1, <1>2

\* A process that begins a command, or changes its locals, too.
LEMMA Begins ==
  ASSUME CommandTypes, NEW p \in Commands, NEW c \in PlatformCmds, NEW l \in Labels,
         nPc' = [nPc EXCEPT ![p] = l], nCmd' = [nCmd EXCEPT ![p] = c]
  PROVE  /\ CommandTypes'
         /\ \A q \in Commands \ {p} : nPc'[q] = nPc[q] /\ nCmd'[q] = nCmd[q]
         /\ nPc'[p] = l /\ nCmd'[p] = c
  BY DEF CommandTypes

\* A step of one process leaves label and locals of the others.
LEMMA CommandsStep ==
  ASSUME PlatformTypes, NEW p \in Commands, PlatformStepOf(p)
  PROVE  /\ CommandTypes'
         /\ \A q \in Commands \ {p} : nPc'[q] = nPc[q] /\ nCmd'[q] = nCmd[q]
<1> DEFINE Goal == /\ CommandTypes'
                   /\ \A q \in Commands \ {p} : nPc'[q] = nPc[q] /\ nCmd'[q] = nCmd[q]
<1>0. CommandTypes /\ nCmd[p] \in PlatformCmds
  BY DEF PlatformTypes, CommandTypes
<1>1. ASSUME NEW c \in PlatformCmds, NEW l \in Labels, Launch(p, c, l)
      PROVE  Goal
  BY <1>0, <1>1, Begins DEF Launch, NGoto
<1>2. CASE StartInstall(p) \/ (\E e \in Envs : StartDeployApp(p, e))
             \/ \E purge \in BOOLEAN : StartUninstall(p, purge)
  <2>1. /\ NoPlatformCmd \in PlatformCmds
        /\ \A e \in Envs : [NoPlatformCmd EXCEPT !.env = e] \in PlatformCmds
        /\ \A b \in BOOLEAN : [NoPlatformCmd EXCEPT !.purge = b] \in PlatformCmds
    BY NoPlatformCmdType DEF PlatformCmds
  <2> QED
    BY <1>1, <1>2, <2>1 DEF Labels, Locking, Uninstalling, StartInstall, StartDeployApp, StartUninstall
<1>3. ASSUME NEW from \in Labels, NEW to \in Labels, OpenLock(p, from, to)
      PROVE  Goal
  <2>1. lockFile' \in Int
    <3>1. inodes \in Nat /\ lockFile \in 0..inodes
      BY Zenon DEF PlatformTypes, PlatformTypeOK
    <3> QED
      BY <1>3, <3>1 DEF OpenLock
  <2>2. [nCmd[p] EXCEPT !.fd = lockFile'] \in PlatformCmds
    BY <1>0, <2>1 DEF PlatformCmds
  <2>3. nCmd' = [nCmd EXCEPT ![p] = [nCmd[p] EXCEPT !.fd = lockFile']]
    BY <1>3 DEF OpenLock
  <2> QED
    BY <1>0, <1>3, <2>2, <2>3, Begins DEF OpenLock, NGoto
<1>4. CASE LockIngress(p)
  BY <1>0, <1>3, <1>4, Moves DEF Labels, Locking, Uninstalling, LockIngress, TakeLock
<1>5. CASE Install(p)
  <2>1. CASE EnsureSwarm(p) \/ InspectSharedNetwork(p) \/ CreateSharedNetwork(p) \/ WriteRegistry(p)
               \/ EnsureRegistry(p) \/ WaitForRegistry(p) \/ WriteNginxConf(p)
    BY <1>0, <2>1, Moves DEF Labels, Locking, Uninstalling, EnsureSwarm, InspectSharedNetwork, CreateSharedNetwork, WriteRegistry,
         EnsureRegistry, WaitForRegistry, WriteNginxConf
  <2>2. CASE RenderNginxStack(p) \/ ValidateNginx(p) \/ PrepareNginx(p) \/ ApplyNginxStack(p)
               \/ WaitForNginx(p) \/ WaitForCertbot(p) \/ WriteInstallMetadata(p)
    BY <1>0, <2>2, Moves DEF Labels, Locking, Uninstalling, RenderNginxStack, ValidateNginx, PrepareNginx, ApplyNginxStack,
         WaitForNginx, WaitForCertbot, WriteInstallMetadata
  <2> QED
    BY <1>5, <2>1, <2>2 DEF Install
<1>6. CASE DeployApp(p)
  <2>1. CASE RunAppStack(p) \/ NoSwarm(p) \/ AttachConverges(p) \/ SaveNetworks(p) \/ RouteApp(p)
    BY <1>0, <2>1, Moves DEF Labels, Locking, Uninstalling, RunAppStack, NoSwarm, AttachConverges, SaveNetworks, RouteApp
  <2>2. CASE AttachNetwork(p)
    <3>1. CASE Finish(p)
      BY <1>0, <3>1, Moves
    <3>2. CASE ~Finish(p)
      <4>1. PICK n \in {AttachedNetworks, AttachedNetworks \cup ConfigNets \cup {nCmd[p].env}}, l \in Labels :
              NGoto(p, l) /\ nCmd' = [nCmd EXCEPT ![p] = [nCmd[p] EXCEPT !.nets = n]]
        BY <2>2, <3>2 DEF Labels, Locking, Uninstalling, AttachNetwork
      <4>2. n \subseteq Networks \cup {Shared}
        BY <1>0, <4>1 DEF PlatformTypes, IngressStates, PlatformCmds, Networks, AttachedNetworks
      <4>3. [nCmd[p] EXCEPT !.nets = n] \in PlatformCmds
        BY <1>0, <4>2 DEF PlatformCmds
      <4> QED
        BY <1>0, <4>1, <4>3, Begins DEF NGoto
    <3> QED
      BY <3>1, <3>2
  <2> QED
    BY <1>6, <2>1, <2>2 DEF DeployApp
<1>7. CASE Uninstall(p)
  <2>1. CASE RemoveRegistry(p) \/ RemoveNginx(p) \/ RemoveNetwork(p) \/ RemoveGeneratedState(p)
               \/ RemoveData(p) \/ RemoveInstallMetadata(p)
    BY <1>0, <2>1, Moves DEF Labels, Locking, Uninstalling, RemoveRegistry, RemoveNginx, RemoveNetwork, RemoveGeneratedState,
         RemoveData, RemoveInstallMetadata
  <2>2. ASSUME NEW t \in SUBSET Envs, NEW l \in Labels,
               nPc' = [nPc EXCEPT ![p] = l], nCmd' = [nCmd EXCEPT ![p] = [nCmd[p] EXCEPT !.todo = t]]
        PROVE  Goal
    <3>1. [nCmd[p] EXCEPT !.todo = t] \in PlatformCmds
      BY <1>0 DEF PlatformCmds
    <3> QED
      BY <1>0, <2>2, <3>1, Begins
  <2>3. CASE LoadInstallation(p)
    <3>1. appDirs \subseteq Envs
      BY DEF PlatformTypes, PlatformTypeOK
    <3>2. CASE installed
      BY <2>2, <2>3, <3>1, <3>2 DEF Labels, Locking, Uninstalling, LoadInstallation, NGoto
    <3>3. CASE ~installed
      BY <1>0, <2>3, <3>3, Moves DEF LoadInstallation
    <3> QED
      BY <3>2, <3>3
  <2>4. CASE RemoveApps(p)
    <3>1. CASE NGoto(p, "rm_registry") /\ UNCHANGED nCmd
      BY <1>0, <3>1, Moves DEF Labels, Uninstalling
    <3>2. ASSUME NEW e \in nCmd[p].todo,
                 nCmd' = [nCmd EXCEPT ![p].todo = @ \ {e}], UNCHANGED nPc
          PROVE  Goal
      <4>1. nCmd[p].todo \ {e} \in SUBSET Envs /\ nPc[p] \in Labels
        BY <1>0 DEF PlatformCmds, CommandTypes
      <4>2. nPc' = [nPc EXCEPT ![p] = nPc[p]]
        BY <1>0, <3>2 DEF CommandTypes
      <4>3. nCmd' = [nCmd EXCEPT ![p] = [nCmd[p] EXCEPT !.todo = nCmd[p].todo \ {e}]]
        BY <3>2
      <4> QED
        BY <2>2, <4>1, <4>2, <4>3
    <3> QED
      BY <2>4, <3>1, <3>2 DEF RemoveApps
  <2> QED
    BY <1>7, <2>1, <2>3, <2>4 DEF Uninstall
<1>8. CASE PlatformFault(p)
  BY <1>0, <1>8, Moves DEF PlatformFault
<1> QED
  BY <1>2, <1>4, <1>5, <1>6, <1>7, <1>8 DEF PlatformStepOf, PlatformStep

\* Files, networks and services.
HostTypes ==
  /\ PlatformTypeOK
  /\ inodes \in Nat
  /\ ingress \in IngressStates /\ (~ingress.on => ingress = NoIngress)
  /\ raced \in BOOLEAN

LEMMA HostStep ==
  ASSUME PlatformTypes, [PlatformNext]_platformVars
  PROVE  HostTypes'
<1> DEFINE files == <<installed, appDirs, data, networksFile, stackFile, mainConf, routesConf, routes,
                      lockFile, inodes>>
           docker == <<swarmActive, overlays, stacks, registry, ingress>>
           limits == <<nOps, nFaults, raced>>
           F == /\ installed \in BOOLEAN /\ data \in BOOLEAN
                /\ appDirs \subseteq Envs /\ routes \subseteq Envs
                /\ networksFile = Absent \/ networksFile \subseteq Networks \cup {Shared}
                /\ stackFile = Absent \/ stackFile \subseteq Networks
                /\ mainConf \in {"none", "legacy", "managed"}
                /\ routesConf \in {"none", "bootstrap", "custom"}
                /\ inodes \in Nat /\ lockFile \in 0..inodes
           D == /\ swarmActive \in BOOLEAN
                /\ overlays \subseteq Networks \cup {Shared} /\ stacks \subseteq Envs \X Layouts
                /\ registry \in {"absent", "starting", "running"}
                /\ ingress \in IngressStates /\ (~ingress.on => ingress = NoIngress)
           L == /\ nOps \in 0..MaxPlatformOps /\ nFaults \in 0..MaxPlatformFaults /\ raced \in BOOLEAN
<1>0. HostTypes <=> F /\ D /\ L
  <2>1. ingress \in IngressStates => /\ ingress.nets \cup ingress.previous \subseteq Networks
                                     /\ ingress.update \in {"", "pending", "updating", "completed", "rolled_back"}
    BY DEF IngressStates, Updates
  <2> QED
    BY <2>1, Zenon DEF HostTypes, PlatformTypeOK
<1>a. HostTypes' <=> F' /\ D' /\ L'
  <2>1. ingress' \in IngressStates => /\ ingress'.nets \cup ingress'.previous \subseteq Networks
                                      /\ ingress'.update \in {"", "pending", "updating", "completed", "rolled_back"}
    BY DEF IngressStates, Updates
  <2> QED
    BY <2>1, Zenon DEF HostTypes, PlatformTypeOK
<1>b. F /\ D /\ L
  BY <1>0 DEF HostTypes, PlatformTypes
<1>c. \A p \in Commands : nCmd[p].env \in Envs /\ nCmd[p].nets \subseteq Networks \cup {Shared}
  BY DEF PlatformTypes, PlatformCmds
<1>f. UNCHANGED files => F'
  BY <1>b
<1>d. UNCHANGED docker => D'
  BY <1>b
<1>l. UNCHANGED limits => L'
  BY <1>b
<1> HIDE DEF F, D, L
<1>1. ASSUME NEW p \in Commands, NEW c, NEW l, Launch(p, c, l)
      PROVE  F' /\ D' /\ L'
  <2>1. L'
    BY <1>1, <1>b, PlatformAssumption DEF Launch, L, overlapping
  <2> QED
    BY <1>1, <1>f, <1>d, <2>1 DEF Launch, hostFiles, ingressDir, confFiles, dockerState
<1>2. ASSUME NEW p \in Commands, LockIngress(p)
      PROVE  F' /\ D' /\ L'
  <2>1. ASSUME NEW from, NEW to, OpenLock(p, from, to)
        PROVE  F' /\ D' /\ L'
    <3>1. F'
      BY <1>b, <2>1 DEF F, OpenLock, confFiles
    <3> QED
      BY <1>d, <1>l, <2>1, <3>1 DEF OpenLock, dockerState, overlapping
  <2>2. ASSUME NEW from, NEW to, TakeLock(p, from, to)
        PROVE  F' /\ D' /\ L'
    BY <1>f, <1>d, <1>l, <2>2 DEF TakeLock, dockerState, overlapping, hostFiles, ingressDir, confFiles
  <2> QED
    BY <1>2, <2>1, <2>2 DEF LockIngress
<1>3. ASSUME NEW p \in Commands, Install(p)
      PROVE  F' /\ D' /\ L'
  <2> USE DEF hostFiles, ingressDir, confFiles, overlapping, dockerState
  <2>1. CASE EnsureSwarm(p) \/ CreateSharedNetwork(p) \/ EnsureRegistry(p)
    <3>1. D'
      BY <1>b, <2>1 DEF D, EnsureSwarm, CreateSharedNetwork, EnsureRegistry
    <3> QED
      BY <1>f, <1>l, <2>1, <3>1 DEF EnsureSwarm, CreateSharedNetwork, EnsureRegistry
  <2>2. CASE InspectSharedNetwork(p) \/ WaitForRegistry(p) \/ PrepareNginx(p) \/ WaitForNginx(p)
               \/ WaitForCertbot(p)
    BY <1>f, <1>d, <1>l, <2>2
       DEF InspectSharedNetwork, WaitForRegistry, PrepareNginx, WaitForNginx, WaitForCertbot
  <2>3. CASE WriteRegistry(p) \/ WriteInstallMetadata(p)
    <3>1. F'
      BY <1>b, <2>3 DEF F, WriteRegistry, WriteInstallMetadata
    <3> QED
      BY <1>d, <1>l, <2>3, <3>1 DEF WriteRegistry, WriteInstallMetadata
  <2>4. CASE WriteNginxConf(p)
    <3>1. F'
      BY <1>b, <2>4 DEF F, WriteNginxConf
    <3> QED
      BY <1>d, <1>l, <2>4, <3>1 DEF WriteNginxConf
  <2>5. CASE RenderNginxStack(p)
    <3>1. IngressNetworks \subseteq Networks
      BY <1>b DEF F, D, IngressStates, IngressNetworks, RecordedNetworks, AttachedNetworks, Networks
    <3>2. F'
      BY <1>b, <2>5, <3>1 DEF F, RenderNginxStack
    <3>3. D'
      BY <1>b, <2>5 DEF D, RenderNginxStack, Networks
    <3> QED
      BY <1>l, <2>5, <3>2, <3>3 DEF RenderNginxStack
  <2>6. CASE ValidateNginx(p)
    <3>1. D'
      BY <1>b, <2>6 DEF D, ValidateNginx, Networks
    <3> QED
      BY <1>f, <1>l, <2>6, <3>1 DEF ValidateNginx
  <2>7. CASE ApplyNginxStack(p)
    <3>1. ingress' \in IngressStates /\ (~ingress'.on => ingress' = NoIngress)
      <4>1. CASE Deployable
        <5>1. stackFile \subseteq Networks
          BY <1>b, <4>1 DEF F, Deployable
        <5> QED
          BY <1>b, <2>7, <4>1, <5>1 DEF D, ApplyNginxStack, IngressStates, Updates, NoIngress
      <4>2. CASE ~Deployable
        BY <1>b, <2>7, <4>2 DEF D, ApplyNginxStack
      <4> QED
        BY <4>1, <4>2
    <3>2. D'
      BY <1>b, <2>7, <3>1 DEF D, ApplyNginxStack
    <3> QED
      BY <1>f, <1>l, <2>7, <3>2 DEF ApplyNginxStack
  <2> QED
    BY <1>3, <2>1, <2>2, <2>3, <2>4, <2>5, <2>6, <2>7 DEF Install
<1>4. ASSUME NEW p \in Commands, DeployApp(p)
      PROVE  F' /\ D' /\ L'
  <2> USE DEF hostFiles, ingressDir, confFiles, overlapping, dockerState
  <2>1. CASE RunAppStack(p)
    <3>1. F'
      BY <1>b, <1>c, <2>1 DEF F, RunAppStack
    <3>2. D'
      BY <1>b, <1>c, <2>1 DEF D, RunAppStack, Networks
    <3> QED
      BY <1>l, <2>1, <3>1, <3>2 DEF RunAppStack
  <2>2. CASE NoSwarm(p) \/ AttachConverges(p)
    BY <1>f, <1>d, <1>l, <2>2 DEF NoSwarm, AttachConverges
  <2>3. CASE AttachNetwork(p)
    <3>1. ingress' \in IngressStates /\ (~ingress'.on => ingress' = NoIngress)
      <4>1. CASE ingress' = ingress
        BY <1>b, <4>1 DEF D
      <4>2. CASE ingress.on /\ ingress' = [ingress EXCEPT !.nets = @ \cup (ConfigNets \cup {nCmd[p].env}),
                                              !.previous = ingress.nets, !.update = "pending"]
        <5>1. ConfigNets \cup {nCmd[p].env} \subseteq Networks
          BY <1>c DEF Networks
        <5>2. ingress \in IngressStates
          BY <1>b DEF D
        <5> QED
          BY <4>2, <5>1, <5>2 DEF IngressStates, Updates
      <4> QED
        BY <2>3, <4>1, <4>2 DEF AttachNetwork
    <3>2. D'
      BY <1>b, <2>3, <3>1 DEF D, AttachNetwork, Networks
    <3> QED
      BY <1>f, <1>l, <2>3, <3>2 DEF AttachNetwork
  <2>4. CASE SaveNetworks(p) \/ RouteApp(p)
    <3>1. F'
      BY <1>b, <1>c, <2>4 DEF F, SaveNetworks, RouteApp
    <3> QED
      BY <1>d, <1>l, <2>4, <3>1 DEF SaveNetworks, RouteApp
  <2> QED
    BY <1>4, <2>1, <2>2, <2>3, <2>4 DEF DeployApp
<1>5. ASSUME NEW p \in Commands, Uninstall(p)
      PROVE  F' /\ D' /\ L'
  <2> USE DEF hostFiles, ingressDir, confFiles, overlapping, dockerState
  <2>1. CASE LoadInstallation(p)
    BY <1>f, <1>d, <1>l, <2>1 DEF LoadInstallation
  <2>2. CASE RemoveApps(p)
    <3>1. D'
      <4>1. stacks' \subseteq stacks
        BY <2>2 DEF RemoveApps
      <4> QED
        BY <1>b, <2>2, <4>1 DEF D, RemoveApps
    <3> QED
      BY <1>f, <1>l, <2>2, <3>1 DEF RemoveApps
  <2>5. CASE RemoveRegistry(p)
    <3>1. D'
      BY <1>b, <2>5 DEF D, RemoveRegistry
    <3> QED
      BY <1>f, <1>l, <2>5, <3>1 DEF RemoveRegistry
  <2>6. CASE RemoveNginx(p)
    <3>1. D'
      <4>1. NoIngress \in IngressStates
        BY DEF NoIngress, IngressStates, Updates
      <4> QED
        BY <1>b, <2>6, <4>1 DEF D, RemoveNginx
    <3> QED
      BY <1>f, <1>l, <2>6, <3>1 DEF RemoveNginx
  <2>7. CASE RemoveNetwork(p)
    <3>1. D'
      <4>1. overlays' \subseteq overlays
        BY <2>7 DEF RemoveNetwork
      <4> QED
        BY <1>b, <2>7, <4>1 DEF D, RemoveNetwork
    <3> QED
      BY <1>f, <1>l, <2>7, <3>1 DEF RemoveNetwork
  <2>3. CASE RemoveGeneratedState(p)
    <3>1. F'
      BY <1>b, <2>3 DEF F, RemoveGeneratedState
    <3> QED
      BY <1>d, <1>l, <2>3, <3>1 DEF RemoveGeneratedState
  <2>4. CASE RemoveData(p) \/ RemoveInstallMetadata(p)
    <3>1. F'
      BY <1>b, <2>4 DEF F, RemoveData, RemoveInstallMetadata
    <3> QED
      BY <1>d, <1>l, <2>4, <3>1 DEF RemoveData, RemoveInstallMetadata
  <2> QED
    BY <1>5, <2>1, <2>2, <2>3, <2>4, <2>5, <2>6, <2>7 DEF Uninstall
<1>6. ASSUME NEW p \in Commands, PlatformFault(p)
      PROVE  F' /\ D' /\ L'
  <2>1. L'
    BY <1>6, <1>b, PlatformAssumption DEF PlatformFault, L, overlapping
  <2> QED
    BY <1>6, <1>f, <1>d, <2>1 DEF PlatformFault, hostFiles, ingressDir, confFiles, dockerState
<1>7. CASE RegistryRuns
  <2>1. D'
    BY <1>7, <1>b DEF RegistryRuns, D
  <2> QED
    BY <1>7, <1>a, <1>f, <1>l, <2>1 DEF RegistryRuns, hostFiles, ingressDir, confFiles, overlapping
<1>8. CASE UpdateIngress
  <2>1. PICK u \in {"updating", "completed", "rolled_back"},
             n \in {ingress.nets, ingress.previous} :
          ingress' = [ingress EXCEPT !.update = u, !.nets = n]
    BY <1>b, <1>8 DEF UpdateIngress, D, IngressStates
  <2>2. ingress' \in IngressStates /\ ingress'.on
    BY <1>b, <1>8, <2>1 DEF UpdateIngress, D, IngressStates, Updates
  <2>3. D'
    BY <1>8, <1>b, <2>2 DEF UpdateIngress, D
  <2> QED
    BY <1>8, <1>a, <1>f, <1>l, <2>3 DEF UpdateIngress, hostFiles, ingressDir, confFiles, overlapping
<1>9. CASE TasksGone
  BY <1>9, <1>a, <1>f, <1>d, <1>l DEF TasksGone, hostFiles, ingressDir, confFiles, overlapping
<1>10. ASSUME NEW p \in Commands, PlatformStepOf(p)
       PROVE  F' /\ D' /\ L'
  <2>1. CASE PlatformStep(p) \/ PlatformFault(p)
    BY <1>2, <1>3, <1>4, <1>5, <1>6, <2>1 DEF PlatformStep
  <2>2. CASE StartInstall(p) \/ (\E e \in Envs : StartDeployApp(p, e))
               \/ \E purge \in BOOLEAN : StartUninstall(p, purge)
    BY <1>1, <2>2 DEF StartInstall, StartDeployApp, StartUninstall
  <2> QED
    BY <1>10, <2>1, <2>2 DEF PlatformStepOf
<1>11. CASE UNCHANGED platformVars
  BY <1>11, <1>a, <1>f, <1>d, <1>l
     DEF platformVars, hostFiles, ingressDir, confFiles, dockerState, overlapping
<1> QED
  BY <1>7, <1>8, <1>9, <1>10, <1>11, <1>a, Zenon DEF PlatformNext, PlatformStepOf

\* Every step keeps the types.
LEMMA PlatformTypesStep ==
  ASSUME PlatformTypes, [PlatformNext]_platformVars
  PROVE  PlatformTypes'
<1>0. PlatformTypes' <=> HostTypes' /\ CommandTypes'
  BY Zenon DEF PlatformTypes, HostTypes, CommandTypes
<1>1. CASE PlatformNext
  <2>1. CommandTypes'
    <3>1. CASE \E p \in Commands : PlatformStepOf(p)
      BY <3>1, CommandsStep
    <3>2. CASE RegistryRuns \/ UpdateIngress \/ TasksGone
      BY <3>2 DEF RegistryRuns, UpdateIngress, TasksGone, PlatformTypes, CommandTypes
    <3> QED
      BY <1>1, <3>1, <3>2, Zenon DEF PlatformNext, PlatformStepOf
  <2> QED
    BY <1>0, <1>1, <2>1, HostStep
<1>2. CASE UNCHANGED platformVars
  <2>1. CommandTypes'
    BY <1>2 DEF PlatformTypes, CommandTypes, platformVars
  <2> QED
    BY <1>0, <2>1, HostStep
<1> QED
  BY <1>1, <1>2

-----------------------------------------------------------------------------
(* The networks of the ingress *)

Agreement == NetworksExist /\ NetworksAgree

\* What AttachInv says of the sets, and of an environment that is routed.
LEMMA AttachFacts ==
  ASSUME AttachInv
  PROVE  /\ ingress \in IngressStates /\ (~ingress.on => ingress = NoIngress)
         /\ routes \subseteq Networks /\ Routed \subseteq Networks
         /\ stackFile # Absent => stackFile \subseteq Networks
         /\ \A p \in Commands : nCmd[p].env \in Envs
         /\ \A p \in Commands : nPc[p] \in Attached => nCmd[p].env \in Routed
<1>1. \A p \in Commands : nCmd[p].env \in Envs
  BY DEF AttachInv, PlatformTypes, PlatformCmds
<1>2. routes \subseteq Envs /\ (stackFile # Absent => stackFile \subseteq Networks)
  BY Zenon DEF AttachInv, PlatformTypes, PlatformTypeOK
<1>3. ingress \in IngressStates /\ (~ingress.on => ingress = NoIngress)
  BY Zenon DEF AttachInv, PlatformTypes
<1> QED
  BY <1>1, <1>2, <1>3 DEF Routed, Networks

\* Without the service there is no network and no update.
LEMMA IngressOff ==
  ASSUME AttachInv, ~ingress.on
  PROVE  ingress.nets = {} /\ ingress.update = "" /\ ~MayRollBack
<1>1. ingress = NoIngress
  BY AttachFacts
<1>2. ingress.nets = {} /\ ingress.update = ""
  BY <1>1 DEF NoIngress
<1> QED
  BY <1>2 DEF MayRollBack

\* Nobody's environment becomes routed by a step that takes no process to the
\* labels of Attached.
LEMMA RoutedShrinks ==
  ASSUME AttachInv, routes' \subseteq Routed,
         \A q \in Commands : nPc'[q] \in Attached => nPc[q] \in Attached /\ nCmd'[q].env = nCmd[q].env
  PROVE  Routed' \subseteq Routed
  BY DEF Routed

\* A step that changes none of the networks, or removes something.
LEMMA AttachQuiet ==
  ASSUME AttachInv, routes' \subseteq Routed,
         \A q \in Commands :
           /\ nPc'[q] \in Attached => nPc[q] \in Attached /\ nCmd'[q].env = nCmd[q].env
           /\ nPc'[q] \in Attaching => nCmd'[q].env \in Envs \cap overlays',
         overlays \subseteq overlays' \cup {Shared},
         ingress' \in {ingress, NoIngress}, stackFile' \in {stackFile, Absent}, unseen' = unseen
  PROVE  Agreement'
<1>1. Routed' \subseteq Routed
  BY RoutedShrinks
<1>2. Shared \notin Networks
  BY PlatformAssumption DEF Networks
<1>3. Routed \cup ingress.nets \subseteq Networks /\ (MayRollBack => ingress.previous \subseteq Networks)
  BY AttachFacts DEF IngressStates
<1>4. CASE ingress' = ingress
  <2>1. MayRollBack' <=> MayRollBack
    BY <1>4 DEF MayRollBack
  <2>2. NetworksExist'
    BY <1>1, <1>2, <1>3, <1>4, <2>1 DEF AttachInv, NetworksExist, Networks
  <2>3. NetworksAgree'
    BY <1>1, <1>4, <2>1 DEF AttachInv, NetworksAgree
  <2> QED
    BY <2>2, <2>3 DEF Agreement
<1>5. CASE ingress' = NoIngress
  <2>1. ingress'.nets = {} /\ ~ingress'.on /\ ~MayRollBack'
    BY <1>5 DEF NoIngress, MayRollBack
  <2>2. NetworksExist'
    BY <1>1, <1>2, <1>3, <2>1 DEF AttachInv, NetworksExist, Networks
  <2>3. NetworksAgree'
    BY <1>1, <2>1 DEF AttachInv, NetworksAgree
  <2> QED
    BY <2>2, <2>3 DEF Agreement
<1> QED
  BY <1>4, <1>5

\* Rendering stack.yml begins a new set of exceptions: the networks that the
\* ingress does not have for sure.
LEMMA RenderKeeps ==
  ASSUME AttachInv, NEW p \in Commands, RenderNginxStack(p)
  PROVE  Agreement'
<1>1. \A q \in Commands : nPc'[q] \in Attaching => nPc[q] \in Attaching /\ nCmd'[q] = nCmd[q]
  BY DEF RenderNginxStack, NAt, NGoto, AttachInv, PlatformTypes, Attaching, Attached
<1>2. Routed' \subseteq Routed
  BY <1>1, RoutedShrinks DEF RenderNginxStack, NAt, NGoto, AttachInv, PlatformTypes, Attaching, Attached, Routed
<1>3. UNCHANGED <<ingress, MayRollBack>>
  BY DEF RenderNginxStack, MayRollBack
<1>4. NetworksExist'
  BY <1>1, <1>2, <1>3 DEF RenderNginxStack, AttachInv, NetworksExist
<1>5. /\ Known \subseteq (RecordedNetworks \ {Shared}) \cup ingress.nets
      /\ ingress.on => Known \subseteq ingress.nets
      /\ ingress.on /\ MayRollBack => Known = ingress.nets \cap ingress.previous
      /\ ingress.on /\ ~MayRollBack => Known = ingress.nets
  BY DEF Known, MayRollBack
<1>6. /\ stackFile' = IngressNetworks /\ unseen' = Networks \ Known
      /\ Known \cap overlays \subseteq IngressNetworks /\ IngressNetworks \subseteq Networks
  <2>1. IngressNetworks \subseteq Networks
    BY AttachFacts DEF IngressNetworks, RecordedNetworks, AttachedNetworks, Networks,
                       AttachInv, PlatformTypes, PlatformTypeOK
  <2>2. Known \subseteq (RecordedNetworks \cup AttachedNetworks) \ {Shared}
    <3>1. ingress.nets \subseteq Networks /\ Shared \notin Networks
      BY AttachFacts, PlatformAssumption
         DEF Networks, AttachInv, PlatformTypes, PlatformTypeOK
    <3> QED
      BY <1>5, <3>1 DEF Known, AttachedNetworks
  <2> QED
    BY <2>1, <2>2 DEF RenderNginxStack, IngressNetworks
<1>7. MayRollBack => ingress.on
  BY IngressOff
<1>8. NetworksAgree'
  BY <1>2, <1>3, <1>5, <1>6, <1>7, AttachFacts
     DEF AttachInv, NetworksExist, NetworksAgree, IngressStates
<1> QED
  BY <1>4, <1>8 DEF Agreement

\* docker stack deploy returns to the networks of the file.
LEMMA ApplyKeeps ==
  ASSUME AttachInv, NEW p \in Commands, ApplyNginxStack(p), Deployable
  PROVE  Agreement'
<1>1. \A q \in Commands :
         /\ nPc'[q] \in Attaching => nPc[q] \in Attaching /\ nCmd'[q].env = nCmd[q].env
         /\ nPc'[q] \in Attached => nPc[q] \in Attached /\ nCmd'[q].env = nCmd[q].env
  BY DEF ApplyNginxStack, NAt, NGoto, AttachInv, PlatformTypes, Attaching, Attached
<1>2. Routed' \subseteq Routed
  <2>1. routes' \subseteq Routed
    BY DEF ApplyNginxStack, hostFiles, ingressDir, Routed
  <2> QED
    BY <1>1, <2>1, RoutedShrinks
<1>3. /\ ingress'.nets = stackFile
      /\ MayRollBack' => ingress.on /\ ingress'.previous = ingress.nets
  <2>1. CASE ingress.on
    BY <2>1, AttachFacts DEF ApplyNginxStack, MayRollBack, IngressStates
  <2>2. CASE ~ingress.on
    BY <2>2 DEF ApplyNginxStack, MayRollBack, NoIngress
  <2> QED
    BY <2>1, <2>2
<1>4. NetworksExist'
  <2>1. overlays' = overlays
    BY DEF ApplyNginxStack
  <2> QED
    BY <1>1, <1>2, <1>3, <2>1 DEF Deployable, AttachInv, NetworksExist
<1>5. NetworksAgree'
  <2>1. stackFile' = stackFile /\ unseen' = unseen
    BY DEF ApplyNginxStack, hostFiles, ingressDir, overlapping
  <2> QED
    BY <1>2, <1>3, <2>1 DEF Deployable, AttachInv, NetworksAgree
<1> QED
  BY <1>4, <1>5 DEF Agreement

\* A deploy attaches the network of its environment, or finds it attached.
LEMMA AttachKeeps ==
  ASSUME AttachInv, NEW p \in Commands, AttachNetwork(p), ~Finish(p)
  PROVE  Agreement'
<1> DEFINE e == nCmd[p].env
           wanted == ConfigNets \cup {e}
           missing == wanted \ AttachedNetworks
<1>1. \A q \in Commands : nPc'[q] \in Attaching => nPc[q] \in Attaching /\ nCmd'[q].env = nCmd[q].env
  BY DEF AttachNetwork, NAt, NGoto, AttachInv, PlatformTypes, PlatformCmds, Attaching
<1>2. e \in overlays /\ e \in Envs
  BY AttachFacts DEF AttachNetwork, NAt, AttachInv, NetworksExist, Attaching
<1>3. Routed' \subseteq Routed \cup {e}
  <2>1. routes' = routes
    BY DEF AttachNetwork, hostFiles, ingressDir
  <2>2. \A q \in Commands : nPc'[q] \in Attached =>
          (nPc[q] \in Attached \/ q = p) /\ nCmd'[q].env = nCmd[q].env
    BY <1>1 DEF AttachNetwork, NAt, NGoto, AttachInv, PlatformTypes, Attaching
  <2> QED
    BY <2>1, <2>2 DEF Routed
<1>4. overlays' = overlays \cup ConfigNets /\ stackFile' = stackFile
  BY DEF AttachNetwork, hostFiles, ingressDir
<1>5. CASE missing = {} /\ UNCHANGED <<ingress, overlapping>>
  <2>1. e \in ingress.nets /\ ingress.on
    BY <1>2, <1>5, PlatformAssumption DEF AttachedNetworks
  <2>2. NetworksExist'
    BY <1>1, <1>2, <1>3, <1>4, <1>5 DEF AttachInv, NetworksExist, MayRollBack
  <2>3. NetworksAgree'
    BY <1>3, <1>4, <1>5, <2>1 DEF AttachInv, NetworksAgree, MayRollBack, overlapping
  <2> QED
    BY <2>2, <2>3 DEF Agreement
<1>6. CASE /\ ingress.on /\ unseen' = unseen \cup missing
           /\ ingress' = [ingress EXCEPT !.nets = @ \cup wanted, !.previous = ingress.nets,
                                         !.update = "pending"]
  <2>1. ingress'.on /\ ingress'.nets = ingress.nets \cup wanted /\ ingress'.previous = ingress.nets
    BY <1>6, AttachFacts DEF IngressStates
  <2>2. NetworksExist'
    BY <1>1, <1>2, <1>3, <1>4, <2>1 DEF AttachInv, NetworksExist
  <2>3. missing = wanted \ ingress.nets
    BY <1>2, <1>6, PlatformAssumption DEF AttachedNetworks
  <2>4. NetworksAgree'
    BY <1>3, <1>4, <1>6, <2>1, <2>3 DEF AttachInv, NetworksAgree
  <2> QED
    BY <2>2, <2>4 DEF Agreement
<1> QED
  BY <1>5, <1>6 DEF AttachNetwork

\* Swarm goes on with an update, ends it, or returns to the networks before it.
LEMMA UpdateKeeps ==
  ASSUME AttachInv, UpdateIngress
  PROVE  Agreement'
<1>1. UNCHANGED <<nPc, nCmd, routes, overlays, stackFile, unseen>>
  BY DEF UpdateIngress, hostFiles, ingressDir, overlapping
<1>2. Routed' = Routed
  BY <1>1 DEF Routed
<1>3. /\ ingress'.on /\ ingress'.previous = ingress.previous /\ MayRollBack
      /\ \/ ingress'.nets = ingress.nets
         \/ ingress'.nets = ingress.previous /\ ~MayRollBack'
  <2>1. ingress \in IngressStates
    BY AttachFacts
  <2>2. ingress'.on /\ ingress'.previous = ingress.previous /\ MayRollBack
    BY <2>1 DEF UpdateIngress, MayRollBack, IngressStates
  <2>3. \/ ingress'.nets = ingress.nets
        \/ ingress'.nets = ingress.previous /\ ingress'.update = "rolled_back"
    BY <2>1 DEF UpdateIngress, IngressStates
  <2> QED
    BY <2>2, <2>3 DEF MayRollBack
<1>4. NetworksExist'
  BY <1>1, <1>2, <1>3 DEF AttachInv, NetworksExist
<1>5. NetworksAgree'
  BY <1>1, <1>2, <1>3, AttachFacts DEF AttachInv, NetworksAgree, UpdateIngress
<1> QED
  BY <1>4, <1>5 DEF Agreement

\* The same of the step of one process.
LEMMA QuietStep ==
  ASSUME AttachInv, NEW p \in Commands, PlatformStepOf(p), routes' \subseteq Routed,
         nPc'[p] \in Attached => nPc[p] \in Attached /\ nCmd'[p].env = nCmd[p].env,
         nPc'[p] \in Attaching =>
           \/ nPc[p] \in Attaching /\ nCmd'[p].env = nCmd[p].env
           \/ nCmd'[p].env \in Envs \cap overlays',
         overlays \subseteq overlays' \cup {Shared},
         ingress' \in {ingress, NoIngress}, stackFile' \in {stackFile, Absent}, unseen' = unseen
  PROVE  Agreement'
<1>1. \A q \in Commands \ {p} : nPc'[q] = nPc[q] /\ nCmd'[q] = nCmd[q]
  BY CommandsStep DEF AttachInv
<1>2. \A q \in Commands : nPc[q] \in Attaching => nCmd[q].env \in Envs \cap overlays'
  BY AttachFacts, PlatformAssumption DEF AttachInv, NetworksExist
<1>3. \A q \in Commands :
        /\ nPc'[q] \in Attached => nPc[q] \in Attached /\ nCmd'[q].env = nCmd[q].env
        /\ nPc'[q] \in Attaching => nCmd'[q].env \in Envs \cap overlays'
  BY <1>1, <1>2
<1> QED
  BY <1>3, AttachQuiet

LEMMA AttachStep ==
  ASSUME AttachInv, [PlatformNext]_platformVars
  PROVE  Agreement'
<1>1. CommandTypes /\ routes \subseteq Routed
  BY DEF AttachInv, PlatformTypes, CommandTypes, Routed
<1>2. ASSUME NEW p \in Commands, PlatformStepOf(p),
             UNCHANGED <<routes, overlays, ingress, stackFile, unseen>>,
             \/ nPc'[p] \notin Attaching
             \/ nPc[p] \in Attaching /\ nCmd'[p].env = nCmd[p].env
                  /\ (nPc'[p] \in Attached => nPc[p] \in Attached)
      PROVE  Agreement'
  <2>1. Attached \subseteq Attaching
    BY DEF Attaching
  <2> QED
    BY <1>1, <1>2, <2>1, QuietStep
<1>3. ASSUME NEW p \in Commands, PlatformStepOf(p), NEW c, NEW l \in {"swarm", "app", "load"}, Launch(p, c, l)
      PROVE  Agreement'
  <2>1. nPc'[p] \notin Attaching
    BY <1>1, <1>3 DEF Launch, NGoto, CommandTypes, Attaching, Attached
  <2> QED
    BY <1>2, <1>3, <2>1 DEF Launch, hostFiles, ingressDir, dockerState
<1>4. ASSUME NEW p \in Commands, PlatformStepOf(p), LockIngress(p)
      PROVE  Agreement'
  <2>1. UNCHANGED <<routes, overlays, ingress, stackFile, unseen>>
    BY <1>4 DEF LockIngress, OpenLock, TakeLock, hostFiles, ingressDir, dockerState, overlapping
  <2>2. nCmd'[p].env = nCmd[p].env
    BY <1>1, <1>4 DEF LockIngress, OpenLock, TakeLock, CommandTypes, PlatformCmds
  <2>3. \/ nPc'[p] \in {"lock_write", "nginx_conf", "lock_ensure", "validate"}
        \/ nPc[p] \in {"open_attach", "lock_attach"} /\ nPc'[p] \in {"lock_attach", "attach"}
        \/ nPc[p] \in {"open_route", "lock_route"}
    BY <1>1, <1>4 DEF LockIngress, OpenLock, TakeLock, NAt, NGoto, CommandTypes
  <2> QED
    BY <1>2, <1>4, <2>1, <2>2, <2>3 DEF Attaching, Attached
<1>5. ASSUME NEW p \in Commands, PlatformStepOf(p), Install(p)
      PROVE  Agreement'
  <2>1. CASE RenderNginxStack(p)
    BY <2>1, RenderKeeps
  <2>2. CASE ApplyNginxStack(p) /\ Deployable
    BY <2>2, ApplyKeeps
  <2>3. CASE ~RenderNginxStack(p) /\ ~(ApplyNginxStack(p) /\ Deployable)
    <3>1. UNCHANGED <<routes, ingress, stackFile, unseen>> /\ overlays \subseteq overlays'
      BY <1>5, <2>3
         DEF Install, EnsureSwarm, InspectSharedNetwork, CreateSharedNetwork, WriteRegistry,
             EnsureRegistry, WaitForRegistry, WriteNginxConf, ValidateNginx, PrepareNginx,
             ApplyNginxStack, WaitForNginx, WaitForCertbot, WriteInstallMetadata,
             hostFiles, ingressDir, confFiles, dockerState, overlapping
    <3>2. nPc'[p] \notin Attaching
      BY <1>1, <1>5, <2>3
         DEF Install, EnsureSwarm, InspectSharedNetwork, CreateSharedNetwork, WriteRegistry,
             EnsureRegistry, WaitForRegistry, WriteNginxConf, ValidateNginx, PrepareNginx,
             ApplyNginxStack, WaitForNginx, WaitForCertbot, WriteInstallMetadata,
             NGoto, Finish, CommandTypes, Attaching, Attached
    <3>3. nPc'[p] \notin Attached
      BY <3>2 DEF Attaching
    <3> QED
      BY <1>1, <1>5, <3>1, <3>2, <3>3, QuietStep
  <2> QED
    BY <2>1, <2>2, <2>3
<1>6. ASSUME NEW p \in Commands, PlatformStepOf(p), DeployApp(p)
      PROVE  Agreement'
  <2>1. CASE AttachNetwork(p)
    <3>1. CASE Finish(p)
      <4>1. nPc'[p] \notin Attaching /\ nPc'[p] \notin Attached
        BY <1>1, <3>1 DEF Finish, NGoto, CommandTypes, Attaching, Attached
      <4>2. UNCHANGED <<routes, ingress, stackFile, unseen>> /\ overlays \subseteq overlays'
        <5>1. nPc'[p] = "idle"
          BY <1>1, <3>1 DEF Finish, NGoto, CommandTypes
        <5> QED
          BY <1>1, <2>1, <5>1 DEF AttachNetwork, NGoto, CommandTypes, hostFiles, ingressDir, overlapping
      <4> QED
        BY <1>1, <1>6, <4>1, <4>2, QuietStep
    <3> QED
      BY <2>1, <3>1, AttachKeeps
  <2>2. CASE RunAppStack(p)
    <3>1. nPc'[p] = "open_attach" /\ nCmd' = nCmd
      BY <1>1, <2>2 DEF RunAppStack, NGoto, CommandTypes
    <3>2. /\ UNCHANGED <<routes, ingress, stackFile, unseen>>
          /\ overlays' = overlays \cup {nCmd[p].env}
      BY <2>2 DEF RunAppStack, ingressDir, overlapping
    <3>3. nCmd[p].env \in Envs /\ nPc'[p] \notin Attached
      BY <3>1, AttachFacts DEF Attached
    <3> QED
      BY <1>1, <1>6, <3>1, <3>2, <3>3, QuietStep
  <2>3. CASE NoSwarm(p) \/ AttachConverges(p) \/ SaveNetworks(p)
    <3>1. UNCHANGED <<routes, overlays, ingress, stackFile, unseen>>
      BY <2>3 DEF NoSwarm, AttachConverges, SaveNetworks, hostFiles, ingressDir, dockerState, overlapping
    <3>2. \/ nPc'[p] = "idle"
          \/ nPc[p] \in Attached /\ nPc'[p] \in Attached /\ nCmd' = nCmd
      BY <1>1, <2>3 DEF NoSwarm, AttachConverges, SaveNetworks, Finish, NAt, NGoto, CommandTypes, Attached
    <3> QED
      BY <1>2, <1>6, <3>1, <3>2 DEF Attaching, Attached
  <2>4. CASE RouteApp(p)
    <3>1. nPc[p] = "reconcile" /\ nPc'[p] = "idle"
      BY <1>1, <2>4 DEF RouteApp, Finish, NAt, NGoto, CommandTypes
    <3>2. nPc'[p] \notin Attached /\ nPc'[p] \notin Attaching /\ nCmd[p].env \in Routed
      BY <3>1, AttachFacts DEF Attaching, Attached
    <3>3. /\ routes' \subseteq routes \cup {nCmd[p].env}
          /\ UNCHANGED <<overlays, ingress, stackFile, unseen>>
      BY <2>4 DEF RouteApp, dockerState, overlapping
    <3> QED
      BY <1>1, <1>6, <3>2, <3>3, QuietStep
  <2> QED
    BY <1>6, <2>1, <2>2, <2>3, <2>4 DEF DeployApp
<1>7. ASSUME NEW p \in Commands, PlatformStepOf(p), Uninstall(p)
      PROVE  Agreement'
  <2>1. nPc'[p] \notin Attaching /\ nPc'[p] \notin Attached
    BY <1>1, <1>7
       DEF Uninstall, LoadInstallation, RemoveApps, RemoveRegistry, RemoveNginx, RemoveNetwork,
           RemoveGeneratedState, RemoveData, RemoveInstallMetadata, NAt, NGoto, Finish, CommandTypes,
           Attaching, Attached
  <2>2. /\ routes' \subseteq routes /\ overlays \subseteq overlays' \cup {Shared}
        /\ ingress' \in {ingress, NoIngress} /\ stackFile' \in {stackFile, Absent} /\ unseen' = unseen
    BY <1>7
       DEF Uninstall, LoadInstallation, RemoveApps, RemoveRegistry, RemoveNginx, RemoveNetwork,
           RemoveGeneratedState, RemoveData, RemoveInstallMetadata,
           hostFiles, ingressDir, dockerState, overlapping
  <2> QED
    BY <1>1, <1>7, <2>1, <2>2, QuietStep
<1>8. ASSUME NEW p \in Commands, PlatformStepOf(p), PlatformFault(p)
      PROVE  Agreement'
  <2>1. nPc'[p] \notin Attaching
    BY <1>1, <1>8 DEF PlatformFault, Finish, NGoto, CommandTypes, Attaching, Attached
  <2> QED
    BY <1>2, <1>8, <2>1 DEF PlatformFault, hostFiles, ingressDir, dockerState, overlapping
<1>9. ASSUME NEW p \in Commands, PlatformStepOf(p)
      PROVE  Agreement'
  <2>1. CASE StartInstall(p) \/ (\E e \in Envs : StartDeployApp(p, e))
               \/ \E purge \in BOOLEAN : StartUninstall(p, purge)
    BY <1>3, <1>9, <2>1 DEF StartInstall, StartDeployApp, StartUninstall
  <2> QED
    BY <1>4, <1>5, <1>6, <1>7, <1>8, <1>9, <2>1 DEF PlatformStepOf, PlatformStep
<1>10. CASE RegistryRuns \/ TasksGone \/ UNCHANGED platformVars
  <2>1. UNCHANGED <<nPc, nCmd, routes, overlays, ingress, stackFile, unseen>>
    BY <1>10 DEF RegistryRuns, TasksGone, platformVars, hostFiles, ingressDir, dockerState, overlapping
  <2>2. \A q \in Commands : nPc[q] \in Attaching => nCmd[q].env \in Envs \cap overlays
    BY AttachFacts DEF AttachInv, NetworksExist
  <2> QED
    BY <1>1, <2>1, <2>2, AttachQuiet
<1>11. CASE UpdateIngress
  BY <1>11, UpdateKeeps
<1> QED
  BY <1>9, <1>10, <1>11, Zenon DEF PlatformNext, PlatformStepOf

-----------------------------------------------------------------------------
(* Uninstall *)

\* Every in-place stack has its directory.
StacksRecorded == \A e \in Envs : <<e, "in-place">> \in stacks => e \in appDirs

\* The processes that uninstall, each alone.
UninstallsAlone ==
  \A p \in Commands : nPc[p] \in Uninstalling => Removed(p) /\ \A q \in Commands \ {p} : nPc[q] = "idle"

LEMMA RacedStays ==
  ASSUME PlatformTypes, [PlatformNext]_platformVars, ~raced'
  PROVE  ~raced
<1>1. CASE raced' = raced
  BY <1>1
<1>2. CASE \E p \in Commands : StartInstall(p) \/ (\E e \in Envs : StartDeployApp(p, e))
             \/ \E purge \in BOOLEAN : StartUninstall(p, purge)
  BY <1>2 DEF StartInstall, StartDeployApp, StartUninstall, Launch
<1>3. ASSUME NEW p \in Commands, LockIngress(p) \/ DeployApp(p) \/ Uninstall(p) \/ PlatformFault(p)
      PROVE  raced' = raced
  BY <1>3
     DEF LockIngress, OpenLock, TakeLock, DeployApp, RunAppStack, NoSwarm, AttachNetwork,
         AttachConverges, SaveNetworks, RouteApp, Uninstall, LoadInstallation, RemoveApps,
         RemoveRegistry, RemoveNginx, RemoveNetwork, RemoveGeneratedState, RemoveData,
         RemoveInstallMetadata, PlatformFault, overlapping
<1>4. ASSUME NEW p \in Commands, Install(p)
      PROVE  raced' = raced
  BY <1>4
     DEF Install, EnsureSwarm, InspectSharedNetwork, CreateSharedNetwork, WriteRegistry,
         EnsureRegistry, WaitForRegistry, WriteNginxConf, RenderNginxStack, ValidateNginx,
         PrepareNginx, ApplyNginxStack, WaitForNginx, WaitForCertbot, WriteInstallMetadata, overlapping
<1>5. CASE RegistryRuns \/ UpdateIngress \/ TasksGone \/ UNCHANGED platformVars
  BY <1>5 DEF RegistryRuns, UpdateIngress, TasksGone, platformVars, overlapping
<1> QED
  BY <1>1, <1>2, <1>3, <1>4, <1>5, Zenon DEF PlatformNext, PlatformStep

\* What install and deploy do, and a command that begins, with the state that an
\* uninstall removes.
LEMMA OthersRecord ==
  ASSUME PlatformTypes, StacksRecorded, NEW p \in Commands, PlatformStepOf(p), ~Uninstall(p)
  PROVE  StacksRecorded'
<1>1. CASE RunAppStack(p)
  BY <1>1 DEF RunAppStack, StacksRecorded, Layouts
<1>2. CASE UNCHANGED <<stacks, appDirs>>
  BY <1>2 DEF StacksRecorded
<1>3. CASE StartInstall(p) \/ (\E e \in Envs : StartDeployApp(p, e))
             \/ \E purge \in BOOLEAN : StartUninstall(p, purge)
  <2>1. UNCHANGED <<stacks, appDirs>>
    BY <1>3 DEF StartInstall, StartDeployApp, StartUninstall, Launch, hostFiles, dockerState
  <2> QED
    BY <1>2, <2>1
<1>4. CASE LockIngress(p) \/ PlatformFault(p)
  <2>1. UNCHANGED <<stacks, appDirs>>
    BY <1>4 DEF LockIngress, OpenLock, TakeLock, PlatformFault, hostFiles, dockerState
  <2> QED
    BY <1>2, <2>1
<1>5. CASE Install(p)
  <2>1. UNCHANGED <<stacks, appDirs>>
    BY <1>5
       DEF Install, EnsureSwarm, InspectSharedNetwork, CreateSharedNetwork, WriteRegistry,
           EnsureRegistry, WaitForRegistry, WriteNginxConf, RenderNginxStack, ValidateNginx,
           PrepareNginx, ApplyNginxStack, WaitForNginx, WaitForCertbot, WriteInstallMetadata,
           hostFiles, dockerState
  <2> QED
    BY <1>2, <2>1
<1>6. CASE DeployApp(p) /\ ~RunAppStack(p)
  <2>1. UNCHANGED <<stacks, appDirs>>
    BY <1>6
       DEF DeployApp, NoSwarm, AttachNetwork, AttachConverges, SaveNetworks, RouteApp, hostFiles, dockerState
  <2> QED
    BY <1>2, <2>1
<1> QED
  BY <1>1, <1>3, <1>4, <1>5, <1>6 DEF PlatformStepOf, PlatformStep

\* A process that begins to uninstall, and one that goes on.
LEMMA WhoUninstalls ==
  ASSUME PlatformTypes, NEW p \in Commands, PlatformStepOf(p), ~Uninstall(p)
  PROVE  \/ /\ nPc[p] = "idle" /\ nPc'[p] \in {"swarm", "app", "load"}
            /\ LET busy == {nPc[q] : q \in Commands} \ {"idle"} IN
               raced' = (raced \/ (busy # {} /\ (busy \cup {nPc'[p]}) \cap Uninstalling # {}))
         \/ nPc[p] # "idle" /\ nPc'[p] \notin Uninstalling
<1>1. CommandTypes
  BY DEF PlatformTypes, CommandTypes
<1>2. CASE StartInstall(p) \/ (\E e \in Envs : StartDeployApp(p, e))
             \/ \E purge \in BOOLEAN : StartUninstall(p, purge)
  <2>1. PICK l \in {"swarm", "app", "load"} : \E c : Launch(p, c, l)
    BY <1>2 DEF StartInstall, StartDeployApp, StartUninstall
  <2>2. nPc[p] = "idle" /\ nPc'[p] = l
    BY <1>1, <2>1 DEF Launch, NAt, NGoto, CommandTypes
  <2> QED
    BY <2>1, <2>2 DEF Launch
<1>3. CASE LockIngress(p)
  BY <1>1, <1>3 DEF LockIngress, OpenLock, TakeLock, NAt, NGoto, CommandTypes, Uninstalling
<1>4. CASE Install(p)
  <2>1. nPc[p] # "idle"
    BY <1>4
       DEF Install, EnsureSwarm, InspectSharedNetwork, CreateSharedNetwork, WriteRegistry,
           EnsureRegistry, WaitForRegistry, WriteNginxConf, RenderNginxStack, ValidateNginx,
           PrepareNginx, ApplyNginxStack, WaitForNginx, WaitForCertbot, WriteInstallMetadata, NAt
  <2>2. nPc'[p] \notin Uninstalling
    BY <1>1, <1>4
       DEF Install, EnsureSwarm, InspectSharedNetwork, CreateSharedNetwork, WriteRegistry,
           EnsureRegistry, WaitForRegistry, WriteNginxConf, RenderNginxStack, ValidateNginx,
           PrepareNginx, ApplyNginxStack, WaitForNginx, WaitForCertbot, WriteInstallMetadata,
           NGoto, Finish, CommandTypes, Uninstalling
  <2> QED
    BY <2>1, <2>2
<1>5. CASE DeployApp(p)
  BY <1>1, <1>5
     DEF DeployApp, RunAppStack, NoSwarm, AttachNetwork, AttachConverges, SaveNetworks, RouteApp,
         NAt, NGoto, Finish, CommandTypes, Uninstalling
<1>6. CASE PlatformFault(p)
  BY <1>1, <1>6 DEF PlatformFault, NGoto, Finish, CommandTypes, Uninstalling
<1> QED
  BY <1>2, <1>3, <1>4, <1>5, <1>6 DEF PlatformStepOf, PlatformStep

\* A step of an uninstall that runs alone.
LEMMA UninstallGoes ==
  ASSUME PlatformTypes, StacksRecorded, NEW p \in Commands, Uninstall(p), Removed(p)
  PROVE  StacksRecorded' /\ (nPc'[p] \in Uninstalling => Removed(p)') /\ nPc[p] \in Uninstalling
<1>1. CommandTypes
  BY DEF PlatformTypes, CommandTypes
<1> USE DEF NAt, NGoto, Finish, StacksRecorded, CommandTypes, Uninstalling
<1>2. CASE LoadInstallation(p)
  <2>1. \/ nPc'[p] = "idle"
        \/ nPc'[p] = "rm_apps" /\ nCmd'[p].todo = appDirs
    <3>1. CASE installed
      <4>1. nCmd[p] \in PlatformCmds
        BY <1>1
      <4>2. nCmd' = [nCmd EXCEPT ![p] = [nCmd[p] EXCEPT !.todo = appDirs]]
            /\ nPc' = [nPc EXCEPT ![p] = "rm_apps"]
        BY <1>2, <3>1 DEF LoadInstallation
      <4> QED
        BY <1>1, <4>1, <4>2 DEF PlatformCmds
    <3>2. CASE ~installed
      <4>1. nPc' = [nPc EXCEPT ![p] = "idle"]
        BY <1>2, <3>2, Zenon DEF LoadInstallation
      <4> QED
        BY <1>1, <4>1
    <3> QED
      BY <3>1, <3>2
  <2> QED
    BY <1>2, <2>1 DEF LoadInstallation, Removed, hostFiles, dockerState
<1>3. CASE RemoveApps(p)
  <2>1. CASE nCmd[p].todo = {} /\ nPc' = [nPc EXCEPT ![p] = "rm_registry"] /\ stacks' = stacks
    BY <1>1, <1>3, <2>1 DEF RemoveApps, Removed, hostFiles
  <2>2. ASSUME NEW e \in nCmd[p].todo, stacks' = stacks \ {<<e, "in-place">>},
               nCmd' = [nCmd EXCEPT ![p].todo = @ \ {e}], nPc' = nPc
        PROVE  StacksRecorded' /\ Removed(p)'
    <3>1. nPc'[p] = "rm_apps" /\ nCmd'[p].todo = nCmd[p].todo \ {e} /\ appDirs' = appDirs
      BY <1>1, <1>3, <2>2 DEF RemoveApps, PlatformCmds, hostFiles
    <3> QED
      BY <1>3, <2>2, <3>1 DEF RemoveApps, Removed
  <2>3. nPc[p] \in Uninstalling
    BY <1>3 DEF RemoveApps
  <2> QED
    BY <1>3, <2>1, <2>2, <2>3 DEF RemoveApps
<1>4. CASE RemoveRegistry(p)
  <2>1. nPc'[p] = "rm_nginx" /\ nPc[p] = "rm_registry"
    BY <1>1, <1>4 DEF RemoveRegistry
  <2> QED
    BY <1>4, <2>1 DEF RemoveRegistry, Removed, hostFiles
<1>5. CASE RemoveNginx(p)
  <2>1. nPc'[p] = "rm_net" /\ nPc[p] = "rm_nginx"
    BY <1>1, <1>5 DEF RemoveNginx
  <2>2. ~ingress'.on
    BY <1>5 DEF RemoveNginx, NoIngress
  <2> QED
    BY <1>5, <2>1, <2>2 DEF RemoveNginx, Removed, hostFiles
<1>6. CASE RemoveNetwork(p)
  <2>1. nPc[p] = "rm_net"
    BY <1>6 DEF RemoveNetwork
  <2>2. \/ nPc'[p] = "idle"
        \/ nPc'[p] = "rm_state" /\ Shared \notin overlays'
    BY <1>1, <1>6 DEF RemoveNetwork
  <2>3. UNCHANGED <<stacks, appDirs, registry, ingress>>
    BY <1>6 DEF RemoveNetwork, hostFiles
  <2> QED
    BY <2>1, <2>2, <2>3 DEF Removed
<1>7. CASE RemoveGeneratedState(p)
  <2>1. nPc[p] = "rm_state" /\ nPc'[p] \in {"rm_data", "rm_meta"}
        /\ (nPc'[p] = "rm_meta" => ~nCmd[p].purge)
    BY <1>1, <1>7 DEF RemoveGeneratedState, PlatformCmds
  <2>2. /\ appDirs' = {} /\ routes' = {} /\ stackFile' = Absent /\ mainConf' = "none"
        /\ UNCHANGED <<stacks, registry, ingress, overlays, nCmd>>
    BY <1>7 DEF RemoveGeneratedState, dockerState
  <2> QED
    BY <2>1, <2>2 DEF Removed
<1>8. CASE RemoveData(p)
  <2>1. nPc[p] = "rm_data" /\ nPc'[p] = "rm_meta"
    BY <1>1, <1>8 DEF RemoveData
  <2>2. ~data' /\ UNCHANGED <<stacks, registry, ingress, overlays, appDirs, routes, stackFile, mainConf>>
    BY <1>8 DEF RemoveData, dockerState, ingressDir, confFiles
  <2> QED
    BY <2>1, <2>2 DEF Removed
<1>9. CASE RemoveInstallMetadata(p)
  <2>1. nPc[p] = "rm_meta" /\ nPc'[p] = "idle" /\ UNCHANGED <<stacks, appDirs>>
    BY <1>1, <1>9 DEF RemoveInstallMetadata, dockerState
  <2> QED
    BY <2>1
<1> QED
  BY <1>2, <1>3, <1>4, <1>5, <1>6, <1>7, <1>8, <1>9 DEF Uninstall

LEMMA UninstallStep ==
  ASSUME PlatformTypes, UninstallInv, [PlatformNext]_platformVars
  PROVE  UninstallInv'
<1>1. SUFFICES ASSUME ~raced'
               PROVE  StacksRecorded' /\ UninstallsAlone'
  BY Zenon DEF UninstallInv, StacksRecorded, UninstallsAlone
<1>2. ~raced /\ StacksRecorded /\ UninstallsAlone
  BY <1>1, RacedStays, Zenon DEF UninstallInv, StacksRecorded, UninstallsAlone
<1>3. ASSUME NEW p \in Commands, PlatformStepOf(p)
      PROVE  StacksRecorded' /\ UninstallsAlone'
  <2>1. \A q \in Commands \ {p} : nPc'[q] = nPc[q] /\ nCmd'[q] = nCmd[q]
    BY <1>3, CommandsStep
  <2>2. CASE Uninstall(p)
    <3>1. nPc[p] \in Uninstalling
      BY <2>2
         DEF Uninstall, LoadInstallation, RemoveApps, RemoveRegistry, RemoveNginx, RemoveNetwork,
             RemoveGeneratedState, RemoveData, RemoveInstallMetadata, NAt, Uninstalling
    <3>2. Removed(p) /\ \A q \in Commands \ {p} : nPc'[q] = "idle"
      BY <1>2, <2>1, <3>1 DEF UninstallsAlone
    <3>3. StacksRecorded' /\ (nPc'[p] \in Uninstalling => Removed(p)')
      BY <1>2, <2>2, <3>2, UninstallGoes
    <3> QED
      BY <3>2, <3>3 DEF UninstallsAlone, Uninstalling
  <2>3. CASE ~Uninstall(p)
    <3>1. StacksRecorded'
      BY <1>2, <1>3, <2>3, OthersRecord
    <3>2. CASE nPc[p] # "idle" /\ nPc'[p] \notin Uninstalling
      BY <1>2, <2>1, <3>1, <3>2 DEF UninstallsAlone
    <3>3. CASE /\ nPc[p] = "idle" /\ nPc'[p] \in {"swarm", "app", "load"}
               /\ LET busy == {nPc[q] : q \in Commands} \ {"idle"} IN
                  raced' = (raced \/ (busy # {} /\ (busy \cup {nPc'[p]}) \cap Uninstalling # {}))
      <4>1. CASE \A q \in Commands : nPc[q] = "idle"
        <5>1. \A q \in Commands : nPc'[q] \in Uninstalling => q = p
          BY <2>1, <4>1 DEF Uninstalling
        <5>2. Removed(p)'
          BY <3>3 DEF Removed
        <5> QED
          BY <2>1, <3>1, <4>1, <5>1, <5>2 DEF UninstallsAlone
      <4>2. CASE \E q \in Commands : nPc[q] # "idle"
        <5>1. nPc'[p] \notin Uninstalling /\ \A q \in Commands : nPc[q] # "idle" => nPc[q] \notin Uninstalling
          <6>1. PICK q \in Commands : nPc[q] # "idle"
            BY <4>2
          <6> DEFINE busy == {nPc[r] : r \in Commands} \ {"idle"}
          <6>2. nPc[q] \in busy /\ \A r \in Commands : nPc[r] # "idle" => nPc[r] \in busy
            BY <6>1
          <6>3. (busy \cup {nPc'[p]}) \cap Uninstalling = {}
            BY <1>1, <3>3, <6>2
          <6> HIDE DEF busy
          <6> QED
            BY <6>2, <6>3
        <5>2. \A q \in Commands : nPc'[q] \notin Uninstalling
          BY <2>1, <5>1 DEF Uninstalling
        <5> QED
          BY <3>1, <5>2 DEF UninstallsAlone
      <4> QED
        BY <4>1, <4>2
    <3> QED
      BY <1>3, <2>3, <3>2, <3>3, WhoUninstalls
  <2> QED
    BY <2>2, <2>3
<1>4. CASE RegistryRuns \/ UpdateIngress \/ TasksGone \/ UNCHANGED platformVars
  <2>1. UNCHANGED <<nPc, nCmd, stacks, appDirs, routes, stackFile, mainConf, data, overlays>>
    BY <1>4 DEF RegistryRuns, UpdateIngress, TasksGone, platformVars, hostFiles, ingressDir, confFiles,
         dockerState
  <2>2. (registry = "absent" => registry' = "absent") /\ (~ingress.on => ~ingress'.on)
    BY <1>4 DEF RegistryRuns, UpdateIngress, TasksGone, platformVars, dockerState
  <2>3. \A p \in Commands : Removed(p) => Removed(p)'
    BY <2>1, <2>2 DEF Removed
  <2> QED
    BY <1>2, <2>1, <2>3 DEF StacksRecorded, UninstallsAlone
<1> QED
  BY <1>3, <1>4, Zenon DEF PlatformNext, PlatformStepOf

-----------------------------------------------------------------------------
(* The theorems *)

PlatformInv == AttachInv /\ UninstallInv

LEMMA PlatformInitially == PlatformInit => PlatformInv
<1> SUFFICES ASSUME PlatformInit
             PROVE  PlatformInv
  OBVIOUS
<1> DEFINE net == CHOOSE e \in Envs : TRUE
<1>1. net \in Envs
  BY PlatformAssumption
<1> HIDE DEF net
<1>2. /\ installed \in BOOLEAN /\ data \in BOOLEAN /\ swarmActive \in BOOLEAN
      /\ networksFile \in {{net, Shared}, Absent} /\ stackFile \in {{}, Absent}
      /\ mainConf \in {"managed", "none"} /\ routesConf \in {"none", "bootstrap", "custom"}
      /\ lockFile \in {0, 1} /\ registry \in {"absent", "running"}
      /\ stacks \in {{}, {<<net, "in-place">>}}
  BY ZenonT(30) DEF PlatformInit, net
<1>3. /\ \/ appDirs = {} /\ overlays = {} /\ unseen = {} /\ ingress = NoIngress /\ stacks = {}
         \/ /\ appDirs = {net} /\ overlays = {net, Shared} /\ unseen = {net}
            /\ ingress \in {NoIngress, [NoIngress EXCEPT !.on = TRUE, !.nets = {net}]}
      /\ routes = appDirs
  BY Zenon DEF PlatformInit, net
<1>4. /\ inodes = 1 /\ draining = FALSE /\ raced = FALSE /\ nOps = 0 /\ nFaults = 0
      /\ nPc = [p \in Commands |-> "idle"] /\ nCmd = [p \in Commands |-> NoPlatformCmd]
  BY DEF PlatformInit
<1>5. /\ ingress \in IngressStates /\ (~ingress.on => ingress = NoIngress)
      /\ ingress.update = "" /\ ingress.previous = {} /\ ingress.nets \in {{}, unseen}
  <2>1. NoIngress \in IngressStates /\ NoIngress.update = "" /\ NoIngress.previous = {} /\ NoIngress.nets = {}
    BY DEF NoIngress, IngressStates, Updates
  <2>2. ASSUME ingress = [NoIngress EXCEPT !.on = TRUE, !.nets = {net}]
        PROVE  /\ ingress \in IngressStates /\ ingress.on
               /\ ingress.update = "" /\ ingress.previous = {} /\ ingress.nets = {net}
    BY <1>1, <2>2 DEF NoIngress, IngressStates, Updates, Networks
  <2> QED
    BY <1>3, <2>1, <2>2
<1>6. nPc \in [Commands -> Labels] /\ nCmd \in [Commands -> PlatformCmds]
  BY <1>4, NoPlatformCmdType DEF Labels
<1>7. PlatformTypeOK
  <2>1. /\ appDirs \subseteq Envs /\ routes \subseteq Envs
        /\ networksFile = Absent \/ networksFile \subseteq Networks \cup {Shared}
        /\ stackFile = Absent \/ stackFile \subseteq Networks
        /\ overlays \subseteq Networks \cup {Shared} /\ stacks \subseteq Envs \X Layouts
    BY <1>1, <1>2, <1>3 DEF Networks, Layouts
  <2>2. /\ ingress.nets \cup ingress.previous \subseteq Networks
        /\ ingress.update \in {"", "pending", "updating", "completed", "rolled_back"}
    BY <1>5 DEF IngressStates, Updates
  <2>3. lockFile \in 0..inodes /\ nOps \in 0..MaxPlatformOps /\ nFaults \in 0..MaxPlatformFaults
    BY <1>2, <1>4, PlatformAssumption
  <2> QED
    BY <1>2, <2>1, <2>2, <2>3 DEF PlatformTypeOK
<1>8. PlatformTypes
  BY <1>4, <1>5, <1>6, <1>7 DEF PlatformTypes
<1>9. Routed = routes /\ ~MayRollBack /\ \A p \in Commands : nPc[p] = "idle"
  BY <1>4, <1>5 DEF Routed, Attached, MayRollBack
<1>10. NetworksExist
  BY <1>3, <1>5, <1>9 DEF NetworksExist, Attaching, Attached
<1>11. NetworksAgree
  BY <1>2, <1>3, <1>5, <1>9 DEF NetworksAgree
<1>12. UninstallInv
  BY <1>2, <1>3, <1>9 DEF UninstallInv, Uninstalling
<1> QED
  BY <1>8, <1>10, <1>11, <1>12 DEF PlatformInv, AttachInv

LEMMA PlatformInvStep ==
  ASSUME PlatformInv, [PlatformNext]_platformVars
  PROVE  PlatformInv'
<1>1. PlatformTypes'
  BY PlatformTypesStep DEF PlatformInv, AttachInv
<1>2. Agreement'
  BY AttachStep DEF PlatformInv
<1>3. UninstallInv'
  BY UninstallStep DEF PlatformInv, AttachInv
<1> QED
  BY <1>1, <1>2, <1>3 DEF PlatformInv, AttachInv, Agreement

\* Every state that installs, deploys and uninstalls can reach has the types of
\* the host's files and services, the agreement of stack file, service and routes,
\* and what an uninstall has removed so far.
THEOREM PlatformInvariant == PlatformSpec => []PlatformInv
<1> QED
  BY PlatformInitially, PlatformInvStep, PTL DEF PlatformSpec

THEOREM PlatformTyped == PlatformSpec => []PlatformTypeOK
<1>1. PlatformInv => PlatformTypeOK
  BY DEF PlatformInv, AttachInv, PlatformTypes
<1> QED
  BY <1>1, PlatformInvariant, PTL

\* A step that changes the networks of the ingress leaves every routed
\* environment attached, apart from the exceptions.
LEMMA RoutesAttachedAfter ==
  ASSUME PlatformInv, [PlatformNext]_platformVars
  PROVE  ingress.nets # ingress'.nets /\ ingress'.on => routes \ unseen \subseteq ingress'.nets
<1> SUFFICES ASSUME ingress.nets # ingress'.nets, ingress'.on
             PROVE  routes \ unseen \subseteq ingress'.nets
  OBVIOUS
<1>1. routes \subseteq Routed
  BY DEF Routed
<1>2. CASE ingress.on /\ ingress.nets \subseteq ingress'.nets
  BY <1>1, <1>2 DEF PlatformInv, AttachInv, NetworksAgree
<1>3. CASE UNCHANGED <<routes, unseen>>
  <2>1. routes' \subseteq Routed'
    BY DEF Routed
  <2> QED
    BY <1>3, <2>1, AttachStep DEF PlatformInv, Agreement, NetworksAgree
<1>4. ASSUME NEW p \in Commands, AttachNetwork(p)
      PROVE  ingress.on /\ ingress.nets \subseteq ingress'.nets
  <2>1. ingress \in IngressStates
    BY AttachFacts DEF PlatformInv
  <2>2. ingress.on /\ \E w : ingress' = [ingress EXCEPT !.nets = @ \cup w, !.previous = ingress.nets,
                                                    !.update = "pending"]
    BY <1>4 DEF AttachNetwork
  <2> QED
    BY <2>1, <2>2 DEF IngressStates
<1>5. ASSUME NEW p \in Commands, ApplyNginxStack(p)
      PROVE  UNCHANGED <<routes, unseen>>
  BY <1>5 DEF ApplyNginxStack, hostFiles, ingressDir, overlapping
<1>6. ASSUME NEW p \in Commands, Uninstall(p)
      PROVE  FALSE
  <2>1. CASE RemoveNginx(p)
    BY <2>1 DEF RemoveNginx, NoIngress
  <2>2. CASE ~RemoveNginx(p)
    BY <1>6, <2>2
       DEF Uninstall, LoadInstallation, RemoveApps, RemoveRegistry, RemoveNetwork,
           RemoveGeneratedState, RemoveData, RemoveInstallMetadata, dockerState
  <2> QED
    BY <2>1, <2>2
<1>7. ASSUME NEW p \in Commands, PlatformStepOf(p), ~AttachNetwork(p), ~ApplyNginxStack(p), ~Uninstall(p)
      PROVE  FALSE
  <2>1. CASE StartInstall(p) \/ (\E e \in Envs : StartDeployApp(p, e))
               \/ \E purge \in BOOLEAN : StartUninstall(p, purge)
    BY <2>1 DEF StartInstall, StartDeployApp, StartUninstall, Launch, dockerState
  <2>2. CASE LockIngress(p) \/ PlatformFault(p)
    BY <2>2 DEF LockIngress, OpenLock, TakeLock, PlatformFault, dockerState
  <2>3. CASE Install(p)
    BY <1>7, <2>3
       DEF Install, EnsureSwarm, InspectSharedNetwork, CreateSharedNetwork, WriteRegistry,
           EnsureRegistry, WaitForRegistry, WriteNginxConf, RenderNginxStack, ValidateNginx,
           PrepareNginx, WaitForNginx, WaitForCertbot, WriteInstallMetadata, dockerState
  <2>4. CASE DeployApp(p)
    BY <1>7, <2>4
       DEF DeployApp, RunAppStack, NoSwarm, AttachConverges, SaveNetworks, RouteApp, dockerState
  <2> QED
    BY <1>7, <2>1, <2>2, <2>3, <2>4 DEF PlatformStepOf, PlatformStep
<1>8. CASE UpdateIngress
  BY <1>3, <1>8 DEF UpdateIngress, hostFiles, ingressDir, overlapping
<1>9. CASE RegistryRuns \/ TasksGone \/ UNCHANGED platformVars
  BY <1>9 DEF RegistryRuns, TasksGone, platformVars, dockerState
<1> QED
  BY <1>2, <1>3, <1>4, <1>5, <1>6, <1>7, <1>8, <1>9, Zenon DEF PlatformNext, PlatformStepOf

\* RoutedNetworksStayAttached: whoever changes the networks of the ingress, and in
\* whatever order installs, deploys, kills and rolled back updates come, the
\* environments that have a route keep their network.
THEOREM RoutesStayAttached == PlatformSpec => RoutedNetworksStayAttached
<1> QED
  BY RoutesAttachedAfter, PlatformInvariant, PTL DEF PlatformSpec, RoutedNetworksStayAttached

\* The uninstall that removes install.json has removed everything else.
LEMMA RemovedAll ==
  ASSUME PlatformInv, NEW p \in Commands, Uninstall(p), ~raced, installed, ~installed'
  PROVE  /\ registry = "absent" /\ ~ingress.on /\ Shared \notin overlays
         /\ \A e \in Envs : <<e, "in-place">> \notin stacks
         /\ appDirs = {} /\ routes = {} /\ stackFile = Absent /\ mainConf = "none"
         /\ nCmd[p].purge => ~data
<1>1. nPc[p] = "rm_meta"
  BY DEF Uninstall, LoadInstallation, RemoveApps, RemoveRegistry, RemoveNginx, RemoveNetwork,
         RemoveGeneratedState, RemoveData, RemoveInstallMetadata, NAt, hostFiles
<1>2. Removed(p)
  BY <1>1 DEF PlatformInv, UninstallInv, Uninstalling
<1> QED
  BY <1>1, <1>2 DEF Removed

\* UninstallLeavesNothing: however many uninstalls were killed or refused before.
THEOREM UninstallsLeaveNothing == PlatformSpec => UninstallLeavesNothing
<1>1. PlatformInv => [\A p \in Commands : (Uninstall(p) /\ ~raced /\ installed /\ ~installed') =>
        /\ registry = "absent" /\ ~ingress.on /\ Shared \notin overlays
        /\ \A e \in Envs : <<e, "in-place">> \notin stacks
        /\ appDirs = {} /\ routes = {} /\ stackFile = Absent /\ mainConf = "none"
        /\ nCmd[p].purge => ~data]_platformVars
  BY RemovedAll, Zenon
<1> QED
  BY <1>1, PlatformInvariant, PTL DEF UninstallLeavesNothing

-----------------------------------------------------------------------------
(* Upgrade: the inductive invariant *)

Progress == [self : Builds, target : Builds, candidate : Builds, original : Catalogs,
             changed : BOOLEAN]

\* What the steps read.
UpgradeTypes ==
  /\ executable \in Builds /\ catalog \in Catalogs
  /\ uPc \in [Upgraders -> {"idle", "download", "adopt", "adopt_write", "replace"}]
  /\ uCmd \in [Upgraders -> Progress]
  /\ overlapped \subseteq Upgraders /\ apart \in BOOLEAN

\* A command during which nobody else wrote.
Alone(p) == uPc[p] # "idle" /\ p \notin overlapped

\* It is the only one; two at once, or an edit during one, are noted.
OverlapIsNoted ==
  /\ \A p, q \in Upgraders : Alone(p) /\ uPc[q] # "idle" => q = p
  /\ ~apart => \A p \in Upgraders : uPc[p] # "idle" => Alone(p)

\* What it has done so far: the catalog is what it read or wrote, and unless the
\* two were apart before it, what it read was in step with the executable.
Undisturbed(p) ==
  LET c == uCmd[p] IN
  /\ c.self = executable
  /\ uPc[p] \in {"adopt", "adopt_write", "replace"} => c.self = c.target \/ c.candidate = c.target
  /\ uPc[p] = "adopt_write" => c.original = catalog /\ c.changed
  /\ uPc[p] = "replace" => /\ catalog.version = c.target
                           /\ ~c.changed => c.original = catalog
                           /\ ~apart => c.original.version = executable
  /\ uPc[p] \in {"download", "adopt", "adopt_write"} /\ ~apart => catalog.version = executable

UpgradeInv ==
  /\ UpgradeTypes
  /\ OverlapIsNoted
  /\ \A p \in Upgraders : Alone(p) => Undisturbed(p)
  /\ UpgradeKeepsInStep

\* No command runs yet, and what is apart then counts as apart.
LEMMA UpgradeInitially == UpgradeInit => UpgradeInv
<1> SUFFICES ASSUME UpgradeInit PROVE UpgradeInv
  OBVIOUS
<1> USE DEF UpgradeInit
<1>1. UpgradeTypes
  BY DEF UpgradeTypes, Progress, NoUpgrade, Builds, Catalogs
<1>2. \A p \in Upgraders : uPc[p] = "idle"
  OBVIOUS
<1>3. UpgradeKeepsInStep
  BY DEF UpgradeKeepsInStep
<1> QED
  BY <1>1, <1>2, <1>3 DEF UpgradeInv, OverlapIsNoted, Alone

\* A command's progress with some of its fields changed.
LEMMA ProgressUpdates ==
  ASSUME NEW c \in Progress, NEW a \in Builds, NEW b \in Builds, NEW d \in Catalogs,
         NEW e \in BOOLEAN
  PROVE  /\ [c EXCEPT !.self = a, !.target = b] \in Progress
         /\ [c EXCEPT !.candidate = a] \in Progress
         /\ [c EXCEPT !.original = d, !.changed = e] \in Progress
         /\ [self |-> 0, target |-> 0, candidate |-> 0, original |-> d, changed |-> FALSE] \in Progress
  BY DEF Progress, Builds

\* Builds, catalogs and the progress of commands keep their types.
LEMMA UpgradeTypesStep ==
  ASSUME UpgradeTypes, [UpgradeNext]_upgradeVars
  PROVE  UpgradeTypes'
<1> USE UpgradeAssumption DEF UpgradeTypes, UGoto, UAt, Ends
<1>0. /\ Releases \subseteq Builds
      /\ \A c \in Progress : {c.target, c.candidate} \subseteq Builds /\ c.original \in Catalogs
      /\ \A c \in Catalogs, b \in Builds : [c EXCEPT !.version = b, !.prefixed = FALSE] \in Catalogs
      /\ \A d \in Catalogs : NoUpgrade(d) \in Progress
  BY DEF Progress, Builds, Catalogs, NoUpgrade
<1>1. ASSUME NEW p \in Upgraders, NEW target \in Releases, NEW down \in BOOLEAN,
             StartUpgrade(p, target, down)
      PROVE  UpgradeTypes'
  <2>1. CASE UNCHANGED <<uPc, uCmd, overlapped, apart>>
    BY <1>1, <2>1 DEF StartUpgrade
  <2>2. CASE /\ uCmd' = [uCmd EXCEPT ![p].self = executable, ![p].target = target]
             /\ \E l \in {"adopt", "download"} : uPc' = [uPc EXCEPT ![p] = l]
             /\ overlapped' = IF Active = {} THEN {} ELSE Active \cup {p}
             /\ apart' = (apart \/ Active # {})
    <3> DEFINE c == [uCmd[p] EXCEPT !.self = executable, !.target = target]
    <3>1. c \in Progress
      BY <1>0, ProgressUpdates
    <3>2. uCmd' = [uCmd EXCEPT ![p] = c]
      BY <2>2
    <3> HIDE DEF c
    <3>3. uCmd' \in [Upgraders -> Progress]
      BY <3>1, <3>2
    <3>4. UNCHANGED <<executable, catalog>>
      BY <1>1 DEF StartUpgrade
    <3> QED
      BY <2>2, <3>3, <3>4 DEF Active
  <2> QED
    BY <1>1, <2>1, <2>2 DEF StartUpgrade
<1>2. ASSUME NEW p \in Upgraders, NEW served \in Builds \cup {Garbage}, Download(p, served)
      PROVE  UpgradeTypes'
  <2>1. CASE /\ Verified(served, uCmd[p].target)
             /\ uCmd' = [uCmd EXCEPT ![p].candidate = served]
             /\ UGoto(p, "adopt")
    <3> DEFINE c == [uCmd[p] EXCEPT !.candidate = served]
    <3>1. served \in Builds
      BY <1>0, <2>1 DEF Verified
    <3>2. c \in Progress
      BY <3>1, ProgressUpdates
    <3>3. uCmd' = [uCmd EXCEPT ![p] = c]
      BY <2>1
    <3> HIDE DEF c
    <3>4. uCmd' \in [Upgraders -> Progress]
      BY <3>2, <3>3
    <3> QED
      BY <1>2, <2>1, <3>4 DEF Download
  <2>2. CASE /\ UGoto(p, "idle")
             /\ uCmd' = [uCmd EXCEPT ![p] = NoUpgrade(catalog)]
    BY <1>2, <1>0, <2>2 DEF Download
  <2> QED
    BY <1>2, <2>1, <2>2 DEF Download
<1>3. ASSUME NEW p \in Upgraders, AdoptRead(p) PROVE UpgradeTypes'
  <2> DEFINE same == Accepts(catalog, uCmd[p].target)
             c == [uCmd[p] EXCEPT !.original = catalog, !.changed = ~same]
  <2>1. same \in BOOLEAN
    BY DEF Accepts
  <2>2. c \in Progress
    BY <2>1, ProgressUpdates
  <2>3. uCmd' = [uCmd EXCEPT ![p] = c]
    BY <1>3 DEF AdoptRead
  <2>4. \E l \in {"replace", "adopt_write"} : uPc' = [uPc EXCEPT ![p] = l]
    BY <1>3 DEF AdoptRead
  <2>5. UNCHANGED <<executable, catalog, overlapped, apart>>
    BY <1>3 DEF AdoptRead
  <2> HIDE DEF c, same
  <2> QED
    BY <2>2, <2>3, <2>4, <2>5
<1>4. ASSUME NEW p \in Upgraders, AdoptWrite(p) PROVE UpgradeTypes'
  <2>1. catalog' \in Catalogs
    BY <1>0, <1>4 DEF AdoptWrite
  <2>2. CASE Ends(p) /\ apart' = (apart /\ p \in overlapped)
    <3>1. apart' \in BOOLEAN
      BY <2>2
    <3> QED
      BY <1>0, <1>4, <2>1, <2>2, <3>1 DEF AdoptWrite
  <2>3. CASE UGoto(p, "replace") /\ UNCHANGED <<uCmd, apart>>
    BY <1>4, <2>1, <2>3 DEF AdoptWrite
  <2> QED
    BY <1>4, <2>2, <2>3 DEF AdoptWrite
<1>5. ASSUME NEW p \in Upgraders, AdoptFails(p) PROVE UpgradeTypes'
  BY <1>0, <1>5 DEF AdoptFails
<1>6. ASSUME NEW p \in Upgraders, ReplaceExecutable(p) PROVE UpgradeTypes'
  <2>1. apart' \in BOOLEAN
    BY <1>6 DEF ReplaceExecutable
  <2>2. executable' \in Builds
    BY <1>0, <1>6 DEF ReplaceExecutable
  <2>3. uCmd' \in [Upgraders -> Progress] /\ UNCHANGED <<catalog, overlapped>>
    BY <1>0, <1>6 DEF ReplaceExecutable
  <2>4. uPc' = [uPc EXCEPT ![p] = "idle"]
    BY <1>6 DEF ReplaceExecutable
  <2> QED
    BY <2>1, <2>2, <2>3, <2>4
<1>7. ASSUME NEW p \in Upgraders, AlreadyAdopted(p) PROVE UpgradeTypes'
  BY <1>0, <1>7 DEF AlreadyAdopted
<1>8. ASSUME NEW p \in Upgraders, ReplaceFails(p) PROVE UpgradeTypes'
  BY <1>0, <1>8 DEF ReplaceFails
<1>9. ASSUME NEW p \in Upgraders, KillUpgrade(p) PROVE UpgradeTypes'
  BY <1>0, <1>9 DEF KillUpgrade
<1>10. CASE EditCatalog
  BY <1>10 DEF EditCatalog, Active
<1>11. CASE UNCHANGED upgradeVars
  BY <1>11 DEF upgradeVars
<1> QED
  BY <1>1, <1>2, <1>3, <1>4, <1>5, <1>6, <1>7, <1>8, <1>9, <1>10, <1>11 DEF UpgradeNext

\* A command that goes on or ends, and changes neither what overlapped nor,
\* except to clear it when it was alone, whether the two are apart.
LEMMA QuietOverlap ==
  ASSUME UpgradeTypes, OverlapIsNoted, NEW p \in Upgraders, NEW l, uPc[p] # "idle",
         uPc' = [uPc EXCEPT ![p] = l], UNCHANGED overlapped,
         apart' = apart \/ apart' = TRUE \/ (apart' = FALSE /\ p \notin overlapped)
  PROVE  OverlapIsNoted'
<1>1. \A q \in Upgraders : uPc'[q] # "idle" => uPc[q] # "idle"
  BY DEF UpgradeTypes
<1>2. \A q \in Upgraders : Alone(q)' => Alone(q)
  BY <1>1 DEF Alone
<1>3. ASSUME ~apart', NEW q \in Upgraders, uPc'[q] # "idle"
      PROVE  Alone(q)'
  <2>1. uPc[q] # "idle"
    BY <1>1, <1>3
  <2>2. Alone(q)
    BY <1>3, <2>1 DEF OverlapIsNoted, Alone
  <2> QED
    BY <1>3, <2>2 DEF Alone
<1> QED
  BY <1>1, <1>2, <1>3 DEF OverlapIsNoted

\* Each way in which a command can meet another writer is noted.
LEMMA OverlapStep ==
  ASSUME UpgradeTypes, OverlapIsNoted, [UpgradeNext]_upgradeVars
  PROVE  OverlapIsNoted'
<1> USE DEF UGoto, UAt, Ends
<1>1. ASSUME NEW p \in Upgraders, NEW target \in Releases, NEW down \in BOOLEAN,
             StartUpgrade(p, target, down)
      PROVE  OverlapIsNoted'
  <2>1. CASE UNCHANGED <<uPc, uCmd, overlapped, apart>>
    BY <2>1 DEF OverlapIsNoted, Alone
  <2>2. CASE /\ uPc[p] = "idle"
             /\ \E l \in {"adopt", "download"} : uPc' = [uPc EXCEPT ![p] = l]
             /\ overlapped' = IF Active = {} THEN {} ELSE Active \cup {p}
             /\ apart' = (apart \/ Active # {})
    <3>1. \A q \in Upgraders : uPc'[q] # "idle" <=> q = p \/ uPc[q] # "idle"
      BY <2>2 DEF UpgradeTypes
    <3>2. CASE Active = {}
      BY <2>2, <3>1, <3>2 DEF OverlapIsNoted, Alone, Active
    <3>3. CASE Active # {}
      <4>1. apart' /\ \A q \in Upgraders : ~Alone(q)'
        BY <2>2, <3>1, <3>3 DEF Alone, Active
      <4> QED
        BY <4>1 DEF OverlapIsNoted
    <3> QED
      BY <3>2, <3>3
  <2> QED
    BY <1>1, <2>1, <2>2 DEF StartUpgrade
<1>2. ASSUME NEW p \in Upgraders, NEW served \in Builds \cup {Garbage}, Download(p, served)
      PROVE  OverlapIsNoted'
  BY <1>2, QuietOverlap DEF Download
<1>3. ASSUME NEW p \in Upgraders, AdoptRead(p) PROVE OverlapIsNoted'
  BY <1>3, QuietOverlap DEF AdoptRead
<1>4. ASSUME NEW p \in Upgraders, AdoptWrite(p) PROVE OverlapIsNoted'
  BY <1>4, QuietOverlap DEF AdoptWrite, UpgradeTypes
<1>5. ASSUME NEW p \in Upgraders, AdoptFails(p) PROVE OverlapIsNoted'
  BY <1>5, QuietOverlap DEF AdoptFails
<1>6. ASSUME NEW p \in Upgraders, ReplaceExecutable(p) PROVE OverlapIsNoted'
  BY <1>6, QuietOverlap DEF ReplaceExecutable, UpgradeTypes
<1>7. ASSUME NEW p \in Upgraders, AlreadyAdopted(p) PROVE OverlapIsNoted'
  BY <1>7, QuietOverlap DEF AlreadyAdopted
<1>8. ASSUME NEW p \in Upgraders, ReplaceFails(p) PROVE OverlapIsNoted'
  BY <1>8, QuietOverlap DEF ReplaceFails
<1>9. ASSUME NEW p \in Upgraders, KillUpgrade(p) PROVE OverlapIsNoted'
  BY <1>9, QuietOverlap DEF KillUpgrade
<1>10. CASE EditCatalog
  <2>1. UNCHANGED uPc /\ overlapped' = overlapped \cup Active /\ apart' = (apart \/ Active # {} \/ catalog'.version # executable)
    BY <1>10 DEF EditCatalog
  <2>2. \A q \in Upgraders : ~Alone(q)'
    BY <2>1 DEF Alone, Active
  <2>3. ~apart' => \A q \in Upgraders : uPc'[q] = "idle"
    BY <2>1 DEF Active
  <2> QED
    BY <2>2, <2>3 DEF OverlapIsNoted
<1>11. CASE UNCHANGED upgradeVars
  BY <1>11 DEF upgradeVars, OverlapIsNoted, Alone
<1> QED
  BY <1>1, <1>2, <1>3, <1>4, <1>5, <1>6, <1>7, <1>8, <1>9, <1>10, <1>11 DEF UpgradeNext

\* Only a command itself moves while it is alone.
LEMMA OthersNotAlone ==
  ASSUME UpgradeTypes, OverlapIsNoted, NEW p \in Upgraders, NEW l, uPc[p] # "idle",
         uPc' = [uPc EXCEPT ![p] = l], UNCHANGED overlapped,
         NEW q \in Upgraders, Alone(q)'
  PROVE  q = p /\ Alone(p)
<1>1. uPc[q] # "idle" /\ q \notin overlapped
  BY DEF Alone, UpgradeTypes
<1> QED
  BY <1>1 DEF Alone, OverlapIsNoted

\* A command that is alone finds the catalog as it left it.
LEMMA UndisturbedStep ==
  ASSUME UpgradeTypes, OverlapIsNoted, UpgradeKeepsInStep,
         \A p \in Upgraders : Alone(p) => Undisturbed(p),
         [UpgradeNext]_upgradeVars
  PROVE  \A p \in Upgraders : Alone(p)' => Undisturbed(p)'
<1> SUFFICES ASSUME NEW q \in Upgraders, Alone(q)'
             PROVE  Undisturbed(q)'
  OBVIOUS
<1> USE DEF UGoto, UAt, Ends
<1>1. ASSUME NEW p \in Upgraders, NEW target \in Releases, NEW down \in BOOLEAN,
             StartUpgrade(p, target, down)
      PROVE  Undisturbed(q)'
  <2>0. UNCHANGED <<executable, catalog>> /\ uPc[p] = "idle"
    BY <1>1 DEF StartUpgrade
  <2>1. CASE UNCHANGED <<uPc, uCmd, overlapped, apart>>
    BY <2>0, <2>1 DEF Alone, Undisturbed
  <2>2. CASE /\ uCmd' = [uCmd EXCEPT ![p].self = executable, ![p].target = target]
             /\ uPc' = [uPc EXCEPT ![p] = IF executable = target THEN "adopt" ELSE "download"]
             /\ overlapped' = IF Active = {} THEN {} ELSE Active \cup {p}
             /\ apart' = (apart \/ Active # {})
    <3>1. uPc'[q] # "idle" => q = p \/ q \in Active
      BY <2>2 DEF UpgradeTypes, Active
    <3>2. Active = {} /\ q = p
      BY <2>2, <3>1 DEF Alone
    <3>3. uCmd'[p].self = executable /\ uCmd'[p].target = target
      BY <2>2 DEF UpgradeTypes, Progress
    <3>4. ~apart' => catalog.version = executable
      BY <2>2, <3>2 DEF UpgradeKeepsInStep
    <3>5. uPc'[p] = IF executable = target THEN "adopt" ELSE "download"
      BY <2>2 DEF UpgradeTypes
    <3> QED
      BY <2>0, <3>2, <3>3, <3>4, <3>5 DEF Undisturbed
  <2> QED
    BY <1>1, <2>1, <2>2 DEF StartUpgrade
<1>2. ASSUME NEW p \in Upgraders, NEW served \in Builds \cup {Garbage}, Download(p, served)
      PROVE  Undisturbed(q)'
  <2>1. q = p /\ Alone(p)
    BY <1>2, OthersNotAlone DEF Download
  <2>2. Undisturbed(p)
    BY <2>1
  <2>3. Verified(served, uCmd[p].target)
    BY <1>2, <2>1 DEF Download, Alone, UpgradeTypes
  <2>4. /\ uCmd'[p].candidate = served /\ uCmd'[p].self = uCmd[p].self
        /\ uCmd'[p].target = uCmd[p].target /\ uPc'[p] = "adopt"
    BY <1>2, <2>3 DEF Download, UpgradeTypes, Progress
  <2>5. UNCHANGED <<executable, catalog, apart>> /\ uPc[p] = "download"
    BY <1>2 DEF Download
  <2> QED
    BY <2>1, <2>2, <2>3, <2>4, <2>5 DEF Undisturbed, Verified
<1>3. ASSUME NEW p \in Upgraders, AdoptRead(p) PROVE Undisturbed(q)'
  <2>1. q = p /\ Alone(p)
    BY <1>3, OthersNotAlone DEF AdoptRead
  <2>2. Undisturbed(p)
    BY <2>1
  <2>3. /\ uCmd'[p].original = catalog
        /\ uCmd'[p].changed = ~Accepts(catalog, uCmd[p].target)
        /\ uCmd'[p].self = uCmd[p].self /\ uCmd'[p].target = uCmd[p].target
        /\ uCmd'[p].candidate = uCmd[p].candidate
    BY <1>3 DEF AdoptRead, UpgradeTypes, Progress
  <2>4. uPc'[p] = IF Accepts(catalog, uCmd[p].target) THEN "replace" ELSE "adopt_write"
    BY <1>3 DEF AdoptRead, UpgradeTypes
  <2>5. UNCHANGED <<executable, catalog, apart>> /\ uPc[p] = "adopt"
    BY <1>3 DEF AdoptRead
  <2> QED
    BY <2>1, <2>2, <2>3, <2>4, <2>5 DEF Undisturbed, Accepts
<1>4. ASSUME NEW p \in Upgraders, AdoptWrite(p) PROVE Undisturbed(q)'
  <2>1. q = p /\ Alone(p)
    BY <1>4, OthersNotAlone DEF AdoptWrite
  <2>2. Undisturbed(p) /\ uPc[p] = "adopt_write"
    BY <1>4, <2>1 DEF AdoptWrite
  <2>3. uPc'[p] = "replace" /\ UNCHANGED <<uCmd, apart, executable>>
    BY <1>4, <2>1 DEF AdoptWrite, Alone, UpgradeTypes
  <2>4. catalog'.version = uCmd[p].target
    BY <1>4 DEF AdoptWrite, UpgradeTypes, Progress, Catalogs
  <2> QED
    BY <2>1, <2>2, <2>3, <2>4 DEF Undisturbed
<1>5. ASSUME NEW p \in Upgraders, \/ AdoptFails(p) \/ ReplaceExecutable(p) \/ AlreadyAdopted(p)
                                  \/ ReplaceFails(p) \/ KillUpgrade(p)
      PROVE  Undisturbed(q)'
  <2>1. uPc[p] # "idle" /\ uPc' = [uPc EXCEPT ![p] = "idle"] /\ UNCHANGED overlapped
    BY <1>5 DEF AdoptFails, ReplaceExecutable, AlreadyAdopted, ReplaceFails, KillUpgrade
  <2>2. q = p
    BY <2>1, OthersNotAlone
  <2> QED
    BY <2>1, <2>2 DEF Alone, UpgradeTypes
<1>6. CASE EditCatalog
  BY <1>6 DEF EditCatalog, Alone, Active
<1>7. CASE UNCHANGED upgradeVars
  BY <1>7 DEF upgradeVars, Alone, Undisturbed
<1> QED
  BY <1>1, <1>2, <1>3, <1>4, <1>5, <1>6, <1>7 DEF UpgradeNext

\* Whoever ends a command last, with nothing noted, leaves the two in step.
LEMMA InStepStep ==
  ASSUME UpgradeTypes, OverlapIsNoted, UpgradeKeepsInStep,
         \A p \in Upgraders : Alone(p) => Undisturbed(p),
         [UpgradeNext]_upgradeVars
  PROVE  UpgradeKeepsInStep'
<1> SUFFICES ASSUME ~apart', Active' = {}
             PROVE  catalog'.version = executable'
  BY DEF UpgradeKeepsInStep
<1> USE DEF UGoto, UAt, Ends
<1>0. \A p \in Upgraders : uPc[p] # "idle" /\ (apart => p \notin overlapped) => Undisturbed(p)
  BY DEF OverlapIsNoted, Alone
<1>1. ASSUME NEW p \in Upgraders, NEW target \in Releases, NEW down \in BOOLEAN,
             StartUpgrade(p, target, down)
      PROVE  catalog'.version = executable'
  <2>1. UNCHANGED <<uPc, apart>>
    <3>1. uPc'[p] = "idle"
      BY DEF Active
    <3> QED
      BY <1>1, <3>1 DEF StartUpgrade, UpgradeTypes
  <2> QED
    BY <1>1, <2>1 DEF StartUpgrade, UpgradeKeepsInStep, Active
<1>2. ASSUME NEW p \in Upgraders,
             \/ \E served \in Builds \cup {Garbage} : Download(p, served)
             \/ AdoptRead(p) \/ AdoptFails(p)
      PROVE  catalog'.version = executable'
  <2>1. /\ UNCHANGED <<executable, catalog, apart>>
        /\ uPc[p] \in {"download", "adopt", "adopt_write"}
    BY <1>2 DEF Download, AdoptRead, AdoptFails
  <2>2. Undisturbed(p)
    BY <1>0, <2>1
  <2> QED
    BY <2>1, <2>2 DEF Undisturbed
<1>3. ASSUME NEW p \in Upgraders, AdoptWrite(p) PROVE catalog'.version = executable'
  <2>1. uCmd[p].self = uCmd[p].target /\ apart' = (apart /\ p \in overlapped)
    <3>1. uPc'[p] = "idle"
      BY DEF Active
    <3> QED
      BY <1>3, <3>1 DEF AdoptWrite, UpgradeTypes
  <2>2. Undisturbed(p)
    BY <1>0, <1>3, <2>1 DEF AdoptWrite
  <2>3. catalog'.version = uCmd[p].target /\ UNCHANGED executable
    BY <1>3 DEF AdoptWrite, UpgradeTypes, Progress, Catalogs
  <2> QED
    BY <2>1, <2>2, <2>3 DEF Undisturbed
<1>4. ASSUME NEW p \in Upgraders, ReplaceExecutable(p) PROVE catalog'.version = executable'
  <2>1. Undisturbed(p)
    BY <1>0, <1>4 DEF ReplaceExecutable
  <2> QED
    BY <1>4, <2>1 DEF ReplaceExecutable, Undisturbed
<1>5. ASSUME NEW p \in Upgraders, AlreadyAdopted(p) PROVE catalog'.version = executable'
  <2>1. Undisturbed(p)
    BY <1>0, <1>5 DEF AlreadyAdopted
  <2> QED
    BY <1>5, <2>1 DEF AlreadyAdopted, Undisturbed
<1>6. ASSUME NEW p \in Upgraders, ReplaceFails(p) PROVE catalog'.version = executable'
  <2>1. Undisturbed(p) /\ ~apart /\ UNCHANGED executable
    BY <1>0, <1>6 DEF ReplaceFails
  <2>2. uCmd[p].original.version = executable
    BY <1>6, <2>1 DEF ReplaceFails, Undisturbed
  <2>3. catalog' = uCmd[p].original
    BY <1>6, <2>1 DEF ReplaceFails, Undisturbed
  <2> QED
    BY <2>1, <2>2, <2>3
<1>7. CASE \E p \in Upgraders : KillUpgrade(p)
  BY <1>7 DEF KillUpgrade
<1>8. CASE EditCatalog
  BY <1>8 DEF EditCatalog
<1>9. CASE UNCHANGED upgradeVars
  BY <1>9 DEF upgradeVars, UpgradeKeepsInStep, Active
<1> QED
  BY <1>1, <1>2, <1>3, <1>4, <1>5, <1>6, <1>7, <1>8, <1>9 DEF UpgradeNext

\* Everything the argument rests on holds in every reachable state.
THEOREM UpgradeInvariant == UpgradeSpec => []UpgradeInv
<1>1. UpgradeInv /\ [UpgradeNext]_upgradeVars => UpgradeInv'
  BY UpgradeTypesStep, OverlapStep, UndisturbedStep, InStepStep DEF UpgradeInv
<1> QED
  BY UpgradeInitially, <1>1, PTL DEF UpgradeSpec

\* Executable and catalog are in step between commands, for any releases and any
\* number of upgrades at once.
THEOREM UpgradesKeepInStep == UpgradeSpec => []UpgradeKeepsInStep
<1>1. UpgradeInv => UpgradeKeepsInStep
  BY DEF UpgradeInv
<1> QED
  BY <1>1, UpgradeInvariant, PTL
\* Every command that was started, killed or overtaken is counted.
LEMMA UpgradeBoundsStep ==
  ASSUME UpgradeTypeOK, [UpgradeNext]_upgradeVars
  PROVE  uOps' \in 0..MaxUpgrades /\ uFaults' \in 0..MaxUpgradeFaults /\ edits' \in 0..MaxEdits
<1>1. /\ uOps' = uOps \/ (uOps < MaxUpgrades /\ uOps' = uOps + 1)
      /\ uFaults' = uFaults \/ (uFaults < MaxUpgradeFaults /\ uFaults' = uFaults + 1)
      /\ edits' = edits \/ (edits < MaxEdits /\ edits' = edits + 1)
  BY DEF UpgradeNext, StartUpgrade, Download, AdoptRead, AdoptWrite, AdoptFails, ReplaceExecutable,
         AlreadyAdopted, ReplaceFails, KillUpgrade, EditCatalog, upgradeVars
<1>2. /\ uOps \in 0..MaxUpgrades /\ uFaults \in 0..MaxUpgradeFaults /\ edits \in 0..MaxEdits
      /\ MaxUpgrades \in Nat /\ MaxUpgradeFaults \in Nat /\ MaxEdits \in Nat
  BY UpgradeAssumption DEF UpgradeTypeOK
<1> QED
  BY <1>1, <1>2

\* What replaces the executable is a release, never an archive that was damaged.
THEOREM UpgradeIsTyped == UpgradeSpec => []UpgradeTypeOK
<1>1. UpgradeInit => UpgradeTypeOK
  BY UpgradeInitially, UpgradeAssumption DEF UpgradeInit, UpgradeInv, UpgradeTypes, UpgradeTypeOK
<1>2. UpgradeInv' /\ UpgradeTypeOK /\ [UpgradeNext]_upgradeVars => UpgradeTypeOK'
  BY UpgradeBoundsStep DEF UpgradeInv, UpgradeTypes, UpgradeTypeOK
<1> QED
  BY <1>1, <1>2, UpgradeInvariant, PTL DEF UpgradeSpec

-----------------------------------------------------------------------------
(* The scenes.                                                             *)

\* Every behaviour of the scenes is one of each of their modules.
THEOREM ScenesAreBehaviours ==
  SceneSpec => PlatformSpec /\ SecretsSpec /\ UpgradeSpec /\ OutputSpec
<1>1. SceneInit => PlatformInit /\ SecretsInit /\ UpgradeInit /\ OutputInit
  BY DEF SceneInit
<1>2. [SceneNext]_sceneVars => [PlatformNext]_platformVars
  BY DEF SceneNext, sceneVars
<1>3. [SceneNext]_sceneVars => [SecretsNext]_secretVars
  BY DEF SceneNext, sceneVars
<1>4. [SceneNext]_sceneVars => [UpgradeNext]_upgradeVars
  BY DEF SceneNext, sceneVars
<1>5. [SceneNext]_sceneVars => [OutputNext]_outputVars
  BY DEF SceneNext, sceneVars, OutputNext
<1> QED
  BY <1>1, <1>2, <1>3, <1>4, <1>5, PTL
     DEF SceneSpec, PlatformSpec, SecretsSpec, UpgradeSpec, OutputSpec

\* Every variable of every module keeps its type in every scene.
THEOREM SceneTypes == SceneSpec => []SceneTypeOK
<1>1. SecretsInv => SecretsTypeOK
  BY DEF SecretsInv, SecretsTypes
<1> QED
  BY <1>1, ScenesAreBehaviours, PlatformTyped, SecretsInvariant, UpgradeIsTyped, OutputIsTyped, PTL
     DEF SceneTypeOK

\* What the modules promise, the scenes keep: metadata and Swarm agree, an upgrade
\* keeps executable and catalog in step, the dashboard shows the tasks of the selected
\* service and the whole end of a command's output, and a killed command leaves nothing.
THEOREM ScenesAreSafe ==
  SceneSpec => [](/\ MetadataMatchesSwarm /\ UpgradeKeepsInStep /\ TasksBelongToSelected
                  /\ OutputKeepsTail /\ KilledLeavesNoProcess)
<1> QED
  BY ScenesAreBehaviours, MetadataStaysTrue, UpgradesKeepInStep, ShownTasksWhileStreaming,
     TailIsKept, NothingIsLeft, PTL

\* So do their steps: routed networks stay attached, an uninstall leaves nothing, and
\* deploys and rollbacks mount the values that they should.
THEOREM SceneStepsAreSafe ==
  SceneSpec => /\ RoutedNetworksStayAttached /\ UninstallLeavesNothing
               /\ DeployMountsNewest /\ RollbackRestoresValues
<1> QED
  BY ScenesAreBehaviours, RoutesStayAttached, UninstallsLeaveNothing, NewestIsMounted,
     RollbacksRestore, PTL
=============================================================================
