------------------------------ MODULE Platform ------------------------------
(***************************************************************************)
(* The platform under the apps: install, uninstall, and the part of deploy *)
(* that joins an environment's network to the ingress and routes to it.    *)
(* Source: internal/install, internal/install/local, internal/uninstall,   *)
(* internal/ingressnet, EnsureNetwork and Reconcile of internal/ingress.   *)
(*                                                                         *)
(* There is one app per environment, and an environment's network has its  *)
(* name.  Install takes nginx/operation.lock twice, once to write the      *)
(* stack file and once to apply it; uninstall takes no lock and deletes    *)
(* the lock file with the rest.  The inside of Reconcile is in Deploy.     *)
(***************************************************************************)
EXTENDS Integers, FiniteSets

CONSTANTS
  Envs,               \* environments
  ConfigNets,         \* nginx networks of the platform configuration
  Commands,           \* noops processes
  MaxPlatformOps,     \* bound: commands started
  MaxPlatformFaults   \* bound: commands killed, or failed by an error

Shared == "shared"    \* the network of registry and ingress
Absent == {"absent"}  \* a file of networks that does not exist

ASSUME PlatformAssumption ==
  /\ Envs # {}
  /\ Shared \notin Envs \cup ConfigNets /\ Absent \cap (Envs \cup ConfigNets) = {}
  /\ MaxPlatformOps \in Nat /\ MaxPlatformFaults \in Nat

Networks   == Envs \cup ConfigNets
Layouts    == {"in-place", "candidate"}

VARIABLES
  \* state directory
  installed,    \* install.json
  appDirs,      \* apps/<app>/<environment>
  networksFile, \* nginx/networks.json, or Absent
  stackFile,    \* environment networks of nginx/stack.yml, or Absent
  mainConf,     \* nginx/nginx.conf: "none", "legacy" (includes conf/*.conf) or "managed"
  routesConf,   \* nginx/conf/routes.conf: "none", "bootstrap" or "custom"
  defaultConf,  \* nginx/conf/default.conf of an old install
  routes,       \* nginx/routes.json: environments with a route
  lockFile,     \* inode of nginx/operation.lock, 0 when there is none
  inodes,       \* inodes used so far
  \* data directory
  data,
  \* Docker
  swarmActive, overlays,
  registry,     \* "absent", "starting" or "running"
  ingress,      \* the nginx service, or NoIngress
  stacks,       \* app stacks
  draining,     \* tasks of removed stacks still hold the shared network
  \* processes
  nPc, nCmd, nOps, nFaults,
  \* bookkeeping for the properties, read by no action
  unseen,       \* networks that stack.yml need not have, or attached since
  raced         \* an uninstall and another command overlapped

confFiles   == <<mainConf, routesConf, defaultConf>>
ingressDir  == <<networksFile, stackFile, confFiles, routes, lockFile>>
hostFiles   == <<installed, appDirs, ingressDir, data>>
overlapping == <<unseen, raced>>
dockerState == <<swarmActive, overlays, registry, ingress, stacks, draining>>
platformVars == <<hostFiles, inodes, dockerState, nPc, nCmd, nOps, nFaults, overlapping>>

\* nets and previous: besides the shared network, which the service always has.
\* update: "" none or not yet begun, "updating", "completed", "rolled_back".
NoIngress == [on |-> FALSE, nets |-> {}, previous |-> {}, update |-> ""]
NoPlatformCmd ==
  [env |-> CHOOSE e \in Envs : TRUE, purge |-> FALSE, fd |-> 0, nets |-> {},
   todo |-> {}]

NAt(p, l)   == nPc[p] = l
NGoto(p, l) == nPc' = [nPc EXCEPT ![p] = l]
Finish(p)   == NGoto(p, "idle") /\ nCmd' = [nCmd EXCEPT ![p] = NoPlatformCmd]

\* Labels at which a process holds the lock of nCmd[p].fd.
Locking == {"nginx_conf", "nginx_render", "validate", "prepare", "stack", "healthy", "certbot",
            "attach", "converge", "save_nets", "reconcile"}
InodeLocked(i) == \E p \in Commands : nPc[p] \in Locking /\ nCmd[p].fd = i

\* A host without noops, one with an install of an earlier version (without
\* nginx.conf and networks.json, its ingress attached to an environment), one
\* with an install of this version, and one where an uninstall was killed after
\* it removed the stacks.
PlatformInit ==
  /\ \E age \in {"fresh", "old", "current", "half_removed"},
        conf \in {"none", "bootstrap", "custom"}, dflt \in BOOLEAN :
       LET there == age # "fresh"
           net   == CHOOSE e \in Envs : TRUE
           runs  == age \in {"old", "current"} IN
       /\ age = "fresh" => conf = "none" /\ ~dflt
       /\ age = "old" => dflt \/ conf # "none"
       /\ age \in {"current", "half_removed"} => conf = "bootstrap" /\ ~dflt
       /\ installed = there /\ data = there /\ swarmActive = there
       /\ appDirs = IF there THEN {net} ELSE {}
       /\ routes = appDirs
       /\ stacks = IF runs THEN {<<net, "in-place">>} ELSE {}
       /\ overlays = IF there THEN {net, Shared} ELSE {}
       /\ networksFile = IF age \in {"current", "half_removed"} THEN {net, Shared} ELSE Absent
       /\ stackFile = IF there THEN {} ELSE Absent
       /\ mainConf = IF age \in {"current", "half_removed"} THEN "managed" ELSE "none"
       /\ routesConf = conf /\ defaultConf = dflt
       /\ lockFile = IF there THEN 1 ELSE 0
       /\ registry = IF runs THEN "running" ELSE "absent"
       /\ ingress = IF runs THEN [NoIngress EXCEPT !.on = TRUE, !.nets = {net}] ELSE NoIngress
       /\ unseen = IF there THEN {net} ELSE {}
  /\ inodes = 1 /\ draining = FALSE /\ raced = FALSE
  /\ nPc = [p \in Commands |-> "idle"]
  /\ nCmd = [p \in Commands |-> NoPlatformCmd]
  /\ nOps = 0 /\ nFaults = 0

Uninstalling == {"load", "rm_apps", "rm_registry", "rm_nginx", "rm_net", "rm_state", "rm_data",
                 "rm_meta"}

Launch(p, c, l) ==
  LET busy == {nPc[q] : q \in Commands} \ {"idle"} IN
  /\ NAt(p, "idle")
  /\ nOps < MaxPlatformOps
  /\ nOps' = nOps + 1
  /\ nCmd' = [nCmd EXCEPT ![p] = c]
  /\ NGoto(p, l)
  /\ raced' = (raced \/ (busy # {} /\ (busy \cup {l}) \cap Uninstalling # {}))
  /\ UNCHANGED <<hostFiles, inodes, dockerState, nFaults, unseen>>

-----------------------------------------------------------------------------
(* operation.lock: the file that a process opened, which uninstall may unlink. *)

\* AcquireLock opens or creates the file.
OpenLock(p, from, to) ==
  /\ NAt(p, from)
  /\ IF lockFile = 0
       THEN lockFile' = inodes + 1 /\ inodes' = inodes + 1
       ELSE UNCHANGED <<lockFile, inodes>>
  /\ nCmd' = [nCmd EXCEPT ![p].fd = lockFile']
  /\ NGoto(p, to)
  /\ UNCHANGED <<installed, appDirs, networksFile, stackFile, confFiles, routes, data,
                 dockerState, nOps, nFaults, overlapping>>

\* Flock, tried again every 100 ms until it is granted.
TakeLock(p, from, to) ==
  /\ NAt(p, from)
  /\ ~InodeLocked(nCmd[p].fd)
  /\ NGoto(p, to)
  /\ UNCHANGED <<hostFiles, inodes, dockerState, nCmd, nOps, nFaults, overlapping>>

LockIngress(p) ==
  \/ OpenLock(p, "open_write", "lock_write") \/ TakeLock(p, "lock_write", "nginx_conf")
  \/ OpenLock(p, "open_ensure", "lock_ensure") \/ TakeLock(p, "lock_ensure", "validate")
  \/ OpenLock(p, "open_attach", "lock_attach") \/ TakeLock(p, "lock_attach", "attach")
  \/ OpenLock(p, "open_route", "lock_route") \/ TakeLock(p, "lock_route", "reconcile")

-----------------------------------------------------------------------------
(* noops install *)

StartInstall(p) == Launch(p, NoPlatformCmd, "swarm")

\* VerifyDocker, EnsureSwarmInitialized
EnsureSwarm(p) ==
  /\ NAt(p, "swarm")
  /\ swarmActive' = TRUE
  /\ NGoto(p, "inspect_net")
  /\ UNCHANGED <<hostFiles, inodes, overlays, registry, ingress, stacks, draining,
                 nCmd, nOps, nFaults, overlapping>>

InspectSharedNetwork(p) ==
  /\ NAt(p, "inspect_net")
  /\ NGoto(p, IF Shared \in overlays THEN "registry_files" ELSE "create_net")
  /\ UNCHANGED <<hostFiles, inodes, dockerState, nCmd, nOps, nFaults, overlapping>>

\* docker network create fails when another install was faster.
CreateSharedNetwork(p) ==
  /\ NAt(p, "create_net")
  /\ \/ Shared \in overlays /\ Finish(p)
     \/ Shared \notin overlays /\ NGoto(p, "registry_files") /\ UNCHANGED nCmd
  /\ overlays' = overlays \cup {Shared}
  /\ UNCHANGED <<hostFiles, inodes, swarmActive, registry, ingress, stacks, draining,
                 nOps, nFaults, overlapping>>

\* PrepareStateDir, WriteRegistryConfig, WriteRegistryStack
WriteRegistry(p) ==
  /\ NAt(p, "registry_files")
  /\ data' = TRUE
  /\ NGoto(p, "registry")
  /\ UNCHANGED <<installed, appDirs, ingressDir, inodes, dockerState, nCmd, nOps, nFaults,
                 overlapping>>

\* docker stack deploy; it needs the shared network.
EnsureRegistry(p) ==
  /\ NAt(p, "registry")
  /\ \/ /\ Shared \in overlays
        /\ registry' = IF registry = "absent" THEN "starting" ELSE registry
        /\ NGoto(p, "registry_wait")
        /\ UNCHANGED nCmd
     \/ Shared \notin overlays /\ Finish(p) /\ UNCHANGED registry
  /\ UNCHANGED <<hostFiles, inodes, swarmActive, overlays, ingress, stacks, draining,
                 nOps, nFaults, overlapping>>

\* Mutant: waitForServiceReady without its deadline.
WaitForRegistry_NoDeadline(p) ==
  /\ NAt(p, "registry_wait")
  /\ registry # "starting"
  /\ \/ registry = "running" /\ NGoto(p, "open_write") /\ UNCHANGED nCmd
     \/ registry = "absent" /\ Finish(p)
  /\ UNCHANGED <<hostFiles, inodes, dockerState, nOps, nFaults, overlapping>>

\* waitForServiceReady, at most 45 seconds; an error when the service is gone.
WaitForRegistry(p) ==
  /\ NAt(p, "registry_wait")
  /\ \/ registry = "running" /\ NGoto(p, "open_write") /\ UNCHANGED nCmd
     \/ registry # "running" /\ Finish(p)
  /\ UNCHANGED <<hostFiles, inodes, dockerState, nOps, nFaults, overlapping>>

\* WriteNginxStack, the configuration: a bootstrap when there is no server yet,
\* never two of them, and the main file that includes what is there.
WriteNginxConf(p) ==
  /\ NAt(p, "nginx_conf")
  /\ routesConf' = IF routesConf = "none" /\ ~defaultConf THEN "bootstrap"
                   ELSE IF routesConf = "bootstrap" /\ defaultConf THEN "none"
                   ELSE routesConf
  /\ mainConf' = IF mainConf = "none" THEN "legacy" ELSE mainConf
  /\ NGoto(p, "nginx_render")
  /\ UNCHANGED <<installed, appDirs, networksFile, stackFile, defaultConf, routes, lockFile, data,
                 inodes, dockerState, nCmd, nOps, nFaults, overlapping>>

RecordedNetworks == IF networksFile = Absent THEN {} ELSE networksFile

\* ingressnet.Attached: nothing when there is no service, and the network of
\* the stack with the others.
AttachedNetworks == IF ingress.on THEN ingress.nets \cup {Shared} ELSE {}

\* Mutant: the attached networks are not asked for.
IngressNetworks_FileOnly ==
  ((RecordedNetworks \ {Shared}) \cap overlays) \cup ConfigNets

\* Mutant: the network that the template attaches itself is not left out.
IngressNetworks_WithShared ==
  ((RecordedNetworks \cup AttachedNetworks) \cap overlays) \cup ConfigNets

\* ingressNetworks: the recorded, the attached and the configured ones, without
\* the shared one and those that do not exist any more.
IngressNetworks ==
  (((RecordedNetworks \cup AttachedNetworks) \ {Shared}) \cap overlays) \cup ConfigNets

\* Bookkeeping: the networks that a rendering has to keep.  An update that Swarm
\* may still roll back attaches nothing for sure.
Known ==
  IF ~ingress.on THEN RecordedNetworks \ {Shared}
  ELSE IF ingress.update \in {"pending", "updating"} THEN ingress.nets \cap ingress.previous
  ELSE ingress.nets

\* WriteNginxStack, stack.yml; the lock is released after it.
RenderNginxStack(p) ==
  /\ NAt(p, "nginx_render")
  /\ stackFile' = IngressNetworks
  /\ overlays' = overlays \cup ConfigNets
  /\ unseen' = Networks \ Known
  /\ NGoto(p, "open_ensure")
  /\ UNCHANGED <<installed, appDirs, networksFile, confFiles, routes, lockFile, data, inodes,
                 swarmActive, registry, ingress, stacks, draining, nCmd, nOps, nFaults, raced>>

\* nginx -t over the whole configuration: two default servers are an error.
ConfValid == /\ mainConf # "none"
             /\ mainConf = "legacy" => ~(defaultConf /\ routesConf = "bootstrap")

\* EnsureNginx, validateNginx: in a Swarm job on the networks of the ingress.
ValidateNginx(p) ==
  /\ NAt(p, "validate")
  /\ \/ ConfValid /\ Shared \in overlays /\ NGoto(p, "prepare") /\ UNCHANGED nCmd
     \/ ~ConfValid /\ Finish(p)
     \/ Shared \notin overlays /\ Finish(p)
  /\ overlays' = overlays \cup ConfigNets
  /\ UNCHANGED <<hostFiles, inodes, swarmActive, registry, ingress, stacks, draining,
                 nOps, nFaults, overlapping>>

\* prepareNginxUpdate: two healthy replicas of the old definition, within 6
\* minutes or not.
PrepareNginx(p) ==
  /\ NAt(p, "prepare")
  /\ \/ NGoto(p, "stack") /\ UNCHANGED nCmd
     \/ ingress.on /\ Finish(p)
  /\ UNCHANGED <<hostFiles, inodes, dockerState, nOps, nFaults, overlapping>>

Deployable == stackFile # Absent /\ stackFile \cup {Shared} \subseteq overlays

\* docker stack deploy of the file as it is now: the service gets exactly its
\* networks.
ApplyNginxStack(p) ==
  /\ NAt(p, "stack")
  /\ \/ ~Deployable /\ Finish(p) /\ UNCHANGED ingress
     \/ /\ Deployable
        /\ ingress' = IF ~ingress.on THEN [NoIngress EXCEPT !.on = TRUE, !.nets = stackFile]
                      ELSE [ingress EXCEPT !.nets = stackFile, !.previous = ingress.nets,
                                           !.update = "pending"]
        /\ NGoto(p, "healthy")
        /\ UNCHANGED nCmd
  /\ UNCHANGED <<hostFiles, inodes, swarmActive, overlays, registry, stacks, draining,
                 nOps, nFaults, overlapping>>

\* waitForNginxHealthy: an update that Swarm has not begun looks like none.
WaitForNginx(p) ==
  /\ NAt(p, "healthy")
  /\ \/ ingress.on /\ ingress.update \in {"", "pending", "completed"}
        /\ NGoto(p, "certbot") /\ UNCHANGED nCmd
     \/ Finish(p)                     \* gone, rolled back, or 6 minutes are over
  /\ UNCHANGED <<hostFiles, inodes, dockerState, nOps, nFaults, overlapping>>

WaitForCertbot(p) ==
  /\ NAt(p, "certbot")
  /\ \/ ingress.on /\ NGoto(p, "metadata") /\ UNCHANGED nCmd
     \/ Finish(p)
  /\ UNCHANGED <<hostFiles, inodes, dockerState, nOps, nFaults, overlapping>>

WriteInstallMetadata(p) ==
  /\ NAt(p, "metadata")
  /\ installed' = TRUE
  /\ Finish(p)
  /\ UNCHANGED <<appDirs, ingressDir, data, inodes, dockerState, nOps, nFaults, overlapping>>

Install(p) ==
  \/ EnsureSwarm(p) \/ InspectSharedNetwork(p) \/ CreateSharedNetwork(p) \/ WriteRegistry(p)
  \/ EnsureRegistry(p) \/ WaitForRegistry(p) \/ WriteNginxConf(p) \/ RenderNginxStack(p)
  \/ ValidateNginx(p) \/ PrepareNginx(p) \/ ApplyNginxStack(p) \/ WaitForNginx(p)
  \/ WaitForCertbot(p) \/ WriteInstallMetadata(p)

-----------------------------------------------------------------------------
(* noops deploy: the app of an environment, in place or as a candidate *)

StartDeployApp(p, e) == Launch(p, [NoPlatformCmd EXCEPT !.env = e], "app")

\* ensureNetwork, the app's directory and its stack.
RunAppStack(p) ==
  LET e == nCmd[p].env IN
  /\ NAt(p, "app")
  /\ swarmActive
  /\ appDirs' = appDirs \cup {e}
  /\ overlays' = overlays \cup {e}
  /\ \E l \in Layouts : stacks' = stacks \cup {<<e, l>>}
  /\ NGoto(p, "open_attach")
  /\ UNCHANGED <<installed, ingressDir, data, inodes, swarmActive, registry, ingress, draining,
                 nCmd, nOps, nFaults, overlapping>>

NoSwarm(p) ==
  /\ NAt(p, "app")
  /\ ~swarmActive
  /\ Finish(p)
  /\ UNCHANGED <<hostFiles, inodes, dockerState, nOps, nFaults, overlapping>>

\* EnsureNetwork: docker service update of the networks that are not attached.
AttachNetwork(p) ==
  LET wanted  == ConfigNets \cup {nCmd[p].env}
      missing == wanted \ AttachedNetworks IN
  /\ NAt(p, "attach")
  /\ overlays' = overlays \cup ConfigNets
  /\ \/ ~ingress.on /\ missing # {} /\ Finish(p) /\ UNCHANGED <<ingress, overlapping>>
     \/ /\ missing = {}
        /\ nCmd' = [nCmd EXCEPT ![p].nets = AttachedNetworks]
        /\ NGoto(p, "save_nets")
        /\ UNCHANGED <<ingress, overlapping>>
     \/ /\ ingress.on /\ missing # {}
        /\ ingress' = [ingress EXCEPT !.nets = @ \cup wanted, !.previous = ingress.nets,
                                      !.update = "pending"]
        /\ unseen' = unseen \cup missing
        /\ nCmd' = [nCmd EXCEPT ![p].nets = AttachedNetworks \cup wanted]
        /\ NGoto(p, "converge")
  /\ UNCHANGED <<hostFiles, inodes, swarmActive, registry, stacks, draining, nOps, nFaults, raced>>

\* docker service update waits for the update, and fails when it is rolled back.
AttachConverges(p) ==
  /\ NAt(p, "converge")
  /\ \/ ingress.on /\ ingress.update = "completed" /\ NGoto(p, "save_nets") /\ UNCHANGED nCmd
     \/ ~ingress.on /\ Finish(p)
     \/ ingress.update = "rolled_back" /\ Finish(p)
  /\ UNCHANGED <<hostFiles, inodes, dockerState, nOps, nFaults, overlapping>>

\* saveNetworks: every attached network, the shared one as well.
SaveNetworks(p) ==
  /\ NAt(p, "save_nets")
  /\ networksFile' = nCmd[p].nets
  /\ NGoto(p, "open_route")
  /\ UNCHANGED <<installed, appDirs, stackFile, confFiles, routes, lockFile, data, inodes,
                 dockerState, nCmd, nOps, nFaults, overlapping>>

\* Reconcile: without nginx.conf, or a worker to validate it in, an error.
RouteApp(p) ==
  LET ok == mainConf # "none" /\ ingress.on IN
  /\ NAt(p, "reconcile")
  /\ mainConf' = IF ok THEN "managed" ELSE mainConf
  /\ routes' = IF ok THEN routes \cup {nCmd[p].env} ELSE routes
  /\ Finish(p)
  /\ UNCHANGED <<installed, appDirs, networksFile, stackFile, routesConf, defaultConf, lockFile,
                 data, inodes, dockerState, nOps, nFaults, overlapping>>

DeployApp(p) ==
  RunAppStack(p) \/ NoSwarm(p) \/ AttachNetwork(p) \/ AttachConverges(p) \/ SaveNetworks(p)
    \/ RouteApp(p)

-----------------------------------------------------------------------------
(* noops uninstall *)

StartUninstall(p, purge) == Launch(p, [NoPlatformCmd EXCEPT !.purge = purge], "load")

\* LoadInstallation: without metadata there is nothing to do.
LoadInstallation(p) ==
  /\ NAt(p, "load")
  /\ \/ ~installed /\ Finish(p)
     \/ /\ installed
        /\ nCmd' = [nCmd EXCEPT ![p].todo = appDirs]
        /\ NGoto(p, "rm_apps")
  /\ UNCHANGED <<hostFiles, inodes, dockerState, nOps, nFaults, overlapping>>

\* RemoveApps: <environment>-<app> of each directory.
RemoveApps(p) ==
  /\ NAt(p, "rm_apps")
  /\ \/ /\ nCmd[p].todo = {}
        /\ NGoto(p, "rm_registry")
        /\ UNCHANGED <<stacks, nCmd>>
     \/ \E e \in nCmd[p].todo :
          /\ stacks' = stacks \ {<<e, "in-place">>}
          /\ nCmd' = [nCmd EXCEPT ![p].todo = @ \ {e}]
          /\ UNCHANGED nPc
  /\ UNCHANGED <<hostFiles, inodes, swarmActive, overlays, registry, ingress, draining,
                 nOps, nFaults, overlapping>>

RemoveRegistry(p) ==
  /\ NAt(p, "rm_registry")
  /\ registry' = "absent"
  /\ draining' = (draining \/ registry # "absent")
  /\ NGoto(p, "rm_nginx")
  /\ UNCHANGED <<hostFiles, inodes, swarmActive, overlays, ingress, stacks, nCmd, nOps, nFaults,
                 overlapping>>

RemoveNginx(p) ==
  /\ NAt(p, "rm_nginx")
  /\ ingress' = NoIngress
  /\ draining' = (draining \/ ingress.on)
  /\ NGoto(p, "rm_net")
  /\ UNCHANGED <<hostFiles, inodes, swarmActive, overlays, registry, stacks, nCmd, nOps, nFaults,
                 overlapping>>

\* docker network rm refuses a network in use.
RemoveNetwork(p) ==
  LET inUse == Shared \in overlays /\ (draining \/ registry # "absent" \/ ingress.on) IN
  /\ NAt(p, "rm_net")
  /\ \/ inUse /\ Finish(p) /\ UNCHANGED overlays
     \/ ~inUse /\ overlays' = overlays \ {Shared} /\ NGoto(p, "rm_state") /\ UNCHANGED nCmd
  /\ UNCHANGED <<hostFiles, inodes, swarmActive, registry, ingress, stacks, draining,
                 nOps, nFaults, overlapping>>

\* Mutant: install.json goes with the rest of the state directory.
RemoveGeneratedState_All(p) ==
  /\ NAt(p, "rm_state")
  /\ installed' = FALSE
  /\ appDirs' = {} /\ routes' = {}
  /\ networksFile' = Absent /\ stackFile' = Absent
  /\ mainConf' = "none" /\ routesConf' = "none" /\ defaultConf' = FALSE
  /\ lockFile' = 0
  /\ NGoto(p, IF nCmd[p].purge THEN "rm_data" ELSE "rm_meta")
  /\ UNCHANGED <<data, inodes, dockerState, nCmd, nOps, nFaults, overlapping>>

\* RemoveGeneratedState: everything but install.json.
RemoveGeneratedState(p) ==
  /\ NAt(p, "rm_state")
  /\ appDirs' = {} /\ routes' = {}
  /\ networksFile' = Absent /\ stackFile' = Absent
  /\ mainConf' = "none" /\ routesConf' = "none" /\ defaultConf' = FALSE
  /\ lockFile' = 0
  /\ NGoto(p, IF nCmd[p].purge THEN "rm_data" ELSE "rm_meta")
  /\ UNCHANGED <<installed, data, inodes, dockerState, nCmd, nOps, nFaults, overlapping>>

RemoveData(p) ==
  /\ NAt(p, "rm_data")
  /\ data' = FALSE
  /\ NGoto(p, "rm_meta")
  /\ UNCHANGED <<installed, appDirs, ingressDir, inodes, dockerState, nCmd, nOps, nFaults,
                 overlapping>>

RemoveInstallMetadata(p) ==
  /\ NAt(p, "rm_meta")
  /\ installed' = FALSE
  /\ Finish(p)
  /\ UNCHANGED <<appDirs, ingressDir, data, inodes, dockerState, nOps, nFaults, overlapping>>

Uninstall(p) ==
  \/ LoadInstallation(p) \/ RemoveApps(p) \/ RemoveRegistry(p) \/ RemoveNginx(p)
  \/ RemoveNetwork(p) \/ RemoveGeneratedState(p) \/ RemoveData(p) \/ RemoveInstallMetadata(p)

-----------------------------------------------------------------------------
\* An error of Docker or the disk, a cancellation or a kill.
PlatformFault(p) ==
  /\ nPc[p] # "idle"
  /\ nFaults < MaxPlatformFaults
  /\ nFaults' = nFaults + 1
  /\ Finish(p)
  /\ UNCHANGED <<hostFiles, inodes, dockerState, nOps, overlapping>>

\* Swarm: the registry's task runs, or never does.
RegistryRuns ==
  /\ registry = "starting"
  /\ registry' = "running"
  /\ UNCHANGED <<hostFiles, inodes, swarmActive, overlays, ingress, stacks, draining,
                 nPc, nCmd, nOps, nFaults, overlapping>>

\* Swarm begins an update of the ingress, and ends it: failure_action rollback
\* returns to the networks that were there before.
UpdateIngress ==
  /\ ingress.on
  /\ \/ /\ ingress.update = "pending"
        /\ ingress' = [ingress EXCEPT !.update = "updating"]
     \/ /\ ingress.update = "updating"
        /\ ingress' = [ingress EXCEPT !.update = "completed"]
     \/ /\ ingress.update = "updating"
        /\ ingress' = [ingress EXCEPT !.update = "rolled_back", !.nets = ingress.previous]
  /\ UNCHANGED <<hostFiles, inodes, swarmActive, overlays, registry, stacks, draining,
                 nPc, nCmd, nOps, nFaults, overlapping>>

TasksGone ==
  /\ draining
  /\ draining' = FALSE
  /\ UNCHANGED <<hostFiles, inodes, swarmActive, overlays, registry, ingress, stacks,
                 nPc, nCmd, nOps, nFaults, overlapping>>

PlatformStep(p) == LockIngress(p) \/ Install(p) \/ DeployApp(p) \/ Uninstall(p)

PlatformNext ==
  \/ \E p \in Commands :
       \/ StartInstall(p)
       \/ \E e \in Envs : StartDeployApp(p, e)
       \/ \E purge \in BOOLEAN : StartUninstall(p, purge)
       \/ PlatformStep(p) \/ PlatformFault(p)
  \/ RegistryRuns \/ UpdateIngress \/ TasksGone

\* A command that runs goes on, and Swarm ends the updates it begins.
PlatformFairness ==
  /\ \A p \in Commands : WF_platformVars(nPc[p] # "idle" /\ PlatformStep(p))
  /\ WF_platformVars(UpdateIngress)

PlatformSpec == PlatformInit /\ [][PlatformNext]_platformVars /\ PlatformFairness

-----------------------------------------------------------------------------
PlatformTypeOK ==
  /\ installed \in BOOLEAN /\ data \in BOOLEAN /\ swarmActive \in BOOLEAN
  /\ appDirs \subseteq Envs /\ routes \subseteq Envs
  /\ networksFile = Absent \/ networksFile \subseteq Networks \cup {Shared}
  /\ stackFile = Absent \/ stackFile \subseteq Networks
  /\ mainConf \in {"none", "legacy", "managed"} /\ routesConf \in {"none", "bootstrap", "custom"}
  /\ lockFile \in 0..inodes
  /\ overlays \subseteq Networks \cup {Shared} /\ stacks \subseteq Envs \X Layouts
  /\ registry \in {"absent", "starting", "running"}
  /\ ingress.nets \cup ingress.previous \subseteq Networks
  /\ ingress.update \in {"", "pending", "updating", "completed", "rolled_back"}
  /\ nOps \in 0..MaxPlatformOps /\ nFaults \in 0..MaxPlatformFaults

\* Whatever changes the ingress service, an environment with a route stays
\* attached to it: an install keeps the networks that deploys attached and those
\* an earlier version left, in every order of installs, deploys, kills and
\* rolled back updates.  The exceptions are a network attached after stack.yml
\* was rendered and before it is applied, when install does not hold the lock,
\* and one whose attachment Swarm was still rolling out when the next command
\* took it for done.
RoutedNetworksStayAttached ==
  [][ingress.nets # ingress'.nets /\ ingress'.on
       => routes \ unseen \subseteq ingress'.nets]_platformVars

\* Uninstall removes install.json, which makes the next uninstall do nothing, only
\* when the platform and every in-place app are gone, and the data as well when it
\* purges, however many earlier uninstalls were killed or refused, unless some
\* uninstall overlapped another command.
UninstallLeavesNothing ==
  [][\A p \in Commands : (Uninstall(p) /\ ~raced /\ installed /\ ~installed') =>
       /\ registry = "absent" /\ ~ingress.on /\ Shared \notin overlays
       /\ \A e \in Envs : <<e, "in-place">> \notin stacks
       /\ appDirs = {} /\ routes = {} /\ stackFile = Absent /\ mainConf = "none"
       /\ nCmd[p].purge => ~data]_platformVars

\* Every command returns, also when a service it waits for never runs.
PlatformCommandsReturn == \A p \in Commands : nPc[p] # "idle" ~> nPc[p] = "idle"
=============================================================================
