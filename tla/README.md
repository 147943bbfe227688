# Verification of no-oops-ops

no-oops-ops is a CLI and terminal UI that releases, deploys, rolls back and
removes applications on Docker Swarm behind one shared nginx ingress. This
directory models the parts of it that are hard to test, checks them with TLC on
small instances and proves the most important properties with TLAPS for every
instance.

## 1. Inventory

Every command is an operating-system process of its own. Processes share the
files below `.noops/state`, the Swarm services, the nginx containers and the
image registry; nothing else coordinates them. A process may be killed between
any two calls, and SIGINT or SIGTERM cancels its context.

| Part | State | Operations | Hard behaviour | Module |
|---|---|---|---|---|
| `internal/state` | flock files, atomically replaced files | AcquireLock, WriteFile | a lock belongs to the opened file, not to its name | `Deploy`, `Platform` |
| `internal/deploy` rollout | `operation.json`, `deployments/*.json`, stacks | deploy, rollback, recoverJournal, cleanupInterruptedDeploy | crashes, cancellation racing promotion, failed recoveries | `Deploy` |
| `internal/deploy` remove | the app's state directory, its stacks, its images | remove | partial failure, unlinked lock | `Deploy`, `Retention` |
| `internal/deploy` monitor | deadlines, task states | waitForSwarmConvergence | windows that restart, timeouts at a boundary | `RolloutMonitor` |
| `internal/deploy` names, renames | stack names, retired app names | candidateStackName, retiredDeployments, removeStaleAppStacks | name prefixes, manifests edited meanwhile | `AppNames` |
| `internal/deploy` stack files | `stack.yml`, networks | renderComposeStack, ensureStackNetworks | many patches of one document, networks that come and go | `StackRendering` |
| `internal/environment` | env files, installed configs | LoadForManifest, Resolve, config install and upgrade | references into a file that is replaced | `EnvironmentFiles` |
| `internal/ingress` | `nginx.conf`, `routes.json`, running workers, certificates | EnsureNetwork, Reconcile, Remove, rollbackOnFailure | one file for all apps, workers reloaded one by one, failing restore | `Deploy`, `Platform` |
| `internal/release` | release metadata, tags, registry | release, build, SetLatest | three locks, retention after the locks | `Retention` |
| `internal/cleanup` | releases, deployments, registry blobs | plan, apply, garbage collection | plan that is stale when applied, registry left stopped | `Retention` |
| `internal/secret` | metadata, Swarm secrets | set, list, delete | versions, create races, partial deletes | `Secrets` |
| `internal/install`, `internal/uninstall` | stacks, networks, metadata | install, readiness, uninstall | ordered steps that must be repeatable | `Platform` |
| `internal/app`, `internal/manifest` | manifests | resolveTarget, ReleaseOrder, the commands over several services | order, partial failure, other commands in between | `ReleaseTargets` |
| `internal/config`, `catalog`, `workspace` | YAML files | load, validate | none beyond what the modules above take from them | |
| `internal/upgrade` | executable, catalog | upgrade | replace and restore of two files without a lock | `Upgrade` |
| `internal/tui`, `internal/cli` | tables, output buffer, running command | refresh, select, stream, cancel | late answers, a bounded buffer, processes that outlive their parent | `Dashboard`, `OutputStream` |
| `internal/doctor`, `internal/status`, logs | none | reports | none | |

Interactions. `deploy` and `rollback` call release metadata, secrets, Docker and
ingress while they hold `apps/<app>/<env>/operation.lock` and `registry.lock`;
ingress takes `nginx/operation.lock` inside. `release` takes the app's lock, the
registry lock and the build lock, and runs retention after it has released them.
`cleanup` takes the registry lock only. `remove` deletes the directory that holds
the app's own `operation.lock`. `install` takes `nginx/operation.lock` twice,
`uninstall` no lock at all. `secret` takes a lock per key, `upgrade` and the files
that people edit (manifests, env files, `apps.yml`) have none.

What must be right: a live stack is never deleted while nginx sends it traffic;
the recorded deployment survives every failure; a crash leaves a state from which
the next command recovers; two commands never write the same journal; every
command returns; retention never deletes an image that something can still run;
an app's sweep takes only its own stacks; a service gets the environment, the
secrets, the networks and the route that its files ask for; what an uninstall or
an upgrade left half done, the next one completes.

PROJECT.json lists every component with what is modelled of it, and every hazard
at the line where it bites.

## 2. Plan

Done, in this order:

1. `Deploy`: rollout, recovery, rollback, remove and the ingress transaction, for
   several apps and processes. Abstract specification `Promotion`; proofs in
   `DeployProofs` and `TrafficProofs`.
2. `RolloutMonitor`: the deadlines and windows of `rolloutMonitorState` and the task
   monitor, against a Swarm that moves between and during the observations; proofs
   in `StageProofs`.
3. `Retention`: releases, the registry and everything that deletes from it, with
   deployments as single steps; proofs in `RetentionProofs`.
4. `Secrets`, `Platform`, `Upgrade`, `Dashboard`, `OutputStream`: what surrounds the
   deployments, composed for TLC in `MCPlatform`; proofs in `SecretsProofs`,
   `PlatformProofs` and `DashboardProofs`.
5. `ReleaseTargets`, `EnvironmentFiles`, `StackRendering`, `AppNames`: the stages of a
   deploy before and after the rollout, composed with `RolloutMonitor` in
   `MCDeployStages`; proofs of the first in `ReleaseTargetsProofs`, of the others in
   `StageProofs`.

Every safety and action property that a passing run checks is also a theorem, those of the
composed runs for the very specification that the run checks. What the runs check of
liveness stays with TLC (section 5).

## 3. Modules

| Module | Models |
|---|---|
| `Deploy` | `internal/deploy/service.go`, `journal.go`, `history.go`, `reconcile.go`, `remove.go`; `internal/ingress/service.go`, `transaction.go`; `internal/state/durable.go` |
| `DeployProperties` | its properties and its inductive invariant |
| `Promotion` | what deploying promises: a record is made only for a live stack, the recorded stack goes only with a later record or with remove, and while an app is being removed nothing else happens to it |
| `MCDeploy` | small instances for TLC |
| `DeployProofs`, `TrafficProofs` | TLAPS proofs: locks, journal and records; traffic and the refinement of `Promotion` |
| `RolloutMonitor` | `internal/deploy/runner.go`: `waitForSwarmConvergence` with `rolloutMonitorState`, `taskMonitor` and the two Docker queries of a round |
| `Retention` | `internal/release`, `internal/cleanup`, the registry part of `internal/deploy/remove.go` |
| `MCRetention`, `RetentionProofs` | a small instance for TLC; TLAPS proofs |
| `ReleaseTargets` | `internal/app/target.go` and the lifecycle commands, `ReleaseOrder` of `internal/manifest/load.go` |
| `EnvironmentFiles` | `internal/environment`, `ValidateResolvableKeys` and `writeEnvMap` of `internal/deploy` |
| `StackRendering` | Compose loading and validation of `internal/manifest`, `stack.go`, `wrapper.go`, `network.go` of `internal/deploy`, `validateExposure` |
| `AppNames` | `internal/deploy/rename.go`, `reconcile.go` and the steps of deploy and remove around them |
| `MCAppNames` | three names and two manifests for it, in three workspaces and one for `names_sweep`, for TLC |
| `MCDeployStages` | `RolloutMonitor` and these four as stages, for TLC |
| `StageProofs`, `ReleaseTargetsProofs` | TLAPS proofs about `RolloutMonitor`, `AppNames`, `StackRendering`, `EnvironmentFiles` and the stages together; `ReleaseTargets` |
| `Platform` | `internal/install`, `internal/uninstall`, `EnsureNetwork` of `internal/ingress` |
| `Secrets` | `internal/secret`, `resolveSecretBindings` of `internal/deploy` |
| `Upgrade` | `internal/upgrade`, `internal/cli/upgrade_command.go` |
| `Dashboard`, `OutputStream` | the tables of `internal/tui`; the output view and `streamCommand`, on top of it |
| `SecretsProofs`, `PlatformProofs`, `DashboardProofs` | TLAPS proofs about `Secrets`; `Platform`, `Upgrade` and the scenes together; `Dashboard` and `OutputStream` |
| `MCPlatform` | `Platform`, `Secrets`, `Upgrade`, `Dashboard`, `OutputStream` as scenes, for TLC |

### Deploy

A process `p` runs one command at a time. `pc[p]` is the call it is about to make
and `cmd[p]` its local variables. One action is one call with everything the code
does up to the next one: the calls are the points at which the process can be
killed, cancelled or overtaken. `Step(p)` is the union of these actions.

| State | Code |
|---|---|
| `journal[a]` | `operation.json`: stage, stack name, BlueGreen |
| `history[a]` | `deployments/*.json`, by CreatedAt; `ok` is Outcome completed |
| `lockGen[a]` | which file is called `operation.lock`; Remove's RemoveAll unlinks it, and a process that waits on the old file is not excluded by the new one |
| `runs[a][s]`, `prior[a]` | the image stack `s` runs; the service's PreviousSpec, which `docker service update --rollback` swaps in |
| `minted[a]` | candidate names handed out; `candidateStackName` ends in a nanosecond time |
| `conf`, `routes`, `served` | upstreams in `nginx.conf`, in `routes.json`, and in the configurations some nginx worker has loaded |
| `snap[p]` | the files rollbackOnFailure saved |
| `torn` | apps whose promotion stopped between `nginx.conf` and the journal entry for it (bookkeeping; no action reads it) |

`Fails(p)` holds the error returns that change nothing, from the table `OnError`;
failures with an effect are actions of their own (`StackDeployFails`,
`RolloutFails`, `ReloadFails`, `RestoreFails`, `MarkIngressFails`,
`RemoveStateFails`). `Cancel(p)` ends a deploy's context; `Crash(p)` kills a
process: its locks and locals go, files and Docker stay. `OperatorClears(a)` is
the person whom recoverJournal's error asks to inspect the journal.

Abstractions. A stack is a number, 0 the in-place name. A write either happens or
leaves the old file (`state.WriteFile` renames). `nginx/operation.lock` is implied
by `registry.lock` among these commands. The mode of an app (blue/green, in place,
not exposed) may change between commands, as its manifest may. What `docker stack
deploy` does when it reports an error is a choice between done and not done.
Swarm's own rollback clears the previous specification, a manual one swaps it.
Not in the model: release pointers, secret bindings, wrapper images, registry
deletions, progress files, stacks of retired app names, certificates' contents.

### RolloutMonitor

One process waits for one service. `pc` is the place in the loop: `start` (a round
builds its context), `status` and `tasks` (a query is under way), `decide` (Docker
has answered the second query, the process has not seen it yet), `sleep`, `ended`.
`ReadStatus` and `ReadTasks` take what Swarm shows at that moment into `seen...`;
`DecideConvergence` and `DecideMonitor` are `rolloutMonitorState.observe` before and
inside the monitor window, with `taskMonitor.observe` before it, as in the loop.

| State | Code |
|---|---|
| `now`, `until` | the clock; the end of the context of a round, or of `time.After` |
| `update`, `specOK`, `task` | UpdateStatus.State, whether the spec names the expected image, and the state of each task; Swarm moves them at any time |
| `converged`, `monitorDeadline`, `unstable` | `rolloutMonitorState` |
| `initial`, `known` | `taskMonitor.initial`, `taskMonitor.history` |
| `outcome` | the outcome returned; `error` is an error without an outcome |
| `quiet`, `faulted` | bookkeeping that no action reads |

Abstractions. A task is `running` when it runs the expected image, so `imageMatches`
is part of its state; Failed, Rejected and Shutdown are `down`. A task never returns
to an earlier state and Swarm gives a replacement a new identifier. Diagnostics,
which take up to ten seconds more after the verdict, and the progress display are
left out. The recovery of a failed rollout (`stopTimedOutRollout`) is in `Deploy`.

### Retention

Every command that touches the registry holds `registry.lock`, so commands
interleave only where they give it back (a release before its retention, a rollback
before it runs) and where one fails. `LockFree` is the lock. The apps of the model
are environments that push to one repository: a tag belongs to one of them (it
hashes the environment and the manifest), a digest to everyone who pushed the same
content.

| State | Code |
|---|---|
| `releases[a]` | `releases/<tag>.json`: tag and digest, by CreateAt |
| `deployments[a]` | `deployments/*.json`: ReleaseTag, ReleaseImage, Outcome |
| `tagged`, `manifests` | what the registry's tags resolve to, which manifests it has |
| `wrappers` | the images `buildWrappedImage` pushed, by the reference inside |
| `registryUp` | the registry service has a replica and answers |
| `running[a]`, `spare[a]` | the image of the service and of its previous spec or failed update, i.e. what `liveServices` collects |
| `cmd[p]` | the plan: images, wrappers, protected digests, paths of records |
| `spoiled`, `stranded` | bookkeeping that no action reads: tags whose digest something other than retention took away, and a registry left scaled to zero |

A deployment is one step that succeeds or fails; module `Deploy` has its inside. A
wrapped app is one whose secrets are resolved in `env` mode. `Plan` is the second
`buildPlan`, made under the lock that the first one holds too. Deletions of images
are in any order, which the order of a plan's slices is one of. Left out: image tags
on the host, generated stack files, repositories other than this one. `--orphaned`
compares service names in the code; here an app has one.

### ReleaseTargets

One command (deploy, release, release --deploy, remove or rollback) on a manifest of
one or three services, with `--all`, with `--service` or with neither. `ResolveTarget`
is `resolveTarget`; `VisitNext`, `VisitDependency` and `VisitReturns` are the depth-first
search of `ReleaseOrder`, with `visits` its stack of calls and `marks` its state map.
`ReleaseService`, `ReleasesDone`, `DeployService`, `ReleaseMissing` and `OtherService` are
the loops of the commands; the first failure ends each. `OtherCommand` is another process
that releases or removes one of the services between two steps. `lifecycleLog` is
bookkeeping. The manifest does not change during the command, which reads it once per
step in the code. A tag is a number; the tags of a release are in `Retention`. `remove
--all` goes through the services in the same order as a deploy, dependencies first, as
the code does.

### EnvironmentFiles

Keys, configs, what the files may say and which lists of secrets there are, are constants.
`envFiles` are the items of the service's own file and of each config under each key
(`EnvItem`), and items refer to any place in any of the files. `ServiceKeys` is the order
of the service's file, which lists each key once: a key that it repeats, of which the last
value wins, is left out; in a config a repeated key is an error, and is modelled.
`Follow` goes into a reference with the checks in their order, `OverrideBase` comes back
out of it, `fileCache` is `configLoader.files`. `StoreConfig` replaces or deletes a config
between any two reads. A value is the place where it is written: file, version, key and
field, so a mixture of versions shows. The property compares with `Nearest`, a definition
of its own that walks the references, for the keys the service lists, and asks for nothing
under the others.

The instance (`SomeFiles`) has two keys and one config, every item shape that `resolve`
tells apart (no value, a value, an empty one, one for this environment or another, both, a
secret, a secret with values of its own, missing, declared twice), and references to each
other and back.

### StackRendering

One deploy from `LoadService` to the route. `composeFile` holds what decides: the form and
keys of the service's networks, their top-level definitions, the flat route and those per
environment, ports, volumes, secrets and the form of environment and secrets. Networks,
routes and secrets vary one at a time: no code path reads two of them together but
`BlueGreenHere`, which reads the route and the volumes, and the instance has both. The
stack's networks are looked up and created one by one (`InspectNetwork`, `CreateNetwork`)
while `OtherNetwork` creates and removes networks. Replicas, resources, update policy and
labels are copied by the code and left out.

Seen while modelling: a Compose `environment` in list form gets no
`NOOPS_SECRET_MAPPINGS`, `secrets` that are no list get no mounts (the property exempts
both); docs/reference/app-manifest.md:40 says public `ports` on ingress-managed services
are rejected, validate.go:229 looks at the flat ingress only; `updateRoute` compares only
primary domains; a wrapped image's name in `remove.go:114` is computed from the tag alone,
so wrappers stay in the registry.

### AppNames

A name is the sequence of its parts between hyphens; `Stack(name, attempt)` is its
stable stack or a candidate. The names, the manifests with what they declare at the start,
and each name's domain are constants. `declaredIn` are the manifests, which `EditManifest` changes
at any time; a deploy loads its service before it takes the locks (`LoadService`). Then it traces
retired names file by file, as rename.go:117-155 does: `BeginTrace` has the list of paths,
`ReadManifest` reads one manifest after the other, `ReadSource` reads the file again for each
of its services, and any of them may be unreadable; `trace` is what has been read and what has
yet to be. `TraceRetired` compares the history with it. The deploy then rolls out, promotes,
records and sweeps, one name at a time. `RemoveApp` is one step under the lock, with the
failures that leave the route, or the route and the stack, gone. Kills are not in this
module (they are in `Deploy`), errors are. One environment is modelled: `stackName` joins
environment and app with a hyphen, so environment `prod` with app `eu-api` and environment
`prod-eu` with app `api` name the same stack. A name of more than 46 characters is
compacted and loses its `-r`, so its candidates are never swept. `uniqueSource` asks that
the Git source be unique even when the manifest path agrees, so in a repository with
several services a rename is never detected.

`NamesKeepTheirStacks` exempts two kinds of names, and a run shows what happens to each: one
that reads as a candidate of another (`names_sweep`), and a service that somebody moves out of
a manifest which the deploy has yet to read (`names_move`). `slipped` are the latter, until
their next deployment; it is bookkeeping that no action reads.

### Platform

An environment stands for its network and its one app. A process runs install, uninstall
or the part of a deploy that attaches the network; `nPc` is the next call. `lockFile` is
the inode named `nginx/operation.lock` and `fd` the one a process opened, as in `Deploy`.
`mainConf`, `routesConf` and `defaultConf` are the configuration files of this and older
versions; `ingress.nets`, `previous` and `update` are the service's networks, those of
its PreviousSpec and its UpdateStatus, which Swarm moves on its own (`UpdateIngress`). `networks.json` holds all networks that are attached, the shared one too
(`AttachedNetworks`, `SaveNetworks`); `IngressNetworks` leaves that one out when it renders
`stack.yml`, which names it anyway. The
initial states are a host without noops, with an older install, with this one, and one
where an uninstall was killed half way. A wait with a deadline is one step that sees the
service ready, gone or late.

`unseen` and `raced` are bookkeeping. They name what the code does not exclude:
`install` renders `stack.yml` and applies it under two acquisitions of the lock
(nginx.go:64 and 228), and a network that a deploy attaches between is dropped until the
next deploy; a deploy that is killed while its attachment is rolled out leaves a service
that the next deploy takes as attached; an UpdateStatus that is still empty right after
`docker stack deploy` passes for healthy; uninstall unlinks `operation.lock` and, when it
overlaps a deploy, leaves its stack; `RemoveApps` leaves candidates of blue/green deploys;
a first install that is killed has written no `install.json`, so uninstall finds nothing
to do.

### Secrets

`records[k]` are the metadata files, `vault[k][v]` the Swarm secrets, `mounted[k]` the
version that the service's spec names, `pins` the bindings of the last two successful
deployments. A value is the number of the command that set it. A listing is two steps,
the names and then the files, because no lock covers it. `set` and `delete` hold the
lock of their key, deploys and rollbacks that of their app. `SecretFault` ends a command
anywhere.

Allowed for in the properties: a delete that is killed between `docker secret rm` and the
removal of the metadata can never be completed (the next one stops at the missing
secret); once a delete has
removed secrets their versions are given out again, so that a pinned version may carry
another value, even one recorded while the delete was under way (`erased` counts
removals, not deletes); a deploy that listed a version before it was removed can mount
the secret that a later set created again under that number before, or without ever,
saving its metadata; a delete that is refused because the service uses a version has
already deleted the newer ones; a listing fails when a file of any key vanishes meanwhile.

### Upgrade

`executable` and `catalog` are the two things that a command compares before it runs.
`StartUpgrade` is the decision, `Download` what the server gives (another release or
garbage included), `AdoptRead` and `AdoptWrite` the change of `apps.yml`,
`ReplaceExecutable` the rename, `ReplaceFails` the restore, which may fail as well: then the
new version stays in `apps.yml` next to the old executable, which the error says
(upgrade_command.go:120-121), and `apart` holds until an upgrade that runs alone has
completed. `EditCatalog` is another writer. The restore writes the bytes that were read, over an edit made meanwhile; a kill
between the two writes leaves them apart until the next upgrade; "No change required"
strips the `v` of the catalog's version, which `LoadWithOptions` then refuses (`prefixed`,
`apart`).

### Dashboard and OutputStream

A closure of the event loop is one action. `Dashboard` has the ticker, the queries of
services and tasks with their busy flags and the generation number, as a flag that a query
is still the latest. `OutputStream` adds a command that is run from the dashboard: its
buffer (`BufferWrite`, bytes as their positions in the output), the context, the child
with its WaitDelay, and a Docker command in the child's process group. Quitting the
dashboard leaves the child alone (no one waits for it), and a cancellation after Run
returned and before the last update of the view kills nothing: both are in the model, and
the properties speak of a dashboard that is up and of what was cancelled before Run
returned. The rollout pane, the metrics and the palette are not modelled.

## 4. Runs

| Run | Bounds | Shows |
|---|---|---|
| `deploy_one_app` | 1 app, 1 release, 2 processes, 3 commands, 2 crashes, 2 candidate names; fairness | types, journal ownership, recovery, traffic, refinement of `Promotion`, every command returns |
| `deploy_two_apps` | 2 apps, 1 process, 3 commands, 1 crash | one app's failed promotion spares the other's traffic |
| `deploy_recovery`, `deploy_rollback`, `deploy_remove`, `deploy_cancel` | see the cfg files | four statements of the documentation that do not hold, see findings |
| `deploy_stages` | a stage per behaviour, see below; fairness | the wait decides in its windows, notices every replacement, raises no false alarm and ends; dependencies come first; the environment is as written; names keep their stacks; the route reaches its service |
| `names_sweep` (`MCAppNames`) | 1 deploy, no edits | a sweep takes a declared app's stack, see findings |
| `names_move` (`MCAppNames`) | 1 deploy, 2 edits | a service moved during the reads is taken for a rename, see findings |
| `platform` | a scene per behaviour, see below; fairness | install and uninstall, secrets, upgrade, dashboard and streamed commands |
| `retention` | 2 environments (one with wrappers), 2 tags each, 2 digests, 2 processes, 5 commands, 1 failure, 1 release kept | what is live or recorded stays in the registry, other environments are spared, the active record stays, the registry returns |
| `retention_orphaned` | the same with 4 commands | `--orphaned` deletes images, see findings |

`platform` and `deploy_stages` hold modules that share no variable. `scene` or `stage`
says which one a behaviour plays; the others rest in an initial state. That checks each
module alone, every property on all behaviours of its module, in one run of TLC; nothing
is claimed about two scenes at once. Each module has a specification of its own
(`SecretsSpec`, `PlatformSpec`, ...), of which the scene's behaviours are exactly those of
the instance; that they are behaviours of it is proved (`ScenesAreBehaviours`).

Why the bounds are enough. In `Deploy`, two processes give every interleaving of a waiter
and a holder, and three commands let a remove unlink the lock under a waiter while a
third command opens the new file. Two crashes let recovery itself be interrupted.
Two candidate names let a candidate replace another one. All commands of `deploy_one_app`
deploy the same release: no property of that run tells releases apart, and the runs about
rollback and cancellation have two. With two apps the
commands run one after another: `registry.lock` serialises them, which
`deploy_one_app` checks and `DeployProofs` proves. Deadlock is not an error in any run: all
commands may have run.

In `retention` one retained release makes a second release expire the first; five
commands reach a release, its deployment, a newer release, a deployment that fails or
replaces it, and a cleanup. Two digests for four tags force sharing within and across
environments. Tags, digests and processes are interchangeable (symmetry).

In `deploy_stages`: the wait has two tasks, of which one is wanted, so that one replaces
the other without a change of the count, and both run at once; two ticks per window with
a slack of two let a round start before a deadline and answer at it or after it. Three
services give every dependency graph with a chain, a fork, a diamond's sides and a cycle.
One change of a config lies between any two reads of its file, and a reference chain
goes there, back and there again. One network operation comes between a look and a creation,
or before the stack. Three deploys, removes and edits of the manifests together (`MaxNamesWork`), of
which two may be commands, give a deploy that loaded its service before an edit and traces
after it or waits for another, and two edits between any two reads of one trace, which is
what it takes to move a service.

In `platform`: two commands and a kill, from four kinds of host, let an install overlap a
deploy or an uninstall and let an uninstall complete one that was killed; three secret
commands of two processes, over two keys that have been set never, once or twice, reach a
set that is killed after its create, the set that must skip the name it left, a deploy
between, and a delete and a new set before a rollback to an older version; `MaxAttempts` 2 is the loop's end. Two upgrades,
one kill and one edit are an overlap and a repair. Two services that appear or go twice,
one failed query and one selection let an answer arrive for a service that is gone or no
longer selected. A buffer of two bytes and four bytes in writes of one or two make it
overflow in every way.

Fairness. `FairSpec` of `Deploy` has weak fairness of `Certain(p)` for each process: every
call returns a result or an error, because it has a context and the recovery and promotion
contexts end after a minute, and AcquireLock takes a lock that stays free. Its poll has no
deadline, so the error of a process that waits for a lock is not in `Certain`: a lock that is
never given back, or two processes that wait for each other, would stop `CommandsReturn`,
which its mutant, two locks taken in the other order, shows. Start, Cancel, Crash and
OperatorClears are not fair. The wait's
(`WaitFairness`) is that of the process's own timers: the clock, the end of a query's
context, `time.After`; Docker and Swarm need not ever move. `PlatformFairness` has each
process's next step (every wait has a deadline, the lock is polled) and Swarm's own
update, which `docker service update` waits for without a deadline of noops and which Swarm
ends by its failure action. `DashboardFairness` is the ticker, the queries, which have a
timeout, and the event loop; `StreamFairness` the WaitDelay of `exec.Cmd`, Run, and the last
update. A child is never obliged to end, a user never to press a key.

### Findings

1. `deploy_recovery`: after a crash between the switch of nginx and the journal
   entry `ingress_reconciled`, the next command deletes the promoted candidate.
2. `deploy_rollback`: rollback chooses its target before it holds the lock.
3. `deploy_remove`: remove deletes one stack and forgets the others.
4. `deploy_cancel`: the deferred recovery rolls an in-place service back although
   this command did not change it, or its change was undone already.
5. `retention_orphaned`: `cleanup --orphaned` also deletes the images of the
   environments it calls orphaned, a released but never deployed one among them.
6. `names_sweep`: a deploy of `a` removes the stack of a declared app `a-redis`, whose
   name reads as that of a candidate of `a`.
7. `names_move`: a service that is moved from one manifest to another while a deploy reads
   them is in neither when it is read; the deploy takes it for renamed, and its stack is
   removed though it never ceased to be declared.

Seen while modelling `Retention`, allowed for in its properties (`spoiled`,
`stranded`, `Wrapped`) and listed under hazards: `release --force` leaves a live
digest untagged and the next collection deletes it; `remove` deletes digests that
another environment runs; a tag built again with other content while an old
deployment record or service names it makes the two kinds of protection (records by
tag, manifests by digest) disagree; a kill between scale to zero and scale to one
leaves a registry that no noops command except install starts again; the release
inside a running wrapper, and its records, expire.

## 5. Proofs

`DeployProofs` proves, for any constants that satisfy `BoundsAssumption` and
`NamesAssumption` (numbers are numbers, model values are distinct),

* `TypeCorrect`: `Spec => []TypeOK`,
* `JournalIsOwned`: `Spec => []JournalOwned`,
* `RecoverySparesRecorded`: `Spec => []UnpromotedUnrecorded`,
* `OneAtATime`: `Spec => []Mutex`,
* `RecordedStackIsKept`: `Spec => RecordedStackKept`.

None of the three invariants is inductive alone. That recovery's candidate is not
recorded needs that a deploy's own entry is the one on disk when it saves its
record; that needs mutual exclusion; that the candidate is new needs that all names
in use were minted. `DeployInv` is their conjunction with `ProcInv(p)`, what a
process at each label may rely on. The proof takes `ProcInv` conjunct by conjunct
over the actions of `p`; for the other processes it shows that only the holder of
`registry.lock` changes shared state (`NoLockNoEffect`) and that who does not hold
it relies on nothing (`Bystander`).

`TrafficProofs` adds, under the same assumptions, `RoutesAreLive`
(`Spec => []RoutesLive`), `TrafficOutlivesStacks` (`Spec => OnlyRecoveryDropsTraffic`),
`IntentIsKept` (`Spec => IntentOutlivesCandidate`) and the refinement `DeployIsPromotion`
(`Spec => DeployRefines`). `TrafficInv` stands on top of `DeployInv`: every name in a route
was minted (`RoutesMinted`), and for each process and label `TrafficOf(p)` says what the
saved files hold (`SnapHolds`), what `nginx.conf`, `routes.json` and the workers say while
they are being switched (`FilesFollow`, `WorkersFollow`), when the new stack is in all of
them (`Moved`), that a stack which is about to be deleted is in none (`Untrafficked`), that
the stack to be promoted runs (`StackRuns`), what the journal says of it (`Intent`), and
that what remove forgets is gone (`Retired`). It is needed because `RoutesLive` alone says
nothing of the snapshot that a failed reload puts back, nor of workers that still serve
the old file.

Two more theorems say where two findings of section 4 end. `RecoveryRemovesOnlyUnpromoted`
is refuted by a recovery that deletes a stack nginx uses; `TrafficIsSafeUnlessTorn` is that
nobody, recovery included, ever deletes one of an app outside `torn`, so that the write
between `nginx.conf` and the journal is all that has to be repaired. `RemoveLeavesNothing`
is refuted by a stack that remove forgets; `RemovalLeavesNoTraffic` is that, outside `torn`
again, no file and no worker names the app any more when its state is deleted, because
the route that remove took out stays out until then (`RouteRemoved`). `CommandsAreShort`
is the part of `CommandsReturn` that needs no fairness: labels have a rank, and each step of
a command, a failure or an undoing included, lowers `StepsLeft` from 34 at most, while no
step of another raises it. What TLC adds is that the next step is always possible.

For the refinement, initial states map to initial states, and each action of
`Deploy` to one of `Promotion` or to a stutter. Liveness is model-checked only (TLAPS has no
ENABLED, so no fairness).

For the rollout monitor `StageProofs` proves from `WindowsAssumption` (the interval
between rounds is at most the slack of a round: 2 s and 5 s in the code), for any tasks,
any desired count and any windows: `MonitorTypes`, `WaitIsBounded`,
`SuccessMeansStable`, `NoFalseAlarm`, and `LossStaysFinal` for the temporal property
`LossIsFinal`. The bound needs `InWindow` (where a round may start), the absence of
false alarms needs `SeenIsCurrent` and `StillStable` (while Swarm is quiet the
answers are the present and equal the baseline); `MonitorInv` joins them.
`LossIsFinal` is carried by `Doomed`, which each step keeps. That the wait ends
(`WaitEnds`) is checked by TLC only.

`RetentionProofs` proves from `RetentionAssumption` (there is an app, bounds are
numbers, model values are distinct), for any environments, wrapped or not, any tags,
digests and processes, and any number of retained builds:

* `RetentionTypes`: `Spec => []TypeOK`,
* `LiveImagesStay`: `Spec => []LivePullable`,
* `ReleaseRecordsResolve`: `Spec => []RecordsResolve`,
* `RegistryComesBack`: `Spec => []RegistryReturns`.

The first argument is about one plan and the deletions that follow it. A record is
*anchored* when its tag resolves to its digest and the registry has the manifest.
`RecordsAnchored` says that a record is anchored, or *condemned* (a process under the
lock is about to remove it), or its tag is spoiled; `LiveAnchored` says the same of
what services name, without the way out, and `DeploymentsAnchored` that the tag of a
deployment's record resolves to its digest or to nothing. From these, the protection
of records by tag and of manifests by digest agree at the moment of the plan
(`PlanStep`): this is what `PlanSafe` keeps through the deletions, because a deletion
by digest takes all tags on it and the plan has to cover those of other
environments. `Mutex` makes the plan of the holder the only one that matters
(`OthersIdle`). Steps that touch no image and no record are one lemma
(`QuietStep`). `RegistryReturns` is inductive alone.

Two action properties come from a second invariant, `ScopeInv`: `ScopesAreKept`
(`Spec => ScopedSparesOthers`) and `ServingRecordsAreKept` (`Spec => ActiveRecordKept`).
`RecordsOwned` says that records and services name builds of their own environment;
`CommandScoped(p)`, that what a process is about to delete is in its scope, and that the
digests it spares are all those which the tags of other environments resolve to, spoiled or
not; `ActiveSpared(p)`, that no record of what runs is among it, and that remove has
stopped the service before it deletes records. The plan is what establishes the last two
(`PlanScope`); the lock keeps them until it is applied (`ScopeLocked`).

`PlatformProofs` proves from `PlatformAssumption` (there is an environment, bounds are
numbers, the shared network is none of the environments' or the configured ones), for any
environments and any number of commands and kills, `PlatformTyped`,
`PlatformInvariant`, and from it two action properties.
`RoutesStayAttached` (`PlatformSpec => RoutedNetworksStayAttached`) rests on `AttachInv`: the
networks that anything names exist (`NetworksExist`); and apart from the environments that
`unseen` excuses, the stack file, the service and what Swarm may roll it back to have the
same networks, and with them every environment that is `Routed`: routed already, or of a
deploy that has attached it and is about to write its route (`NetworksAgree`). Without the
second part, a route could be written for a network that an older rendering drops.
`UninstallsLeaveNothing` (`PlatformSpec => UninstallLeavesNothing`) rests on `UninstallInv`:
until commands have overlapped, an uninstall is alone, and `Removed(p)` holds what each of
its labels has removed, also when it started on what a killed one had left.

For `Upgrade`, from `UpgradeAssumption` and for any releases and processes, and any number
of commands, kills and edits, it proves `UpgradeInvariant` and from it
`UpgradesKeepInStep`: `UpgradeSpec => []UpgradeKeepsInStep`. The property speaks of the
moments at which no command runs; what carries it through a command is `Undisturbed`,
what the command holds in its locals against the two things on disk, for each command
that is `Alone` (no other has run and nobody has edited since it began), and
`OverlapIsNoted`: when one is not, the bookkeeping says so. `Undisturbed` says of the catalog that was read that it fits the
executable unless the two were apart before, which a restore that succeeds needs; one that
fails is among what separates them, and the next upgrade that is alone to its end
is proved to bring them together again.

`DashboardProofs` proves `ShownTasksAreSelected`: `DashboardSpec => []TasksBelongToSelected`,
for any number of services and queries. Alone it is not inductive: an answer is shown
when its query is the latest, so the invariant adds that the latest query is about the
selected service (`LatestIsOfSelected`). `ShownTasksWhileStreaming` says the same of
`OutputSpec`, whose steps are steps of the dashboard or leave its tables alone. For
`OutputStream`, any capacity and any writes, `StreamInvariant` gives `TailIsKept`
(`OutputSpec => []OutputKeepsTail`) and `NothingIsLeft` (`OutputSpec => []KilledLeavesNoProcess`).
The buffer is always `Kept(written)`, the last bytes that fit, because a write cuts what it
appends to; and while the dashboard is up, a command whose Run has returned has an exited
child and, when it was killed, nobody left in its group. The view keeps the tail because
nobody writes once a command is over, nor before the first one (`Silent`).

`SecretsProofs` proves from `SecretsAssumption`, for any keys, versions, attempts and
processes, and any number of commands and kills, `SecretsInvariant` and from it
`MetadataStaysTrue`: `SecretsSpec => []MetadataMatchesSwarm`. The argument is the lock of
a key: it has one holder (`KeyMutex`), only the holder writes the files and secrets of its
key (`OnlyHolderWrites`), so what a holder has listed, chosen, created or removed is still
so at its next step (`HolderKnows`). The second part needs that a deploy binds only what
it refers to and Swarm mounts only what exists (`MountStep`): a version whose secret a
delete has just removed cannot be mounted before its metadata goes. That a set of versions
has a highest one is `BiggestIsHighest`, from the well-foundedness of the naturals.

`BindingsInvariant` carries the two properties of deployments: `NewestIsMounted`
(`SecretsSpec => []DeployMountsNewest`) and `RollbacksRestore`
(`SecretsSpec => []RollbackRestoresValues`). `BindingsInv` says that the newest value of
a key is what its highest recorded version holds (`NewestStands`), that the holder of the
key's lock is about to store a newer value in a higher version or has just removed the key
(`HolderReplaces`), that what a deploy has listed and bound since it took its lock is at least
as new as what stood then (`DeployFollows`), and that a pinned
version holds the value it was recorded with (`PinTrue`, `BindsPinned`). All of it is counted
in the epochs of a key that removals begin, because a version number is given out again
after a delete.

For `AppNames` it proves from `NamesAssumption` (no name and no path is empty, starting
workspaces declare names in manifests), for any names with any parts, any manifests and
declarations, and any number of deploys, removes and edits, `NamesInvariant` and
`NamesAreKept` (`NamesSpec => []NamesKeepTheirStacks`). A sweep deletes by name what was traced, deployed and routed
several steps before, while manifests change; `HolderKnows` says what of it is still so. While the
manifests are read, each name that stays declared and has not slipped (`Settled`) has been
read or is in a manifest that is still to be read; so the names retired at the end are none of
them, and stay so, because a name comes to be settled only by a deployment, under the lock. The
routes of a retired name are gone before its stacks, and the stack the sweep spares is the one
on record. That needs one holder of `registry.lock`
(`OneHolder`), that an attempt's candidate is in no record or route before its promotion
(`CandidatesAreNew`) and that the candidate the recovery deletes is in none
(`CandidatesAreApart`). The last one is what the journal of a refused route needs.

It proves from `RenderingAssumption` `RenderingInvariant` and `RoutesReachServices`, for any
set of Compose files (`IsComposeFile` is what the code can load), of which `ComposeFiles` is
one, and any number of networks that others create or remove. In the run networks, routes
and secrets vary one at a time; here they vary together. `RenderingInv` is what each phase has made
of the file, and that the shared networks of a service are overlays from its start on: they
were at the start, and nobody can remove one in use.

For `EnvironmentFiles`, `EnvironmentInvariant` and `EnvironmentStaysAsWritten`
(`EnvironmentSpec => []EnvironmentAsWritten`) follow from `EnvironmentAssumption`: finitely
many keys and configs, any items in them, any references among them, and any number of
changes of the configs. Of the files it is only assumed that the service's own lists its
keys once (`AreEnvFiles`). The property walks the references anew, so the code's chain has
to be that walk (`ChainIsWalk`): each place it added was read in the version that the cache
still holds, and none but the first is there twice. A place met again means a walk that
never ends (`WalkTurns`), which the property calls unresolved too. That the walk of
`MaxWalk` steps is long enough to find every end is counted: a chain of different places is
an injection into `Places`, so it has no more links than there are places (`FewPlaces`). On
the way back `BaseOf` is what the items from one on say together, the nearest first;
`LoadedAsWritten` keeps it for the keys that are done while others are followed. `fileCache`
only grows, so no later read changes it.

`ReleaseTargetsProofs` is about any services 1..n with any dependencies, on undeclared
services, themselves or each other too, any set of release-only ones, any command and
target, and any number of releases and removes by others. `TargetsInvariant` proves
`DependenciesFirst` for all of these, `DependenciesComeFirst` for `TargetsSpec`. The
property defines what a service needs by the closed sets of dependencies, so that the search
refuses exactly the unsound manifests is shown by a set in each case: what a complete
order has placed before a service is closed without it (`OrdersAreSound`); an undeclared
dependency is in every closed set (`UndeclaredIsUnsound`); and the calls of `visit` that
have not returned are a path, which a marked dependency turns into a cycle
(`CyclesAreUnsound`). `TargetsInv` carries this as `OrderIsMade` (the path of
`PathIsVisited`, each service ordered once and after its dependencies, `InOrder`), and then
as `WorkIsLeft`: what is pending may be done in its order after what has been done
(`IsLeft`), also when release-only services have been left out between two others
(`DeployableKeeps`). `CommandsKeepTo` and `ReleasesAreKnown` say what a command does in
which phase and which tags it has built, so that a tag it deploys is one it made whatever
others did to the latest. Where the argument goes along a sequence, the induction is
through the least counterexample (`Climbing`).

The two composed runs are covered as they stand. `StageInvariant`
(`StageSpec => []StageInv`) joins the invariants of the five modules: the stage that plays
keeps its own, the others rest in a state that satisfies theirs. `StageTypes` follows with
the types of each module, `StagesAreSafe` with the seven invariants of the run, and
`StageLossIsFinal` with its action property. The scenes of `platform` share no variable
either, and there it is shorter to show that each behaviour of `SceneSpec` is a behaviour of
`SecretsSpec`, `PlatformSpec`, `UpgradeSpec` and `OutputSpec` (`ScenesAreBehaviours`), and so
of the dashboard's own theorems: an action of one scene is a stutter of the others.
`SceneTypes`, `ScenesAreSafe` and `SceneStepsAreSafe` follow from the theorems of the
modules.

Model-checked only: liveness, which is out of TLAPS's reach: `CommandsReturn`, `WaitEnds`,
`PlatformCommandsReturn`, `DashboardCatchesUp`, `CancelledStreamEnds`. Within the proofs two
sizes stay those of the model: `StackRendering` has two network keys and three shared
networks, `RolloutMonitor` one service.


## 6. Not modelled

* Logs and progress (`deploy/logs.go`, `progress.go`, `tui/rollout.go`, `metrics.go`,
  `palette.go`): they stream, store and draw text, and no command decides by it.
* nginx's configuration as text and certificate files: which routes exist and which
  workers serve them is in `Deploy`, their wording is not state.
* Doctor, status and the construction of the services in `app.go`: read-only.
* YAML and `apps.yml` beyond what the modules take from them: each file is read once
  into values with defaults.
* Fetching sources, building images, archives and registry HTTP: one choice of a result.
* Two environments at once in `AppNames`, and kills there; more than one Swarm node
  but for the several nginx workers of `Deploy`.
