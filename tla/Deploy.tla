------------------------------- MODULE Deploy -------------------------------
(***************************************************************************)
(* Deploying, rolling back and removing one service of an application on   *)
(* Docker Swarm behind the shared nginx ingress.                           *)
(*                                                                         *)
(* Every command is an operating-system process of its own.  Processes     *)
(* share the files below .noops/state (locks, journal, deployment history, *)
(* nginx.conf, routes.json), the Swarm stacks and the running nginx        *)
(* workers; any of them may be killed between two steps, and the user may  *)
(* cancel one at any moment.  Source: internal/deploy, internal/ingress,   *)
(* internal/state.                                                         *)
(*                                                                         *)
(* A stack is the number of its name: Stable is the in-place name          *)
(* <env>-<app>, every other number a fresh candidate name.  An action's    *)
(* error return that changes nothing is in the table OnError.              *)
(***************************************************************************)
EXTENDS Integers, Sequences, FiniteSets

CONSTANTS
  Apps,         \* <app, environment> pairs that share one ingress
  Procs,        \* noops processes
  Releases,     \* release tags whose metadata can be found
  Ops,          \* commands users issue: subset of {"deploy", "rollback", "remove"}
  Modes,        \* manifests: subset of {"bluegreen", "inplace", "internal"}
  NoStack,      \* no route, or no successful record
  NoRelease,    \* release not chosen yet
  Absent,       \* a stack that does not exist
  Stopped,      \* a stack whose service is scaled to zero
  MaxStacks,    \* bound: candidate names minted per app
  MaxCommands,  \* bound: commands started
  MaxCrashes    \* bound: processes killed

ASSUME BoundsAssumption ==
  /\ MaxStacks \in Nat
  /\ MaxCommands \in Nat
  /\ MaxCrashes \in Nat

ASSUME NamesAssumption ==
  /\ Apps # {}
  /\ NoStack \notin Nat
  /\ Absent # Stopped
  /\ {Absent, Stopped, NoRelease} \cap Releases = {}
  /\ Ops \subseteq {"deploy", "rollback", "remove"}
  /\ Modes \subseteq {"bluegreen", "inplace", "internal"}

Stable == 0
Stacks == 0..MaxStacks
Route  == Stacks \cup {NoStack}
Workload == Releases \cup {Absent, Stopped}

VARIABLES
  \* files of one application
  journal,   \* operation.json: a set with at most one record
  history,   \* deployments/*.json, oldest first
  lockGen,   \* which file is named operation.lock (an unlink starts a new one)
  \* Docker Swarm
  runs,      \* runs[a][s]: what stack s of app a runs
  prior,     \* PreviousSpec of the in-place service; Absent when it has none
  minted,    \* candidate names handed out so far
  \* ingress
  conf,      \* upstream of each app in nginx.conf
  routes,    \* upstream of each app in routes.json
  served,    \* upstreams that some nginx worker uses for each app
  \* processes
  pc, cmd, snap,
  \* bookkeeping of the model
  commands, crashes,
  torn       \* apps whose promotion stopped between nginx.conf and the journal

files   == <<journal, history, lockGen>>
docker  == <<runs, prior, minted>>
ingress == <<conf, routes, served>>
model   == <<commands, crashes, torn>>
vars    == <<files, docker, ingress, pc, cmd, snap, model>>

Stages  == {"started", "stack_deployed", "ingress_reconciled", "deployment_saved"}
Journal == [stage: Stages, stack: Stacks, bg: BOOLEAN]
Record  == [stack: Stacks, rel: Releases, ok: BOOLEAN]

Labels ==
  {"idle", "previous", "open", "wait_app", "wait_registry",
   "recover", "recover_clear", "begin", "stack_deploy", "mark_deployed",
   "verify", "converge", "undo", "archive", "record_failure", "drop", "unwind",
   "network", "write_conf", "write_routes", "reload", "certs", "reload_tls",
   "restore", "restore_reload", "mark_ingress", "save_record", "mark_saved",
   "set_latest", "stale", "clear", "rm_stack", "rm_state"}

\* The local variables of one command: service.run, Rollback or Remove.
Command ==
  [op: {"deploy", "rollback", "remove"}, app: Apps, rel: Releases \cup {NoRelease},
   mode: {"bluegreen", "inplace", "internal"}, stack: Stacks, bg: BOOLEAN,
   was: Workload, gen: Nat, cancelled: BOOLEAN, promoting: BOOLEAN,
   recovered: BOOLEAN, unwinding: BOOLEAN]

NoRoutes == [a \in Apps |-> NoStack]
NoSnap   == [conf |-> NoRoutes, routes |-> NoRoutes]

Fresh(op, a) ==
  [op |-> op, app |-> a, rel |-> NoRelease, mode |-> "internal", stack |-> Stable,
   bg |-> FALSE, was |-> Absent, gen |-> 0, cancelled |-> FALSE,
   promoting |-> FALSE, recovered |-> FALSE, unwinding |-> FALSE]

\* The locals of a process that runs no command.
NoCommand == Fresh("deploy", CHOOSE a \in Apps : TRUE)

FilesOK ==
  /\ journal \in [Apps -> SUBSET Journal]
  /\ history \in [Apps -> Seq(Record)]
  /\ lockGen \in [Apps -> Nat]

DockerOK ==
  /\ runs \in [Apps -> [Stacks -> Workload]]
  /\ prior \in [Apps -> Workload]
  /\ minted \in [Apps -> Stacks]

IngressOK ==
  /\ conf \in [Apps -> Route]
  /\ routes \in [Apps -> Route]
  /\ served \in [Apps -> SUBSET Stacks]

ProcsOK ==
  /\ pc \in [Procs -> Labels]
  /\ cmd \in [Procs -> Command]
  /\ snap \in [Procs -> [conf: [Apps -> Route], routes: [Apps -> Route]]]

ModelOK ==
  /\ commands \in Nat
  /\ crashes \in Nat
  /\ torn \subseteq Apps

TypeOK == FilesOK /\ DockerOK /\ IngressOK /\ ProcsOK /\ ModelOK

-----------------------------------------------------------------------------
(* What the files say.                                                     *)

Successful(a) == {i \in DOMAIN history[a] : history[a][i].ok}

\* deployments.Latest and deployments.Previous, as relations on record numbers.
IsLatest(a, i)   == i \in Successful(a) /\ \A j \in Successful(a) : j <= i
IsPrevious(a, i) == /\ i \in Successful(a)
                    /\ Cardinality({j \in Successful(a) : j > i}) = 1

LatestStack(a) ==
  IF Successful(a) = {} THEN NoStack
  ELSE history[a][CHOOSE i \in Successful(a) : IsLatest(a, i)].stack

Live(a) == {s \in Stacks : runs[a][s] # Absent}

Unpromoted(j) == j.bg /\ j.stage \in {"started", "stack_deployed"}
Idle(j)       == ~j.bg /\ j.stage = "stack_deployed" /\ j.stack = Stable

-----------------------------------------------------------------------------
(* Locks.  A flock belongs to the file the process opened, which Remove may *)
(* have unlinked since; registry.lock is never unlinked.                    *)

BeforeApp  == {"idle", "previous", "open", "wait_app"}
HoldsApp(p, a, g)  == pc[p] \notin BeforeApp /\ cmd[p].app = a /\ cmd[p].gen = g
HoldsRegistry(p)   == pc[p] \notin BeforeApp \cup {"wait_registry"}

Goto(p, l) == pc' = [pc EXCEPT ![p] = l]
At(p, l)   == pc[p] = l

\* Return from the command: every lock is released, every local forgotten.
Exit(p) ==
  /\ pc' = [pc EXCEPT ![p] = "idle"]
  /\ cmd' = [cmd EXCEPT ![p] = NoCommand]
  /\ snap' = [snap EXCEPT ![p] = NoSnap]

Keep(p) == UNCHANGED <<cmd, snap>>

Start(p) ==
  /\ At(p, "idle")
  /\ commands < MaxCommands
  /\ commands' = commands + 1
  /\ \E op \in Ops, a \in Apps :
       /\ cmd' = [cmd EXCEPT ![p] = Fresh(op, a)]
       /\ Goto(p, IF op = "rollback" THEN "previous" ELSE "open")
  /\ UNCHANGED <<files, docker, ingress, snap, crashes, torn>>

\* Rollback reads the preceding successful deployment before it has any lock.
ReadPrevious(p) ==
  /\ At(p, "previous")
  /\ \E i \in Successful(cmd[p].app) :
       /\ IsPrevious(cmd[p].app, i)
       /\ cmd' = [cmd EXCEPT ![p].rel = history[cmd[p].app][i].rel]
  /\ Goto(p, "open")
  /\ UNCHANGED <<files, docker, ingress, snap, model>>

OpenLock(p) ==
  /\ At(p, "open")
  /\ cmd' = [cmd EXCEPT ![p].gen = lockGen[cmd[p].app]]
  /\ Goto(p, "wait_app")
  /\ UNCHANGED <<files, docker, ingress, snap, model>>

LockApp(p) ==
  /\ At(p, "wait_app")
  /\ \A q \in Procs : ~HoldsApp(q, cmd[p].app, cmd[p].gen)
  /\ Goto(p, "wait_registry")
  /\ Keep(p)
  /\ UNCHANGED <<files, docker, ingress, model>>

\* Mutant: operationLock takes operation.lock only.
LockRegistry_AppLockOnly(p) ==
  /\ At(p, "wait_registry")
  /\ Goto(p, IF cmd[p].op = "remove" THEN "write_conf" ELSE "recover")
  /\ Keep(p)
  /\ UNCHANGED <<files, docker, ingress, model>>

\* Mutant: remove takes registry.lock before operation.lock, so that it holds
\* the one while it waits for the other.
LockRegistry_OtherOrder(p) ==
  /\ At(p, "wait_registry")
  /\ \A q \in Procs :
       ~HoldsRegistry(q) /\ ~(cmd[q].op = "remove" /\ At(q, "wait_app"))
  /\ Goto(p, IF cmd[p].op = "remove" THEN "write_conf" ELSE "recover")
  /\ Keep(p)
  /\ UNCHANGED <<files, docker, ingress, model>>

LockRegistry(p) ==
  /\ At(p, "wait_registry")
  /\ \A q \in Procs : ~HoldsRegistry(q)
  /\ Goto(p, IF cmd[p].op = "remove" THEN "write_conf" ELSE "recover")
  /\ Keep(p)
  /\ UNCHANGED <<files, docker, ingress, model>>

-----------------------------------------------------------------------------
(* recoverJournal: the remains of a command that did not finish.           *)

\* Mutant: a deploy does not look for a journal before it starts.
RecoverNothing_IgnoresJournal(p) ==
  /\ At(p, "recover")
  /\ Goto(p, "begin")
  /\ Keep(p)
  /\ UNCHANGED <<files, docker, ingress, model>>

RecoverNothing(p) ==
  /\ At(p, "recover")
  /\ journal[cmd[p].app] = {}
  /\ Goto(p, "begin")
  /\ Keep(p)
  /\ UNCHANGED <<files, docker, ingress, model>>

RecoverCandidate(p) ==
  /\ At(p, "recover")
  /\ \E j \in journal[cmd[p].app] :
       /\ Unpromoted(j)
       /\ runs' = [runs EXCEPT ![cmd[p].app][j.stack] = Absent]
  /\ Goto(p, "recover_clear")
  /\ Keep(p)
  /\ UNCHANGED <<files, prior, minted, ingress, model>>

RecoverClear(p) ==
  /\ At(p, "recover_clear")
  /\ journal' = [journal EXCEPT ![cmd[p].app] = {}]
  /\ Goto(p, "begin")
  /\ Keep(p)
  /\ UNCHANGED <<history, lockGen, docker, ingress, model>>

\* An in-place rollout that Swarm reports idle or stopped: the journal is
\* renamed to .failed-* and the command goes on.
RecoverInPlace(p) ==
  /\ At(p, "recover")
  /\ \E j \in journal[cmd[p].app] : Idle(j)
  /\ runs[cmd[p].app][Stable] # Absent
  /\ journal' = [journal EXCEPT ![cmd[p].app] = {}]
  /\ Goto(p, "begin")
  /\ Keep(p)
  /\ UNCHANGED <<history, lockGen, docker, ingress, model>>

\* Whoever inspected a stopped operation removes its journal by hand.
OperatorClears(a) ==
  /\ \E j \in journal[a] : ~Unpromoted(j) /\ ~Idle(j)
  /\ \A p \in Procs : ~(HoldsRegistry(p) /\ cmd[p].app = a)
  /\ journal' = [journal EXCEPT ![a] = {}]
  /\ UNCHANGED <<history, lockGen, docker, ingress, pc, cmd, snap, model>>

-----------------------------------------------------------------------------
(* The rollout: journal, stack, convergence.                               *)

\* Everything run does before its first durable effect, which is the journal.
BeginAs(p, rel, mode, bg, stack) ==
  LET a == cmd[p].app IN
  /\ At(p, "begin")
  /\ cmd[p].op = "rollback" => rel = cmd[p].rel
  /\ bg <=> mode = "bluegreen" /\ LatestStack(a) # NoStack
  /\ stack = IF bg THEN minted[a] + 1 ELSE Stable
  /\ minted' = IF bg THEN [minted EXCEPT ![a] = stack] ELSE minted
  /\ journal' = [journal EXCEPT ![a] =
                   {[stage |-> "started", stack |-> stack, bg |-> bg]}]
  /\ cmd' = [cmd EXCEPT ![p].rel = rel, ![p].mode = mode,
                        ![p].bg = bg, ![p].stack = stack]
  /\ Goto(p, "stack_deploy")
  /\ UNCHANGED <<history, lockGen, runs, prior, ingress, snap, model>>

Begin(p) ==
  \E rel \in Releases, mode \in Modes, bg \in BOOLEAN, stack \in Stacks :
    BeginAs(p, rel, mode, bg, stack)

\* docker stack deploy: Docker keeps the specification it replaces.
Submit(p) ==
  LET a == cmd[p].app IN
  /\ runs' = [runs EXCEPT ![a][cmd[p].stack] = cmd[p].rel]
  /\ prior' = IF cmd[p].stack = Stable THEN [prior EXCEPT ![a] = runs[a][Stable]]
              ELSE prior

\* What the stack runs before, for CancelRestores only; no action reads it.
Observe(p) == cmd' = [cmd EXCEPT ![p].was = runs[cmd[p].app][cmd[p].stack]]

StackDeploy(p) ==
  /\ At(p, "stack_deploy")
  /\ ~cmd[p].cancelled
  /\ Submit(p)
  /\ Observe(p)
  /\ Goto(p, "mark_deployed")
  /\ UNCHANGED <<files, minted, ingress, snap, model>>

\* The subprocess reports an error or is cancelled, and may have reached Docker.
StackDeployFails(p) ==
  /\ At(p, "stack_deploy")
  /\ Submit(p) \/ UNCHANGED <<runs, prior>>
  /\ Observe(p)
  /\ Goto(p, "unwind")
  /\ UNCHANGED <<files, minted, ingress, snap, model>>

Mark(p, stage) ==
  journal' = [journal EXCEPT ![cmd[p].app] =
                {[stage |-> stage, stack |-> cmd[p].stack, bg |-> cmd[p].bg]}]

MarkDeployed(p) ==
  /\ At(p, "mark_deployed")
  /\ Mark(p, "stack_deployed")
  /\ Goto(p, "verify")
  /\ Keep(p)
  /\ UNCHANGED <<history, lockGen, docker, ingress, model>>

Verify(p) ==
  /\ At(p, "verify")
  /\ ~cmd[p].cancelled
  /\ Goto(p, "converge")
  /\ Keep(p)
  /\ UNCHANGED <<files, docker, ingress, model>>

\* Converged with the context still alive: from here cancellation is ignored.
Converge(p) ==
  /\ At(p, "converge")
  /\ ~cmd[p].cancelled
  /\ cmd' = [cmd EXCEPT ![p].promoting = TRUE]
  /\ Goto(p, IF cmd[p].mode = "internal" THEN "write_conf" ELSE "network")
  /\ UNCHANGED <<files, docker, ingress, snap, model>>

\* Swarm's own rollback forgets the specification it leaves.
SwarmRollsBack(p) ==
  LET a == cmd[p].app IN
  /\ ~cmd[p].bg
  /\ prior[a] # Absent
  /\ runs' = [runs EXCEPT ![a][Stable] = prior[a]]
  /\ prior' = [prior EXCEPT ![a] = Absent]

\* Timed out or failed: noops itself recovers.  Otherwise Swarm paused or
\* rolled back, or nobody could observe it, and only the record is written.
RolloutFails(p) ==
  /\ At(p, "converge")
  /\ \/ /\ ~cmd[p].cancelled
        /\ UNCHANGED <<runs, prior>>
        /\ Goto(p, "undo")
     \/ /\ SwarmRollsBack(p) \/ UNCHANGED <<runs, prior>>
        /\ Goto(p, "record_failure")
  /\ Keep(p)
  /\ UNCHANGED <<files, minted, ingress, model>>

\* ctx.Err() between convergence and promotion.
CancelledBeforePromotion(p) ==
  /\ At(p, "converge")
  /\ cmd[p].cancelled
  /\ Goto(p, "unwind")
  /\ Keep(p)
  /\ UNCHANGED <<files, docker, ingress, model>>

-----------------------------------------------------------------------------
(* Taking a rollout back.                                                  *)

\* Mutant: removes the active stack instead of the candidate.
UndoCandidate_ActiveStack(p) ==
  /\ At(p, "undo")
  /\ cmd[p].bg
  /\ runs' = [runs EXCEPT ![cmd[p].app][LatestStack(cmd[p].app)] = Absent]
  /\ Goto(p, "archive")
  /\ Keep(p)
  /\ UNCHANGED <<files, prior, minted, ingress, model>>

UndoCandidate(p) ==
  /\ At(p, "undo")
  /\ cmd[p].bg
  /\ runs' = [runs EXCEPT ![cmd[p].app][cmd[p].stack] = Absent]
  /\ Goto(p, "archive")
  /\ Keep(p)
  /\ UNCHANGED <<files, prior, minted, ingress, model>>

\* cleanupInterruptedDeploy in place: an existing service is scaled to zero when
\* Docker has no previous specification for it, and asked to roll back to the
\* previous one when it has, without regard to which deploy that one belongs to.
UndoInPlace(p) ==
  LET a == cmd[p].app IN
  /\ At(p, "undo")
  /\ ~cmd[p].bg
  /\ IF runs[a][Stable] = Absent THEN UNCHANGED <<runs, prior>>
     ELSE /\ runs' = [runs EXCEPT ![a][Stable] =
                        IF prior[a] = Absent THEN Stopped ELSE prior[a]]
          /\ prior' = [prior EXCEPT ![a] = runs[a][Stable]]
  /\ Goto(p, "archive")
  /\ Keep(p)
  /\ UNCHANGED <<files, minted, ingress, model>>

\* Renaming the journal to .recovered-* fails when there is none any more.
Archive(p) ==
  LET a == cmd[p].app IN
  /\ At(p, "archive")
  /\ journal' = [journal EXCEPT ![a] = {}]
  /\ IF cmd[p].unwinding
       THEN Exit(p)
       ELSE /\ cmd' = [cmd EXCEPT ![p].recovered = journal[a] # {}]
            /\ Goto(p, "record_failure")
            /\ UNCHANGED snap
  /\ UNCHANGED <<history, lockGen, docker, ingress, model>>

RecordFailure(p) ==
  /\ At(p, "record_failure")
  /\ history' = [history EXCEPT ![cmd[p].app] = Append(@,
       [stack |-> cmd[p].stack, rel |-> cmd[p].rel, ok |-> FALSE])]
  /\ Goto(p, IF cmd[p].recovered THEN "unwind" ELSE "drop")
  /\ Keep(p)
  /\ UNCHANGED <<journal, lockGen, docker, ingress, model>>

\* cleanupFailedCandidate for any cause but an ingress RecoveryError.
DropCandidate(p) ==
  /\ At(p, "drop")
  /\ runs' = IF cmd[p].bg THEN [runs EXCEPT ![cmd[p].app][cmd[p].stack] = Absent]
             ELSE runs
  /\ Goto(p, "unwind")
  /\ Keep(p)
  /\ UNCHANGED <<files, prior, minted, ingress, model>>

\* Mutant: forgets whether promotion has started.
Unwind_AnyStage(p) ==
  /\ At(p, "unwind")
  /\ IF cmd[p].cancelled
       THEN /\ cmd' = [cmd EXCEPT ![p].unwinding = TRUE]
            /\ Goto(p, "undo")
            /\ UNCHANGED snap
       ELSE Exit(p)
  /\ UNCHANGED <<files, docker, ingress, model>>

\* The deferred function of run: a cancelled deploy recovers, unless promotion
\* has started.
Unwind(p) ==
  /\ At(p, "unwind")
  /\ IF cmd[p].cancelled /\ ~cmd[p].promoting
       THEN /\ cmd' = [cmd EXCEPT ![p].unwinding = TRUE]
            /\ Goto(p, "undo")
            /\ UNCHANGED snap
       ELSE Exit(p)
  /\ UNCHANGED <<files, docker, ingress, model>>

-----------------------------------------------------------------------------
(* Promotion: ingress.EnsureNetwork and ingress.Reconcile; ingress.Remove   *)
(* shares the same transaction.  All of it runs under nginx/operation.lock, *)
(* whose holders here also hold registry.lock.                              *)

EnsureNetwork(p) ==
  /\ At(p, "network")
  /\ Goto(p, "write_conf")
  /\ Keep(p)
  /\ UNCHANGED <<files, docker, ingress, model>>

\* The routes this command asks for.
Updated(p) ==
  [routes EXCEPT ![cmd[p].app] =
     IF cmd[p].op = "remove" \/ cmd[p].mode = "internal" THEN NoStack ELSE cmd[p].stack]

\* An exposed app always counts as changed.
Changed(p) == Updated(p) # routes \/ (cmd[p].op # "remove" /\ cmd[p].mode # "internal")

AfterIngress(p) == IF cmd[p].op = "remove" THEN "rm_stack" ELSE "mark_ingress"
AfterError(p)   == IF cmd[p].op = "remove" THEN "unwind" ELSE "drop"

NothingToRoute(p) ==
  /\ At(p, "write_conf")
  /\ ~Changed(p)
  /\ cmd[p].op = "remove" \/ routes = NoRoutes
  /\ Goto(p, AfterIngress(p))
  /\ Keep(p)
  /\ UNCHANGED <<files, docker, ingress, model>>

\* Snapshot both files, then validate and publish nginx.conf.
WriteConf(p) ==
  /\ At(p, "write_conf")
  /\ Changed(p) \/ (cmd[p].op # "remove" /\ routes # NoRoutes)
  /\ snap' = [snap EXCEPT ![p] = [conf |-> conf, routes |-> routes]]
  /\ conf' = Updated(p)
  /\ Goto(p, IF Changed(p) THEN "write_routes" ELSE "reload_tls")
  /\ UNCHANGED <<files, docker, routes, served, cmd, model>>

WriteRoutes(p) ==
  /\ At(p, "write_routes")
  /\ routes' = Updated(p)
  /\ Goto(p, "reload")
  /\ Keep(p)
  /\ UNCHANGED <<files, docker, conf, served, model>>

\* Mutant: an app without a route keeps an empty upstream.
Loaded_EmptyUpstream == [a \in Apps |-> {conf[a]}]

Loaded == [a \in Apps |-> {conf[a]} \ {NoStack}]

\* Every container validates nginx.conf, then they reload one after another.
Reload(p) ==
  /\ pc[p] \in {"reload", "reload_tls"}
  /\ served' = Loaded
  /\ Goto(p, IF At(p, "reload") /\ cmd[p].op # "remove" THEN "certs"
             ELSE AfterIngress(p))
  /\ Keep(p)
  /\ UNCHANGED <<files, docker, conf, routes, model>>

\* A reload that fails before the first container, or after some of them.
ReloadFails(p) ==
  /\ pc[p] \in {"reload", "reload_tls"}
  /\ served' \in {served, [a \in Apps |-> served[a] \cup Loaded[a]]}
  /\ Goto(p, "restore")
  /\ Keep(p)
  /\ UNCHANGED <<files, docker, conf, routes, model>>

\* A certificate that was issued changes nginx.conf, but none of its routes.
Certificates(p) ==
  /\ At(p, "certs")
  /\ \/ Goto(p, "mark_ingress")
     \/ Goto(p, "reload_tls")
  /\ Keep(p)
  /\ UNCHANGED <<files, docker, ingress, model>>

\* rollbackOnFailure leaves the workers alone when both files still match.
NothingToRestore(p) ==
  /\ At(p, "restore")
  /\ snap[p] = [conf |-> conf, routes |-> routes]
  /\ Goto(p, AfterError(p))
  /\ Keep(p)
  /\ UNCHANGED <<files, docker, ingress, model>>

\* Mutant: restores nginx.conf but not routes.json.
Restore_ConfOnly(p) ==
  /\ At(p, "restore")
  /\ conf' = snap[p].conf
  /\ Goto(p, "restore_reload")
  /\ Keep(p)
  /\ UNCHANGED <<files, docker, routes, served, model>>

Restore(p) ==
  /\ At(p, "restore")
  /\ conf' = snap[p].conf
  /\ routes' = snap[p].routes
  /\ Goto(p, "restore_reload")
  /\ Keep(p)
  /\ UNCHANGED <<files, docker, served, model>>

\* Mutant: the failed restore is reported as an ordinary error.
RestoreFails_Ordinary(p) ==
  /\ At(p, "restore")
  /\ UNCHANGED <<conf, routes>>
  /\ torn' = torn \cup {cmd[p].app}
  /\ Goto(p, AfterError(p))
  /\ Keep(p)
  /\ UNCHANGED <<files, docker, served, commands, crashes>>

\* A file could not be restored: RecoveryError, the candidate is retained.
RestoreFails(p) ==
  /\ At(p, "restore")
  /\ \/ conf' = snap[p].conf /\ routes' = routes
     \/ conf' = conf /\ routes' = snap[p].routes
     \/ UNCHANGED <<conf, routes>>
  /\ torn' = torn \cup {cmd[p].app}
  /\ Goto(p, "unwind")
  /\ Keep(p)
  /\ UNCHANGED <<files, docker, served, commands, crashes>>

RestoreReload(p) ==
  /\ At(p, "restore_reload")
  /\ served' = Loaded
  /\ Goto(p, AfterError(p))
  /\ Keep(p)
  /\ UNCHANGED <<files, docker, conf, routes, model>>

RestoreReloadFails(p) ==
  /\ At(p, "restore_reload")
  /\ served' \in {served, [a \in Apps |-> served[a] \cup Loaded[a]]}
  /\ torn' = torn \cup {cmd[p].app}
  /\ Goto(p, "unwind")
  /\ Keep(p)
  /\ UNCHANGED <<files, docker, conf, routes, commands, crashes>>

-----------------------------------------------------------------------------
(* Committing the deployment.                                              *)

\* Mutant: the journal keeps its stage over the switch of traffic.
MarkIngress_Unwritten(p) ==
  /\ At(p, "mark_ingress")
  /\ Goto(p, "save_record")
  /\ Keep(p)
  /\ UNCHANGED <<files, docker, ingress, model>>

MarkIngress(p) ==
  LET a == cmd[p].app IN
  /\ At(p, "mark_ingress")
  /\ Mark(p, "ingress_reconciled")
  /\ torn' = IF conf[a] = routes[a] /\ served[a] = Loaded[a] THEN torn \ {a} ELSE torn
  /\ Goto(p, "save_record")
  /\ Keep(p)
  /\ UNCHANGED <<history, lockGen, docker, ingress, commands, crashes>>

\* The journal cannot be written: the file still says stack_deployed.
MarkIngressFails(p) ==
  /\ At(p, "mark_ingress")
  /\ torn' = torn \cup {cmd[p].app}
  /\ Goto(p, "unwind")
  /\ Keep(p)
  /\ UNCHANGED <<files, docker, ingress, commands, crashes>>

SaveRecord(p) ==
  /\ At(p, "save_record")
  /\ history' = [history EXCEPT ![cmd[p].app] = Append(@,
       [stack |-> cmd[p].stack, rel |-> cmd[p].rel, ok |-> TRUE])]
  /\ Goto(p, "mark_saved")
  /\ Keep(p)
  /\ UNCHANGED <<journal, lockGen, docker, ingress, model>>

MarkSaved(p) ==
  /\ At(p, "mark_saved")
  /\ Mark(p, "deployment_saved")
  /\ Goto(p, "set_latest")
  /\ Keep(p)
  /\ UNCHANGED <<history, lockGen, docker, ingress, model>>

SetLatest(p) ==
  /\ At(p, "set_latest")
  /\ Goto(p, "stale")
  /\ Keep(p)
  /\ UNCHANGED <<files, docker, ingress, model>>

\* Mutant: the sweep spares the stable stack instead of the active one.
RemoveStale_SparesStable(p) ==
  LET a == cmd[p].app IN
  /\ At(p, "stale")
  /\ \E gone \in SUBSET (Live(a) \ {Stable}) :
       /\ runs' = [runs EXCEPT ![a] =
                     [s \in Stacks |-> IF s \in gone THEN Absent ELSE @[s]]]
       /\ prior' = IF Stable \in gone THEN [prior EXCEPT ![a] = Absent] ELSE prior
  /\ Goto(p, "clear")
  /\ Keep(p)
  /\ UNCHANGED <<files, minted, ingress, model>>

\* Best effort: each other stack of the app is removed, or a warning is logged.
RemoveStale(p) ==
  LET a == cmd[p].app IN
  /\ At(p, "stale")
  /\ \E gone \in SUBSET (Live(a) \ {cmd[p].stack}) :
       /\ runs' = [runs EXCEPT ![a] =
                     [s \in Stacks |-> IF s \in gone THEN Absent ELSE @[s]]]
       /\ prior' = IF Stable \in gone THEN [prior EXCEPT ![a] = Absent] ELSE prior
  /\ Goto(p, "clear")
  /\ Keep(p)
  /\ UNCHANGED <<files, minted, ingress, model>>

ClearJournal(p) ==
  /\ At(p, "clear")
  /\ journal' \in {journal, [journal EXCEPT ![cmd[p].app] = {}]}
  /\ Exit(p)
  /\ UNCHANGED <<history, lockGen, docker, ingress, model>>

-----------------------------------------------------------------------------
(* Remove, once its route is gone.                                         *)

RemoveStack(p) ==
  LET a == cmd[p].app
      stack == IF LatestStack(a) = NoStack THEN Stable ELSE LatestStack(a)
  IN /\ At(p, "rm_stack")
     /\ runs' = [runs EXCEPT ![a][stack] = Absent]
     /\ prior' = IF stack = Stable THEN [prior EXCEPT ![a] = Absent] ELSE prior
     /\ Goto(p, "rm_state")
     /\ Keep(p)
     /\ UNCHANGED <<files, minted, ingress, model>>

\* os.RemoveAll of the app's directory, operation.lock included.
RemoveState(p) ==
  LET a == cmd[p].app IN
  /\ At(p, "rm_state")
  /\ journal' = [journal EXCEPT ![a] = {}]
  /\ history' = [history EXCEPT ![a] = <<>>]
  /\ lockGen' = [lockGen EXCEPT ![a] = @ + 1]
  /\ Exit(p)
  /\ UNCHANGED <<docker, ingress, model>>

\* os.RemoveAll stops half way: any entry may be gone, and of the records any
\* run of neighbours may be left.
RemoveStateFails(p) ==
  LET a == cmd[p].app IN
  /\ At(p, "rm_state")
  /\ journal' \in {journal, [journal EXCEPT ![a] = {}]}
  /\ \E m, n \in 0..Len(history[a]) :
       history' = [history EXCEPT ![a] = SubSeq(@, m + 1, n)]
  /\ lockGen' \in {lockGen, [lockGen EXCEPT ![a] = @ + 1]}
  /\ Exit(p)
  /\ UNCHANGED <<docker, ingress, model>>

-----------------------------------------------------------------------------
(* Errors that change nothing, cancellation and crashes.                   *)

Returns == {"previous", "open", "wait_app", "wait_registry", "recover",
            "recover_clear", "begin", "rm_stack"}

\* Where each step goes when its call returns an error and had no effect.
OnError(p) ==
  CASE pc[p] \in Returns -> "idle"
    [] pc[p] \in {"verify", "network"} -> "drop"
    [] pc[p] = "write_conf" -> AfterError(p)
    [] pc[p] \in {"write_routes", "certs"} -> "restore"
    [] pc[p] = "undo" \/ pc[p] = "archive" ->
         IF cmd[p].unwinding THEN "idle" ELSE "record_failure"
    [] pc[p] = "record_failure" -> IF cmd[p].recovered THEN "unwind" ELSE "drop"
    [] pc[p] \in {"mark_deployed", "drop", "save_record", "mark_saved",
                  "set_latest"} -> "unwind"
    [] OTHER -> pc[p]

Fails(p) ==
  /\ OnError(p) # pc[p]
  /\ IF OnError(p) = "idle" THEN Exit(p) ELSE Goto(p, OnError(p)) /\ Keep(p)
  /\ UNCHANGED <<files, docker, ingress, model>>

\* SIGINT or SIGTERM: the context of a deploy or a rollback is cancelled.
Cancel(p) ==
  /\ HoldsRegistry(p)
  /\ cmd[p].op # "remove"
  /\ ~cmd[p].cancelled
  /\ cmd' = [cmd EXCEPT ![p].cancelled = TRUE]
  /\ UNCHANGED <<files, docker, ingress, pc, snap, model>>

\* Labels between the publication of nginx.conf and the journal entry for it.
Promoting == {"write_routes", "reload", "certs", "reload_tls", "restore",
              "restore_reload", "mark_ingress"}

\* SIGKILL or power loss: locks and locals go, files and Docker stay.
Crash(p) ==
  /\ ~At(p, "idle")
  /\ crashes < MaxCrashes
  /\ crashes' = crashes + 1
  /\ torn' = IF pc[p] \in Promoting THEN torn \cup {cmd[p].app} ELSE torn
  /\ Exit(p)
  /\ UNCHANGED <<files, docker, ingress, commands>>

-----------------------------------------------------------------------------
Init ==
  /\ journal = [a \in Apps |-> {}]
  /\ history = [a \in Apps |-> <<>>]
  /\ lockGen = [a \in Apps |-> 0]
  /\ runs = [a \in Apps |-> [s \in Stacks |-> Absent]]
  /\ prior = [a \in Apps |-> Absent]
  /\ minted = [a \in Apps |-> 0]
  /\ conf = NoRoutes
  /\ routes = NoRoutes
  /\ served = [a \in Apps |-> {}]
  /\ pc = [p \in Procs |-> "idle"]
  /\ cmd = [p \in Procs |-> NoCommand]
  /\ snap = [p \in Procs |-> NoSnap]
  /\ commands = 0
  /\ crashes = 0
  /\ torn = {}

Locking(p) == ReadPrevious(p) \/ OpenLock(p) \/ LockApp(p) \/ LockRegistry(p)

Recovery(p) ==
  \/ RecoverNothing(p) \/ RecoverCandidate(p) \/ RecoverClear(p) \/ RecoverInPlace(p)

Rollout(p) ==
  \/ Begin(p) \/ StackDeploy(p) \/ StackDeployFails(p) \/ MarkDeployed(p)
  \/ Verify(p) \/ Converge(p) \/ RolloutFails(p) \/ CancelledBeforePromotion(p)

TakeBack(p) ==
  \/ UndoCandidate(p) \/ UndoInPlace(p) \/ Archive(p) \/ RecordFailure(p)
  \/ DropCandidate(p) \/ Unwind(p)

Ingress(p) ==
  \/ EnsureNetwork(p) \/ NothingToRoute(p) \/ WriteConf(p) \/ WriteRoutes(p)
  \/ Reload(p) \/ ReloadFails(p) \/ Certificates(p) \/ NothingToRestore(p)
  \/ Restore(p) \/ RestoreFails(p) \/ RestoreReload(p) \/ RestoreReloadFails(p)

Commit(p) ==
  \/ MarkIngress(p) \/ MarkIngressFails(p) \/ SaveRecord(p) \/ MarkSaved(p)
  \/ SetLatest(p) \/ RemoveStale(p) \/ ClearJournal(p)

Removal(p) == RemoveStack(p) \/ RemoveState(p) \/ RemoveStateFails(p)

Step(p) ==
  \/ Locking(p) \/ Recovery(p) \/ Rollout(p) \/ TakeBack(p)
  \/ Ingress(p) \/ Commit(p) \/ Removal(p) \/ Fails(p)

Next ==
  \/ \E p \in Procs : Start(p) \/ Step(p) \/ Cancel(p) \/ Crash(p)
  \/ \E a \in Apps : OperatorClears(a)

Spec == Init /\ [][Next]_vars

\* The steps a started process is sure to take: a call returns a result or an
\* error, and a flock that stays free is taken at a later poll.  A wait for a
\* lock has no deadline, so that it ends in an error is never certain.
Certain(p) ==
  \/ Locking(p) \/ Recovery(p) \/ Rollout(p) \/ TakeBack(p)
  \/ Ingress(p) \/ Commit(p) \/ Removal(p)
  \/ pc[p] \notin {"wait_app", "wait_registry"} /\ Fails(p)

FairSpec == Spec /\ \A p \in Procs : WF_vars(Certain(p))
=============================================================================
