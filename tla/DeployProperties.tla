-------------------------- MODULE DeployProperties --------------------------
(***************************************************************************)
(* What deploying promises: invariants, properties of every step, liveness, *)
(* and three statements of the documentation that the code does not keep.  *)
(***************************************************************************)
EXTENDS Deploy

\* The stacks of the successful ones of some records, and of an app's records.
StacksOf(h) == {h[i].stack : i \in {n \in DOMAIN h : h[n].ok}}
Recorded(a) == StacksOf(history[a])

-----------------------------------------------------------------------------
(* Invariants.                                                             *)

\* The stage the journal on disk must have at each label of a deploy.
StagesAt(l) ==
  CASE l \in {"stack_deploy", "mark_deployed"} -> {"started"}
    [] l \in {"verify", "converge", "network"} -> {"stack_deployed"}
    [] l = "save_record"                       -> {"ingress_reconciled"}
    [] l = "mark_saved"                        -> {"ingress_reconciled"}
    [] l \in {"set_latest", "stale", "clear"}  -> {"deployment_saved"}
    [] OTHER                                   -> {}

OwnsJournal(p) ==
  \A st \in StagesAt(pc[p]) :
    journal[cmd[p].app] = {[stage |-> st, stack |-> cmd[p].stack, bg |-> cmd[p].bg]}

\* Between its first journal entry and its return, a deploy finds in
\* operation.json exactly the entry it wrote itself.  saveJournal overwrites
\* blindly, so this rests on operation.lock, on registry.lock when Remove has
\* unlinked operation.lock under a waiter, and on recoverJournal.
JournalOwned == \A p \in Procs : OwnsJournal(p)

\* The candidate that the next command's recoverJournal will delete is never
\* one that the deployment history calls successful.
UnpromotedUnrecorded ==
  \A a \in Apps : \A j \in journal[a] :
    Unpromoted(j) => j.stack \notin Recorded(a)

\* Unless the promotion of an app was torn apart (a crash, a journal that could
\* not be written or a failed restore between nginx.conf and the journal entry
\* "ingress_reconciled"), neither file and no nginx worker sends its traffic to
\* a stack that does not exist, whatever happens to the other apps that share
\* nginx.conf.
RoutesLive ==
  \A a \in Apps \ torn :
    (served[a] \cup {conf[a], routes[a]}) \ {NoStack} \subseteq Live(a)

-----------------------------------------------------------------------------
(* The inductive invariant behind JournalOwned, UnpromotedUnrecorded and    *)
(* RecordedStackKept.                                                       *)

\* registry.lock: one command at a time is past operationLock.
Mutex == \A p, q \in Procs : HoldsRegistry(p) /\ HoldsRegistry(q) => p = q

\* Labels of a deploy that has a journal and no successful record yet.
Undecided ==
  {"stack_deploy", "mark_deployed", "verify", "converge", "undo", "archive",
   "record_failure", "drop", "network", "mark_ingress", "save_record"} \cup Promoting
   \cup {"write_conf"}

\* Labels from the start of promotion to the last step that can still fail.
Committing ==
  {"network", "write_conf", "save_record", "mark_saved", "set_latest"} \cup Promoting

RemoveLabels ==
  {"open", "wait_app", "wait_registry", "write_conf", "write_routes", "reload",
   "restore", "restore_reload", "unwind", "rm_stack", "rm_state"}

\* A remove has no candidate and is not cancelled half way.
RemoveShape(p) ==
  cmd[p].op = "remove" => ~cmd[p].cancelled /\ ~cmd[p].bg /\ pc[p] \in RemoveLabels

\* A deploy past begin has a release, and past converge it is promoting.
DeployShape(p) ==
  cmd[p].op # "remove" =>
    /\ pc[p] \in Undecided \cup {"mark_saved", "set_latest", "unwind"} =>
         cmd[p].rel \in Releases
    /\ pc[p] \in Committing => cmd[p].promoting

\* The candidate of a deploy that has not committed is in no successful record.
CandidateUnrecorded(p) ==
  /\ cmd[p].bg
  /\ pc[p] \in Undecided \/ (pc[p] = "unwind" /\ ~cmd[p].promoting)
  => cmd[p].stack \notin Recorded(cmd[p].app)

\* Once recorded, a deploy's stack is that of the newest record.
NewestIsMine(p) ==
  pc[p] \in {"mark_saved", "set_latest", "stale"} =>
    LET h == history[cmd[p].app] IN
    h # <<>> /\ h[Len(h)].ok /\ h[Len(h)].stack = cmd[p].stack

\* Names in use were minted, so the next one is fresh.
NamesMinted ==
  /\ \A a \in Apps : \A s \in Recorded(a) : s <= minted[a]
  /\ \A p \in Procs : cmd[p].stack <= minted[cmd[p].app]

ProcInv(p) ==
  /\ RemoveShape(p)
  /\ DeployShape(p)
  /\ CandidateUnrecorded(p)
  /\ NewestIsMine(p)
  /\ OwnsJournal(p)

DeployInv ==
  /\ TypeOK
  /\ Mutex
  /\ \A p \in Procs : ProcInv(p)
  /\ NamesMinted
  /\ UnpromotedUnrecorded

-----------------------------------------------------------------------------
(* The inductive invariant behind RoutesLive, OnlyRecoveryDropsTraffic,      *)
(* IntentOutlivesCandidate and DeployRefines, on top of DeployInv.          *)

\* What p's command makes of its app's route.
Target(p) ==
  IF cmd[p].op = "remove" \/ cmd[p].mode = "internal" THEN NoStack ELSE cmd[p].stack

Traffic(a)   == (served[a] \cup {conf[a], routes[a]}) \ {NoStack}
InSync(a)    == conf[a] = routes[a] /\ served[a] = {conf[a]} \ {NoStack}
Deletable(a) == {j.stack : j \in {k \in journal[a] : Unpromoted(k)}}
Safe(a, r)   == r = NoStack \/ r \in Live(a) \ Deletable(a)

\* Labels of a deploy from its first journal entry to its return, those of them
\* at which its stack runs, and those at which it can still be taken back.
Deploying == Undecided \cup {"mark_saved", "set_latest", "stale", "clear", "unwind"}
Running   == Deploying \ {"stack_deploy", "undo", "archive", "record_failure",
                          "drop", "clear", "unwind"}
Revocable == Undecided \ (Promoting \cup {"save_record"})
Switching == Promoting \ {"mark_ingress"}

Before(p) == {snap[p].conf[cmd[p].app]} \ {NoStack}
After(p)  == {Target(p)} \ {NoStack}

\* What p would restore, and that nobody else's route changes while it promotes.
SnapHolds(p) ==
  pc[p] \in Switching =>
    \A a \in Apps \ torn :
      /\ snap[p].conf[a] = snap[p].routes[a]
      /\ Safe(a, snap[p].conf[a])
      /\ a # cmd[p].app => conf[a] = snap[p].conf[a]

\* How far p's promotion is in each of the two files, torn or not, ...
FilesFollow(p) ==
  pc[p] \in Promoting =>
    LET a == cmd[p].app IN
    /\ ~(At(p, "mark_ingress") /\ a \in torn) =>
         conf[a] = IF At(p, "restore_reload") THEN snap[p].conf[a] ELSE Target(p)
    /\ ~At(p, "restore") =>
         routes[a] = IF pc[p] \in {"write_routes", "restore_reload"}
                     THEN snap[p].routes[a] ELSE Target(p)
    /\ At(p, "restore") => routes[a] \in {snap[p].routes[a], Target(p)}

\* ... and in the workers.
WorkersFollow(p) ==
  cmd[p].app \notin torn =>
    LET s == served[cmd[p].app] IN
    /\ pc[p] \in {"write_routes", "reload"} => s = Before(p)
    /\ pc[p] \in {"certs", "reload_tls", "mark_ingress"} => s = After(p)
    /\ pc[p] \in {"restore", "restore_reload"} =>
         s \in {Before(p), After(p), Before(p) \cup After(p)}

\* An app whose promotion is neither torn nor under way has one route.
Settled ==
  \A a \in Apps \ torn :
    \/ InSync(a) /\ Safe(a, conf[a])
    \/ \E p \in Procs : pc[p] \in Promoting /\ cmd[p].app = a

\* Traffic has moved before anything that carried it may be deleted.
Moved(p) ==
  /\ pc[p] \in {"save_record", "mark_saved", "set_latest", "stale"} =>
       routes[cmd[p].app] = Target(p)
  /\ At(p, "rm_stack") => routes[cmd[p].app] = NoStack

\* A candidate that can still be taken back has no traffic, and no restored file
\* will name it.
Untrafficked(p) ==
  cmd[p].bg =>
    LET a == cmd[p].app IN
    /\ cmd[p].mode # "internal"
    /\ pc[p] \in Revocable \/ (At(p, "unwind") /\ ~cmd[p].promoting)
         => cmd[p].stack \notin Traffic(a)
    /\ pc[p] \in Switching => cmd[p].stack \notin {snap[p].conf[a], snap[p].routes[a]}

StackRuns(p) ==
  cmd[p].op # "remove" /\ pc[p] \in Running => cmd[p].stack \in Live(cmd[p].app)

\* What p knows of the journal of its app.
Intent(p) ==
  LET a == cmd[p].app IN
  /\ At(p, "recover_clear") => Deletable(a) \cap Live(a) = {}
  /\ At(p, "begin") => journal[a] = {}
  /\ cmd[p].op # "remove" /\ pc[p] \in Deploying =>
       \A j \in journal[a] : j.stack = cmd[p].stack /\ j.bg = cmd[p].bg
  /\ At(p, "archive") /\ cmd[p].bg => cmd[p].stack \notin Live(a)

\* The stack that Remove's last step forgets does not run.
Retired(p) == At(p, "rm_state") => LatestStack(cmd[p].app) \notin Live(cmd[p].app)

OneEntry == \A a \in Apps : \A j, k \in journal[a] : j = k

\* Every name in a route was minted, so the next one is in none.
RoutesMinted ==
  \A a \in Apps :
    /\ \A s \in Traffic(a) : s <= minted[a]
    /\ \A p \in Procs : \A s \in {snap[p].conf[a], snap[p].routes[a]} \ {NoStack} :
         s <= minted[a]

TrafficOf(p) ==
  /\ SnapHolds(p) /\ FilesFollow(p) /\ WorkersFollow(p)
  /\ Moved(p) /\ Untrafficked(p) /\ StackRuns(p) /\ Intent(p) /\ Retired(p)

TrafficInv ==
  /\ OneEntry
  /\ Settled
  /\ RoutesMinted
  /\ \A p \in Procs : TrafficOf(p)

-----------------------------------------------------------------------------
(* Properties of every step.                                               *)

Dies(a, s) == runs[a][s] # Absent /\ runs'[a][s] = Absent

\* The stack of the newest successful record, which blue/green promises to keep
\* until its replacement is recorded, is deleted by nothing but Remove: no
\* failure, cancellation, crash recovery or stale-stack sweep takes it.
RecordedStackKept ==
  [][\A a \in Apps, s \in Stacks :
       /\ Dies(a, s)
       /\ \E i \in DOMAIN history[a] : IsLatest(a, i) /\ history[a][i].stack = s
       => \E p \in Procs : At(p, "rm_stack") /\ cmd[p].app = a]_vars

\* A stack that the routes name and the workers use is deleted by nothing but
\* recoverJournal: cancellation, failed candidates, the sweep of old stacks and
\* Remove all leave it alone until traffic has moved.
OnlyRecoveryDropsTraffic ==
  [][\A a \in Apps, s \in Stacks :
       Dies(a, s) /\ routes[a] = s /\ s \in served[a]
         => \E p \in Procs : At(p, "recover") /\ cmd[p].app = a]_vars

\* A journal entry for an unpromoted candidate stays until that candidate is
\* gone or promoted; only Remove, which deletes the app's whole directory, drops
\* it earlier.
IntentOutlivesCandidate ==
  [][\A a \in Apps : \A j \in journal[a] :
       Unpromoted(j) /\ runs'[a][j.stack] # Absent
         => \/ \E k \in journal'[a] : k.stack = j.stack
            \/ \E p \in Procs : At(p, "rm_state") /\ cmd[p].app = a]_vars

\* Every command that starts returns, as long as users start finitely many
\* others: no error path ends nowhere, no lock is kept over a return, and the
\* two nested locks are taken in one order.  Nothing but its holder's return
\* ends the wait for a lock.
CommandsReturn == \A p \in Procs : pc[p] # "idle" ~> pc[p] = "idle"

\* Deploy implements the atomic promotion: live stacks are those Docker runs,
\* the current one is the stack of the newest successful record, and an app is
\* being removed while a remove deletes its stack or its state.
Abstract == INSTANCE Promotion WITH
  live     <- [a \in Apps |-> Live(a)],
  current  <- [a \in Apps |-> LatestStack(a)],
  retiring <- {cmd[p].app : p \in {q \in Procs : pc[q] \in {"rm_stack", "rm_state"}}}

\* Every step of the detailed commands, with their crashes, cancellations and
\* failures, is a step of the atomic promotion or changes nothing it sees: a
\* record is saved only for a stack that runs, the recorded stack is given up only
\* by a later record or by Remove, and nothing else happens to an app meanwhile.
DeployRefines == Abstract!Spec

-----------------------------------------------------------------------------
(* Statements of the documentation that the code does not keep.            *)

\* docs/concepts.md:97 "A restarted command automatically removes an unpromoted
\* blue/green candidate": the candidate that recovery deletes carries no traffic.
RecoveryRemovesOnlyUnpromoted ==
  [][\A p \in Procs, s \in Stacks :
       At(p, "recover") /\ Dies(cmd[p].app, s) => s \notin served[cmd[p].app]]_vars

\* docs/reference/app-manifest.md:313 (cancelling a deployment) "in-place updates
\* roll back, and first deployments are scaled to zero": after the recovery of a
\* cancelled in-place deploy the service runs what it ran before that command.
CancelRestores ==
  [][\A p \in Procs :
       At(p, "undo") /\ cmd[p].unwinding /\ ~cmd[p].bg /\ pc'[p] = "archive"
         => runs'[cmd[p].app][Stable] \in
              IF cmd[p].was = Absent THEN {Absent, Stopped} ELSE {cmd[p].was}]_vars

\* docs/commands.md:91 remove "Removes selected app stacks and generated state":
\* when it has succeeded, no stack of the app is left.
RemoveLeavesNothing ==
  [][\A p \in Procs :
       At(p, "rm_state") /\ journal'[cmd[p].app] = {} /\ history'[cmd[p].app] = <<>>
         /\ lockGen'[cmd[p].app] # lockGen[cmd[p].app]
         => Live(cmd[p].app) = {}]_vars

\* docs/concepts.md:80 "noops rollback deploys the preceding successful
\* deployment": when the rollback takes effect, that is what it deploys.
RollbackTakesPreceding ==
  [][\A p \in Procs :
       At(p, "begin") /\ pc'[p] = "stack_deploy" /\ cmd[p].op = "rollback"
         => \E i \in Successful(cmd[p].app) :
              /\ IsPrevious(cmd[p].app, i)
              /\ history[cmd[p].app][i].rel = cmd'[p].rel]_vars
=============================================================================
