--------------------------- MODULE TrafficProofs ---------------------------
(***************************************************************************)
(* Proofs about where traffic goes while applications are deployed, rolled  *)
(* back and removed: TrafficInv is inductive on top of DeployInv.          *)
(***************************************************************************)
EXTENDS DeployProofs, WellFoundedInduction

-----------------------------------------------------------------------------
(* Frames: what a step leaves alone.                                       *)

\* The types of a process and of what it works on.
LEMMA ProcessTypes ==
  ASSUME TypeOK, NEW p \in Procs
  PROVE  /\ pc \in [Procs -> Labels] /\ cmd \in [Procs -> Command]
         /\ snap \in [Procs -> [conf: [Apps -> Route], routes: [Apps -> Route]]]
         /\ cmd[p] \in Command /\ cmd[p].app \in Apps /\ cmd[p].stack \in Stacks
         /\ cmd[p].bg \in BOOLEAN /\ cmd[p].promoting \in BOOLEAN
         /\ snap[p].conf \in [Apps -> Route] /\ snap[p].routes \in [Apps -> Route]
         /\ journal \in [Apps -> SUBSET Journal]
         /\ runs \in [Apps -> [Stacks -> Workload]]
         /\ minted \in [Apps -> Stacks]
         /\ conf \in [Apps -> Route] /\ routes \in [Apps -> Route]
         /\ served \in [Apps -> SUBSET Stacks] /\ torn \subseteq Apps
         /\ Stable \in Stacks /\ Stacks \subseteq Nat /\ NoStack \notin Stacks
<1>1. Stable \in Stacks /\ Stacks \subseteq Nat /\ NoStack \notin Stacks
  BY BoundsAssumption, NamesAssumption DEF Stacks, Stable
<1> QED
  BY <1>1 DEF TypeOK, ProcsOK, FilesOK, DockerOK, IngressOK, ModelOK, Command

\* A step takes no snapshot for another process.
LEMMA OthersKeepSnap ==
  ASSUME NEW p \in Procs, ProcsOK, NEW q \in Procs \ {p}, Step(p)
  PROVE  snap'[q] = snap[q]
<1> USE DEF ProcsOK, Exit, Keep
<1>1. CASE Locking(p)
  BY <1>1 DEF Locking, ReadPrevious, OpenLock, LockApp, LockRegistry
<1>2. CASE Recovery(p)
  BY <1>2
     DEF Recovery, RecoverNothing, RecoverCandidate, RecoverClear, RecoverInPlace
<1>3. CASE Rollout(p)
  <2>1. CASE Begin(p)
    BY <2>1 DEF Begin, BeginAs
  <2>2. CASE \/ StackDeploy(p) \/ StackDeployFails(p) \/ MarkDeployed(p)
              \/ Verify(p) \/ Converge(p) \/ RolloutFails(p)
              \/ CancelledBeforePromotion(p)
    BY <2>2
       DEF StackDeploy, StackDeployFails, MarkDeployed, Verify, Converge,
           RolloutFails, CancelledBeforePromotion
  <2> QED
    BY <1>3, <2>1, <2>2 DEF Rollout
<1>4. CASE TakeBack(p)
  BY <1>4
     DEF TakeBack, UndoCandidate, UndoInPlace, Archive, RecordFailure,
         DropCandidate, Unwind
<1>5. CASE Ingress(p)
  BY <1>5
     DEF Ingress, EnsureNetwork, NothingToRoute, WriteConf, WriteRoutes, Reload,
         ReloadFails, Certificates, NothingToRestore, Restore, RestoreFails,
         RestoreReload, RestoreReloadFails
<1>6. CASE Commit(p)
  BY <1>6
     DEF Commit, MarkIngress, MarkIngressFails, SaveRecord, MarkSaved, SetLatest,
         RemoveStale, ClearJournal
<1>7. CASE Removal(p)
  BY <1>7 DEF Removal, RemoveStack, RemoveState, RemoveStateFails
<1>8. CASE Fails(p)
  BY <1>8 DEF Fails
<1> QED
  BY <1>1, <1>2, <1>3, <1>4, <1>5, <1>6, <1>7, <1>8 DEF Step

\* A step works on the files and the stacks of its own app only, and tears only
\* that app's promotion.
LEMMA AppAlone ==
  ASSUME NEW p \in Procs, TypeOK, Step(p), NEW a \in Apps \ {cmd[p].app}
  PROVE  /\ runs'[a] = runs[a] /\ journal'[a] = journal[a]
         /\ history'[a] = history[a] /\ minted'[a] = minted[a]
         /\ a \in torn' <=> a \in torn
<1>0. /\ cmd[p].app \in Apps
      /\ runs \in [Apps -> [Stacks -> Workload]] /\ journal \in [Apps -> SUBSET Journal]
      /\ history \in [Apps -> Seq(Record)] /\ minted \in [Apps -> Stacks]
  BY ProcessTypes DEF TypeOK, FilesOK
<1> USE DEF files, docker, model, Mark, Submit, SwarmRollsBack
<1>1. CASE Locking(p)
  BY <1>0, <1>1 DEF Locking, ReadPrevious, OpenLock, LockApp, LockRegistry
<1>2. CASE Recovery(p)
  BY <1>0, <1>2
     DEF Recovery, RecoverNothing, RecoverCandidate, RecoverClear, RecoverInPlace
<1>3. CASE Rollout(p)
  <2>1. CASE Begin(p)
    BY <1>0, <2>1 DEF Begin, BeginAs
  <2>2. CASE \/ StackDeploy(p) \/ StackDeployFails(p) \/ MarkDeployed(p)
              \/ Verify(p) \/ Converge(p) \/ RolloutFails(p)
              \/ CancelledBeforePromotion(p)
    BY <1>0, <2>2
       DEF StackDeploy, StackDeployFails, MarkDeployed, Verify, Converge,
           RolloutFails, CancelledBeforePromotion
  <2> QED
    BY <1>3, <2>1, <2>2 DEF Rollout
<1>4. CASE TakeBack(p)
  BY <1>0, <1>4
     DEF TakeBack, UndoCandidate, UndoInPlace, Archive, RecordFailure,
         DropCandidate, Unwind
<1>5. CASE Ingress(p)
  BY <1>0, <1>5
     DEF Ingress, EnsureNetwork, NothingToRoute, WriteConf, WriteRoutes, Reload,
         ReloadFails, Certificates, NothingToRestore, Restore, RestoreFails,
         RestoreReload, RestoreReloadFails
<1>6. CASE Commit(p)
  BY <1>0, <1>6
     DEF Commit, MarkIngress, MarkIngressFails, SaveRecord, MarkSaved, SetLatest,
         RemoveStale, ClearJournal
<1>7. CASE Removal(p)
  BY <1>0, <1>7 DEF Removal, RemoveStack, RemoveState, RemoveStateFails
<1>8. CASE Fails(p)
  BY <1>0, <1>8 DEF Fails
<1> QED
  BY <1>1, <1>2, <1>3, <1>4, <1>5, <1>6, <1>7, <1>8 DEF Step

\* Only a promotion can be torn.
LEMMA TornByPromotion ==
  ASSUME NEW p \in Procs, Step(p), pc[p] \notin Promoting
  PROVE  torn' = torn
<1> USE DEF At, Promoting, model
<1>1. CASE Locking(p)
  BY <1>1 DEF Locking, ReadPrevious, OpenLock, LockApp, LockRegistry
<1>2. CASE Recovery(p)
  BY <1>2
     DEF Recovery, RecoverNothing, RecoverCandidate, RecoverClear, RecoverInPlace
<1>3. CASE Rollout(p)
  <2>1. CASE Begin(p)
    BY <2>1 DEF Begin, BeginAs
  <2>2. CASE \/ StackDeploy(p) \/ StackDeployFails(p) \/ MarkDeployed(p)
              \/ Verify(p) \/ Converge(p) \/ RolloutFails(p)
              \/ CancelledBeforePromotion(p)
    BY <2>2
       DEF StackDeploy, StackDeployFails, MarkDeployed, Verify, Converge,
           RolloutFails, CancelledBeforePromotion
  <2> QED
    BY <1>3, <2>1, <2>2 DEF Rollout
<1>4. CASE TakeBack(p)
  BY <1>4
     DEF TakeBack, UndoCandidate, UndoInPlace, Archive, RecordFailure,
         DropCandidate, Unwind
<1>5. CASE Ingress(p)
  BY <1>5
     DEF Ingress, EnsureNetwork, NothingToRoute, WriteConf, WriteRoutes, Reload,
         ReloadFails, Certificates, NothingToRestore, Restore, RestoreFails,
         RestoreReload, RestoreReloadFails
<1>6. CASE Commit(p)
  BY <1>6
     DEF Commit, MarkIngress, MarkIngressFails, SaveRecord, MarkSaved, SetLatest,
         RemoveStale, ClearJournal
<1>7. CASE Removal(p)
  BY <1>7 DEF Removal, RemoveStack, RemoveState, RemoveStateFails
<1>8. CASE Fails(p)
  BY <1>8 DEF Fails
<1> QED
  BY <1>1, <1>2, <1>3, <1>4, <1>5, <1>6, <1>7, <1>8 DEF Step
-----------------------------------------------------------------------------
(* What a step does to the part of the invariant about its own process.    *)

\* A deploy's stack runs from its submission to the deploy's last step.
LEMMA StackStaysUp ==
  ASSUME NEW p \in Procs, TypeOK, RemoveShape(p), DeployShape(p), StackRuns(p), Step(p)
  PROVE  StackRuns(p)'
<1> USE DEF At, Goto, Exit, Keep, StackRuns, Running, Deploying, Undecided, Promoting,
        Live, docker
<1>0. /\ pc \in [Procs -> Labels] /\ cmd \in [Procs -> Command]
      /\ cmd[p] \in Command /\ cmd[p].app \in Apps /\ cmd[p].stack \in Stacks
      /\ runs \in [Apps -> [Stacks -> Workload]]
  BY ProcessTypes
<1>1. CASE Locking(p)
  BY <1>0, <1>1
     DEF Locking, ReadPrevious, OpenLock, LockApp, LockRegistry, RemoveShape,
         Command
<1>2. CASE Recovery(p)
  BY <1>0, <1>2
     DEF Recovery, RecoverNothing, RecoverCandidate, RecoverClear, RecoverInPlace
<1>3. CASE Rollout(p)
  <2>1. CASE Begin(p)
    BY <1>0, <2>1 DEF Begin, BeginAs
  <2>2. CASE StackDeploy(p)
    <3>1. cmd[p].rel # Absent
      BY NamesAssumption, <2>2 DEF StackDeploy, DeployShape, RemoveShape, RemoveLabels
    <3>2. /\ cmd'[p].app = cmd[p].app /\ cmd'[p].stack = cmd[p].stack
          /\ runs' = [runs EXCEPT ![cmd[p].app][cmd[p].stack] = cmd[p].rel]
      BY <1>0, <2>2 DEF StackDeploy, Submit, Observe, Command
    <3> QED
      BY <1>0, <3>1, <3>2
  <2>3. CASE StackDeployFails(p)
    BY <1>0, <2>3 DEF StackDeployFails
  <2>4. CASE Converge(p)
    BY <1>0, <2>4 DEF Converge, Command
  <2>5. CASE \/ MarkDeployed(p) \/ Verify(p) \/ RolloutFails(p)
              \/ CancelledBeforePromotion(p)
    BY <1>0, <2>5 DEF MarkDeployed, Verify, RolloutFails, CancelledBeforePromotion
  <2> QED
    BY <1>3, <2>1, <2>2, <2>3, <2>4, <2>5 DEF Rollout
<1>4. CASE TakeBack(p)
  BY <1>0, <1>4
     DEF TakeBack, UndoCandidate, UndoInPlace, Archive, RecordFailure,
         DropCandidate, Unwind, Command
<1>5. CASE Ingress(p)
  BY <1>0, <1>5
     DEF Ingress, EnsureNetwork, NothingToRoute, WriteConf, WriteRoutes, Reload,
         ReloadFails, Certificates, NothingToRestore, Restore, RestoreFails,
         RestoreReload, RestoreReloadFails, AfterIngress, AfterError
<1>6. CASE Commit(p)
  <2>1. CASE RemoveStale(p)
    <3>1. PICK gone \in SUBSET (Live(cmd[p].app) \ {cmd[p].stack}) :
            runs' = [runs EXCEPT ![cmd[p].app] =
                       [t \in Stacks |-> IF t \in gone THEN Absent ELSE runs[cmd[p].app][t]]]
      BY <2>1 DEF RemoveStale
    <3> QED
      BY <1>0, <3>1, <2>1 DEF RemoveStale
  <2>2. CASE \/ MarkIngress(p) \/ MarkIngressFails(p) \/ SaveRecord(p)
              \/ MarkSaved(p) \/ SetLatest(p) \/ ClearJournal(p)
    BY <1>0, <2>2
       DEF MarkIngress, MarkIngressFails, SaveRecord, MarkSaved, SetLatest,
           ClearJournal
  <2> QED
    BY <1>6, <2>1, <2>2 DEF Commit
<1>7. CASE Removal(p)
  BY <1>0, <1>7 DEF Removal, RemoveStack, RemoveState, RemoveStateFails
<1>8. CASE Fails(p)
  BY <1>0, <1>8 DEF Fails, OnError, AfterError, Returns
<1> QED
  BY <1>1, <1>2, <1>3, <1>4, <1>5, <1>6, <1>7, <1>8 DEF Step

\* A journal never has more than one entry.
LEMMA OneEntryKept ==
  ASSUME NEW p \in Procs, TypeOK, OneEntry, Step(p)
  PROVE  OneEntry'
<1> SUFFICES ASSUME NEW a \in Apps
             PROVE  \A j, k \in journal'[a] : j = k
  BY DEF OneEntry
<1>1. CASE journal'[a] \subseteq journal[a]
  BY <1>1 DEF OneEntry
<1>2. CASE ~(journal'[a] \subseteq journal[a])
  BY <1>2, JournalWrites
<1> QED
  BY <1>1, <1>2

\* What a command knows of its app's journal: recovery empties it before Begin,
\* and from there to the return it holds nothing but the command's own entry.
LEMMA IntentKept ==
  ASSUME NEW p \in Procs, TypeOK, RemoveShape(p), OneEntry, Intent(p), Step(p)
  PROVE  Intent(p)'
<1> USE DEF At, Goto, Exit, Keep, Mark, Intent, Deploying, Undecided, Promoting, files,
        docker
<1>0. /\ pc \in [Procs -> Labels] /\ cmd \in [Procs -> Command]
      /\ cmd[p] \in Command /\ cmd[p].app \in Apps /\ cmd[p].stack \in Stacks
      /\ runs \in [Apps -> [Stacks -> Workload]] /\ journal \in [Apps -> SUBSET Journal]
  BY ProcessTypes
<1>1. CASE Locking(p)
  BY <1>0, <1>1
     DEF Locking, ReadPrevious, OpenLock, LockApp, LockRegistry, RemoveShape,
         RemoveLabels, Command
<1>2. CASE Recovery(p)
  <2>1. CASE RecoverCandidate(p)
    <3>1. PICK j \in journal[cmd[p].app] :
            Unpromoted(j) /\ runs' = [runs EXCEPT ![cmd[p].app][j.stack] = Absent]
      BY <2>1 DEF RecoverCandidate
    <3>2. /\ pc' = [pc EXCEPT ![p] = "recover_clear"]
          /\ cmd' = cmd /\ journal' = journal
      BY <2>1 DEF RecoverCandidate
    <3>3. Deletable(cmd[p].app)' \subseteq {j.stack}
      BY <1>0, <3>1, <3>2 DEF OneEntry, Deletable
    <3>4. j.stack \notin Live(cmd[p].app)'
      BY <1>0, <3>1, <3>2 DEF Live
    <3> QED
      BY <1>0, <3>2, <3>3, <3>4
  <2>2. CASE RecoverInPlace(p)
    BY <1>0, <2>2 DEF RecoverInPlace
  <2>3. CASE RecoverNothing(p) \/ RecoverClear(p)
    BY <1>0, <2>3 DEF RecoverNothing, RecoverClear
  <2> QED
    BY <1>2, <2>1, <2>2, <2>3 DEF Recovery
<1>3. CASE Rollout(p)
  <2>1. CASE Begin(p)
    <3>1. PICK rel \in Releases, mode \in Modes, bg \in BOOLEAN, stack \in Stacks :
            BeginAs(p, rel, mode, bg, stack)
      BY <2>1 DEF Begin
    <3>2. /\ cmd'[p].stack = stack /\ cmd'[p].bg = bg /\ cmd'[p].app = cmd[p].app
          /\ journal'[cmd[p].app] = {[stage |-> "started", stack |-> stack, bg |-> bg]}
          /\ pc'[p] = "stack_deploy"
      BY <1>0, <3>1 DEF BeginAs, Command
    <3> QED
      BY <3>2
  <2>2. CASE StackDeploy(p)
    BY <1>0, <2>2 DEF StackDeploy, Observe, Command
  <2>3. CASE StackDeployFails(p)
    BY <1>0, <2>3 DEF StackDeployFails, Observe, Command
  <2>4. CASE Converge(p)
    BY <1>0, <2>4 DEF Converge, Command
  <2>5. CASE \/ MarkDeployed(p) \/ Verify(p) \/ RolloutFails(p)
              \/ CancelledBeforePromotion(p)
    BY <1>0, <2>5 DEF MarkDeployed, Verify, RolloutFails, CancelledBeforePromotion
  <2> QED
    BY <1>3, <2>1, <2>2, <2>3, <2>4, <2>5 DEF Rollout
<1>4. CASE TakeBack(p)
  <2>1. CASE UndoCandidate(p)
    BY <1>0, NamesAssumption, <2>1 DEF UndoCandidate, Live
  <2>2. CASE UndoInPlace(p)
    BY <1>0, <2>2 DEF UndoInPlace
  <2>3. CASE Archive(p)
    BY <1>0, <2>3 DEF Archive, Command
  <2>4. CASE Unwind(p)
    <3>1. CASE cmd[p].cancelled /\ ~cmd[p].promoting
      <4>1. /\ cmd'[p].app = cmd[p].app /\ cmd'[p].stack = cmd[p].stack
            /\ cmd'[p].bg = cmd[p].bg /\ cmd'[p].op = cmd[p].op
            /\ pc'[p] = "undo" /\ pc[p] = "unwind" /\ journal' = journal
        BY <1>0, <3>1, <2>4 DEF Unwind, Command
      <4> QED
        BY <4>1
    <3>2. CASE ~(cmd[p].cancelled /\ ~cmd[p].promoting)
      <4>1. pc'[p] = "idle"
        BY <1>0, <3>2, <2>4 DEF Unwind
      <4> QED
        BY <4>1
    <3> QED
      BY <3>1, <3>2
  <2>5. CASE RecordFailure(p) \/ DropCandidate(p)
    BY <1>0, <2>5 DEF RecordFailure, DropCandidate
  <2> QED
    BY <1>4, <2>1, <2>2, <2>3, <2>4, <2>5 DEF TakeBack
<1>5. CASE Ingress(p)
  BY <1>0, <1>5
     DEF Ingress, EnsureNetwork, NothingToRoute, WriteConf, WriteRoutes, Reload,
         ReloadFails, Certificates, NothingToRestore, Restore, RestoreFails,
         RestoreReload, RestoreReloadFails, AfterIngress, AfterError
<1>6. CASE Commit(p)
  <2>1. CASE ClearJournal(p)
    BY <1>0, <2>1 DEF ClearJournal
  <2>2. CASE \/ MarkIngress(p) \/ MarkIngressFails(p) \/ SaveRecord(p)
              \/ MarkSaved(p) \/ SetLatest(p) \/ RemoveStale(p)
    BY <1>0, <2>2
       DEF MarkIngress, MarkIngressFails, SaveRecord, MarkSaved, SetLatest,
           RemoveStale
  <2> QED
    BY <1>6, <2>1, <2>2 DEF Commit
<1>7. CASE Removal(p)
  <2>1. CASE RemoveStack(p)
    BY <1>0, <1>0, <2>1 DEF RemoveStack, RemoveShape, RemoveLabels
  <2>2. CASE RemoveState(p) \/ RemoveStateFails(p)
    BY <1>0, <2>2 DEF RemoveState, RemoveStateFails
  <2> QED
    BY <1>7, <2>1, <2>2 DEF Removal
<1>8. CASE Fails(p)
  BY <1>0, <1>8 DEF Fails, OnError, AfterError, Returns, RemoveShape, RemoveLabels
<1> QED
  BY <1>1, <1>2, <1>3, <1>4, <1>5, <1>6, <1>7, <1>8 DEF Step

\* The routes a command asks for: its own app's, and everybody else's as they are.
LEMMA UpdatedRoutes ==
  ASSUME TypeOK, NEW p \in Procs
  PROVE  /\ Updated(p)[cmd[p].app] = Target(p)
         /\ \A b \in Apps \ {cmd[p].app} : Updated(p)[b] = routes[b]
  BY ProcessTypes DEF Updated, Target

\* A command moves its app's route in routes.json before it saves, removes or
\* sweeps anything.
LEMMA MovedKept ==
  ASSUME NEW p \in Procs, TypeOK, FilesFollow(p), Moved(p), Step(p)
  PROVE  Moved(p)'
<1> USE DEF At, Goto, Exit, Keep, Moved, Target, ingress
<1>0. /\ pc \in [Procs -> Labels] /\ cmd \in [Procs -> Command]
      /\ cmd[p] \in Command /\ cmd[p].app \in Apps
      /\ conf \in [Apps -> Route] /\ routes \in [Apps -> Route]
      /\ snap[p].conf \in [Apps -> Route] /\ snap[p].routes \in [Apps -> Route]
      /\ snap \in [Procs -> [conf: [Apps -> Route], routes: [Apps -> Route]]]
      /\ served \in [Apps -> SUBSET Stacks]
  BY ProcessTypes
<1>1. CASE Locking(p)
  BY <1>0, <1>1 DEF Locking, ReadPrevious, OpenLock, LockApp, LockRegistry
<1>2. CASE Recovery(p)
  BY <1>0, <1>2
     DEF Recovery, RecoverNothing, RecoverCandidate, RecoverClear, RecoverInPlace
<1>3. CASE Rollout(p)
  <2>1. CASE Begin(p)
    BY <1>0, <2>1 DEF Begin, BeginAs, Labels
  <2>2. CASE \/ StackDeploy(p) \/ StackDeployFails(p) \/ MarkDeployed(p)
              \/ Verify(p) \/ Converge(p) \/ RolloutFails(p)
              \/ CancelledBeforePromotion(p)
    BY <1>0, <2>2
       DEF StackDeploy, StackDeployFails, MarkDeployed, Verify, Converge,
           RolloutFails, CancelledBeforePromotion
  <2> QED
    BY <1>3, <2>1, <2>2 DEF Rollout
<1>4. CASE TakeBack(p)
  BY <1>0, <1>4
     DEF TakeBack, UndoCandidate, UndoInPlace, Archive, RecordFailure,
         DropCandidate, Unwind
<1>5. CASE Ingress(p)
  <2>1. CASE NothingToRoute(p)
    <3>1. routes[cmd[p].app] = Target(p)
      BY UpdatedRoutes, <2>1 DEF NothingToRoute, Changed
    <3> QED
      BY <1>0, <3>1, <2>1 DEF NothingToRoute, AfterIngress
  <2>2. CASE Reload(p)
    <3>1. routes[cmd[p].app] = Target(p)
      BY <2>2 DEF Reload, FilesFollow, Promoting
    <3> QED
      BY <1>0, <3>1, <2>2 DEF Reload, AfterIngress
  <2>3. CASE \/ EnsureNetwork(p) \/ WriteConf(p) \/ WriteRoutes(p)
              \/ ReloadFails(p) \/ Certificates(p) \/ NothingToRestore(p)
              \/ Restore(p) \/ RestoreFails(p) \/ RestoreReload(p)
              \/ RestoreReloadFails(p)
    BY <1>0, <2>3
       DEF EnsureNetwork, WriteConf, WriteRoutes, ReloadFails, Certificates,
           NothingToRestore, Restore, RestoreFails, RestoreReload,
           RestoreReloadFails, AfterIngress, AfterError
  <2> QED
    BY <1>5, <2>1, <2>2, <2>3 DEF Ingress
<1>6. CASE Commit(p)
  <2>1. CASE MarkIngress(p)
    <3>1. routes[cmd[p].app] = Target(p)
      BY <2>1 DEF MarkIngress, FilesFollow, Promoting
    <3> QED
      BY <1>0, <3>1, <2>1 DEF MarkIngress
  <2>2. CASE \/ MarkIngressFails(p) \/ SaveRecord(p) \/ MarkSaved(p)
              \/ SetLatest(p) \/ RemoveStale(p) \/ ClearJournal(p)
    BY <1>0, <2>2
       DEF MarkIngressFails, SaveRecord, MarkSaved, SetLatest, RemoveStale,
           ClearJournal
  <2> QED
    BY <1>6, <2>1, <2>2 DEF Commit
<1>7. CASE Removal(p)
  BY <1>0, <1>7 DEF Removal, RemoveStack, RemoveState, RemoveStateFails
<1>8. CASE Fails(p)
  BY <1>0, <1>8 DEF Fails, OnError, AfterError, Returns
<1> QED
  BY <1>1, <1>2, <1>3, <1>4, <1>5, <1>6, <1>7, <1>8 DEF Step

\* While one process holds registry.lock, no other is in a promotion.
LEMMA NobodyElse ==
  ASSUME Mutex, NEW p \in Procs, HoldsRegistry(p), NEW q \in Procs \ {p}
  PROVE  ~HoldsRegistry(q) /\ pc[q] \notin Promoting
  BY DEF Mutex, HoldsRegistry, BeforeApp, Promoting

\* Both files follow the command through its promotion.
LEMMA FilesFollowKept ==
  ASSUME NEW p \in Procs, TypeOK, Mutex, Settled, FilesFollow(p), Step(p)
  PROVE  FilesFollow(p)'
<1> USE DEF At, Goto, Exit, Keep, FilesFollow, Promoting, ingress
<1>0. /\ pc \in [Procs -> Labels] /\ cmd \in [Procs -> Command]
      /\ cmd[p] \in Command /\ cmd[p].app \in Apps
      /\ conf \in [Apps -> Route] /\ routes \in [Apps -> Route]
      /\ snap[p].conf \in [Apps -> Route] /\ snap[p].routes \in [Apps -> Route]
      /\ snap \in [Procs -> [conf: [Apps -> Route], routes: [Apps -> Route]]]
      /\ served \in [Apps -> SUBSET Stacks]
  BY ProcessTypes
<1>t. ASSUME UNCHANGED cmd PROVE Target(p)' = Target(p)
  BY <1>t DEF Target
<1>1. CASE Locking(p)
  BY <1>0, <1>1 DEF Locking, ReadPrevious, OpenLock, LockApp, LockRegistry
<1>2. CASE Recovery(p)
  BY <1>0, <1>2
     DEF Recovery, RecoverNothing, RecoverCandidate, RecoverClear, RecoverInPlace
<1>3. CASE Rollout(p)
  <2>1. CASE Begin(p)
    BY <1>0, <2>1 DEF Begin, BeginAs
  <2>2. CASE \/ StackDeploy(p) \/ StackDeployFails(p) \/ MarkDeployed(p)
              \/ Verify(p) \/ Converge(p) \/ RolloutFails(p)
              \/ CancelledBeforePromotion(p)
    BY <1>0, <2>2
       DEF StackDeploy, StackDeployFails, MarkDeployed, Verify, Converge,
           RolloutFails, CancelledBeforePromotion
  <2> QED
    BY <1>3, <2>1, <2>2 DEF Rollout
<1>4. CASE TakeBack(p)
  BY <1>0, <1>4
     DEF TakeBack, UndoCandidate, UndoInPlace, Archive, RecordFailure,
         DropCandidate, Unwind
<1>5. CASE Ingress(p)
  <2>1. CASE NothingToRoute(p)
    <3>1. routes[cmd[p].app] = Target(p)
      BY UpdatedRoutes, <2>1 DEF NothingToRoute, Changed
    <3>2. UNCHANGED <<conf, routes, torn, cmd>> /\ pc' = [pc EXCEPT ![p] = AfterIngress(p)]
      BY <2>1 DEF NothingToRoute, model
    <3>3. CASE cmd[p].app \notin torn
      <4>1. conf[cmd[p].app] = routes[cmd[p].app]
        BY <1>0, <3>3, <2>1, NobodyElse
           DEF Settled, InSync, NothingToRoute, HoldsRegistry, BeforeApp
      <4> QED
        BY <1>0, <1>t, <3>1, <3>2, <4>1 DEF AfterIngress
    <3>4. CASE cmd[p].app \in torn
      BY <1>0, <1>t, <3>1, <3>2, <3>4 DEF AfterIngress
    <3> QED
      BY <3>3, <3>4
  <2>2. CASE WriteConf(p)
    <3>1. /\ conf' = Updated(p) /\ UNCHANGED <<routes, torn, cmd>>
          /\ snap'[p] = [conf |-> conf, routes |-> routes]
          /\ pc'[p] = IF Changed(p) THEN "write_routes" ELSE "reload_tls"
      BY <1>0, <2>2 DEF WriteConf, model
    <3>2. ~Changed(p) => routes[cmd[p].app] = Target(p)
      BY UpdatedRoutes DEF Changed
    <3> QED
      BY <1>0, <1>t, <3>1, <3>2, UpdatedRoutes
  <2>3. CASE WriteRoutes(p)
    <3>1. /\ routes' = Updated(p) /\ UNCHANGED <<conf, torn, cmd>>
          /\ pc'[p] = "reload" /\ pc[p] = "write_routes"
      BY <1>0, <2>3 DEF WriteRoutes, model
    <3> QED
      BY <1>0, <1>t, <3>1, UpdatedRoutes
  <2>4. CASE Reload(p)
    BY <1>0, <1>t, <2>4 DEF Reload, AfterIngress, model
  <2>5. CASE ReloadFails(p)
    BY <1>0, <1>t, <2>5 DEF ReloadFails, model
  <2>6. CASE Certificates(p)
    BY <1>0, <1>t, <2>6 DEF Certificates, model
  <2>7. CASE Restore(p)
    <3>1. /\ conf' = snap[p].conf /\ routes' = snap[p].routes /\ UNCHANGED <<torn, cmd, snap>>
          /\ pc'[p] = "restore_reload"
      BY <1>0, <2>7 DEF Restore, model
    <3> QED
      BY <1>0, <3>1
  <2>8. CASE \/ EnsureNetwork(p) \/ NothingToRestore(p) \/ RestoreFails(p)
              \/ RestoreReload(p) \/ RestoreReloadFails(p)
    BY <1>0, <2>8
       DEF EnsureNetwork, NothingToRestore, RestoreFails, RestoreReload,
           RestoreReloadFails, AfterIngress, AfterError
  <2> QED
    BY <1>5, <2>1, <2>2, <2>3, <2>4, <2>5, <2>6, <2>7, <2>8 DEF Ingress
<1>6. CASE Commit(p)
  BY <1>0, <1>6
     DEF Commit, MarkIngress, MarkIngressFails, SaveRecord, MarkSaved, SetLatest,
         RemoveStale, ClearJournal
<1>7. CASE Removal(p)
  BY <1>0, <1>7 DEF Removal, RemoveStack, RemoveState, RemoveStateFails
<1>8. CASE Fails(p)
  BY <1>0, <1>8 DEF Fails, OnError, AfterError, Returns, model, Target
<1> QED
  BY <1>1, <1>2, <1>3, <1>4, <1>5, <1>6, <1>7, <1>8 DEF Step

\* An app that is not torn is in sync when another command's, or its own,
\* promotion is about to start.
LEMMA SettledAtStart ==
  ASSUME NEW p \in Procs, Mutex, Settled, At(p, "write_conf"), NEW a \in Apps \ torn
  PROVE  InSync(a) /\ Safe(a, conf[a])
<1>1. \A q \in Procs : pc[q] \notin Promoting
  BY NobodyElse DEF At, HoldsRegistry, BeforeApp, Promoting
<1> QED
  BY <1>1 DEF Settled

\* The workers follow too, unless the promotion is torn.
LEMMA WorkersFollowKept ==
  ASSUME NEW p \in Procs, TypeOK, Mutex, Settled, FilesFollow(p), WorkersFollow(p), Step(p)
  PROVE  WorkersFollow(p)'
<1> USE DEF At, Goto, Exit, Keep, WorkersFollow, ingress
<1>0. /\ pc \in [Procs -> Labels] /\ cmd \in [Procs -> Command]
      /\ cmd[p] \in Command /\ cmd[p].app \in Apps
      /\ conf \in [Apps -> Route] /\ routes \in [Apps -> Route]
      /\ snap[p].conf \in [Apps -> Route] /\ snap[p].routes \in [Apps -> Route]
      /\ snap \in [Procs -> [conf: [Apps -> Route], routes: [Apps -> Route]]]
      /\ served \in [Apps -> SUBSET Stacks]
  BY ProcessTypes
<1>t. /\ UNCHANGED cmd => After(p)' = After(p)
      /\ UNCHANGED <<cmd, snap>> => Before(p)' = Before(p)
  BY DEF Target, Before, After
<1>l. Loaded[cmd[p].app] = {conf[cmd[p].app]} \ {NoStack}
  BY <1>0 DEF Loaded
<1>1. CASE Locking(p)
  BY <1>0, <1>1 DEF Locking, ReadPrevious, OpenLock, LockApp, LockRegistry
<1>2. CASE Recovery(p)
  BY <1>0, <1>2
     DEF Recovery, RecoverNothing, RecoverCandidate, RecoverClear, RecoverInPlace
<1>3. CASE Rollout(p)
  <2>1. CASE Begin(p)
    BY <1>0, <2>1 DEF Begin, BeginAs, Labels
  <2>2. CASE \/ StackDeploy(p) \/ StackDeployFails(p) \/ MarkDeployed(p)
              \/ Verify(p) \/ Converge(p) \/ RolloutFails(p)
              \/ CancelledBeforePromotion(p)
    BY <1>0, <2>2
       DEF StackDeploy, StackDeployFails, MarkDeployed, Verify, Converge,
           RolloutFails, CancelledBeforePromotion
  <2> QED
    BY <1>3, <2>1, <2>2 DEF Rollout
<1>4. CASE TakeBack(p)
  BY <1>0, <1>4
     DEF TakeBack, UndoCandidate, UndoInPlace, Archive, RecordFailure,
         DropCandidate, Unwind
<1>5. CASE Ingress(p)
  <2>1. CASE NothingToRoute(p)
    <3>1. routes[cmd[p].app] = Target(p)
      BY UpdatedRoutes, <2>1 DEF NothingToRoute, Changed
    <3>2. UNCHANGED <<served, torn, cmd>> /\ pc' = [pc EXCEPT ![p] = AfterIngress(p)]
      BY <2>1 DEF NothingToRoute, model
    <3>3. cmd[p].app \notin torn => InSync(cmd[p].app)
      BY <1>0, SettledAtStart, <2>1 DEF NothingToRoute
    <3> QED
      BY <1>0, <1>t, <3>1, <3>2, <3>3 DEF AfterIngress, InSync, After
  <2>2. CASE WriteConf(p)
    <3>1. /\ UNCHANGED <<served, torn, cmd>>
          /\ snap'[p] = [conf |-> conf, routes |-> routes]
          /\ pc'[p] = IF Changed(p) THEN "write_routes" ELSE "reload_tls"
      BY <1>0, <2>2 DEF WriteConf, model
    <3>2. ~Changed(p) => routes[cmd[p].app] = Target(p)
      BY UpdatedRoutes DEF Changed
    <3>3. cmd[p].app \notin torn => InSync(cmd[p].app)
      BY <1>0, SettledAtStart, <2>2 DEF WriteConf
    <3>4. Before(p)' = {conf[cmd[p].app]} \ {NoStack}
      BY <3>1 DEF Before
    <3> QED
      BY <1>0, <1>t, <3>1, <3>2, <3>3, <3>4 DEF InSync, After
  <2>3. CASE WriteRoutes(p)
    BY <1>0, <1>t, <2>3 DEF WriteRoutes, model
  <2>4. CASE Reload(p)
    <3>1. /\ UNCHANGED <<torn, cmd>> /\ served'[cmd[p].app] = Loaded[cmd[p].app]
          /\ pc'[p] \in {"certs", "mark_ingress", "rm_stack"}
      BY <1>0, <2>4 DEF Reload, model, AfterIngress, Loaded
    <3>2. conf[cmd[p].app] = Target(p)
      BY <2>4 DEF Reload, FilesFollow, Promoting
    <3> QED
      BY <1>t, <1>l, <3>1, <3>2 DEF After
  <2>5. CASE ReloadFails(p)
    <3>1. /\ UNCHANGED <<torn, cmd, snap>> /\ pc'[p] = "restore"
          /\ served'[cmd[p].app] \in {served[cmd[p].app],
                                      served[cmd[p].app] \cup Loaded[cmd[p].app]}
      BY <1>0, <2>5 DEF ReloadFails, model, AfterIngress
    <3>2. conf[cmd[p].app] = Target(p) /\ pc[p] \in {"reload", "reload_tls"}
      BY <2>5 DEF ReloadFails, FilesFollow, Promoting
    <3>3. Loaded[cmd[p].app] = After(p)
      BY <1>l, <3>2 DEF After
    <3> QED
      BY <1>t, <3>1, <3>2, <3>3
  <2>6. CASE Certificates(p)
    BY <1>0, <1>t, <2>6 DEF Certificates, model
  <2>7. CASE Restore(p)
    <3>1. UNCHANGED <<served, torn, cmd, snap>> /\ pc'[p] = "restore_reload" /\ pc[p] = "restore"
      BY <1>0, <2>7 DEF Restore, model
    <3> QED
      BY <1>t, <3>1
  <2>8. CASE RestoreFails(p)
    BY <1>0, <2>8 DEF RestoreFails
  <2>9. CASE RestoreReload(p)
    BY <1>0, <2>9 DEF RestoreReload, AfterError
  <2>10. CASE RestoreReloadFails(p)
    BY <1>0, <2>10 DEF RestoreReloadFails
  <2>11. CASE EnsureNetwork(p) \/ NothingToRestore(p)
    BY <1>0, <2>11 DEF EnsureNetwork, NothingToRestore, AfterIngress, AfterError
  <2> QED
    BY <1>5, <2>1, <2>2, <2>3, <2>4, <2>5, <2>6, <2>7, <2>8, <2>9, <2>10, <2>11
       DEF Ingress
<1>6. CASE Commit(p)
  BY <1>0, <1>6
     DEF Commit, MarkIngress, MarkIngressFails, SaveRecord, MarkSaved, SetLatest,
         RemoveStale, ClearJournal
<1>7. CASE Removal(p)
  BY <1>0, <1>7 DEF Removal, RemoveStack, RemoveState, RemoveStateFails
<1>8. CASE Fails(p)
  BY <1>0, <1>t, <1>8 DEF Fails, OnError, AfterError, Returns, model
<1> QED
  BY <1>1, <1>2, <1>3, <1>4, <1>5, <1>6, <1>7, <1>8 DEF Step

\* What p would restore stays live, and the other apps' routes stay put.
LEMMA SnapHoldsKept ==
  ASSUME NEW p \in Procs, TypeOK, Mutex, Settled, SnapHolds(p), Step(p)
  PROVE  SnapHolds(p)'
<1> USE DEF At, Goto, Exit, Keep, SnapHolds, Switching, Promoting, ingress
<1>0. /\ pc \in [Procs -> Labels] /\ cmd \in [Procs -> Command]
      /\ cmd[p] \in Command /\ cmd[p].app \in Apps
      /\ conf \in [Apps -> Route] /\ routes \in [Apps -> Route]
      /\ snap[p].conf \in [Apps -> Route] /\ snap[p].routes \in [Apps -> Route]
      /\ snap \in [Procs -> [conf: [Apps -> Route], routes: [Apps -> Route]]]
      /\ served \in [Apps -> SUBSET Stacks]
  BY ProcessTypes
<1>s. ASSUME UNCHANGED <<journal, runs>>, NEW a, NEW r PROVE Safe(a, r)' = Safe(a, r)
  BY <1>s DEF Safe, Live, Deletable
<1>f. ASSUME UNCHANGED <<journal, runs, torn, cmd, snap>>, pc[p] \in Switching,
             \A a \in Apps \ torn : a # cmd[p].app => conf'[a] = conf[a]
      PROVE  SnapHolds(p)'
  BY <1>f, <1>s
<1>1. CASE Locking(p)
  BY <1>0, <1>1 DEF Locking, ReadPrevious, OpenLock, LockApp, LockRegistry
<1>2. CASE Recovery(p)
  BY <1>0, <1>2
     DEF Recovery, RecoverNothing, RecoverCandidate, RecoverClear, RecoverInPlace
<1>3. CASE Rollout(p)
  <2>1. CASE Begin(p)
    BY <1>0, <2>1 DEF Begin, BeginAs
  <2>2. CASE \/ StackDeploy(p) \/ StackDeployFails(p) \/ MarkDeployed(p)
              \/ Verify(p) \/ Converge(p) \/ RolloutFails(p)
              \/ CancelledBeforePromotion(p)
    BY <1>0, <2>2
       DEF StackDeploy, StackDeployFails, MarkDeployed, Verify, Converge,
           RolloutFails, CancelledBeforePromotion
  <2> QED
    BY <1>3, <2>1, <2>2 DEF Rollout
<1>4. CASE TakeBack(p)
  BY <1>0, <1>4
     DEF TakeBack, UndoCandidate, UndoInPlace, Archive, RecordFailure,
         DropCandidate, Unwind
<1>5. CASE Ingress(p)
  <2>1. CASE WriteConf(p)
    <3>1. /\ UNCHANGED <<journal, runs, torn, cmd>>
          /\ conf' = Updated(p) /\ snap'[p] = [conf |-> conf, routes |-> routes]
      BY <1>0, <2>1 DEF WriteConf, model, files, docker
    <3>2. \A a \in Apps \ torn : InSync(a) /\ Safe(a, conf[a])
      BY SettledAtStart, <2>1 DEF WriteConf
    <3>3. ASSUME NEW a \in Apps \ torn'
          PROVE  /\ snap'[p].conf[a] = snap'[p].routes[a] /\ Safe(a, snap[p].conf[a])'
                 /\ a # cmd'[p].app => conf'[a] = snap'[p].conf[a]
      <4>1. snap'[p].conf[a] = conf[a] /\ snap'[p].routes[a] = routes[a] /\ a \in Apps \ torn
        BY <3>1
      <4> PICK r \in Route : r = conf[a]
        BY <1>0
      <4>2. r = routes[a] /\ Safe(a, r)'
        BY <1>s, <3>1, <3>2, <4>1 DEF InSync
      <4>3. a # cmd'[p].app => conf'[a] = routes[a]
        BY <3>1, UpdatedRoutes
      <4> QED
        BY <4>1, <4>2, <4>3 DEF Safe
    <3> QED
      BY <3>3
  <2>2. CASE WriteRoutes(p)
    BY <1>0, <1>f, <2>2 DEF WriteRoutes, model, files, docker
  <2>3. CASE Reload(p)
    BY <1>0, <1>f, <2>3 DEF Reload, model, files, docker, AfterIngress
  <2>4. CASE ReloadFails(p)
    BY <1>0, <1>f, <2>4 DEF ReloadFails, model, files, docker
  <2>5. CASE Certificates(p)
    BY <1>0, <1>f, <2>5 DEF Certificates, model, files, docker
  <2>6. CASE Restore(p)
    BY <1>0, <1>f, <2>6 DEF Restore, model, files, docker
  <2>7. CASE \/ EnsureNetwork(p) \/ NothingToRoute(p) \/ NothingToRestore(p)
              \/ RestoreFails(p) \/ RestoreReload(p) \/ RestoreReloadFails(p)
    BY <1>0, <2>7
       DEF EnsureNetwork, NothingToRoute, NothingToRestore, RestoreFails,
           RestoreReload, RestoreReloadFails, AfterIngress, AfterError
  <2> QED
    BY <1>5, <2>1, <2>2, <2>3, <2>4, <2>5, <2>6, <2>7 DEF Ingress
<1>6. CASE Commit(p)
  BY <1>0, <1>6
     DEF Commit, MarkIngress, MarkIngressFails, SaveRecord, MarkSaved, SetLatest,
         RemoveStale, ClearJournal
<1>7. CASE Removal(p)
  BY <1>0, <1>7 DEF Removal, RemoveStack, RemoveState, RemoveStateFails
<1>8. CASE Fails(p)
  BY <1>0, <1>f, <1>8 DEF Fails, OnError, AfterError, Returns, model, files, docker
<1> QED
  BY <1>1, <1>2, <1>3, <1>4, <1>5, <1>6, <1>7, <1>8 DEF Step

\* No step makes up a route: every one comes from a file, a snapshot or the
\* command's own stack.
LEMMA RoutesCome ==
  ASSUME NEW p \in Procs, TypeOK, Step(p), NEW a \in Apps
  PROVE  LET from == {conf[a], routes[a], Updated(p)[a], snap[p].conf[a],
                      snap[p].routes[a], NoStack} IN
         /\ {conf'[a], routes'[a]} \subseteq from
         /\ served'[a] \subseteq served[a] \cup ({conf[a]} \ {NoStack})
         /\ {snap'[p].conf[a], snap'[p].routes[a]} \subseteq from
<1>0. /\ pc \in [Procs -> Labels] /\ cmd \in [Procs -> Command]
      /\ cmd[p] \in Command /\ cmd[p].app \in Apps
      /\ conf \in [Apps -> Route] /\ routes \in [Apps -> Route]
      /\ snap[p].conf \in [Apps -> Route] /\ snap[p].routes \in [Apps -> Route]
      /\ snap \in [Procs -> [conf: [Apps -> Route], routes: [Apps -> Route]]]
      /\ served \in [Apps -> SUBSET Stacks]
  BY ProcessTypes
<1>n. NoSnap.conf[a] = NoStack /\ NoSnap.routes[a] = NoStack
  BY DEF NoSnap, NoRoutes
<1> DEFINE from == {conf[a], routes[a], Updated(p)[a], snap[p].conf[a],
                    snap[p].routes[a], NoStack}
<1> SUFFICES /\ conf'[a] \in from /\ routes'[a] \in from
             /\ served'[a] \subseteq served[a] \cup ({conf[a]} \ {NoStack})
             /\ snap'[p].conf[a] \in from /\ snap'[p].routes[a] \in from
  OBVIOUS
<1> USE DEF Exit, Keep, ingress, Loaded
<1>1. CASE Locking(p)
  BY <1>0, <1>n, <1>1 DEF Locking, ReadPrevious, OpenLock, LockApp, LockRegistry
<1>2. CASE Recovery(p)
  BY <1>0, <1>n, <1>2
     DEF Recovery, RecoverNothing, RecoverCandidate, RecoverClear, RecoverInPlace
<1>3. CASE Rollout(p)
  <2>1. CASE Begin(p)
    BY <1>0, <1>n, <2>1 DEF Begin, BeginAs
  <2>2. CASE \/ StackDeploy(p) \/ StackDeployFails(p) \/ MarkDeployed(p)
              \/ Verify(p) \/ Converge(p) \/ RolloutFails(p)
              \/ CancelledBeforePromotion(p)
    BY <1>0, <1>n, <2>2
       DEF StackDeploy, StackDeployFails, MarkDeployed, Verify, Converge,
           RolloutFails, CancelledBeforePromotion
  <2> QED
    BY <1>3, <2>1, <2>2 DEF Rollout
<1>4. CASE TakeBack(p)
  BY <1>0, <1>n, <1>4
     DEF TakeBack, UndoCandidate, UndoInPlace, Archive, RecordFailure,
         DropCandidate, Unwind
<1>5. CASE Ingress(p)
  <2>1. CASE WriteConf(p)
    BY <1>0, <1>n, <2>1 DEF WriteConf
  <2>2. CASE WriteRoutes(p)
    BY <1>0, <1>n, <2>2 DEF WriteRoutes
  <2>3. CASE Reload(p)
    BY <1>0, <1>n, <2>3 DEF Reload
  <2>4. CASE ReloadFails(p)
    BY <1>0, <1>n, <2>4 DEF ReloadFails
  <2>5. CASE Restore(p)
    BY <1>0, <1>n, <2>5 DEF Restore
  <2>6. CASE RestoreFails(p)
    BY <1>0, <1>n, <2>6 DEF RestoreFails
  <2>7. CASE RestoreReload(p)
    BY <1>0, <1>n, <2>7 DEF RestoreReload
  <2>8. CASE RestoreReloadFails(p)
    BY <1>0, <1>n, <2>8 DEF RestoreReloadFails
  <2>9. CASE \/ EnsureNetwork(p) \/ NothingToRoute(p) \/ Certificates(p)
              \/ NothingToRestore(p)
    BY <1>0, <1>n, <2>9
       DEF EnsureNetwork, NothingToRoute, Certificates, NothingToRestore
  <2> QED
    BY <1>5, <2>1, <2>2, <2>3, <2>4, <2>5, <2>6, <2>7, <2>8, <2>9 DEF Ingress
<1>6. CASE Commit(p)
  BY <1>0, <1>n, <1>6
     DEF Commit, MarkIngress, MarkIngressFails, SaveRecord, MarkSaved, SetLatest,
         RemoveStale, ClearJournal
<1>7. CASE Removal(p)
  BY <1>0, <1>n, <1>7 DEF Removal, RemoveStack, RemoveState, RemoveStateFails
<1>8. CASE Fails(p)
  BY <1>0, <1>n, <1>8 DEF Fails
<1> QED
  BY <1>1, <1>2, <1>3, <1>4, <1>5, <1>6, <1>7, <1>8 DEF Step

\* So every routed name stays a minted one.
LEMMA RoutesMintedKept ==
  ASSUME NEW p \in Procs, TypeOK, TypeOK', NamesMinted, RoutesMinted, Step(p)
  PROVE  RoutesMinted'
<1> SUFFICES ASSUME NEW a \in Apps
             PROVE  /\ \A s \in Traffic(a)' : s <= minted'[a]
                    /\ \A q \in Procs :
                         \A s \in {snap'[q].conf[a], snap'[q].routes[a]} \ {NoStack} :
                           s <= minted'[a]
  BY DEF RoutesMinted
<1>0. /\ minted[a] \in Nat /\ minted'[a] \in Nat /\ minted[a] <= minted'[a]
      /\ Stacks \subseteq Nat /\ cmd[p].app \in Apps /\ cmd[p].stack \in Stacks
      /\ conf[a] \in Route /\ routes[a] \in Route /\ served[a] \subseteq Stacks
      /\ snap[p].conf[a] \in Route /\ snap[p].routes[a] \in Route
  BY MintedGrows, ProcessTypes DEF TypeOK, DockerOK
<1>r. \A r \in Route : r # NoStack => r \in Nat
  BY <1>0 DEF Route
<1>1. Updated(p)[a] = NoStack \/ (Updated(p)[a] \in Stacks /\ Updated(p)[a] <= minted[a])
                              \/ Updated(p)[a] = routes[a]
  BY <1>0, UpdatedRoutes DEF NamesMinted, Target
<1>2. \A r \in {conf[a], routes[a], Updated(p)[a], snap[p].conf[a], snap[p].routes[a],
                NoStack} : r # NoStack => r <= minted'[a]
  <2>1. \A r \in {conf[a], routes[a]} : r # NoStack => r \in Traffic(a)
    BY DEF Traffic
  <2>2. \A r \in {conf[a], routes[a], snap[p].conf[a], snap[p].routes[a]} :
          r # NoStack => r <= minted[a]
    BY <2>1 DEF RoutesMinted
  <2> SUFFICES ASSUME NEW r \in {conf[a], routes[a], Updated(p)[a], snap[p].conf[a],
                                 snap[p].routes[a]}, r # NoStack
               PROVE  r <= minted'[a]
    OBVIOUS
  <2>3. r <= minted[a]
    BY <1>1, <2>2
  <2>4. r \in Nat
    BY <1>0, <1>1, <1>r
  <2> QED
    BY <1>0, <2>3, <2>4
<1>3. \A s \in served'[a] : s <= minted'[a]
  <2>1. \A s \in served[a] : s \in Nat /\ s # NoStack /\ s <= minted[a]
    BY <1>0, ProcessTypes DEF RoutesMinted, Traffic
  <2>2. served'[a] \subseteq served[a] \cup ({conf[a]} \ {NoStack})
    BY RoutesCome
  <2> QED
    BY <1>0, <1>2, <2>1, <2>2
<1>4. \A s \in Traffic(a)' : s <= minted'[a]
  BY <1>2, <1>3, RoutesCome DEF Traffic
<1>5. \A s \in {snap'[p].conf[a], snap'[p].routes[a]} \ {NoStack} : s <= minted'[a]
  BY <1>2, RoutesCome
<1>6. ASSUME NEW q \in Procs \ {p}, NEW s \in {snap'[q].conf[a], snap'[q].routes[a]} \ {NoStack}
      PROVE  s <= minted'[a]
  <2>1. snap'[q] = snap[q]
    BY OthersKeepSnap DEF TypeOK
  <2>2. s \in Route /\ s <= minted[a]
    BY <2>1, ProcessTypes DEF RoutesMinted
  <2> QED
    BY <1>0, <1>r, <2>2
<1> QED
  BY <1>4, <1>5, <1>6

\* A candidate gets traffic only from its own promotion, and has none again when
\* that has been taken back.
LEMMA UntraffickedKept ==
  ASSUME NEW p \in Procs, TypeOK, RemoveShape(p), DeployShape(p), RoutesMinted,
         FilesFollow(p), Untrafficked(p), Step(p)
  PROVE  Untrafficked(p)'
<1> USE DEF At, Goto, Exit, Keep, Untrafficked, Revocable, Switching, Undecided, Promoting,
        ingress
<1>0. /\ pc \in [Procs -> Labels] /\ cmd \in [Procs -> Command]
      /\ cmd[p] \in Command /\ cmd[p].app \in Apps
      /\ conf \in [Apps -> Route] /\ routes \in [Apps -> Route]
      /\ snap[p].conf \in [Apps -> Route] /\ snap[p].routes \in [Apps -> Route]
      /\ snap \in [Procs -> [conf: [Apps -> Route], routes: [Apps -> Route]]]
      /\ served \in [Apps -> SUBSET Stacks]
  BY ProcessTypes
<1>t. UNCHANGED <<served, conf, routes, cmd>> => Traffic(cmd[p].app)' = Traffic(cmd[p].app)
  BY DEF Traffic
<1>n. ~NoCommand.bg
  BY DEF NoCommand, Fresh
<1>p. /\ \A g : [cmd[p] EXCEPT !.gen = g].bg = cmd[p].bg
      /\ \A g : [cmd[p] EXCEPT !.gen = g].mode = cmd[p].mode
      /\ \A r : [cmd[p] EXCEPT !.rel = r].bg = cmd[p].bg
      /\ \A r : [cmd[p] EXCEPT !.rel = r].mode = cmd[p].mode
  BY <1>0 DEF Command
<1>1. CASE Locking(p)
  <2>1. CASE ReadPrevious(p)
    BY <1>0, <1>n, <1>t, <1>p, <2>1 DEF ReadPrevious
  <2>2. CASE OpenLock(p)
    BY <1>0, <1>n, <1>t, <1>p, <2>2 DEF OpenLock
  <2>3. CASE LockApp(p)
    BY <1>0, <1>n, <1>t, <2>3 DEF LockApp
  <2>4. CASE LockRegistry(p)
    BY <1>0, <1>n, <1>t, <2>4 DEF LockRegistry, RemoveShape
  <2> QED
    BY <1>1, <2>1, <2>2, <2>3, <2>4 DEF Locking
<1>2. CASE Recovery(p)
  BY <1>0, <1>n, <1>t, <1>2
     DEF Recovery, RecoverNothing, RecoverCandidate, RecoverClear, RecoverInPlace
<1>3. CASE Rollout(p)
  <2>1. CASE Begin(p)
    <3>1. PICK rel \in Releases, mode \in Modes, bg \in BOOLEAN, stack \in Stacks :
            BeginAs(p, rel, mode, bg, stack)
      BY <2>1 DEF Begin
    <3>2. /\ cmd'[p].stack = stack /\ cmd'[p].bg = bg /\ cmd'[p].app = cmd[p].app
          /\ cmd'[p].mode = mode /\ pc'[p] = "stack_deploy"
          /\ UNCHANGED <<served, conf, routes>>
      BY <1>0, <3>1 DEF BeginAs, Command
    <3>3. bg => mode # "internal" /\ stack = minted[cmd[p].app] + 1
      BY <3>1 DEF BeginAs
    <3>4. bg => stack \notin Traffic(cmd[p].app)
      BY <1>0, <3>3, ProcessTypes DEF RoutesMinted
    <3> QED
      BY <3>2, <3>3, <3>4 DEF Traffic
  <2>2. CASE StackDeploy(p)
    BY <1>0, <1>n, <1>t, <2>2 DEF StackDeploy, Observe, Command, Traffic
  <2>3. CASE StackDeployFails(p)
    BY <1>0, <1>n, <1>t, <2>3 DEF StackDeployFails, Observe, Command, Traffic
  <2>4. CASE Converge(p)
    BY <1>0, <1>n, <1>t, <2>4 DEF Converge, Command, Traffic
  <2>5. CASE \/ MarkDeployed(p) \/ Verify(p) \/ RolloutFails(p)
              \/ CancelledBeforePromotion(p)
    BY <1>0, <1>n, <1>t, <2>5
       DEF MarkDeployed, Verify, RolloutFails, CancelledBeforePromotion
  <2> QED
    BY <1>3, <2>1, <2>2, <2>3, <2>4, <2>5 DEF Rollout
<1>4. CASE TakeBack(p)
  <2>1. CASE Archive(p)
    <3>1. CASE cmd[p].unwinding
      BY <1>0, <1>n, <3>1, <2>1 DEF Archive
    <3>2. CASE ~cmd[p].unwinding
      <4>1. /\ cmd'[p].app = cmd[p].app /\ cmd'[p].stack = cmd[p].stack
            /\ cmd'[p].bg = cmd[p].bg /\ cmd'[p].mode = cmd[p].mode
            /\ pc'[p] = "record_failure" /\ pc[p] = "archive" /\ UNCHANGED <<served, conf, routes>>
        BY <1>0, <3>2, <2>1 DEF Archive, Command
      <4> QED
        BY <4>1 DEF Traffic
    <3> QED
      BY <3>1, <3>2
  <2>2. CASE Unwind(p)
    <3>1. CASE cmd[p].cancelled /\ ~cmd[p].promoting
      <4>1. /\ cmd'[p].app = cmd[p].app /\ cmd'[p].stack = cmd[p].stack
            /\ cmd'[p].bg = cmd[p].bg /\ cmd'[p].mode = cmd[p].mode
            /\ pc'[p] = "undo" /\ pc[p] = "unwind" /\ UNCHANGED <<served, conf, routes>>
        BY <1>0, <3>1, <2>2 DEF Unwind, Command
      <4> QED
        BY <3>1, <4>1 DEF Traffic
    <3>2. CASE ~(cmd[p].cancelled /\ ~cmd[p].promoting)
      BY <1>0, <1>n, <3>2, <2>2 DEF Unwind
    <3> QED
      BY <3>1, <3>2
  <2>3. CASE \/ UndoCandidate(p) \/ UndoInPlace(p) \/ RecordFailure(p)
              \/ DropCandidate(p)
    BY <1>0, <1>n, <1>t, <2>3
       DEF UndoCandidate, UndoInPlace, RecordFailure, DropCandidate
  <2> QED
    BY <1>4, <2>1, <2>2, <2>3 DEF TakeBack
<1>5. CASE Ingress(p)
  <2>1. CASE WriteConf(p)
    <3>1. /\ cmd' = cmd /\ snap'[p] = [conf |-> conf, routes |-> routes]
          /\ pc'[p] \in Switching /\ pc[p] = "write_conf"
      BY <1>0, <2>1 DEF WriteConf
    <3>2. cmd[p].bg => cmd[p].stack # NoStack /\ cmd[p].stack \notin Traffic(cmd[p].app)
      BY <3>1, ProcessTypes
    <3> QED
      BY <3>1, <3>2 DEF Traffic
  <2>2. CASE WriteRoutes(p)
    BY <1>0, <1>n, <1>t, <2>2 DEF WriteRoutes
  <2>3. CASE Reload(p)
    BY <1>0, <1>n, <1>t, <2>3 DEF Reload, AfterIngress, RemoveShape
  <2>4. CASE ReloadFails(p)
    BY <1>0, <1>n, <1>t, <2>4 DEF ReloadFails
  <2>5. CASE NothingToRestore(p)
    <3>1. cmd[p].bg => conf[cmd[p].app] = cmd[p].stack /\ cmd[p].stack # snap[p].conf[cmd[p].app]
      BY <2>5, ProcessTypes DEF NothingToRestore, FilesFollow, Target, RemoveShape
    <3>2. ~cmd[p].bg /\ cmd' = cmd
      BY <3>1, <2>5 DEF NothingToRestore
    <3> QED
      BY <3>2
  <2>6. CASE Restore(p)
    BY <1>0, <1>n, <1>t, <2>6 DEF Restore
  <2>7. CASE RestoreFails(p)
    BY <1>0, <1>n, <1>t, <2>7
       DEF RestoreFails, DeployShape, Committing, RemoveShape
  <2>8. CASE RestoreReload(p)
    <3>1. /\ served'[cmd[p].app] = {conf[cmd[p].app]} \ {NoStack}
          /\ UNCHANGED <<cmd, conf, routes>> /\ pc'[p] = AfterError(p) /\ pc[p] = "restore_reload"
      BY <1>0, <2>8 DEF RestoreReload, Loaded
    <3>2. conf[cmd[p].app] = snap[p].conf[cmd[p].app] /\ routes[cmd[p].app] = snap[p].routes[cmd[p].app]
      BY <3>1 DEF FilesFollow
    <3> QED
      BY <3>1, <3>2 DEF Traffic, AfterError
  <2>9. CASE RestoreReloadFails(p)
    BY <1>0, <1>n, <1>t, <2>9
       DEF RestoreReloadFails, DeployShape, Committing, RemoveShape
  <2>10. CASE EnsureNetwork(p) \/ NothingToRoute(p) \/ Certificates(p)
    BY <1>0, <1>n, <1>t, <2>10
       DEF EnsureNetwork, NothingToRoute, Certificates, AfterIngress, AfterError
  <2> QED
    BY <1>5, <2>1, <2>2, <2>3, <2>4, <2>5, <2>6, <2>7, <2>8, <2>9, <2>10
       DEF Ingress
<1>6. CASE Commit(p)
  <2>1. CASE MarkIngressFails(p)
    BY <1>0, <1>n, <1>t, <2>1
       DEF MarkIngressFails, DeployShape, Committing, RemoveShape
  <2>2. CASE \/ MarkIngress(p) \/ SaveRecord(p) \/ MarkSaved(p)
              \/ SetLatest(p) \/ RemoveStale(p) \/ ClearJournal(p)
    BY <1>0, <1>n, <1>t, <2>2
       DEF MarkIngress, SaveRecord, MarkSaved, SetLatest, RemoveStale,
           ClearJournal, DeployShape, Committing, RemoveShape
  <2> QED
    BY <1>6, <2>1, <2>2 DEF Commit
<1>7. CASE Removal(p)
  BY <1>0, <1>n, <1>t, <1>7
     DEF Removal, RemoveStack, RemoveState, RemoveStateFails
<1>8. CASE Fails(p)
  BY <1>0, <1>n, <1>t, <1>8
     DEF Fails, OnError, AfterError, Returns, DeployShape, Committing, RemoveShape
<1> QED
  BY <1>1, <1>2, <1>3, <1>4, <1>5, <1>6, <1>7, <1>8 DEF Step

-----------------------------------------------------------------------------
(* What a step does to the part about apps.                                *)

\* The stack that routes.json names is deleted by nothing but recovery, which
\* finds it in the journal as an unpromoted candidate.
LEMMA RoutedStaysUp ==
  ASSUME NEW p \in Procs, TypeOK, ProcInv(p), FilesFollow(p), Moved(p), Untrafficked(p),
         NEW a \in Apps, NEW s \in Stacks, routes[a] = s, Dies(a, s), Step(p)
  PROVE  At(p, "recover") /\ a = cmd[p].app /\ s \in Deletable(a)
<1>0. /\ cmd[p].app \in Apps /\ cmd[p].stack \in Stacks
      /\ runs \in [Apps -> [Stacks -> Workload]] /\ Stable \in Stacks
      /\ runs[a][s] # Absent /\ runs'[a][s] = Absent
      /\ s \in Traffic(a) /\ s # NoStack
  BY ProcessTypes DEF Dies, Traffic
<1> USE DEF docker
<1>1. CASE Locking(p)
  BY <1>0, <1>1 DEF Locking, ReadPrevious, OpenLock, LockApp, LockRegistry
<1>2. CASE Recovery(p)
  <2>1. CASE RecoverCandidate(p)
    <3>1. PICK j \in journal[cmd[p].app] :
            Unpromoted(j) /\ runs' = [runs EXCEPT ![cmd[p].app][j.stack] = Absent]
      BY <2>1 DEF RecoverCandidate
    <3>2. a = cmd[p].app /\ s = j.stack
      BY <1>0, <3>1
    <3> QED
      BY <3>1, <3>2, <2>1 DEF RecoverCandidate, Deletable
  <2>2. CASE RecoverNothing(p) \/ RecoverClear(p) \/ RecoverInPlace(p)
    BY <1>0, <2>2 DEF RecoverNothing, RecoverClear, RecoverInPlace
  <2> QED
    BY <1>2, <2>1, <2>2 DEF Recovery
<1>3. CASE Rollout(p)
  <2>1. CASE Begin(p)
    BY <1>0, <2>1 DEF Begin, BeginAs
  <2>2. CASE StackDeploy(p)
    <3>1. cmd[p].rel # Absent
      BY NamesAssumption, <2>2
         DEF StackDeploy, At, ProcInv, DeployShape, RemoveShape, Undecided, RemoveLabels
    <3> QED
      BY <1>0, <3>1, <2>2 DEF StackDeploy, Submit
  <2>3. CASE StackDeployFails(p)
    <3>1. cmd[p].rel # Absent
      BY NamesAssumption, <2>3
         DEF StackDeployFails, At, ProcInv, DeployShape, RemoveShape, Undecided,
             RemoveLabels
    <3> QED
      BY <1>0, <3>1, <2>3 DEF StackDeployFails, Submit
  <2>4. CASE RolloutFails(p)
    <3>1. runs' = runs \/ SwarmRollsBack(p)
      BY <2>4 DEF RolloutFails
    <3> QED
      BY <1>0, <3>1 DEF SwarmRollsBack
  <2>5. CASE \/ MarkDeployed(p) \/ Verify(p) \/ Converge(p)
              \/ CancelledBeforePromotion(p)
    BY <1>0, <2>5 DEF MarkDeployed, Verify, Converge, CancelledBeforePromotion
  <2> QED
    BY <1>3, <2>1, <2>2, <2>3, <2>4, <2>5 DEF Rollout
<1>4. CASE TakeBack(p)
  <2>1. CASE UndoCandidate(p)
    <3>1. cmd[p].stack \notin Traffic(cmd[p].app)
      BY <2>1 DEF UndoCandidate, At, Untrafficked, Revocable, Undecided, Promoting
    <3> QED
      BY <1>0, <3>1, <2>1 DEF UndoCandidate
  <2>2. CASE UndoInPlace(p)
    BY <1>0, NamesAssumption, <2>2 DEF UndoInPlace
  <2>3. CASE DropCandidate(p)
    <3>1. cmd[p].bg => cmd[p].stack \notin Traffic(cmd[p].app)
      BY <2>3 DEF DropCandidate, At, Untrafficked, Revocable, Undecided, Promoting
    <3> QED
      BY <1>0, <3>1, <2>3 DEF DropCandidate
  <2>4. CASE Archive(p) \/ RecordFailure(p) \/ Unwind(p)
    BY <1>0, <2>4 DEF Archive, RecordFailure, Unwind
  <2> QED
    BY <1>4, <2>1, <2>2, <2>3, <2>4 DEF TakeBack
<1>5. CASE Ingress(p)
  BY <1>0, <1>5
     DEF Ingress, EnsureNetwork, NothingToRoute, WriteConf, WriteRoutes, Reload,
         ReloadFails, Certificates, NothingToRestore, Restore, RestoreFails,
         RestoreReload, RestoreReloadFails
<1>6. CASE Commit(p)
  <2>1. CASE RemoveStale(p)
    <3>1. PICK gone \in SUBSET (Live(cmd[p].app) \ {cmd[p].stack}) :
            runs' = [runs EXCEPT ![cmd[p].app] =
                       [t \in Stacks |-> IF t \in gone THEN Absent ELSE runs[cmd[p].app][t]]]
      BY <2>1 DEF RemoveStale
    <3>2. routes[cmd[p].app] \in {NoStack, cmd[p].stack}
      BY <2>1 DEF RemoveStale, At, Moved, Target
    <3> QED
      BY <1>0, <3>1, <3>2
  <2>2. CASE \/ MarkIngress(p) \/ MarkIngressFails(p) \/ SaveRecord(p)
              \/ MarkSaved(p) \/ SetLatest(p) \/ ClearJournal(p)
    BY <1>0, <2>2
       DEF MarkIngress, MarkIngressFails, SaveRecord, MarkSaved, SetLatest,
           ClearJournal
  <2> QED
    BY <1>6, <2>1, <2>2 DEF Commit
<1>7. CASE Removal(p)
  <2>1. CASE RemoveStack(p)
    <3>1. PICK t : runs' = [runs EXCEPT ![cmd[p].app][t] = Absent]
      BY <2>1 DEF RemoveStack
    <3>2. routes[cmd[p].app] = NoStack
      BY <2>1 DEF RemoveStack, At, Moved
    <3> QED
      BY <1>0, <3>1, <3>2
  <2>2. CASE RemoveState(p) \/ RemoveStateFails(p)
    BY <1>0, <2>2 DEF RemoveState, RemoveStateFails
  <2> QED
    BY <1>7, <2>1, <2>2 DEF Removal
<1>8. CASE Fails(p)
  BY <1>0, <1>8 DEF Fails
<1> QED
  BY <1>1, <1>2, <1>3, <1>4, <1>5, <1>6, <1>7, <1>8 DEF Step

\* What traffic reaches becomes deletable by recovery in no step: only Begin and
\* MarkDeployed write such an entry, about a candidate that has no traffic.
LEMMA TrafficNotDeletable ==
  ASSUME NEW p \in Procs, TypeOK, RoutesMinted, Untrafficked(p),
         NEW a \in Apps, NEW s \in Traffic(a), s \in Deletable(a)', Step(p)
  PROVE  s \in Deletable(a)
<1>0. /\ cmd[p].app \in Apps /\ cmd[p].stack \in Stacks /\ cmd[p].bg \in BOOLEAN
      /\ journal \in [Apps -> SUBSET Journal] /\ minted[a] \in Nat
  BY ProcessTypes DEF TypeOK, DockerOK
<1>d. journal'[a] \subseteq journal[a] => s \in Deletable(a)
  BY DEF Deletable
<1> USE DEF files, Mark
<1>1. CASE Locking(p)
  BY <1>0, <1>d, <1>1 DEF Locking, ReadPrevious, OpenLock, LockApp, LockRegistry
<1>2. CASE Recovery(p)
  BY <1>0, <1>d, <1>2
     DEF Recovery, RecoverNothing, RecoverCandidate, RecoverClear, RecoverInPlace
<1>3. CASE Rollout(p)
  <2>1. CASE Begin(p)
    <3>1. PICK rel \in Releases, mode \in Modes, bg \in BOOLEAN, stack \in Stacks :
            BeginAs(p, rel, mode, bg, stack)
      BY <2>1 DEF Begin
    <3>2. CASE a = cmd[p].app
      <4>1. journal'[a] = {[stage |-> "started", stack |-> stack, bg |-> bg]}
        BY <1>0, <3>1, <3>2 DEF BeginAs
      <4>2. s = minted[a] + 1
        BY <3>1, <3>2, <4>1 DEF BeginAs, Deletable, Unpromoted
      <4> QED
        BY <1>0, <4>2 DEF RoutesMinted
    <3>3. CASE a # cmd[p].app
      BY <1>0, <1>d, <3>1, <3>3 DEF BeginAs
    <3> QED
      BY <3>2, <3>3
  <2>2. CASE MarkDeployed(p)
    <3>1. CASE a = cmd[p].app
      <4>1. journal'[a] = {[stage |-> "stack_deployed", stack |-> cmd[p].stack, bg |-> cmd[p].bg]}
        BY <1>0, <3>1, <2>2 DEF MarkDeployed
      <4>2. s = cmd[p].stack /\ cmd[p].bg
        BY <4>1 DEF Deletable, Unpromoted
      <4> QED
        BY <3>1, <4>2, <2>2
           DEF MarkDeployed, At, Untrafficked, Revocable, Undecided, Promoting
    <3>2. CASE a # cmd[p].app
      BY <1>0, <1>d, <3>2, <2>2 DEF MarkDeployed
    <3> QED
      BY <3>1, <3>2
  <2>3. CASE \/ StackDeploy(p) \/ StackDeployFails(p) \/ Verify(p)
              \/ Converge(p) \/ RolloutFails(p) \/ CancelledBeforePromotion(p)
    BY <1>0, <1>d, <2>3
       DEF StackDeploy, StackDeployFails, Verify, Converge, RolloutFails,
           CancelledBeforePromotion
  <2> QED
    BY <1>3, <2>1, <2>2, <2>3 DEF Rollout
<1>4. CASE TakeBack(p)
  BY <1>0, <1>d, <1>4
     DEF TakeBack, UndoCandidate, UndoInPlace, Archive, RecordFailure,
         DropCandidate, Unwind
<1>5. CASE Ingress(p)
  BY <1>0, <1>d, <1>5
     DEF Ingress, EnsureNetwork, NothingToRoute, WriteConf, WriteRoutes, Reload,
         ReloadFails, Certificates, NothingToRestore, Restore, RestoreFails,
         RestoreReload, RestoreReloadFails
<1>6. CASE Commit(p)
  <2>1. CASE MarkIngress(p)
    <3>1. CASE a = cmd[p].app
      <4>1. journal'[a] = {[stage |-> "ingress_reconciled", stack |-> cmd[p].stack, bg |-> cmd[p].bg]}
        BY <1>0, <3>1, <2>1 DEF MarkIngress
      <4> QED
        BY <4>1 DEF Deletable, Unpromoted
    <3>2. CASE a # cmd[p].app
      BY <1>0, <1>d, <3>2, <2>1 DEF MarkIngress
    <3> QED
      BY <3>1, <3>2
  <2>2. CASE MarkSaved(p)
    <3>1. CASE a = cmd[p].app
      <4>1. journal'[a] = {[stage |-> "deployment_saved", stack |-> cmd[p].stack, bg |-> cmd[p].bg]}
        BY <1>0, <3>1, <2>2 DEF MarkSaved
      <4> QED
        BY <4>1 DEF Deletable, Unpromoted
    <3>2. CASE a # cmd[p].app
      BY <1>0, <1>d, <3>2, <2>2 DEF MarkSaved
    <3> QED
      BY <3>1, <3>2
  <2>3. CASE \/ MarkIngressFails(p) \/ SaveRecord(p) \/ SetLatest(p)
              \/ RemoveStale(p) \/ ClearJournal(p)
    BY <1>0, <1>d, <2>3
       DEF MarkIngressFails, SaveRecord, SetLatest, RemoveStale, ClearJournal
  <2> QED
    BY <1>6, <2>1, <2>2, <2>3 DEF Commit
<1>7. CASE Removal(p)
  BY <1>0, <1>d, <1>7 DEF Removal, RemoveStack, RemoveState, RemoveStateFails
<1>8. CASE Fails(p)
  BY <1>0, <1>d, <1>8 DEF Fails
<1> QED
  BY <1>1, <1>2, <1>3, <1>4, <1>5, <1>6, <1>7, <1>8 DEF Step

\* A step leaves the one route of an app that is not torn and not its own.
LEMMA OtherAppSteady ==
  ASSUME NEW p \in Procs, TypeOK, FilesFollow(p), SnapHolds(p), Step(p),
         NEW a \in Apps \ torn, a # cmd[p].app, InSync(a)
  PROVE  conf'[a] = conf[a] /\ routes'[a] = routes[a] /\ served'[a] = served[a]
<1>0. /\ pc \in [Procs -> Labels] /\ cmd \in [Procs -> Command]
      /\ cmd[p] \in Command /\ cmd[p].app \in Apps
      /\ conf \in [Apps -> Route] /\ routes \in [Apps -> Route]
      /\ snap[p].conf \in [Apps -> Route] /\ snap[p].routes \in [Apps -> Route]
      /\ snap \in [Procs -> [conf: [Apps -> Route], routes: [Apps -> Route]]]
      /\ served \in [Apps -> SUBSET Stacks]
  BY ProcessTypes
<1>s. conf[a] = routes[a] /\ served[a] = {conf[a]} \ {NoStack}
  BY DEF InSync
<1>l. Loaded[a] = served[a]
  BY <1>0, <1>s DEF Loaded
<1>r. At(p, "restore") => snap[p].conf[a] = conf[a] /\ snap[p].routes[a] = conf[a]
  BY DEF SnapHolds, Switching, Promoting, At
<1> USE DEF ingress
<1>1. CASE Locking(p)
  BY <1>0, <1>s, <1>l, <1>1
     DEF Locking, ReadPrevious, OpenLock, LockApp, LockRegistry
<1>2. CASE Recovery(p)
  BY <1>0, <1>s, <1>l, <1>2
     DEF Recovery, RecoverNothing, RecoverCandidate, RecoverClear, RecoverInPlace
<1>3. CASE Rollout(p)
  <2>1. CASE Begin(p)
    BY <1>0, <1>s, <1>l, <2>1 DEF Begin, BeginAs
  <2>2. CASE \/ StackDeploy(p) \/ StackDeployFails(p) \/ MarkDeployed(p)
              \/ Verify(p) \/ Converge(p) \/ RolloutFails(p)
              \/ CancelledBeforePromotion(p)
    BY <1>0, <1>s, <1>l, <2>2
       DEF StackDeploy, StackDeployFails, MarkDeployed, Verify, Converge,
           RolloutFails, CancelledBeforePromotion
  <2> QED
    BY <1>3, <2>1, <2>2 DEF Rollout
<1>4. CASE TakeBack(p)
  BY <1>0, <1>s, <1>l, <1>4
     DEF TakeBack, UndoCandidate, UndoInPlace, Archive, RecordFailure,
         DropCandidate, Unwind
<1>5. CASE Ingress(p)
  <2>1. CASE WriteConf(p)
    BY <1>0, <1>s, <1>l, UpdatedRoutes, <2>1 DEF WriteConf
  <2>2. CASE WriteRoutes(p)
    BY <1>0, <1>s, <1>l, UpdatedRoutes, <2>2 DEF WriteRoutes
  <2>3. CASE Restore(p)
    BY <1>0, <1>s, <1>l, <1>r, <2>3 DEF Restore
  <2>4. CASE RestoreFails(p)
    BY <1>0, <1>s, <1>l, <1>r, <2>4 DEF RestoreFails
  <2>5. CASE \/ EnsureNetwork(p) \/ NothingToRoute(p) \/ Reload(p)
              \/ ReloadFails(p) \/ Certificates(p) \/ NothingToRestore(p)
              \/ RestoreReload(p) \/ RestoreReloadFails(p)
    BY <1>0, <1>s, <1>l, <2>5
       DEF EnsureNetwork, NothingToRoute, Reload, ReloadFails, Certificates,
           NothingToRestore, RestoreReload, RestoreReloadFails
  <2> QED
    BY <1>5, <2>1, <2>2, <2>3, <2>4, <2>5 DEF Ingress
<1>6. CASE Commit(p)
  BY <1>0, <1>s, <1>l, <1>6
     DEF Commit, MarkIngress, MarkIngressFails, SaveRecord, MarkSaved, SetLatest,
         RemoveStale, ClearJournal
<1>7. CASE Removal(p)
  BY <1>0, <1>s, <1>l, <1>7
     DEF Removal, RemoveStack, RemoveState, RemoveStateFails
<1>8. CASE Fails(p)
  BY <1>0, <1>s, <1>l, <1>8 DEF Fails
<1> QED
  BY <1>1, <1>2, <1>3, <1>4, <1>5, <1>6, <1>7, <1>8 DEF Step

\* A promotion ends with its app on one route again, that of a live stack, unless
\* it ends torn.
LEMMA OwnAppSettles ==
  ASSUME NEW p \in Procs, TypeOK, TypeOK', TrafficOf(p), Step(p),
         pc[p] \in Promoting, pc'[p] \notin Promoting,
         NEW a \in Apps \ torn', a = cmd[p].app
  PROVE  InSync(a)' /\ Safe(a, conf[a])'
<1> USE DEF Promoting, At, Goto
<1>0. /\ pc \in [Procs -> Labels] /\ cmd \in [Procs -> Command]
      /\ cmd[p] \in Command /\ cmd[p].app \in Apps
      /\ conf \in [Apps -> Route] /\ routes \in [Apps -> Route]
      /\ snap[p].conf \in [Apps -> Route] /\ snap[p].routes \in [Apps -> Route]
      /\ snap \in [Procs -> [conf: [Apps -> Route], routes: [Apps -> Route]]]
      /\ served \in [Apps -> SUBSET Stacks]
  BY ProcessTypes
<1>i. UNCHANGED <<conf, routes, served>> => InSync(a)' = InSync(a)
  BY DEF InSync
<1>s. ASSUME UNCHANGED <<journal, runs>>, NEW r \in Route PROVE Safe(a, r)' = Safe(a, r)
  BY <1>s DEF Safe, Live, Deletable
<1>r. a \notin torn /\ pc[p] \in Switching =>
        Safe(a, snap[p].conf[a]) /\ snap[p].conf[a] = snap[p].routes[a]
  BY DEF TrafficOf, SnapHolds
<1>k. Loaded[a] = {conf[a]} \ {NoStack}
  BY <1>0 DEF Loaded
<1>1. CASE Locking(p)
  BY <1>0, <1>1 DEF Locking, ReadPrevious, OpenLock, LockApp, LockRegistry
<1>2. CASE Recovery(p)
  BY <1>0, <1>2
     DEF Recovery, RecoverNothing, RecoverCandidate, RecoverClear, RecoverInPlace
<1>3. CASE Rollout(p)
  <2>1. CASE Begin(p)
    BY <1>0, <2>1 DEF Begin, BeginAs
  <2>2. CASE \/ StackDeploy(p) \/ StackDeployFails(p) \/ MarkDeployed(p)
              \/ Verify(p) \/ Converge(p) \/ RolloutFails(p)
              \/ CancelledBeforePromotion(p)
    BY <1>0, <2>2
       DEF StackDeploy, StackDeployFails, MarkDeployed, Verify, Converge,
           RolloutFails, CancelledBeforePromotion
  <2> QED
    BY <1>3, <2>1, <2>2 DEF Rollout
<1>4. CASE TakeBack(p)
  BY <1>0, <1>4
     DEF TakeBack, UndoCandidate, UndoInPlace, Archive, RecordFailure,
         DropCandidate, Unwind
<1>5. CASE Ingress(p)
  <2>1. CASE NothingToRoute(p)
    BY <1>0, <2>1 DEF NothingToRoute
  <2>2. CASE WriteConf(p)
    BY <1>0, <2>2 DEF WriteConf
  <2>3. CASE Reload(p)
    <3>1. /\ served'[a] = {conf[a]} \ {NoStack} /\ UNCHANGED <<conf, routes>>
          /\ pc'[p] = "rm_stack"
      BY <1>0, <1>k, <2>3 DEF Reload, AfterIngress
    <3>2. cmd[p].op = "remove"
      BY <1>0, <3>1, <2>3 DEF Reload, AfterIngress
    <3>3. conf[a] = NoStack /\ routes[a] = NoStack
      BY <3>2, <2>3 DEF Reload, TrafficOf, FilesFollow, Target
    <3> QED
      BY <3>1, <3>3 DEF InSync, Safe
  <2>4. CASE NothingToRestore(p)
    <3>1. /\ snap[p].conf = conf /\ snap[p].routes = routes /\ a \notin torn
          /\ pc[p] = "restore" /\ UNCHANGED <<conf, routes, served, journal, runs>>
      BY <2>4 DEF NothingToRestore, ingress, files, docker, model
    <3>2. Safe(a, conf[a]) /\ conf[a] = routes[a]
      BY <1>r, <3>1 DEF Switching
    <3>3. conf[a] = Target(p)
      BY <3>1 DEF TrafficOf, FilesFollow
    <3>4. served[a] = {conf[a]} \ {NoStack}
      BY <3>1, <3>3 DEF TrafficOf, WorkersFollow, Before, After
    <3>5. InSync(a) /\ Safe(a, conf[a])'
      BY <1>0, <1>s, <3>1, <3>2, <3>4 DEF InSync, Safe
    <3> QED
      BY <1>i, <3>1, <3>5
  <2>5. CASE RestoreFails(p)
    BY <1>0, <2>5 DEF RestoreFails
  <2>6. CASE RestoreReload(p)
    <3>1. /\ served'[a] = {conf[a]} \ {NoStack} /\ UNCHANGED <<conf, routes, journal, runs>>
          /\ pc[p] = "restore_reload" /\ a \notin torn
      BY <1>0, <1>k, <2>6 DEF RestoreReload, files, docker, model
    <3>2. conf[a] = snap[p].conf[a] /\ routes[a] = snap[p].routes[a]
      BY <3>1 DEF TrafficOf, FilesFollow
    <3> PICK r \in Route : r = conf[a]
      BY <1>0
    <3>3. Safe(a, r)' /\ conf[a] = routes[a]
      BY <1>r, <1>s, <3>1, <3>2 DEF Switching
    <3> QED
      BY <3>1, <3>3 DEF InSync, Safe
  <2>7. CASE RestoreReloadFails(p)
    BY <1>0, <2>7 DEF RestoreReloadFails
  <2>8. CASE \/ EnsureNetwork(p) \/ WriteRoutes(p) \/ ReloadFails(p)
              \/ Certificates(p) \/ Restore(p)
    BY <1>0, <2>8
       DEF EnsureNetwork, WriteRoutes, ReloadFails, Certificates, Restore,
           AfterIngress, AfterError
  <2> QED
    BY <1>5, <2>1, <2>2, <2>3, <2>4, <2>5, <2>6, <2>7, <2>8 DEF Ingress
<1>6. CASE Commit(p)
  <2>1. CASE MarkIngress(p)
    <3>1. /\ UNCHANGED <<conf, routes, served, runs>> /\ pc[p] = "mark_ingress"
          /\ journal'[a] = {[stage |-> "ingress_reconciled", stack |-> cmd[p].stack,
                             bg |-> cmd[p].bg]}
          /\ torn' = IF conf[a] = routes[a] /\ served[a] = Loaded[a] THEN torn \ {a} ELSE torn
      BY <1>0, <2>1, ProcessTypes DEF MarkIngress, Mark, ingress, docker
    <3>2. routes[a] = Target(p)
      BY <3>1 DEF TrafficOf, FilesFollow
    <3>3. a \notin torn => conf[a] = Target(p) /\ served[a] = After(p)
      BY <3>1 DEF TrafficOf, FilesFollow, WorkersFollow
    <3>4. InSync(a)
      BY <1>k, <3>1, <3>2, <3>3 DEF InSync, After
    <3>5. Target(p) # NoStack => Target(p) \in Live(a)
      BY <3>1 DEF TrafficOf, StackRuns, Running, Deploying, Undecided, Target
    <3>6. Deletable(a)' = {}
      BY <3>1 DEF Deletable, Unpromoted
    <3>7. Live(a)' = Live(a) /\ conf'[a] = Target(p)
      BY <3>1, <3>2, <3>4 DEF Live, InSync
    <3> QED
      BY <1>i, <3>1, <3>4, <3>5, <3>6, <3>7 DEF Safe
  <2>2. CASE MarkIngressFails(p)
    BY <1>0, <2>2 DEF MarkIngressFails
  <2>3. CASE \/ SaveRecord(p) \/ MarkSaved(p) \/ SetLatest(p)
              \/ RemoveStale(p) \/ ClearJournal(p)
    BY <1>0, <2>3 DEF SaveRecord, MarkSaved, SetLatest, RemoveStale, ClearJournal
  <2> QED
    BY <1>6, <2>1, <2>2, <2>3 DEF Commit
<1>7. CASE Removal(p)
  BY <1>0, <1>7 DEF Removal, RemoveStack, RemoveState, RemoveStateFails
<1>8. CASE Fails(p)
  BY <1>0, <1>8 DEF Fails, OnError, AfterError, Returns
<1> QED
  BY <1>1, <1>2, <1>3, <1>4, <1>5, <1>6, <1>7, <1>8 DEF Step

\* While a promotion goes on, its command stays on its app ...
LEMMA PromotionKeepsApp ==
  ASSUME NEW p \in Procs, TypeOK, Step(p), pc[p] \in Promoting, pc'[p] \in Promoting
  PROVE  cmd'[p].app = cmd[p].app
<1> USE DEF At, Promoting, Goto, Exit, Keep
<1>0. /\ pc \in [Procs -> Labels] /\ cmd \in [Procs -> Command]
      /\ cmd[p] \in Command /\ cmd[p].app \in Apps
      /\ conf \in [Apps -> Route] /\ routes \in [Apps -> Route]
      /\ snap[p].conf \in [Apps -> Route] /\ snap[p].routes \in [Apps -> Route]
      /\ snap \in [Procs -> [conf: [Apps -> Route], routes: [Apps -> Route]]]
      /\ served \in [Apps -> SUBSET Stacks]
  BY ProcessTypes
<1>1. CASE Locking(p)
  BY <1>0, <1>1 DEF Locking, ReadPrevious, OpenLock, LockApp, LockRegistry
<1>2. CASE Recovery(p)
  BY <1>0, <1>2
     DEF Recovery, RecoverNothing, RecoverCandidate, RecoverClear, RecoverInPlace
<1>3. CASE Rollout(p)
  <2>1. CASE Begin(p)
    BY <1>0, <2>1 DEF Begin, BeginAs
  <2>2. CASE \/ StackDeploy(p) \/ StackDeployFails(p) \/ MarkDeployed(p)
              \/ Verify(p) \/ Converge(p) \/ RolloutFails(p)
              \/ CancelledBeforePromotion(p)
    BY <1>0, <2>2
       DEF StackDeploy, StackDeployFails, MarkDeployed, Verify, Converge,
           RolloutFails, CancelledBeforePromotion
  <2> QED
    BY <1>3, <2>1, <2>2 DEF Rollout
<1>4. CASE TakeBack(p)
  BY <1>0, <1>4
     DEF TakeBack, UndoCandidate, UndoInPlace, Archive, RecordFailure,
         DropCandidate, Unwind
<1>5. CASE Ingress(p)
  BY <1>0, <1>5
     DEF Ingress, EnsureNetwork, NothingToRoute, WriteConf, WriteRoutes, Reload,
         ReloadFails, Certificates, NothingToRestore, Restore, RestoreFails,
         RestoreReload, RestoreReloadFails
<1>6. CASE Commit(p)
  BY <1>0, <1>6
     DEF Commit, MarkIngress, MarkIngressFails, SaveRecord, MarkSaved, SetLatest,
         RemoveStale, ClearJournal
<1>7. CASE Removal(p)
  BY <1>0, <1>7 DEF Removal, RemoveStack, RemoveState, RemoveStateFails
<1>8. CASE Fails(p)
  BY <1>0, <1>8 DEF Fails, OnError, Returns
<1> QED
  BY <1>1, <1>2, <1>3, <1>4, <1>5, <1>6, <1>7, <1>8 DEF Step

\* ... and nothing but a promotion touches the ingress.
LEMMA PromotionStarts ==
  ASSUME NEW p \in Procs, TypeOK, Step(p), pc[p] \notin Promoting, ~ UNCHANGED ingress
  PROVE  pc'[p] \in Promoting /\ cmd'[p].app = cmd[p].app
<1> USE DEF At, Promoting, Goto, Exit, Keep, ingress
<1>0. /\ pc \in [Procs -> Labels] /\ cmd \in [Procs -> Command]
      /\ cmd[p] \in Command /\ cmd[p].app \in Apps
      /\ conf \in [Apps -> Route] /\ routes \in [Apps -> Route]
      /\ snap[p].conf \in [Apps -> Route] /\ snap[p].routes \in [Apps -> Route]
      /\ snap \in [Procs -> [conf: [Apps -> Route], routes: [Apps -> Route]]]
      /\ served \in [Apps -> SUBSET Stacks]
  BY ProcessTypes
<1>1. CASE Locking(p)
  BY <1>0, <1>1 DEF Locking, ReadPrevious, OpenLock, LockApp, LockRegistry
<1>2. CASE Recovery(p)
  BY <1>0, <1>2
     DEF Recovery, RecoverNothing, RecoverCandidate, RecoverClear, RecoverInPlace
<1>3. CASE Rollout(p)
  <2>1. CASE Begin(p)
    BY <1>0, <2>1 DEF Begin, BeginAs
  <2>2. CASE \/ StackDeploy(p) \/ StackDeployFails(p) \/ MarkDeployed(p)
              \/ Verify(p) \/ Converge(p) \/ RolloutFails(p)
              \/ CancelledBeforePromotion(p)
    BY <1>0, <2>2
       DEF StackDeploy, StackDeployFails, MarkDeployed, Verify, Converge,
           RolloutFails, CancelledBeforePromotion
  <2> QED
    BY <1>3, <2>1, <2>2 DEF Rollout
<1>4. CASE TakeBack(p)
  BY <1>0, <1>4
     DEF TakeBack, UndoCandidate, UndoInPlace, Archive, RecordFailure,
         DropCandidate, Unwind
<1>5. CASE Ingress(p)
  <2>1. CASE WriteConf(p)
    BY <1>0, <2>1 DEF WriteConf
  <2>2. CASE \/ EnsureNetwork(p) \/ NothingToRoute(p) \/ WriteRoutes(p)
              \/ Reload(p) \/ ReloadFails(p) \/ Certificates(p)
              \/ NothingToRestore(p) \/ Restore(p) \/ RestoreFails(p)
              \/ RestoreReload(p) \/ RestoreReloadFails(p)
    BY <1>0, <2>2
       DEF EnsureNetwork, NothingToRoute, WriteRoutes, Reload, ReloadFails,
           Certificates, NothingToRestore, Restore, RestoreFails, RestoreReload,
           RestoreReloadFails
  <2> QED
    BY <1>5, <2>1, <2>2 DEF Ingress
<1>6. CASE Commit(p)
  BY <1>0, <1>6
     DEF Commit, MarkIngress, MarkIngressFails, SaveRecord, MarkSaved, SetLatest,
         RemoveStale, ClearJournal
<1>7. CASE Removal(p)
  BY <1>0, <1>7 DEF Removal, RemoveStack, RemoveState, RemoveStateFails
<1>8. CASE Fails(p)
  BY <1>0, <1>8 DEF Fails
<1> QED
  BY <1>1, <1>2, <1>3, <1>4, <1>5, <1>6, <1>7, <1>8 DEF Step

\* Every app that is not torn and not being promoted keeps its one, live route.
LEMMA SettledKept ==
  ASSUME NEW p \in Procs, DeployInv, DeployInv', TrafficInv, Step(p)
  PROVE  Settled'
<1> USE DEF DeployInv, TrafficInv
<1>0. TypeOK /\ TypeOK' /\ ProcsOK /\ Mutex /\ TrafficOf(p) /\ Settled
  BY DEF TypeOK
<1>1. CASE ~HoldsRegistry(p)
  <2>1. UNCHANGED <<files, docker, ingress>> /\ pc[p] \notin Promoting
    BY <1>0, <1>1, NoLockNoEffect DEF HoldsRegistry, BeforeApp, Promoting
  <2>2. torn' = torn
    BY <2>1, TornByPromotion
  <2>3. \A q \in Procs \ {p} : pc'[q] = pc[q] /\ cmd'[q] = cmd[q]
    BY <1>0, Others
  <2>4. ASSUME NEW a \in Apps
        PROVE  InSync(a)' = InSync(a) /\ Safe(a, conf[a])' = Safe(a, conf[a])
    BY <2>1 DEF InSync, Safe, Live, Deletable, files, docker, ingress
  <2>5. ASSUME NEW a \in Apps \ torn', ~(InSync(a) /\ Safe(a, conf[a]))
        PROVE  \E q \in Procs : pc'[q] \in Promoting /\ cmd'[q].app = a
    BY <1>0, <2>1, <2>2, <2>3, <2>5 DEF Settled
  <2> QED
    BY <2>4, <2>5 DEF Settled
<1>2. CASE HoldsRegistry(p)
  <2> SUFFICES ASSUME NEW a \in Apps \ torn',
                      ~ \E q \in Procs : pc'[q] \in Promoting /\ cmd'[q].app = a
               PROVE  InSync(a)' /\ Safe(a, conf[a])'
    BY DEF Settled
  <2>0. \A q \in Procs \ {p} : pc[q] \notin Promoting
    BY <1>0, <1>2, NobodyElse
  <2>1. CASE pc[p] \in Promoting /\ a = cmd[p].app
    <3>1. pc'[p] \notin Promoting
      <4>1. ASSUME pc'[p] \in Promoting PROVE cmd'[p].app = a
        BY <1>0, <2>1, <4>1, PromotionKeepsApp
      <4> QED
        BY <4>1
    <3> QED
      BY <1>0, <2>1, <3>1, OwnAppSettles
  <2>2. CASE ~(pc[p] \in Promoting /\ a = cmd[p].app)
    <3>1. a \notin torn
      BY <1>0, <2>2, AppAlone, TornByPromotion
    <3>2. InSync(a) /\ Safe(a, conf[a])
      BY <1>0, <2>0, <2>2, <3>1 DEF Settled
    <3>3. a # cmd[p].app =>
            conf'[a] = conf[a] /\ routes'[a] = routes[a] /\ served'[a] = served[a]
      BY <1>0, <3>1, <3>2, OtherAppSteady DEF TrafficOf
    <3>4. a = cmd[p].app => UNCHANGED ingress
      <4>1. ASSUME a = cmd[p].app, ~ UNCHANGED ingress
            PROVE  pc'[p] \in Promoting /\ cmd'[p].app = a
        BY <1>0, <2>2, <4>1, PromotionStarts
      <4> QED
        BY <4>1
    <3>5. conf'[a] = conf[a] /\ routes'[a] = routes[a] /\ served'[a] = served[a]
      BY <3>3, <3>4 DEF ingress
    <3>6. InSync(a)'
      BY <3>2, <3>5 DEF InSync
    <3>7. CASE conf[a] = NoStack
      BY <3>5, <3>6, <3>7 DEF Safe
    <3>8. CASE conf[a] # NoStack
      <4> PICK s \in Stacks : s = conf[a]
        BY <1>0, <3>8, ProcessTypes DEF Route
      <4>1. s \in Live(a) /\ s \notin Deletable(a) /\ routes[a] = s /\ s \in Traffic(a)
        BY <3>2, <3>8 DEF Safe, InSync, Traffic
      <4>2. ~Dies(a, s)
        BY <1>0, <4>1, RoutedStaysUp DEF TrafficOf
      <4>3. s \in Live(a)'
        BY <4>1, <4>2 DEF Live, Dies
      <4>4. s \notin Deletable(a)'
        BY <1>0, <4>1, TrafficNotDeletable DEF TrafficOf
      <4> QED
        BY <3>5, <3>6, <4>3, <4>4 DEF Safe
    <3> QED
      BY <3>6, <3>7, <3>8
  <2> QED
    BY <2>1, <2>2
<1> QED
  BY <1>1, <1>2

-----------------------------------------------------------------------------
(* The newest successful record.                                           *)

Newest(S) == CHOOSE i \in S : i \in S /\ \A j \in S : j <= i

\* A set of record numbers that is not empty has a highest one.
LEMMA NewestIsHighest ==
  ASSUME NEW n \in Nat, NEW S \in SUBSET (1..n), S # {}
  PROVE  Newest(S) \in S /\ \A j \in S : j <= Newest(S)
<1> DEFINE U == {m \in Nat : \A j \in S : j <= m}
<1>1. n \in U
  OBVIOUS
<1>2. IsWellFoundedOn({ss \in Nat \X Nat : ss[1] < ss[2]}, Nat)
  BY NatLessThanWellFounded, Zenon DEF OpToRel
<1>3. \E m \in U : \A k \in U : ~(<<k, m>> \in {ss \in Nat \X Nat : ss[1] < ss[2]})
  <2> HIDE DEF U
  <2>1. U \subseteq Nat /\ U # {}
    BY <1>1 DEF U
  <2> QED
    BY <1>2, <2>1, WFMin, Zenon
<1>4. PICK m \in U : \A k \in U : ~(k < m)
  BY <1>3
<1>5. m \in S
  <2> SUFFICES ASSUME m \notin S PROVE FALSE
    OBVIOUS
  <2>1. m # 0
    <3>1. PICK j \in S : TRUE
      OBVIOUS
    <3> QED
      BY <3>1
  <2>2. \A j \in S : j <= m - 1
    OBVIOUS
  <2> QED
    BY <1>4, <2>1, <2>2
<1> QED
  BY <1>5 DEF Newest

\* LatestStack takes the stack of that record.
LEMMA LatestIsNewest ==
  ASSUME NEW a
  PROVE  LatestStack(a) = IF Successful(a) = {} THEN NoStack
                          ELSE history[a][Newest(Successful(a))].stack
  BY DEF LatestStack, IsLatest, Newest

\* The stack on record is one of the recorded stacks.
LEMMA LatestIsRecorded ==
  ASSUME FilesOK, NEW a \in Apps
  PROVE  /\ LatestStack(a) \in Recorded(a) \cup {NoStack}
         /\ LatestStack(a) \in Stacks \cup {NoStack}
<1>1. history[a] \in Seq(Record) /\ DOMAIN history[a] = 1..Len(history[a])
      /\ Len(history[a]) \in Nat
  BY LenProperties DEF FilesOK
<1>2. CASE Successful(a) = {}
  BY <1>2, LatestIsNewest
<1>3. CASE Successful(a) # {}
  <2> DEFINE i == Newest(Successful(a))
  <2>1. Successful(a) \in SUBSET (1..Len(history[a]))
    BY <1>1 DEF Successful
  <2>2. i \in Successful(a)
    BY <1>1, <1>3, <2>1, NewestIsHighest
  <2>3. history[a][i] \in Record /\ history[a][i].ok /\ i \in DOMAIN history[a]
    BY <1>1, <2>2, ElementOfSeq DEF Successful
  <2>4. LatestStack(a) = history[a][i].stack
    BY <1>3, LatestIsNewest
  <2> QED
    BY <2>3, <2>4 DEF Recorded, StacksOf, Record
<1> QED
  BY <1>2, <1>3

\* The stack on record depends on the app's records alone.
LEMMA SameRecordsSameStack ==
  ASSUME NEW a, history'[a] = history[a]
  PROVE  LatestStack(a)' = LatestStack(a)
<1>1. Successful(a)' = Successful(a)
  BY DEF Successful
<1>2. LatestStack(a)' = IF Successful(a)' = {} THEN NoStack
                        ELSE history'[a][Newest(Successful(a)')].stack
  BY DEF LatestStack, IsLatest, Newest
<1> QED
  BY <1>1, <1>2, LatestIsNewest

\* A record that a deployment appends becomes the newest when it is successful,
\* and changes nothing when it is not.
LEMMA AppendedRecord ==
  ASSUME FilesOK, NEW a \in Apps, NEW e \in Record,
         history'[a] = Append(history[a], e)
  PROVE  LatestStack(a)' = IF e.ok THEN e.stack ELSE LatestStack(a)
<1> PICK h \in Seq(Record) : h = history[a]
  BY DEF FilesOK
<1>1. /\ Append(h, e) \in Seq(Record)
      /\ Len(Append(h, e)) = Len(h) + 1
      /\ \A i \in 1..Len(h) : Append(h, e)[i] = h[i]
      /\ Append(h, e)[Len(h) + 1] = e
  BY AppendProperties
<1>2. /\ DOMAIN h = 1..Len(h) /\ DOMAIN Append(h, e) = 1..(Len(h) + 1) /\ Len(h) \in Nat
  BY <1>1, LenProperties
<1>3. Successful(a) = {i \in 1..Len(h) : h[i].ok}
  BY <1>2 DEF Successful
<1>4. Successful(a)' = {i \in 1..(Len(h) + 1) : Append(h, e)[i].ok}
  BY <1>2 DEF Successful
<1>5. LatestStack(a)' = IF Successful(a)' = {} THEN NoStack
                        ELSE Append(h, e)[Newest(Successful(a)')].stack
  BY DEF LatestStack, IsLatest, Newest
<1>6. CASE e.ok
  <2>1. Len(h) + 1 \in Successful(a)' /\ Successful(a)' \in SUBSET (1..(Len(h) + 1))
    BY <1>1, <1>2, <1>4, <1>6
  <2> PICK n \in Nat : n = Len(h) + 1
    BY <1>2
  <2>2. /\ Newest(Successful(a)') \in Successful(a)'
        /\ \A j \in Successful(a)' : j <= Newest(Successful(a)')
    <3>1. Successful(a)' \in SUBSET (1..n) /\ Successful(a)' # {}
      BY <2>1
    <3> QED
      BY <3>1, NewestIsHighest
  <2>3. Newest(Successful(a)') = Len(h) + 1
    BY <1>2, <2>1, <2>2
  <2> QED
    BY <1>1, <1>5, <1>6, <2>1, <2>3
<1>7. CASE ~e.ok
  <2>1. Successful(a)' = Successful(a)
    BY <1>1, <1>2, <1>3, <1>4, <1>7
  <2>2. CASE Successful(a) = {}
    BY <1>5, <1>7, <2>1, <2>2, LatestIsNewest
  <2>3. CASE Successful(a) # {}
    <3>1. Newest(Successful(a)) \in 1..Len(h)
      BY <1>2, <1>3, <2>3, NewestIsHighest
    <3> QED
      BY <1>1, <1>5, <1>7, <2>1, <2>3, <3>1, LatestIsNewest
  <2> QED
    BY <2>2, <2>3
<1> QED
  BY <1>6, <1>7

\* Remove deletes the stack on record before it forgets the record.
LEMMA RetiredKept ==
  ASSUME NEW p \in Procs, TypeOK, Retired(p), Step(p)
  PROVE  Retired(p)'
<1> USE DEF At, Goto, Exit, Keep, Retired
<1>0. /\ pc \in [Procs -> Labels] /\ cmd \in [Procs -> Command] /\ cmd[p].app \in Apps
      /\ runs \in [Apps -> [Stacks -> Workload]] /\ NoStack \notin Stacks
  BY ProcessTypes
<1>1. CASE Locking(p)
  BY <1>0, <1>1 DEF Locking, ReadPrevious, OpenLock, LockApp, LockRegistry
<1>2. CASE Recovery(p)
  BY <1>0, <1>2
     DEF Recovery, RecoverNothing, RecoverCandidate, RecoverClear, RecoverInPlace
<1>3. CASE Rollout(p)
  <2>1. CASE Begin(p)
    BY <1>0, <2>1 DEF Begin, BeginAs
  <2>2. CASE \/ StackDeploy(p) \/ StackDeployFails(p) \/ MarkDeployed(p)
              \/ Verify(p) \/ Converge(p) \/ RolloutFails(p)
              \/ CancelledBeforePromotion(p)
    BY <1>0, <2>2
       DEF StackDeploy, StackDeployFails, MarkDeployed, Verify, Converge,
           RolloutFails, CancelledBeforePromotion
  <2> QED
    BY <1>3, <2>1, <2>2 DEF Rollout
<1>4. CASE TakeBack(p)
  BY <1>0, <1>4
     DEF TakeBack, UndoCandidate, UndoInPlace, Archive, RecordFailure,
         DropCandidate, Unwind
<1>5. CASE Ingress(p)
  BY <1>0, <1>5
     DEF Ingress, EnsureNetwork, NothingToRoute, WriteConf, WriteRoutes, Reload,
         ReloadFails, Certificates, NothingToRestore, Restore, RestoreFails,
         RestoreReload, RestoreReloadFails, AfterIngress, AfterError
<1>6. CASE Commit(p)
  BY <1>0, <1>6
     DEF Commit, MarkIngress, MarkIngressFails, SaveRecord, MarkSaved, SetLatest,
         RemoveStale, ClearJournal
<1>7. CASE Removal(p)
  <2>1. CASE RemoveStack(p)
    <3>1. LatestStack(cmd[p].app)' = LatestStack(cmd[p].app)
      BY SameRecordsSameStack, <2>1 DEF RemoveStack, files
    <3>2. LatestStack(cmd[p].app) \notin Live(cmd[p].app)'
      BY <1>0, <2>1 DEF RemoveStack, Live
    <3> QED
      BY <3>1, <3>2, <2>1 DEF RemoveStack
  <2>2. CASE RemoveState(p) \/ RemoveStateFails(p)
    BY <1>0, <2>2 DEF RemoveState, RemoveStateFails
  <2> QED
    BY <1>7, <2>1, <2>2 DEF Removal
<1>8. CASE Fails(p)
  BY <1>0, <1>8 DEF Fails, OnError, AfterError, Returns
<1> QED
  BY <1>1, <1>2, <1>3, <1>4, <1>5, <1>6, <1>7, <1>8 DEF Step

-----------------------------------------------------------------------------
(* Together: every action keeps the invariant.                             *)

\* What TrafficInv says of a process depends on its own state and, while it holds
\* registry.lock, on the shared state.
LEMMA TrafficBystander ==
  ASSUME NEW q \in Procs, TrafficOf(q), pc'[q] = pc[q], cmd'[q] = cmd[q], snap'[q] = snap[q],
         ~HoldsRegistry(q) \/ UNCHANGED <<files, docker, ingress, torn>>
  PROVE  TrafficOf(q)'
<1>1. CASE ~HoldsRegistry(q)
  <2>1. pc[q] \in BeforeApp \cup {"wait_registry"}
    BY <1>1 DEF HoldsRegistry
  <2>2. /\ pc[q] \notin Promoting /\ pc[q] \notin Switching /\ pc[q] \notin Revocable
        /\ pc[q] \notin Running /\ pc[q] \notin Deploying
        /\ pc[q] \notin {"save_record", "mark_saved", "set_latest", "stale", "rm_stack",
                         "rm_state", "recover_clear", "begin", "archive", "unwind"}
    BY <2>1 DEF BeforeApp, Promoting, Switching, Revocable, Running, Deploying, Undecided
  <2>3. SnapHolds(q)' /\ FilesFollow(q)' /\ WorkersFollow(q)' /\ Moved(q)'
    BY <2>2 DEF SnapHolds, FilesFollow, WorkersFollow, Moved, At, Switching, Promoting
  <2>4. Untrafficked(q)' /\ StackRuns(q)' /\ Intent(q)' /\ Retired(q)'
    BY <2>2 DEF TrafficOf, Untrafficked, StackRuns, Intent, Retired, At
  <2> QED
    BY <2>3, <2>4 DEF TrafficOf
<1>2. CASE UNCHANGED <<files, docker, ingress, torn>>
  <2>1. /\ UNCHANGED <<journal, history, runs, conf, routes, served, torn>>
        /\ Target(q)' = Target(q)
    BY <1>2 DEF files, docker, ingress, Target
  <2>2. SnapHolds(q)' /\ FilesFollow(q)' /\ Moved(q)'
    BY <2>1 DEF TrafficOf, SnapHolds, FilesFollow, Moved, At, Safe, Live, Deletable
  <2>3. WorkersFollow(q)'
    BY <2>1 DEF TrafficOf, WorkersFollow, Before, After
  <2>4. Untrafficked(q)' /\ StackRuns(q)' /\ Intent(q)'
    BY <2>1 DEF TrafficOf, Untrafficked, StackRuns, Intent, At, Live, Deletable, Traffic
  <2>5. Retired(q)'
    BY <2>1, SameRecordsSameStack DEF TrafficOf, Retired, At, Live
  <2> QED
    BY <2>2, <2>3, <2>4, <2>5 DEF TrafficOf
<1> QED
  BY <1>1, <1>2

\* Settled survives a step that leaves what it speaks of and starts no promotion.
LEMMA SettledFrame ==
  ASSUME Settled, UNCHANGED <<docker, ingress>>, torn \subseteq torn',
         \A a \in Apps : journal'[a] \subseteq journal[a],
         \A p \in Procs : pc[p] \in Promoting =>
           \/ pc'[p] = pc[p] /\ cmd'[p].app = cmd[p].app
           \/ cmd[p].app \in torn'
  PROVE  Settled'
<1> SUFFICES ASSUME NEW a \in Apps \ torn'
             PROVE  \/ InSync(a)' /\ Safe(a, conf[a])'
                    \/ \E p \in Procs : pc'[p] \in Promoting /\ cmd'[p].app = a
  BY DEF Settled
<1>1. CASE InSync(a) /\ Safe(a, conf[a])
  <2>1. InSync(a)'
    BY <1>1 DEF InSync, ingress
  <2>2. Live(a)' = Live(a) /\ Deletable(a)' \subseteq Deletable(a) /\ conf'[a] = conf[a]
    BY DEF Live, Deletable, docker, ingress
  <2> QED
    BY <1>1, <2>1, <2>2 DEF Safe
<1>2. CASE \E p \in Procs : pc[p] \in Promoting /\ cmd[p].app = a
  BY <1>2
<1> QED
  BY <1>1, <1>2 DEF Settled

\* A step of a command keeps the invariant, of its own process and of the others.
LEMMA StepTraffic ==
  ASSUME NEW p \in Procs, DeployInv, DeployInv', TrafficInv, Step(p)
  PROVE  TrafficInv'
<1>0. /\ TypeOK /\ TypeOK' /\ ProcsOK /\ Mutex /\ ProcInv(p) /\ NamesMinted
      /\ RemoveShape(p) /\ DeployShape(p)
      /\ OneEntry /\ Settled /\ RoutesMinted /\ TrafficOf(p)
  BY DEF DeployInv, TrafficInv, ProcInv, TypeOK
<1>1. OneEntry' /\ RoutesMinted' /\ Settled'
  BY <1>0, OneEntryKept, RoutesMintedKept, SettledKept
<1>2. SnapHolds(p)' /\ FilesFollow(p)' /\ WorkersFollow(p)' /\ Moved(p)'
  BY <1>0, SnapHoldsKept, FilesFollowKept, WorkersFollowKept, MovedKept DEF TrafficOf
<1>3. Untrafficked(p)' /\ StackRuns(p)' /\ Intent(p)' /\ Retired(p)'
  BY <1>0, UntraffickedKept, StackStaysUp, IntentKept, RetiredKept DEF TrafficOf
<1>4. ASSUME NEW q \in Procs \ {p} PROVE TrafficOf(q)'
  <2>1. pc'[q] = pc[q] /\ cmd'[q] = cmd[q] /\ snap'[q] = snap[q]
    BY <1>0, Others, OthersKeepSnap
  <2>2. ~HoldsRegistry(q) \/ ~HoldsRegistry(p)
    BY <1>0 DEF Mutex
  <2>3. ~HoldsRegistry(p) => UNCHANGED <<files, docker, ingress, torn>>
    BY <1>0, NoLockNoEffect, TornByPromotion DEF HoldsRegistry, BeforeApp, Promoting
  <2> QED
    BY <2>1, <2>2, <2>3, TrafficBystander DEF TrafficInv
<1> QED
  BY <1>1, <1>2, <1>3, <1>4 DEF TrafficInv, TrafficOf

\* Starting a command: it knows and touches nothing yet.
LEMMA StartTraffic ==
  ASSUME NEW p \in Procs, DeployInv, TrafficInv, Start(p)
  PROVE  TrafficInv'
<1>0. pc \in [Procs -> Labels] /\ cmd \in [Procs -> Command]
  BY DEF DeployInv, TypeOK, ProcsOK
<1>1. PICK op \in Ops, a \in Apps :
        /\ cmd' = [cmd EXCEPT ![p] = Fresh(op, a)]
        /\ Goto(p, IF op = "rollback" THEN "previous" ELSE "open")
  BY DEF Start
<1>2. /\ ~cmd'[p].bg /\ pc'[p] \in {"previous", "open"} /\ pc[p] = "idle"
      /\ \A q \in Procs \ {p} : pc'[q] = pc[q] /\ cmd'[q] = cmd[q]
      /\ UNCHANGED <<files, docker, ingress, snap, torn>>
  BY <1>0, <1>1 DEF Start, Goto, At, Fresh
<1>3. OneEntry' /\ RoutesMinted'
  BY <1>2 DEF TrafficInv, OneEntry, RoutesMinted, Traffic, files, docker, ingress
<1>4. Settled'
  BY <1>2, SettledFrame DEF TrafficInv, Promoting, files
<1>5. TrafficOf(p)'
  <2>1. SnapHolds(p)' /\ FilesFollow(p)' /\ WorkersFollow(p)' /\ Moved(p)'
    BY <1>2 DEF SnapHolds, FilesFollow, WorkersFollow, Moved, At, Switching, Promoting
  <2>2. Untrafficked(p)' /\ StackRuns(p)' /\ Intent(p)' /\ Retired(p)'
    BY <1>2 DEF Untrafficked, StackRuns, Intent, Retired, At, Running, Deploying,
                Undecided, Promoting
  <2> QED
    BY <2>1, <2>2 DEF TrafficOf
<1>6. ASSUME NEW q \in Procs \ {p} PROVE TrafficOf(q)'
  BY <1>2, TrafficBystander DEF TrafficInv
<1> QED
  BY <1>3, <1>4, <1>5, <1>6 DEF TrafficInv

\* Cancelling changes no file, no stack and no label.
LEMMA CancelTraffic ==
  ASSUME NEW p \in Procs, DeployInv, TrafficInv, Cancel(p)
  PROVE  TrafficInv'
<1>0. pc \in [Procs -> Labels] /\ cmd \in [Procs -> Command] /\ cmd[p] \in Command
  BY DEF DeployInv, TypeOK, ProcsOK
<1>1. /\ cmd' = [cmd EXCEPT ![p].cancelled = TRUE]
      /\ UNCHANGED <<files, docker, ingress, pc, snap, torn>>
  BY DEF Cancel, model
<1>2. /\ cmd'[p].op = cmd[p].op /\ cmd'[p].app = cmd[p].app /\ cmd'[p].mode = cmd[p].mode
      /\ cmd'[p].stack = cmd[p].stack /\ cmd'[p].bg = cmd[p].bg
      /\ cmd'[p].promoting = cmd[p].promoting
  BY <1>0, <1>1 DEF Command
<1>3. OneEntry' /\ RoutesMinted'
  BY <1>1 DEF TrafficInv, OneEntry, RoutesMinted, Traffic, files, docker, ingress
<1>4. \A q \in Procs : cmd'[q].app = cmd[q].app
  BY <1>0, <1>1, <1>2
<1>5. Settled'
  BY <1>1, <1>4, SettledFrame DEF TrafficInv, files
<1>6. TrafficOf(p)'
  <2>1. /\ UNCHANGED <<journal, history, runs, conf, routes, served, torn, pc, snap>>
        /\ Target(p)' = Target(p)
    BY <1>1, <1>2 DEF files, docker, ingress, Target
  <2>2. SnapHolds(p)' /\ FilesFollow(p)' /\ Moved(p)'
    BY <1>2, <2>1
       DEF TrafficInv, TrafficOf, SnapHolds, FilesFollow, Moved, At, Safe, Live, Deletable
  <2>3. WorkersFollow(p)'
    BY <1>2, <2>1 DEF TrafficInv, TrafficOf, WorkersFollow, Before, After
  <2>4. Untrafficked(p)' /\ StackRuns(p)' /\ Intent(p)'
    BY <1>2, <2>1
       DEF TrafficInv, TrafficOf, Untrafficked, StackRuns, Intent, At, Live, Deletable,
           Traffic
  <2>5. Retired(p)'
    BY <1>2, <2>1, SameRecordsSameStack DEF TrafficInv, TrafficOf, Retired, At, Live
  <2> QED
    BY <2>2, <2>3, <2>4, <2>5 DEF TrafficOf
<1>7. ASSUME NEW q \in Procs \ {p} PROVE TrafficOf(q)'
  BY <1>0, <1>1, TrafficBystander DEF TrafficInv
<1> QED
  BY <1>3, <1>5, <1>6, <1>7 DEF TrafficInv

\* Killing a process tears its promotion, if it has one, and nothing else.
LEMMA CrashTraffic ==
  ASSUME NEW p \in Procs, DeployInv, TrafficInv, Crash(p)
  PROVE  TrafficInv'
<1>0. /\ pc \in [Procs -> Labels] /\ cmd \in [Procs -> Command]
      /\ snap \in [Procs -> [conf: [Apps -> Route], routes: [Apps -> Route]]]
      /\ ~NoCommand.bg /\ cmd[p].app \in Apps
  BY DEF DeployInv, TypeOK, ProcsOK, NoCommand, Fresh, Command
<1>1. /\ pc' = [pc EXCEPT ![p] = "idle"]
      /\ cmd' = [cmd EXCEPT ![p] = NoCommand]
      /\ snap' = [snap EXCEPT ![p] = NoSnap]
      /\ torn' = IF pc[p] \in Promoting THEN torn \cup {cmd[p].app} ELSE torn
      /\ UNCHANGED <<files, docker, ingress>>
  BY DEF Crash, Exit
<1>2. OneEntry'
  BY <1>1 DEF TrafficInv, OneEntry, files
<1>3. RoutesMinted'
  BY <1>0, <1>1
     DEF TrafficInv, RoutesMinted, Traffic, docker, ingress, NoSnap, NoRoutes
<1>4. Settled'
  BY <1>0, <1>1, SettledFrame DEF TrafficInv, files
<1>5. TrafficOf(p)'
  <2>0. pc'[p] = "idle" /\ ~cmd'[p].bg
    BY <1>0, <1>1
  <2>1. SnapHolds(p)' /\ FilesFollow(p)' /\ WorkersFollow(p)' /\ Moved(p)'
    BY <2>0 DEF SnapHolds, FilesFollow, WorkersFollow, Moved, At, Switching, Promoting
  <2>2. Untrafficked(p)' /\ StackRuns(p)' /\ Intent(p)' /\ Retired(p)'
    BY <2>0 DEF Untrafficked, StackRuns, Intent, Retired, At, Running, Deploying,
                Undecided, Promoting
  <2> QED
    BY <2>1, <2>2 DEF TrafficOf
<1>6. ASSUME NEW q \in Procs \ {p} PROVE TrafficOf(q)'
  <2>1. ~HoldsRegistry(q) \/ pc[p] \notin Promoting
    BY DEF DeployInv, Mutex, HoldsRegistry, BeforeApp, Promoting
  <2> QED
    BY <1>0, <1>1, <2>1, TrafficBystander DEF TrafficInv
<1> QED
  BY <1>2, <1>3, <1>4, <1>5, <1>6 DEF TrafficInv

\* An operator who clears the journal of an app that no command works on.
LEMMA OperatorTraffic ==
  ASSUME NEW a \in Apps, DeployInv, TrafficInv, OperatorClears(a)
  PROVE  TrafficInv'
<1>1. /\ journal' = [journal EXCEPT ![a] = {}]
      /\ \A p \in Procs : ~(HoldsRegistry(p) /\ cmd[p].app = a)
      /\ UNCHANGED <<history, lockGen, docker, ingress, pc, cmd, snap, model>>
  BY DEF OperatorClears
<1>2. journal \in [Apps -> SUBSET Journal]
  BY DEF DeployInv, TypeOK, FilesOK
<1>3. OneEntry' /\ RoutesMinted'
  BY <1>1, <1>2 DEF TrafficInv, OneEntry, RoutesMinted, Traffic, docker, ingress
<1>4. Settled'
  BY <1>1, <1>2, SettledFrame DEF TrafficInv, model
<1>5. ASSUME NEW q \in Procs PROVE TrafficOf(q)'
  <2>1. CASE ~HoldsRegistry(q)
    BY <1>1, <2>1, TrafficBystander DEF TrafficInv
  <2>2. CASE HoldsRegistry(q)
    <3>1. /\ UNCHANGED <<history, runs, conf, routes, served, torn, pc, cmd, snap>>
          /\ Target(q)' = Target(q)
          /\ journal'[cmd[q].app] = journal[cmd[q].app]
      BY <1>1, <1>2, <2>2 DEF docker, ingress, model, Target
    <3>2. \A b \in Apps : Deletable(b)' \subseteq Deletable(b)
      BY <1>1, <1>2 DEF Deletable
    <3>3. SnapHolds(q)' /\ FilesFollow(q)' /\ Moved(q)'
      BY <3>1, <3>2 DEF TrafficInv, TrafficOf, SnapHolds, FilesFollow, Moved, At, Safe, Live
    <3>4. WorkersFollow(q)'
      BY <3>1 DEF TrafficInv, TrafficOf, WorkersFollow, Before, After
    <3>5. Untrafficked(q)' /\ StackRuns(q)' /\ Intent(q)'
      BY <3>1 DEF TrafficInv, TrafficOf, Untrafficked, StackRuns, Intent, At, Live,
                  Deletable, Traffic
    <3>6. Retired(q)'
      BY <3>1, SameRecordsSameStack DEF TrafficInv, TrafficOf, Retired, At, Live
    <3> QED
      BY <3>3, <3>4, <3>5, <3>6 DEF TrafficOf
  <2> QED
    BY <2>1, <2>2
<1> QED
  BY <1>3, <1>4, <1>5 DEF TrafficInv

\* The invariant holds initially.
LEMMA InitTraffic ==
  ASSUME Init
  PROVE  TrafficInv
<1>0. ~NoCommand.bg
  BY DEF NoCommand, Fresh
<1>1. OneEntry
  BY DEF Init, OneEntry
<1>2. Settled
  BY DEF Init, Settled, InSync, Safe, NoRoutes
<1>3. RoutesMinted
  BY DEF Init, RoutesMinted, Traffic, NoSnap, NoRoutes
<1>4. ASSUME NEW p \in Procs PROVE TrafficOf(p)
  <2>0. pc[p] = "idle" /\ ~cmd[p].bg
    BY <1>0 DEF Init
  <2>1. SnapHolds(p) /\ FilesFollow(p) /\ WorkersFollow(p) /\ Moved(p)
    BY <2>0 DEF SnapHolds, FilesFollow, WorkersFollow, Moved, At, Switching, Promoting
  <2>2. Untrafficked(p) /\ StackRuns(p) /\ Intent(p) /\ Retired(p)
    BY <2>0 DEF Untrafficked, StackRuns, Intent, Retired, At, Running, Deploying,
                Undecided, Promoting
  <2> QED
    BY <2>1, <2>2 DEF TrafficOf
<1> QED
  BY <1>1, <1>2, <1>3, <1>4 DEF TrafficInv

\* Every step of the system keeps it.
LEMMA NextTraffic ==
  ASSUME DeployInv, DeployInv', TrafficInv, [Next]_vars
  PROVE  TrafficInv'
<1>1. ASSUME NEW p \in Procs, Start(p) \/ Step(p) \/ Cancel(p) \/ Crash(p)
      PROVE  TrafficInv'
  BY <1>1, StartTraffic, StepTraffic, CancelTraffic, CrashTraffic
<1>2. ASSUME NEW a \in Apps, OperatorClears(a) PROVE TrafficInv'
  BY <1>2, OperatorTraffic
<1>3. CASE UNCHANGED vars
  <2>1. UNCHANGED <<files, docker, ingress, torn, pc, cmd, snap>>
    BY <1>3 DEF vars, model
  <2>2. OneEntry' /\ RoutesMinted'
    BY <2>1 DEF TrafficInv, OneEntry, RoutesMinted, Traffic, files, docker, ingress
  <2>3. Settled'
    BY <2>1, SettledFrame DEF TrafficInv, files
  <2>4. ASSUME NEW p \in Procs PROVE TrafficOf(p)'
    BY <2>1, TrafficBystander DEF TrafficInv
  <2> QED
    BY <2>2, <2>3, <2>4 DEF TrafficInv
<1> QED
  BY <1>1, <1>2, <1>3 DEF Next

\* Every behaviour keeps the invariant about traffic.
THEOREM TrafficInductive == Spec => []TrafficInv
<1>1. Init => TrafficInv
  BY InitTraffic
<1>2. DeployInv /\ DeployInv' /\ TrafficInv /\ [Next]_vars => TrafficInv'
  BY NextTraffic
<1> QED
  BY <1>1, <1>2, Inductive, PTL DEF Spec

-----------------------------------------------------------------------------
(* Traffic goes to stacks that run.                                        *)

\* An app whose promotion is not torn is routed to live stacks only.
LEMMA RoutedToLive ==
  ASSUME TypeOK, TrafficInv, NEW a \in Apps \ torn
  PROVE  Traffic(a) \subseteq Live(a)
<1>1. CASE InSync(a) /\ Safe(a, conf[a])
  BY <1>1 DEF InSync, Safe, Traffic
<1>2. CASE \E p \in Procs : pc[p] \in Promoting /\ cmd[p].app = a
  <2> PICK p \in Procs : pc[p] \in Promoting /\ cmd[p].app = a
    BY <1>2
  <2>1. SnapHolds(p) /\ FilesFollow(p) /\ WorkersFollow(p) /\ StackRuns(p)
    BY DEF TrafficInv, TrafficOf
  <2>2. Target(p) = NoStack \/ Target(p) \in Live(a)
    <3>1. pc[p] \in Running
      BY DEF Running, Deploying, Undecided, Promoting
    <3> QED
      BY <2>1, <3>1 DEF Target, StackRuns
  <2>3. CASE At(p, "mark_ingress")
    <3>1. conf[a] = Target(p) /\ routes[a] = Target(p)
      BY <2>1, <2>3 DEF FilesFollow, At
    <3>2. served[a] = After(p)
      BY <2>1, <2>3 DEF WorkersFollow, At
    <3> QED
      BY <2>2, <3>1, <3>2 DEF Traffic, After
  <2>4. CASE pc[p] \in Switching
    <3>1. /\ snap[p].conf[a] = snap[p].routes[a]
          /\ snap[p].conf[a] = NoStack \/ snap[p].conf[a] \in Live(a)
      BY <2>1, <2>4 DEF SnapHolds, Safe
    <3>2. {conf[a], routes[a]} \subseteq {snap[p].conf[a], snap[p].routes[a], Target(p)}
      BY <2>1, <2>4 DEF FilesFollow, Switching, At
    <3>3. served[a] \subseteq Before(p) \cup After(p)
      BY <2>1, <2>4 DEF WorkersFollow, Switching, Promoting
    <3> QED
      BY <2>2, <3>1, <3>2, <3>3 DEF Traffic, Before, After
  <2> QED
    BY <2>3, <2>4 DEF Switching, At
<1> QED
  BY <1>1, <1>2 DEF TrafficInv, Settled

\* Neither file and no nginx worker sends the traffic of an app to a stack that
\* does not exist, unless its own promotion was torn apart.
THEOREM RoutesAreLive == Spec => []RoutesLive
<1>1. DeployInv /\ TrafficInv => RoutesLive
  BY RoutedToLive DEF DeployInv, RoutesLive, Traffic
<1> QED
  BY <1>1, Inductive, TrafficInductive, PTL

\* Nothing but recovery deletes the stack that routes.json names.
THEOREM TrafficOutlivesStacks == Spec => OnlyRecoveryDropsTraffic
<1> DEFINE A == \A a \in Apps, s \in Stacks :
       Dies(a, s) /\ routes[a] = s /\ s \in served[a]
         => \E p \in Procs : At(p, "recover") /\ cmd[p].app = a
<1>1. DeployInv /\ TrafficInv /\ [Next]_vars => [A]_vars
  <2> SUFFICES ASSUME DeployInv, TrafficInv, Next, NEW a \in Apps, NEW s \in Stacks,
                      Dies(a, s), routes[a] = s
               PROVE  \E p \in Procs : At(p, "recover") /\ cmd[p].app = a
    OBVIOUS
  <2>1. ASSUME NEW p \in Procs, Step(p)
        PROVE  At(p, "recover") /\ cmd[p].app = a
    BY <2>1, RoutedStaysUp DEF DeployInv, TrafficInv, TrafficOf
  <2>2. ASSUME NEW p \in Procs, Start(p) \/ Cancel(p) \/ Crash(p)
        PROVE  FALSE
    BY <2>2 DEF Start, Cancel, Crash, docker, Dies
  <2>3. ASSUME NEW b \in Apps, OperatorClears(b)
        PROVE  FALSE
    BY <2>3 DEF OperatorClears, docker, Dies
  <2> QED
    BY <2>1, <2>2, <2>3 DEF Next
<1> QED
  BY <1>1, Inductive, TrafficInductive, PTL DEF Spec, OnlyRecoveryDropsTraffic

-----------------------------------------------------------------------------
(* The journal outlives the candidate it would clean up.                   *)

\* A step of a command that works on an app keeps the entry of a candidate that
\* runs, unless the command is a remove that deletes the app's state.
LEMMA EntryStays ==
  ASSUME NEW p \in Procs, TypeOK, ProcInv(p), OneEntry, Intent(p),
         NEW j \in journal[cmd[p].app], Unpromoted(j),
         runs'[cmd[p].app][j.stack] # Absent, Step(p)
  PROVE  (\E k \in journal'[cmd[p].app] : k.stack = j.stack) \/ At(p, "rm_state")
<1>0. /\ cmd[p].app \in Apps /\ journal \in [Apps -> SUBSET Journal]
      /\ j.stack \in Stacks /\ RemoveShape(p) /\ cmd[p].stack \in Stacks
  BY ProcessTypes DEF Journal, ProcInv
<1>00. cmd[p].op # "remove" /\ pc[p] \in Deploying =>
         j.stack = cmd[p].stack /\ j.bg = cmd[p].bg
  BY DEF Intent
<1> USE DEF files
<1>1. CASE Locking(p)
  BY <1>0, <1>1 DEF Locking, ReadPrevious, OpenLock, LockApp, LockRegistry
<1>2. CASE Recovery(p)
  <2>1. CASE RecoverClear(p)
    <3>1. j.stack \notin Live(cmd[p].app)
      BY <2>1 DEF RecoverClear, Intent, Deletable
    <3> QED
      BY <1>0, <3>1, <2>1 DEF RecoverClear, Live, docker
  <2>2. CASE RecoverInPlace(p)
    BY <1>0, <2>2 DEF RecoverInPlace, OneEntry, Idle, Unpromoted
  <2>3. CASE RecoverNothing(p) \/ RecoverCandidate(p)
    BY <1>0, <2>3 DEF RecoverNothing, RecoverCandidate
  <2> QED
    BY <1>2, <2>1, <2>2, <2>3 DEF Recovery
<1>3. CASE Rollout(p)
  <2>1. CASE Begin(p)
    BY <1>0, <2>1 DEF Begin, BeginAs, Intent
  <2>2. CASE MarkDeployed(p)
    <3>1. pc[p] = "mark_deployed" /\ Mark(p, "stack_deployed")
      BY <2>2 DEF MarkDeployed, At
    <3>2. j.stack = cmd[p].stack
      BY <1>0, <1>00, <3>1 DEF RemoveShape, RemoveLabels, Promoting, Deploying, Undecided
    <3> QED
      BY <1>0, <3>1, <3>2 DEF Mark
  <2>3. CASE \/ StackDeploy(p) \/ StackDeployFails(p) \/ Verify(p)
              \/ Converge(p) \/ RolloutFails(p) \/ CancelledBeforePromotion(p)
    BY <1>0, <2>3
       DEF StackDeploy, StackDeployFails, Verify, Converge, RolloutFails,
           CancelledBeforePromotion
  <2> QED
    BY <1>3, <2>1, <2>2, <2>3 DEF Rollout
<1>4. CASE TakeBack(p)
  <2>1. CASE Archive(p)
    <3>1. cmd[p].bg /\ j.stack = cmd[p].stack
      BY <1>0, <1>00, <2>1
         DEF Archive, At, RemoveShape, RemoveLabels, Deploying, Undecided,
             Unpromoted
    <3>2. j.stack \notin Live(cmd[p].app)
      BY <3>1, <2>1 DEF Archive, Intent
    <3> QED
      BY <1>0, <3>2, <2>1 DEF Archive, Live, docker
  <2>2. CASE \/ UndoCandidate(p) \/ UndoInPlace(p) \/ RecordFailure(p)
              \/ DropCandidate(p) \/ Unwind(p)
    BY <1>0, <2>2
       DEF UndoCandidate, UndoInPlace, RecordFailure, DropCandidate, Unwind
  <2> QED
    BY <1>4, <2>1, <2>2 DEF TakeBack
<1>5. CASE Ingress(p)
  BY <1>0, <1>5
     DEF Ingress, EnsureNetwork, NothingToRoute, WriteConf, WriteRoutes, Reload,
         ReloadFails, Certificates, NothingToRestore, Restore, RestoreFails,
         RestoreReload, RestoreReloadFails
<1>6. CASE Commit(p)
  <2>1. CASE MarkIngress(p)
    <3>1. pc[p] = "mark_ingress" /\ Mark(p, "ingress_reconciled")
      BY <2>1 DEF MarkIngress, At
    <3>2. j.stack = cmd[p].stack
      BY <1>0, <1>00, <3>1 DEF RemoveShape, RemoveLabels, Promoting, Deploying, Undecided
    <3> QED
      BY <1>0, <3>1, <3>2 DEF Mark
  <2>2. CASE MarkSaved(p)
    <3>1. pc[p] = "mark_saved" /\ Mark(p, "deployment_saved")
      BY <2>2 DEF MarkSaved, At
    <3>2. j.stack = cmd[p].stack
      BY <1>0, <1>00, <3>1 DEF RemoveShape, RemoveLabels, Promoting, Deploying, Undecided
    <3> QED
      BY <1>0, <3>1, <3>2 DEF Mark
  <2>3. CASE ClearJournal(p)
    <3>1. j.stage = "deployment_saved"
      BY <2>3 DEF ClearJournal, At, ProcInv, OwnsJournal, StagesAt
    <3> QED
      BY <3>1 DEF Unpromoted
  <2>4. CASE \/ MarkIngressFails(p) \/ SaveRecord(p) \/ SetLatest(p)
              \/ RemoveStale(p)
    BY <1>0, <2>4 DEF MarkIngressFails, SaveRecord, SetLatest, RemoveStale
  <2> QED
    BY <1>6, <2>1, <2>2, <2>3, <2>4 DEF Commit
<1>7. CASE Removal(p)
  <2>1. CASE RemoveState(p)
    BY <1>0, <2>1 DEF RemoveState
  <2>2. CASE RemoveStateFails(p)
    BY <1>0, <2>2 DEF RemoveStateFails
  <2>3. CASE RemoveStack(p)
    BY <1>0, <2>3 DEF RemoveStack
  <2> QED
    BY <1>7, <2>1, <2>2, <2>3 DEF Removal
<1>8. CASE Fails(p)
  BY <1>0, <1>8 DEF Fails
<1> QED
  BY <1>1, <1>2, <1>3, <1>4, <1>5, <1>6, <1>7, <1>8 DEF Step

\* The journal entry of an unpromoted candidate stays until the candidate is gone
\* or promoted; only Remove drops it earlier.
THEOREM IntentIsKept == Spec => IntentOutlivesCandidate
<1> DEFINE A == \A a \in Apps : \A j \in journal[a] :
       Unpromoted(j) /\ runs'[a][j.stack] # Absent
         => \/ \E k \in journal'[a] : k.stack = j.stack
            \/ \E p \in Procs : At(p, "rm_state") /\ cmd[p].app = a
<1>1. DeployInv /\ TrafficInv /\ [Next]_vars => [A]_vars
  <2> SUFFICES ASSUME DeployInv, TrafficInv, Next, NEW a \in Apps, NEW j \in journal[a],
                      Unpromoted(j), runs'[a][j.stack] # Absent
               PROVE  \/ \E k \in journal'[a] : k.stack = j.stack
                      \/ \E p \in Procs : At(p, "rm_state") /\ cmd[p].app = a
    OBVIOUS
  <2>1. ASSUME NEW p \in Procs, Step(p)
        PROVE  \/ \E k \in journal'[a] : k.stack = j.stack
               \/ At(p, "rm_state") /\ cmd[p].app = a
    <3>1. CASE a = cmd[p].app
      BY <2>1, <3>1, EntryStays DEF DeployInv, TrafficInv, TrafficOf
    <3>2. CASE a # cmd[p].app
      BY <2>1, <3>2, AppAlone DEF DeployInv
    <3> QED
      BY <3>1, <3>2
  <2>2. ASSUME NEW p \in Procs, Start(p) \/ Cancel(p) \/ Crash(p)
        PROVE  journal' = journal
    BY <2>2 DEF Start, Cancel, Crash, files
  <2>3. ASSUME NEW b \in Apps, OperatorClears(b)
        PROVE  j \in journal'[a]
    BY <2>3
       DEF OperatorClears, DeployInv, TypeOK, FilesOK, TrafficInv, OneEntry
  <2> QED
    BY <2>1, <2>2, <2>3 DEF Next
<1> QED
  BY <1>1, Inductive, TrafficInductive, PTL DEF Spec, IntentOutlivesCandidate

-----------------------------------------------------------------------------
(* Deploying implements the atomic promotion.                              *)

\* At the two last steps of a remove, and the apps that have one there.
Removing(p) == pc[p] \in {"rm_stack", "rm_state"}
Retiring    == {cmd[p].app : p \in {q \in Procs : pc[q] \in {"rm_stack", "rm_state"}}}

\* What a step of p does to the live stacks of its app and to the one on record:
\* an action of Promotion each, or nothing.
Unseen(a) ==
  Live(a)' = Live(a) /\ LatestStack(a)' = LatestStack(a)
Provisions(a) ==
  /\ \E s \in Stacks : Live(a)' = Live(a) \cup {s}
  /\ LatestStack(a)' = LatestStack(a)
Discards(a) ==
  /\ Live(a)' \subseteq Live(a)
  /\ LatestStack(a) \in Live(a) => LatestStack(a) \in Live(a)'
  /\ LatestStack(a)' = LatestStack(a)
Commits(a) ==
  Live(a)' = Live(a) /\ LatestStack(a)' \in Live(a)
Retires(a) ==
  /\ \E s \in Stacks :
       LatestStack(a) \in {s, NoStack} /\ Live(a)' = Live(a) \ {s}
  /\ LatestStack(a)' = LatestStack(a)
Forgets(a) ==
  /\ Live(a)' = Live(a)
  /\ LatestStack(a) \notin Live(a) /\ LatestStack(a)' \in Stacks \cup {NoStack}

\* When a removal starts and ends, and that it does one thing at a time.
Promotes(p, a) ==
  \/ ~Removing(p) /\ ~Removing(p)' /\ (Provisions(a) \/ Discards(a) \/ Commits(a))
  \/ ~Removing(p) /\ Removing(p)' /\ cmd'[p].app = a /\ Unseen(a)
  \/ Removing(p) /\ Removing(p)' /\ cmd'[p].app = a /\ Retires(a)
  \/ Removing(p) /\ ~Removing(p)' /\ (Unseen(a) \/ Forgets(a))

\* A step from which Docker and the records stay as they were.
LEMMA UnseenStep ==
  ASSUME NEW a, runs' = runs, history' = history
  PROVE  Unseen(a) /\ Discards(a)
<1>1. Live(a)' = Live(a)
  BY DEF Live
<1>2. LatestStack(a)' = LatestStack(a)
  BY SameRecordsSameStack
<1> QED
  BY <1>1, <1>2 DEF Unseen, Discards

\* Submitting a release gives the app a live stack.
LEMMA SubmitProvisions ==
  ASSUME NEW p \in Procs, NEW a \in Apps, a = cmd[p].app, TypeOK, cmd[p].rel \in Releases,
         Submit(p), history' = history
  PROVE  Provisions(a)
<1>1. /\ cmd[p].stack \in Stacks
      /\ runs \in [Apps -> [Stacks -> Workload]]
  BY ProcessTypes
<1>2. runs' = [runs EXCEPT ![a][cmd[p].stack] = cmd[p].rel]
  BY DEF Submit
<1>3. cmd[p].rel # Absent
  BY NamesAssumption
<1>4. Live(a)' = Live(a) \cup {cmd[p].stack}
  BY <1>1, <1>2, <1>3 DEF Live
<1> QED
  BY <1>1, <1>4, SameRecordsSameStack DEF Provisions

\* Deleting a stack that is not on record.
LEMMA DropDiscards ==
  ASSUME TypeOK, NEW a \in Apps, NEW s \in Stacks, s \notin Recorded(a),
         runs' = [runs EXCEPT ![a][s] = Absent], history' = history
  PROVE  Discards(a)
<1>1. runs \in [Apps -> [Stacks -> Workload]] /\ s # NoStack
  BY NamesAssumption DEF TypeOK, DockerOK, Stacks
<1>2. Live(a)' = Live(a) \ {s}
  BY <1>1 DEF Live
<1>3. LatestStack(a) # s
  BY <1>1, LatestIsRecorded DEF TypeOK
<1> QED
  BY <1>2, <1>3, SameRecordsSameStack DEF Discards

\* The stack of the last record is the one on record when that deploy succeeded.
LEMMA LastIsLatest ==
  ASSUME FilesOK, NEW a \in Apps, history[a] # <<>>, history[a][Len(history[a])].ok
  PROVE  LatestStack(a) = history[a][Len(history[a])].stack
<1> DEFINE n == Len(history[a])
           S == Successful(a)
<1>1. history[a] \in Seq(Record) /\ n \in Nat /\ n \in 1..n /\ DOMAIN history[a] = 1..n
  BY DEF FilesOK
<1>2. n \in S /\ S \in SUBSET (1..n)
  BY <1>1 DEF Successful
<1>3. Newest(S) \in S /\ \A j \in S : j <= Newest(S)
  <2> HIDE DEF n, S
  <2> QED
    BY <1>1, <1>2, NewestIsHighest
<1>4. Newest(S) = n
  BY <1>1, <1>2, <1>3
<1> QED
  BY <1>2, <1>4, LatestIsNewest

\* So the stack on record is a stack.
LEMMA LatestRange ==
  FilesOK => \A a \in Apps : LatestStack(a) \in Stacks \cup {NoStack}
BY LatestIsRecorded

\* The same after a step.
LEMMA LatestRangeNext ==
  FilesOK' => (\A a \in Apps : LatestStack(a) \in Stacks \cup {NoStack})'
BY LatestRange, PTL

\* What a step of a command means for its app.
LEMMA StepPromotes ==
  ASSUME NEW p \in Procs, NEW a \in Apps, a = cmd[p].app, TypeOK, TypeOK', ProcInv(p),
         UnpromotedUnrecorded, StackRuns(p), Retired(p), Step(p)
  PROVE  Promotes(p, a)
<1>0. /\ pc \in [Procs -> Labels] /\ cmd \in [Procs -> Command]
      /\ cmd[p].stack \in Stacks /\ Stable \in Stacks
      /\ runs \in [Apps -> [Stacks -> Workload]] /\ prior \in [Apps -> Workload]
      /\ FilesOK /\ FilesOK' /\ RemoveShape(p) /\ DeployShape(p)
  BY ProcessTypes DEF ProcInv, TypeOK, DockerOK
<1> USE DEF files, docker, At, Goto, Keep, Exit, Removing, Promotes
<1>1. CASE Locking(p)
  <2>1. Unseen(a) /\ Discards(a)
    BY <1>1, UnseenStep DEF Locking, ReadPrevious, OpenLock, LockApp, LockRegistry
  <2> QED
    BY <1>0, <2>1, <1>1 DEF Locking, ReadPrevious, OpenLock, LockApp, LockRegistry
<1>2. CASE Recovery(p)
  <2>1. CASE RecoverCandidate(p)
    <3>1. PICK j \in journal[a] :
            Unpromoted(j) /\ runs' = [runs EXCEPT ![a][j.stack] = Absent]
      BY <2>1 DEF RecoverCandidate
    <3>2. j.stack \in Stacks /\ j.stack \notin Recorded(a)
      BY <1>0, <3>1 DEF FilesOK, Journal, UnpromotedUnrecorded
    <3>3. Discards(a)
      BY <3>1, <3>2, <2>1, DropDiscards DEF RecoverCandidate
    <3> QED
      BY <1>0, <3>3, <2>1 DEF RecoverCandidate
  <2>2. CASE RecoverNothing(p) \/ RecoverClear(p) \/ RecoverInPlace(p)
    <3>1. Unseen(a) /\ Discards(a)
      BY <2>2, UnseenStep DEF RecoverNothing, RecoverClear, RecoverInPlace
    <3> QED
      BY <1>0, <3>1, <2>2 DEF RecoverNothing, RecoverClear, RecoverInPlace
  <2> QED
    BY <1>2, <2>1, <2>2 DEF Recovery
<1>3. CASE Rollout(p)
  <2>1. CASE Begin(p)
    <3>1. Discards(a)
      BY <2>1, UnseenStep DEF Begin, BeginAs
    <3> QED
      BY <1>0, <3>1, <2>1 DEF Begin, BeginAs
  <2>2. CASE StackDeploy(p)
    <3>1. cmd[p].rel \in Releases
      BY <1>0, <2>2 DEF StackDeploy, RemoveShape, RemoveLabels, DeployShape, Undecided

    <3>2. Provisions(a)
      BY <3>1, <2>2, SubmitProvisions DEF StackDeploy
    <3> QED
      BY <1>0, <3>2, <2>2 DEF StackDeploy
  <2>3. CASE StackDeployFails(p)
    <3>1. cmd[p].rel \in Releases
      BY <1>0, <2>3 DEF StackDeployFails, RemoveShape, RemoveLabels, DeployShape, Undecided

    <3>2. Provisions(a) \/ Discards(a)
      BY <3>1, <2>3, SubmitProvisions, UnseenStep DEF StackDeployFails
    <3> QED
      BY <1>0, <3>2, <2>3 DEF StackDeployFails
  <2>4. CASE RolloutFails(p)
    <3>1. CASE SwarmRollsBack(p)
      <4>1. Live(a)' = Live(a) \cup {Stable}
        BY <1>0, <3>1 DEF SwarmRollsBack, Live
      <4>2. Provisions(a)
        BY <1>0, <4>1, <2>4, SameRecordsSameStack DEF RolloutFails, Provisions
      <4> QED
        BY <1>0, <4>2, <2>4 DEF RolloutFails
    <3>2. CASE UNCHANGED runs
      <4>1. Discards(a)
        BY <3>2, <2>4, UnseenStep DEF RolloutFails
      <4> QED
        BY <1>0, <4>1, <2>4 DEF RolloutFails
    <3> QED
      BY <3>1, <3>2, <2>4 DEF RolloutFails
  <2>5. CASE \/ MarkDeployed(p) \/ Verify(p) \/ Converge(p)
              \/ CancelledBeforePromotion(p)
    <3>1. Unseen(a) /\ Discards(a)
      BY <2>5, UnseenStep
         DEF MarkDeployed, Verify, Converge, CancelledBeforePromotion
    <3> QED
      BY <1>0, <3>1, <2>5
         DEF MarkDeployed, Verify, Converge, CancelledBeforePromotion
  <2> QED
    BY <1>3, <2>1, <2>2, <2>3, <2>4, <2>5 DEF Rollout
<1>4. CASE TakeBack(p)
  <2>1. CASE UndoCandidate(p)
    <3>1. cmd[p].stack \notin Recorded(a)
      BY <2>1 DEF UndoCandidate, ProcInv, CandidateUnrecorded, Undecided
    <3>2. Discards(a)
      BY <1>0, <3>1, <2>1, DropDiscards DEF UndoCandidate
    <3> QED
      BY <1>0, <3>2, <2>1 DEF UndoCandidate
  <2>2. CASE UndoInPlace(p)
    <3>1. Live(a)' = Live(a)
      BY <1>0, NamesAssumption, <2>2 DEF UndoInPlace, Live
    <3>2. Discards(a)
      BY <3>1, <2>2, SameRecordsSameStack DEF UndoInPlace, Discards
    <3> QED
      BY <1>0, <3>2, <2>2 DEF UndoInPlace
  <2>3. CASE RecordFailure(p)
    <3>1. cmd[p].rel \in Releases
      BY <1>0, <2>3
         DEF RecordFailure, RemoveShape, RemoveLabels, DeployShape, Undecided,
             Promoting
    <3> DEFINE e == [stack |-> cmd[p].stack, rel |-> cmd[p].rel, ok |-> FALSE]
    <3>2. e \in Record /\ history'[a] = Append(history[a], e) /\ ~e.ok
      BY <1>0, <3>1, <2>3 DEF RecordFailure, Record, FilesOK
    <3>3. LatestStack(a)' = LatestStack(a)
      <4> HIDE DEF e
      <4> QED
        BY <1>0, <3>2, AppendedRecord
    <3>4. Discards(a)
      BY <3>3, <2>3 DEF RecordFailure, Discards, Live
    <3> QED
      BY <1>0, <3>4, <2>3 DEF RecordFailure
  <2>4. CASE DropCandidate(p)
    <3>1. CASE cmd[p].bg
      <4>1. cmd[p].stack \notin Recorded(a)
        BY <3>1, <2>4 DEF DropCandidate, ProcInv, CandidateUnrecorded, Undecided
      <4>2. Discards(a)
        BY <1>0, <3>1, <4>1, <2>4, DropDiscards DEF DropCandidate
      <4> QED
        BY <1>0, <4>2, <2>4 DEF DropCandidate
    <3>2. CASE ~cmd[p].bg
      <4>1. Discards(a)
        BY <3>2, <2>4, UnseenStep DEF DropCandidate
      <4> QED
        BY <1>0, <4>1, <2>4 DEF DropCandidate
    <3> QED
      BY <3>1, <3>2
  <2>5. CASE Archive(p) \/ Unwind(p)
    <3>1. Unseen(a) /\ Discards(a)
      BY <2>5, UnseenStep DEF Archive, Unwind
    <3> QED
      BY <1>0, <3>1, <2>5 DEF Archive, Unwind
  <2> QED
    BY <1>4, <2>1, <2>2, <2>3, <2>4, <2>5 DEF TakeBack
<1>5. CASE Ingress(p)
  <2>1. Unseen(a) /\ Discards(a)
    BY <1>5, UnseenStep
       DEF Ingress, EnsureNetwork, NothingToRoute, WriteConf, WriteRoutes, Reload,
           ReloadFails, Certificates, NothingToRestore, Restore, RestoreFails,
           RestoreReload, RestoreReloadFails
  <2> QED
    BY <1>0, <2>1, <1>5
       DEF Ingress, EnsureNetwork, NothingToRoute, WriteConf, WriteRoutes, Reload,
           ReloadFails, Certificates, NothingToRestore, Restore, RestoreFails,
           RestoreReload, RestoreReloadFails, AfterIngress, AfterError
<1>6. CASE Commit(p)
  <2>1. CASE SaveRecord(p)
    <3>1. pc[p] = "save_record" /\ cmd[p].op # "remove" /\ cmd[p].rel \in Releases
      BY <1>0, <2>1
         DEF SaveRecord, RemoveShape, RemoveLabels, DeployShape, Undecided,
             Promoting
    <3> DEFINE e == [stack |-> cmd[p].stack, rel |-> cmd[p].rel, ok |-> TRUE]
    <3>2. /\ e \in Record /\ history'[a] = Append(history[a], e)
          /\ e.ok /\ e.stack = cmd[p].stack
      BY <1>0, <3>1, <2>1 DEF SaveRecord, Record, FilesOK
    <3>3. LatestStack(a)' = cmd[p].stack
      <4> HIDE DEF e
      <4> QED
        BY <1>0, <3>2, AppendedRecord
    <3>4. cmd[p].stack \in Live(a)
      BY <3>1 DEF StackRuns, Running, Deploying, Undecided
    <3>5. Commits(a)
      BY <3>3, <3>4, <2>1 DEF SaveRecord, Commits, Live
    <3> QED
      BY <1>0, <3>5, <2>1 DEF SaveRecord
  <2>2. CASE RemoveStale(p)
    <3>1. LatestStack(a) = cmd[p].stack
      BY <1>0, <2>2, LastIsLatest DEF RemoveStale, ProcInv, NewestIsMine
    <3>2. PICK gone \in SUBSET (Live(cmd[p].app) \ {cmd[p].stack}) :
            runs' = [runs EXCEPT ![cmd[p].app] =
                       [s \in Stacks |-> IF s \in gone THEN Absent ELSE runs[cmd[p].app][s]]]
      BY <2>2 DEF RemoveStale
    <3>3. Live(a)' = Live(a) \ gone
      BY <1>0, <3>2 DEF Live
    <3>4. Discards(a)
      BY <3>1, <3>2, <3>3, <2>2, SameRecordsSameStack DEF RemoveStale, Discards
    <3> QED
      BY <1>0, <3>4, <2>2 DEF RemoveStale
  <2>3. CASE \/ MarkIngress(p) \/ MarkIngressFails(p) \/ MarkSaved(p)
              \/ SetLatest(p) \/ ClearJournal(p)
    <3>1. Unseen(a) /\ Discards(a)
      BY <2>3, UnseenStep
         DEF MarkIngress, MarkIngressFails, MarkSaved, SetLatest, ClearJournal
    <3> QED
      BY <1>0, <3>1, <2>3
         DEF MarkIngress, MarkIngressFails, MarkSaved, SetLatest, ClearJournal
  <2> QED
    BY <1>6, <2>1, <2>2, <2>3 DEF Commit
<1>7. CASE Removal(p)
  <2>1. CASE RemoveStack(p)
    <3> DEFINE stack == IF LatestStack(a) = NoStack THEN Stable ELSE LatestStack(a)
    <3>1. stack \in Stacks /\ LatestStack(a) \in {stack, NoStack}
      BY <1>0, LatestIsRecorded
    <3>2. runs' = [runs EXCEPT ![a][stack] = Absent]
      BY <2>1 DEF RemoveStack
    <3>3. Live(a)' = Live(a) \ {stack}
      <4> HIDE DEF stack
      <4> QED
        BY <1>0, <3>1, <3>2 DEF Live
    <3>4. Retires(a)
      <4> HIDE DEF stack
      <4> QED
        BY <3>1, <3>3, <2>1, SameRecordsSameStack DEF RemoveStack, Retires
    <3> QED
      BY <1>0, <3>4, <2>1 DEF RemoveStack
  <2>2. CASE RemoveState(p)
    <3>1. LatestStack(a) \notin Live(a)
      BY <2>2 DEF RemoveState, Retired
    <3>2. LatestStack(a)' \in Stacks \cup {NoStack}
      BY <1>0, LatestRangeNext
    <3>3. Forgets(a)
      BY <3>1, <3>2, <2>2 DEF RemoveState, Forgets, Live
    <3> QED
      BY <1>0, <3>3, <2>2 DEF RemoveState
  <2>3. CASE RemoveStateFails(p)
    <3>1. LatestStack(a) \notin Live(a)
      BY <2>3 DEF RemoveStateFails, Retired
    <3>2. LatestStack(a)' \in Stacks \cup {NoStack}
      BY <1>0, LatestRangeNext
    <3>3. Forgets(a)
      BY <3>1, <3>2, <2>3 DEF RemoveStateFails, Forgets, Live
    <3> QED
      BY <1>0, <3>3, <2>3 DEF RemoveStateFails
  <2> QED
    BY <1>7, <2>1, <2>2, <2>3 DEF Removal
<1>8. CASE Fails(p)
  <2>1. Unseen(a) /\ Discards(a)
    BY <1>8, UnseenStep DEF Fails
  <2>2. ~Removing(p)'
    BY <1>0, <1>8 DEF Fails, OnError, AfterError, Returns
  <2> QED
    BY <2>1, <2>2
<1> QED
  BY <1>1, <1>2, <1>3, <1>4, <1>5, <1>6, <1>7, <1>8 DEF Step

\* The apps that are being removed: that of the holder of registry.lock, if its
\* command is a remove that has got that far.
LEMMA RetiringNow ==
  ASSUME Mutex, NEW p \in Procs, HoldsRegistry(p)
  PROVE  Retiring = IF Removing(p) THEN {cmd[p].app} ELSE {}
<1>1. ASSUME NEW q \in Procs, Removing(q) PROVE q = p
  BY <1>1 DEF Removing, Mutex, HoldsRegistry, BeforeApp
<1> QED
  BY <1>1 DEF Retiring, Removing

\* After a step of the holder, the same of its next state.
LEMMA RetiringNext ==
  ASSUME Mutex, NEW p \in Procs, HoldsRegistry(p),
         \A q \in Procs \ {p} : pc'[q] = pc[q] /\ cmd'[q] = cmd[q]
  PROVE  Retiring' = IF Removing(p)' THEN {cmd'[p].app} ELSE {}
<1>1. ASSUME NEW q \in Procs, Removing(q)' PROVE q = p
  BY <1>1 DEF Removing, Mutex, HoldsRegistry, BeforeApp
<1> QED
  BY <1>1 DEF Retiring, Removing

\* A step of a process that is not removing leaves the others' removals alone.
LEMMA RetiringOutside ==
  ASSUME NEW p \in Procs, ~Removing(p),
         \A q \in Procs \ {p} : pc'[q] = pc[q] /\ cmd'[q] = cmd[q]
  PROVE  Retiring' = IF Removing(p)' THEN Retiring \cup {cmd'[p].app} ELSE Retiring
BY DEF Retiring, Removing

\* Every step of a command is a step of Promotion for its app, or none.
LEMMA StepRefines ==
  ASSUME NEW p \in Procs, DeployInv, DeployInv', TrafficInv, Step(p)
  PROVE  Abstract!Next \/ UNCHANGED Abstract!vars
<1> PICK a \in Apps : a = cmd[p].app
  BY ProcessTypes DEF DeployInv
<1> DEFINE L == [b \in Apps |-> Live(b)]
           C == [b \in Apps |-> LatestStack(b)]
<1>1. \A q \in Procs \ {p} : pc'[q] = pc[q] /\ cmd'[q] = cmd[q]
  BY Others DEF DeployInv, TypeOK
<1>2. \A b \in Apps \ {a} : Live(b)' = Live(b) /\ LatestStack(b)' = LatestStack(b)
  BY AppAlone, SameRecordsSameStack DEF DeployInv, Live
<1>3. Promotes(p, a)
  BY StepPromotes DEF DeployInv, TrafficInv, TrafficOf
<1>4. /\ L[a] = Live(a) /\ L' = [L EXCEPT ![a] = Live(a)']
      /\ C[a] = LatestStack(a) /\ C' = [C EXCEPT ![a] = LatestStack(a)']
  BY <1>2
<1> HIDE DEF L, C
<1>5. Live(a)' = Live(a) => L' = L
  <2>1. L' = [L EXCEPT ![a] = L[a]] => L' = L
    BY DEF L
  <2> QED
    BY <1>4, <2>1
<1>6. LatestStack(a)' = LatestStack(a) => C' = C
  <2>1. C' = [C EXCEPT ![a] = C[a]] => C' = C
    BY DEF C
  <2> QED
    BY <1>4, <2>1
<1>7. CASE ~HoldsRegistry(p)
  <2>1. ~Removing(p)
    BY <1>7 DEF Removing, HoldsRegistry, BeforeApp
  <2>2. UNCHANGED <<runs, history>>
    BY <1>7, NoLockNoEffect DEF DeployInv, TypeOK, files, docker
  <2>3. L' = L /\ C' = C
    BY <1>5, <1>6, <2>2, UnseenStep DEF Unseen
  <2>4. CASE ~Removing(p)'
    BY <1>1, <2>1, <2>3, <2>4, RetiringOutside DEF Abstract!vars, L, C, Retiring
  <2>5. CASE Removing(p)'
    <3>1. cmd'[p].app = a
      BY <1>3, <2>1, <2>5 DEF Promotes
    <3>2. Retiring' = Retiring \cup {a}
      BY <1>1, <2>1, <2>5, <3>1, RetiringOutside
    <3>3. Abstract!StartRemoval(a)
      BY <2>3, <3>2 DEF Abstract!StartRemoval, L, C, Retiring
    <3> QED
      BY <3>3 DEF Abstract!Next
  <2> QED
    BY <2>4, <2>5
<1>8. CASE HoldsRegistry(p)
  <2>1. Retiring = IF Removing(p) THEN {a} ELSE {}
    BY <1>8, RetiringNow DEF DeployInv
  <2>2. Retiring' = IF Removing(p)' THEN {cmd'[p].app} ELSE {}
    BY <1>1, <1>8, RetiringNext DEF DeployInv
  <2>3. CASE ~Removing(p) /\ ~Removing(p)'
    <3>0. Retiring = {} /\ Retiring' = Retiring
      BY <2>1, <2>2, <2>3
    <3>1. CASE Provisions(a)
      <4> PICK s \in Stacks : Live(a)' = Live(a) \cup {s}
        BY <3>1 DEF Provisions
      <4>1. L' = [L EXCEPT ![a] = @ \cup {s}] /\ C' = C
        BY <1>4, <1>6, <3>1 DEF Provisions
      <4>2. Abstract!Provision(a, s)
        BY <3>0, <4>1 DEF Abstract!Provision, L, C, Retiring
      <4> QED
        BY <4>2 DEF Abstract!Next
    <3>2. CASE Discards(a)
      <4>1. C' = C /\ Live(a)' \in SUBSET L[a] /\ (C[a] \in L[a] => C[a] \in Live(a)')
        BY <1>4, <1>6, <3>2 DEF Discards
      <4>2. \E kept \in SUBSET L[a] :
              (C[a] \in L[a] => C[a] \in kept) /\ L' = [L EXCEPT ![a] = kept]
        BY <1>4, <4>1
      <4>3. Abstract!Discard(a)
        BY <3>0, <4>1, <4>2 DEF Abstract!Discard, L, C, Retiring
      <4> QED
        BY <4>3 DEF Abstract!Next
    <3>3. CASE Commits(a)
      <4>1. LatestStack(a)' \in Stacks /\ LatestStack(a)' \in L[a] /\ L' = L
        BY <1>4, <1>5, <3>3 DEF Commits, Live
      <4> PICK s \in Stacks : s = LatestStack(a)'
        BY <4>1
      <4>2. C' = [C EXCEPT ![a] = s] /\ s \in L[a]
        BY <1>4, <4>1
      <4>3. Abstract!Commit(a, s)
        BY <3>0, <4>1, <4>2 DEF Abstract!Commit, L, C, Retiring
      <4> QED
        BY <4>3 DEF Abstract!Next
    <3> QED
      BY <1>3, <2>3, <3>1, <3>2, <3>3 DEF Promotes
  <2>4. CASE ~Removing(p) /\ Removing(p)'
    <3>1. Unseen(a) /\ cmd'[p].app = a
      BY <1>3, <2>4 DEF Promotes
    <3>2. L' = L /\ C' = C /\ Retiring' = Retiring \cup {a}
      BY <1>5, <1>6, <2>1, <2>2, <2>4, <3>1 DEF Unseen
    <3>3. Abstract!StartRemoval(a)
      BY <3>2 DEF Abstract!StartRemoval, L, C, Retiring
    <3> QED
      BY <3>3 DEF Abstract!Next
  <2>5. CASE Removing(p) /\ Removing(p)'
    <3>1. Retires(a) /\ cmd'[p].app = a
      BY <1>3, <2>5 DEF Promotes
    <3>2. /\ C' = C /\ Retiring' = Retiring /\ a \in Retiring
          /\ \E s \in Stacks : C[a] \in {s, NoStack} /\ L' = [L EXCEPT ![a] = @ \ {s}]
      BY <1>4, <1>6, <2>1, <2>2, <2>5, <3>1 DEF Retires
    <3>3. Abstract!Retire(a)
      BY <3>2 DEF Abstract!Retire, L, C, Retiring
    <3> QED
      BY <3>3 DEF Abstract!Next
  <2>6. CASE Removing(p) /\ ~Removing(p)'
    <3>1. Unseen(a) \/ Forgets(a)
      BY <1>3, <2>6 DEF Promotes
    <3>2. /\ L' = L /\ Retiring' = Retiring \ {a}
          /\ \/ C' = C
             \/ C[a] \notin L[a] /\ \E s \in Stacks \cup {NoStack} : C' = [C EXCEPT ![a] = s]
      BY <1>4, <1>5, <1>6, <2>1, <2>2, <2>6, <3>1 DEF Unseen, Forgets
    <3>3. Abstract!EndRemoval(a)
      BY <3>2 DEF Abstract!EndRemoval, L, C, Retiring
    <3> QED
      BY <3>3 DEF Abstract!Next
  <2> QED
    BY <2>3, <2>4, <2>5, <2>6
<1> QED
  BY <1>7, <1>8

\* Starting, cancelling and killing commands changes no stack and no record.
LEMMA OutsideRefines ==
  ASSUME NEW p \in Procs, DeployInv, Start(p) \/ Cancel(p) \/ Crash(p)
  PROVE  Abstract!Next \/ UNCHANGED Abstract!vars
<1> DEFINE L == [b \in Apps |-> Live(b)]
           C == [b \in Apps |-> LatestStack(b)]
<1>0. /\ pc \in [Procs -> Labels] /\ cmd \in [Procs -> Command] /\ cmd[p] \in Command
      /\ cmd[p].app \in Apps
  BY ProcessTypes DEF DeployInv
<1>1. UNCHANGED <<runs, history>>
  BY DEF Start, Cancel, Crash, files, docker
<1>2. L' = L /\ C' = C
  BY <1>1, UnseenStep DEF Unseen
<1> HIDE DEF L, C
<1>3. \A q \in Procs \ {p} : pc'[q] = pc[q] /\ cmd'[q] = cmd[q]
  BY <1>0 DEF Start, Cancel, Crash, Goto, Exit
<1>4. CASE Cancel(p)
  <2>1. /\ pc' = pc /\ cmd' = [cmd EXCEPT ![p].cancelled = TRUE]
    BY <1>4 DEF Cancel
  <2>2. cmd'[p].app = cmd[p].app
    BY <1>0, <2>1 DEF Command
  <2>3. \A q \in Procs : cmd'[q].app = cmd[q].app
    BY <1>3, <2>2
  <2>4. Retiring' = Retiring
    BY <2>1, <2>3 DEF Retiring
  <2> QED
    BY <1>2, <2>4 DEF Abstract!vars, L, C, Retiring
<1>5. CASE ~Removing(p) /\ (Start(p) \/ Crash(p))
  <2>1. ~Removing(p)'
    BY <1>0, <1>5 DEF Start, Crash, Goto, Exit, Removing
  <2>2. Retiring' = Retiring
    BY <1>3, <1>5, <2>1, RetiringOutside
  <2> QED
    BY <1>2, <2>2 DEF Abstract!vars, L, C, Retiring
<1>6. CASE Removing(p) /\ (Start(p) \/ Crash(p))
  <2>1. ~Removing(p)' /\ HoldsRegistry(p)
    BY <1>0, <1>6 DEF Start, At, Crash, Exit, Removing, HoldsRegistry, BeforeApp
  <2>2. Retiring' = Retiring \ {cmd[p].app}
    BY <1>3, <1>6, <2>1, RetiringNow, RetiringNext DEF DeployInv
  <2> PICK a \in Apps : a = cmd[p].app
    BY <1>0
  <2>3. Abstract!EndRemoval(a)
    BY <1>2, <2>2 DEF Abstract!EndRemoval, L, C, Retiring
  <2> QED
    BY <2>3 DEF Abstract!Next
<1> QED
  BY <1>4, <1>5, <1>6

\* Deploy implements Promotion: the stack on record is replaced in one step by one
\* that runs, and is given up by Remove only.
THEOREM DeployIsPromotion == Spec => DeployRefines
<1>1. Init => Abstract!Init
  <2> SUFFICES ASSUME Init PROVE Abstract!Init
    OBVIOUS
  <2>1. \A a \in Apps : Live(a) = {} /\ Successful(a) = {}
    BY DEF Init, Live, Successful
  <2>2. \A a \in Apps : LatestStack(a) = NoStack
    BY <2>1 DEF LatestStack
  <2>3. {q \in Procs : pc[q] \in {"rm_stack", "rm_state"}} = {}
    BY DEF Init
  <2> QED
    BY <2>1, <2>2, <2>3 DEF Abstract!Init
<1>2. DeployInv /\ DeployInv' /\ TrafficInv /\ [Next]_vars
        => [Abstract!Next]_(Abstract!vars)
  <2> SUFFICES ASSUME DeployInv, DeployInv', TrafficInv, [Next]_vars
               PROVE  Abstract!Next \/ UNCHANGED Abstract!vars
    OBVIOUS
  <2>1. ASSUME NEW p \in Procs, Step(p) PROVE Abstract!Next \/ UNCHANGED Abstract!vars
    BY <2>1, StepRefines
  <2>2. ASSUME NEW p \in Procs, Start(p) \/ Cancel(p) \/ Crash(p)
        PROVE  Abstract!Next \/ UNCHANGED Abstract!vars
    BY <2>2, OutsideRefines
  <2>3. ASSUME (\E a \in Apps : OperatorClears(a)) \/ UNCHANGED vars
        PROVE  UNCHANGED Abstract!vars
    <3>1. UNCHANGED <<runs, history, pc, cmd>>
      BY <2>3 DEF OperatorClears, vars, files, docker
    <3>2. \A a \in Apps : Live(a)' = Live(a) /\ LatestStack(a)' = LatestStack(a)
      BY <3>1, UnseenStep DEF Unseen
    <3> QED
      BY <3>1, <3>2 DEF Abstract!vars
  <2> QED
    BY <2>1, <2>2, <2>3 DEF Next
<1> QED
  BY <1>1, <1>2, Inductive, TrafficInductive, PTL DEF Spec, DeployRefines, Abstract!Spec
-----------------------------------------------------------------------------
(* How far the promises go that recovery and Remove do not keep.           *)

\* A step that touches the stacks leaves the routes alone.
LEMMA StacksOrRoutes ==
  ASSUME NEW p \in Procs, Step(p), runs' # runs
  PROVE  UNCHANGED <<conf, routes, served, torn>>
<1> USE DEF files, docker, ingress, model
<1>1. CASE Locking(p)
  BY <1>1 DEF Locking, ReadPrevious, OpenLock, LockApp, LockRegistry
<1>2. CASE Recovery(p)
  BY <1>2 DEF Recovery, RecoverNothing, RecoverCandidate, RecoverClear, RecoverInPlace
<1>3. CASE Rollout(p)
  BY <1>3 DEF Rollout, Begin, BeginAs, StackDeploy, StackDeployFails, MarkDeployed, Verify,
              Converge, RolloutFails, CancelledBeforePromotion
<1>4. CASE TakeBack(p)
  BY <1>4 DEF TakeBack, UndoCandidate, UndoInPlace, Archive, RecordFailure, DropCandidate, Unwind
<1>5. CASE Ingress(p)
  BY <1>5
     DEF Ingress, EnsureNetwork, NothingToRoute, WriteConf, WriteRoutes, Reload,
         ReloadFails, Certificates, NothingToRestore, Restore, RestoreFails,
         RestoreReload, RestoreReloadFails
<1>6. CASE Commit(p)
  BY <1>6
     DEF Commit, MarkIngress, MarkIngressFails, SaveRecord, MarkSaved, SetLatest,
         RemoveStale, ClearJournal
<1>7. CASE Removal(p)
  BY <1>7 DEF Removal, RemoveStack, RemoveState, RemoveStateFails
<1>8. CASE Fails(p)
  BY <1>8 DEF Fails
<1> QED
  BY <1>1, <1>2, <1>3, <1>4, <1>5, <1>6, <1>7, <1>8 DEF Step

\* Nobody, recovery included, deletes a stack that a file or a worker names for an app
\* whose promotion has not been torn apart.
UntornTrafficStays ==
  [][\A a \in Apps \ torn, s \in Stacks : Dies(a, s) => s \notin Traffic(a)]_vars

\* Crashes, cancellations and failures of every other step included: only the torn
\* promotion, which RecoveryRemovesOnlyUnpromoted is refuted with, costs traffic.
THEOREM TrafficIsSafeUnlessTorn == Spec => UntornTrafficStays
<1> DEFINE A == \A a \in Apps \ torn, s \in Stacks : Dies(a, s) => s \notin Traffic(a)
<1>1. RoutesLive' /\ [Next]_vars => [A]_vars
  <2> SUFFICES ASSUME RoutesLive', Next, NEW a \in Apps \ torn, NEW s \in Stacks, Dies(a, s)
               PROVE  s \notin Traffic(a)
    OBVIOUS
  <2>1. runs' # runs /\ s \notin Live(a)'
    BY DEF Dies, Live
  <2>2. UNCHANGED <<conf, routes, served, torn>>
    <3>1. ASSUME NEW p \in Procs, Start(p) \/ Cancel(p) \/ Crash(p)
          PROVE  FALSE
      BY <2>1, <3>1 DEF Start, Cancel, Crash, docker
    <3>2. ASSUME NEW b \in Apps, OperatorClears(b)
          PROVE  FALSE
      BY <2>1, <3>2 DEF OperatorClears, docker
    <3> QED
      BY <2>1, <3>1, <3>2, StacksOrRoutes DEF Next
  <2> QED
    BY <2>1, <2>2 DEF RoutesLive, Traffic
<1> QED
  BY <1>1, RoutesAreLive, PTL DEF Spec, UntornTrafficStays

\* Only the deletion of the stack comes before that of the state.
LEMMA ToRemoval ==
  ASSUME NEW p \in Procs, pc \in [Procs -> Labels], Step(p), pc'[p] = "rm_state"
  PROVE  pc[p] = "rm_stack" /\ UNCHANGED <<ingress, cmd>>
<1> USE DEF At, Goto, Exit, Keep
<1>1. CASE Locking(p)
  BY <1>1 DEF Locking, ReadPrevious, OpenLock, LockApp, LockRegistry
<1>2. CASE Recovery(p)
  BY <1>2 DEF Recovery, RecoverNothing, RecoverCandidate, RecoverClear, RecoverInPlace
<1>3. CASE Rollout(p)
  BY <1>3 DEF Rollout, Begin, BeginAs, StackDeploy, StackDeployFails, MarkDeployed, Verify,
              Converge, RolloutFails, CancelledBeforePromotion
<1>4. CASE TakeBack(p)
  BY <1>4 DEF TakeBack, UndoCandidate, UndoInPlace, Archive, RecordFailure, DropCandidate, Unwind
<1>5. CASE Ingress(p)
  BY <1>5
     DEF Ingress, EnsureNetwork, NothingToRoute, WriteConf, WriteRoutes, Reload,
         ReloadFails, Certificates, NothingToRestore, Restore, RestoreFails,
         RestoreReload, RestoreReloadFails, AfterIngress, AfterError
<1>6. CASE Commit(p)
  BY <1>6
     DEF Commit, MarkIngress, MarkIngressFails, SaveRecord, MarkSaved, SetLatest,
         RemoveStale, ClearJournal
<1>7. CASE Removal(p)
  BY <1>7 DEF Removal, RemoveStack, RemoveState, RemoveStateFails
<1>8. CASE Fails(p)
  BY <1>8 DEF Fails, OnError, AfterError
<1> QED
  BY <1>1, <1>2, <1>3, <1>4, <1>5, <1>6, <1>7, <1>8 DEF Step

\* A remove that deletes the app's state has taken its route away.
RouteRemoved == \A p \in Procs : At(p, "rm_state") => routes[cmd[p].app] = NoStack

LEMMA RouteStaysRemoved ==
  ASSUME DeployInv, TrafficInv, RouteRemoved, [Next]_vars
  PROVE  RouteRemoved'
<1> SUFFICES ASSUME NEW q \in Procs, At(q, "rm_state")'
             PROVE  routes'[cmd'[q].app] = NoStack
  BY DEF RouteRemoved
<1> USE DEF At
<1>0. ProcsOK /\ Mutex /\ pc \in [Procs -> Labels] /\ cmd \in [Procs -> Command]
  BY DEF DeployInv, TypeOK, ProcsOK
<1>1. ASSUME NEW p \in Procs \ {q}, Step(p)
      PROVE  routes'[cmd'[q].app] = NoStack
  <2>1. pc[q] = "rm_state" /\ cmd'[q] = cmd[q]
    BY <1>0, <1>1, Others
  <2>2. ~HoldsRegistry(p)
    BY <1>0, <2>1, NobodyElse DEF HoldsRegistry, BeforeApp
  <2> QED
    BY <1>0, <1>1, <2>1, <2>2, NoLockNoEffect DEF ingress, RouteRemoved
<1>2. CASE Step(q)
  <2>1. pc[q] = "rm_stack" /\ UNCHANGED <<ingress, cmd>>
    BY <1>0, <1>2, ToRemoval
  <2> QED
    BY <2>1 DEF TrafficInv, TrafficOf, Moved, ingress
<1>3. ASSUME NEW p \in Procs, Start(p) \/ Cancel(p) \/ Crash(p)
      PROVE  routes'[cmd'[q].app] = NoStack
  <2>1. CASE Start(p)
    BY <1>0, <2>1 DEF Start, Goto, RouteRemoved, ingress
  <2>2. CASE Cancel(p)
    BY <1>0, <2>2 DEF Cancel, RouteRemoved, ingress
  <2>3. CASE Crash(p)
    BY <1>0, <2>3 DEF Crash, Exit, RouteRemoved, ingress
  <2> QED
    BY <1>3, <2>1, <2>2, <2>3
<1>4. CASE UNCHANGED vars
  BY <1>4 DEF vars, ingress, RouteRemoved
<1>5. ASSUME NEW a \in Apps, OperatorClears(a)
      PROVE  routes'[cmd'[q].app] = NoStack
  BY <1>5 DEF OperatorClears, ingress, RouteRemoved
<1> QED
  BY <1>1, <1>2, <1>3, <1>4, <1>5 DEF Next

\* A remove that deletes the state of an app whose promotion was not torn apart leaves
\* its name in no file and no worker, so that stacks it leaves behind serve nobody.
RemovedHasNoTraffic ==
  [](\A p \in Procs : At(p, "rm_state") /\ cmd[p].app \notin torn => Traffic(cmd[p].app) = {})

THEOREM RemovalLeavesNoTraffic == Spec => RemovedHasNoTraffic
<1>1. Init => RouteRemoved
  BY DEF Init, RouteRemoved, At
<1>2. DeployInv /\ TrafficInv /\ RouteRemoved /\ [Next]_vars => RouteRemoved'
  BY RouteStaysRemoved
<1>3. ASSUME DeployInv, TrafficInv, RouteRemoved, NEW p \in Procs, At(p, "rm_state"),
             cmd[p].app \notin torn
      PROVE  Traffic(cmd[p].app) = {}
  <2>1. cmd[p].app \in Apps /\ HoldsRegistry(p) /\ pc[p] \notin Promoting /\ Mutex
    BY <1>3, ProcessTypes DEF DeployInv, At, HoldsRegistry, BeforeApp, Promoting
  <2>2. \A q \in Procs : pc[q] \notin Promoting
    BY <2>1, NobodyElse
  <2>3. InSync(cmd[p].app)
    BY <1>3, <2>1, <2>2 DEF TrafficInv, Settled
  <2> QED
    BY <1>3, <2>3 DEF InSync, RouteRemoved, Traffic
<1> DEFINE N == \A p \in Procs : At(p, "rm_state") /\ cmd[p].app \notin torn => Traffic(cmd[p].app) = {}
<1>4. DeployInv /\ TrafficInv /\ RouteRemoved => N
  BY <1>3
<1> QED
  BY <1>1, <1>2, <1>4, Inductive, TrafficInductive, PTL DEF Spec, RemovedHasNoTraffic

-----------------------------------------------------------------------------
(* Every command is short.                                                 *)

\* The labels in the order in which a command may pass them, counted from the end.
LabelRank(l) ==
  CASE l = "unwind" -> 3 [] l = "drop" -> 4 [] l = "record_failure" -> 5
    [] l = "archive" -> 6 [] l = "undo" -> 7 [] l = "rm_state" -> 8
    [] l = "rm_stack" -> 9 [] l = "clear" -> 10 [] l = "stale" -> 11
    [] l = "set_latest" -> 12 [] l = "mark_saved" -> 13 [] l = "save_record" -> 14
    [] l = "mark_ingress" -> 15 [] l = "restore_reload" -> 16 [] l = "restore" -> 17
    [] l = "reload_tls" -> 18 [] l = "certs" -> 19 [] l = "reload" -> 20
    [] l = "write_routes" -> 21 [] l = "write_conf" -> 22 [] l = "network" -> 23
    [] l = "converge" -> 24 [] l = "verify" -> 25 [] l = "mark_deployed" -> 26
    [] l = "stack_deploy" -> 27 [] l = "begin" -> 28 [] l = "recover_clear" -> 29
    [] l = "recover" -> 30 [] l = "wait_registry" -> 31 [] l = "wait_app" -> 32
    [] l = "open" -> 33 [] l = "previous" -> 34
    [] OTHER -> 0

\* Steps that a command has left at most; the recovery of a cancelled deploy ends in
\* the return, that of a failed one in its record.
StepsLeft(p) ==
  IF cmd[p].unwinding /\ pc[p] \in {"undo", "archive"}
    THEN IF pc[p] = "undo" THEN 2 ELSE 1
    ELSE LabelRank(pc[p])

LEMMA EveryStepCounts ==
  ASSUME NEW p \in Procs, TypeOK, Step(p)
  PROVE  StepsLeft(p)' < StepsLeft(p)
<1> USE DEF At, Goto, Exit, Keep, StepsLeft, LabelRank
<1>0. /\ pc \in [Procs -> Labels] /\ cmd \in [Procs -> Command]
      /\ cmd[p] \in Command /\ cmd[p].unwinding \in BOOLEAN
  BY DEF TypeOK, ProcsOK, Command
<1>1. CASE Locking(p)
  BY <1>0, <1>1 DEF Locking, ReadPrevious, OpenLock, LockApp, LockRegistry
<1>2. CASE Recovery(p)
  BY <1>0, <1>2 DEF Recovery, RecoverNothing, RecoverCandidate, RecoverClear, RecoverInPlace
<1>3. CASE Rollout(p)
  <2>1. CASE Begin(p)
    BY <1>0, <2>1 DEF Begin, BeginAs
  <2>2. CASE StackDeploy(p) \/ StackDeployFails(p) \/ MarkDeployed(p)
    BY <1>0, <2>2 DEF StackDeploy, StackDeployFails, MarkDeployed
  <2>3. CASE Verify(p) \/ Converge(p) \/ RolloutFails(p) \/ CancelledBeforePromotion(p)
    BY <1>0, <2>3 DEF Verify, Converge, RolloutFails, CancelledBeforePromotion
  <2> QED
    BY <1>3, <2>1, <2>2, <2>3 DEF Rollout
<1>4. CASE TakeBack(p)
  <2>1. CASE UndoCandidate(p) \/ UndoInPlace(p)
    BY <1>0, <2>1 DEF UndoCandidate, UndoInPlace
  <2>2. CASE Archive(p)
    BY <1>0, <2>2 DEF Archive
  <2>3. CASE RecordFailure(p) \/ DropCandidate(p)
    BY <1>0, <2>3 DEF RecordFailure, DropCandidate
  <2>4. CASE Unwind(p)
    <3>1. CASE cmd[p].cancelled /\ ~cmd[p].promoting
      <4>1. pc[p] = "unwind" /\ pc'[p] = "undo" /\ cmd'[p].unwinding
        BY <1>0, <2>4, <3>1 DEF Unwind, Command
      <4> QED
        BY <4>1
    <3>2. CASE ~(cmd[p].cancelled /\ ~cmd[p].promoting)
      <4>1. pc[p] = "unwind" /\ pc'[p] = "idle"
        BY <1>0, <2>4, <3>2 DEF Unwind, Labels
      <4> QED
        BY <4>1
    <3> QED
      BY <3>1, <3>2
  <2> QED
    BY <1>4, <2>1, <2>2, <2>3, <2>4 DEF TakeBack
<1>5. CASE Ingress(p)
  <2>1. CASE EnsureNetwork(p) \/ NothingToRoute(p) \/ WriteConf(p) \/ WriteRoutes(p)
    BY <1>0, <2>1 DEF EnsureNetwork, NothingToRoute, WriteConf, WriteRoutes, AfterIngress
  <2>2. CASE Reload(p) \/ ReloadFails(p) \/ Certificates(p)
    BY <1>0, <2>2 DEF Reload, ReloadFails, Certificates, AfterIngress
  <2>3. CASE NothingToRestore(p) \/ Restore(p) \/ RestoreFails(p)
    BY <1>0, <2>3 DEF NothingToRestore, Restore, RestoreFails, AfterError
  <2>4. CASE RestoreReload(p) \/ RestoreReloadFails(p)
    BY <1>0, <2>4 DEF RestoreReload, RestoreReloadFails, AfterError
  <2> QED
    BY <1>5, <2>1, <2>2, <2>3, <2>4 DEF Ingress
<1>6. CASE Commit(p)
  <2>1. CASE MarkIngress(p) \/ MarkIngressFails(p) \/ SaveRecord(p) \/ MarkSaved(p)
    BY <1>0, <2>1 DEF MarkIngress, MarkIngressFails, SaveRecord, MarkSaved
  <2>2. CASE SetLatest(p) \/ RemoveStale(p) \/ ClearJournal(p)
    BY <1>0, <2>2 DEF SetLatest, RemoveStale, ClearJournal
  <2> QED
    BY <1>6, <2>1, <2>2 DEF Commit
<1>7. CASE Removal(p)
  BY <1>0, <1>7 DEF Removal, RemoveStack, RemoveState, RemoveStateFails
<1>8. CASE Fails(p)
  <2>1. CASE OnError(p) = "idle"
    BY <1>0, <1>8, <2>1 DEF Fails, Labels
  <2>2. CASE OnError(p) # "idle"
    BY <1>0, <1>8, <2>2 DEF Fails, OnError, AfterError, Returns
  <2> QED
    BY <2>1, <2>2
<1> QED
  BY <1>1, <1>2, <1>3, <1>4, <1>5, <1>6, <1>7, <1>8 DEF Step

\* Every step of a command, whatever failed before and whether it is cancelled, brings
\* it closer to its return, and no step of another takes it back: after 34 steps of its
\* own it has returned.
ReturnComesCloser ==
  [][\A p \in Procs : /\ Step(p) => StepsLeft(p)' < StepsLeft(p)
                      /\ pc[p] # "idle" => StepsLeft(p)' <= StepsLeft(p)]_vars

THEOREM CommandsAreShort == Spec => ReturnComesCloser
<1> DEFINE C == \A p \in Procs : /\ Step(p) => StepsLeft(p)' < StepsLeft(p)
                                 /\ pc[p] # "idle" => StepsLeft(p)' <= StepsLeft(p)
<1>1. DeployInv /\ [Next]_vars => [C]_vars
  <2> SUFFICES ASSUME DeployInv, Next, NEW p \in Procs
               PROVE  /\ Step(p) => StepsLeft(p)' < StepsLeft(p)
                      /\ pc[p] # "idle" => StepsLeft(p)' <= StepsLeft(p)
    OBVIOUS
  <2>0. /\ TypeOK /\ ProcsOK /\ pc \in [Procs -> Labels] /\ cmd \in [Procs -> Command]
        /\ cmd[p].unwinding \in BOOLEAN
    BY DEF DeployInv, TypeOK, ProcsOK, Command
  <2>1. Step(p) => StepsLeft(p)' < StepsLeft(p)
    BY <2>0, EveryStepCounts
  <2>2. StepsLeft(p) \in Nat /\ StepsLeft(p)' \in Nat
    BY DEF StepsLeft, LabelRank
  <2>3. ASSUME pc'[p] = pc[p], cmd'[p].unwinding = cmd[p].unwinding
        PROVE  StepsLeft(p)' = StepsLeft(p)
    BY <2>3 DEF StepsLeft
  <2>4. ASSUME pc'[p] = "idle"
        PROVE  StepsLeft(p)' = 0
    BY <2>4 DEF StepsLeft, LabelRank
  <2>5. ASSUME NEW q \in Procs \ {p}, Step(q)
        PROVE  StepsLeft(p)' <= StepsLeft(p)
    BY <2>0, <2>2, <2>3, <2>5, Others
  <2>6. ASSUME NEW q \in Procs, Start(q), pc[p] # "idle"
        PROVE  StepsLeft(p)' <= StepsLeft(p)
    BY <2>0, <2>2, <2>3, <2>6 DEF Start, Goto, At
  <2>7. ASSUME NEW q \in Procs, Cancel(q)
        PROVE  StepsLeft(p)' <= StepsLeft(p)
    BY <2>0, <2>2, <2>3, <2>7 DEF Cancel, Command
  <2>8. ASSUME NEW q \in Procs, Crash(q)
        PROVE  StepsLeft(p)' <= StepsLeft(p)
    BY <2>0, <2>2, <2>3, <2>4, <2>8 DEF Crash, Exit
  <2>9. ASSUME NEW a \in Apps, OperatorClears(a)
        PROVE  StepsLeft(p)' <= StepsLeft(p)
    BY <2>2, <2>3, <2>9 DEF OperatorClears
  <2> QED
    BY <2>1, <2>2, <2>5, <2>6, <2>7, <2>8, <2>9 DEF Next
<1> QED
  BY <1>1, Inductive, PTL DEF Spec, ReturnComesCloser
=============================================================================
