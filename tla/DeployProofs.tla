---------------------------- MODULE DeployProofs ----------------------------
(***************************************************************************)
(* Proofs about Deploy for every number of apps, processes, releases,      *)
(* stacks, commands and crashes.  DeployInv is inductive: a step of a       *)
(* process disturbs its own part of it (ProcInv), which the lemmas take     *)
(* conjunct by conjunct; the other processes are bystanders, because only   *)
(* the holder of registry.lock touches shared state.                       *)
(***************************************************************************)
EXTENDS DeployProperties, SequenceTheorems, TLAPS

\* The locals of an idle process, and of a fresh command, are well typed.
LEMMA NoCommandType == NoCommand \in Command
<1>1. (CHOOSE a \in Apps : TRUE) \in Apps
  BY NamesAssumption
<1> QED
  BY <1>1, BoundsAssumption DEF NoCommand, Fresh, Command, Stacks, Stable, Workload

LEMMA FreshType ==
  ASSUME NEW op \in Ops, NEW a \in Apps
  PROVE  Fresh(op, a) \in Command
  BY BoundsAssumption, NamesAssumption DEF Fresh, Command, Stacks, Stable, Workload

\* Assigning one local of a command, or those Begin assigns, keeps its type.
LEMMA CommandUpdates ==
  ASSUME NEW c \in Command
  PROVE  /\ \A g \in Nat : [c EXCEPT !.gen = g] \in Command
         /\ \A r \in Releases : [c EXCEPT !.rel = r] \in Command
         /\ \A w \in Workload : [c EXCEPT !.was = w] \in Command
         /\ \A b \in BOOLEAN : /\ [c EXCEPT !.promoting = b] \in Command
                                /\ [c EXCEPT !.recovered = b] \in Command
                                /\ [c EXCEPT !.unwinding = b] \in Command
                                /\ [c EXCEPT !.cancelled = b] \in Command
         /\ \A r \in Releases, m \in Modes, b \in BOOLEAN, s \in Stacks :
              [c EXCEPT !.rel = r, !.mode = m, !.bg = b, !.stack = s] \in Command
  BY NamesAssumption DEF Command

-----------------------------------------------------------------------------
(* Types: each group of variables in turn.                                 *)

\* A step goes to a label.
LEMMA PcTyped ==
  ASSUME NEW p \in Procs, ProcsOK, Step(p)
  PROVE  pc' \in [Procs -> Labels]
<1> USE DEF ProcsOK, Goto, Exit, At, Labels
<1>1. CASE Locking(p)
  BY <1>1 DEF Locking, ReadPrevious, OpenLock, LockApp, LockRegistry
<1>2. CASE Recovery(p)
  BY <1>2
     DEF Recovery, RecoverNothing, RecoverCandidate, RecoverClear,
         RecoverInPlace
<1>3. CASE Rollout(p)
  BY <1>3, ZenonT(30)
     DEF Rollout, Begin, StackDeploy, StackDeployFails, MarkDeployed, Verify,
         Converge, RolloutFails, CancelledBeforePromotion, BeginAs
<1>4. CASE TakeBack(p)
  BY <1>4
     DEF TakeBack, UndoCandidate, UndoInPlace, Archive, RecordFailure,
         DropCandidate, Unwind
<1>5. CASE Ingress(p)
  BY <1>5, ZenonT(30)
     DEF Ingress, EnsureNetwork, NothingToRoute, WriteConf, WriteRoutes,
         Reload, ReloadFails, Certificates, NothingToRestore, Restore,
         RestoreFails, RestoreReload, RestoreReloadFails, AfterIngress,
         AfterError
<1>6. CASE Commit(p)
  BY <1>6
     DEF Commit, MarkIngress, MarkIngressFails, SaveRecord, MarkSaved,
         SetLatest, RemoveStale, ClearJournal
<1>7. CASE Removal(p)
  BY <1>7 DEF Removal, RemoveStack, RemoveState, RemoveStateFails
<1>8. CASE Fails(p)
  BY <1>8, ZenonT(30) DEF Fails, OnError, AfterError, Returns
<1> QED
  BY <1>1, <1>2, <1>3, <1>4, <1>5, <1>6, <1>7, <1>8 DEF Step

\* The locals keep their types.
LEMMA CmdTyped ==
  ASSUME NEW p \in Procs, TypeOK, Step(p)
  PROVE  cmd' \in [Procs -> Command]
<1>0. /\ cmd \in [Procs -> Command]
      /\ cmd[p] \in Command
      /\ cmd[p].app \in Apps
      /\ NoCommand \in Command
  BY NoCommandType DEF TypeOK, ProcsOK, Command
<1> USE DEF Exit, Keep
<1>1. CASE Locking(p)
  <2>1. CASE ReadPrevious(p)
    <3>1. PICK i \in DOMAIN history[cmd[p].app] :
            cmd' = [cmd EXCEPT ![p].rel = history[cmd[p].app][i].rel]
      BY <2>1 DEF ReadPrevious, IsPrevious, Successful
    <3>2. history[cmd[p].app][i] \in Record
      BY <1>0, LenProperties, ElementOfSeq DEF TypeOK, FilesOK
    <3>3. [cmd[p] EXCEPT !.rel = history[cmd[p].app][i].rel] \in Command
      BY <1>0, <3>2, CommandUpdates DEF Record
    <3> QED
      BY <1>0, <3>1, <3>3
  <2>2. CASE OpenLock(p)
    <3>1. [cmd[p] EXCEPT !.gen = lockGen[cmd[p].app]] \in Command
      BY <1>0, CommandUpdates DEF TypeOK, FilesOK
    <3> QED
      BY <1>0, <3>1, <2>2 DEF OpenLock
  <2>3. CASE LockApp(p) \/ LockRegistry(p)
    BY <1>0, <2>3 DEF LockApp, LockRegistry
  <2> QED
    BY <1>1, <2>1, <2>2, <2>3 DEF Locking
<1>2. CASE Recovery(p)
  BY <1>0, <1>2
     DEF Recovery, RecoverNothing, RecoverCandidate, RecoverClear,
         RecoverInPlace
<1>3. CASE Rollout(p)
  <2>1. CASE Begin(p)
    <3>1. PICK rel \in Releases, mode \in Modes, bg \in BOOLEAN, stack \in Stacks :
            BeginAs(p, rel, mode, bg, stack)
      BY <2>1 DEF Begin
    <3>2. [cmd[p] EXCEPT !.rel = rel, !.mode = mode, !.bg = bg, !.stack = stack]
            \in Command
      BY <1>0, CommandUpdates
    <3> QED
      BY <1>0, <3>1, <3>2 DEF BeginAs
  <2>2. CASE StackDeploy(p)
    <3>1. runs[cmd[p].app][cmd[p].stack] \in Workload
      BY <1>0 DEF TypeOK, DockerOK, Command
    <3>2. [cmd[p] EXCEPT !.was = runs[cmd[p].app][cmd[p].stack]] \in Command
      BY <1>0, <3>1, CommandUpdates
    <3> QED
      BY <1>0, <3>2, <2>2 DEF StackDeploy, Observe
  <2>3. CASE StackDeployFails(p)
    <3>1. runs[cmd[p].app][cmd[p].stack] \in Workload
      BY <1>0 DEF TypeOK, DockerOK, Command
    <3>2. [cmd[p] EXCEPT !.was = runs[cmd[p].app][cmd[p].stack]] \in Command
      BY <1>0, <3>1, CommandUpdates
    <3> QED
      BY <1>0, <3>2, <2>3 DEF StackDeployFails, Observe
  <2>4. CASE Converge(p)
    <3>1. [cmd[p] EXCEPT !.promoting = TRUE] \in Command
      BY <1>0, CommandUpdates
    <3> QED
      BY <1>0, <3>1, <2>4 DEF Converge
  <2>5. CASE \/ MarkDeployed(p) \/ Verify(p) \/ RolloutFails(p)
             \/ CancelledBeforePromotion(p)
    BY <1>0, <2>5
       DEF MarkDeployed, Verify, RolloutFails, CancelledBeforePromotion
  <2> QED
    BY <1>3, <2>1, <2>2, <2>3, <2>4, <2>5 DEF Rollout
<1>4. CASE TakeBack(p)
  <2>1. CASE Archive(p)
    <3>1. [cmd[p] EXCEPT !.recovered = (journal[cmd[p].app] # {})] \in Command
      BY <1>0, CommandUpdates
    <3> QED
      BY <1>0, <3>1, <2>1 DEF Archive
  <2>2. CASE Unwind(p)
    <3>1. [cmd[p] EXCEPT !.unwinding = TRUE] \in Command
      BY <1>0, CommandUpdates
    <3> QED
      BY <1>0, <3>1, <2>2 DEF Unwind
  <2>3. CASE UndoCandidate(p) \/ UndoInPlace(p) \/ RecordFailure(p) \/ DropCandidate(p)
    BY <1>0, <2>3 DEF UndoCandidate, UndoInPlace, RecordFailure, DropCandidate
  <2> QED
    BY <1>4, <2>1, <2>2, <2>3 DEF TakeBack
<1>5. CASE Ingress(p)
  BY <1>0, <1>5
     DEF Ingress, EnsureNetwork, NothingToRoute, WriteConf, WriteRoutes,
         Reload, ReloadFails, Certificates, NothingToRestore, Restore,
         RestoreFails, RestoreReload, RestoreReloadFails
<1>6. CASE Commit(p)
  BY <1>0, <1>6
     DEF Commit, MarkIngress, MarkIngressFails, SaveRecord, MarkSaved,
         SetLatest, RemoveStale, ClearJournal
<1>7. CASE Removal(p)
  BY <1>0, <1>7 DEF Removal, RemoveStack, RemoveState, RemoveStateFails
<1>8. CASE Fails(p)
  BY <1>0, <1>8 DEF Fails, OnError
<1> QED
  BY <1>1, <1>2, <1>3, <1>4, <1>5, <1>6, <1>7, <1>8 DEF Step

\* A snapshot of the two ingress files has their types.
LEMMA SnapTyped ==
  ASSUME NEW p \in Procs, TypeOK, Step(p)
  PROVE  snap' \in [Procs -> [conf: [Apps -> Route], routes: [Apps -> Route]]]
<1> USE DEF Exit, Keep
<1> DEFINE S == [conf: [Apps -> Route], routes: [Apps -> Route]]
<1>0. /\ snap \in [Procs -> S] /\ NoSnap \in S
      /\ [conf |-> conf, routes |-> routes] \in S
  BY DEF TypeOK, ProcsOK, IngressOK, NoSnap, NoRoutes, Route
<1> HIDE DEF S
<1> SUFFICES snap' \in [Procs -> S]
  BY DEF S
<1>1. CASE Locking(p)
  BY <1>0, <1>1 DEF Locking, ReadPrevious, OpenLock, LockApp, LockRegistry
<1>2. CASE Recovery(p)
  BY <1>0, <1>2
     DEF Recovery, RecoverNothing, RecoverCandidate, RecoverClear,
         RecoverInPlace
<1>3. CASE Rollout(p)
  <2>1. CASE Begin(p)
    BY <1>0, <2>1 DEF Begin, BeginAs
  <2>2. CASE \/ StackDeploy(p) \/ StackDeployFails(p) \/ MarkDeployed(p)
             \/ Verify(p) \/ Converge(p) \/ RolloutFails(p)
             \/ CancelledBeforePromotion(p)
    BY <1>0, <2>2
       DEF StackDeploy, StackDeployFails, MarkDeployed, Verify, Converge,
           RolloutFails, CancelledBeforePromotion
  <2> QED
    BY <1>3, <2>1, <2>2 DEF Rollout
<1>4. CASE TakeBack(p)
  BY <1>0, <1>4
     DEF TakeBack, UndoCandidate, UndoInPlace, Archive, RecordFailure,
         DropCandidate, Unwind
<1>5. CASE Ingress(p)
  <2>1. CASE WriteConf(p)
    BY <1>0, <2>1 DEF WriteConf
  <2>2. CASE \/ EnsureNetwork(p) \/ NothingToRoute(p) \/ WriteRoutes(p)
             \/ Reload(p) \/ ReloadFails(p) \/ Certificates(p)
             \/ NothingToRestore(p) \/ Restore(p) \/ RestoreFails(p)
             \/ RestoreReload(p) \/ RestoreReloadFails(p)
    BY <1>0, <2>2
       DEF EnsureNetwork, NothingToRoute, WriteRoutes, Reload, ReloadFails,
           Certificates, NothingToRestore, Restore, RestoreFails,
           RestoreReload, RestoreReloadFails
  <2> QED
    BY <1>5, <2>1, <2>2 DEF Ingress
<1>6. CASE Commit(p)
  <2>1. CASE ClearJournal(p)
    BY <1>0, <2>1 DEF ClearJournal
  <2>2. CASE \/ MarkIngress(p) \/ MarkIngressFails(p) \/ SaveRecord(p)
             \/ MarkSaved(p) \/ SetLatest(p) \/ RemoveStale(p)
    BY <1>0, <2>2
       DEF MarkIngress, MarkIngressFails, SaveRecord, MarkSaved, SetLatest,
           RemoveStale
  <2> QED
    BY <1>6, <2>1, <2>2 DEF Commit
<1>7. CASE Removal(p)
  BY <1>0, <1>7 DEF Removal, RemoveStack, RemoveState, RemoveStateFails
<1>8. CASE Fails(p)
  BY <1>0, <1>8 DEF Fails
<1> QED
  BY <1>1, <1>2, <1>3, <1>4, <1>5, <1>6, <1>7, <1>8 DEF Step

\* The files keep their types: only a deploy that has a release writes a record.
LEMMA FilesTyped ==
  ASSUME NEW p \in Procs, TypeOK, DeployShape(p), RemoveShape(p), Step(p)
  PROVE  FilesOK'
<1>0. cmd[p].app \in Apps /\ cmd[p].stack \in Stacks /\ cmd[p].bg \in BOOLEAN
  BY DEF TypeOK, ProcsOK, Command
<1> USE DEF TypeOK, FilesOK, files
<1>1. CASE Locking(p)
  BY <1>0, <1>1 DEF Locking, ReadPrevious, OpenLock, LockApp, LockRegistry
<1>2. CASE Recovery(p)
  BY <1>0, <1>2
     DEF Recovery, RecoverNothing, RecoverCandidate, RecoverClear,
         RecoverInPlace
<1>3. CASE Rollout(p)
  <2>1. CASE Begin(p)
    <3>1. PICK rel \in Releases, mode \in Modes, bg \in BOOLEAN, stack \in Stacks :
            BeginAs(p, rel, mode, bg, stack)
      BY <2>1 DEF Begin
    <3> QED
      BY <1>0, <3>1 DEF BeginAs, Journal, Stages
  <2>2. CASE MarkDeployed(p)
    BY <1>0, <2>2 DEF MarkDeployed, Mark, Journal, Stages
  <2>3. CASE \/ StackDeploy(p) \/ StackDeployFails(p) \/ Verify(p) \/ Converge(p)
             \/ RolloutFails(p) \/ CancelledBeforePromotion(p)
    BY <1>0, <2>3
       DEF StackDeploy, StackDeployFails, Verify, Converge, RolloutFails,
           CancelledBeforePromotion
  <2> QED
    BY <1>3, <2>1, <2>2, <2>3 DEF Rollout
<1>4. CASE TakeBack(p)
  <2>1. CASE RecordFailure(p)
    <3>1. cmd[p].rel \in Releases
      BY <2>1
         DEF RecordFailure, At, DeployShape, RemoveShape, Undecided, RemoveLabels
    <3>2. [stack |-> cmd[p].stack, rel |-> cmd[p].rel, ok |-> FALSE] \in Record
      BY <1>0, <3>1 DEF Record
    <3> QED
      BY <1>0, <3>2, <2>1, AppendProperties DEF RecordFailure
  <2>2. CASE \/ UndoCandidate(p) \/ UndoInPlace(p) \/ Archive(p)
             \/ DropCandidate(p) \/ Unwind(p)
    BY <1>0, <2>2
       DEF UndoCandidate, UndoInPlace, Archive, DropCandidate, Unwind
  <2> QED
    BY <1>4, <2>1, <2>2 DEF TakeBack
<1>5. CASE Ingress(p)
  BY <1>0, <1>5
     DEF Ingress, EnsureNetwork, NothingToRoute, WriteConf, WriteRoutes,
         Reload, ReloadFails, Certificates, NothingToRestore, Restore,
         RestoreFails, RestoreReload, RestoreReloadFails
<1>6. CASE Commit(p)
  <2>1. CASE MarkIngress(p)
    BY <1>0, <2>1 DEF MarkIngress, Mark, Journal, Stages
  <2>2. CASE SaveRecord(p)
    <3>1. cmd[p].rel \in Releases
      BY <2>2 DEF SaveRecord, At, DeployShape, RemoveShape, Undecided, RemoveLabels
    <3>2. [stack |-> cmd[p].stack, rel |-> cmd[p].rel, ok |-> TRUE] \in Record
      BY <1>0, <3>1 DEF Record
    <3> QED
      BY <1>0, <3>2, <2>2, AppendProperties DEF SaveRecord
  <2>3. CASE MarkSaved(p)
    BY <1>0, <2>3 DEF MarkSaved, Mark, Journal, Stages
  <2>4. CASE MarkIngressFails(p) \/ SetLatest(p) \/ RemoveStale(p) \/ ClearJournal(p)
    BY <1>0, <2>4 DEF MarkIngressFails, SetLatest, RemoveStale, ClearJournal
  <2> QED
    BY <1>6, <2>1, <2>2, <2>3, <2>4 DEF Commit
<1>7. CASE Removal(p)
  <2>1. CASE RemoveState(p)
    <3>1. <<>> \in Seq(Record)
      OBVIOUS
    <3> QED
      BY <1>0, <3>1, <2>1 DEF RemoveState
  <2>2. CASE RemoveStateFails(p)
    <3>1. PICK m, n \in 0..Len(history[cmd[p].app]) :
            history' = [history EXCEPT ![cmd[p].app] =
                          SubSeq(history[cmd[p].app], m + 1, n)]
      BY <2>2 DEF RemoveStateFails
    <3>2. history[cmd[p].app] \in Seq(Record)
      BY <1>0
    <3>3. \A i \in m + 1 .. n : history[cmd[p].app][i] \in Record
      BY <3>2, LenProperties, ElementOfSeq
    <3>4. SubSeq(history[cmd[p].app], m + 1, n) \in Seq(Record)
      BY <3>3, SubSeqProperties
    <3>5. history' \in [Apps -> Seq(Record)]
      BY <1>0, <3>1, <3>4
    <3>6. /\ journal' \in {journal, [journal EXCEPT ![cmd[p].app] = {}]}
          /\ lockGen' \in {lockGen, [lockGen EXCEPT ![cmd[p].app] = @ + 1]}
      BY <2>2 DEF RemoveStateFails
    <3>7. journal' \in [Apps -> SUBSET Journal]
      BY <1>0, <3>6
    <3>8. [lockGen EXCEPT ![cmd[p].app] = @ + 1] \in [Apps -> Nat]
      BY <1>0
    <3> QED
      BY <3>5, <3>6, <3>7, <3>8
  <2>3. CASE RemoveStack(p)
    BY <1>0, <2>3 DEF RemoveStack
  <2> QED
    BY <1>7, <2>1, <2>2, <2>3 DEF Removal
<1>8. CASE Fails(p)
  BY <1>0, <1>8 DEF Fails
<1> QED
  BY <1>1, <1>2, <1>3, <1>4, <1>5, <1>6, <1>7, <1>8 DEF Step

\* A stack runs a release, nothing, or a service scaled to zero.
LEMMA DockerTyped ==
  ASSUME NEW p \in Procs, TypeOK, DeployShape(p), RemoveShape(p), Step(p)
  PROVE  DockerOK'
<1>0. /\ cmd[p].app \in Apps /\ cmd[p].stack \in Stacks
      /\ cmd[p].bg \in BOOLEAN /\ cmd[p].was \in Workload
      /\ Stable \in Stacks /\ {Absent, Stopped} \subseteq Workload
  BY BoundsAssumption DEF TypeOK, ProcsOK, Command, Stable, Stacks, Workload
<1> USE DEF TypeOK, DockerOK, docker
<1>1. CASE Locking(p)
  BY <1>0, <1>1 DEF Locking, ReadPrevious, OpenLock, LockApp, LockRegistry
<1>2. CASE Recovery(p)
  <2>1. CASE RecoverCandidate(p)
    <3>1. PICK j \in journal[cmd[p].app] :
            runs' = [runs EXCEPT ![cmd[p].app][j.stack] = Absent]
      BY <2>1 DEF RecoverCandidate
    <3>2. j.stack \in Stacks
      BY <1>0 DEF FilesOK, Journal
    <3> QED
      BY <1>0, <3>1, <3>2, <2>1 DEF RecoverCandidate
  <2>2. CASE RecoverNothing(p) \/ RecoverClear(p) \/ RecoverInPlace(p)
    BY <1>0, <2>2 DEF RecoverNothing, RecoverClear, RecoverInPlace
  <2> QED
    BY <1>2, <2>1, <2>2 DEF Recovery
<1>3. CASE Rollout(p)
  <2>1. CASE Begin(p)
    <3>1. PICK rel \in Releases, mode \in Modes, bg \in BOOLEAN, stack \in Stacks :
            BeginAs(p, rel, mode, bg, stack)
      BY <2>1 DEF Begin
    <3> QED
      BY <1>0, <3>1 DEF BeginAs
  <2>2. CASE StackDeploy(p)
    <3>1. cmd[p].rel \in Workload
      BY <2>2
         DEF StackDeploy, At, DeployShape, RemoveShape, Undecided, RemoveLabels,
             Workload
    <3> QED
      BY <1>0, <3>1, <2>2 DEF StackDeploy, Submit
  <2>3. CASE StackDeployFails(p)
    <3>1. cmd[p].rel \in Workload
      BY <2>3
         DEF StackDeployFails, At, DeployShape, RemoveShape, Undecided,
             RemoveLabels, Workload
    <3> QED
      BY <1>0, <3>1, <2>3, SMTT(30) DEF StackDeployFails, Submit
  <2>4. CASE RolloutFails(p)
    <3>1. CASE SwarmRollsBack(p)
      BY <1>0, <3>1, <2>4 DEF RolloutFails, SwarmRollsBack
    <3>2. CASE UNCHANGED <<runs, prior>>
      BY <3>2, <2>4 DEF RolloutFails
    <3> QED
      BY <3>1, <3>2, <2>4 DEF RolloutFails
  <2>5. CASE MarkDeployed(p) \/ Verify(p) \/ Converge(p) \/ CancelledBeforePromotion(p)
    BY <1>0, <2>5 DEF MarkDeployed, Verify, Converge, CancelledBeforePromotion
  <2> QED
    BY <1>3, <2>1, <2>2, <2>3, <2>4, <2>5 DEF Rollout
<1>4. CASE TakeBack(p)
  <2>1. CASE UndoCandidate(p)
    <3>1. runs' = [runs EXCEPT ![cmd[p].app][cmd[p].stack] = Absent]
      BY <2>1 DEF UndoCandidate
    <3>2. UNCHANGED <<prior, minted>>
      BY <2>1 DEF UndoCandidate
    <3> QED
      BY <1>0, <3>1, <3>2
  <2>2. CASE UndoInPlace(p)
    <3>1. UNCHANGED minted
      BY <2>2 DEF UndoInPlace
    <3>2. CASE runs[cmd[p].app][Stable] = Absent
      BY <3>1, <3>2, <2>2 DEF UndoInPlace
    <3>3. CASE runs[cmd[p].app][Stable] # Absent
      <4> PICK w \in Workload :
             /\ runs' = [runs EXCEPT ![cmd[p].app][Stable] = w]
             /\ prior' = [prior EXCEPT ![cmd[p].app] = runs[cmd[p].app][Stable]]
        BY <1>0, <3>3, <2>2 DEF UndoInPlace
      <4>1. runs[cmd[p].app][Stable] \in Workload
        BY <1>0
      <4>2. prior' \in [Apps -> Workload]
        BY <1>0, <4>1
      <4>3. runs' \in [Apps -> [Stacks -> Workload]]
        BY <1>0
      <4> QED
        BY <3>1, <4>2, <4>3
    <3> QED
      BY <3>2, <3>3
  <2>3. CASE DropCandidate(p)
    <3>1. runs' \in {runs, [runs EXCEPT ![cmd[p].app][cmd[p].stack] = Absent]}
      BY <2>3 DEF DropCandidate
    <3>2. UNCHANGED <<prior, minted>>
      BY <2>3 DEF DropCandidate
    <3>3. [runs EXCEPT ![cmd[p].app][cmd[p].stack] = Absent]
            \in [Apps -> [Stacks -> Workload]]
      BY <1>0
    <3> QED
      BY <3>1, <3>2, <3>3
  <2>4. CASE Archive(p) \/ RecordFailure(p) \/ Unwind(p)
    BY <1>0, <2>4 DEF Archive, RecordFailure, Unwind
  <2> QED
    BY <1>4, <2>1, <2>2, <2>3, <2>4 DEF TakeBack
<1>5. CASE Ingress(p)
  BY <1>0, <1>5
     DEF Ingress, EnsureNetwork, NothingToRoute, WriteConf, WriteRoutes,
         Reload, ReloadFails, Certificates, NothingToRestore, Restore,
         RestoreFails, RestoreReload, RestoreReloadFails
<1>6. CASE Commit(p)
  <2>1. CASE RemoveStale(p)
    <3>1. PICK gone \in SUBSET (Live(cmd[p].app) \ {cmd[p].stack}) :
            runs' = [runs EXCEPT ![cmd[p].app] =
                       [s \in Stacks |-> IF s \in gone THEN Absent ELSE runs[cmd[p].app][s]]]
      BY <2>1 DEF RemoveStale
    <3>2. prior' \in {prior, [prior EXCEPT ![cmd[p].app] = Absent]} /\ UNCHANGED minted
      BY <2>1 DEF RemoveStale
    <3>3. runs' \in [Apps -> [Stacks -> Workload]]
      BY <1>0, <3>1
    <3> QED
      BY <1>0, <3>2, <3>3
  <2>2. CASE \/ MarkIngress(p) \/ MarkIngressFails(p) \/ SaveRecord(p)
             \/ MarkSaved(p) \/ SetLatest(p) \/ ClearJournal(p)
    BY <1>0, <2>2
       DEF MarkIngress, MarkIngressFails, SaveRecord, MarkSaved, SetLatest,
           ClearJournal
  <2> QED
    BY <1>6, <2>1, <2>2 DEF Commit
<1>7. CASE Removal(p)
  <2>1. CASE RemoveStack(p)
    <3>1. PICK s : runs' = [runs EXCEPT ![cmd[p].app][s] = Absent]
      BY <2>1 DEF RemoveStack
    <3>2. [runs[cmd[p].app] EXCEPT ![s] = Absent] \in [Stacks -> Workload]
      BY <1>0
    <3> QED
      BY <1>0, <3>1, <3>2, <2>1 DEF RemoveStack
  <2>2. CASE RemoveState(p) \/ RemoveStateFails(p)
    BY <1>0, <2>2 DEF RemoveState, RemoveStateFails
  <2> QED
    BY <1>7, <2>1, <2>2 DEF Removal
<1>8. CASE Fails(p)
  BY <1>0, <1>8 DEF Fails
<1> QED
  BY <1>1, <1>2, <1>3, <1>4, <1>5, <1>6, <1>7, <1>8 DEF Step

\* Upstreams are stacks.
LEMMA IngressTyped ==
  ASSUME NEW p \in Procs, TypeOK, Step(p)
  PROVE  IngressOK'
<1> USE DEF TypeOK, IngressOK, ingress
<1>0. cmd[p].app \in Apps /\ cmd[p].stack \in Stacks
  BY DEF TypeOK, ProcsOK, Command
<1>1. CASE Locking(p)
  BY <1>0, <1>1 DEF Locking, ReadPrevious, OpenLock, LockApp, LockRegistry
<1>2. CASE Recovery(p)
  BY <1>0, <1>2
     DEF Recovery, RecoverNothing, RecoverCandidate, RecoverClear,
         RecoverInPlace
<1>3. CASE Rollout(p)
  BY <1>0, <1>3, ZenonT(30)
     DEF Rollout, Begin, StackDeploy, StackDeployFails, MarkDeployed, Verify,
         Converge, RolloutFails, CancelledBeforePromotion, BeginAs
<1>4. CASE TakeBack(p)
  BY <1>0, <1>4
     DEF TakeBack, UndoCandidate, UndoInPlace, Archive, RecordFailure,
         DropCandidate, Unwind
<1>5. CASE Ingress(p)
  <2>1. CASE WriteConf(p)
    BY <1>0, <2>1 DEF WriteConf, Updated, Route
  <2>2. CASE WriteRoutes(p)
    BY <1>0, <2>2 DEF WriteRoutes, Updated, Route
  <2>3. CASE Reload(p)
    BY <1>0, <2>3 DEF Reload, Loaded, Route
  <2>4. CASE ReloadFails(p)
    BY <1>0, <2>4 DEF ReloadFails, Loaded, Route
  <2>5. CASE Restore(p)
    BY <1>0, <2>5 DEF Restore, ProcsOK
  <2>6. CASE RestoreFails(p)
    BY <1>0, <2>6 DEF RestoreFails, ProcsOK
  <2>7. CASE RestoreReload(p)
    BY <1>0, <2>7 DEF RestoreReload, Loaded, Route
  <2>8. CASE RestoreReloadFails(p)
    BY <1>0, <2>8 DEF RestoreReloadFails, Loaded, Route
  <2>9. CASE \/ EnsureNetwork(p) \/ NothingToRoute(p) \/ Certificates(p)
             \/ NothingToRestore(p)
    BY <1>0, <2>9
       DEF EnsureNetwork, NothingToRoute, Certificates, NothingToRestore
  <2> QED
    BY <1>5, <2>1, <2>2, <2>3, <2>4, <2>5, <2>6, <2>7, <2>8, <2>9 DEF Ingress
<1>6. CASE Commit(p)
  BY <1>0, <1>6
     DEF Commit, MarkIngress, MarkIngressFails, SaveRecord, MarkSaved,
         SetLatest, RemoveStale, ClearJournal
<1>7. CASE Removal(p)
  BY <1>0, <1>7 DEF Removal, RemoveStack, RemoveState, RemoveStateFails
<1>8. CASE Fails(p)
  BY <1>0, <1>8 DEF Fails
<1> QED
  BY <1>1, <1>2, <1>3, <1>4, <1>5, <1>6, <1>7, <1>8 DEF Step

\* Counters stay numbers, torn a set of apps.
LEMMA ModelTyped ==
  ASSUME NEW p \in Procs, TypeOK, Step(p)
  PROVE  ModelOK'
<1> USE DEF TypeOK, ModelOK, model
<1>0. cmd[p].app \in Apps
  BY DEF TypeOK, ProcsOK, Command
<1>1. CASE Locking(p)
  BY <1>0, <1>1 DEF Locking, ReadPrevious, OpenLock, LockApp, LockRegistry
<1>2. CASE Recovery(p)
  BY <1>0, <1>2
     DEF Recovery, RecoverNothing, RecoverCandidate, RecoverClear,
         RecoverInPlace
<1>3. CASE Rollout(p)
  BY <1>0, <1>3, ZenonT(30)
     DEF Rollout, Begin, StackDeploy, StackDeployFails, MarkDeployed, Verify,
         Converge, RolloutFails, CancelledBeforePromotion, BeginAs
<1>4. CASE TakeBack(p)
  BY <1>0, <1>4
     DEF TakeBack, UndoCandidate, UndoInPlace, Archive, RecordFailure,
         DropCandidate, Unwind
<1>5. CASE Ingress(p)
  BY <1>0, <1>5
     DEF Ingress, EnsureNetwork, NothingToRoute, WriteConf, WriteRoutes,
         Reload, ReloadFails, Certificates, NothingToRestore, Restore,
         RestoreFails, RestoreReload, RestoreReloadFails
<1>6. CASE Commit(p)
  BY <1>0, <1>6
     DEF Commit, MarkIngress, MarkIngressFails, SaveRecord, MarkSaved,
         SetLatest, RemoveStale, ClearJournal
<1>7. CASE Removal(p)
  BY <1>0, <1>7 DEF Removal, RemoveStack, RemoveState, RemoveStateFails
<1>8. CASE Fails(p)
  BY <1>0, <1>8 DEF Fails
<1> QED
  BY <1>1, <1>2, <1>3, <1>4, <1>5, <1>6, <1>7, <1>8 DEF Step

-----------------------------------------------------------------------------
(* The successful records.                                                 *)

\* A new record adds its stack when it is successful ...
LEMMA StacksOfAppend ==
  ASSUME NEW h \in Seq(Record), NEW e \in Record
  PROVE  StacksOf(Append(h, e)) = StacksOf(h) \cup (IF e.ok THEN {e.stack} ELSE {})
<1>1. /\ Append(h, e) \in Seq(Record)
      /\ Len(Append(h, e)) = Len(h) + 1
      /\ \A i \in 1..Len(h) : Append(h, e)[i] = h[i]
      /\ Append(h, e)[Len(h) + 1] = e
  BY AppendProperties
<1>2. DOMAIN h = 1..Len(h) /\ DOMAIN Append(h, e) = 1..(Len(h) + 1) /\ Len(h) \in Nat
  BY <1>1, LenProperties
<1>3. StacksOf(Append(h, e)) \subseteq StacksOf(h) \cup (IF e.ok THEN {e.stack} ELSE {})
  BY <1>1, <1>2 DEF StacksOf
<1>4. StacksOf(h) \subseteq StacksOf(Append(h, e))
  BY <1>1, <1>2 DEF StacksOf
<1>5. e.ok => e.stack \in StacksOf(Append(h, e))
  BY <1>1, <1>2 DEF StacksOf
<1> QED
  BY <1>3, <1>4, <1>5

\* ... and what is left of the records names no other stacks.
LEMMA StacksOfSubSeq ==
  ASSUME NEW h \in Seq(Record), NEW m \in 0..Len(h), NEW n \in 0..Len(h)
  PROVE  StacksOf(SubSeq(h, m + 1, n)) \subseteq StacksOf(h)
<1>0. Len(h) \in Nat /\ DOMAIN h = 1..Len(h)
  BY LenProperties
<1> DEFINE t == SubSeq(h, m + 1, n)
<1>1. \A i \in m + 1 .. n : h[i] \in Record
  BY <1>0, ElementOfSeq
<1>2. /\ t \in Seq(Record)
      /\ Len(t) = IF m + 1 <= n THEN n - (m + 1) + 1 ELSE 0
      /\ \A i \in 1 .. n - (m + 1) + 1 : t[i] = h[(m + 1) + i - 1]
  BY <1>0, <1>1, SubSeqProperties
<1>3. DOMAIN t = 1..Len(t)
  BY <1>2, LenProperties
<1>4. \A i \in DOMAIN t : m + i \in DOMAIN h /\ t[i] = h[m + i]
  <2> SUFFICES ASSUME NEW i \in DOMAIN t
               PROVE  m + i \in DOMAIN h /\ t[i] = h[m + i]
    OBVIOUS
  <2>1. m + 1 <= n /\ i \in 1..(n - m)
    BY <1>0, <1>2, <1>3
  <2>2. t[i] = h[(m + 1) + i - 1] /\ (m + 1) + i - 1 = m + i
    BY <1>0, <1>2, <2>1
  <2> QED
    BY <1>0, <2>1, <2>2
<1> HIDE DEF t
<1>5. StacksOf(t) \subseteq StacksOf(h)
  BY <1>4 DEF StacksOf
<1> QED
  BY <1>5 DEF t

\* Only SaveRecord adds a stack to the successful records.
LEMMA RecordedGrows ==
  ASSUME NEW p \in Procs, TypeOK, FilesOK', DeployShape(p), RemoveShape(p),
         NEW a \in Apps, Step(p)
  PROVE  Recorded(a)' \subseteq Recorded(a) \cup
           (IF At(p, "save_record") /\ a = cmd[p].app THEN {cmd[p].stack} ELSE {})
<1>0. /\ cmd[p].app \in Apps /\ cmd[p].stack \in Stacks
      /\ history \in [Apps -> Seq(Record)]
      /\ UNCHANGED history => Recorded(a)' = Recorded(a)
  BY SMTT(30) DEF TypeOK, ProcsOK, FilesOK, Command, Recorded, StacksOf
<1> USE DEF files
<1>1. CASE Locking(p)
  BY <1>0, <1>1 DEF Locking, ReadPrevious, OpenLock, LockApp, LockRegistry
<1>2. CASE Recovery(p)
  BY <1>0, <1>2
     DEF Recovery, RecoverNothing, RecoverCandidate, RecoverClear,
         RecoverInPlace
<1>3. CASE Rollout(p)
  <2>1. CASE Begin(p)
    BY <1>0, <2>1 DEF Begin, BeginAs
  <2>2. CASE \/ StackDeploy(p) \/ StackDeployFails(p) \/ MarkDeployed(p)
             \/ Verify(p) \/ Converge(p) \/ RolloutFails(p)
             \/ CancelledBeforePromotion(p)
    BY <1>0, <2>2
       DEF StackDeploy, StackDeployFails, MarkDeployed, Verify, Converge,
           RolloutFails, CancelledBeforePromotion
  <2> QED
    BY <1>3, <2>1, <2>2 DEF Rollout
<1>4. CASE TakeBack(p)
  <2>1. CASE RecordFailure(p)
    <3> DEFINE e == [stack |-> cmd[p].stack, rel |-> cmd[p].rel, ok |-> FALSE]
    <3>1. cmd[p].rel \in Releases
      BY <2>1
         DEF RecordFailure, At, DeployShape, RemoveShape, Undecided, RemoveLabels
    <3>2. e \in Record /\ ~e.ok
      BY <1>0, <3>1 DEF Record
    <3>3. StacksOf(Append(history[cmd[p].app], e)) = StacksOf(history[cmd[p].app])
      BY <1>0, <3>2, StacksOfAppend
    <3>4. history' = [history EXCEPT ![cmd[p].app] = Append(history[cmd[p].app], e)]
      BY <2>1 DEF RecordFailure
    <3> HIDE DEF e
    <3>5. CASE a = cmd[p].app
      BY <1>0, <3>3, <3>4, <3>5 DEF Recorded
    <3>6. CASE a # cmd[p].app
      BY <1>0, <3>4, <3>6 DEF Recorded
    <3> QED
      BY <3>5, <3>6
  <2>2. CASE \/ UndoCandidate(p) \/ UndoInPlace(p) \/ Archive(p)
             \/ DropCandidate(p) \/ Unwind(p)
    BY <1>0, <2>2
       DEF UndoCandidate, UndoInPlace, Archive, DropCandidate, Unwind
  <2> QED
    BY <1>4, <2>1, <2>2 DEF TakeBack
<1>5. CASE Ingress(p)
  BY <1>0, <1>5
     DEF Ingress, EnsureNetwork, NothingToRoute, WriteConf, WriteRoutes,
         Reload, ReloadFails, Certificates, NothingToRestore, Restore,
         RestoreFails, RestoreReload, RestoreReloadFails
<1>6. CASE Commit(p)
  <2>1. CASE SaveRecord(p)
    <3> DEFINE e == [stack |-> cmd[p].stack, rel |-> cmd[p].rel, ok |-> TRUE]
    <3>1. cmd[p].rel \in Releases
      BY <2>1 DEF SaveRecord, At, DeployShape, RemoveShape, Undecided, RemoveLabels
    <3>2. e \in Record /\ e.ok /\ e.stack = cmd[p].stack
      BY <1>0, <3>1 DEF Record
    <3>3. StacksOf(Append(history[cmd[p].app], e)) =
            StacksOf(history[cmd[p].app]) \cup {cmd[p].stack}
      BY <1>0, <3>2, StacksOfAppend
    <3>4. /\ history' = [history EXCEPT ![cmd[p].app] = Append(history[cmd[p].app], e)]
          /\ At(p, "save_record")
      BY <2>1 DEF SaveRecord
    <3> HIDE DEF e
    <3>5. CASE a = cmd[p].app
      BY <1>0, <3>3, <3>4, <3>5 DEF Recorded
    <3>6. CASE a # cmd[p].app
      BY <1>0, <3>4, <3>6 DEF Recorded
    <3> QED
      BY <3>5, <3>6
  <2>2. CASE \/ MarkIngress(p) \/ MarkIngressFails(p) \/ MarkSaved(p)
             \/ SetLatest(p) \/ RemoveStale(p) \/ ClearJournal(p)
    BY <1>0, <2>2
       DEF MarkIngress, MarkIngressFails, MarkSaved, SetLatest, RemoveStale,
           ClearJournal
  <2> QED
    BY <1>6, <2>1, <2>2 DEF Commit
<1>7. CASE Removal(p)
  <2>1. CASE RemoveState(p)
    <3>1. StacksOf(<<>>) = {}
      BY DEF StacksOf
    <3>2. history' = [history EXCEPT ![cmd[p].app] = <<>>]
      BY <2>1 DEF RemoveState
    <3> QED
      BY <1>0, <3>1, <3>2 DEF Recorded
  <2>2. CASE RemoveStateFails(p)
    <3>1. PICK m, n \in 0..Len(history[cmd[p].app]) :
            history' = [history EXCEPT ![cmd[p].app] =
                          SubSeq(history[cmd[p].app], m + 1, n)]
      BY <2>2 DEF RemoveStateFails
    <3>2. StacksOf(SubSeq(history[cmd[p].app], m + 1, n)) \subseteq
            StacksOf(history[cmd[p].app])
      BY <1>0, StacksOfSubSeq
    <3> QED
      BY <1>0, <3>1, <3>2 DEF Recorded
  <2>3. CASE RemoveStack(p)
    BY <1>0, <2>3 DEF RemoveStack
  <2> QED
    BY <1>7, <2>1, <2>2, <2>3 DEF Removal
<1>8. CASE Fails(p)
  BY <1>0, <1>8 DEF Fails
<1> QED
  BY <1>1, <1>2, <1>3, <1>4, <1>5, <1>6, <1>7, <1>8 DEF Step

-----------------------------------------------------------------------------
(* Processes do not disturb each other.                                    *)

\* A step changes nothing of the other processes.
LEMMA Others ==
  ASSUME NEW p \in Procs, ProcsOK, NEW q \in Procs \ {p}, Step(p)
  PROVE  pc'[q] = pc[q] /\ cmd'[q] = cmd[q]
<1> USE DEF ProcsOK, Goto, Exit, Keep
<1>1. CASE Locking(p)
  BY <1>1 DEF Locking, ReadPrevious, OpenLock, LockApp, LockRegistry
<1>2. CASE Recovery(p)
  BY <1>2
     DEF Recovery, RecoverNothing, RecoverCandidate, RecoverClear,
         RecoverInPlace
<1>3. CASE Rollout(p)
  BY <1>3, ZenonT(30)
     DEF Rollout, Begin, StackDeploy, StackDeployFails, MarkDeployed, Verify,
         Converge, RolloutFails, CancelledBeforePromotion, BeginAs, Observe
<1>4. CASE TakeBack(p)
  BY <1>4
     DEF TakeBack, UndoCandidate, UndoInPlace, Archive, RecordFailure,
         DropCandidate, Unwind
<1>5. CASE Ingress(p)
  BY <1>5
     DEF Ingress, EnsureNetwork, NothingToRoute, WriteConf, WriteRoutes,
         Reload, ReloadFails, Certificates, NothingToRestore, Restore,
         RestoreFails, RestoreReload, RestoreReloadFails
<1>6. CASE Commit(p)
  BY <1>6
     DEF Commit, MarkIngress, MarkIngressFails, SaveRecord, MarkSaved,
         SetLatest, RemoveStale, ClearJournal
<1>7. CASE Removal(p)
  BY <1>7 DEF Removal, RemoveStack, RemoveState, RemoveStateFails
<1>8. CASE Fails(p)
  BY <1>8 DEF Fails
<1> QED
  BY <1>1, <1>2, <1>3, <1>4, <1>5, <1>6, <1>7, <1>8 DEF Step

\* Only the holder of registry.lock changes anything shared.
LEMMA NoLockNoEffect ==
  ASSUME NEW p \in Procs, ProcsOK, ~HoldsRegistry(p), Step(p)
  PROVE  UNCHANGED <<files, docker, ingress>>
<1> USE DEF ProcsOK, HoldsRegistry, BeforeApp, At, files, docker, ingress
<1>1. CASE Locking(p)
  BY <1>1 DEF Locking, ReadPrevious, OpenLock, LockApp, LockRegistry
<1>2. CASE Recovery(p)
  BY <1>2
     DEF Recovery, RecoverNothing, RecoverCandidate, RecoverClear,
         RecoverInPlace
<1>3. CASE Rollout(p)
  <2>1. CASE Begin(p)
    BY <2>1 DEF Begin, BeginAs
  <2>2. CASE \/ StackDeploy(p) \/ StackDeployFails(p) \/ MarkDeployed(p)
             \/ Verify(p) \/ Converge(p) \/ RolloutFails(p)
             \/ CancelledBeforePromotion(p)
    BY <2>2
       DEF StackDeploy, StackDeployFails, MarkDeployed, Verify, Converge,
           RolloutFails, CancelledBeforePromotion
  <2> QED
    BY <1>3, <2>1, <2>2 DEF Rollout
<1>4. CASE TakeBack(p)
  BY <1>4
     DEF TakeBack, UndoCandidate, UndoInPlace, Archive, RecordFailure,
         DropCandidate, Unwind
<1>5. CASE Ingress(p)
  BY <1>5
     DEF Ingress, EnsureNetwork, NothingToRoute, WriteConf, WriteRoutes,
         Reload, ReloadFails, Certificates, NothingToRestore, Restore,
         RestoreFails, RestoreReload, RestoreReloadFails
<1>6. CASE Commit(p)
  BY <1>6
     DEF Commit, MarkIngress, MarkIngressFails, SaveRecord, MarkSaved,
         SetLatest, RemoveStale, ClearJournal
<1>7. CASE Removal(p)
  BY <1>7 DEF Removal, RemoveStack, RemoveState, RemoveStateFails
<1>8. CASE Fails(p)
  BY <1>8 DEF Fails
<1> QED
  BY <1>1, <1>2, <1>3, <1>4, <1>5, <1>6, <1>7, <1>8 DEF Step

\* registry.lock is taken when nobody holds it.
LEMMA LockTaken ==
  ASSUME NEW p \in Procs, ProcsOK, ~HoldsRegistry(p), HoldsRegistry(p)', Step(p)
  PROVE  \A q \in Procs : ~HoldsRegistry(q)
<1> USE DEF ProcsOK, HoldsRegistry, BeforeApp, At, Goto, Exit
<1>1. CASE Locking(p)
  BY <1>1 DEF Locking, ReadPrevious, OpenLock, LockApp, LockRegistry
<1>2. CASE Recovery(p)
  BY <1>2
     DEF Recovery, RecoverNothing, RecoverCandidate, RecoverClear,
         RecoverInPlace
<1>3. CASE Rollout(p)
  <2>1. CASE Begin(p)
    BY <2>1 DEF Begin, BeginAs
  <2>2. CASE \/ StackDeploy(p) \/ StackDeployFails(p) \/ MarkDeployed(p)
             \/ Verify(p) \/ Converge(p) \/ RolloutFails(p)
             \/ CancelledBeforePromotion(p)
    BY <2>2
       DEF StackDeploy, StackDeployFails, MarkDeployed, Verify, Converge,
           RolloutFails, CancelledBeforePromotion
  <2> QED
    BY <1>3, <2>1, <2>2 DEF Rollout
<1>4. CASE TakeBack(p)
  BY <1>4
     DEF TakeBack, UndoCandidate, UndoInPlace, Archive, RecordFailure,
         DropCandidate, Unwind
<1>5. CASE Ingress(p)
  BY <1>5
     DEF Ingress, EnsureNetwork, NothingToRoute, WriteConf, WriteRoutes,
         Reload, ReloadFails, Certificates, NothingToRestore, Restore,
         RestoreFails, RestoreReload, RestoreReloadFails, AfterError,
         AfterIngress
<1>6. CASE Commit(p)
  BY <1>6
     DEF Commit, MarkIngress, MarkIngressFails, SaveRecord, MarkSaved,
         SetLatest, RemoveStale, ClearJournal
<1>7. CASE Removal(p)
  BY <1>7 DEF Removal, RemoveStack, RemoveState, RemoveStateFails
<1>8. CASE Fails(p)
  BY <1>8 DEF Fails, OnError, AfterError, Returns
<1> QED
  BY <1>1, <1>2, <1>3, <1>4, <1>5, <1>6, <1>7, <1>8 DEF Step

-----------------------------------------------------------------------------
(* What a step does to the part of the invariant about its own process.    *)

\* A remove stays a remove; a deploy past begin has a release and, past converge,
\* is promoting.
LEMMA ShapesKept ==
  ASSUME NEW p \in Procs, TypeOK, RemoveShape(p), DeployShape(p), Step(p)
  PROVE  RemoveShape(p)' /\ DeployShape(p)'
<1> USE DEF ProcsOK, At, Goto, Exit, Keep, RemoveShape, RemoveLabels, DeployShape,
        Undecided, Committing, Promoting
<1>0. /\ pc \in [Procs -> Labels] /\ cmd \in [Procs -> Command]
      /\ cmd[p] \in Command /\ NoCommand.op = "deploy"
  BY DEF TypeOK, ProcsOK, NoCommand, Fresh
<1>1. CASE Locking(p)
  BY <1>0, <1>1
     DEF Locking, ReadPrevious, OpenLock, LockApp, LockRegistry, Command
<1>2. CASE Recovery(p)
  BY <1>0, <1>2
     DEF Recovery, RecoverNothing, RecoverCandidate, RecoverClear,
         RecoverInPlace
<1>3. CASE Rollout(p)
  <2>1. CASE Begin(p)
    <3>1. PICK rel \in Releases, mode \in Modes, bg \in BOOLEAN, stack \in Stacks :
            BeginAs(p, rel, mode, bg, stack)
      BY <2>1 DEF Begin
    <3> QED
      BY <1>0, <3>1 DEF BeginAs, Command
  <2>2. CASE \/ StackDeploy(p) \/ StackDeployFails(p) \/ MarkDeployed(p)
             \/ Verify(p) \/ Converge(p) \/ RolloutFails(p)
             \/ CancelledBeforePromotion(p)
    BY <1>0, <2>2
       DEF StackDeploy, StackDeployFails, MarkDeployed, Verify, Converge,
           RolloutFails, CancelledBeforePromotion, Command, Observe
  <2> QED
    BY <1>3, <2>1, <2>2 DEF Rollout
<1>4. CASE TakeBack(p)
  BY <1>0, <1>4
     DEF TakeBack, UndoCandidate, UndoInPlace, Archive, RecordFailure,
         DropCandidate, Unwind, Command
<1>5. CASE Ingress(p)
  BY <1>0, <1>5
     DEF Ingress, EnsureNetwork, NothingToRoute, WriteConf, WriteRoutes,
         Reload, ReloadFails, Certificates, NothingToRestore, Restore,
         RestoreFails, RestoreReload, RestoreReloadFails, AfterError,
         AfterIngress
<1>6. CASE Commit(p)
  BY <1>0, <1>6
     DEF Commit, MarkIngress, MarkIngressFails, SaveRecord, MarkSaved,
         SetLatest, RemoveStale, ClearJournal
<1>7. CASE Removal(p)
  BY <1>0, <1>7 DEF Removal, RemoveStack, RemoveState, RemoveStateFails
<1>8. CASE Fails(p)
  BY <1>0, <1>8 DEF Fails, OnError, AfterError, Returns
<1> QED
  BY <1>1, <1>2, <1>3, <1>4, <1>5, <1>6, <1>7, <1>8 DEF Step

\* A deploy's own steps keep its journal entry as its label says.
LEMMA JournalKept ==
  ASSUME NEW p \in Procs, TypeOK, OwnsJournal(p), Step(p)
  PROVE  OwnsJournal(p)'
<1> USE DEF At, Goto, Exit, Keep, OwnsJournal, StagesAt, Mark, files
<1>0. /\ pc \in [Procs -> Labels] /\ cmd \in [Procs -> Command]
      /\ cmd[p] \in Command /\ cmd[p].app \in Apps
      /\ journal \in [Apps -> SUBSET Journal]
  BY DEF TypeOK, ProcsOK, FilesOK, Command
<1>1. CASE Locking(p)
  BY <1>0, <1>1
     DEF Locking, ReadPrevious, OpenLock, LockApp, LockRegistry, Command
<1>2. CASE Recovery(p)
  BY <1>0, <1>2
     DEF Recovery, RecoverNothing, RecoverCandidate, RecoverClear,
         RecoverInPlace
<1>3. CASE Rollout(p)
  <2>1. CASE Begin(p)
    <3>1. PICK rel \in Releases, mode \in Modes, bg \in BOOLEAN, stack \in Stacks :
            BeginAs(p, rel, mode, bg, stack)
      BY <2>1 DEF Begin
    <3> QED
      BY <1>0, <3>1 DEF BeginAs, Command
  <2>2. CASE StackDeploy(p)
    BY <1>0, <2>2 DEF StackDeploy, Command, Observe
  <2>3. CASE StackDeployFails(p)
    BY <1>0, <2>3 DEF StackDeployFails, Command, Observe
  <2>4. CASE Converge(p)
    BY <1>0, <2>4 DEF Converge, Command
  <2>5. CASE \/ MarkDeployed(p) \/ Verify(p) \/ RolloutFails(p)
             \/ CancelledBeforePromotion(p)
    BY <1>0, <2>5
       DEF MarkDeployed, Verify, RolloutFails, CancelledBeforePromotion,
           Command, Observe
  <2> QED
    BY <1>3, <2>1, <2>2, <2>3, <2>4, <2>5 DEF Rollout
<1>4. CASE TakeBack(p)
  BY <1>0, <1>4
     DEF TakeBack, UndoCandidate, UndoInPlace, Archive, RecordFailure,
         DropCandidate, Unwind, Command
<1>5. CASE Ingress(p)
  BY <1>0, <1>5
     DEF Ingress, EnsureNetwork, NothingToRoute, WriteConf, WriteRoutes,
         Reload, ReloadFails, Certificates, NothingToRestore, Restore,
         RestoreFails, RestoreReload, RestoreReloadFails, AfterError,
         AfterIngress
<1>6. CASE Commit(p)
  BY <1>0, <1>6
     DEF Commit, MarkIngress, MarkIngressFails, SaveRecord, MarkSaved,
         SetLatest, RemoveStale, ClearJournal
<1>7. CASE Removal(p)
  BY <1>0, <1>7 DEF Removal, RemoveStack, RemoveState, RemoveStateFails
<1>8. CASE Fails(p)
  BY <1>0, <1>8 DEF Fails, OnError, AfterError, Returns
<1> QED
  BY <1>1, <1>2, <1>3, <1>4, <1>5, <1>6, <1>7, <1>8 DEF Step

\* A candidate that has not committed is in no successful record: its name is
\* new, and only its own commit records it.
LEMMA CandidateKept ==
  ASSUME NEW p \in Procs, TypeOK, FilesOK', RemoveShape(p), DeployShape(p),
         CandidateUnrecorded(p), NamesMinted, Step(p)
  PROVE  CandidateUnrecorded(p)'
<1>0. /\ pc \in [Procs -> Labels] /\ cmd \in [Procs -> Command]
      /\ cmd[p] \in Command /\ cmd[p].app \in Apps /\ ~NoCommand.bg
      /\ minted \in [Apps -> Stacks]
  BY DEF TypeOK, ProcsOK, DockerOK, Command, NoCommand, Fresh
<1> PICK a \in Apps : a = cmd[p].app
  BY <1>0
<1>a. \A s \in StacksOf(history'[a]) :
        s \in StacksOf(history[a]) \/ At(p, "save_record")
  BY RecordedGrows DEF Recorded
<1> USE DEF At, Goto, Exit, Keep, CandidateUnrecorded, Recorded, Undecided,
        Promoting
<1>1. CASE Locking(p)
  BY <1>0, <1>a, <1>1
     DEF Locking, ReadPrevious, OpenLock, LockApp, LockRegistry, Command,
         RemoveShape
<1>2. CASE Recovery(p)
  BY <1>0, <1>a, <1>2
     DEF Recovery, RecoverNothing, RecoverCandidate, RecoverClear,
         RecoverInPlace
<1>3. CASE Rollout(p)
  <2>1. CASE Begin(p)
    <3>1. PICK rel \in Releases, mode \in Modes, bg \in BOOLEAN, stack \in Stacks :
            BeginAs(p, rel, mode, bg, stack)
      BY <2>1 DEF Begin
    <3>2. bg => stack = minted[a] + 1
      BY <3>1 DEF BeginAs
    <3>3. minted[a] \in Int /\ \A s \in Recorded(a) : s <= minted[a]
      BY <1>0 DEF NamesMinted, Stacks
    <3>4. bg => stack \notin StacksOf(history[a])
      BY <3>2, <3>3
    <3> QED
      BY <1>0, <1>a, <3>1, <3>4 DEF BeginAs, Command
  <2>2. CASE \/ StackDeploy(p) \/ StackDeployFails(p) \/ MarkDeployed(p)
             \/ Verify(p) \/ Converge(p) \/ RolloutFails(p)
             \/ CancelledBeforePromotion(p)
    BY <1>0, <1>a, <2>2
       DEF StackDeploy, StackDeployFails, MarkDeployed, Verify, Converge,
           RolloutFails, CancelledBeforePromotion, Command, Observe
  <2> QED
    BY <1>3, <2>1, <2>2 DEF Rollout
<1>4. CASE TakeBack(p)
  <2>1. CASE Archive(p)
    BY <1>0, <1>a, <2>1 DEF Archive, Command
  <2>2. CASE Unwind(p)
    BY <1>0, <1>a, <2>2 DEF Unwind, Command
  <2>3. CASE UndoCandidate(p) \/ UndoInPlace(p) \/ RecordFailure(p) \/ DropCandidate(p)
    BY <1>0, <1>a, <2>3
       DEF UndoCandidate, UndoInPlace, RecordFailure, DropCandidate, Command,
           RemoveShape, DeployShape
  <2> QED
    BY <1>4, <2>1, <2>2, <2>3 DEF TakeBack
<1>5. CASE Ingress(p)
  BY <1>0, <1>a, <1>5
     DEF Ingress, EnsureNetwork, NothingToRoute, WriteConf, WriteRoutes,
         Reload, ReloadFails, Certificates, NothingToRestore, Restore,
         RestoreFails, RestoreReload, RestoreReloadFails, AfterError,
         AfterIngress, RemoveShape, RemoveLabels, DeployShape, Committing
<1>6. CASE Commit(p)
  BY <1>0, <1>a, <1>6
     DEF Commit, MarkIngress, MarkIngressFails, SaveRecord, MarkSaved,
         SetLatest, RemoveStale, ClearJournal, DeployShape, RemoveShape,
         RemoveLabels, Committing
<1>7. CASE Removal(p)
  BY <1>0, <1>a, <1>7 DEF Removal, RemoveStack, RemoveState, RemoveStateFails
<1>8. CASE Fails(p)
  BY <1>0, <1>a, <1>8
     DEF Fails, OnError, AfterError, Returns, RemoveShape, DeployShape,
         RemoveLabels, Committing
<1> QED
  BY <1>1, <1>2, <1>3, <1>4, <1>5, <1>6, <1>7, <1>8 DEF Step

\* After its record, a deploy's stack stays that of the newest record.
LEMMA NewestKept ==
  ASSUME NEW p \in Procs, TypeOK, RemoveShape(p), DeployShape(p), NewestIsMine(p), Step(p)
  PROVE  NewestIsMine(p)'
<1>0. /\ pc \in [Procs -> Labels] /\ cmd \in [Procs -> Command]
      /\ cmd[p] \in Command /\ cmd[p].app \in Apps /\ cmd[p].stack \in Stacks
      /\ history \in [Apps -> Seq(Record)]
  BY DEF TypeOK, ProcsOK, FilesOK, Command
<1> USE DEF At, Goto, Exit, Keep, NewestIsMine, files
<1>1. CASE Locking(p)
  BY <1>0, <1>1 DEF Locking, ReadPrevious, OpenLock, LockApp, LockRegistry
<1>2. CASE Recovery(p)
  BY <1>0, <1>2
     DEF Recovery, RecoverNothing, RecoverCandidate, RecoverClear,
         RecoverInPlace
<1>3. CASE Rollout(p)
  <2>1. CASE Begin(p)
    BY <1>0, <2>1 DEF Begin, BeginAs
  <2>2. CASE \/ StackDeploy(p) \/ StackDeployFails(p) \/ MarkDeployed(p)
             \/ Verify(p) \/ Converge(p) \/ RolloutFails(p)
             \/ CancelledBeforePromotion(p)
    BY <1>0, <2>2
       DEF StackDeploy, StackDeployFails, MarkDeployed, Verify, Converge,
           RolloutFails, CancelledBeforePromotion, Observe
  <2> QED
    BY <1>3, <2>1, <2>2 DEF Rollout
<1>4. CASE TakeBack(p)
  BY <1>0, <1>4
     DEF TakeBack, UndoCandidate, UndoInPlace, Archive, RecordFailure,
         DropCandidate, Unwind
<1>5. CASE Ingress(p)
  BY <1>0, <1>5
     DEF Ingress, EnsureNetwork, NothingToRoute, WriteConf, WriteRoutes,
         Reload, ReloadFails, Certificates, NothingToRestore, Restore,
         RestoreFails, RestoreReload, RestoreReloadFails, AfterError,
         AfterIngress
<1>6. CASE Commit(p)
  <2>1. CASE SaveRecord(p)
    <3> DEFINE h == history[cmd[p].app]
               e == [stack |-> cmd[p].stack, rel |-> cmd[p].rel, ok |-> TRUE]
    <3>1. cmd[p].rel \in Releases
      BY <2>1 DEF SaveRecord, DeployShape, RemoveShape, Undecided, RemoveLabels
    <3>2. e \in Record /\ e.ok /\ e.stack = cmd[p].stack
      BY <1>0, <3>1 DEF Record
    <3> HIDE DEF e
    <3>3. /\ Append(h, e) # <<>>
          /\ Append(h, e)[Len(Append(h, e))] = e
      BY <1>0, <3>2, AppendProperties
    <3>4. /\ history'[cmd[p].app] = Append(h, e)
          /\ cmd' = cmd
      BY <1>0, <2>1 DEF SaveRecord, e
    <3> QED
      BY <3>2, <3>3, <3>4
  <2>2. CASE \/ MarkIngress(p) \/ MarkIngressFails(p) \/ MarkSaved(p)
             \/ SetLatest(p) \/ RemoveStale(p) \/ ClearJournal(p)
    BY <1>0, <2>2
       DEF MarkIngress, MarkIngressFails, MarkSaved, SetLatest, RemoveStale,
           ClearJournal
  <2> QED
    BY <1>6, <2>1, <2>2 DEF Commit
<1>7. CASE Removal(p)
  BY <1>0, <1>7 DEF Removal, RemoveStack, RemoveState, RemoveStateFails
<1>8. CASE Fails(p)
  BY <1>0, <1>8 DEF Fails, OnError, AfterError, Returns
<1> QED
  BY <1>1, <1>2, <1>3, <1>4, <1>5, <1>6, <1>7, <1>8 DEF Step

-----------------------------------------------------------------------------
(* What a step does to the part about names and journals.                  *)

\* Candidate numbers only grow.
LEMMA MintedGrows ==
  ASSUME NEW p \in Procs, TypeOK, NEW a \in Apps, Step(p)
  PROVE  minted[a] <= minted'[a]
<1>0. minted \in [Apps -> Stacks] /\ minted[a] \in Int
  BY DEF TypeOK, DockerOK, Stacks
<1> USE DEF docker
<1>1. CASE Locking(p)
  BY <1>0, <1>1 DEF Locking, ReadPrevious, OpenLock, LockApp, LockRegistry
<1>2. CASE Recovery(p)
  BY <1>0, <1>2
     DEF Recovery, RecoverNothing, RecoverCandidate, RecoverClear,
         RecoverInPlace
<1>3. CASE Rollout(p)
  <2>1. CASE Begin(p)
    <3>1. PICK rel \in Releases, mode \in Modes, bg \in BOOLEAN, stack \in Stacks :
            BeginAs(p, rel, mode, bg, stack)
      BY <2>1 DEF Begin
    <3> QED
      BY <1>0, <3>1 DEF BeginAs
  <2>2. CASE \/ StackDeploy(p) \/ StackDeployFails(p) \/ MarkDeployed(p)
             \/ Verify(p) \/ Converge(p) \/ RolloutFails(p)
             \/ CancelledBeforePromotion(p)
    BY <1>0, <2>2
       DEF StackDeploy, StackDeployFails, MarkDeployed, Verify, Converge,
           RolloutFails, CancelledBeforePromotion
  <2> QED
    BY <1>3, <2>1, <2>2 DEF Rollout
<1>4. CASE TakeBack(p)
  BY <1>0, <1>4
     DEF TakeBack, UndoCandidate, UndoInPlace, Archive, RecordFailure,
         DropCandidate, Unwind
<1>5. CASE Ingress(p)
  BY <1>0, <1>5
     DEF Ingress, EnsureNetwork, NothingToRoute, WriteConf, WriteRoutes,
         Reload, ReloadFails, Certificates, NothingToRestore, Restore,
         RestoreFails, RestoreReload, RestoreReloadFails
<1>6. CASE Commit(p)
  BY <1>0, <1>6
     DEF Commit, MarkIngress, MarkIngressFails, SaveRecord, MarkSaved,
         SetLatest, RemoveStale, ClearJournal
<1>7. CASE Removal(p)
  BY <1>0, <1>7 DEF Removal, RemoveStack, RemoveState, RemoveStateFails
<1>8. CASE Fails(p)
  BY <1>0, <1>8 DEF Fails
<1> QED
  BY <1>1, <1>2, <1>3, <1>4, <1>5, <1>6, <1>7, <1>8 DEF Step

\* The stack of a command is the stable one or a number handed out.
LEMMA StackMinted ==
  ASSUME NEW p \in Procs, TypeOK, NamesMinted, Step(p)
  PROVE  cmd'[p].stack <= minted'[cmd'[p].app]
<1>0. /\ cmd \in [Procs -> Command] /\ minted \in [Apps -> Stacks]
      /\ cmd[p] \in Command /\ cmd[p].app \in Apps
      /\ NoCommand.stack = 0 /\ NoCommand.app \in Apps
      /\ cmd[p].stack <= minted[cmd[p].app]
  BY NoCommandType
     DEF TypeOK, ProcsOK, DockerOK, Command, NoCommand, Fresh, Stable, NamesMinted
<1>a. \A a \in Apps : minted[a] \in Int /\ 0 <= minted[a]
  BY <1>0 DEF Stacks
<1> USE DEF Exit, Keep, docker, Stable, Command
<1>1. CASE Locking(p)
  BY <1>0, <1>a, <1>1
     DEF Locking, ReadPrevious, OpenLock, LockApp, LockRegistry
<1>2. CASE Recovery(p)
  BY <1>0, <1>a, <1>2
     DEF Recovery, RecoverNothing, RecoverCandidate, RecoverClear,
         RecoverInPlace
<1>3. CASE Rollout(p)
  <2>1. CASE Begin(p)
    <3>1. PICK rel \in Releases, mode \in Modes, bg \in BOOLEAN, stack \in Stacks :
            BeginAs(p, rel, mode, bg, stack)
      BY <2>1 DEF Begin
    <3>2. cmd'[p].stack = stack /\ cmd'[p].app = cmd[p].app
      BY <1>0, <3>1 DEF BeginAs
    <3>3. CASE bg
      BY <1>0, <1>a, <3>1, <3>2, <3>3 DEF BeginAs
    <3>4. CASE ~bg
      BY <1>0, <1>a, <3>1, <3>2, <3>4 DEF BeginAs
    <3> QED
      BY <3>3, <3>4
  <2>2. CASE \/ StackDeploy(p) \/ StackDeployFails(p) \/ MarkDeployed(p)
             \/ Verify(p) \/ Converge(p) \/ RolloutFails(p)
             \/ CancelledBeforePromotion(p)
    BY <1>0, <1>a, <2>2
       DEF StackDeploy, StackDeployFails, MarkDeployed, Verify, Converge,
           RolloutFails, CancelledBeforePromotion, Observe
  <2> QED
    BY <1>3, <2>1, <2>2 DEF Rollout
<1>4. CASE TakeBack(p)
  BY <1>0, <1>a, <1>4
     DEF TakeBack, UndoCandidate, UndoInPlace, Archive, RecordFailure,
         DropCandidate, Unwind
<1>5. CASE Ingress(p)
  BY <1>0, <1>a, <1>5
     DEF Ingress, EnsureNetwork, NothingToRoute, WriteConf, WriteRoutes,
         Reload, ReloadFails, Certificates, NothingToRestore, Restore,
         RestoreFails, RestoreReload, RestoreReloadFails
<1>6. CASE Commit(p)
  BY <1>0, <1>a, <1>6
     DEF Commit, MarkIngress, MarkIngressFails, SaveRecord, MarkSaved,
         SetLatest, RemoveStale, ClearJournal
<1>7. CASE Removal(p)
  BY <1>0, <1>a, <1>7 DEF Removal, RemoveStack, RemoveState, RemoveStateFails
<1>8. CASE Fails(p)
  BY <1>0, <1>a, <1>8 DEF Fails
<1> QED
  BY <1>1, <1>2, <1>3, <1>4, <1>5, <1>6, <1>7, <1>8 DEF Step

\* Records and commands use numbers that were handed out.
LEMMA NamesKept ==
  ASSUME NEW p \in Procs, TypeOK, TypeOK', RemoveShape(p), DeployShape(p), NamesMinted,
         Step(p)
  PROVE  NamesMinted'
<1>0. /\ \A a \in Apps : minted[a] \in Int /\ minted'[a] \in Int
      /\ \A q \in Procs : cmd[q].app \in Apps /\ cmd[q].stack \in Int
      /\ \A a \in Apps : Recorded(a) \subseteq Int
  <2>1. \A a \in Apps : minted[a] \in Int /\ minted'[a] \in Int
    BY DEF TypeOK, DockerOK, Stacks
  <2>2. \A q \in Procs : cmd[q].app \in Apps /\ cmd[q].stack \in Int
    BY DEF TypeOK, ProcsOK, Command, Stacks
  <2>3. \A a \in Apps : Recorded(a) \subseteq Int
    <3> SUFFICES ASSUME NEW a \in Apps, NEW i \in DOMAIN history[a]
                 PROVE  history[a][i].stack \in Int
      BY DEF Recorded, StacksOf
    <3>1. history[a] \in Seq(Record)
      BY DEF TypeOK, FilesOK
    <3>2. history[a][i] \in Record
      BY <3>1, LenProperties, ElementOfSeq
    <3> QED
      BY <3>2 DEF Record, Stacks
  <2> QED
    BY <2>1, <2>2, <2>3
<1>1. ASSUME NEW a \in Apps, NEW s \in Recorded(a)'
      PROVE  s <= minted'[a]
  <2>1. minted[a] <= minted'[a]
    BY MintedGrows
  <2>2. s \in Recorded(a) \/ (s = cmd[p].stack /\ a = cmd[p].app)
    BY <1>1, RecordedGrows DEF TypeOK
  <2>3. s <= minted[a]
    BY <2>2 DEF NamesMinted
  <2> QED
    BY <1>0, <2>1, <2>2, <2>3
<1>2. ASSUME NEW q \in Procs
      PROVE  cmd'[q].stack <= minted'[cmd'[q].app]
  <2>1. CASE q = p
    BY <2>1, StackMinted
  <2>2. CASE q # p
    <3>1. cmd'[q] = cmd[q]
      BY <2>2, Others DEF TypeOK
    <3>2. minted[cmd[q].app] <= minted'[cmd[q].app]
      BY <1>0, MintedGrows
    <3> QED
      BY <1>0, <3>1, <3>2 DEF NamesMinted
  <2> QED
    BY <2>1, <2>2
<1> QED
  BY <1>1, <1>2 DEF NamesMinted

\* A journal entry that a step writes is about the command's own stack, and says
\* "started" or "stack_deployed" only while nothing is decided.
LEMMA JournalWrites ==
  ASSUME NEW p \in Procs, TypeOK, NEW a \in Apps, Step(p)
  PROVE  \/ journal'[a] \subseteq journal[a]
         \/ /\ a = cmd'[p].app
            /\ \E st \in Stages :
                 /\ journal'[a] = {[stage |-> st, stack |-> cmd'[p].stack,
                                    bg |-> cmd'[p].bg]}
                 /\ st \in {"started", "stack_deployed"} => pc'[p] \in Undecided
<1>0. /\ pc \in [Procs -> Labels] /\ cmd \in [Procs -> Command]
      /\ cmd[p] \in Command /\ cmd[p].app \in Apps
      /\ journal \in [Apps -> SUBSET Journal]
  BY DEF TypeOK, ProcsOK, FilesOK, Command
<1> USE DEF Goto, Keep, Mark, files, Stages, Undecided
<1>1. CASE Locking(p)
  BY <1>0, <1>1 DEF Locking, ReadPrevious, OpenLock, LockApp, LockRegistry
<1>2. CASE Recovery(p)
  BY <1>0, <1>2
     DEF Recovery, RecoverNothing, RecoverCandidate, RecoverClear,
         RecoverInPlace
<1>3. CASE Rollout(p)
  <2>1. CASE Begin(p)
    <3>1. PICK rel \in Releases, mode \in Modes, bg \in BOOLEAN, stack \in Stacks :
            BeginAs(p, rel, mode, bg, stack)
      BY <2>1 DEF Begin
    <3>2. cmd'[p].stack = stack /\ cmd'[p].bg = bg /\ cmd'[p].app = cmd[p].app
      BY <1>0, <3>1 DEF BeginAs, Command
    <3> QED
      BY <1>0, <3>1, <3>2 DEF BeginAs
  <2>2. CASE \/ StackDeploy(p) \/ StackDeployFails(p) \/ MarkDeployed(p)
             \/ Verify(p) \/ Converge(p) \/ RolloutFails(p)
             \/ CancelledBeforePromotion(p)
    BY <1>0, <2>2
       DEF StackDeploy, StackDeployFails, MarkDeployed, Verify, Converge,
           RolloutFails, CancelledBeforePromotion
  <2> QED
    BY <1>3, <2>1, <2>2 DEF Rollout
<1>4. CASE TakeBack(p)
  BY <1>0, <1>4
     DEF TakeBack, UndoCandidate, UndoInPlace, Archive, RecordFailure,
         DropCandidate, Unwind
<1>5. CASE Ingress(p)
  BY <1>0, <1>5
     DEF Ingress, EnsureNetwork, NothingToRoute, WriteConf, WriteRoutes,
         Reload, ReloadFails, Certificates, NothingToRestore, Restore,
         RestoreFails, RestoreReload, RestoreReloadFails
<1>6. CASE Commit(p)
  BY <1>0, <1>6
     DEF Commit, MarkIngress, MarkIngressFails, SaveRecord, MarkSaved,
         SetLatest, RemoveStale, ClearJournal
<1>7. CASE Removal(p)
  BY <1>0, <1>7 DEF Removal, RemoveStack, RemoveState, RemoveStateFails
<1>8. CASE Fails(p)
  BY <1>0, <1>8 DEF Fails
<1> QED
  BY <1>1, <1>2, <1>3, <1>4, <1>5, <1>6, <1>7, <1>8 DEF Step

\* No step makes recovery's candidate a recorded one: only SaveRecord records a
\* stack, and its journal entry is past the stages that recovery deletes.
LEMMA UnpromotedKept ==
  ASSUME NEW p \in Procs, TypeOK, TypeOK', RemoveShape(p), DeployShape(p), OwnsJournal(p),
         CandidateUnrecorded(p)', UnpromotedUnrecorded, Step(p)
  PROVE  UnpromotedUnrecorded'
<1> SUFFICES ASSUME NEW a \in Apps, NEW j \in journal'[a], Unpromoted(j)
             PROVE  j.stack \notin Recorded(a)'
  BY DEF UnpromotedUnrecorded
<1>1. CASE journal'[a] \subseteq journal[a]
  <2>1. j \in journal[a] /\ j.stack \notin Recorded(a)
    BY <1>1 DEF UnpromotedUnrecorded
  <2>2. ~(At(p, "save_record") /\ a = cmd[p].app)
    BY <2>1 DEF OwnsJournal, StagesAt, At, Unpromoted
  <2> QED
    BY <2>1, <2>2, RecordedGrows DEF TypeOK
<1>2. CASE ~(journal'[a] \subseteq journal[a])
  <2>1. PICK st \in Stages :
          /\ a = cmd'[p].app
          /\ journal'[a] = {[stage |-> st, stack |-> cmd'[p].stack, bg |-> cmd'[p].bg]}
          /\ st \in {"started", "stack_deployed"} => pc'[p] \in Undecided
    BY <1>2, JournalWrites
  <2>2. j.stack = cmd'[p].stack /\ cmd'[p].bg /\ pc'[p] \in Undecided
    BY <2>1 DEF Unpromoted
  <2> QED
    BY <2>1, <2>2 DEF CandidateUnrecorded, Recorded
<1> QED
  BY <1>1, <1>2

-----------------------------------------------------------------------------
(* Together: every action keeps the invariant.                             *)

\* Every step keeps the types of all variables.
LEMMA StepTyped ==
  ASSUME NEW p \in Procs, TypeOK, RemoveShape(p), DeployShape(p), Step(p)
  PROVE  TypeOK'
<1>1. ProcsOK'
  BY PcTyped, CmdTyped, SnapTyped DEF TypeOK, ProcsOK
<1> QED
  BY <1>1, FilesTyped, DockerTyped, IngressTyped, ModelTyped DEF TypeOK

\* At most one process holds registry.lock after a step, too.
LEMMA StepMutex ==
  ASSUME NEW p \in Procs, ProcsOK, Mutex, Step(p)
  PROVE  Mutex'
<1>1. \A q \in Procs \ {p} : HoldsRegistry(q)' <=> HoldsRegistry(q)
  BY Others DEF HoldsRegistry
<1>2. HoldsRegistry(p)' => HoldsRegistry(p) \/ \A q \in Procs : ~HoldsRegistry(q)
  BY LockTaken
<1> QED
  BY <1>1, <1>2 DEF Mutex

\* A process that a step does not move keeps its invariant, when the step leaves
\* the files alone or the process does not hold registry.lock.
LEMMA Bystander ==
  ASSUME NEW q \in Procs, ProcInv(q), pc'[q] = pc[q], cmd'[q] = cmd[q],
         ~HoldsRegistry(q) \/ UNCHANGED files
  PROVE  ProcInv(q)'
<1>1. RemoveShape(q)' /\ DeployShape(q)'
  BY DEF ProcInv, RemoveShape, DeployShape
<1>2. CASE ~HoldsRegistry(q)
  <2>1. ~HoldsRegistry(q)'
    BY <1>2 DEF HoldsRegistry
  <2>2. CandidateUnrecorded(q)' /\ NewestIsMine(q)' /\ OwnsJournal(q)'
    BY <2>1 DEF HoldsRegistry, BeforeApp, CandidateUnrecorded, NewestIsMine,
                OwnsJournal, Undecided, Promoting, StagesAt
  <2> QED
    BY <1>1, <2>2 DEF ProcInv
<1>3. CASE UNCHANGED files
  BY <1>1, <1>3
     DEF ProcInv, files, CandidateUnrecorded, NewestIsMine, OwnsJournal, Recorded
<1> QED
  BY <1>2, <1>3

\* A step of one process keeps the whole invariant.
LEMMA StepInductive ==
  ASSUME NEW p \in Procs, DeployInv, Step(p)
  PROVE  DeployInv'
<1>1. TypeOK' /\ Mutex'
  BY StepTyped, StepMutex DEF DeployInv, ProcInv, TypeOK
<1>2. ProcInv(p)'
  BY <1>1, ShapesKept, CandidateKept, NewestKept, JournalKept
     DEF DeployInv, ProcInv, TypeOK
<1>3. ASSUME NEW q \in Procs \ {p} PROVE ProcInv(q)'
  <2>1. pc'[q] = pc[q] /\ cmd'[q] = cmd[q]
    BY Others DEF DeployInv, TypeOK
  <2>2. ~HoldsRegistry(q) \/ ~HoldsRegistry(p)
    BY DEF DeployInv, Mutex
  <2>3. ~HoldsRegistry(q) \/ UNCHANGED files
    BY <2>2, NoLockNoEffect DEF DeployInv, TypeOK
  <2> QED
    BY <2>1, <2>3, Bystander DEF DeployInv
<1>4. NamesMinted' /\ UnpromotedUnrecorded'
  BY <1>1, <1>2, NamesKept, UnpromotedKept DEF DeployInv, ProcInv
<1> QED
  BY <1>1, <1>2, <1>3, <1>4 DEF DeployInv

\* Starting a command keeps the invariant.
LEMMA StartInductive ==
  ASSUME NEW p \in Procs, DeployInv, Start(p)
  PROVE  DeployInv'
<1>0. /\ pc \in [Procs -> Labels] /\ cmd \in [Procs -> Command]
  BY DEF DeployInv, TypeOK, ProcsOK
<1>1. PICK op \in Ops, a \in Apps :
        /\ cmd' = [cmd EXCEPT ![p] = Fresh(op, a)]
        /\ Goto(p, IF op = "rollback" THEN "previous" ELSE "open")
  BY DEF Start
<1>2. /\ cmd'[p] = Fresh(op, a) /\ Fresh(op, a) \in Command
      /\ pc'[p] \in {"previous", "open"} /\ pc[p] = "idle"
      /\ \A q \in Procs \ {p} : pc'[q] = pc[q] /\ cmd'[q] = cmd[q]
      /\ UNCHANGED <<files, docker, ingress, snap, crashes, torn>>
      /\ commands' = commands + 1
  BY <1>0, <1>1, FreshType DEF Start, Goto, At
<1>3. TypeOK'
  <2>1. pc' \in [Procs -> Labels] /\ cmd' \in [Procs -> Command]
    BY <1>0, <1>1, <1>2 DEF Goto, Labels
  <2> QED
    BY <1>2, <2>1
       DEF DeployInv, TypeOK, ProcsOK, FilesOK, DockerOK, IngressOK, ModelOK,
                      files, docker, ingress
<1>4. ~HoldsRegistry(p)' /\ \A q \in Procs \ {p} : HoldsRegistry(q)' <=> HoldsRegistry(q)
  BY <1>2 DEF HoldsRegistry, BeforeApp
<1>5. Mutex'
  BY <1>4 DEF DeployInv, Mutex
<1>6. ProcInv(p)'
  <2>1. RemoveShape(p)' /\ DeployShape(p)'
    <3>1. CASE op = "rollback"
      BY <1>0, <1>1, <1>2, <3>1
         DEF RemoveShape, DeployShape, Fresh, Undecided, Promoting, Committing
    <3>2. CASE op # "rollback"
      BY <1>0, <1>1, <1>2, <3>2
         DEF Goto, RemoveShape, DeployShape, Fresh, RemoveLabels, Undecided,
             Promoting, Committing
    <3> QED
      BY <3>1, <3>2
  <2>2. CandidateUnrecorded(p)' /\ NewestIsMine(p)' /\ OwnsJournal(p)'
    BY <1>2
       DEF CandidateUnrecorded, NewestIsMine, OwnsJournal, Undecided, Promoting,
           StagesAt
  <2> QED
    BY <2>1, <2>2 DEF ProcInv
<1>7. \A q \in Procs \ {p} : ProcInv(q)'
  BY <1>2, Bystander DEF DeployInv
<1>8. NamesMinted'
  <2>1. minted[a] \in Int /\ 0 <= minted[a]
    BY DEF DeployInv, TypeOK, DockerOK, Stacks
  <2> QED
    BY <1>2, <2>1 DEF DeployInv, NamesMinted, Recorded, files, docker, Fresh, Stable
<1>9. UnpromotedUnrecorded'
  BY <1>2 DEF DeployInv, UnpromotedUnrecorded, Recorded, files
<1> QED
  BY <1>3, <1>5, <1>6, <1>7, <1>8, <1>9 DEF DeployInv

\* Cancelling a command keeps the invariant.
LEMMA CancelInductive ==
  ASSUME NEW p \in Procs, DeployInv, Cancel(p)
  PROVE  DeployInv'
<1>0. /\ pc \in [Procs -> Labels] /\ cmd \in [Procs -> Command] /\ cmd[p] \in Command
  BY DEF DeployInv, TypeOK, ProcsOK
<1>1. /\ cmd' = [cmd EXCEPT ![p].cancelled = TRUE]
      /\ cmd[p].op # "remove"
      /\ UNCHANGED <<files, docker, ingress, pc, snap, model>>
  BY DEF Cancel
<1>2. TypeOK'
  <2>1. [cmd[p] EXCEPT !.cancelled = TRUE] \in Command
    BY <1>0, CommandUpdates
  <2>2. cmd' \in [Procs -> Command]
    BY <1>0, <1>1, <2>1
  <2> QED
    BY <1>1, <2>2
       DEF DeployInv, TypeOK, ProcsOK, FilesOK, DockerOK, IngressOK, ModelOK,
                      files, docker, ingress, model
<1>3. Mutex'
  BY <1>1 DEF DeployInv, Mutex, HoldsRegistry
<1>4. ProcInv(p)'
  <2>1. /\ cmd'[p].op = cmd[p].op /\ cmd'[p].rel = cmd[p].rel
        /\ cmd'[p].app = cmd[p].app /\ cmd'[p].stack = cmd[p].stack
        /\ cmd'[p].bg = cmd[p].bg /\ cmd'[p].promoting = cmd[p].promoting
    BY <1>0, <1>1 DEF Command
  <2>2. ProcInv(p) /\ pc'[p] = pc[p] /\ history' = history /\ journal' = journal
    BY <1>1 DEF DeployInv, files
  <2> QED
    BY <1>1, <2>1, <2>2 DEF ProcInv, RemoveShape, DeployShape, CandidateUnrecorded,
                            NewestIsMine, OwnsJournal, Recorded
<1>5. ASSUME NEW q \in Procs \ {p} PROVE ProcInv(q)'
  BY <1>0, <1>1, Bystander DEF DeployInv
<1>6. NamesMinted' /\ UnpromotedUnrecorded'
  BY <1>0, <1>1
     DEF DeployInv, NamesMinted, UnpromotedUnrecorded, Recorded, files, docker,
         Command
<1> QED
  BY <1>2, <1>3, <1>4, <1>5, <1>6 DEF DeployInv

\* Killing a process keeps the invariant: what it promised died with it.
LEMMA CrashInductive ==
  ASSUME NEW p \in Procs, DeployInv, Crash(p)
  PROVE  DeployInv'
<1>0. /\ pc \in [Procs -> Labels] /\ cmd \in [Procs -> Command] /\ cmd[p].app \in Apps
      /\ NoCommand \in Command /\ NoCommand.op = "deploy" /\ NoCommand.stack = 0
      /\ NoCommand.app \in Apps
  BY NoCommandType DEF DeployInv, TypeOK, ProcsOK, Command, NoCommand, Fresh, Stable
<1>1. /\ pc' = [pc EXCEPT ![p] = "idle"]
      /\ cmd' = [cmd EXCEPT ![p] = NoCommand]
      /\ snap' = [snap EXCEPT ![p] = NoSnap]
      /\ crashes' = crashes + 1
      /\ torn' \in {torn, torn \cup {cmd[p].app}}
      /\ UNCHANGED <<files, docker, ingress, commands>>
  BY DEF Crash, Exit
<1>2. TypeOK'
  <2>1. pc' \in [Procs -> Labels] /\ cmd' \in [Procs -> Command]
    BY <1>0, <1>1 DEF Labels
  <2>2. snap' \in [Procs -> [conf: [Apps -> Route], routes: [Apps -> Route]]]
    BY <1>1 DEF DeployInv, TypeOK, ProcsOK, NoSnap, NoRoutes, Route
  <2>3. ModelOK'
    BY <1>0, <1>1 DEF DeployInv, TypeOK, ModelOK
  <2> QED
    BY <1>1, <2>1, <2>2, <2>3
       DEF DeployInv, TypeOK, ProcsOK, FilesOK, DockerOK, IngressOK,
                                  files, docker, ingress
<1>3. Mutex'
  BY <1>0, <1>1 DEF DeployInv, Mutex, HoldsRegistry, BeforeApp
<1>4. ProcInv(p)'
  BY <1>0, <1>1
     DEF ProcInv, RemoveShape, DeployShape, CandidateUnrecorded, NewestIsMine,
                    OwnsJournal, StagesAt, Undecided, Promoting, Committing
<1>5. ASSUME NEW q \in Procs \ {p} PROVE ProcInv(q)'
  BY <1>0, <1>1, Bystander DEF DeployInv
<1>6. NamesMinted'
  <2>1. minted[NoCommand.app] \in Int /\ 0 <= minted[NoCommand.app]
    BY <1>0 DEF DeployInv, TypeOK, DockerOK, Stacks
  <2> QED
    BY <1>0, <1>1, <2>1 DEF DeployInv, NamesMinted, Recorded, files, docker
<1>7. UnpromotedUnrecorded'
  BY <1>1 DEF DeployInv, UnpromotedUnrecorded, Recorded, files
<1> QED
  BY <1>2, <1>3, <1>4, <1>5, <1>6, <1>7 DEF DeployInv

\* An operator who clears a journal keeps the invariant, as no command of that
\* app is running.
LEMMA OperatorInductive ==
  ASSUME NEW a \in Apps, DeployInv, OperatorClears(a)
  PROVE  DeployInv'
<1>1. /\ journal' = [journal EXCEPT ![a] = {}]
      /\ \A p \in Procs : ~(HoldsRegistry(p) /\ cmd[p].app = a)
      /\ UNCHANGED <<history, lockGen, docker, ingress, pc, cmd, snap, model>>
  BY DEF OperatorClears
<1>2. journal \in [Apps -> SUBSET Journal]
  BY DEF DeployInv, TypeOK, FilesOK
<1>3. TypeOK'
  BY <1>1, <1>2
     DEF DeployInv, TypeOK, ProcsOK, FilesOK, DockerOK, IngressOK, ModelOK,
                    docker, ingress, model
<1>4. Mutex'
  BY <1>1 DEF DeployInv, Mutex, HoldsRegistry
<1>5. ASSUME NEW q \in Procs PROVE ProcInv(q)'
  <2>1. CASE ~HoldsRegistry(q)
    BY <1>1, <2>1, Bystander DEF DeployInv
  <2>2. CASE cmd[q].app # a
    <3>1. journal'[cmd[q].app] = journal[cmd[q].app]
      BY <1>1, <1>2, <2>2 DEF DeployInv, TypeOK, ProcsOK, Command
    <3>2. OwnsJournal(q)'
      BY <1>1, <3>1 DEF DeployInv, ProcInv, OwnsJournal
    <3> QED
      BY <1>1, <3>2
         DEF DeployInv, ProcInv, RemoveShape, DeployShape, CandidateUnrecorded,
                        NewestIsMine, Recorded
  <2> QED
    BY <1>1, <2>1, <2>2
<1>6. NamesMinted' /\ UnpromotedUnrecorded'
  BY <1>1, <1>2 DEF DeployInv, NamesMinted, UnpromotedUnrecorded, Recorded, docker
<1> QED
  BY <1>3, <1>4, <1>5, <1>6 DEF DeployInv

-----------------------------------------------------------------------------
(* The recorded stack.                                                     *)

\* Only Remove's step takes the newest recorded stack away.
LEMMA StepKeepsRecorded ==
  ASSUME NEW p \in Procs, TypeOK, ProcInv(p), UnpromotedUnrecorded,
         NEW a \in Apps, NEW i \in DOMAIN history[a], IsLatest(a, i),
         Dies(a, history[a][i].stack), Step(p)
  PROVE  At(p, "rm_stack") /\ cmd[p].app = a
<1> PICK s : s = history[a][i].stack
  OBVIOUS
<1>0. /\ cmd[p].app \in Apps /\ cmd[p].stack \in Stacks
      /\ runs \in [Apps -> [Stacks -> Workload]]
      /\ s \in Stacks /\ s \in Recorded(a) /\ runs[a][s] # Absent /\ runs'[a][s] = Absent
      /\ Stable \in Stacks
  <2>1. history[a] \in Seq(Record)
    BY DEF TypeOK, FilesOK
  <2>2. history[a][i] \in Record
    BY <2>1, LenProperties, ElementOfSeq
  <2>3. s \in Recorded(a)
    BY DEF IsLatest, Successful, Recorded, StacksOf
  <2> QED
    BY <2>2, <2>3, BoundsAssumption
       DEF TypeOK, ProcsOK, DockerOK, Command, Record, Dies, Stacks, Stable
<1> USE DEF docker
<1>1. CASE Locking(p)
  BY <1>0, <1>1 DEF Locking, ReadPrevious, OpenLock, LockApp, LockRegistry
<1>2. CASE Recovery(p)
  <2>1. CASE RecoverCandidate(p)
    <3>1. PICK j \in journal[cmd[p].app] :
            Unpromoted(j) /\ runs' = [runs EXCEPT ![cmd[p].app][j.stack] = Absent]
      BY <2>1 DEF RecoverCandidate
    <3>2. j.stack \notin Recorded(cmd[p].app)
      BY <1>0, <3>1 DEF UnpromotedUnrecorded
    <3> QED
      BY <1>0, <3>1, <3>2
  <2>2. CASE RecoverNothing(p) \/ RecoverClear(p) \/ RecoverInPlace(p)
    BY <1>0, <2>2 DEF RecoverNothing, RecoverClear, RecoverInPlace
  <2> QED
    BY <1>2, <2>1, <2>2 DEF Recovery
<1>3. CASE Rollout(p)
  <2>1. CASE Begin(p)
    BY <1>0, <2>1 DEF Begin, BeginAs
  <2>2. CASE StackDeploy(p)
    <3>1. cmd[p].rel # Absent
      BY NamesAssumption, <2>2
         DEF StackDeploy, At, ProcInv, DeployShape, RemoveShape, Undecided,
             RemoveLabels
    <3> QED
      BY <1>0, <3>1, <2>2 DEF StackDeploy, Submit
  <2>3. CASE StackDeployFails(p)
    <3>1. cmd[p].rel # Absent
      BY NamesAssumption, <2>3
         DEF StackDeployFails, At, ProcInv, DeployShape, RemoveShape, Undecided,
             RemoveLabels
    <3> QED
      BY <1>0, <3>1, <2>3 DEF StackDeployFails, Submit
  <2>4. CASE RolloutFails(p)
    <3>1. runs' = runs \/ SwarmRollsBack(p)
      BY <2>4 DEF RolloutFails
    <3> QED
      BY <1>0, <3>1 DEF SwarmRollsBack
  <2>5. CASE MarkDeployed(p) \/ Verify(p) \/ Converge(p) \/ CancelledBeforePromotion(p)
    BY <1>0, <2>5 DEF MarkDeployed, Verify, Converge, CancelledBeforePromotion
  <2> QED
    BY <1>3, <2>1, <2>2, <2>3, <2>4, <2>5 DEF Rollout
<1>4. CASE TakeBack(p)
  <2>1. CASE UndoCandidate(p)
    <3>1. cmd[p].stack \notin Recorded(cmd[p].app)
      BY <2>1 DEF UndoCandidate, At, ProcInv, CandidateUnrecorded, Undecided
    <3> QED
      BY <1>0, <3>1, <2>1 DEF UndoCandidate
  <2>2. CASE UndoInPlace(p)
    BY <1>0, NamesAssumption, <2>2 DEF UndoInPlace
  <2>3. CASE DropCandidate(p)
    <3>1. cmd[p].bg => cmd[p].stack \notin Recorded(cmd[p].app)
      BY <2>3 DEF DropCandidate, At, ProcInv, CandidateUnrecorded, Undecided
    <3> QED
      BY <1>0, <3>1, <2>3 DEF DropCandidate
  <2>4. CASE Archive(p) \/ RecordFailure(p) \/ Unwind(p)
    BY <1>0, <2>4 DEF Archive, RecordFailure, Unwind
  <2> QED
    BY <1>4, <2>1, <2>2, <2>3, <2>4 DEF TakeBack
<1>5. CASE Ingress(p)
  BY <1>0, <1>5
     DEF Ingress, EnsureNetwork, NothingToRoute, WriteConf, WriteRoutes,
         Reload, ReloadFails, Certificates, NothingToRestore, Restore,
         RestoreFails, RestoreReload, RestoreReloadFails
<1>6. CASE Commit(p)
  <2>1. CASE RemoveStale(p)
    <3> PICK h \in Seq(Record) : h = history[a]
      BY DEF TypeOK, FilesOK
    <3>1. PICK gone \in SUBSET (Live(cmd[p].app) \ {cmd[p].stack}) :
            runs' = [runs EXCEPT ![cmd[p].app] =
                       [t \in Stacks |-> IF t \in gone THEN Absent ELSE runs[cmd[p].app][t]]]
      BY <2>1 DEF RemoveStale
    <3>2. CASE a = cmd[p].app
      <4>1. h # <<>> /\ h[Len(h)].ok /\ h[Len(h)].stack = cmd[p].stack
        BY <3>2, <2>1 DEF RemoveStale, At, ProcInv, NewestIsMine
      <4>2. Len(h) \in DOMAIN h /\ i \in 1..Len(h) /\ Len(h) \in Nat
        BY <4>1, LenProperties, EmptySeq
      <4>3. i = Len(h)
        BY <4>1, <4>2 DEF IsLatest, Successful
      <4>4. s = cmd[p].stack /\ s \notin gone
        BY <4>1, <4>3
      <4> QED
        BY <1>0, <3>1, <3>2, <4>4
    <3>3. CASE a # cmd[p].app
      BY <1>0, <3>1, <3>3
    <3> QED
      BY <3>2, <3>3
  <2>2. CASE \/ MarkIngress(p) \/ MarkIngressFails(p) \/ SaveRecord(p)
             \/ MarkSaved(p) \/ SetLatest(p) \/ ClearJournal(p)
    BY <1>0, <2>2
       DEF MarkIngress, MarkIngressFails, SaveRecord, MarkSaved, SetLatest,
           ClearJournal
  <2> QED
    BY <1>6, <2>1, <2>2 DEF Commit
<1>7. CASE Removal(p)
  <2>1. CASE RemoveStack(p)
    <3>1. PICK t : runs' = [runs EXCEPT ![cmd[p].app][t] = Absent]
      BY <2>1 DEF RemoveStack
    <3> QED
      BY <1>0, <3>1, <2>1 DEF RemoveStack
  <2>2. CASE RemoveState(p) \/ RemoveStateFails(p)
    BY <1>0, <2>2 DEF RemoveState, RemoveStateFails
  <2> QED
    BY <1>7, <2>1, <2>2 DEF Removal
<1>8. CASE Fails(p)
  BY <1>0, <1>8 DEF Fails
<1> QED
  BY <1>1, <1>2, <1>3, <1>4, <1>5, <1>6, <1>7, <1>8 DEF Step

-----------------------------------------------------------------------------
(* The theorems.                                                           *)

\* The invariant holds at the start.
LEMMA InitInductive ==
  ASSUME Init
  PROVE  DeployInv
<1>0. /\ NoCommand \in Command /\ NoCommand.stack = 0
      /\ NoCommand.app \in Apps /\ NoCommand.op = "deploy"
  BY NoCommandType DEF Command, NoCommand, Fresh, Stable
<1>1. TypeOK
  <2>1. FilesOK
    <3>1. <<>> \in Seq(Record)
      OBVIOUS
    <3> QED
      BY <3>1 DEF Init, FilesOK
  <2>2. DockerOK /\ IngressOK /\ ModelOK
    BY BoundsAssumption
       DEF Init, DockerOK, IngressOK, ModelOK, NoRoutes, Route, Stacks, Workload
  <2>3. ProcsOK
    BY <1>0 DEF Init, ProcsOK, Labels, NoSnap, NoRoutes, Route
  <2> QED
    BY <2>1, <2>2, <2>3 DEF TypeOK
<1>2. Mutex
  BY DEF Init, Mutex, HoldsRegistry, BeforeApp
<1>3. ASSUME NEW p \in Procs PROVE ProcInv(p)
  BY <1>0
     DEF Init, ProcInv, RemoveShape, DeployShape, CandidateUnrecorded,
         NewestIsMine,
              OwnsJournal, StagesAt, Undecided, Promoting, Committing
<1>4. \A a \in Apps : Recorded(a) = {}
  BY DEF Init, Recorded, StacksOf
<1>5. NamesMinted
  BY <1>0, <1>4 DEF Init, NamesMinted
<1>6. UnpromotedUnrecorded
  BY DEF Init, UnpromotedUnrecorded
<1> QED
  BY <1>1, <1>2, <1>3, <1>5, <1>6 DEF DeployInv

\* Every step of the system keeps it.
LEMMA NextInductive ==
  ASSUME DeployInv, [Next]_vars
  PROVE  DeployInv'
<1>1. ASSUME NEW p \in Procs, Start(p) \/ Step(p) \/ Cancel(p) \/ Crash(p)
      PROVE  DeployInv'
  BY <1>1, StartInductive, StepInductive, CancelInductive, CrashInductive
<1>2. ASSUME NEW a \in Apps, OperatorClears(a) PROVE DeployInv'
  BY <1>2, OperatorInductive
<1>3. CASE UNCHANGED vars
  <2>1. UNCHANGED <<files, docker, ingress, model>> /\ UNCHANGED <<pc, cmd, snap>>
    BY <1>3 DEF vars
  <2>2. TypeOK'
    BY <2>1 DEF DeployInv, TypeOK, ProcsOK, FilesOK, DockerOK, IngressOK, ModelOK,
                files, docker, ingress, model
  <2>3. Mutex'
    BY <2>1 DEF DeployInv, Mutex, HoldsRegistry
  <2>4. ASSUME NEW p \in Procs PROVE ProcInv(p)'
    BY <2>1, Bystander DEF DeployInv
  <2>5. NamesMinted' /\ UnpromotedUnrecorded'
    BY <2>1
       DEF DeployInv, NamesMinted, UnpromotedUnrecorded, Recorded, files, docker
  <2> QED
    BY <2>2, <2>3, <2>4, <2>5 DEF DeployInv
<1> QED
  BY <1>1, <1>2, <1>3 DEF Next

\* Every behaviour keeps the inductive invariant.
THEOREM Inductive == Spec => []DeployInv
BY InitInductive, NextInductive, PTL DEF Spec

\* The variables have their types.
THEOREM TypeCorrect == Spec => []TypeOK
<1>1. DeployInv => TypeOK
  BY DEF DeployInv
<1> QED
  BY <1>1, Inductive, PTL

\* Between its first journal entry and its return, a deploy finds in
\* operation.json the entry it wrote itself.
THEOREM JournalIsOwned == Spec => []JournalOwned
<1>1. DeployInv => JournalOwned
  BY DEF DeployInv, ProcInv, JournalOwned
<1> QED
  BY <1>1, Inductive, PTL

\* The candidate that recovery deletes is never recorded as successful.
THEOREM RecoverySparesRecorded == Spec => []UnpromotedUnrecorded
<1>1. DeployInv => UnpromotedUnrecorded
  BY DEF DeployInv
<1> QED
  BY <1>1, Inductive, PTL

\* At most one command is past operationLock.
THEOREM OneAtATime == Spec => []Mutex
<1>1. DeployInv => Mutex
  BY DEF DeployInv
<1> QED
  BY <1>1, Inductive, PTL

\* No step but Remove's deletes the stack of the newest successful record.
THEOREM RecordedStackIsKept == Spec => RecordedStackKept
<1> DEFINE A == \A a \in Apps, s \in Stacks :
       /\ Dies(a, s)
       /\ \E i \in DOMAIN history[a] : IsLatest(a, i) /\ history[a][i].stack = s
       => \E p \in Procs : At(p, "rm_stack") /\ cmd[p].app = a
<1>1. DeployInv /\ [Next]_vars => [A]_vars
  <2> SUFFICES ASSUME DeployInv, Next, NEW a \in Apps, NEW i \in DOMAIN history[a],
                      IsLatest(a, i), Dies(a, history[a][i].stack)
               PROVE  \E p \in Procs : At(p, "rm_stack") /\ cmd[p].app = a
    OBVIOUS
  <2>1. ASSUME NEW p \in Procs, Step(p)
        PROVE  At(p, "rm_stack") /\ cmd[p].app = a
    BY <2>1, StepKeepsRecorded DEF DeployInv
  <2>2. ASSUME NEW p \in Procs, Start(p) \/ Cancel(p) \/ Crash(p)
        PROVE  FALSE
    BY <2>2 DEF Start, Cancel, Crash, docker, Dies
  <2>3. ASSUME NEW b \in Apps, OperatorClears(b)
        PROVE  FALSE
    BY <2>3 DEF OperatorClears, docker, Dies
  <2> QED
    BY <2>1, <2>2, <2>3 DEF Next
<1> QED
  BY <1>1, Inductive, PTL DEF Spec, RecordedStackKept
=============================================================================
