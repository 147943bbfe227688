---------------------------- MODULE StageProofs ----------------------------
(***************************************************************************)
(* Proofs about the stages of a deploy: RolloutMonitor, for any tasks,     *)
(* desired count and windows, AppNames, for any names, manifests and       *)
(* number of edits, StackRendering, for any Compose files and networks of  *)
(* others, EnvironmentFiles, for any keys, configs and contents of files   *)
(* and however configs change, and the stages together.                    *)
(***************************************************************************)
EXTENDS MCDeployStages, ReleaseTargetsProofs

-----------------------------------------------------------------------------
(* RolloutMonitor *)


\* Clocks and deadlines stay natural numbers.
LEMMA ClockStep ==
  ASSUME ClockOK, [Next]_vars
  PROVE  ClockOK'
<1> USE WindowsAssumption DEF ClockOK, Deadline
<1>1. CASE Observe
  BY <1>1 DEF Observe, swarm, seen, memory
<1>2. CASE ReadStatus
  BY <1>2 DEF ReadStatus, End, Verdict, swarm, memory
<1>3. CASE ReadTasks
  BY <1>3 DEF ReadTasks, swarm, seen, memory
<1>4. CASE CallFails
  BY <1>4 DEF CallFails, End, swarm, seen, memory
<1>5. CASE DecideConvergence
  BY <1>5 DEF DecideConvergence, End, Sleep, swarm, seen, memory
<1>6. CASE DecideMonitor
  BY <1>6 DEF DecideMonitor, End, Sleep, swarm, seen, memory
<1>7. CASE Wake
  BY <1>7 DEF Wake, End, swarm, seen, memory
<1>8. CASE Tick
  BY <1>8 DEF Tick, swarm, seen, memory
<1>9. CASE Cancel
  BY <1>9 DEF Cancel, swarm, seen, memory
<1>10. CASE UpdateMoves
  BY <1>10 DEF UpdateMoves, swarm, seen, memory
<1>11. CASE \E t \in Tasks : TaskMoves(t)
  BY <1>11 DEF TaskMoves, swarm, seen, memory
<1>12. CASE UNCHANGED vars
  BY <1>12 DEF vars, swarm, seen, memory
<1> QED
  BY <1>1, <1>2, <1>3, <1>4, <1>5, <1>6, <1>7, <1>8, <1>9, <1>10, <1>11, <1>12 DEF Next, Loop

\* Swarm and the answers stay well typed.
LEMMA SwarmStep ==
  ASSUME SwarmOK, [Next]_vars
  PROVE  SwarmOK'
<1> USE DEF SwarmOK, UpdateStates, TaskStates
<1>1. CASE Observe
  BY <1>1 DEF Observe, swarm, seen, memory
<1>2. CASE ReadStatus
  BY <1>2 DEF ReadStatus, End, Verdict, swarm, memory
<1>3. CASE ReadTasks
  BY <1>3 DEF ReadTasks, swarm, seen, memory
<1>4. CASE CallFails
  BY <1>4 DEF CallFails, End, swarm, seen, memory
<1>5. CASE DecideConvergence
  BY <1>5 DEF DecideConvergence, End, Sleep, swarm, seen, memory
<1>6. CASE DecideMonitor
  BY <1>6 DEF DecideMonitor, End, Sleep, swarm, seen, memory
<1>7. CASE Wake
  BY <1>7 DEF Wake, End, swarm, seen, memory
<1>8. CASE Tick
  BY <1>8 DEF Tick, swarm, seen, memory
<1>9. CASE Cancel
  BY <1>9 DEF Cancel, swarm, seen, memory
<1>10. CASE UpdateMoves
  BY <1>10 DEF UpdateMoves, swarm, seen, memory
<1>11. CASE \E t \in Tasks : TaskMoves(t)
  BY <1>11, ZenonT(30) DEF TaskMoves, swarm, seen, memory, Successors
<1>12. CASE UNCHANGED vars
  BY <1>12 DEF vars, swarm, seen, memory
<1> QED
  BY <1>1, <1>2, <1>3, <1>4, <1>5, <1>6, <1>7, <1>8, <1>9, <1>10, <1>11, <1>12 DEF Next, Loop

\* So does what the process remembers.
LEMMA MemoryStep ==
  ASSUME MemoryOK, [Next]_vars
  PROVE  MemoryOK'
<1> USE DEF MemoryOK
<1>1. CASE Observe
  BY <1>1 DEF Observe, swarm, seen, memory
<1>2. CASE ReadStatus
  BY <1>2 DEF ReadStatus, End, Verdict, swarm, memory
<1>3. CASE ReadTasks
  BY <1>3 DEF ReadTasks, swarm, seen, memory
<1>4. CASE CallFails
  BY <1>4 DEF CallFails, End, swarm, seen, memory
<1>5. CASE DecideConvergence
  BY <1>5 DEF DecideConvergence, End, Sleep, swarm, seen, memory, RunningIDs, Listed, SwarmConverged
<1>6. CASE DecideMonitor
  BY <1>6 DEF DecideMonitor, End, Sleep, swarm, seen, memory, Churned, SwarmConverged
<1>7. CASE Wake
  BY <1>7 DEF Wake, End, swarm, seen, memory
<1>8. CASE Tick
  BY <1>8 DEF Tick, swarm, seen, memory
<1>9. CASE Cancel
  BY <1>9 DEF Cancel, swarm, seen, memory
<1>10. CASE UpdateMoves
  BY <1>10 DEF UpdateMoves, swarm, seen, memory
<1>11. CASE \E t \in Tasks : TaskMoves(t)
  BY <1>11 DEF TaskMoves, swarm, seen, memory
<1>12. CASE UNCHANGED vars
  BY <1>12 DEF vars, swarm, seen, memory
<1> QED
  BY <1>1, <1>2, <1>3, <1>4, <1>5, <1>6, <1>7, <1>8, <1>9, <1>10, <1>11, <1>12 DEF Next, Loop

\* The process ends with an outcome and not before.
LEMMA ControlStep ==
  ASSUME ControlOK, [Next]_vars
  PROVE  ControlOK'
<1> USE DEF ControlOK, Labels, Outcomes
<1>1. CASE Observe
  BY <1>1 DEF Observe, swarm, seen, memory
<1>2. CASE ReadStatus
  BY <1>2 DEF ReadStatus, End, Verdict, swarm, memory
<1>3. CASE ReadTasks
  BY <1>3 DEF ReadTasks, swarm, seen, memory
<1>4. CASE CallFails
  BY <1>4 DEF CallFails, End, swarm, seen, memory
<1>5. CASE DecideConvergence
  BY <1>5 DEF DecideConvergence, End, Sleep, swarm, seen, memory
<1>6. CASE DecideMonitor
  BY <1>6 DEF DecideMonitor, End, Sleep, swarm, seen, memory
<1>7. CASE Wake
  BY <1>7 DEF Wake, End, swarm, seen, memory
<1>8. CASE Tick
  BY <1>8 DEF Tick, swarm, seen, memory
<1>9. CASE Cancel
  BY <1>9 DEF Cancel, swarm, seen, memory
<1>10. CASE UpdateMoves
  BY <1>10 DEF UpdateMoves, swarm, seen, memory
<1>11. CASE \E t \in Tasks : TaskMoves(t)
  BY <1>11 DEF TaskMoves, swarm, seen, memory
<1>12. CASE UNCHANGED vars
  BY <1>12 DEF vars, swarm, seen, memory
<1> QED
  BY <1>1, <1>2, <1>3, <1>4, <1>5, <1>6, <1>7, <1>8, <1>9, <1>10, <1>11, <1>12 DEF Next, Loop

\* A round that starts inside the window cannot leave it by more than Slack,
\* because the interval between rounds is no longer than that.
LEMMA WindowStep ==
  ASSUME ClockOK, ControlOK, InWindow, DecidesInWindow, [Next]_vars
  PROVE  InWindow' /\ DecidesInWindow'
<1> USE WindowsAssumption DEF ClockOK, ControlOK, InWindow, DecidesInWindow, Waiting, Deadline, Labels, Outcomes
<1>1. CASE Observe
  BY <1>1 DEF Observe, swarm, seen, memory
<1>2. CASE ReadStatus
  BY <1>2 DEF ReadStatus, End, Verdict, swarm, memory
<1>3. CASE ReadTasks
  BY <1>3 DEF ReadTasks, swarm, seen, memory
<1>4. CASE CallFails
  BY <1>4 DEF CallFails, End, swarm, seen, memory
<1>5. CASE DecideConvergence
  BY <1>5 DEF DecideConvergence, End, Sleep, swarm, seen, memory
<1>6. CASE DecideMonitor
  BY <1>6 DEF DecideMonitor, End, Sleep, swarm, seen, memory
<1>7. CASE Wake
  BY <1>7 DEF Wake, End, swarm, seen, memory
<1>8. CASE Tick
  BY <1>8 DEF Tick, swarm, seen, memory
<1>9. CASE Cancel
  BY <1>9 DEF Cancel, swarm, seen, memory
<1>10. CASE UpdateMoves
  BY <1>10 DEF UpdateMoves, swarm, seen, memory
<1>11. CASE \E t \in Tasks : TaskMoves(t)
  BY <1>11 DEF TaskMoves, swarm, seen, memory
<1>12. CASE UNCHANGED vars
  BY <1>12 DEF vars, swarm, seen, memory
<1> QED
  BY <1>1, <1>2, <1>3, <1>4, <1>5, <1>6, <1>7, <1>8, <1>9, <1>10, <1>11, <1>12 DEF Next, Loop

\* Only DecideConvergence and DecideMonitor can complete a rollout.
LEMMA SuccessStep ==
  ASSUME ControlOK, SuccessIsStable, [Next]_vars
  PROVE  SuccessIsStable'
<1> USE DEF ControlOK, SuccessIsStable
<1>1. CASE Observe
  BY <1>1 DEF Observe, swarm, seen, memory
<1>2. CASE ReadStatus
  BY <1>2 DEF ReadStatus, End, Verdict, swarm, memory
<1>3. CASE ReadTasks
  BY <1>3 DEF ReadTasks, swarm, seen, memory
<1>4. CASE CallFails
  BY <1>4 DEF CallFails, End, swarm, seen, memory
<1>5. CASE DecideConvergence
  BY <1>5 DEF DecideConvergence, End, Sleep, swarm, seen, memory, FailedIDs, Listed
<1>6. CASE DecideMonitor
  BY <1>6 DEF DecideMonitor, End, Sleep, swarm, seen, memory, Churned
<1>7. CASE Wake
  BY <1>7 DEF Wake, End, swarm, seen, memory
<1>8. CASE Tick
  BY <1>8 DEF Tick, swarm, seen, memory
<1>9. CASE Cancel
  BY <1>9 DEF Cancel, swarm, seen, memory
<1>10. CASE UpdateMoves
  BY <1>10 DEF UpdateMoves, swarm, seen, memory
<1>11. CASE \E t \in Tasks : TaskMoves(t)
  BY <1>11 DEF TaskMoves, swarm, seen, memory
<1>12. CASE UNCHANGED vars
  BY <1>12 DEF vars, swarm, seen, memory
<1> QED
  BY <1>1, <1>2, <1>3, <1>4, <1>5, <1>6, <1>7, <1>8, <1>9, <1>10, <1>11, <1>12 DEF Next, Loop

\* While Swarm is quiet every answer is the one the window began with.
LEMMA StillStep ==
  ASSUME ControlOK, MemoryOK, SeenIsCurrent, StillStable, AlarmMeansChange, [Next]_vars
  PROVE  (SeenIsCurrent /\ StillStable /\ AlarmMeansChange)'
<1> USE DEF ControlOK, MemoryOK, SeenIsCurrent, StillStable, AlarmMeansChange
<1>1. CASE Observe
  BY <1>1 DEF Observe, swarm, seen, memory
<1>2. CASE ReadStatus
  BY <1>2 DEF ReadStatus, End, Verdict, swarm, memory
<1>3. CASE ReadTasks
  BY <1>3 DEF ReadTasks, swarm, seen, memory
<1>4. CASE CallFails
  BY <1>4 DEF CallFails, End, swarm, seen, memory
<1>5. CASE DecideConvergence
  BY <1>5 DEF DecideConvergence, End, Sleep, swarm, seen, memory, FailedIDs, Listed
<1>6. CASE DecideMonitor
  BY <1>6 DEF DecideMonitor, End, Sleep, swarm, seen, memory, Churned
<1>7. CASE Wake
  BY <1>7 DEF Wake, End, swarm, seen, memory
<1>8. CASE Tick
  BY <1>8 DEF Tick, swarm, seen, memory
<1>9. CASE Cancel
  BY <1>9 DEF Cancel, swarm, seen, memory
<1>10. CASE UpdateMoves
  BY <1>10 DEF UpdateMoves, swarm, seen, memory
<1>11. CASE \E t \in Tasks : TaskMoves(t)
  BY <1>11 DEF TaskMoves, swarm, seen, memory
<1>12. CASE UNCHANGED vars
  BY <1>12 DEF vars, swarm, seen, memory
<1> QED
  BY <1>1, <1>2, <1>3, <1>4, <1>5, <1>6, <1>7, <1>8, <1>9, <1>10, <1>11, <1>12 DEF Next, Loop

LEMMA MonitorInvInit == Init => MonitorInv
<1> SUFFICES ASSUME Init PROVE MonitorInv
  OBVIOUS
<1>1. TypeOK
  BY WindowsAssumption
     DEF Init, TypeOK, ClockOK, SwarmOK, MemoryOK, ControlOK, UpdateStates,
         TaskStates, Labels, Outcomes
<1>2. DecidesInWindow /\ InWindow
  <2>1. now = 0 /\ pc = "start" /\ ~converged /\ outcome = "none"
    BY DEF Init
  <2> QED
    BY <2>1, WindowsAssumption DEF DecidesInWindow, InWindow, Waiting, Deadline
<1>3. SuccessIsStable /\ AlarmMeansChange /\ SeenIsCurrent /\ StillStable
  BY DEF Init, SuccessIsStable, AlarmMeansChange, SeenIsCurrent, StillStable
<1> QED
  BY <1>1, <1>2, <1>3 DEF MonitorInv

LEMMA MonitorInvStep == MonitorInv /\ [Next]_vars => MonitorInv'
<1> SUFFICES ASSUME MonitorInv, [Next]_vars PROVE MonitorInv'
  OBVIOUS
<1>1. TypeOK'
  BY ClockStep, SwarmStep, MemoryStep, ControlStep DEF MonitorInv, TypeOK
<1>2. DecidesInWindow' /\ InWindow'
  BY WindowStep DEF MonitorInv, TypeOK
<1>3. SuccessIsStable'
  BY SuccessStep DEF MonitorInv, TypeOK
<1>4. AlarmMeansChange' /\ SeenIsCurrent' /\ StillStable'
  BY StillStep DEF MonitorInv, TypeOK
<1> QED
  BY <1>1, <1>2, <1>3, <1>4 DEF MonitorInv

\* MonitorInv holds in every reachable state.
THEOREM MonitorInvariant == Spec => []MonitorInv
  BY MonitorInvInit, MonitorInvStep, PTL DEF Spec

\* Every variable keeps its type.
THEOREM MonitorTypes == Spec => []TypeOK
<1>1. MonitorInv => TypeOK
  BY DEF MonitorInv
<1> QED
  BY <1>1, MonitorInvariant, PTL

\* The wait lasts at most Timeout + Monitor + Slack, and its verdict comes
\* after the window that decides it.
THEOREM WaitIsBounded == Spec => []DecidesInWindow
<1>1. MonitorInv => DecidesInWindow
  BY DEF MonitorInv
<1> QED
  BY <1>1, MonitorInvariant, PTL

\* A completed rollout kept the tasks it converged with.
THEOREM SuccessMeansStable == Spec => []SuccessIsStable
<1>1. MonitorInv => SuccessIsStable
  BY DEF MonitorInv
<1> QED
  BY <1>1, MonitorInvariant, PTL

\* A converged service that Swarm leaves alone is not reported as failed.
THEOREM NoFalseAlarm == Spec => []AlarmMeansChange
<1>1. MonitorInv => AlarmMeansChange
  BY DEF MonitorInv
<1> QED
  BY <1>1, MonitorInvariant, PTL

\* The process knows of a change, is about to, or has given up.
Doomed ==
  /\ outcome # "completed"
  /\ \/ pc = "ended"
     \/ pc = "decide" /\ converged /\ Churned(seenTask)
     \/ unstable

LEMMA DoomedStep ==
  ASSUME MonitorInv, Doomed, [Next]_vars
  PROVE  Doomed'
<1> USE DEF Doomed
<1>0. (unstable => converged) /\ unstable \in BOOLEAN
  BY DEF MonitorInv, TypeOK, MemoryOK, StillStable
<1>1. CASE Observe
  BY <1>0, <1>1 DEF Observe, seen, memory
<1>2. CASE ReadStatus
  BY <1>0, <1>2 DEF ReadStatus, End, Verdict, memory
<1>3. CASE ReadTasks
  BY <1>0, <1>3 DEF ReadTasks, memory
<1>4. CASE CallFails
  BY <1>0, <1>4 DEF CallFails, End, seen, memory
<1>5. CASE DecideConvergence
  BY <1>0, <1>5 DEF DecideConvergence, End, Sleep, seen, memory
<1>6. CASE DecideMonitor
  BY <1>0, <1>6 DEF DecideMonitor, End, Sleep, seen, Churned
<1>7. CASE Wake
  BY <1>0, <1>7 DEF Wake, End, seen, memory
<1>8. CASE Tick
  BY <1>0, <1>8 DEF Tick, seen, memory, Churned
<1>9. CASE Cancel
  BY <1>0, <1>9 DEF Cancel, seen, memory, Churned
<1>10. CASE UpdateMoves
  BY <1>0, <1>10 DEF UpdateMoves, seen, memory, Churned
<1>11. CASE \E t \in Tasks : TaskMoves(t)
  BY <1>0, <1>11 DEF TaskMoves, seen, memory, Churned
<1>12. CASE UNCHANGED vars
  BY <1>12 DEF vars, seen, memory, Churned
<1> QED
  BY <1>1, <1>2, <1>3, <1>4, <1>5, <1>6, <1>7, <1>8, <1>9, <1>10, <1>11, <1>12 DEF Next, Loop

\* What the window has once seen is final: no later answer undoes it.
THEOREM LossStaysFinal == Spec => LossIsFinal
<1>1. MonitorInv /\ pc = "decide" /\ converged /\ Churned(seenTask) => Doomed
  BY DEF MonitorInv, TypeOK, ControlOK, Doomed
<1>2. MonitorInv /\ Doomed /\ [Next]_vars => Doomed'
  BY DoomedStep
<1>3. Doomed => outcome # "completed"
  BY DEF Doomed
<1> QED
  BY <1>1, <1>2, <1>3, MonitorInvariant, PTL DEF Spec, LossIsFinal

-----------------------------------------------------------------------------
(* AppNames: the inductive invariant *)

Holding == {"manifests", "rollout", "promote", "record", "sweep"}
Stacks  == {Stack(n, k) : n \in AppNames, k \in 0..MaxNameOps}
OwnStacks(n) == {Stack(n, k) : k \in 0..MaxNameOps}

Progresses ==
  [at : {"idle", "deploy", "remove"} \cup Holding, app : AppNames \cup {<<>>},
   path : Manifests \cup {""}, source : Declaration \cup {""}, retired : SUBSET AppNames,
   stack : Stacks \cup {NoRoute}, sweeps : SUBSET AppNames]

Traces ==
  [todo : SUBSET Manifests, loads : SUBSET (Manifests \X AppNames), declared : SUBSET AppNames,
   unique : BOOLEAN]

Deployments ==
  [stack : Stacks \cup {NoRoute}, path : Manifests \cup {""}, source : Declaration \cup {""}]

\* A process that does something does it to one app, of one manifest.
OwnProgress(d) == d.app \in AppNames /\ d.path \in Manifests /\ d.stack \in OwnStacks(d.app) \cup {NoRoute}

NamesTypes ==
  /\ declaredIn \in [Manifests -> [AppNames -> Declaration]]
  /\ catalogued \subseteq Manifests
  /\ appRecord \in [AppNames -> Deployments]
  /\ \A n \in AppNames : appRecord[n].stack \in OwnStacks(n) \cup {NoRoute}
  /\ appRoutes \in [AppNames -> Stacks \cup {NoRoute}]
  /\ \A n \in AppNames : appRoutes[n] \in OwnStacks(n) \cup {NoRoute}
  /\ appJournal \in [AppNames -> [stack : Stacks \cup {NoRoute}, promoted : BOOLEAN]]
  /\ \A n \in AppNames : appJournal[n].stack \in OwnStacks(n) \cup {NoRoute}
  /\ swarmStacks \subseteq Stacks
  /\ namer \in [Namers -> Progresses]
  /\ \A c \in Namers : namer[c].at # "idle" => OwnProgress(namer[c])
  /\ trace \in Traces
  /\ nameOps \in 0..MaxNameOps
  /\ staysDeclared \subseteq AppNames /\ slipped \subseteq AppNames

\* registry.lock has one holder, and processes begin one after another.
OneHolder ==
  /\ \A b, c \in Namers : namer[b].at \in Holding /\ namer[c].at \in Holding => b = c
  /\ \A c \in Namers : c > nameOps => namer[c].at = "idle"

\* No record and no route has the candidate that c may still deploy.
Unused(c) == \A n \in AppNames : appRecord[n].stack.attempt # c /\ appRoutes[n].attempt # c

CandidatesAreNew ==
  \A c \in Namers : c > nameOps \/ namer[c].at \in {"deploy", "manifests", "rollout", "promote"} => Unused(c)

\* What recovery may delete is neither recorded nor routed.
CandidatesAreApart ==
  \A n \in AppNames : appJournal[n].promoted \/ appJournal[n].stack = NoRoute
                        \/ appJournal[n].stack \notin {appRecord[n].stack, appRoutes[n]}

\* Names that are declared ever since their deployment, and did not slip past a trace.
Settled == staysDeclared \ slipped

\* What the holder of the lock has read and done; while it reads, each settled name
\* is among those that it has read, or in a manifest that it will read.
HolderKnows(c) ==
  LET d == namer[c] IN
  /\ d.at \in Holding => appJournal[d.app] = Unjournaled
  /\ d.at = "manifests" =>
       \A n \in Settled : \/ n \in trace.declared
                         \/ \E path \in catalogued \cap trace.todo : n \in Names(path)
  /\ d.at \in Holding \ {"manifests"} => d.app \notin d.retired /\ d.retired \cap Settled = {}
  /\ d.at \in {"promote", "record"} => d.stack \in swarmStacks
  /\ d.at \in {"promote", "record", "sweep"} => d.stack \in {Stack(d.app, 0), Stack(d.app, c)}
  /\ d.at \in {"record", "sweep"} => /\ appRoutes[d.app] \in {NoRoute, d.stack}
                                     /\ \A n \in d.retired : appRoutes[n] = NoRoute
  /\ d.at = "sweep" => appRecord[d.app].stack = d.stack /\ d.sweeps \subseteq d.retired \cup {d.app}

NamesInv ==
  /\ NamesTypes
  /\ OneHolder
  /\ CandidatesAreNew
  /\ CandidatesAreApart
  /\ staysDeclared \subseteq CataloguedNames
  /\ \A c \in Namers : HolderKnows(c)
  /\ NamesKeepTheirStacks

-----------------------------------------------------------------------------
(* AppNames: types *)

Tracing(c) == BeginTrace(c) \/ ReadManifest(c) \/ ReadSource(c) \/ TraceRetired(c)

NamerStep(c) ==
  \/ LoadService(c, "deploy") \/ LoadService(c, "remove")
  \/ Tracing(c) \/ RollOut(c) \/ Promote(c) \/ RecordDeployment(c)
  \/ SweepStacks(c) \/ RemoveApp(c)

\* The bound of the operations is a number.
LEMMA OpsBounded == MaxNameOps \in Nat
BY NamesAssumption

LEMMA ConstantTypes ==
  /\ AtRest \in Progresses /\ NoRecord \in Deployments /\ NoTrace \in Traces
  /\ Unjournaled \in [stack : Stacks \cup {NoRoute}, promoted : BOOLEAN]
  /\ \A n \in AppNames, k \in 0..MaxNameOps : Stack(n, k) \in OwnStacks(n) /\ Stack(n, k) \in Stacks
  /\ \A n \in AppNames : OwnStacks(n) \subseteq Stacks
  /\ \A c \in Namers : c \in 0..MaxNameOps /\ c # 0
  /\ 0 \in 0..MaxNameOps
<1>1. AtRest \in Progresses /\ NoTrace \in Traces
  BY DEF AtRest, Progresses, Holding, NoTrace, Traces
<1>2. NoRecord \in Deployments
  BY DEF NoRecord, Deployments
<1>3. Unjournaled \in [stack : Stacks \cup {NoRoute}, promoted : BOOLEAN]
  BY DEF Unjournaled
<1>4. \A n \in AppNames, k \in 0..MaxNameOps : Stack(n, k) \in OwnStacks(n) /\ Stack(n, k) \in Stacks
  BY DEF OwnStacks, Stacks
<1>5. \A n \in AppNames : OwnStacks(n) \subseteq Stacks
  BY DEF OwnStacks, Stacks
<1>6. /\ \A c \in Namers : c \in 0..MaxNameOps /\ c # 0
      /\ 0 \in 0..MaxNameOps
  BY OpsBounded DEF Namers
<1> QED
  BY <1>1, <1>2, <1>3, <1>4, <1>5, <1>6

\* A trace that has ended leaves what it found.
LEMMA TracedStep ==
  ASSUME NamesTypes, NEW c \in Namers, NEW found \in SUBSET AppNames, Traced(c, found)
  PROVE  /\ namer' = [namer EXCEPT ![c] = namer'[c]] /\ namer'[c] \in Progresses
         /\ namer'[c].at = "rollout" /\ namer'[c].retired = found
         /\ namer'[c].app = namer[c].app /\ namer'[c].stack = namer[c].stack
         /\ namer'[c].path = namer[c].path
<1> DEFINE d == namer[c]
           e == [d EXCEPT !.retired = found, !.at = "rollout"]
<1>1. namer' = [namer EXCEPT ![c] = e] /\ namer'[c] = e
  BY DEF Traced, NamesTypes
<1>2. d \in Progresses
  BY DEF NamesTypes
<1> HIDE DEF d
<1>3. e \in Progresses
  BY <1>2 DEF Progresses, Holding
<1>4. e.at = "rollout" /\ e.retired = found /\ e.app = d.app /\ e.stack = d.stack
      /\ e.path = d.path
  BY <1>2 DEF Progresses
<1> HIDE DEF e
<1> QED
  BY <1>1, <1>3, <1>4 DEF d

Reads(read) ==
  /\ trace'.todo = trace.todo \ read
  /\ trace'.declared = trace.declared \cup UNION {Names(path) : path \in read}

\* A trace is given up, goes on, or ends with what it found; it changes no records.
LEMMA TracingStep ==
  ASSUME NamesTypes, NEW c \in Namers, Tracing(c)
  PROVE  /\ namer[c].at \in {"deploy", "manifests"} /\ OwnProgress(namer[c])
         /\ UNCHANGED <<catalogued, declaredIn, appRecord, appRoutes, nameOps, staysDeclared, slipped>>
         /\ \/ /\ swarmStacks' = swarmStacks \ {appJournal[namer[c].app].stack}
               /\ ~appJournal[namer[c].app].promoted
               /\ appJournal' = [appJournal EXCEPT ![namer[c].app] = Unjournaled]
            \/ UNCHANGED <<swarmStacks, appJournal>> /\ (namer[c].at = "manifests" \/ Return(c))
         /\ trace' \in Traces
         /\ \/ Return(c)
            \/ Traced(c, {})
            \/ TraceRetired(c) /\ Traced(c, RetiredDeployments(namer[c]))
            \/ BeginTrace(c) /\ trace' = [NoTrace EXCEPT !.todo = Paths(namer[c])]
                 /\ namer' = [namer EXCEPT ![c] = [namer[c] EXCEPT !.at = "manifests"]]
            \/ namer[c].at = "manifests" /\ UNCHANGED namer
                 /\ \E read \in SUBSET trace.todo : Reads(read)
<1> DEFINE d == namer[c]
           Outcome ==
            \/ Return(c)
            \/ Traced(c, {})
            \/ TraceRetired(c) /\ Traced(c, RetiredDeployments(namer[c]))
            \/ BeginTrace(c) /\ trace' = [NoTrace EXCEPT !.todo = Paths(namer[c])]
                 /\ namer' = [namer EXCEPT ![c] = [namer[c] EXCEPT !.at = "manifests"]]
            \/ namer[c].at = "manifests" /\ UNCHANGED namer
                 /\ \E read \in SUBSET trace.todo : Reads(read)
<1>0. trace \in Traces /\ NoTrace \in Traces /\ catalogued \subseteq Manifests /\ d \in Progresses
  BY ConstantTypes DEF NamesTypes
<1>1. d.at \in {"deploy", "manifests"} /\ OwnProgress(d)
  BY DEF NamesTypes, Tracing, BeginTrace, ReadManifest, ReadSource, TraceRetired
<1>2. UNCHANGED <<catalogued, declaredIn, appRecord, appRoutes, nameOps, staysDeclared, slipped>>
  BY DEF Tracing, BeginTrace, ReadManifest, ReadSource, TraceRetired, namesInput, observers
<1>3. \/ /\ swarmStacks' = swarmStacks \ {appJournal[namer[c].app].stack}
         /\ ~appJournal[namer[c].app].promoted
         /\ appJournal' = [appJournal EXCEPT ![namer[c].app] = Unjournaled]
      \/ UNCHANGED <<swarmStacks, appJournal>> /\ (namer[c].at = "manifests" \/ Return(c))
  BY DEF Tracing, BeginTrace, ReadManifest, ReadSource, TraceRetired, Stops
<1>s. Stops(c) => trace' \in Traces /\ Outcome
  BY <1>0 DEF Stops
<1>t. ASSUME NEW found, Traced(c, found)
      PROVE  trace' \in Traces
  BY <1>0, <1>t DEF Traced
<1>a. Traced(c, {}) => Outcome
  OBVIOUS
<1>b. TraceRetired(c) /\ Traced(c, RetiredDeployments(d)) => Outcome
  OBVIOUS
<1>c. BeginTrace(c) /\ trace' = [NoTrace EXCEPT !.todo = Paths(d)]
        /\ namer' = [namer EXCEPT ![c] = [d EXCEPT !.at = "manifests"]] => Outcome
  OBVIOUS
<1>d. ASSUME d.at = "manifests", UNCHANGED namer, NEW read \in SUBSET trace.todo, Reads(read)
      PROVE  Outcome
  BY <1>d
<1> HIDE DEF Outcome
<1>u. ASSUME NEW path, Unreadable(c, path)
      PROVE  trace' \in Traces /\ Outcome
  BY <1>a, <1>s, <1>t, <1>u DEF Unreadable
<1>4. ASSUME BeginTrace(c)
      PROVE  trace' \in Traces /\ Outcome
  <2>1. CASE Stops(c) \/ Traced(c, {})
    BY <1>a, <1>s, <1>t, <2>1
  <2>2. CASE /\ namer' = [namer EXCEPT ![c].at = "manifests"]
             /\ trace' = [NoTrace EXCEPT !.todo = Paths(d)]
    <3>1. d.path \in Manifests
      BY <1>1 DEF OwnProgress
    <3>3. trace' \in Traces
      BY <1>0, <2>2, <3>1 DEF Traces, NoTrace, Paths
    <3>4. namer' = [namer EXCEPT ![c] = [d EXCEPT !.at = "manifests"]]
      BY <2>2
    <3> QED
      BY <1>4, <1>c, <2>2, <3>3, <3>4
  <2> QED
    BY <1>4, <2>1, <2>2 DEF BeginTrace
<1>5. ASSUME ReadManifest(c)
      PROVE  trace' \in Traces /\ Outcome
  <2>1. PICK path \in trace.todo :
          \/ Unreadable(c, path)
          \/ /\ trace' = [trace EXCEPT !.todo = @ \ {path}, !.declared = @ \cup Names(path),
                                       !.loads = ({path} \X Names(path)) \ {<<d.path, d.app>>}]
             /\ UNCHANGED namer
    BY <1>5 DEF ReadManifest
  <2>2. path \in Manifests /\ Names(path) \subseteq AppNames
    BY <1>0 DEF Traces, Names
  <2>3. CASE /\ trace' = [trace EXCEPT !.todo = @ \ {path}, !.declared = @ \cup Names(path),
                                       !.loads = ({path} \X Names(path)) \ {<<d.path, d.app>>}]
             /\ UNCHANGED namer
    <3> DEFINE loads == ({path} \X Names(path)) \ {<<d.path, d.app>>}
               names == Names(path)
    <3>1. loads \subseteq Manifests \X AppNames
      BY <2>2
    <3>2. trace' = [trace EXCEPT !.todo = @ \ {path}, !.declared = @ \cup names, !.loads = loads]
      BY <2>3
    <3>3. names \subseteq AppNames
      BY <2>2
    <3> HIDE DEF loads, names
    <3>4. /\ trace' \in Traces /\ trace'.todo = trace.todo \ {path}
          /\ trace'.declared = trace.declared \cup names
      BY <1>0, <3>1, <3>2, <3>3 DEF Traces
    <3>5. Reads({path}) /\ {path} \in SUBSET trace.todo
      BY <3>4 DEF names, Reads
    <3>6. d.at = "manifests"
      BY <1>5 DEF ReadManifest
    <3> QED
      BY <1>d, <2>3, <3>4, <3>5, <3>6
  <2> QED
    BY <1>u, <2>1, <2>3
<1>6. ASSUME ReadSource(c)
      PROVE  trace' \in Traces /\ Outcome
  <2>1. PICK load \in trace.loads :
          \/ Unreadable(c, load[1])
          \/ /\ trace' = [trace EXCEPT !.loads = @ \ {load},
                                       !.unique = @ /\ ~(d.source = "git"
                                                        /\ declaredIn[load[1]][load[2]] = "git")]
             /\ UNCHANGED namer
    BY <1>6 DEF ReadSource
  <2> DEFINE same == d.source = "git" /\ declaredIn[load[1]][load[2]] = "git"
  <2>2. CASE trace' = [trace EXCEPT !.loads = @ \ {load}, !.unique = @ /\ ~same] /\ UNCHANGED namer
    <3>1. same \in BOOLEAN
      OBVIOUS
    <3> HIDE DEF same
    <3>2. trace' \in Traces /\ trace'.todo = trace.todo /\ trace'.declared = trace.declared
      <4>1. trace' = [trace EXCEPT !.loads = trace.loads \ {load}, !.unique = trace.unique /\ ~same]
        BY <2>2
      <4>2. (trace.unique /\ ~same) \in BOOLEAN
        OBVIOUS
      <4> QED
        BY <1>0, <4>1, <4>2 DEF Traces
    <3>3. Reads({}) /\ {} \in SUBSET trace.todo
      BY <3>2 DEF Reads
    <3>4. d.at = "manifests"
      BY <1>6 DEF ReadSource
    <3> QED
      BY <1>d, <2>2, <3>2, <3>3, <3>4
  <2> QED
    BY <1>u, <2>1, <2>2
<1>7. ASSUME TraceRetired(c)
      PROVE  trace' \in Traces /\ Outcome
  <2>1. Stops(c) \/ Traced(c, RetiredDeployments(d))
    BY <1>7 DEF TraceRetired
  <2> QED
    BY <1>7, <1>b, <1>s, <1>t, <2>1
<1>8. trace' \in Traces /\ Outcome
  BY <1>4, <1>5, <1>6, <1>7 DEF Tracing
<1> QED
  BY <1>1, <1>2, <1>3, <1>8 DEF Outcome

\* A step of a process changes its own progress only, which stays well formed.
LEMMA ProgressStep ==
  ASSUME NamesTypes, NEW c \in Namers, NamerStep(c)
  PROVE  \E d \in Progresses : namer' = [namer EXCEPT ![c] = d] /\ (d.at # "idle" => OwnProgress(d))
<1> USE DEF OwnProgress
<1> DEFINE Goal == \E d \in Progresses :
                     namer' = [namer EXCEPT ![c] = d] /\ (d.at # "idle" => OwnProgress(d))
<1>0. namer[c] \in Progresses /\ (namer[c].at # "idle" => OwnProgress(namer[c]))
  BY DEF NamesTypes
<1>1. CASE Return(c)
  BY <1>1, ConstantTypes DEF Return, AtRest
<1>2. ASSUME NEW op \in {"deploy", "remove"}, LoadService(c, op)
      PROVE  Goal
  <2>1. PICK path \in Manifests : \E n \in Names(path) :
          namer' = [namer EXCEPT ![c] = [AtRest EXCEPT !.at = op, !.app = n, !.path = path,
                                                       !.source = declaredIn[path][n]]]
    BY <1>2 DEF LoadService
  <2>5. PICK n \in Names(path) :
          namer' = [namer EXCEPT ![c] = [AtRest EXCEPT !.at = op, !.app = n, !.path = path,
                                                       !.source = declaredIn[path][n]]]
    BY <2>1
  <2>2. n \in AppNames /\ declaredIn[path][n] \in Declaration
    BY DEF Names, NamesTypes
  <2>3. [AtRest EXCEPT !.at = op, !.app = n, !.path = path, !.source = declaredIn[path][n]] \in Progresses
    BY <2>2, ConstantTypes DEF Progresses
  <2>4. [AtRest EXCEPT !.at = op, !.app = n, !.path = path, !.source = declaredIn[path][n]].app = n
        /\ [AtRest EXCEPT !.at = op, !.app = n, !.path = path, !.source = declaredIn[path][n]].stack = NoRoute
        /\ [AtRest EXCEPT !.at = op, !.app = n, !.path = path, !.source = declaredIn[path][n]].path = path
    BY DEF AtRest
  <2> QED
    BY <2>5, <2>2, <2>3, <2>4
<1>3. CASE Tracing(c)
  <2>1. OwnProgress(namer[c])
    BY <1>3, TracingStep
  <2>2. ASSUME NEW found \in SUBSET AppNames, Traced(c, found)
        PROVE  Goal
    BY <2>1, <2>2, TracedStep
  <2>3. RetiredDeployments(namer[c]) \in SUBSET AppNames /\ {} \in SUBSET AppNames
    BY DEF RetiredDeployments
  <2>4. CASE namer' = [namer EXCEPT ![c] = [namer[c] EXCEPT !.at = "manifests"]]
    <3>1. [namer[c] EXCEPT !.at = "manifests"] \in Progresses
      BY <1>0 DEF Progresses, Holding
    <3>2. [namer[c] EXCEPT !.at = "manifests"].app = namer[c].app
         /\ [namer[c] EXCEPT !.at = "manifests"].path = namer[c].path
          /\ [namer[c] EXCEPT !.at = "manifests"].stack = namer[c].stack
      BY <1>0 DEF Progresses
    <3> QED
      BY <2>1, <2>4, <3>1, <3>2
  <2>5. CASE UNCHANGED namer
    <3>1. namer' = [namer EXCEPT ![c] = namer[c]]
      BY <2>5 DEF NamesTypes
    <3> QED
      BY <1>0, <3>1
  <2> QED
    BY <1>1, <1>3, <2>2, <2>3, <2>4, <2>5, TracingStep
<1>4. CASE RollOut(c)
  <2>1. CASE ~Return(c)
    <3>1. PICK k \in {0, c} :
            namer' = [namer EXCEPT ![c].stack = Stack(namer[c].app, k), ![c].at = "promote"]
      BY <1>4, <2>1 DEF RollOut
    <3>2. namer[c].app \in AppNames /\ namer[c].path \in Manifests
      BY <1>0, <1>4 DEF RollOut
    <3>3. Stack(namer[c].app, k) \in Stacks /\ Stack(namer[c].app, k) \in OwnStacks(namer[c].app)
      BY <3>2, ConstantTypes
    <3>4. namer' = [namer EXCEPT ![c] = [namer[c] EXCEPT !.stack = Stack(namer[c].app, k), !.at = "promote"]]
      BY <3>1
    <3>5. [namer[c] EXCEPT !.stack = Stack(namer[c].app, k), !.at = "promote"] \in Progresses
      BY <1>0, <3>3 DEF Progresses, Holding
    <3>6. [namer[c] EXCEPT !.stack = Stack(namer[c].app, k), !.at = "promote"].app = namer[c].app
         /\ [namer[c] EXCEPT !.stack = Stack(namer[c].app, k), !.at = "promote"].path = namer[c].path
         /\ [namer[c] EXCEPT !.stack = Stack(namer[c].app, k), !.at = "promote"].stack = Stack(namer[c].app, k)
      BY <1>0 DEF Progresses
    <3> QED
      BY <3>2, <3>3, <3>4, <3>5, <3>6
  <2> QED
    BY <1>1, <2>1
<1>5. CASE Promote(c)
  <2>1. CASE ~Return(c)
    <3>1. namer' = [namer EXCEPT ![c] = [namer[c] EXCEPT !.at = "record"]]
      BY <1>5, <2>1 DEF Promote
    <3>2. [namer[c] EXCEPT !.at = "record"] \in Progresses
      BY <1>0 DEF Progresses, Holding
    <3>3. namer[c].app \in AppNames /\ namer[c].path \in Manifests
         /\ namer[c].stack \in OwnStacks(namer[c].app) \cup {NoRoute}
      BY <1>0, <1>5 DEF Promote
    <3>4. [namer[c] EXCEPT !.at = "record"].app = namer[c].app
         /\ [namer[c] EXCEPT !.at = "record"].path = namer[c].path
         /\ [namer[c] EXCEPT !.at = "record"].stack = namer[c].stack
      BY <1>0 DEF Progresses
    <3> QED
      BY <3>1, <3>2, <3>3, <3>4
  <2> QED
    BY <1>1, <2>1
<1>6. CASE RecordDeployment(c)
  <2>1. CASE ~Return(c)
    <3>1. namer[c].app \in AppNames /\ namer[c].path \in Manifests
      BY <1>0, <1>6 DEF RecordDeployment
    <3> DEFINE sweeps == namer[c].retired \cup {namer[c].app}
    <3>2. namer' = [namer EXCEPT ![c] = [namer[c] EXCEPT !.at = "sweep", !.sweeps = sweeps]]
      BY <1>6, <2>1 DEF RecordDeployment
    <3>3. sweeps \subseteq AppNames
      BY <1>0, <3>1 DEF Progresses
    <3> HIDE DEF sweeps
    <3>4. [namer[c] EXCEPT !.at = "sweep", !.sweeps = sweeps] \in Progresses
      BY <1>0, <3>3 DEF Progresses, Holding
    <3>5. [namer[c] EXCEPT !.at = "sweep", !.sweeps = sweeps].app = namer[c].app
         /\ [namer[c] EXCEPT !.at = "sweep", !.sweeps = sweeps].path = namer[c].path
         /\ [namer[c] EXCEPT !.at = "sweep", !.sweeps = sweeps].stack = namer[c].stack
      BY <1>0 DEF Progresses
    <3>6. namer[c].stack \in OwnStacks(namer[c].app) \cup {NoRoute}
      BY <1>0, <1>6 DEF RecordDeployment
    <3> QED
      BY <3>1, <3>2, <3>4, <3>5, <3>6
  <2> QED
    BY <1>1, <2>1
<1>7. CASE SweepStacks(c)
  <2>1. CASE ~Return(c)
    <3>1. PICK n : namer' = [namer EXCEPT ![c] = [namer[c] EXCEPT !.sweeps = namer[c].sweeps \ {n}]]
      BY <1>7, <2>1 DEF SweepStacks
    <3>2. [namer[c] EXCEPT !.sweeps = namer[c].sweeps \ {n}] \in Progresses
      BY <1>0 DEF Progresses
    <3>3. namer[c].app \in AppNames /\ namer[c].path \in Manifests
         /\ namer[c].stack \in OwnStacks(namer[c].app) \cup {NoRoute}
      BY <1>0, <1>7 DEF SweepStacks
    <3>4. [namer[c] EXCEPT !.sweeps = namer[c].sweeps \ {n}].app = namer[c].app
         /\ [namer[c] EXCEPT !.sweeps = namer[c].sweeps \ {n}].path = namer[c].path
         /\ [namer[c] EXCEPT !.sweeps = namer[c].sweeps \ {n}].stack = namer[c].stack
      BY <1>0 DEF Progresses
    <3> QED
      BY <3>1, <3>2, <3>3, <3>4
  <2> QED
    BY <1>1, <2>1
<1>8. CASE RemoveApp(c)
  BY <1>1, <1>8 DEF RemoveApp
<1> QED
  BY <1>2, <1>3, <1>4, <1>5, <1>6, <1>7, <1>8 DEF NamerStep

\* The files, stacks and observers keep their types.
LEMMA RecordsStep ==
  ASSUME NamesTypes, NEW c \in Namers, NamerStep(c)
  PROVE  /\ declaredIn' = declaredIn /\ catalogued' = catalogued
         /\ appRecord' \in [AppNames -> Deployments]
         /\ \A n \in AppNames : appRecord'[n].stack \in OwnStacks(n) \cup {NoRoute}
         /\ appRoutes' \in [AppNames -> Stacks \cup {NoRoute}]
         /\ \A n \in AppNames : appRoutes'[n] \in OwnStacks(n) \cup {NoRoute}
         /\ appJournal' \in [AppNames -> [stack : Stacks \cup {NoRoute}, promoted : BOOLEAN]]
         /\ \A n \in AppNames : appJournal'[n].stack \in OwnStacks(n) \cup {NoRoute}
         /\ swarmStacks' \subseteq Stacks
         /\ nameOps' \in 0..MaxNameOps /\ staysDeclared' \subseteq AppNames
         /\ slipped' \subseteq AppNames /\ trace' \in Traces
<1> DEFINE Records == /\ appRecord' \in [AppNames -> Deployments]
                      /\ \A n \in AppNames : appRecord'[n].stack \in OwnStacks(n) \cup {NoRoute}
           Routes == /\ appRoutes' \in [AppNames -> Stacks \cup {NoRoute}]
                     /\ \A n \in AppNames : appRoutes'[n] \in OwnStacks(n) \cup {NoRoute}
           Journals ==
             /\ appJournal' \in [AppNames -> [stack : Stacks \cup {NoRoute}, promoted : BOOLEAN]]
             /\ \A n \in AppNames : appJournal'[n].stack \in OwnStacks(n) \cup {NoRoute}
           Others == /\ swarmStacks' \subseteq Stacks /\ nameOps' \in 0..MaxNameOps
                     /\ staysDeclared' \subseteq AppNames /\ slipped' \subseteq AppNames
                     /\ trace' \in Traces
           a == namer[c].app
           d == namer[c]
<1>0. d \in Progresses /\ (d.at # "idle" => a \in AppNames /\ d.stack \in OwnStacks(a) \cup {NoRoute})
  BY DEF NamesTypes, OwnProgress
<1>1. declaredIn' = declaredIn /\ catalogued' = catalogued
  BY TracingStep DEF NamerStep, LoadService, RollOut, Promote, RecordDeployment, SweepStacks,
                     RemoveApp, namesInput
<1>a. UNCHANGED appRecord => Records
  BY DEF NamesTypes
<1>b. UNCHANGED appRoutes => Routes
  BY DEF NamesTypes
<1>c. UNCHANGED appJournal => Journals
  BY DEF NamesTypes
<1>d. \A n \in AppNames : [appRoutes EXCEPT ![n] = NoRoute] = appRoutes' => Routes
  BY DEF NamesTypes
<1>e. \A n \in AppNames, stack \in OwnStacks(a) \cup {NoRoute}, p \in BOOLEAN :
        /\ appJournal' = [appJournal EXCEPT ![n] = Unjournaled] => Journals
        /\ n = a /\ appJournal' = [appJournal EXCEPT ![n] = [stack |-> stack, promoted |-> p]] => Journals
        /\ n = a /\ appJournal' = [appJournal EXCEPT ![n].stack = stack] => Journals
  <2>1. ASSUME NEW n \in AppNames, NEW j \in [stack : OwnStacks(n) \cup {NoRoute}, promoted : BOOLEAN],
               appJournal' = [appJournal EXCEPT ![n] = j]
        PROVE  Journals
    BY <2>1, ConstantTypes DEF NamesTypes
  <2>2. TAKE n \in AppNames, stack \in OwnStacks(a) \cup {NoRoute}, p \in BOOLEAN
  <2>3. appJournal[n] \in [stack : OwnStacks(n) \cup {NoRoute}, promoted : BOOLEAN]
    BY ConstantTypes DEF NamesTypes
  <2>4. Unjournaled \in [stack : OwnStacks(n) \cup {NoRoute}, promoted : BOOLEAN]
    BY DEF Unjournaled
  <2>5. n = a => /\ [stack |-> stack, promoted |-> p] \in [stack : OwnStacks(n) \cup {NoRoute}, promoted : BOOLEAN]
                 /\ [appJournal[n] EXCEPT !.stack = stack] \in [stack : OwnStacks(n) \cup {NoRoute}, promoted : BOOLEAN]
    BY <2>3
  <2>6. appJournal' = [appJournal EXCEPT ![n].stack = stack]
          => appJournal' = [appJournal EXCEPT ![n] = [appJournal[n] EXCEPT !.stack = stack]]
    OBVIOUS
  <2> HIDE DEF Journals
  <2> QED
    BY <2>1, <2>4, <2>5, <2>6
<1>g. /\ swarmStacks \subseteq Stacks /\ nameOps \in 0..MaxNameOps
      /\ staysDeclared \subseteq AppNames /\ slipped \subseteq AppNames /\ trace \in Traces
  BY DEF NamesTypes
<1> DEFINE Goal == Records /\ Routes /\ Journals /\ Others
<1> HIDE DEF Records, Routes, Journals
<1>2. ASSUME NEW op, LoadService(c, op)
      PROVE  Goal
  BY <1>2, <1>a, <1>b, <1>c, <1>g, ConstantTypes DEF LoadService, observers
<1>3. ASSUME Tracing(c)
      PROVE  Goal
  <2>1. a \in AppNames /\ UNCHANGED <<appRecord, appRoutes, nameOps, staysDeclared, slipped>>
    BY <1>0, <1>3, TracingStep DEF OwnProgress
  <2>2. swarmStacks' \subseteq swarmStacks /\ trace' \in Traces
    BY <1>3, TracingStep
  <2>3. UNCHANGED appJournal \/ appJournal' = [appJournal EXCEPT ![a] = Unjournaled]
    BY <1>3, TracingStep
  <2>4. Journals
    BY <1>c, <1>e, <2>1, <2>3
  <2> QED
    BY <1>a, <1>b, <1>g, <2>1, <2>2, <2>4
<1>4. ASSUME RollOut(c)
      PROVE  Goal
  <2>1. PICK k \in {0, c} :
          /\ swarmStacks' \in {swarmStacks, swarmStacks \cup {Stack(a, k)}}
          /\ \/ UNCHANGED appJournal
             \/ appJournal' = [appJournal EXCEPT ![a] = [stack |-> Stack(a, k), promoted |-> FALSE]]
    BY <1>4 DEF RollOut
  <2>2. a \in AppNames /\ Stack(a, k) \in OwnStacks(a) \cap Stacks
    BY <1>0, <1>4, ConstantTypes DEF RollOut
  <2>3. Journals
    BY <1>c, <1>e, <2>1, <2>2
  <2>4. UNCHANGED <<appRecord, appRoutes, nameOps, staysDeclared, slipped, trace>>
    BY <1>4 DEF RollOut, observers
  <2> QED
    BY <1>a, <1>b, <1>g, <2>1, <2>2, <2>3, <2>4
<1>5. ASSUME Promote(c)
      PROVE  Goal
  <2>1. a \in AppNames /\ UNCHANGED <<appRecord, nameOps, staysDeclared, slipped, trace>>
    BY <1>0, <1>5 DEF Promote, observers
  <2>2. swarmStacks' \subseteq swarmStacks
    BY <1>5 DEF Promote
  <2>3. UNCHANGED appJournal \/ appJournal' = [appJournal EXCEPT ![a].stack = d.stack]
    BY <1>5 DEF Promote
  <2>4. Journals
    BY <1>0, <1>5, <1>c, <1>e, <2>1, <2>3 DEF Promote
  <2>5. Routes
    <3>1. RoutesWithout(d) \in [AppNames -> Stacks \cup {NoRoute}]
          /\ \A n \in AppNames : RoutesWithout(d)[n] \in OwnStacks(n) \cup {NoRoute}
      BY DEF RoutesWithout, NamesTypes
    <3>2. d.stack \in OwnStacks(a) \cup {NoRoute}
      BY <1>0, <1>5 DEF Promote
    <3>3. \/ UNCHANGED appRoutes \/ appRoutes' = RoutesWithout(d)
          \/ appRoutes' = [RoutesWithout(d) EXCEPT ![a] = d.stack]
      BY <1>5 DEF Promote
    <3> QED
      BY <1>b, <2>1, <3>1, <3>2, <3>3, ConstantTypes DEF Routes
  <2> QED
    BY <1>a, <1>g, <2>1, <2>2, <2>4, <2>5
<1>6. ASSUME RecordDeployment(c)
      PROVE  Goal
  <2>1. a \in AppNames /\ d.stack \in OwnStacks(a) \cup {NoRoute}
    BY <1>0, <1>6 DEF RecordDeployment
  <2>2. UNCHANGED <<appRoutes, swarmStacks, nameOps, trace>>
    BY <1>6 DEF RecordDeployment
  <2>3. staysDeclared' \subseteq staysDeclared \cup {a} /\ slipped' \subseteq slipped
    BY <1>6 DEF RecordDeployment, observers
  <2>4. Journals
    <3>1. UNCHANGED appJournal \/ appJournal' = [appJournal EXCEPT ![a] = [stack |-> d.stack, promoted |-> TRUE]]
      BY <1>6 DEF RecordDeployment
    <3> QED
      BY <1>c, <1>e, <2>1, <3>1
  <2>5. Records
    <3> DEFINE r == [stack |-> d.stack, path |-> d.path, source |-> d.source]
    <3>1. UNCHANGED appRecord \/ appRecord' = [appRecord EXCEPT ![a] = r]
      BY <1>6 DEF RecordDeployment
    <3>2. r \in Deployments /\ r.stack \in OwnStacks(a) \cup {NoRoute}
      BY <1>0, <2>1 DEF Progresses, Deployments
    <3> HIDE DEF r
    <3> QED
      BY <1>a, <2>1, <3>1, <3>2 DEF Records, NamesTypes
  <2> QED
    BY <1>b, <1>g, <2>1, <2>2, <2>3, <2>4, <2>5
<1>7. ASSUME SweepStacks(c)
      PROVE  Goal
  <2>1. /\ UNCHANGED <<appRecord, appRoutes, appJournal, nameOps, staysDeclared, slipped, trace>>
        /\ swarmStacks' \subseteq swarmStacks
    BY <1>7 DEF SweepStacks, observers
  <2> QED
    BY <1>a, <1>b, <1>c, <1>g, <2>1
<1>8. ASSUME RemoveApp(c)
      PROVE  Goal
  <2>0. a \in AppNames
    BY <1>0, <1>8 DEF RemoveApp
  <2>1. Routes
    BY <1>8, <1>b, <1>d, <2>0 DEF RemoveApp
  <2>2. Journals
    <3>1. UNCHANGED appJournal \/ appJournal' = [appJournal EXCEPT ![a] = Unjournaled]
      BY <1>8 DEF RemoveApp
    <3> QED
      BY <1>c, <1>e, <2>0, <3>1
  <2>3. Records
    <3>1. UNCHANGED appRecord \/ appRecord' = [appRecord EXCEPT ![a] = NoRecord]
      BY <1>8 DEF RemoveApp
    <3>2. NoRecord \in Deployments /\ NoRecord.stack = NoRoute
      BY ConstantTypes DEF NoRecord
    <3> QED
      BY <1>a, <2>0, <3>1, <3>2 DEF Records, NamesTypes
  <2>4. Others
    BY <1>8, <1>g DEF RemoveApp
  <2> QED
    BY <2>1, <2>2, <2>3, <2>4
<1> QED
  BY <1>1, <1>2, <1>3, <1>4, <1>5, <1>6, <1>7, <1>8 DEF NamerStep, Records, Routes, Journals

\* Edits keep the types as well.
LEMMA EditTypes ==
  ASSUME NamesTypes, EditManifest
  PROVE  declaredIn' \in [Manifests -> [AppNames -> Declaration]]
<1>1. \A f \in [AppNames -> Declaration], n \in AppNames, d \in Declaration :
        [f EXCEPT ![n] = d] \in [AppNames -> Declaration]
  OBVIOUS
<1>2. \A path \in Manifests : declaredIn[path] \in [AppNames -> Declaration]
  BY DEF NamesTypes
<1>3. PICK path \in Manifests, n \in EditedNames :
        \/ \E d \in Declaration \ {declaredIn[path][n]} :
             declaredIn' = [declaredIn EXCEPT ![path][n] = d]
        \/ \E o \in EditedNames \ Names(path) :
             declaredIn' = [declaredIn EXCEPT ![path][n] = Undeclared,
                                              ![path][o] = declaredIn[path][n]]
  BY DEF EditManifest
<1>4. n \in AppNames /\ EditedNames \subseteq AppNames
  BY NamesAssumption
<1>5. CASE \E d \in Declaration : declaredIn' = [declaredIn EXCEPT ![path][n] = d]
  <2>1. PICK d \in Declaration : declaredIn' = [declaredIn EXCEPT ![path][n] = d]
    BY <1>5
  <2>2. declaredIn' = [declaredIn EXCEPT ![path] = [declaredIn[path] EXCEPT ![n] = d]]
    BY <2>1
  <2>3. [declaredIn[path] EXCEPT ![n] = d] \in [AppNames -> Declaration]
    BY <1>1, <1>2, <1>4
  <2> QED
    BY <2>2, <2>3 DEF NamesTypes
<1>6. CASE \E o \in AppNames : declaredIn' = [declaredIn EXCEPT ![path][n] = Undeclared,
                                                                ![path][o] = declaredIn[path][n]]
  <2>1. PICK o \in AppNames : declaredIn' = [declaredIn EXCEPT ![path][n] = Undeclared,
                                                               ![path][o] = declaredIn[path][n]]
    BY <1>6
  <2> DEFINE f == [declaredIn[path] EXCEPT ![n] = Undeclared]
  <2>2. declaredIn' = [declaredIn EXCEPT ![path] = [f EXCEPT ![o] = declaredIn[path][n]]]
    BY <2>1 DEF NamesTypes
  <2>3. f \in [AppNames -> Declaration] /\ declaredIn[path][n] \in Declaration
    BY <1>1, <1>2, <1>4 DEF Declaration
  <2>4. [f EXCEPT ![o] = declaredIn[path][n]] \in [AppNames -> Declaration]
    BY <1>1, <2>3
  <2> QED
    BY <2>2, <2>4 DEF NamesTypes
<1> QED
  BY <1>3, <1>4, <1>5, <1>6

LEMMA NamesTypesStep ==
  ASSUME NamesTypes, [NamesNext]_namesVars
  PROVE  NamesTypes'
<1>1. CASE UNCHANGED namesVars
  BY <1>1 DEF NamesTypes, OwnProgress, namesVars
<1>2. CASE EditManifest
  <2>1. /\ UNCHANGED <<catalogued, appRecord, appRoutes, swarmStacks, appJournal, namer, nameOps>>
        /\ staysDeclared' \subseteq staysDeclared /\ slipped' \subseteq staysDeclared'
        /\ trace' = trace
    BY <1>2 DEF EditManifest, namesInput
  <2> QED
    BY <1>2, <2>1, EditTypes DEF NamesTypes, OwnProgress
<1>3. ASSUME NEW c \in Namers, NamerStep(c)
      PROVE  NamesTypes'
  <2>1. PICK d \in Progresses : namer' = [namer EXCEPT ![c] = d] /\ (d.at # "idle" => OwnProgress(d))
    BY <1>3, ProgressStep
  <2>2. namer' \in [Namers -> Progresses]
    BY <2>1 DEF NamesTypes
  <2>3. ASSUME NEW b \in Namers, namer'[b].at # "idle"
        PROVE  OwnProgress(namer'[b])
    BY <2>1, <2>3 DEF NamesTypes
  <2>4. \A b \in Namers : (namer[b].at # "idle" => OwnProgress(namer[b]))'
    BY <2>3 DEF OwnProgress
  <2> QED
    BY <1>3, <2>2, <2>4, RecordsStep DEF NamesTypes
<1> QED
  BY <1>1, <1>2, <1>3 DEF NamesNext, NamerStep, Tracing

-----------------------------------------------------------------------------
(* AppNames: one process holds the lock *)

\* What a process is at, before and after its step; others do not move.
LEMMA TurnStep ==
  ASSUME NamesTypes, OneHolder, NEW c \in Namers, NamerStep(c)
  PROVE  /\ \A b \in Namers : b # c => namer'[b] = namer[b]
         /\ namer'[c].at \in Holding \/ ~(\E op \in {"deploy", "remove"} : LoadService(c, op))
              => \A b \in Namers : b # c => namer[b].at \notin Holding
         /\ \A op : LoadService(c, op) => c = nameOps + 1 /\ nameOps' = c
         /\ ~(\E op \in {"deploy", "remove"} : LoadService(c, op)) => c <= nameOps /\ nameOps' = nameOps
         /\ namer'[c].at \in {"idle", "deploy", "remove"} \cup Holding
<1>1. PICK d \in Progresses : namer' = [namer EXCEPT ![c] = d]
  BY ProgressStep
<1>2. (\A b \in Namers : b # c => namer'[b] = namer[b]) /\ namer'[c] = d
  BY <1>1 DEF NamesTypes
<1>3. \A op : LoadService(c, op) => c = nameOps + 1 /\ nameOps' = c
  BY DEF LoadService
<1>4. ASSUME NEW op \in {"deploy", "remove"}, LoadService(c, op)
      PROVE  namer'[c].at \notin Holding
  <2>1. PICK path \in Manifests : \E n \in Names(path) :
          namer' = [namer EXCEPT ![c] = [AtRest EXCEPT !.at = op, !.app = n, !.path = path,
                                                       !.source = declaredIn[path][n]]]
    BY <1>4 DEF LoadService
  <2> QED
    BY <2>1 DEF NamesTypes, AtRest, Holding
<1>5. ~(\E op \in {"deploy", "remove"} : LoadService(c, op))
        => /\ namer[c].at # "idle" /\ nameOps' = nameOps
           /\ namer[c].at \in Holding \/ LockFree
  BY DEF NamerStep, Tracing, BeginTrace, ReadManifest, ReadSource, TraceRetired, RollOut, Promote,
         RecordDeployment, SweepStacks, RemoveApp, Holding
<1>6. namer[c].at # "idle" => c <= nameOps
  BY OpsBounded DEF OneHolder, NamesTypes, Namers
<1>7. (namer[c].at \in Holding \/ LockFree) => \A b \in Namers : b # c => namer[b].at \notin Holding
  BY DEF OneHolder, LockFree, Holding
<1>8. d.at \in {"idle", "deploy", "remove"} \cup Holding
  BY DEF Progresses
<1> QED
  BY <1>2, <1>3, <1>4, <1>5, <1>6, <1>7, <1>8

LEMMA OneHolderStep ==
  ASSUME NamesTypes, OneHolder, [NamesNext]_namesVars
  PROVE  OneHolder'
<1>1. CASE UNCHANGED namesVars
  BY <1>1 DEF OneHolder, namesVars
<1>2. CASE EditManifest
  BY <1>2 DEF OneHolder, EditManifest
<1>3. ASSUME NEW c \in Namers, NamerStep(c)
      PROVE  OneHolder'
  <2>1. ASSUME NEW a \in Namers, NEW b \in Namers, namer'[a].at \in Holding, namer'[b].at \in Holding
        PROVE  a = b
    BY <1>3, <2>1, TurnStep DEF OneHolder
  <2>2. ASSUME NEW b \in Namers, b > nameOps'
        PROVE  namer'[b].at = "idle"
    <3>1. b # c /\ b > nameOps
      BY <1>3, <2>2, TurnStep, OpsBounded DEF NamesTypes, Namers, NamerStep
    <3> QED
      BY <1>3, <3>1, TurnStep DEF OneHolder
  <2> QED
    BY <2>1, <2>2 DEF OneHolder
<1> QED
  BY <1>1, <1>2, <1>3 DEF NamesNext, NamerStep, Tracing

-----------------------------------------------------------------------------
(* AppNames: what the holder of the lock knows *)

\* A process that goes on is at its next step, with what this one has found.
LEMMA NextStage ==
  ASSUME NamesTypes, NEW c \in Namers, namer'[c].at # "idle"
  PROVE  /\ Tracing(c) =>
              /\ namer'[c].at \in {"manifests", "rollout"} /\ namer'[c].app = namer[c].app
              /\ namer'[c].at = "rollout" =>
                   \/ namer'[c].retired = {}
                   \/ /\ namer[c].at = "manifests" /\ trace.todo = {}
                      /\ namer'[c].retired \cap (trace.declared \cup {namer[c].app}) = {}
              /\ namer'[c].at = "manifests" =>
                   \/ namer[c].at = "deploy" /\ catalogued \subseteq trace'.todo
                   \/ /\ namer[c].at = "manifests"
                      /\ \E read \in SUBSET trace.todo : Reads(read)
         /\ RollOut(c) =>
              /\ namer'[c].at = "promote" /\ namer'[c].app = namer[c].app
              /\ namer'[c].retired = namer[c].retired
              /\ namer'[c].stack \in {Stack(namer[c].app, 0), Stack(namer[c].app, c)} \cap swarmStacks'
              /\ UNCHANGED appJournal
         /\ Promote(c) =>
              /\ namer'[c] = [namer[c] EXCEPT !.at = "record"]
              /\ namer'[c].at = "record" /\ namer'[c].app = namer[c].app
              /\ namer'[c].retired = namer[c].retired /\ namer'[c].stack = namer[c].stack
              /\ appRoutes' \in {RoutesWithout(namer[c]),
                                 [RoutesWithout(namer[c]) EXCEPT ![namer[c].app] = namer[c].stack]}
              /\ UNCHANGED <<appJournal, swarmStacks>>
         /\ RecordDeployment(c) =>
              /\ namer'[c].at = "sweep" /\ namer'[c].app = namer[c].app
              /\ namer'[c].retired = namer[c].retired /\ namer'[c].stack = namer[c].stack
              /\ namer'[c].sweeps = namer[c].retired \cup {namer[c].app}
              /\ appRecord' = [appRecord EXCEPT ![namer[c].app] =
                                 [stack |-> namer[c].stack, path |-> namer[c].path,
                                  source |-> namer[c].source]]
              /\ UNCHANGED appJournal
         /\ SweepStacks(c) =>
              /\ namer'[c].at = "sweep" /\ namer'[c].app = namer[c].app
              /\ namer'[c].retired = namer[c].retired /\ namer'[c].stack = namer[c].stack
              /\ namer'[c].sweeps \subseteq namer[c].sweeps
         /\ ~RemoveApp(c)
<1> DEFINE d == namer[c]
<1>0. namer \in [Namers -> Progresses] /\ d \in Progresses
  BY DEF NamesTypes
<1>1. ~Return(c)
  <2>1. [namer EXCEPT ![c] = AtRest][c].at = "idle"
    BY <1>0 DEF AtRest
  <2> QED
    BY <2>1 DEF Return
<1> DEFINE Goes ==
             /\ namer'[c].at \in {"manifests", "rollout"} /\ namer'[c].app = d.app
             /\ namer'[c].at = "rollout" =>
                  \/ namer'[c].retired = {}
                  \/ /\ d.at = "manifests" /\ trace.todo = {}
                     /\ namer'[c].retired \cap (trace.declared \cup {d.app}) = {}
             /\ namer'[c].at = "manifests" =>
                  \/ d.at = "deploy" /\ catalogued \subseteq trace'.todo
                  \/ /\ d.at = "manifests"
                     /\ \E read \in SUBSET trace.todo : Reads(read)
<1>3. ASSUME Tracing(c)
      PROVE  Goes
  <2>1. CASE Traced(c, {})
    BY <2>1, TracedStep
  <2>2. CASE TraceRetired(c) /\ Traced(c, RetiredDeployments(d))
    <3>1. RetiredDeployments(d) \in SUBSET AppNames
          /\ RetiredDeployments(d) \cap (trace.declared \cup {d.app}) = {}
      BY DEF RetiredDeployments
    <3>2. d.at = "manifests" /\ trace.todo = {}
      BY <2>2 DEF TraceRetired
    <3> QED
      BY <2>2, <3>1, <3>2, TracedStep
  <2>3. CASE BeginTrace(c) /\ trace' = [NoTrace EXCEPT !.todo = Paths(d)]
               /\ namer' = [namer EXCEPT ![c] = [d EXCEPT !.at = "manifests"]]
    <3>1. catalogued \subseteq trace'.todo
      BY <2>3 DEF NoTrace, Paths
    <3>2. namer'[c] = [d EXCEPT !.at = "manifests"]
      BY <1>0, <2>3
    <3>3. d.at = "deploy"
      BY <2>3 DEF BeginTrace
    <3> HIDE DEF d
    <3>4. namer'[c].at = "manifests" /\ namer'[c].app = d.app
      BY <1>0, <3>2 DEF Progresses
    <3> QED
      BY <3>1, <3>3, <3>4
  <2>4. ASSUME d.at = "manifests", UNCHANGED namer, NEW read \in SUBSET trace.todo, Reads(read)
        PROVE  Goes
    BY <2>4
  <2> QED
    BY <1>1, <1>3, <2>1, <2>2, <2>3, <2>4, TracingStep
<1>4. ASSUME RollOut(c)
      PROVE  /\ namer'[c].at = "promote" /\ namer'[c].app = d.app
             /\ namer'[c].retired = d.retired
             /\ namer'[c].stack \in {Stack(d.app, 0), Stack(d.app, c)} \cap swarmStacks'
             /\ UNCHANGED appJournal
  <2>1. PICK k \in {0, c} :
          /\ namer' = [namer EXCEPT ![c].stack = Stack(d.app, k), ![c].at = "promote"]
          /\ swarmStacks' = swarmStacks \cup {Stack(d.app, k)}
          /\ UNCHANGED appJournal
    BY <1>1, <1>4 DEF RollOut
  <2>2. namer'[c] = [d EXCEPT !.stack = Stack(d.app, k), !.at = "promote"]
    BY <1>0, <2>1
  <2> DEFINE stack == Stack(d.app, k)
  <2>3. namer'[c] = [d EXCEPT !.stack = stack, !.at = "promote"]
    BY <2>2
  <2> HIDE DEF d, stack
  <2>4. /\ namer'[c].at = "promote" /\ namer'[c].app = d.app
        /\ namer'[c].retired = d.retired /\ namer'[c].stack = stack
    BY <1>0, <2>3 DEF Progresses
  <2> QED
    BY <2>1, <2>4 DEF stack
<1>5. ASSUME Promote(c)
      PROVE  /\ namer'[c] = [d EXCEPT !.at = "record"]
             /\ appRoutes' \in {RoutesWithout(d), [RoutesWithout(d) EXCEPT ![d.app] = d.stack]}
             /\ UNCHANGED <<appJournal, swarmStacks>>
  BY <1>0, <1>1, <1>5 DEF Promote
<1>6. ASSUME RecordDeployment(c)
      PROVE  /\ namer'[c] = [d EXCEPT !.at = "sweep", !.sweeps = d.retired \cup {d.app}]
             /\ appRecord' = [appRecord EXCEPT ![d.app] =
                                [stack |-> d.stack, path |-> d.path, source |-> d.source]]
             /\ UNCHANGED appJournal
  BY <1>0, <1>1, <1>6 DEF RecordDeployment
<1>7. ASSUME SweepStacks(c)
      PROVE  d.at = "sweep" /\ \E n : namer'[c] = [d EXCEPT !.sweeps = d.sweeps \ {n}]
  BY <1>0, <1>1, <1>7 DEF SweepStacks
<1>8. ASSUME SweepStacks(c)
      PROVE  /\ namer'[c].at = "sweep" /\ namer'[c].app = namer[c].app
             /\ namer'[c].retired = namer[c].retired /\ namer'[c].stack = namer[c].stack
             /\ namer'[c].sweeps \subseteq namer[c].sweeps
  <2>1. PICK n : namer'[c] = [d EXCEPT !.sweeps = d.sweeps \ {n}]
    BY <1>7, <1>8
  <2> HIDE DEF d
  <2>2. /\ [d EXCEPT !.sweeps = d.sweeps \ {n}].at = d.at
        /\ [d EXCEPT !.sweeps = d.sweeps \ {n}].app = d.app
        /\ [d EXCEPT !.sweeps = d.sweeps \ {n}].stack = d.stack
        /\ [d EXCEPT !.sweeps = d.sweeps \ {n}].retired = d.retired
        /\ [d EXCEPT !.sweeps = d.sweeps \ {n}].sweeps = d.sweeps \ {n}
    BY <1>0 DEF Progresses
  <2> QED
    BY <1>7, <1>8, <2>1, <2>2 DEF d
<1>9. ~RemoveApp(c)
  BY <1>1 DEF RemoveApp
<1> HIDE DEF d
<1>10. ASSUME Promote(c)
       PROVE  /\ namer'[c].at = "record" /\ namer'[c].app = d.app
              /\ namer'[c].retired = d.retired /\ namer'[c].stack = d.stack
  <2>1. namer'[c] = [d EXCEPT !.at = "record"]
    BY <1>5, <1>10
  <2> QED
    BY <1>0, <2>1 DEF Progresses
<1>11. ASSUME RecordDeployment(c)
       PROVE  /\ namer'[c].at = "sweep" /\ namer'[c].app = d.app
              /\ namer'[c].retired = d.retired /\ namer'[c].stack = d.stack
              /\ namer'[c].sweeps = d.retired \cup {d.app}
  <2> DEFINE all == d.retired \cup {d.app}
  <2>1. namer'[c] = [d EXCEPT !.at = "sweep", !.sweeps = all]
    BY <1>6, <1>11
  <2> HIDE DEF all
  <2>2. /\ namer'[c].at = "sweep" /\ namer'[c].app = d.app
        /\ namer'[c].retired = d.retired /\ namer'[c].stack = d.stack /\ namer'[c].sweeps = all
    BY <1>0, <2>1 DEF Progresses
  <2> QED
    BY <2>2 DEF all
<1> QED
  BY <1>3, <1>4, <1>5, <1>6, <1>8, <1>9, <1>10, <1>11 DEF d

\* Only a deployment settles a name.
LEMMA SettledStep ==
  /\ EditManifest => Settled' \subseteq Settled
  /\ \A c \in Namers :
       NamesTypes /\ NamerStep(c) =>
         /\ Settled' = Settled \/ RecordDeployment(c) \/ RemoveApp(c)
         /\ RecordDeployment(c) => Settled' \subseteq Settled \cup {namer[c].app}
         /\ RemoveApp(c) => Settled' \subseteq Settled
<1> USE DEF Settled
<1>1. EditManifest => Settled' \subseteq Settled
  BY DEF EditManifest
<1>2. ASSUME NEW c \in Namers, NamesTypes, NamerStep(c)
      PROVE  /\ Settled' = Settled \/ RecordDeployment(c) \/ RemoveApp(c)
             /\ RecordDeployment(c) => Settled' \subseteq Settled \cup {namer[c].app}
             /\ RemoveApp(c) => Settled' \subseteq Settled
  <2>1. Settled' = Settled \/ RecordDeployment(c) \/ RemoveApp(c)
    BY <1>2, TracingStep DEF NamerStep, LoadService, RollOut, Promote, SweepStacks, observers
  <2>2. RecordDeployment(c) => Settled' \subseteq Settled \cup {namer[c].app}
    BY DEF RecordDeployment, observers
  <2>3. RemoveApp(c) => Settled' \subseteq Settled
    BY DEF RemoveApp
  <2> QED
    BY <2>1, <2>2, <2>3
<1> QED
  BY <1>1, <1>2

\* Beginning an operation and editing a manifest change nothing that the holder relies on.
LEMMA HolderKnowsStep ==
  ASSUME NamesInv, [NamesNext]_namesVars, NEW b \in Namers
  PROVE  HolderKnows(b)'
<1> USE DEF HolderKnows
<1>0. NamesTypes /\ OneHolder /\ HolderKnows(b)
  BY DEF NamesInv
<1>1. CASE UNCHANGED namesVars
  BY <1>0, <1>1 DEF namesVars, Settled, Names
<1>2. CASE EditManifest
  <2>1. UNCHANGED <<catalogued, appRecord, appRoutes, swarmStacks, appJournal, namer, trace>>
    BY <1>2 DEF EditManifest, namesInput
  <2>2. Settled' \subseteq Settled
    BY <1>2, SettledStep
  <2>3. ASSUME NEW n \in Settled', NEW path \in catalogued \cap trace.todo, n \in Names(path)
        PROVE  n \in Names(path)'
    <3>1. /\ n \notin slipped' /\ n \in staysDeclared'
          /\ slipped' = staysDeclared' \cap
               (slipped \cup UNION {Names(p) \ Names(p)' : p \in trace.todo})
      BY <1>2, <2>3 DEF EditManifest, Settled
    <3> QED
      BY <2>3, <3>1
  <2>4. (namer[b].at = "manifests" =>
           \A n \in Settled : \/ n \in trace.declared
                             \/ \E path \in catalogued \cap trace.todo : n \in Names(path))'
    BY <1>0, <2>1, <2>2, <2>3
  <2> QED
    BY <1>0, <2>1, <2>2, <2>4
<1>3. ASSUME NEW c \in Namers, NamerStep(c), b # c
      PROVE  HolderKnows(b)'
  <2>1. namer'[b] = namer[b]
    BY <1>0, <1>3, TurnStep
  <2>2. CASE \E op \in {"deploy", "remove"} : LoadService(c, op)
    <3>1. /\ UNCHANGED <<appRecord, appRoutes, swarmStacks, appJournal, trace, catalogued, declaredIn>>
          /\ UNCHANGED Settled
      BY <2>2 DEF LoadService, observers, Settled, namesInput
    <3> QED
      BY <1>0, <2>1, <3>1 DEF Names
  <2>3. CASE ~(\E op \in {"deploy", "remove"} : LoadService(c, op))
    <3>1. namer[b].at \notin Holding
      BY <1>0, <1>3, <2>3, TurnStep
    <3> QED
      BY <2>1, <3>1 DEF Holding
  <2> QED
    BY <2>2, <2>3
<1>4. ASSUME NamerStep(b), namer'[b].at \in Holding
      PROVE  HolderKnows(b)'
  <2> DEFINE d == namer[b]
             e == namer'[b]
  <2>0. e.at # "idle" /\ e.at \notin {"deploy", "remove"} /\ d \in Progresses
    BY <1>0, <1>4 DEF Holding, NamesTypes
  <2>k. /\ d.at \in Holding => appJournal[d.app] = Unjournaled
        /\ d.at = "manifests" =>
             \A n \in Settled : \/ n \in trace.declared
                               \/ \E path \in catalogued \cap trace.todo : n \in Names(path)
        /\ d.at \in Holding \ {"manifests"} => d.app \notin d.retired /\ d.retired \cap Settled = {}
    BY <1>0
  <2>a. d.at # "idle" => d.app \in AppNames
    BY <1>0 DEF NamesTypes, OwnProgress
  <2>1. ASSUME NEW op \in {"deploy", "remove"}, LoadService(b, op)
        PROVE  FALSE
    <3>1. PICK path \in Manifests : \E n \in Names(path) :
            namer' = [namer EXCEPT ![b] = [AtRest EXCEPT !.at = op, !.app = n, !.path = path,
                                                         !.source = declaredIn[path][n]]]
      BY <2>1 DEF LoadService
    <3>2. namer'[b].at = op
      BY <1>0, <3>1 DEF NamesTypes, AtRest
    <3> QED
      BY <2>0, <3>2
  <2>2. CASE Tracing(b)
    <3>1. /\ e.at \in {"manifests", "rollout"} /\ e.app = d.app
          /\ e.at = "rollout" =>
               \/ e.retired = {}
               \/ /\ d.at = "manifests" /\ trace.todo = {}
                  /\ e.retired \cap (trace.declared \cup {d.app}) = {}
          /\ e.at = "manifests" =>
               \/ d.at = "deploy" /\ catalogued \subseteq trace'.todo
               \/ d.at = "manifests" /\ \E read \in SUBSET trace.todo : Reads(read)
      BY <1>0, <2>0, <2>2, NextStage
    <3>2. /\ UNCHANGED <<catalogued, declaredIn, staysDeclared, slipped>>
          /\ d.at \in {"deploy", "manifests"} /\ d.app \in AppNames
      BY <1>0, <2>2, TracingStep DEF OwnProgress
    <3>3. appJournal'[d.app] = Unjournaled
      <4>1. ~Return(b)
        <5>1. [namer EXCEPT ![b] = AtRest][b].at = "idle"
          BY <1>0 DEF AtRest, NamesTypes
        <5> QED
          BY <2>0, <5>1 DEF Return
      <4>2. appJournal' = [appJournal EXCEPT ![d.app] = Unjournaled]
              \/ (UNCHANGED appJournal /\ d.at = "manifests")
        BY <1>0, <2>2, <4>1, TracingStep
      <4> QED
        BY <1>0, <2>k, <3>2, <4>2 DEF NamesTypes, Holding
    <3>4. \A path : Names(path)' = Names(path)
      BY <3>2 DEF Names
    <3>5. Settled' = Settled /\ Settled \subseteq UNION {Names(path) : path \in catalogued}
      BY <3>2 DEF Settled, NamesInv, CataloguedNames
    <3> HIDE DEF d, e
    <3>6. e.at = "rollout" => e.app \notin e.retired /\ e.retired \cap Settled' = {}
      BY <2>k, <3>1, <3>5
    <3>7. e.at = "manifests" =>
            \A n \in Settled' : \/ n \in trace'.declared
                               \/ \E path \in catalogued' \cap trace'.todo : n \in Names(path)'
      BY <2>k, <3>1, <3>2, <3>4, <3>5 DEF Reads
    <3> QED
      BY <3>1, <3>3, <3>6, <3>7 DEF e
  <2>3. CASE RollOut(b)
    <3>1. /\ e.at = "promote" /\ e.app = d.app /\ e.retired = d.retired
          /\ e.stack \in {Stack(d.app, 0), Stack(d.app, b)} \cap swarmStacks'
          /\ UNCHANGED appJournal
      BY <1>0, <2>0, <2>3, NextStage
    <3>2. d.at = "rollout" /\ Settled' = Settled
      BY <2>3 DEF RollOut, observers, Settled
    <3> HIDE DEF d, e
    <3> QED
      BY <2>k, <3>1, <3>2 DEF e, Holding
  <2>4. CASE Promote(b)
    <3>1. /\ e.at = "record" /\ e.app = d.app /\ e.retired = d.retired /\ e.stack = d.stack
          /\ appRoutes' \in {RoutesWithout(d), [RoutesWithout(d) EXCEPT ![d.app] = d.stack]}
          /\ UNCHANGED <<appJournal, swarmStacks>>
      BY <1>0, <2>0, <2>4, NextStage
    <3>2. d.at = "promote" /\ Settled' = Settled
      BY <2>4 DEF Promote, observers, Settled
    <3>3. d.stack \in swarmStacks /\ d.stack \in {Stack(d.app, 0), Stack(d.app, b)}
      BY <1>0, <3>2
    <3>4. d.app \in AppNames /\ d.retired \subseteq AppNames
      BY <2>0, <2>a, <3>2 DEF Progresses
    <3>5. appRoutes'[d.app] \in {NoRoute, d.stack} /\ \A n \in d.retired : appRoutes'[n] = NoRoute
      BY <2>k, <3>1, <3>2, <3>4 DEF RoutesWithout, Holding
    <3> HIDE DEF d, e
    <3> QED
      BY <2>k, <3>1, <3>2, <3>3, <3>5 DEF e, Holding
  <2>5. CASE RecordDeployment(b)
    <3>1. /\ e.at = "sweep" /\ e.app = d.app /\ e.retired = d.retired /\ e.stack = d.stack
          /\ e.sweeps = d.retired \cup {d.app}
          /\ appRecord' = [appRecord EXCEPT ![d.app] =
                             [stack |-> d.stack, path |-> d.path, source |-> d.source]]
          /\ UNCHANGED appJournal
      BY <1>0, <2>0, <2>5, NextStage
    <3>2. /\ d.at = "record" /\ UNCHANGED appRoutes
          /\ Settled' \subseteq Settled \cup {d.app}
      BY <1>0, <1>4, <2>5, SettledStep DEF RecordDeployment
    <3>3. /\ d.stack \in {Stack(d.app, 0), Stack(d.app, b)}
          /\ appRoutes[d.app] \in {NoRoute, d.stack} /\ \A n \in d.retired : appRoutes[n] = NoRoute
      BY <1>0, <3>2
    <3>4. appRecord'[d.app].stack = d.stack
      BY <1>0, <2>a, <3>1, <3>2 DEF NamesTypes
    <3> HIDE DEF d, e
    <3> QED
      BY <2>k, <3>1, <3>2, <3>3, <3>4 DEF e, Holding
  <2>6. CASE SweepStacks(b)
    <3>1. /\ e.at = "sweep" /\ e.app = d.app /\ e.retired = d.retired /\ e.stack = d.stack
          /\ e.sweeps \subseteq d.sweeps
      BY <1>0, <2>0, <2>6, NextStage
    <3>2. d.at = "sweep" /\ UNCHANGED <<appRecord, appRoutes, appJournal, Settled>>
      BY <2>6 DEF SweepStacks, observers, Settled
    <3>3. /\ d.stack \in {Stack(d.app, 0), Stack(d.app, b)}
          /\ appRoutes[d.app] \in {NoRoute, d.stack} /\ \A n \in d.retired : appRoutes[n] = NoRoute
          /\ appRecord[d.app].stack = d.stack /\ d.sweeps \subseteq d.retired \cup {d.app}
      BY <1>0, <3>2
    <3> HIDE DEF d, e
    <3> QED
      BY <2>k, <3>1, <3>2, <3>3 DEF e, Holding
  <2>7. CASE RemoveApp(b)
    BY <1>0, <2>0, <2>7, NextStage
  <2> QED
    BY <1>4, <2>1, <2>2, <2>3, <2>4, <2>5, <2>6, <2>7 DEF NamerStep
<1>5. namer'[b].at \notin Holding => HolderKnows(b)'
  BY DEF Holding
<1> QED
  BY <1>1, <1>2, <1>3, <1>4, <1>5 DEF NamesNext, NamerStep, Tracing

-----------------------------------------------------------------------------
(* AppNames: the candidate of a process is its own *)

\* A step of c writes to the records and routes what has no candidate, or c's own.
LEMMA AttemptStep ==
  ASSUME NamesInv, NEW c \in Namers, NamerStep(c), NEW n \in AppNames
  PROVE  /\ appRecord'[n].stack \in {appRecord[n].stack, NoRoute, Stack(n, 0), Stack(n, c)}
         /\ appRoutes'[n] \in {appRoutes[n], NoRoute, Stack(n, 0), Stack(n, c)}
         /\ appRecord' = appRecord \/ RecordDeployment(c) \/ RemoveApp(c)
         /\ appRoutes' = appRoutes \/ Promote(c) \/ RemoveApp(c)
<1> DEFINE d == namer[c]
<1>0. NamesTypes /\ HolderKnows(c) /\ d \in Progresses
  BY DEF NamesInv, NamesTypes
<1>1. appRecord' = appRecord \/ RecordDeployment(c) \/ RemoveApp(c)
  BY <1>0, TracingStep DEF NamerStep, LoadService, RollOut, Promote, SweepStacks
<1>2. appRoutes' = appRoutes \/ Promote(c) \/ RemoveApp(c)
  BY <1>0, TracingStep DEF NamerStep, LoadService, RollOut, RecordDeployment, SweepStacks
<1>3. CASE RecordDeployment(c)
  <2>1. d.stack \in {Stack(d.app, 0), Stack(d.app, c)} /\ d.app \in AppNames
    BY <1>0, <1>3 DEF RecordDeployment, HolderKnows, NamesTypes, OwnProgress
  <2>2. \/ UNCHANGED appRecord
        \/ appRecord' = [appRecord EXCEPT ![d.app] =
                           [stack |-> d.stack, path |-> d.path, source |-> d.source]]
    BY <1>3 DEF RecordDeployment
  <2>3. UNCHANGED appRoutes
    BY <1>3 DEF RecordDeployment
  <2> HIDE DEF d
  <2>4. appRecord'[n].stack \in {appRecord[n].stack, Stack(n, 0), Stack(n, c)}
    BY <1>0, <2>1, <2>2 DEF NamesTypes
  <2> QED
    BY <1>1, <1>2, <2>3, <2>4
<1>4. CASE Promote(c)
  <2>1. d.stack \in {Stack(d.app, 0), Stack(d.app, c)} /\ d.app \in AppNames
    BY <1>0, <1>4 DEF Promote, HolderKnows, NamesTypes, OwnProgress
  <2>2. \/ UNCHANGED appRoutes \/ appRoutes' = RoutesWithout(d)
        \/ appRoutes' = [RoutesWithout(d) EXCEPT ![d.app] = d.stack]
    BY <1>4 DEF Promote
  <2>3. UNCHANGED appRecord
    BY <1>4 DEF Promote
  <2> HIDE DEF d
  <2>4. appRoutes'[n] \in {appRoutes[n], NoRoute, Stack(n, 0), Stack(n, c)}
    BY <1>0, <2>1, <2>2 DEF NamesTypes, RoutesWithout
  <2> QED
    BY <1>1, <1>2, <2>3, <2>4
<1>5. CASE RemoveApp(c)
  <2>1. d.app \in AppNames
    BY <1>0, <1>5 DEF RemoveApp, NamesTypes, OwnProgress
  <2>2. /\ appRoutes' \in {appRoutes, [appRoutes EXCEPT ![d.app] = NoRoute]}
        /\ appRecord' \in {appRecord, [appRecord EXCEPT ![d.app] = NoRecord]}
    BY <1>5 DEF RemoveApp
  <2>3. NoRecord.stack = NoRoute
    BY DEF NoRecord
  <2> HIDE DEF d
  <2>4. appRoutes'[n] \in {appRoutes[n], NoRoute}
    BY <1>0, <2>2 DEF NamesTypes
  <2>5. appRecord'[n] \in {appRecord[n], NoRecord}
    BY <1>0, <2>2 DEF NamesTypes
  <2> QED
    BY <1>1, <1>2, <2>3, <2>4, <2>5
<1> QED
  BY <1>1, <1>2, <1>3, <1>4, <1>5

LEMMA CandidatesAreNewStep ==
  ASSUME NamesInv, [NamesNext]_namesVars
  PROVE  CandidatesAreNew'
<1>0. NamesTypes /\ OneHolder /\ CandidatesAreNew
  BY DEF NamesInv
<1>1. CASE UNCHANGED namesVars
  BY <1>0, <1>1 DEF namesVars, CandidatesAreNew, Unused
<1>2. CASE EditManifest
  BY <1>0, <1>2 DEF EditManifest, CandidatesAreNew, Unused
<1>3. ASSUME NEW c \in Namers, NamerStep(c), NEW b \in Namers,
             b > nameOps' \/ namer'[b].at \in {"deploy", "manifests", "rollout", "promote"}
      PROVE  Unused(b)'
  <2>0. nameOps \in Int /\ b \in Int /\ c \in Int
    BY <1>0, OpsBounded DEF NamesTypes, Namers
  <2>1. CASE b # c
    <3>1. b > nameOps \/ namer[b].at \in {"deploy", "manifests", "rollout", "promote"}
      BY <1>0, <1>3, <2>0, <2>1, TurnStep DEF NamerStep
    <3>2. Unused(b)
      BY <1>0, <3>1 DEF CandidatesAreNew
    <3>3. ASSUME NEW n \in AppNames
          PROVE  appRecord'[n].stack.attempt # b /\ appRoutes'[n].attempt # b
      <4>1. /\ appRecord'[n].stack \in {appRecord[n].stack, NoRoute, Stack(n, 0), Stack(n, c)}
            /\ appRoutes'[n] \in {appRoutes[n], NoRoute, Stack(n, 0), Stack(n, c)}
        BY <1>3, AttemptStep
      <4>2. b # 0
        BY ConstantTypes
      <4> QED
        BY <2>1, <3>2, <4>1, <4>2 DEF Unused, Stack, NoRoute
    <3> QED
      BY <3>3 DEF Unused
  <2>2. CASE b = c
    <3>1. CASE \E op \in {"deploy", "remove"} : LoadService(c, op)
      <4>1. c > nameOps
        BY <1>0, <1>3, <2>0, <3>1, TurnStep
      <4> QED
        BY <1>0, <2>2, <3>1, <4>1 DEF LoadService, CandidatesAreNew, Unused
    <3>2. CASE ~(\E op \in {"deploy", "remove"} : LoadService(c, op))
      <4>1. ~(b > nameOps')
        BY <1>0, <1>3, <2>0, <2>2, <3>2, TurnStep
      <4>2. namer'[c].at \in {"deploy", "manifests", "rollout", "promote"} /\ namer'[c].at # "idle"
        BY <1>3, <2>2, <4>1
      <4>3. Tracing(c) \/ RollOut(c)
        BY <1>0, <1>3, <3>2, <4>2, NextStage DEF NamerStep
      <4>4. namer[c].at \in {"deploy", "manifests", "rollout"} /\ UNCHANGED <<appRecord, appRoutes>>
        BY <1>0, <1>3, <4>3, TracingStep DEF RollOut
      <4> QED
        BY <1>0, <2>2, <4>4 DEF CandidatesAreNew, Unused
    <3> QED
      BY <3>1, <3>2
  <2> QED
    BY <2>1, <2>2
<1>4. ASSUME NEW c \in Namers, NamerStep(c)
      PROVE  CandidatesAreNew'
  BY <1>3, <1>4 DEF CandidatesAreNew
<1> QED
  BY <1>1, <1>2, <1>4 DEF NamesNext, NamerStep, Tracing

LEMMA CandidatesAreApartStep ==
  ASSUME NamesInv, [NamesNext]_namesVars
  PROVE  CandidatesAreApart'
<1> USE DEF CandidatesAreApart
<1>0. NamesTypes /\ CandidatesAreNew /\ CandidatesAreApart
  BY DEF NamesInv
<1>1. CASE UNCHANGED namesVars
  BY <1>0, <1>1 DEF namesVars
<1>2. CASE EditManifest
  BY <1>0, <1>2 DEF EditManifest
<1>3. ASSUME NEW c \in Namers, NamerStep(c), NEW n \in AppNames
      PROVE  appJournal'[n].promoted \/ appJournal'[n].stack = NoRoute
               \/ appJournal'[n].stack \notin {appRecord'[n].stack, appRoutes'[n]}
  <2> DEFINE d == namer[c]
             Apart == appJournal'[n].promoted \/ appJournal'[n].stack = NoRoute
                        \/ appJournal'[n].stack \notin {appRecord'[n].stack, appRoutes'[n]}
  <2>0. d \in Progresses /\ HolderKnows(c)
    BY <1>0, <1>3 DEF NamesTypes, NamesInv
  <2>1. UNCHANGED <<appRecord, appRoutes, appJournal>> => Apart
    BY <1>0, <1>3
  <2>2. ASSUME NEW op, LoadService(c, op)
        PROVE  Apart
    BY <2>1, <2>2 DEF LoadService
  <2>3. CASE Tracing(c)
    <3>1. /\ UNCHANGED <<appRecord, appRoutes>>
          /\ appJournal' \in {appJournal, [appJournal EXCEPT ![d.app] = Unjournaled]}
      BY <1>0, <1>3, <2>3, TracingStep
    <3> HIDE DEF d
    <3> QED
      BY <1>0, <1>3, <3>1 DEF NamesTypes, Unjournaled
  <2>4. CASE RollOut(c)
    <3>1. /\ UNCHANGED <<appRecord, appRoutes>>
          /\ \/ UNCHANGED appJournal
             \/ appJournal' = [appJournal EXCEPT ![d.app] = [stack |-> Stack(d.app, c), promoted |-> FALSE]]
      BY <2>4 DEF RollOut
    <3>2. Unused(c)
      BY <1>0, <1>3, <2>4 DEF RollOut, CandidatesAreNew
    <3> HIDE DEF d
    <3>3. Stack(d.app, c) \notin {appRecord[n].stack, appRoutes[n]}
      BY <1>3, <3>2 DEF Unused, Stack
    <3>4. n # d.app => appJournal'[n] = appJournal[n]
      BY <1>0, <1>3, <3>1 DEF NamesTypes
    <3>5. n = d.app => appJournal'[n].stack = Stack(d.app, c) \/ appJournal'[n] = appJournal[n]
      BY <1>0, <1>3, <3>1 DEF NamesTypes
    <3> QED
      BY <1>0, <1>3, <3>1, <3>3, <3>4, <3>5
  <2>5. CASE Promote(c)
    <3>1. /\ d.stack \in {Stack(d.app, 0), Stack(d.app, c)} /\ d.app \in AppNames
          /\ appJournal[d.app] = Unjournaled /\ UNCHANGED appRecord
      BY <1>0, <2>0, <2>5 DEF Promote, HolderKnows, NamesTypes, OwnProgress, Holding
    <3>2. \/ UNCHANGED <<appRoutes, appJournal>>
          \/ /\ UNCHANGED appRoutes
             /\ d.stack.attempt > 0
             /\ appJournal' = [appJournal EXCEPT ![d.app].stack = d.stack]
          \/ /\ UNCHANGED appJournal
             /\ appRoutes' \in {RoutesWithout(d), [RoutesWithout(d) EXCEPT ![d.app] = d.stack]}
      BY <2>5 DEF Promote
    <3>3. Unused(c)
      BY <1>0, <1>3, <2>5 DEF Promote, CandidatesAreNew
    <3> HIDE DEF d
    <3>4. CASE UNCHANGED appRoutes /\ d.stack.attempt > 0
               /\ appJournal' = [appJournal EXCEPT ![d.app].stack = d.stack]
      <4>1. d.stack = Stack(d.app, c)
        BY <3>1, <3>4 DEF Stack
      <4>2. d.stack \notin {appRecord[n].stack, appRoutes[n]}
        BY <1>3, <3>3, <4>1 DEF Unused, Stack
      <4>3. n # d.app => appJournal'[n] = appJournal[n]
        BY <1>0, <1>3, <3>4 DEF NamesTypes
      <4>4. n = d.app => appJournal'[n].stack = d.stack
        BY <1>0, <1>3, <3>4 DEF NamesTypes
      <4> QED
        BY <1>0, <1>3, <3>1, <3>4, <4>2, <4>3, <4>4
    <3>5. CASE UNCHANGED appJournal
               /\ appRoutes' \in {RoutesWithout(d), [RoutesWithout(d) EXCEPT ![d.app] = d.stack]}
      <4>1. n # d.app => appRoutes'[n] \in {appRoutes[n], NoRoute}
        BY <1>3, <3>5 DEF RoutesWithout
      <4>2. n = d.app => appJournal[n].stack = NoRoute
        BY <3>1 DEF Unjournaled
      <4> QED
        BY <1>0, <1>3, <3>1, <3>5, <4>1, <4>2
    <3> QED
      BY <2>1, <3>1, <3>2, <3>4, <3>5
  <2>6. CASE RecordDeployment(c)
    <3>1. /\ d.app \in AppNames
          /\ appJournal[d.app] = Unjournaled /\ UNCHANGED appRoutes
      BY <1>0, <2>0, <2>6 DEF RecordDeployment, HolderKnows, NamesTypes, OwnProgress, Holding
    <3>2. \/ /\ UNCHANGED appJournal
             /\ appRecord' = [appRecord EXCEPT ![d.app] =
                                [stack |-> d.stack, path |-> d.path, source |-> d.source]]
          \/ /\ UNCHANGED appRecord
             /\ appJournal' = [appJournal EXCEPT ![d.app] = [stack |-> d.stack, promoted |-> TRUE]]
      BY <2>6 DEF RecordDeployment
    <3> HIDE DEF d
    <3> QED
      BY <1>0, <1>3, <3>1, <3>2 DEF NamesTypes, Unjournaled
  <2>7. CASE SweepStacks(c)
    BY <2>1, <2>7 DEF SweepStacks
  <2>8. CASE RemoveApp(c)
    <3>1. /\ appRoutes' \in {appRoutes, [appRoutes EXCEPT ![d.app] = NoRoute]}
          /\ appRecord' \in {appRecord, [appRecord EXCEPT ![d.app] = NoRecord]}
          /\ appJournal' \in {appJournal, [appJournal EXCEPT ![d.app] = Unjournaled]}
      BY <2>8 DEF RemoveApp
    <3>2. NoRecord.stack = NoRoute /\ Unjournaled.stack = NoRoute
      BY DEF NoRecord, Unjournaled
    <3> HIDE DEF d
    <3>3. appRoutes'[n] \in {appRoutes[n], NoRoute}
      BY <1>0, <1>3, <3>1 DEF NamesTypes
    <3>4. appRecord'[n] \in {appRecord[n], NoRecord}
      BY <1>0, <1>3, <3>1 DEF NamesTypes
    <3>5. appJournal'[n] \in {appJournal[n], Unjournaled}
      BY <1>0, <1>3, <3>1 DEF NamesTypes
    <3> QED
      BY <1>0, <1>3, <3>2, <3>3, <3>4, <3>5
  <2> QED
    BY <1>3, <2>2, <2>3, <2>4, <2>5, <2>6, <2>7, <2>8 DEF NamerStep
<1> QED
  BY <1>1, <1>2, <1>3 DEF NamesNext, NamerStep, Tracing

-----------------------------------------------------------------------------
(* AppNames: whatever is swept, names keep their stacks *)

LEMMA StacksHaveNames ==
  ASSUME NEW n \in AppNames, NEW s \in OwnStacks(n) \cup {NoRoute}
  PROVE  /\ s # NoRoute => s.name = n /\ s \in Stacks
         /\ NoRoute \notin Stacks
         /\ \A o \in AppNames : s \in OwnStacks(o) => n = o
<1>1. \A o \in AppNames : o # <<>>
  BY NamesAssumption
<1> QED
  <2>1. \A o \in AppNames : \A r \in OwnStacks(o) : r.name = o /\ r # NoRoute /\ r \in Stacks
    BY <1>1 DEF OwnStacks, Stacks, Stack, NoRoute
  <2>2. NoRoute \notin Stacks
    <3>1. \A t \in Stacks : t.name \in AppNames
      BY DEF Stacks, Stack
    <3>2. NoRoute.name = <<>>
      BY DEF NoRoute, Stack
    <3> QED
      BY <1>1, <3>1, <3>2
  <2> QED
    BY <2>1, <2>2

\* Who goes by n alone loses nothing when the stacks of another name are swept.
LEMMA SweptByName ==
  ASSUME NEW n \in AppNames, NEW m \in AppNames, ~ReadsAsCandidate(m),
         NEW s \in OwnStacks(m) \cup {NoRoute}, s # NoRoute, AppStack(s, n)
  PROVE  m = n
<1>1. s.name = m
  BY StacksHaveNames
<1>2. AppStack(Stack(m, 0), n)
  BY <1>1 DEF AppStack, Stack
<1> QED
  BY <1>2 DEF ReadsAsCandidate

\* A step keeps what n has deployed and what the route of n reaches.
LEMMA NamesKeepStep ==
  ASSUME NamesInv, NamesTypes', [NamesNext]_namesVars, NEW n \in AppNames, ~ReadsAsCandidate(n)
  PROVE  /\ n \in Settled' => appRecord'[n].stack \in swarmStacks'
         /\ appRoutes'[n] # NoRoute => appRoutes'[n] \in swarmStacks'
<1> DEFINE Kept == /\ n \in Settled' => appRecord'[n].stack \in swarmStacks'
                   /\ appRoutes'[n] # NoRoute => appRoutes'[n] \in swarmStacks'
<1>0. /\ NamesTypes /\ CandidatesAreNew /\ CandidatesAreApart
      /\ n \in Settled => appRecord[n].stack \in swarmStacks
      /\ appRoutes[n] # NoRoute => appRoutes[n] \in swarmStacks
  BY DEF NamesInv, NamesKeepTheirStacks, Settled
<1>s. /\ appRecord[n].stack \in OwnStacks(n) \cup {NoRoute}
      /\ appRoutes[n] \in OwnStacks(n) \cup {NoRoute}
  BY <1>0 DEF NamesTypes
<1>u. ASSUME UNCHANGED <<appRecord, appRoutes>>, Settled' \subseteq Settled,
             NEW gone, swarmStacks \ {gone} \subseteq swarmStacks',
             gone \in {appRecord[n].stack, appRoutes[n]} => gone \notin swarmStacks
      PROVE  Kept
  BY <1>0, <1>u
<1>v. UNCHANGED <<appRecord, appRoutes>> /\ Settled' \subseteq Settled
        /\ swarmStacks \subseteq swarmStacks' => Kept
  BY <1>0
<1>1. CASE UNCHANGED namesVars
  BY <1>1, <1>v DEF namesVars, Settled
<1>2. CASE EditManifest
  BY <1>2, <1>v, SettledStep DEF EditManifest
<1>3. ASSUME NEW c \in Namers, NamerStep(c)
      PROVE  Kept
  <2> DEFINE d == namer[c]
             app == namer[c].app
  <2>0. d \in Progresses /\ HolderKnows(c) /\ (d.at # "idle" => OwnProgress(d))
    BY <1>0, <1>3 DEF NamesTypes, NamesInv
  <2>2. ASSUME NEW op, LoadService(c, op)
        PROVE  Kept
    BY <1>v, <2>2 DEF LoadService, observers, Settled
  <2>3. CASE Tracing(c)
    <3> DEFINE gone == appJournal[app].stack
    <3>1. app \in AppNames
      BY <1>0, <1>3, <2>3, TracingStep DEF OwnProgress
    <3>2. \/ swarmStacks' = swarmStacks
          \/ ~appJournal[app].promoted /\ swarmStacks' = swarmStacks \ {gone}
      BY <1>0, <1>3, <2>3, TracingStep
    <3>3. gone \in OwnStacks(app) \cup {NoRoute}
      BY <1>0, <3>1 DEF NamesTypes
    <3>4. ~appJournal[app].promoted => gone = NoRoute \/ gone \notin {appRecord[app].stack, appRoutes[app]}
      BY <1>0, <3>1 DEF CandidatesAreApart
    <3>5. gone \in swarmStacks => gone # NoRoute /\ gone \in OwnStacks(app)
      BY <1>0, <3>1, <3>3, StacksHaveNames DEF NamesTypes
    <3>6. ~appJournal[app].promoted /\ gone \in {appRecord[n].stack, appRoutes[n]} => gone \notin swarmStacks
      BY <1>s, <3>1, <3>4, <3>5, StacksHaveNames
    <3>7. UNCHANGED <<appRecord, appRoutes, Settled>>
      BY <1>0, <1>3, <2>3, TracingStep DEF Settled
    <3> HIDE DEF gone, Kept
    <3> QED
      BY <1>u, <1>v, <3>2, <3>6, <3>7
  <2>4. CASE RollOut(c)
    BY <1>v, <2>4 DEF RollOut, observers, Settled
  <2>5. CASE Promote(c)
    <3>1. /\ app \in AppNames
          /\ d.stack \in {Stack(app, 0), Stack(app, c)} \cap swarmStacks
      BY <2>0, <2>5 DEF Promote, OwnProgress, HolderKnows
    <3>2. \/ /\ d.stack.attempt > 0 /\ UNCHANGED appRoutes
             /\ swarmStacks \ {d.stack} \subseteq swarmStacks'
          \/ UNCHANGED <<appRoutes, swarmStacks>>
          \/ /\ UNCHANGED swarmStacks
             /\ appRoutes' \in {RoutesWithout(d), [RoutesWithout(d) EXCEPT ![app] = d.stack]}
      BY <2>5 DEF Promote
    <3>3. UNCHANGED <<appRecord, Settled>>
      BY <2>5 DEF Promote, observers, Settled
    <3>4. CASE d.stack.attempt > 0 /\ UNCHANGED appRoutes /\ swarmStacks \ {d.stack} \subseteq swarmStacks'
      <4>1. Unused(c)
        BY <1>0, <1>3, <2>5 DEF Promote, CandidatesAreNew
      <4>2. d.stack.attempt = c
        BY <3>1, <3>4 DEF Stack
      <4>3. d.stack \notin {appRecord[n].stack, appRoutes[n]}
        BY <4>1, <4>2 DEF Unused
      <4> HIDE DEF Kept
      <4> QED
        BY <1>u, <3>3, <3>4, <4>3
    <3>5. CASE /\ UNCHANGED swarmStacks
               /\ appRoutes' \in {RoutesWithout(d), [RoutesWithout(d) EXCEPT ![app] = d.stack]}
      <4>1. appRoutes'[n] \in {appRoutes[n], NoRoute, d.stack}
        BY <3>1, <3>5 DEF RoutesWithout
      <4> QED
        BY <1>0, <3>1, <3>3, <3>5, <4>1
    <3> HIDE DEF Kept
    <3> QED
      BY <1>v, <3>2, <3>3, <3>4, <3>5
  <2>6. CASE RecordDeployment(c)
    <3>1. app \in AppNames /\ d.stack \in swarmStacks
      BY <2>0, <2>6 DEF RecordDeployment, OwnProgress, HolderKnows
    <3>2. UNCHANGED <<appRoutes, swarmStacks>>
      BY <2>6 DEF RecordDeployment
    <3>3. CASE UNCHANGED <<appRecord, Settled>>
      BY <1>v, <3>2, <3>3
    <3>4. CASE /\ appRecord' = [appRecord EXCEPT ![app] =
                                 [stack |-> d.stack, path |-> d.path, source |-> d.source]]
               /\ Settled' \subseteq Settled \cup {app}
      <4>1. n = app => appRecord'[n].stack = d.stack
        BY <1>0, <3>4 DEF NamesTypes
      <4>2. n # app => appRecord'[n] = appRecord[n]
        BY <1>0, <3>4 DEF NamesTypes
      <4> QED
        BY <1>0, <3>1, <3>2, <3>4, <4>1, <4>2
    <3> HIDE DEF Kept
    <3> QED
      BY <1>0, <1>3, <2>6, <3>3, <3>4, SettledStep DEF RecordDeployment, observers, Settled
  <2>7. CASE SweepStacks(c)
    <3>1. PICK name \in d.sweeps : \E gone \in SUBSET StaleAppStacks(name, d.stack) :
            swarmStacks' = swarmStacks \ gone
      BY <2>7 DEF SweepStacks
    <3>2. /\ name \in d.retired \cup {app} /\ d.retired \cap Settled = {}
          /\ appRecord[app].stack = d.stack /\ appRoutes[app] \in {NoRoute, d.stack}
          /\ \A o \in d.retired : appRoutes[o] = NoRoute
      BY <2>0, <2>7, <3>1 DEF SweepStacks, HolderKnows, Holding
    <3>3. name \in AppNames
      BY <2>0, <2>7, <3>2 DEF SweepStacks, OwnProgress, Progresses
    <3>4. UNCHANGED <<appRecord, appRoutes, Settled>>
      BY <2>7 DEF SweepStacks, observers, Settled
    <3>5. ASSUME NEW s \in swarmStacks \ swarmStacks', s \in OwnStacks(n) \cup {NoRoute}
          PROVE  name = n /\ s # d.stack
      <4>1. s # d.stack /\ AppStack(s, name)
        BY <3>1, <3>5 DEF StaleAppStacks
      <4>2. s # NoRoute
        BY <1>0, <3>5, StacksHaveNames DEF NamesTypes
      <4> QED
        BY <3>3, <3>5, <4>1, <4>2, SweptByName
    <3>6. n \in Settled => appRecord[n].stack \in swarmStacks'
      BY <1>0, <1>s, <3>2, <3>5
    <3>7. appRoutes[n] # NoRoute => appRoutes[n] \in swarmStacks'
      BY <1>0, <1>s, <3>2, <3>5
    <3> QED
      BY <3>4, <3>6, <3>7
  <2>8. CASE RemoveApp(c)
    <3> DEFINE gone == IF appRecord[app] = NoRecord THEN Stack(app, 0) ELSE appRecord[app].stack
    <3>1. app \in AppNames
      BY <2>0, <2>8 DEF RemoveApp, OwnProgress
    <3>2. /\ appRoutes' \in {appRoutes, [appRoutes EXCEPT ![app] = NoRoute]}
          /\ appRecord' \in {appRecord, [appRecord EXCEPT ![app] = NoRecord]}
          /\ \/ UNCHANGED <<swarmStacks, appRecord, Settled>>
             \/ /\ appRoutes'[app] = NoRoute /\ swarmStacks' = swarmStacks \ {gone}
                /\ Settled' = Settled \ {app}
      BY <2>8 DEF RemoveApp, Settled
    <3>3. gone \in OwnStacks(app) \cup {NoRoute}
      BY <1>0, <3>1, ConstantTypes DEF NamesTypes
    <3>4. appRoutes'[n] \in {appRoutes[n], NoRoute} /\ (n # app => appRecord'[n] = appRecord[n])
      BY <1>0, <3>2 DEF NamesTypes
    <3>5. n # app /\ gone \in {appRecord[n].stack, appRoutes[n]} => gone \notin swarmStacks
      BY <1>0, <1>s, <3>1, <3>3, StacksHaveNames DEF NamesTypes
    <3> HIDE DEF gone
    <3> QED
      BY <1>0, <3>2, <3>4, <3>5
  <2> QED
    BY <1>3, <2>2, <2>3, <2>4, <2>5, <2>6, <2>7, <2>8 DEF NamerStep
<1> QED
  BY <1>1, <1>2, <1>3 DEF NamesNext, NamerStep, Tracing

LEMMA StaysCatalogued ==
  ASSUME NamesInv, [NamesNext]_namesVars
  PROVE  (staysDeclared \subseteq CataloguedNames)'
<1>0. staysDeclared \subseteq CataloguedNames
  BY DEF NamesInv
<1>1. CASE UNCHANGED namesVars
  BY <1>0, <1>1 DEF namesVars, CataloguedNames, Names
<1>2. CASE EditManifest
  BY <1>2 DEF EditManifest
<1>3. ASSUME NEW c \in Namers, NamerStep(c)
      PROVE  (staysDeclared \subseteq CataloguedNames)'
  <2>1. declaredIn' = declaredIn /\ catalogued' = catalogued
    BY <1>3, RecordsStep DEF NamesInv
  <2>2. CataloguedNames' = CataloguedNames
    BY <2>1 DEF CataloguedNames, Names
  <2>3. staysDeclared' \subseteq staysDeclared \cup CataloguedNames
    <3>1. NamesTypes
      BY DEF NamesInv
    <3> QED
      BY <1>3, <3>1, TracingStep DEF NamerStep, LoadService, RollOut, Promote, RecordDeployment,
                                     SweepStacks, RemoveApp, observers
  <2> QED
    BY <1>0, <2>2, <2>3
<1> QED
  BY <1>1, <1>2, <1>3 DEF NamesNext, NamerStep, Tracing

-----------------------------------------------------------------------------
(* AppNames: the theorems *)

LEMMA NamesInitially == NamesInit => NamesInv
<1> SUFFICES ASSUME NamesInit
             PROVE  NamesInv
  OBVIOUS
<1>1. namer = [c \in Namers |-> AtRest] /\ nameOps = 0 /\ appJournal = [n \in AppNames |-> Unjournaled]
  BY DEF NamesInit
<1>2. declaredIn \in [Manifests -> [AppNames -> Declaration]] /\ catalogued \subseteq Manifests
  <2>1. PICK w \in Workspaces : declaredIn = w.declared /\ catalogued = w.catalogued
    BY DEF NamesInit
  <2> QED
    BY <2>1, NamesAssumption
<1> DEFINE path(n) == CHOOSE m \in Manifests : n \in Names(m)
<1>3. PICK legacy \in BOOLEAN, deployed \in SUBSET AppNames :
        /\ deployed \subseteq UNION {Names(m) : m \in Manifests}
        /\ appRecord = [n \in AppNames |->
                          IF n \in deployed
                            THEN [stack  |-> Stack(n, 0), path |-> IF legacy THEN "" ELSE path(n),
                                  source |-> declaredIn[path(n)][n]]
                            ELSE NoRecord]
        /\ swarmStacks = {Stack(n, 0) : n \in deployed}
        /\ appRoutes = [n \in AppNames |-> IF n \in deployed /\ routed THEN Stack(n, 0) ELSE NoRoute]
        /\ staysDeclared = deployed \cap CataloguedNames /\ trace = NoTrace /\ slipped = {}
  BY DEF NamesInit
<1>4. \A n \in deployed : path(n) \in Manifests /\ declaredIn[path(n)][n] \in Declaration
  BY <1>2, <1>3
<1>5. \A n \in AppNames : /\ appRecord[n].stack \in {Stack(n, 0), NoRoute} /\ appRecord[n] \in Deployments
                          /\ n \in deployed => appRecord[n].stack = Stack(n, 0)
  <2> SUFFICES ASSUME NEW n \in AppNames
               PROVE  /\ appRecord[n].stack \in {Stack(n, 0), NoRoute} /\ appRecord[n] \in Deployments
                      /\ n \in deployed => appRecord[n].stack = Stack(n, 0)
    OBVIOUS
  <2> DEFINE r == [stack  |-> Stack(n, 0), path |-> IF legacy THEN "" ELSE path(n),
                   source |-> declaredIn[path(n)][n]]
  <2>1. appRecord[n] = IF n \in deployed THEN r ELSE NoRecord
    BY <1>3
  <2>2. NoRecord \in Deployments /\ NoRecord.stack = NoRoute
    BY ConstantTypes DEF NoRecord
  <2>3. n \in deployed => r \in Deployments /\ r.stack = Stack(n, 0)
    <3> HIDE DEF path
    <3> QED
      BY <1>4, ConstantTypes DEF Deployments
  <2> HIDE DEF r
  <2> QED
    BY <2>1, <2>2, <2>3
<1>6. NamesTypes
  <2>1. namer \in [Namers -> Progresses] /\ \A c \in Namers : namer[c].at = "idle"
    BY <1>1, ConstantTypes DEF AtRest
  <2>2. /\ appRecord \in [AppNames -> Deployments]
        /\ \A n \in AppNames : appRecord[n].stack \in OwnStacks(n) \cup {NoRoute}
    <3> DEFINE r(n) == IF n \in deployed
                         THEN [stack  |-> Stack(n, 0), path |-> IF legacy THEN "" ELSE path(n),
                               source |-> declaredIn[path(n)][n]]
                         ELSE NoRecord
    <3>1. appRecord = [n \in AppNames |-> r(n)]
      BY <1>3
    <3> HIDE DEF r
    <3>2. \A n \in AppNames : r(n) \in Deployments
      BY <1>5, <3>1
    <3>3. \A n \in AppNames : {Stack(n, 0), NoRoute} \subseteq OwnStacks(n) \cup {NoRoute}
      BY ConstantTypes
    <3>4. \A n \in AppNames : appRecord[n].stack \in OwnStacks(n) \cup {NoRoute}
      BY <1>5, <3>3
    <3> QED
      BY <3>1, <3>2, <3>4
  <2>3. /\ appRoutes \in [AppNames -> Stacks \cup {NoRoute}]
        /\ \A n \in AppNames : appRoutes[n] \in OwnStacks(n) \cup {NoRoute}
    BY <1>3, ConstantTypes
  <2>4. /\ appJournal \in [AppNames -> [stack : Stacks \cup {NoRoute}, promoted : BOOLEAN]]
        /\ \A n \in AppNames : appJournal[n].stack \in OwnStacks(n) \cup {NoRoute}
    BY <1>1, ConstantTypes DEF Unjournaled
  <2>5. /\ swarmStacks \subseteq Stacks /\ staysDeclared \subseteq AppNames /\ slipped \subseteq AppNames
        /\ trace \in Traces
    BY <1>3, ConstantTypes
  <2> QED
    BY <1>1, <1>2, <2>1, <2>2, <2>3, <2>4, <2>5, ConstantTypes DEF NamesTypes
<1>7. OneHolder
  BY <1>1 DEF OneHolder, AtRest, Holding
<1>8. CandidatesAreNew
  <2>1. ASSUME NEW c \in Namers, NEW n \in AppNames
        PROVE  appRecord[n].stack.attempt # c /\ appRoutes[n].attempt # c
    <3>1. appRecord[n].stack \in {Stack(n, 0), NoRoute} /\ appRoutes[n] \in {Stack(n, 0), NoRoute}
      BY <1>3, <1>5
    <3>2. \A s \in {Stack(n, 0), NoRoute} : s.attempt = 0
      BY DEF Stack, NoRoute
    <3>3. c # 0
      BY ConstantTypes
    <3> QED
      BY <3>1, <3>2, <3>3
  <2> QED
    BY <2>1 DEF CandidatesAreNew, Unused
<1>9. CandidatesAreApart
  BY <1>1 DEF CandidatesAreApart, Unjournaled
<1>10. \A c \in Namers : HolderKnows(c)
  BY <1>1 DEF HolderKnows, AtRest, Holding
<1>11. staysDeclared \subseteq CataloguedNames
  BY <1>3
<1>12. NamesKeepTheirStacks
  <2>1. ASSUME NEW n \in AppNames
        PROVE  /\ n \in staysDeclared => appRecord[n].stack \in swarmStacks
               /\ appRoutes[n] # NoRoute => appRoutes[n] \in swarmStacks
    BY <1>3, <1>5
  <2> QED
    BY <2>1 DEF NamesKeepTheirStacks, Settled
<1> QED
  BY <1>6, <1>7, <1>8, <1>9, <1>10, <1>11, <1>12 DEF NamesInv

LEMMA NamesStep ==
  ASSUME NamesInv, [NamesNext]_namesVars
  PROVE  NamesInv'
<1>1. NamesTypes /\ OneHolder
  BY DEF NamesInv
<1>2. NamesTypes' /\ OneHolder'
  BY <1>1, NamesTypesStep, OneHolderStep
<1>3. \A c \in Namers : HolderKnows(c)'
  BY HolderKnowsStep
<1>4. NamesKeepTheirStacks'
  BY <1>2, NamesKeepStep DEF NamesKeepTheirStacks, ReadsAsCandidate, AppStack, Settled
<1> QED
  BY <1>2, <1>3, <1>4, CandidatesAreNewStep, CandidatesAreApartStep, StaysCatalogued DEF NamesInv

\* The holder of the lock, the candidates and the stacks of names stay in step, for any
\* names, manifests and domains, and any number of deploys, removes and edits.
THEOREM NamesInvariant == NamesSpec => []NamesInv
<1>1. NamesInit => NamesInv
  BY NamesInitially
<1>2. NamesInv /\ [NamesNext]_namesVars => NamesInv'
  BY NamesStep
<1> QED
  BY <1>1, <1>2, PTL DEF NamesSpec

LEMMA NamesInvTypes ==
  ASSUME NamesInv
  PROVE  NamesTypeOK
<1> DEFINE holders == {c \in Namers : namer[c].at \notin {"idle", "deploy", "remove"}}
<1>1. NamesTypes /\ OneHolder
  BY DEF NamesInv
<1>2. \A c \in Namers : namer[c] \in Progresses
  BY <1>1 DEF NamesTypes
<1>3. \A b, c \in holders : b = c
  BY <1>1, <1>2 DEF OneHolder, Progresses
<1>4. Cardinality(holders) <= 1
  <2> HIDE DEF holders
  <2>1. CASE holders = {}
    BY <2>1, FS_EmptySet
  <2>2. CASE holders # {}
    <3>1. PICK c : c \in holders
      BY <2>2
    <3>2. holders = {c}
      BY <1>3, <3>1
    <3> QED
      BY <3>2, FS_Singleton
  <2> QED
    BY <2>1, <2>2
<1>5. ASSUME NEW n \in AppNames
      PROVE  {appRecord[n].stack, appRoutes[n], appJournal[n].stack} \subseteq
               {Stack(o, k) : o \in {n}, k \in 0..MaxNameOps} \cup {NoRoute}
  <2>1. OwnStacks(n) = {Stack(o, k) : o \in {n}, k \in 0..MaxNameOps}
    BY DEF OwnStacks
  <2> QED
    BY <1>1, <2>1 DEF NamesTypes
<1>6. declaredIn \in [Manifests -> [AppNames -> Declaration]] /\ staysDeclared \cup slipped \subseteq AppNames
      /\ trace.todo \subseteq Manifests /\ trace.loads \subseteq Manifests \X AppNames
      /\ trace.declared \subseteq AppNames /\ trace.unique \in BOOLEAN
      /\ swarmStacks \subseteq {Stack(n, k) : n \in AppNames, k \in 0..MaxNameOps}
  BY <1>1 DEF NamesTypes, Stacks, Traces
<1>7. \A c \in Namers : /\ namer[c].at \in {"idle", "deploy", "remove", "manifests", "rollout",
                                               "promote", "record", "sweep"}
                        /\ namer[c].retired \cup namer[c].sweeps \subseteq AppNames
  BY <1>2 DEF Progresses, Holding
<1> QED
  BY <1>4, <1>5, <1>6, <1>7 DEF NamesTypeOK

\* The records, routes and journals of a name hold stacks of this name only, and one
\* process at a time has the lock.
THEOREM NamesAreTyped == NamesSpec => []NamesTypeOK
<1>1. NamesInv => NamesTypeOK
  BY NamesInvTypes
<1> QED
  BY <1>1, NamesInvariant, PTL

\* What an app has deployed keeps running, and every route has the stack it reaches,
\* whatever is renamed, traced, swept or removed under other names meanwhile
\* (retiredDeployments, removeStaleAppStacks, recoverJournal, Remove).
THEOREM NamesAreKept == NamesSpec => []NamesKeepTheirStacks
<1>1. NamesInv => NamesKeepTheirStacks
  BY DEF NamesInv
<1> QED
  BY <1>1, NamesInvariant, PTL

-----------------------------------------------------------------------------
(* StackRendering: the inductive invariant *)

Exposures == [domain : BOOLEAN, blueGreen : {"unset", "true", "false"}, enabled : BOOLEAN, tls : BOOLEAN]

\* A Compose file: what else is in it may be anything.
IsComposeFile(file) ==
  /\ file.attachKeys \subseteq NetKeys
  /\ file.definitions \in [NetKeys -> Definitions]
  /\ file.flat \in Exposures
  /\ \A e \in DOMAIN file.perEnvironment : file.perEnvironment[e] \in Exposures

FileTyped == IsComposeFile(composeFile)

Finished   == {"running", "routed"}
Deploying  == {"networks", "route"} \cup {Creating(n) : n \in NetNames} \cup Finished
Loaded     == {"wrap", "render"} \cup Deploying
NamesOf(s) == {SwarmName(k) : k \in s.attached}

\* What the deploy has made of the Compose file so far, and what the networks that the
\* service runs on are.
RenderingInv ==
  /\ FileTyped
  /\ renderPhase \in {"load", "rejected", "failed"} \cup Loaded
  /\ swarmNets \in [NetNames -> {"absent", "overlay", "bridge"}]
  /\ netTodo \subseteq NetNames
  /\ renderPhase \in Loaded => Valid /\ exposedHere = ForEnvironment("here")
  /\ renderPhase \in {"render"} \cup Deploying => wrapping = NeedsWrapper
  /\ renderPhase \in Deploying =>
       /\ ~ConflictingDefinition
       /\ renderedStack = [service     |-> IF BlueGreenHere THEN "app" ELSE "stable",
                           attached    |-> Attachments,
                           definitions |-> NetworkDefinitions,
                           secrets     |-> MountedSecrets,
                           mappings    |-> SecretMappings]
  /\ renderPhase \in {"route"} \cup Finished =>
       /\ runningOn = NamesOf(renderedStack)
       /\ \A n \in runningOn \ {"own"} : swarmNets[n] = "overlay"
  /\ renderPhase = "running" => ~exposedHere.enabled
  /\ renderPhase = "routed" =>
       exposedHere.enabled /\ publishedRoute = IF BlueGreenHere THEN "app" ELSE "stable"

-----------------------------------------------------------------------------
(* StackRendering: the phases *)

LEMMA PhasesDiffer ==
  /\ \A n \in NetNames : Creating(n) \in {"create env", "create x", "create y"}
  /\ {"load", "rejected", "failed"} \cap Loaded = {}
  /\ {"wrap"} \cap ({"render"} \cup Deploying) = {} /\ {"render"} \cap Deploying = {}
  /\ \A n \in NetNames : Creating(n) \notin {"running", "routed", "route", "networks", "render", "wrap"}
  /\ "own" \notin NetNames /\ EnvNet \in NetNames
<1>1. \A n \in NetNames : Creating(n) \in {"create env", "create x", "create y"}
  BY DEF Creating, NetNames, EnvNet
<1>2. "own" \notin NetNames /\ EnvNet \in NetNames
  BY DEF NetNames, EnvNet
<1> QED
  BY <1>1, <1>2 DEF Loaded, Deploying, Finished

\* Every shared network of an attachment has a name of its own in the Swarm.
LEMMA SharedNetworks ==
  ASSUME FileTyped
  PROVE  Attachments \subseteq NetKeys /\ SharedNames \subseteq NetNames
<1>1. Attachments \subseteq NetKeys
  BY DEF FileTyped, IsComposeFile, Attachments, NetKeys
<1>2. ASSUME NEW k \in Attachments
      PROVE  SwarmName(k) \in NetNames \cup {"own"}
  BY <1>1, <1>2 DEF SwarmName, NetKeys, NetNames, EnvNet
<1> QED
  BY <1>1, <1>2 DEF SharedNames

\* The attempt fails or is refused: what is left needs the file and the networks only.
LEMMA EndedStep ==
  ASSUME RenderingInv, NEW how \in {"rejected", "failed"}, Ended(how), UNCHANGED renderInput,
         swarmNets' \in [NetNames -> {"absent", "overlay", "bridge"}]
  PROVE  RenderingInv'
<1>1. renderPhase' = how /\ netTodo' = netTodo /\ composeFile' = composeFile
  BY DEF Ended, renderInput
<1>2. how \notin Loaded /\ how \notin {"render", "route", "running", "routed"} \cup Deploying \cup Finished
  BY PhasesDiffer DEF Loaded, Finished, Deploying
<1>3. Loaded' = Loaded /\ Deploying' = Deploying
  BY DEF Loaded, Deploying, Finished, Creating
<1> QED
  BY <1>1, <1>2, <1>3 DEF RenderingInv, FileTyped, IsComposeFile, Finished

\* The Compose file is read once: what is computed of it does not change.
LEMMA FileFixed ==
  ASSUME UNCHANGED renderInput
  PROVE  /\ Valid' = Valid /\ FileTyped' = FileTyped
         /\ ForEnvironment("here")' = ForEnvironment("here")
         /\ NeedsWrapper' = NeedsWrapper /\ ConflictingDefinition' = ConflictingDefinition
         /\ Attachments' = Attachments /\ NetworkDefinitions' = NetworkDefinitions
         /\ MountedSecrets' = MountedSecrets
         /\ wrapping' = wrapping => SecretMappings' = SecretMappings
         /\ exposedHere' = exposedHere => BlueGreenHere' = BlueGreenHere
         /\ renderedStack' = renderedStack => NamesOf(renderedStack)' = NamesOf(renderedStack)
<1>1. composeFile' = composeFile /\ hadDeployment' = hadDeployment
  BY DEF renderInput
<1>2. FlatIngress' = FlatIngress
  BY <1>1 DEF FlatIngress
<1>3. AllIngresses' = AllIngresses
  BY <1>1, <1>2 DEF AllIngresses, EnvironmentIngress
<1>4. Valid' = Valid
  BY <1>1, <1>2, <1>3 DEF Valid, AnyIngressEnabled, KnownResolution, PortsConflict
<1>5. ForEnvironment("here")' = ForEnvironment("here")
  BY <1>1, <1>2 DEF ForEnvironment, EnvironmentIngress
<1>6. Attachments' = Attachments
  BY <1>1 DEF Attachments
<1>7. NetworkDefinitions' = NetworkDefinitions
  BY <1>1, <1>6 DEF NetworkDefinitions
<1>8. NeedsWrapper' = NeedsWrapper /\ ConflictingDefinition' = ConflictingDefinition
      /\ MountedSecrets' = MountedSecrets /\ FileTyped' = FileTyped
  BY <1>1 DEF NeedsWrapper, ConflictingDefinition, MountedSecrets, FileTyped, IsComposeFile
<1>9. wrapping' = wrapping => SecretMappings' = SecretMappings
  BY <1>1 DEF SecretMappings
<1>10. exposedHere' = exposedHere => BlueGreenHere' = BlueGreenHere
  BY <1>1 DEF BlueGreenHere
<1>11. renderedStack' = renderedStack => NamesOf(renderedStack)' = NamesOf(renderedStack)
  BY <1>7 DEF NamesOf, SwarmName
<1> QED
  BY <1>4, <1>5, <1>6, <1>7, <1>8, <1>9, <1>10, <1>11

\* A step that changes neither the input nor what was computed of it.
LEMMA ComputedKept ==
  ASSUME RenderingInv, UNCHANGED <<renderInput, exposedHere, wrapping, renderedStack>>
  PROVE  /\ FileTyped'
         /\ renderPhase \in Loaded => (Valid /\ exposedHere = ForEnvironment("here"))'
         /\ renderPhase \in {"render"} \cup Deploying => (wrapping = NeedsWrapper)'
         /\ renderPhase \in Deploying =>
              (/\ ~ConflictingDefinition
               /\ renderedStack = [service     |-> IF BlueGreenHere THEN "app" ELSE "stable",
                                   attached    |-> Attachments,
                                   definitions |-> NetworkDefinitions,
                                   secrets     |-> MountedSecrets,
                                   mappings    |-> SecretMappings])'
         /\ NamesOf(renderedStack)' = NamesOf(renderedStack)
<1>1. UNCHANGED renderInput /\ UNCHANGED <<exposedHere, wrapping, renderedStack>>
  OBVIOUS
<1> QED
  BY <1>1, FileFixed DEF RenderingInv

LEMMA LoadComposeStep ==
  ASSUME RenderingInv, LoadCompose
  PROVE  RenderingInv'
<1>1. UNCHANGED <<renderInput, swarmNets>>
  BY DEF LoadCompose
<1>2. CASE ~Valid
  BY <1>1, <1>2, EndedStep DEF LoadCompose, RenderingInv
<1>3. CASE Valid
  <2>1. /\ exposedHere' = ForEnvironment("here") /\ renderPhase' = "wrap"
        /\ UNCHANGED <<wrapping, renderedStack, netTodo, runningOn, publishedRoute>>
    BY <1>3 DEF LoadCompose
  <2>2. Valid' /\ FileTyped' /\ (exposedHere = ForEnvironment("here"))'
    BY <1>1, <1>3, <2>1, FileFixed DEF RenderingInv
  <2>3. "wrap" \notin {"render", "route", "running", "routed"} \cup Deploying \cup Finished
    BY PhasesDiffer DEF Finished
  <2> QED
    BY <1>1, <2>1, <2>2, <2>3 DEF RenderingInv, Loaded, Deploying, Finished, Creating
<1> QED
  BY <1>2, <1>3

LEMMA WrapImageStep ==
  ASSUME RenderingInv, WrapImage
  PROVE  RenderingInv'
<1>1. UNCHANGED <<renderInput, swarmNets>> /\ renderPhase = "wrap"
  BY DEF WrapImage
<1>2. CASE Ended("failed")
  BY <1>1, <1>2, EndedStep DEF RenderingInv
<1>3. CASE ~Ended("failed")
  <2>1. /\ wrapping' = NeedsWrapper /\ renderPhase' = "render"
        /\ UNCHANGED <<exposedHere, renderedStack, netTodo, runningOn, publishedRoute>>
    BY <1>3 DEF WrapImage
  <2>2. FileTyped' /\ (Valid /\ exposedHere = ForEnvironment("here"))' /\ (wrapping = NeedsWrapper)'
    BY <1>1, <2>1, FileFixed DEF RenderingInv, Loaded
  <2>3. "render" \notin {"route", "running", "routed"} \cup Deploying \cup Finished
    BY PhasesDiffer DEF Finished
  <2> QED
    BY <1>1, <2>1, <2>2, <2>3 DEF RenderingInv, Loaded, Deploying, Finished, Creating
<1> QED
  BY <1>2, <1>3

LEMMA WriteStackStep ==
  ASSUME RenderingInv, WriteStack
  PROVE  RenderingInv'
<1>1. UNCHANGED <<renderInput, swarmNets>> /\ renderPhase = "render"
  BY DEF WriteStack
<1>2. CASE ConflictingDefinition
  BY <1>1, <1>2, EndedStep DEF WriteStack, RenderingInv
<1>3. CASE ~ConflictingDefinition
  <2> DEFINE stack == [service     |-> IF BlueGreenHere THEN "app" ELSE "stable",
                       attached    |-> Attachments,
                       definitions |-> NetworkDefinitions,
                       secrets     |-> MountedSecrets,
                       mappings    |-> SecretMappings]
  <2>1. /\ renderedStack' = stack /\ netTodo' = SharedNames /\ renderPhase' = "networks"
        /\ UNCHANGED <<exposedHere, wrapping, runningOn, publishedRoute>>
    BY <1>3 DEF WriteStack
  <2>2. SharedNames \subseteq NetNames
    BY SharedNetworks DEF RenderingInv
  <2>3. /\ FileTyped' /\ (Valid /\ exposedHere = ForEnvironment("here"))' /\ (wrapping = NeedsWrapper)'
        /\ ~ConflictingDefinition'
    BY <1>1, <1>3, <2>1, FileFixed DEF RenderingInv, Loaded
  <2>4. renderedStack' = stack'
    BY <1>1, <2>1, FileFixed
  <2>5. "networks" \notin {"route", "running", "routed"} \cup Finished
    BY DEF Finished
  <2>6. "networks" \in Deploying /\ "networks" \in Loaded
    BY DEF Deploying, Loaded
  <2> HIDE DEF stack
  <2>7. swarmNets' \in [NetNames -> {"absent", "overlay", "bridge"}] /\ netTodo' \subseteq NetNames
    BY <1>1, <2>1, <2>2 DEF RenderingInv
  <2> QED
    BY <2>1, <2>3, <2>4, <2>5, <2>6, <2>7 DEF RenderingInv, stack
<1> QED
  BY <1>2, <1>3

\* Looking at the networks and creating them keeps what was computed.
LEMMA NetworksStep ==
  ASSUME RenderingInv, InspectNetwork \/ CreateNetwork
  PROVE  RenderingInv'
<1>1. CASE Ended("failed")
  <2>1. UNCHANGED <<renderInput, swarmNets>>
    <3>1. CASE InspectNetwork
      BY <3>1 DEF InspectNetwork
    <3>2. CASE CreateNetwork
      <4>1. renderPhase' = "failed"
        BY <1>1 DEF Ended
      <4> QED
        BY <3>2, <4>1 DEF CreateNetwork
    <3> QED
      BY <3>1, <3>2
  <2> QED
    BY <1>1, <2>1, EndedStep DEF RenderingInv
<1>2. CASE ~Ended("failed")
  <2>1. /\ UNCHANGED <<renderInput, exposedHere, wrapping, renderedStack, runningOn, publishedRoute>>
        /\ renderPhase \in Deploying
    BY <1>2 DEF InspectNetwork, CreateNetwork, Deploying, RenderingInv
  <2>2. renderPhase' \in {"networks"} \cup {Creating(n) : n \in NetNames} /\ netTodo' \subseteq netTodo
    BY <1>2 DEF InspectNetwork, CreateNetwork, RenderingInv
  <2>3. swarmNets' \in [NetNames -> {"absent", "overlay", "bridge"}]
    BY <1>2 DEF InspectNetwork, CreateNetwork, RenderingInv
  <2>4. /\ renderPhase' \in Deploying /\ renderPhase' \in Loaded
        /\ renderPhase' \notin {"route"} \cup Finished
    BY <2>2, PhasesDiffer DEF Deploying, Loaded, Finished
  <2>5. renderPhase \in Loaded
    BY <2>1 DEF Loaded
  <2>6. Loaded' = Loaded /\ Deploying' = Deploying
    BY DEF Loaded, Deploying, Finished, Creating
  <2> QED
    BY <2>1, <2>2, <2>3, <2>4, <2>5, <2>6, ComputedKept DEF RenderingInv, Finished
<1> QED
  BY <1>1, <1>2

LEMMA DeployRenderedStep ==
  ASSUME RenderingInv, DeployRendered
  PROVE  RenderingInv'
<1>1. UNCHANGED <<renderInput, swarmNets>> /\ renderPhase = "networks"
  BY DEF DeployRendered
<1>2. CASE Ended("failed")
  BY <1>1, <1>2, EndedStep DEF RenderingInv
<1>3. CASE ~Ended("failed")
  <2>1. /\ \A n \in NamesOf(renderedStack) \ {"own"} : swarmNets[n] = "overlay"
        /\ runningOn' = NamesOf(renderedStack) /\ renderPhase' = "route"
        /\ UNCHANGED <<exposedHere, wrapping, renderedStack, netTodo, publishedRoute>>
    BY <1>3 DEF DeployRendered, NamesOf
  <2>2. {renderPhase, renderPhase'} \subseteq Deploying /\ Deploying \subseteq Loaded
    BY <1>1, <2>1 DEF Deploying, Loaded
  <2>3. renderPhase' \notin Finished
    BY <2>1 DEF Finished
  <2>4. NamesOf(renderedStack)' = NamesOf(renderedStack)
    BY <1>1, <2>1, ComputedKept
  <2> QED
    BY <1>1, <2>1, <2>2, <2>3, <2>4, ComputedKept DEF RenderingInv, Finished
<1> QED
  BY <1>2, <1>3

LEMMA PublishRouteStep ==
  ASSUME RenderingInv, PublishRoute
  PROVE  RenderingInv'
<1>1. UNCHANGED <<renderInput, swarmNets>> /\ renderPhase = "route"
  BY DEF PublishRoute
<1>2. CASE Ended("failed")
  BY <1>1, <1>2, EndedStep DEF RenderingInv
<1>3. CASE ~Ended("failed")
  <2>1. /\ UNCHANGED <<exposedHere, wrapping, renderedStack, netTodo, runningOn>>
        /\ \/ renderPhase' = "running" /\ ~exposedHere.enabled
           \/ /\ renderPhase' = "routed" /\ exposedHere.enabled
              /\ publishedRoute' = IF BlueGreenHere THEN "app" ELSE "stable"
    BY <1>3 DEF PublishRoute, Ended
  <2>2. {renderPhase, renderPhase'} \subseteq Deploying /\ Deploying \subseteq Loaded
    BY <1>1, <2>1 DEF Deploying, Loaded, Finished
  <2>3. BlueGreenHere' = BlueGreenHere
    BY <1>1, <2>1, FileFixed
  <2>4. NamesOf(renderedStack)' = NamesOf(renderedStack)
    BY <1>1, <2>1, ComputedKept
  <2> QED
    BY <1>1, <2>1, <2>2, <2>3, <2>4, ComputedKept DEF RenderingInv, Finished
<1> QED
  BY <1>2, <1>3

\* Nobody can remove a network that the running service uses.
LEMMA OtherNetworkStep ==
  ASSUME RenderingInv, OtherNetwork
  PROVE  RenderingInv'
<1>1. UNCHANGED <<renderInput, renderPhase, exposedHere, wrapping, renderedStack, netTodo, runningOn,
                  publishedRoute>>
  BY DEF OtherNetwork
<1>2. swarmNets' \in [NetNames -> {"absent", "overlay", "bridge"}]
  BY DEF OtherNetwork, RenderingInv
<1>3. ASSUME NEW n \in runningOn, swarmNets[n] = "overlay", n \in NetNames
      PROVE  swarmNets'[n] = "overlay"
  BY <1>3 DEF OtherNetwork, RenderingInv
<1>4. renderPhase \in {"route"} \cup Finished => NamesOf(renderedStack) \ {"own"} \subseteq NetNames
  <2>1. renderPhase \in {"route"} \cup Finished => renderPhase \in Deploying
    BY DEF Deploying
  <2>2. renderPhase \in Deploying => renderedStack.attached = Attachments
    BY DEF RenderingInv
  <2>3. SharedNames \subseteq NetNames
    BY SharedNetworks DEF RenderingInv
  <2> QED
    BY <2>1, <2>2, <2>3 DEF NamesOf, SharedNames
<1>5. NamesOf(renderedStack)' = NamesOf(renderedStack) /\ BlueGreenHere' = BlueGreenHere
  BY <1>1, ComputedKept, FileFixed
<1>6. Loaded' = Loaded /\ Deploying' = Deploying /\ Finished' = Finished
  BY DEF Loaded, Deploying, Finished, Creating
<1>7. renderPhase \in {"route"} \cup Finished =>
        /\ runningOn = NamesOf(renderedStack)
        /\ \A n \in runningOn \ {"own"} : swarmNets'[n] = "overlay"
  BY <1>3, <1>4 DEF RenderingInv
<1> QED
  BY <1>1, <1>2, <1>5, <1>6, <1>7, ComputedKept DEF RenderingInv

-----------------------------------------------------------------------------
(* StackRendering: the theorems *)

LEMMA RenderingInitially ==
  ASSUME NEW files, \A file \in files : IsComposeFile(file), RenderingInit(files)
  PROVE  RenderingInv
<1>1. composeFile \in files /\ renderPhase = "load" /\ netTodo = {}
  BY DEF RenderingInit
<1>2. FileTyped
  BY <1>1 DEF FileTyped
<1>3. swarmNets \in [NetNames -> {"absent", "overlay", "bridge"}]
  BY DEF RenderingInit
<1>4. "load" \notin {"render", "route", "running", "routed"} \cup Deploying \cup Finished \cup Loaded
  BY PhasesDiffer DEF Loaded, Finished
<1> QED
  BY <1>1, <1>2, <1>3, <1>4 DEF RenderingInv

\* The Compose files of the model are some of these.
LEMMA ComposeFilesTyped == \A file \in ComposeFiles : IsComposeFile(file)
<1> SUFFICES ASSUME NEW file \in ComposeFiles
             PROVE  IsComposeFile(file)
  OBVIOUS
<1>1. {NotExposed, Public, Internal} \subseteq Exposures /\ Ingresses \subseteq Exposures
  BY DEF Ingresses, NotExposed, Public, Internal, Exposure, Exposures
<1>2. /\ Blank.attachKeys = {} /\ Blank.definitions \in [NetKeys -> Definitions]
      /\ Blank.flat = Public /\ Blank.perEnvironment = <<>>
  BY DEF Blank, Definitions
<1>3. DOMAIN <<>> = {}
  OBVIOUS
<1>4. CASE file \in NetworkFiles
  <2>1. PICK form \in {"list", "map"}, keys \in KeySets, defs \in Definings :
          file = WithNetworks(form, keys, defs)
    BY <1>4 DEF NetworkFiles
  <2> QED
    BY <1>1, <1>2, <1>3, <2>1 DEF IsComposeFile, Blank, KeySets, Definings, WithNetworks
<1>5. CASE file \in {Blank, [Blank EXCEPT !.namedVolumes = TRUE]}
  BY <1>1, <1>2, <1>3, <1>5 DEF IsComposeFile, Blank
<1>6. CASE file \in IngressFiles
  <2>1. PICK flat \in Ingresses, per \in PerEnvironments, port \in BOOLEAN, ports \in BOOLEAN :
          file = WithIngress(flat, per, port, ports)
    BY <1>6 DEF IngressFiles
  <2> QED
    BY <1>1, <1>2, <1>3, <2>1 DEF IsComposeFile, Blank, PerEnvironments, WithIngress
<1>7. CASE file \in SecretFiles
  <2>1. PICK how \in {"none", "env", "file", "other"}, keys \in BoundKeys,
             env \in {"absent", "list", "map"}, sec \in {"absent", "list", "map"}, exec \in BOOLEAN :
          file = WithSecrets(how, keys, env, sec, exec)
    BY <1>7 DEF SecretFiles
  <2> QED
    BY <1>1, <1>2, <1>3, <2>1 DEF IsComposeFile, Blank, WithSecrets
<1> QED
  BY <1>4, <1>5, <1>6, <1>7 DEF ComposeFiles

LEMMA RenderingStep ==
  ASSUME RenderingInv, [RenderingNext]_renderVars
  PROVE  RenderingInv'
<1>1. CASE UNCHANGED renderVars
  <2>1. UNCHANGED <<renderInput, swarmNets, renderPhase, exposedHere, wrapping, renderedStack,
                    netTodo, runningOn, publishedRoute>>
    BY <1>1 DEF renderVars, renderInput
  <2>2. NamesOf(renderedStack)' = NamesOf(renderedStack) /\ BlueGreenHere' = BlueGreenHere
    BY <2>1, ComputedKept, FileFixed
  <2>3. Loaded' = Loaded /\ Deploying' = Deploying /\ Finished' = Finished
    BY DEF Loaded, Deploying, Finished, Creating
  <2> QED
    BY <2>1, <2>2, <2>3, ComputedKept DEF RenderingInv
<1> QED
  BY <1>1, LoadComposeStep, WrapImageStep, WriteStackStep, NetworksStep, DeployRenderedStep,
     PublishRouteStep, OtherNetworkStep DEF RenderingNext

\* Whatever others do to the networks meanwhile, a deploy renders, creates and runs what
\* its Compose file says, for every Compose file.
THEOREM RenderingInvariant ==
  ASSUME NEW CONSTANT files, \A file \in files : IsComposeFile(file)
  PROVE  RenderingInit(files) /\ [][RenderingNext]_renderVars => []RenderingInv
<1>1. RenderingInit(files) => RenderingInv
  BY RenderingInitially
<1>2. RenderingInv /\ [RenderingNext]_renderVars => RenderingInv'
  BY RenderingStep
<1> QED
  BY <1>1, <1>2, PTL

\* With the invariant, every step keeps the types of what it does not speak of.
LEMMA RenderingTypesStep ==
  ASSUME RenderingInv, RenderingTypeOK, [RenderingNext]_renderVars
  PROVE  RenderingTypeOK'
<1>1. /\ swarmNets' \in [NetNames -> {"absent", "overlay", "bridge"}]
      /\ netTodo' \subseteq NetNames
      /\ renderPhase' \in {"load", "wrap", "render", "networks", "route", "rejected", "failed", "running",
                           "routed"} \cup {Creating(n) : n \in NetNames}
  <2>1. RenderingInv'
    BY RenderingStep
  <2> QED
    BY <2>1 DEF RenderingInv, Loaded, Deploying, Finished, Creating
<1>2. renderedStack'.attached \subseteq NetKeys
  <2>1. Attachments \subseteq NetKeys
    BY SharedNetworks DEF RenderingInv
  <2>2. UNCHANGED renderedStack \/ renderedStack'.attached = Attachments
    BY DEF RenderingNext, LoadCompose, WrapImage, WriteStack, InspectNetwork, CreateNetwork, DeployRendered,
           PublishRoute, OtherNetwork, Ended, renderVars
  <2> QED
    BY <2>1, <2>2 DEF RenderingTypeOK
<1>3. runningOn' \subseteq NetNames \cup {"own"}
  <2>1. \A k \in NetKeys : SwarmName(k) \in NetNames \cup {"own"}
    BY DEF SwarmName, NetKeys, NetNames, EnvNet
  <2>2. UNCHANGED runningOn \/ runningOn' = {SwarmName(k) : k \in renderedStack.attached}
    BY DEF RenderingNext, LoadCompose, WrapImage, WriteStack, InspectNetwork, CreateNetwork, DeployRendered,
           PublishRoute, OtherNetwork, Ended, renderVars
  <2>3. renderedStack.attached \subseteq NetKeys /\ runningOn \subseteq NetNames \cup {"own"}
    BY DEF RenderingTypeOK
  <2>4. {SwarmName(k) : k \in renderedStack.attached} \subseteq NetNames \cup {"own"}
    BY <2>1, <2>3
  <2> QED
    BY <2>2, <2>3, <2>4
<1>4. publishedRoute' \in {"", "app", "stable"}
  BY DEF RenderingTypeOK, RenderingNext, LoadCompose, WrapImage, WriteStack, InspectNetwork, CreateNetwork,
         DeployRendered, PublishRoute, OtherNetwork, Ended, renderVars
<1> QED
  BY <1>1, <1>2, <1>3, <1>4 DEF RenderingTypeOK, Creating

LEMMA RenderingTypesInitially ==
  ASSUME NEW files, RenderingInit(files)
  PROVE  RenderingTypeOK
<1>1. /\ renderPhase = "load" /\ netTodo = {} /\ runningOn = {} /\ publishedRoute = ""
      /\ renderedStack.attached = {}
  BY DEF RenderingInit, NoRendering
<1>2. swarmNets \in [NetNames -> {"absent", "overlay", "bridge"}]
  BY DEF RenderingInit
<1> QED
  BY <1>1, <1>2 DEF RenderingTypeOK

\* What a deploy has rendered, and the networks of the Swarm, have their types, for
\* every Compose file.
THEOREM RenderingTypes ==
  ASSUME NEW CONSTANT files, \A file \in files : IsComposeFile(file)
  PROVE  RenderingInit(files) /\ [][RenderingNext]_renderVars => []RenderingTypeOK
<1>1. RenderingInit(files) /\ [][RenderingNext]_renderVars => []RenderingInv
  BY RenderingInvariant
<1>2. RenderingInit(files) => RenderingTypeOK
  BY RenderingTypesInitially
<1>3. RenderingInv /\ RenderingTypeOK /\ [RenderingNext]_renderVars => RenderingTypeOK'
  BY RenderingTypesStep
<1> QED
  BY <1>1, <1>2, <1>3, PTL

\* What the invariant says of a deploy that ended.
LEMMA RouteReaches ==
  ASSUME RenderingInv
  PROVE  RouteReachesService
<1> SUFFICES ASSUME renderPhase \in Finished
             PROVE  RouteReachesService
  BY DEF RouteReachesService, Finished
<1>1. /\ renderPhase \in Deploying /\ renderPhase \in Loaded /\ FileTyped
      /\ renderPhase \in {"render"} \cup Deploying
  BY DEF Deploying, Loaded, RenderingInv
<1>2. /\ Valid /\ exposedHere = ForEnvironment("here") /\ ~ConflictingDefinition
      /\ renderedStack.service = (IF BlueGreenHere THEN "app" ELSE "stable")
      /\ renderedStack.attached = Attachments
      /\ renderedStack.secrets = MountedSecrets /\ renderedStack.mappings = SecretMappings
      /\ wrapping = NeedsWrapper
      /\ runningOn = NamesOf(renderedStack)
      /\ \A n \in runningOn \ {"own"} : swarmNets[n] = "overlay"
      /\ renderPhase = "running" => ~exposedHere.enabled
      /\ renderPhase = "routed" => exposedHere.enabled /\ publishedRoute = renderedStack.service
  BY <1>1 DEF RenderingInv
<1>3. /\ exposedHere.enabled <=> WantsRoute
      /\ exposedHere.enabled => composeFile.port
  <2>1. \A i \in Exposures : Normalized(i).enabled = (i.enabled \/ i.domain \/ i.blueGreen = "true")
    BY DEF Normalized, Exposures
  <2>2. NotExposed.enabled = FALSE
    BY DEF NotExposed, Exposure
  <2>3. CASE DOMAIN composeFile.perEnvironment = {}
    <3>1. exposedHere = Normalized(composeFile.flat) /\ exposedHere \in AllIngresses
      BY <1>2, <2>3 DEF ForEnvironment, FlatIngress, AllIngresses
    <3>2. exposedHere.enabled <=> WantsRoute
      BY <1>1, <2>1, <2>3, <3>1 DEF WantsRoute, FileTyped, IsComposeFile
    <3> QED
      BY <1>2, <3>1, <3>2 DEF Valid, AnyIngressEnabled
  <2>4. CASE "here" \in DOMAIN composeFile.perEnvironment
    <3>1. exposedHere = Normalized(composeFile.perEnvironment["here"]) /\ exposedHere \in AllIngresses
      BY <1>2, <2>4 DEF ForEnvironment, EnvironmentIngress, AllIngresses
    <3> DEFINE per == composeFile.perEnvironment
    <3>3. per["here"] \in Exposures
      BY <1>1, <2>4 DEF FileTyped, IsComposeFile
    <3>4. {per[e] : e \in DOMAIN per \cap {"here"}} = {per["here"]}
      BY <2>4
    <3>5. WantsRoute <=> \E i \in {per["here"]} : i.enabled \/ i.domain \/ i.blueGreen = "true"
      BY <2>4, <3>4 DEF WantsRoute
    <3>2. exposedHere.enabled <=> WantsRoute
      BY <2>1, <3>1, <3>3, <3>5
    <3> QED
      BY <1>2, <3>1, <3>2 DEF Valid, AnyIngressEnabled
  <2>5. CASE /\ DOMAIN composeFile.perEnvironment # {}
             /\ "here" \notin DOMAIN composeFile.perEnvironment
    BY <1>2, <2>2, <2>5 DEF ForEnvironment, WantsRoute
  <2> QED
    BY <2>3, <2>4, <2>5
<1>4. \A k \in Attachments : SwarmName(k) \in runningOn
  BY <1>2 DEF NamesOf
<1>5. EnvNet \in runningOn /\ swarmNets[EnvNet] = "overlay"
  <2>1. EnvNet \in Attachments /\ EnvNet # "own"
    BY DEF Attachments, EnvNet
  <2>2. SwarmName(EnvNet) = EnvNet
    BY DEF SwarmName, NetworkDefinitions, NetKeys
  <2> QED
    BY <1>2, <1>4, <2>1, <2>2
<1>6. ASSUME NEW k \in composeFile.attachKeys, k # EnvNet
      PROVE  LET defined == composeFile.definitions[k] IN
             \/ defined \in {"none", "external"} /\ k \in runningOn
             \/ defined = "elsewhere" /\ "y" \in runningOn
             \/ defined \in {"null", "owned"} /\ "own" \in runningOn
  <2>1. k \in NetKeys /\ k \in Attachments /\ composeFile.definitions[k] \in Definitions
    BY <1>1, <1>6 DEF FileTyped, IsComposeFile, Attachments
  <2>2. NetworkDefinitions[k] = IF composeFile.definitions[k] = "none" THEN "external"
                                                                      ELSE composeFile.definitions[k]
    BY <1>6, <2>1 DEF NetworkDefinitions
  <2>3. SwarmName(k) \in runningOn
    BY <1>4, <2>1
  <2> QED
    BY <2>1, <2>2, <2>3 DEF SwarmName, Definitions
<1>7. composeFile.secretsForm # "map" => renderedStack.secrets = composeFile.bindings
  BY <1>2 DEF MountedSecrets
<1>8. composeFile.resolution = "env" /\ composeFile.environmentForm # "list" =>
        renderedStack.mappings = composeFile.bindings
  BY <1>2 DEF SecretMappings, NeedsWrapper
<1>9. renderPhase = "routed" <=> WantsRoute
  BY <1>2, <1>3 DEF Finished
<1> QED
  BY <1>2, <1>3, <1>5, <1>6, <1>7, <1>8, <1>9 DEF RouteReachesService

\* A deploy that ends well runs on the networks that its Compose file lists, with the
\* secrets it names, and has exactly the route that the file asks for in this
\* environment (LoadService, ForEnvironment, renderComposeStack, ensureStackNetworks,
\* validateExposure), for every Compose file.
THEOREM RoutesReachServices ==
  ASSUME NEW CONSTANT files, \A file \in files : IsComposeFile(file)
  PROVE  RenderingInit(files) /\ [][RenderingNext]_renderVars => []RouteReachesService
<1>1. RenderingInit(files) /\ [][RenderingNext]_renderVars => []RenderingInv
  BY RenderingInvariant
<1>2. RenderingInv => RouteReachesService
  BY RouteReaches
<1> QED
  BY <1>1, <1>2, PTL

\* The same of the Compose files of the model.
THEOREM ModelRoutesReachServices == RenderingSpec => []RouteReachesService
<1>1. RenderingInit(ComposeFiles) /\ [][RenderingNext]_renderVars => []RouteReachesService
  BY ComposeFilesTyped, RoutesReachServices
<1> QED
  BY <1>1 DEF RenderingSpec

-----------------------------------------------------------------------------
(* EnvironmentFiles: the inductive invariant *)

ItemsOK == AreEnvFiles(envFiles)

\* One reference further.
Onward(place) ==
  IF ItemAt(place).count # 1 \/ ItemAt(place).from = NoRef THEN place ELSE ItemAt(place).from

\* The first e references from a key are followed.
Followed(key, e) ==
  /\ \A n \in 0..e : WalkItem(key, n).count = 1
  /\ \A n \in 0..e - 1 : WalkItem(key, n).from # NoRef /\ ~WalkItem(key, n).isSecret

\* The files on the way were read.
WasRead(key, e) == \A n \in 0..e : fileCache[Walk(key)[n][1]] # 0

InCache(key, n, field) ==
  <<Walk(key)[n][1], fileCache[Walk(key)[n][1]], Walk(key)[n][2], field>>

NoDefault(key, n) == WalkItem(key, n).value = "unset"
Silences(key, n)  == NoDefault(key, n) /\ "here" \notin WalkItem(key, n).values

\* base is what the items n to e, the last one, say together.
BaseOf(key, n, e, base) ==
  /\ DOMAIN base = {"value", "values", "secretRef", "emitEmpty"}
  /\ base.secretRef = IF WalkItem(key, e).isSecret /\ \A m \in n..e - 1 : NoDefault(key, m)
                        THEN InCache(key, e, "secret") ELSE Nowhere
  /\ WalkItem(key, e).isSecret =>
       \A m \in n..e - 1 : WalkItem(key, m).values = {} \/ \E i \in m..e - 1 : ~NoDefault(key, i)
  /\ (\A m \in n..e : NoDefault(key, m)) => base.value = Nowhere
  /\ \A m \in n..e : ~NoDefault(key, m) /\ (\A i \in n..m - 1 : NoDefault(key, i)) =>
       base.value = InCache(key, m, WalkItem(key, m).value)
  /\ (\A m \in n..e : Silences(key, m)) => "here" \notin DOMAIN base.values
  /\ \A m \in n..e : ~Silences(key, m) /\ (\A i \in n..m - 1 : Silences(key, i)) =>
       IF "here" \in WalkItem(key, m).values
         THEN "here" \in DOMAIN base.values /\ base.values["here"] = InCache(key, m, "here")
         ELSE "here" \notin DOMAIN base.values
  /\ base.emitEmpty <=> n < e /\ IsEmpty(base.value)

EnvTypes ==
  /\ ItemsOK
  /\ resolvable \subseteq EnvKeys
  /\ configVersion \in [Configs -> Nat] /\ configChanges \in Nat
  /\ fileCache \in [Files -> Nat]
  /\ envPhase \in {"idle", "item", "follow", "override", "written", "failed"}
  /\ envTodo \in Seq(ServiceItems)
  /\ DOMAIN loadedItems = EnvKeys
  /\ \A key \in EnvKeys \ ServiceItems : loadedItems[key] = NoBase
  /\ envPhase # "idle" => fileCache["app"] # 0

\* The chain is the way from the service's key, and no place is visited twice.
ChainIsWalk ==
  envPhase \in {"follow", "override"} =>
    /\ envTodo # <<>>
    /\ envChain \in Seq(Places) /\ Len(envChain) \in 1..MaxWalk
    /\ \A n \in 1..Len(envChain) : envChain[n] = Walk(Head(envTodo))[n - 1]
    /\ \A m, n \in 2..Len(envChain) : envChain[m] = envChain[n] => m = n
    /\ Followed(Head(envTodo), Len(envChain) - 1)
    /\ WasRead(Head(envTodo), Len(envChain) - 1)

BaseIsSaid ==
  envPhase = "override" =>
    /\ WalkItem(Head(envTodo), Len(envChain) - 1).from = NoRef
    /\ envLevel \in 0..Len(envChain) - 1
    /\ BaseOf(Head(envTodo), envLevel, Len(envChain) - 1, envBase)

\* What a key that was loaded holds.
Resolved(key) ==
  \E e \in 0..MaxWalk - 1 :
    /\ Followed(key, e) /\ WalkItem(key, e).from = NoRef
    /\ WasRead(key, e)
    /\ BaseOf(key, 0, e, loadedItems[key])

IsLoaded(key) == \A n \in 1..Len(envTodo) : envTodo[n] # key

LoadedAsWritten ==
  envPhase \in {"item", "follow", "override", "written"} =>
    \A key \in ServiceItems : IsLoaded(key) => Resolved(key)

EnvironmentInv == EnvTypes /\ ChainIsWalk /\ BaseIsSaid /\ LoadedAsWritten /\ EnvironmentAsWritten

-----------------------------------------------------------------------------
(* The walk along the references *)

LEMMA ServiceKeysTyped ==
  /\ ServiceItems \subseteq EnvKeys
  /\ ServiceKeys \in Seq(ServiceItems)
  /\ \A key \in ServiceItems : \E n \in 1..Len(ServiceKeys) : ServiceKeys[n] = key
<1>1. ServiceKeys \in Seq(EnvKeys)
  BY EnvironmentAssumption
<1>2. \A n \in 1..Len(ServiceKeys) : ServiceKeys[n] \in ServiceItems
  BY <1>1 DEF ServiceItems, Range
<1> QED BY <1>1, <1>2 DEF ServiceItems, Range

LEMMA FinitelyManyPlaces ==
  /\ IsFiniteSet(Places) /\ Cardinality(Places) \in Nat
  /\ "app" \in Files
<1>1. IsFiniteSet(Files)
  <2>1. Files = Configs \cup {"app"}
    BY DEF Files
  <2> QED BY <2>1, EnvironmentAssumption, FS_AddElement
<1>2. IsFiniteSet(Places)
  BY <1>1, EnvironmentAssumption, FS_Product DEF Places
<1> QED BY <1>2, FS_CardinalityType DEF Files

LEMMA WalkIsLong == MaxWalk \in Nat /\ MaxWalk >= 1 /\ MaxWalk = Cardinality(Places) + 1
BY FinitelyManyPlaces DEF MaxWalk

\* The walk starts at the service's key and goes one reference at a time.
LEMMA WalkSteps ==
  ASSUME NEW key
  PROVE  /\ Walk(key)[0] = <<"app", key>>
         /\ \A n \in 1..MaxWalk : Walk(key)[n] = Onward(Walk(key)[n - 1])
<1> DEFINE N == MaxWalk
           Along(f, n) == IF n = 0 THEN <<"app", key>> ELSE Onward(f[n - 1])
           Walks(f, n) == \A m \in 0..n : f[m] = Along(f, m)
           G == {n \in 0..N : \E f : Walks(f, n)}
<1>1. N \in Nat
  BY WalkIsLong
<1> HIDE DEF N
<1>2. 0 \in G
  <2> DEFINE f == [m \in 0..0 |-> <<"app", key>>]
  <2>1. Walks(f, 0)
    OBVIOUS
  <2> HIDE DEF Walks
  <2>2. \E h : Walks(h, 0)
    BY <2>1
  <2> QED BY <1>1, <2>2
<1>3. \A n \in 0..N : n > 0 /\ n - 1 \in G => n \in G
  <2> SUFFICES ASSUME NEW n \in 0..N, n > 0, NEW f, Walks(f, n - 1)
               PROVE  \E g : Walks(g, n)
    OBVIOUS
  <2> DEFINE g == [m \in 0..n |-> IF m = n THEN Along(f, n) ELSE f[m]]
  <2>1. Walks(g, n)
    BY <1>1
  <2> QED BY <2>1
<1>4. N \in G
  <2> HIDE DEF G
  <2>1. \A n \in 0..N : n \in G
    BY <1>1, <1>2, <1>3, Climbing
  <2> QED BY <1>1, <2>1
<1>5. PICK f : Walks(f, N)
  BY <1>4
<1> DEFINE path == [n \in 0..N |-> f[n]]
           Whole(h) == [n \in 0..N |-> Along(h, n)]
<1>6. path = Whole(path)
  BY <1>1, <1>5
<1>7. Walk(key) = CHOOSE h : h = Whole(h)
  BY DEF Walk, Onward, N
<1>8. Walk(key) = Whole(Walk(key))
  <2> HIDE DEF Whole, path
  <2> QED BY <1>6, <1>7
<1>9. \A n \in 0..N : Walk(key)[n] = Along(Walk(key), n)
  <2> HIDE DEF Along
  <2> QED BY <1>8
<1>10. /\ Walk(key)[0] = <<"app", key>>
       /\ \A n \in 1..N : Walk(key)[n] = Onward(Walk(key)[n - 1])
  BY <1>1, <1>9
<1> QED BY <1>10 DEF N

\* It depends on the files alone.
LEMMA WalkStays ==
  ASSUME NEW key, UNCHANGED envFiles
  PROVE  Walk(key)' = Walk(key)
BY DEF Walk, ItemAt

LEMMA WalkTyped ==
  ASSUME ItemsOK, NEW key \in EnvKeys, NEW n \in 0..MaxWalk
  PROVE  /\ Walk(key)[n] \in Places
         /\ WalkItem(key, n) \in EnvItem
<1>1. \A p \in Places : ItemAt(p) \in EnvItem
  BY DEF Places, ItemsOK, AreEnvFiles, ItemAt
<1>2. \A p \in Places : Onward(p) \in Places
  BY <1>1 DEF Onward, EnvItem
<1>3. Walk(key)[0] \in Places
  <2>1. Walk(key)[0] = <<"app", key>>
    BY WalkSteps
  <2> QED BY <2>1, FinitelyManyPlaces DEF Places
<1> DEFINE G == {m \in 0..MaxWalk : Walk(key)[m] \in Places}
<1>4. 0 \in G
  BY <1>3, WalkIsLong
<1>5. \A m \in 0..MaxWalk : m > 0 /\ m - 1 \in G => m \in G
  BY <1>2, WalkSteps, WalkIsLong
<1>9. Walk(key)[n] \in Places
  <2> HIDE DEF G
  <2>1. \A m \in 0..MaxWalk : m \in G
    BY <1>4, <1>5, WalkIsLong, Climbing
  <2> QED BY <2>1 DEF G
<1> QED BY <1>1, <1>9 DEF WalkItem

\* Where the references end, the walk stays.
LEMMA WalkEnds ==
  ASSUME NEW key, NEW e \in 0..MaxWalk, WalkItem(key, e).from = NoRef,
         \A n \in 0..e - 1 : WalkItem(key, n).from # NoRef
  PROVE  /\ EndsSomewhere(key)
         /\ Length(key) = e
         /\ \A n \in e..MaxWalk : Walk(key)[n] = Walk(key)[e]
<1> USE WalkIsLong
<1>1. EndsSomewhere(key)
  BY DEF EndsSomewhere, EndsAt
<1>2. Length(key) = e
  <2>1. \A n \in 0..MaxWalk : EndsAt(key, n) <=> n = e
    BY DEF EndsAt
  <2> QED BY <2>1 DEF Length
<1>3. \A n \in 1..MaxWalk : Walk(key)[n - 1] = Walk(key)[e] => Walk(key)[n] = Walk(key)[e]
  BY WalkSteps DEF Onward, WalkItem
<1>4. \A n \in e..MaxWalk : Walk(key)[n] = Walk(key)[e]
  <2> DEFINE G == {n \in 0..MaxWalk : n >= e => Walk(key)[n] = Walk(key)[e]}
  <2>1. \A n \in 0..MaxWalk : n > 0 /\ n - 1 \in G => n \in G
    BY <1>3
  <2>2. 0 \in G
    OBVIOUS
  <2> HIDE DEF G
  <2>3. \A n \in 0..MaxWalk : n \in G
    BY <2>1, <2>2, Climbing
  <2> QED BY <2>3 DEF G
<1> QED BY <1>1, <1>2, <1>4

\* A walk that comes back to a place it left never ends.
LEMMA WalkTurns ==
  ASSUME NEW key, NEW m \in 1..MaxWalk, NEW j \in 0..m - 1,
         \A n \in 0..m - 1 : WalkItem(key, n).from # NoRef,
         Onward(Walk(key)[m - 1]) = Walk(key)[j]
  PROVE  ~EndsSomewhere(key)
<1> USE WalkIsLong
<1> DEFINE Turning(n) == \E i \in 0..m - 1 : Walk(key)[n] = Walk(key)[i]
<1>1. \A n \in 1..MaxWalk : Turning(n - 1) => Turning(n)
  <2> SUFFICES ASSUME NEW n \in 1..MaxWalk, NEW i \in 0..m - 1, Walk(key)[n - 1] = Walk(key)[i]
               PROVE  Turning(n)
    OBVIOUS
  <2>1. Walk(key)[n] = Onward(Walk(key)[i])
    BY WalkSteps
  <2>2. CASE i = m - 1
    BY <2>1, <2>2
  <2>3. CASE i < m - 1
    <3>1. i + 1 \in 1..MaxWalk /\ (i + 1) - 1 = i
      BY <2>3
    <3>2. Walk(key)[i + 1] = Onward(Walk(key)[i])
      BY <3>1, WalkSteps
    <3> QED BY <2>1, <3>2, <2>3
  <2> QED BY <2>2, <2>3
<1>2. Turning(0)
  OBVIOUS
<1>3. \A n \in 0..MaxWalk : Turning(n) => WalkItem(key, n).from # NoRef
  BY DEF WalkItem
<1> HIDE DEF Turning
<1> DEFINE G == {n \in 0..MaxWalk : Turning(n)}
<1>4. 0 \in G /\ \A n \in 0..MaxWalk : n > 0 /\ n - 1 \in G => n \in G
  BY <1>1, <1>2
<1>9. \A n \in 0..MaxWalk : Turning(n)
  <2> HIDE DEF G
  <2>1. \A n \in 0..MaxWalk : n \in G
    BY <1>4, Climbing
  <2> QED BY <2>1 DEF G
<1> QED BY <1>3, <1>9 DEF EndsSomewhere, EndsAt, WalkItem

-----------------------------------------------------------------------------
(* What was loaded is what the references say *)

LEMMA PlacesAreSomewhere ==
  ASSUME NEW key, NEW n, NEW field
  PROVE  /\ InCache(key, n, field) # Nowhere
         /\ IsEmpty(InCache(key, n, field)) <=> field = "empty"
         /\ ~IsEmpty(Nowhere)
         /\ InCache(key, n, field)[4] = field
BY DEF InCache, Nowhere, IsEmpty

LEMMA ResolvedDelivers ==
  ASSUME EnvTypes, NEW key \in EnvKeys, Resolved(key)
  PROVE  /\ ~Unresolvable(key)
         /\ Delivered(key, loadedItems[key]) = Nearest(key)
         /\ loadedItems[key].secretRef = Nowhere => ~IsSecretHere(key)
<1> USE WalkIsLong
<1> DEFINE item == loadedItems[key]
<1>1. PICK e \in 0..MaxWalk - 1 : /\ Followed(key, e) /\ WalkItem(key, e).from = NoRef
                                  /\ WasRead(key, e)
                                  /\ BaseOf(key, 0, e, item)
  BY DEF Resolved
<1>2. /\ EndsSomewhere(key) /\ Length(key) = e
      /\ \A n \in e..MaxWalk : Walk(key)[n] = Walk(key)[e]
  BY <1>1, WalkEnds DEF Followed
<1>3. ~Unresolvable(key)
  <2>1. \A n \in 0..MaxWalk : /\ WalkItem(key, n).count = 1
                              /\ WalkItem(key, n).isSecret => WalkItem(key, n).from = NoRef
    <3> SUFFICES ASSUME NEW n \in 0..MaxWalk
                 PROVE  /\ WalkItem(key, n).count = 1
                        /\ WalkItem(key, n).isSecret => WalkItem(key, n).from = NoRef
      OBVIOUS
    <3>1. CASE n \in 0..e - 1
      BY <1>1, <3>1 DEF Followed
    <3>2. CASE n \in e..MaxWalk
      <4>1. WalkItem(key, n) = WalkItem(key, e)
        BY <1>2, <3>2 DEF WalkItem
      <4> QED BY <1>1, <4>1 DEF Followed
    <3> QED BY <3>1, <3>2
  <2>2. ~(/\ WalkItem(key, e).isSecret
          /\ \E n \in 0..e - 1 : /\ WalkItem(key, n).values # {}
                                 /\ \A m \in n..e - 1 : WalkItem(key, m).value = "unset")
    BY <1>1 DEF BaseOf, NoDefault
  <2> QED BY <1>2, <2>1, <2>2 DEF Unresolvable
<1> DEFINE here == {n \in 0..e : /\ ~WalkItem(key, n).isSecret
                                 /\ \/ WalkItem(key, n).value # "unset"
                                    \/ "here" \in WalkItem(key, n).values}
           first == CHOOSE n \in here : \A m \in here : n <= m
<1>4. Nearest(key) =
        IF here # {} THEN
          IF "here" \in WalkItem(key, first).values THEN InCache(key, first, "here")
          ELSE IF e = 0 /\ WalkItem(key, 0).value = "empty" THEN Nowhere
          ELSE InCache(key, first, WalkItem(key, first).value)
        ELSE IF WalkItem(key, e).isSecret /\ key \in resolvable THEN InCache(key, e, "secret")
        ELSE Nowhere
  BY <1>2 DEF Nearest, InCache
<1>5. /\ \A n \in 0..e - 1 : ~WalkItem(key, n).isSecret
      /\ \A n \in 0..e : WalkItem(key, n).value \in {"unset", "empty", "set"}
  BY <1>1, WalkTyped DEF EnvTypes, EnvItem, Followed
<1>6. CASE here = {}
  <2>1. \A n \in 0..e : ~WalkItem(key, n).isSecret => Silences(key, n) /\ NoDefault(key, n)
    BY <1>6 DEF Silences, NoDefault
  <2>2. ~WalkItem(key, e).isSecret => item.value = Nowhere /\ "here" \notin DOMAIN item.values
    BY <1>1, <1>5, <2>1 DEF BaseOf
  <2>3. item.secretRef = IF WalkItem(key, e).isSecret THEN InCache(key, e, "secret") ELSE Nowhere
    BY <1>1, <1>5, <2>1 DEF BaseOf
  <2>4. Delivered(key, item) = Nearest(key)
    BY <1>4, <1>6, <2>2, <2>3, PlacesAreSomewhere DEF Delivered
  <2>5. item.secretRef = Nowhere => ~IsSecretHere(key)
    BY <2>3, <1>2, PlacesAreSomewhere DEF IsSecretHere
  <2> QED BY <1>3, <2>4, <2>5
<1>7. CASE here # {}
  <2>1. \E f \in here : \A m \in here : f <= m
    <3>1. here \in SUBSET Nat
      BY WalkIsLong
    <3> HIDE DEF here
    <3> QED BY <1>7, <3>1, LeastNumber
  <2>2. first \in here /\ \A m \in here : first <= m
    <3> HIDE DEF here
    <3> QED BY <2>1
  <2> HIDE DEF first
  <2>3. first \in 0..e /\ ~Silences(key, first) /\ ~WalkItem(key, first).isSecret
    BY <2>2 DEF Silences, NoDefault
  <2>4. \A i \in 0..first - 1 : Silences(key, i) /\ NoDefault(key, i)
    BY <1>5, <2>2, <2>3 DEF Silences, NoDefault
  <2>5. item.secretRef = Nowhere
    <3> SUFFICES ASSUME WalkItem(key, e).isSecret, \A m \in 0..e - 1 : NoDefault(key, m)
                 PROVE  FALSE
      BY <1>1 DEF BaseOf
    <3>1. first # e
      BY <2>3
    <3>2. first \in 0..e - 1
      BY <3>1, <2>3
    <3>3. WalkItem(key, first).values # {}
      BY <3>2, <2>3 DEF Silences
    <3> QED BY <1>1, <3>2, <3>3 DEF BaseOf
  <2>6. IF "here" \in WalkItem(key, first).values
          THEN "here" \in DOMAIN item.values /\ item.values["here"] = InCache(key, first, "here")
          ELSE "here" \notin DOMAIN item.values
    BY <1>1, <2>3, <2>4 DEF BaseOf
  <2>7. "here" \notin WalkItem(key, first).values =>
          /\ WalkItem(key, first).value \in {"empty", "set"}
          /\ item.value = InCache(key, first, WalkItem(key, first).value)
    <3>1. "here" \notin WalkItem(key, first).values => ~NoDefault(key, first)
      BY <2>3 DEF Silences
    <3>2. "here" \notin WalkItem(key, first).values =>
            WalkItem(key, first).value \in {"empty", "set"}
      BY <3>1, <1>5, <2>3 DEF NoDefault
    <3>3. "here" \notin WalkItem(key, first).values =>
            item.value = InCache(key, first, WalkItem(key, first).value)
      BY <1>1, <3>1, <2>3, <2>4 DEF BaseOf
    <3> QED BY <3>2, <3>3
  <2>8. item.emitEmpty <=> 0 < e /\ IsEmpty(item.value)
    BY <1>1 DEF BaseOf
  <2>9. CASE "here" \in WalkItem(key, first).values
    <3>1. Delivered(key, item) = Nearest(key)
      BY <1>4, <1>7, <2>5, <2>6, <2>9 DEF Delivered
    <3>2. Nearest(key) # Nowhere /\ Nearest(key)[4] = "here"
      <4>1. Nearest(key) = InCache(key, first, "here")
        BY <1>4, <1>7, <2>9
      <4> QED BY <4>1, PlacesAreSomewhere
    <3> QED BY <1>3, <3>1, <3>2 DEF IsSecretHere
  <2>10. CASE "here" \notin WalkItem(key, first).values
    <3>1. item.value = InCache(key, first, WalkItem(key, first).value)
      BY <2>7, <2>10
    <3>2. IsEmpty(item.value) <=> WalkItem(key, first).value = "empty"
      BY <3>1, PlacesAreSomewhere
    <3>3. e = 0 => first = 0
      BY <2>3
    <3>4. Delivered(key, item) = IF WalkItem(key, first).value = "empty" /\ e = 0
                                   THEN Nowhere ELSE item.value
      BY <2>5, <2>6, <2>10, <2>8, <3>2 DEF Delivered
    <3>5. Delivered(key, item) = Nearest(key)
      <4> HIDE DEF here
      <4> QED BY <1>4, <1>7, <2>10, <3>1, <3>3, <3>4
    <3>6. ~IsSecretHere(key)
      <4>1. CASE e = 0
        <5>1. ~WalkItem(key, 0).isSecret
          BY <4>1, <3>3, <2>3
        <5> QED BY <4>1, <5>1, <1>2 DEF IsSecretHere
      <4>2. CASE e # 0
        <5>1. Nearest(key) = item.value
          BY <3>4, <3>5, <4>2
        <5>2. Nearest(key) # Nowhere /\ Nearest(key)[4] = WalkItem(key, first).value
          BY <5>1, <3>1, PlacesAreSomewhere
        <5>3. Nearest(key)[4] # "secret"
          BY <5>2, <2>7, <2>10
        <5> QED BY <5>2, <5>3 DEF IsSecretHere
      <4> QED BY <4>1, <4>2
    <3> QED BY <1>3, <3>5, <3>6
  <2> QED BY <2>9, <2>10
<1> QED BY <1>6, <1>7

\* What an item adds on the way out.
LEMMA BaseGrows ==
  ASSUME EnvTypes, NEW key \in EnvKeys, NEW e \in 0..MaxWalk - 1, NEW n \in 1..e,
         Followed(key, e), NEW base, BaseOf(key, n, e, base),
         NEW own, own = Written(Walk(key)[n - 1]),
         NEW result, result = Overridden(base, own),
         ~(DOMAIN own.values # {} /\ result.secretRef # Nowhere)
  PROVE  BaseOf(key, n - 1, e, [result EXCEPT !.emitEmpty = IsEmpty(result.value)])
<1> USE WalkIsLong
<1> DEFINE k == n - 1
           item == WalkItem(key, k)
           default == IF own.value = Nowhere THEN base ELSE own
           Fields == {"value", "values", "secretRef", "emitEmpty"}
           top == [result EXCEPT !.emitEmpty = IsEmpty(result.value)]
<1>1. /\ k \in 0..e - 1 /\ k \in 0..MaxWalk /\ n = k + 1
      /\ item \in EnvItem /\ ~item.isSecret
  <2>1. k \in 0..e - 1 /\ k \in 0..MaxWalk /\ n = k + 1
    OBVIOUS
  <2>2. item \in EnvItem
    BY <2>1, WalkTyped DEF EnvTypes
  <2>3. ~item.isSecret
    BY <2>1 DEF Followed
  <2> QED BY <2>1, <2>2, <2>3
<1>2. /\ DOMAIN own = Fields
      /\ own.value = IF NoDefault(key, k) THEN Nowhere ELSE InCache(key, k, item.value)
      /\ own.values = [x \in item.values |-> InCache(key, k, x)]
      /\ own.secretRef = Nowhere
  BY <1>1 DEF Written, WalkItem, InCache, NoDefault
<1>3. own.value = Nowhere <=> NoDefault(key, k)
  BY <1>2, PlacesAreSomewhere
<1>4. /\ DOMAIN default = Fields
      /\ default.value = IF NoDefault(key, k) THEN base.value ELSE own.value
      /\ default.secretRef = IF NoDefault(key, k) THEN base.secretRef ELSE Nowhere
      /\ default.values = IF NoDefault(key, k) THEN base.values ELSE own.values
  BY <1>2, <1>3 DEF BaseOf
<1>5. result = [default EXCEPT !.values =
                  [x \in DOMAIN own.values \cup DOMAIN default.values |->
                     IF x \in DOMAIN own.values THEN own.values[x] ELSE default.values[x]]]
  BY DEF Overridden
<1> HIDE DEF default, item
<1>6. /\ DOMAIN top = Fields
      /\ top.value = default.value
      /\ top.secretRef = default.secretRef /\ result.secretRef = default.secretRef
      /\ top.values = [x \in DOMAIN own.values \cup DOMAIN default.values |->
                        IF x \in DOMAIN own.values THEN own.values[x] ELSE default.values[x]]
      /\ top.emitEmpty = IsEmpty(default.value)
  BY <1>4, <1>5
<1>7. "here" \in item.values =>
        "here" \in DOMAIN top.values /\ top.values["here"] = InCache(key, k, "here")
  BY <1>2, <1>6
<1>8. "here" \notin item.values =>
        /\ "here" \in DOMAIN top.values <=> "here" \in DOMAIN default.values
        /\ ("here" \in DOMAIN top.values => top.values["here"] = default.values["here"])
  BY <1>2, <1>6
<1> HIDE DEF top
<1>9. \A m \in k..e : m = k \/ m \in n..e
  BY <1>1
<1>10. top.secretRef = IF WalkItem(key, e).isSecret /\ \A m \in k..e - 1 : NoDefault(key, m)
                         THEN InCache(key, e, "secret") ELSE Nowhere
  <2>1. (\A m \in k..e - 1 : NoDefault(key, m)) <=>
          NoDefault(key, k) /\ \A m \in n..e - 1 : NoDefault(key, m)
    BY <1>1
  <2> QED BY <2>1, <1>4, <1>6 DEF BaseOf
<1>11. WalkItem(key, e).isSecret =>
         \A m \in k..e - 1 : WalkItem(key, m).values = {} \/ \E i \in m..e - 1 : ~NoDefault(key, i)
  <2>1. ASSUME WalkItem(key, e).isSecret, \A i \in k..e - 1 : NoDefault(key, i)
        PROVE  item.values = {}
    <3>1. top.secretRef # Nowhere
      BY <1>10, <2>1, PlacesAreSomewhere
    <3> QED BY <3>1, <1>2, <1>6
  <2>2. WalkItem(key, e).isSecret => item.values = {} \/ \E i \in k..e - 1 : ~NoDefault(key, i)
    BY <2>1
  <2>3. \A m \in k..e - 1 : m = k \/ m \in n..e - 1
    BY <1>1
  <2> QED BY <2>2, <2>3 DEF BaseOf, item
<1>12. (\A m \in k..e : NoDefault(key, m)) => top.value = Nowhere
  BY <1>1, <1>4, <1>6 DEF BaseOf
<1>13. \A m \in k..e : ~NoDefault(key, m) /\ (\A i \in k..m - 1 : NoDefault(key, i)) =>
         top.value = InCache(key, m, WalkItem(key, m).value)
  <2> SUFFICES ASSUME NEW m \in k..e, ~NoDefault(key, m), \A i \in k..m - 1 : NoDefault(key, i)
               PROVE  top.value = InCache(key, m, WalkItem(key, m).value)
    OBVIOUS
  <2>1. CASE m = k
    BY <2>1, <1>2, <1>4, <1>6 DEF item
  <2>2. CASE m \in n..e
    <3>1. NoDefault(key, k) /\ \A i \in n..m - 1 : NoDefault(key, i)
      BY <1>1, <2>2
    <3> QED BY <2>2, <3>1, <1>4, <1>6 DEF BaseOf
  <2> QED BY <1>9, <2>1, <2>2
<1>14. (\A m \in k..e : Silences(key, m)) => "here" \notin DOMAIN top.values
  <2> SUFFICES ASSUME \A m \in k..e : Silences(key, m)
               PROVE  "here" \notin DOMAIN top.values
    OBVIOUS
  <2>1. Silences(key, k) /\ \A m \in n..e : Silences(key, m)
    BY <1>1
  <2>2. "here" \notin item.values /\ NoDefault(key, k)
    BY <2>1 DEF Silences, item
  <2> QED BY <2>1, <2>2, <1>4, <1>8 DEF BaseOf
<1>15. \A m \in k..e : ~Silences(key, m) /\ (\A i \in k..m - 1 : Silences(key, i)) =>
         IF "here" \in WalkItem(key, m).values
           THEN "here" \in DOMAIN top.values /\ top.values["here"] = InCache(key, m, "here")
           ELSE "here" \notin DOMAIN top.values
  <2> SUFFICES ASSUME NEW m \in k..e, ~Silences(key, m), \A i \in k..m - 1 : Silences(key, i)
               PROVE  IF "here" \in WalkItem(key, m).values
                        THEN /\ "here" \in DOMAIN top.values
                             /\ top.values["here"] = InCache(key, m, "here")
                        ELSE "here" \notin DOMAIN top.values
    OBVIOUS
  <2>1. CASE m = k /\ "here" \in item.values
    BY <2>1, <1>7 DEF item
  <2>2. CASE m = k /\ "here" \notin item.values
    <3>1. ~NoDefault(key, k)
      BY <2>2 DEF Silences, item
    <3> QED BY <2>2, <3>1, <1>2, <1>4, <1>8 DEF item
  <2>3. CASE m \in n..e
    <3>1. Silences(key, k) /\ \A i \in n..m - 1 : Silences(key, i)
      BY <1>1, <2>3
    <3>2. "here" \notin item.values /\ NoDefault(key, k)
      BY <3>1 DEF Silences, item
    <3> QED BY <2>3, <3>1, <3>2, <1>4, <1>8 DEF BaseOf
  <2> QED BY <1>9, <2>1, <2>2, <2>3
<1>16. top.emitEmpty <=> k < e /\ IsEmpty(top.value)
  BY <1>1, <1>6
<1> QED BY <1>6, <1>10, <1>11, <1>12, <1>13, <1>14, <1>15, <1>16 DEF BaseOf, top

\* The item that the references end at.
LEMMA BaseStarts ==
  ASSUME EnvTypes, NEW key \in EnvKeys, NEW e \in 0..MaxWalk - 1
  PROVE  BaseOf(key, e, e, Written(Walk(key)[e]))
<1> USE WalkIsLong
<1> DEFINE item == WalkItem(key, e)
           base == Written(Walk(key)[e])
<1>1. item \in EnvItem
  BY WalkTyped DEF EnvTypes
<1>2. /\ DOMAIN base = {"value", "values", "secretRef", "emitEmpty"}
      /\ base.value = IF NoDefault(key, e) THEN Nowhere ELSE InCache(key, e, item.value)
      /\ base.values = [x \in item.values |-> InCache(key, e, x)]
      /\ base.secretRef = IF item.isSecret THEN InCache(key, e, "secret") ELSE Nowhere
      /\ base.emitEmpty = FALSE
  BY <1>1 DEF Written, WalkItem, InCache, NoDefault
<1> HIDE DEF base
<1>3. \A m : m \in e..e <=> m = e
  OBVIOUS
<1>4. \A m : m \notin e..e - 1
  OBVIOUS
<1> QED BY <1>2, <1>3, <1>4 DEF BaseOf, Silences, base

\* Files that were read stay as they were read.
CacheGrows == \A f \in Files : fileCache[f] # 0 => fileCache'[f] = fileCache[f]

LEMMA ReadStays ==
  ASSUME ItemsOK, UNCHANGED envFiles, CacheGrows,
         NEW key \in EnvKeys, NEW e \in 0..MaxWalk - 1, WasRead(key, e)
  PROVE  /\ WasRead(key, e)'
         /\ \A n \in 0..e : \A field : InCache(key, n, field)' = InCache(key, n, field)
<1> USE WalkIsLong
<1>1. Walk(key)' = Walk(key)
  BY WalkStays
<1>2. \A n \in 0..e : Walk(key)[n][1] \in Files
  <2>1. \A n \in 0..e : n \in 0..MaxWalk
    OBVIOUS
  <2>2. \A n \in 0..e : Walk(key)[n] \in Places
    BY <2>1, WalkTyped
  <2> QED BY <2>2 DEF Places
<1> QED BY <1>1, <1>2 DEF WasRead, CacheGrows, InCache

LEMMA BaseStays ==
  ASSUME ItemsOK, UNCHANGED envFiles, CacheGrows,
         NEW key \in EnvKeys, NEW e \in 0..MaxWalk - 1, NEW n \in 0..e, WasRead(key, e),
         NEW base, BaseOf(key, n, e, base)
  PROVE  BaseOf(key, n, e, base)'
<1> USE WalkIsLong
<1>1. /\ \A m \in n..e : WalkItem(key, m)' = WalkItem(key, m)
                        /\ NoDefault(key, m)' = NoDefault(key, m)
                        /\ Silences(key, m)' = Silences(key, m)
  <2> SUFFICES ASSUME NEW m \in n..e
               PROVE  /\ WalkItem(key, m)' = WalkItem(key, m)
                      /\ NoDefault(key, m)' = NoDefault(key, m)
                      /\ Silences(key, m)' = Silences(key, m)
    OBVIOUS
  <2>1. WalkItem(key, m)' = WalkItem(key, m)
    BY WalkStays DEF WalkItem, ItemAt
  <2> QED BY <2>1 DEF NoDefault, Silences
<1> QED BY <1>1, ReadStays DEF BaseOf

-----------------------------------------------------------------------------
(* Every step keeps the invariant *)

LEMMA ReferencesStay ==
  ASSUME UNCHANGED envFiles, NEW key
  PROVE  /\ \A n : WalkItem(key, n)' = WalkItem(key, n)
         /\ Length(key)' = Length(key)
         /\ Unresolvable(key)' = Unresolvable(key)
<1>1. \A n : WalkItem(key, n)' = WalkItem(key, n)
  BY WalkStays DEF WalkItem, ItemAt
<1>2. EndsSomewhere(key)' = EndsSomewhere(key)
  BY <1>1 DEF EndsSomewhere, EndsAt
<1>3. Length(key)' = Length(key)
  BY <1>1 DEF Length, EndsAt
<1>4. Unresolvable(key)' = Unresolvable(key)
  BY <1>1, <1>2, <1>3 DEF Unresolvable
<1> QED BY <1>1, <1>3, <1>4

LEMMA NearestStays ==
  ASSUME UNCHANGED <<envFiles, resolvable, fileCache>>, NEW key
  PROVE  /\ Nearest(key)' = Nearest(key)
         /\ IsSecretHere(key)' = IsSecretHere(key)
<1>1. Nearest(key)' = Nearest(key)
  BY DEF Nearest, Length, EndsAt, WalkItem, ItemAt, Walk, Onward, MaxWalk
<1>2. IsSecretHere(key)' = IsSecretHere(key)
  BY <1>1, ReferencesStay DEF IsSecretHere
<1> QED BY <1>1, <1>2

LEMMA WayStays ==
  ASSUME UNCHANGED <<envFiles, fileCache>>, NEW key, NEW e
  PROVE  Followed(key, e)' = Followed(key, e) /\ WasRead(key, e)' = WasRead(key, e)
<1>1. Walk(key)' = Walk(key) /\ \A n : WalkItem(key, n)' = WalkItem(key, n)
  BY WalkStays, ReferencesStay
<1> QED BY <1>1 DEF Followed, WasRead

\* What was loaded stays when files are read once.
LEMMA LoadedStays ==
  ASSUME ItemsOK, UNCHANGED <<envFiles, loadedItems>>, CacheGrows,
         NEW key \in EnvKeys, Resolved(key)
  PROVE  Resolved(key)'
<1> USE WalkIsLong
<1>1. PICK e \in 0..MaxWalk - 1 : /\ Followed(key, e) /\ WalkItem(key, e).from = NoRef
                                  /\ WasRead(key, e)
                                  /\ BaseOf(key, 0, e, loadedItems[key])
  BY DEF Resolved
<1>2. Followed(key, e)' /\ (WalkItem(key, e).from = NoRef)'
  BY <1>1, ReferencesStay DEF Followed
<1>3. WasRead(key, e)'
  BY <1>1, ReadStays
<1>4. BaseOf(key, 0, e, loadedItems[key])'
  BY <1>1, BaseStays
<1> QED BY <1>2, <1>3, <1>4 DEF Resolved

LEMMA EnvironmentStarts ==
  ASSUME NEW files, \A f \in files : AreEnvFiles(f), EnvironmentInit(files)
  PROVE  EnvironmentInv
<1> USE DEF EnvironmentInit
<1>1. EnvTypes
  BY EnvironmentAssumption DEF EnvTypes, ItemsOK
<1> QED BY <1>1 DEF EnvironmentInv, ChainIsWalk, BaseIsSaid, LoadedAsWritten, EnvironmentAsWritten

LEMMA LoadServiceEnvKeeps ==
  ASSUME EnvironmentInv, LoadServiceEnv
  PROVE  EnvironmentInv'
<1> USE DEF EnvironmentInv, LoadServiceEnv, envInput
<1>1. EnvTypes'
  BY ServiceKeysTyped, FinitelyManyPlaces DEF EnvTypes, ItemsOK
<1>2. ChainIsWalk' /\ BaseIsSaid' /\ EnvironmentAsWritten'
  BY DEF ChainIsWalk, BaseIsSaid, EnvironmentAsWritten
<1>3. \A key \in ServiceItems : ~IsLoaded(key)'
  BY ServiceKeysTyped DEF IsLoaded
<1>4. LoadedAsWritten'
  BY <1>3 DEF LoadedAsWritten
<1> QED BY <1>1, <1>2, <1>4

LEMMA NextItemKeeps ==
  ASSUME EnvironmentInv, NextItem
  PROVE  EnvironmentInv'
<1> USE DEF EnvironmentInv, NextItem, envInput
<1> DEFINE key == Head(envTodo)
<1>1. EnvTypes'
  BY DEF EnvTypes, ItemsOK
<1>2. key \in ServiceItems /\ key \in EnvKeys /\ Head(envTodo)' = key
  BY ServiceKeysTyped DEF EnvTypes
<1>3. WalkItem(key, 0).count = 1 /\ Walk(key)[0] = <<"app", key>>
  BY <1>2, WalkSteps DEF WalkItem, ItemAt, EnvTypes, ItemsOK, AreEnvFiles
<1>4. Followed(key, 0) /\ WasRead(key, 0)
  BY <1>2, <1>3 DEF Followed, WasRead, EnvTypes
<1>5. Walk(key)' = Walk(key) /\ Followed(key, 0)' /\ WasRead(key, 0)'
  BY <1>4, WalkStays, ReferencesStay DEF Followed, WasRead
<1>6. ChainIsWalk'
  <2>1. /\ envChain' \in Seq(Places) /\ Len(envChain') = 1 /\ envChain'[1] = Walk(key)'[0]
    BY <1>2, <1>3, <1>5, FinitelyManyPlaces DEF Places
  <2> QED BY <2>1, <1>2, <1>5, WalkIsLong DEF ChainIsWalk
<1>7. BaseIsSaid' /\ EnvironmentAsWritten'
  BY DEF BaseIsSaid, EnvironmentAsWritten
<1>8. LoadedAsWritten'
  BY LoadedStays, ServiceKeysTyped DEF LoadedAsWritten, IsLoaded, EnvTypes, CacheGrows
<1> QED BY <1>1, <1>6, <1>7, <1>8

LEMMA FailKeeps ==
  ASSUME EnvironmentInv, Fail, UNCHANGED <<envFiles, resolvable, configVersion, configChanges>>,
         envPhase # "idle",
         \/ \E key \in ServiceItems : Unresolvable(key)
         \/ \E key \in resolvable : ~IsSecretHere(key)
         \/ FileIsGone
  PROVE  EnvironmentInv'
<1> USE DEF EnvironmentInv, Fail
<1>1. EnvTypes'
  BY DEF EnvTypes, ItemsOK
<1>2. ChainIsWalk' /\ BaseIsSaid' /\ LoadedAsWritten'
  BY DEF ChainIsWalk, BaseIsSaid, LoadedAsWritten
<1>3. EnvironmentAsWritten'
  <2>1. CASE \E key \in ServiceItems : Unresolvable(key)
    BY <2>1, ReferencesStay DEF EnvironmentAsWritten
  <2>2. CASE \E key \in resolvable : ~IsSecretHere(key)
    BY <2>2, NearestStays DEF EnvironmentAsWritten
  <2>3. CASE FileIsGone
    BY <2>3, WalkStays DEF EnvironmentAsWritten, FileIsGone
  <2> QED BY <2>1, <2>2, <2>3
<1> QED BY <1>1, <1>2, <1>3

\* A chain visits no place twice after the service's own, so it ends among the places.
LEMMA FewPlaces ==
  ASSUME NEW m \in Nat, NEW chain, \A n \in 2..m + 1 : chain[n] \in Places,
         \A i, n \in 2..m + 1 : chain[i] = chain[n] => i = n
  PROVE  m <= Cardinality(Places)
<1> DEFINE visit == [n \in 1..m |-> chain[n + 1]]
<1>1. visit \in Injection(1..m, Places)
  <2>1. \A n \in 1..m : n + 1 \in 2..m + 1
    OBVIOUS
  <2>2. visit \in [1..m -> Places]
    BY <2>1
  <2>3. \A i, n \in DOMAIN visit : visit[i] = visit[n] => i = n
    BY <2>1
  <2> QED BY <2>2, <2>3 DEF Injection, IsInjective
<1> HIDE DEF visit
<1>2. Cardinality(1..m) <= Cardinality(Places)
  BY <1>1, FinitelyManyPlaces, FS_Injection
<1>3. Cardinality(1..m) = m
  <2>1. Cardinality(1..m) = IF 1 > m THEN 0 ELSE m - 1 + 1
    BY FS_Interval
  <2> QED BY <2>1
<1> QED BY <1>2, <1>3

\* A key that the service does not list is no secret of its environment.
LEMMA UnlistedIsUnresolvable ==
  ASSUME ItemsOK, NEW key \in EnvKeys \ ServiceItems
  PROVE  Unresolvable(key) /\ ~IsSecretHere(key)
<1>1. WalkItem(key, 0).count = 0 /\ 0 \in 0..MaxWalk
  BY WalkSteps, WalkIsLong DEF WalkItem, ItemAt, ItemsOK, AreEnvFiles
<1>2. Unresolvable(key)
  BY <1>1 DEF Unresolvable
<1> QED BY <1>2 DEF IsSecretHere

LEMMA FollowKeeps ==
  ASSUME EnvironmentInv, Follow
  PROVE  EnvironmentInv'
<1> USE WalkIsLong
<1>1. /\ EnvTypes /\ ItemsOK /\ envPhase = "follow" /\ envTodo # <<>>
      /\ UNCHANGED <<envInput, configVersion, configChanges>>
  BY DEF EnvironmentInv, EnvTypes, ChainIsWalk, Follow
<1>2. PICK key \in ServiceItems : key = Head(envTodo) /\ key \in EnvKeys
  BY <1>1, ServiceKeysTyped DEF EnvTypes
<1>3. PICK m \in 1..MaxWalk :
        /\ m = Len(envChain) /\ envChain \in Seq(Places)
        /\ \A n \in 1..m : envChain[n] = Walk(key)[n - 1]
        /\ \A i, n \in 2..m : envChain[i] = envChain[n] => i = n
        /\ Followed(key, m - 1) /\ WasRead(key, m - 1)
  BY <1>1, <1>2 DEF EnvironmentInv, ChainIsWalk
<1> DEFINE item    == WalkItem(key, m - 1)
           target  == item.from
           version == FileVersion(target[1])
<1>4. Last(envChain) = Walk(key)[m - 1] /\ ItemAt(Last(envChain)) = item
  BY <1>3 DEF Last, WalkItem
<1>5. /\ item.from # NoRef
      /\ IF \/ item.isSecret
            \/ target \in Range(Tail(envChain)) \/ version = 0 \/ ItemAt(target).count # 1
           THEN Fail
           ELSE /\ fileCache' = [fileCache EXCEPT ![target[1]] = version]
                /\ envChain' = Append(envChain, target)
                /\ UNCHANGED <<envPhase, envTodo, envLevel, envBase, loadedItems, containerEnv>>
  BY <1>4 DEF Follow
<1>6. target \in Places /\ target[1] \in Files
  <2>1. m - 1 \in 0..MaxWalk
    OBVIOUS
  <2>2. item \in EnvItem
    BY <2>1, <1>1, <1>2, WalkTyped
  <2> QED BY <2>2, <1>5 DEF EnvItem, Places
<1>7. /\ Walk(key)[m] = target /\ Onward(Walk(key)[m - 1]) = target
      /\ \A n \in 0..m - 1 : WalkItem(key, n).from # NoRef
  <2>1. Onward(Walk(key)[m - 1]) = target
    <3>1. m - 1 \in 0..m - 1
      BY <1>3
    <3>2. item.count = 1
      BY <3>1, <1>3 DEF Followed
    <3> QED BY <3>2, <1>5 DEF Onward, WalkItem
  <2>2. Walk(key)[m] = target
    BY <2>1, <1>3, WalkSteps
  <2>3. \A n \in 0..m - 1 : n = m - 1 \/ n \in 0..(m - 1) - 1
    BY <1>3
  <2> QED BY <2>1, <2>2, <2>3, <1>3, <1>5 DEF Followed
<1> HIDE DEF item
<1>8. CASE item.isSecret
  <2>1. Unresolvable(key)
    <3>1. m - 1 \in 0..MaxWalk
      OBVIOUS
    <3> QED BY <3>1, <1>5, <1>8 DEF Unresolvable, item
  <2> QED BY <2>1, <1>1, <1>2, <1>5, <1>8, FailKeeps DEF envInput
<1>9. CASE target \in Range(Tail(envChain))
  <2>1. PICK j \in 1..m - 1 : target = envChain[j + 1]
    <3>1. Tail(envChain) \in Seq(Places) /\ Len(Tail(envChain)) = m - 1
      BY <1>3
    <3>2. PICK j \in DOMAIN Tail(envChain) : target = Tail(envChain)[j]
      BY <1>9 DEF Range
    <3>3. j \in 1..m - 1 /\ Tail(envChain)[j] = envChain[j + 1]
      BY <1>3, <3>1, <3>2
    <3> QED BY <3>2, <3>3
  <2>2. target = Walk(key)[j]
    <3>1. j + 1 \in 1..m /\ (j + 1) - 1 = j
      BY <1>3, <2>1
    <3> QED BY <3>1, <2>1, <1>3
  <2>3. ~EndsSomewhere(key)
    <3>1. j \in 0..m - 1
      BY <1>3, <2>1
    <3> QED BY <3>1, <1>3, <1>7, <2>2, WalkTurns
  <2>4. Unresolvable(key)
    BY <2>3 DEF Unresolvable
  <2> QED BY <2>4, <1>1, <1>2, <1>5, <1>9, FailKeeps DEF envInput
<1>10. CASE version = 0
  <2>1. fileCache[target[1]] = 0
    BY <1>10 DEF FileVersion
  <2>2. FileIsGone
    BY <2>1, <1>1, <1>2, <1>3, <1>7, WalkIsLong DEF FileIsGone
  <2> QED BY <2>2, <1>1, <1>5, <1>10, FailKeeps DEF envInput
<1>11. CASE ItemAt(target).count # 1
  <2>1. WalkItem(key, m).count # 1 /\ m \in 0..MaxWalk
    BY <1>3, <1>7, <1>11 DEF WalkItem
  <2>2. Unresolvable(key)
    BY <2>1 DEF Unresolvable
  <2> QED BY <2>2, <1>1, <1>2, <1>5, <1>11, FailKeeps DEF envInput
<1>12. CASE /\ ~item.isSecret /\ target \notin Range(Tail(envChain))
            /\ version # 0 /\ ItemAt(target).count = 1
  <2>1. /\ fileCache' = [fileCache EXCEPT ![target[1]] = version]
        /\ envChain' = Append(envChain, target)
        /\ UNCHANGED <<envFiles, resolvable, configVersion, configChanges, envPhase, envTodo,
                       envLevel, envBase, loadedItems, containerEnv>>
    BY <1>1, <1>5, <1>12 DEF envInput
  <2>2. \A n \in 2..m : target # envChain[n]
    <3> SUFFICES ASSUME NEW n \in 2..m, target = envChain[n]
                 PROVE  FALSE
      OBVIOUS
    <3>1. /\ n - 1 \in DOMAIN Tail(envChain)
          /\ Tail(envChain)[n - 1] = envChain[n]
      BY <1>3
    <3> QED BY <3>1, <1>12 DEF Range
  <2>4. version \in Nat /\ CacheGrows
    <3>1. target[1] = "app" \/ target[1] \in Configs
      BY <1>6 DEF Files
    <3> QED BY <3>1, <1>1, <1>6, <2>1 DEF FileVersion, EnvTypes, CacheGrows
  <2>5. EnvTypes'
    <3>1. ItemsOK'
      BY <1>1, <2>1 DEF ItemsOK
    <3>2. fileCache' \in [Files -> Nat] /\ fileCache'["app"] # 0
      BY <1>1, <1>6, <1>12, <2>1, <2>4 DEF EnvTypes, Files
    <3> QED BY <3>1, <3>2, <1>1, <2>1 DEF EnvTypes
  <2>6. /\ Head(envTodo)' = key /\ Walk(key)' = Walk(key)
        /\ \A n : WalkItem(key, n)' = WalkItem(key, n)
    BY <1>2, <2>1, WalkStays, ReferencesStay
  <2>7. /\ envChain' \in Seq(Places) /\ Len(envChain') = m + 1 /\ envChain'[m + 1] = target
        /\ \A n \in 1..m : envChain'[n] = envChain[n]
    BY <1>3, <1>6, <2>1
  <2>8. \A n \in 1..m + 1 : envChain'[n] = Walk(key)[n - 1]
    BY <1>3, <1>7, <2>7
  <2>9. \A i, n \in 2..m + 1 : envChain'[i] = envChain'[n] => i = n
    <3> SUFFICES ASSUME NEW i \in 2..m + 1, NEW n \in 2..m + 1, envChain'[i] = envChain'[n]
                 PROVE  i = n
      OBVIOUS
    <3>1. CASE i \in 2..m /\ n \in 2..m
      <4>1. envChain[i] = envChain[n]
        <5>1. i \in 1..m /\ n \in 1..m
          BY <3>1
        <5> QED BY <5>1, <2>7
      <4> QED BY <3>1, <4>1, <1>3
    <3>2. CASE i \in 2..m /\ n = m + 1
      <4>1. envChain'[i] = envChain[i]
        BY <3>2, <2>7
      <4> QED BY <3>2, <4>1, <2>2, <2>7
    <3>3. CASE i = m + 1 /\ n \in 2..m
      <4>1. envChain'[n] = envChain[n]
        BY <3>3, <2>7
      <4> QED BY <3>3, <4>1, <2>2, <2>7
    <3> QED BY <3>1, <3>2, <3>3
  <2>15. m <= Cardinality(Places)
    <3>1. \A n \in 2..m + 1 : envChain'[n] \in Places
      BY <1>3, <2>7
    <3>2. m \in Nat
      BY <1>3
    <3> QED BY <3>1, <3>2, <2>9, FewPlaces
  <2>10. Followed(key, m)
    <3>1. \A n \in 0..m : n = m \/ n \in 0..m - 1
      BY <1>3
    <3>2. \A n \in 0..m - 1 : n = m - 1 \/ n \in 0..(m - 1) - 1
      BY <1>3
    <3>3. WalkItem(key, m).count = 1
      BY <1>7, <1>12 DEF WalkItem
    <3> QED BY <3>1, <3>2, <3>3, <1>3, <1>7, <1>12 DEF Followed, item
  <2>11. WasRead(key, m)'
    <3>1. WasRead(key, m - 1)'
      <4>1. m - 1 \in 0..MaxWalk - 1
        OBVIOUS
      <4>2. WasRead(key, m - 1) /\ UNCHANGED envFiles /\ key \in EnvKeys
        BY <1>2, <1>3, <2>1
      <4> QED BY <4>1, <4>2, <1>1, <2>4, ReadStays
    <3>2. fileCache'[target[1]] # 0
      BY <1>1, <1>6, <1>12, <2>1 DEF EnvTypes
    <3>3. \A n \in 0..m : n = m \/ n \in 0..m - 1
      BY <1>3
    <3> QED BY <3>1, <3>2, <3>3, <1>7, <2>6 DEF WasRead
  <2>12. ChainIsWalk'
    <3>1. Followed(key, m)'
      BY <2>6, <2>10 DEF Followed
    <3>2. m + 1 \in 1..MaxWalk /\ (m + 1) - 1 = m
      <4>1. m + 1 <= MaxWalk /\ m \in Nat
        BY <1>3, <2>15, FinitelyManyPlaces
      <4> QED BY <4>1
    <3> QED BY <3>1, <3>2, <1>1, <2>1, <2>6, <2>7, <2>8, <2>9, <2>11 DEF ChainIsWalk
  <2>13. BaseIsSaid' /\ EnvironmentAsWritten'
    BY <1>1, <2>1 DEF BaseIsSaid, EnvironmentAsWritten
  <2>14. LoadedAsWritten'
    <3>1. \A k \in EnvKeys : IsLoaded(k)' <=> IsLoaded(k)
      BY <2>1 DEF IsLoaded
    <3> QED BY <3>1, <1>1, <2>1, <2>4, LoadedStays, ServiceKeysTyped DEF EnvironmentInv, LoadedAsWritten
  <2> QED BY <2>5, <2>12, <2>13, <2>14 DEF EnvironmentInv
<1> QED BY <1>8, <1>9, <1>10, <1>11, <1>12

LEMMA ReachedKeeps ==
  ASSUME EnvironmentInv, Reached
  PROVE  EnvironmentInv'
<1> USE WalkIsLong
<1>1. /\ EnvTypes /\ ItemsOK /\ envPhase = "follow" /\ envTodo # <<>>
      /\ UNCHANGED <<envFiles, resolvable, configVersion, configChanges, envTodo, fileCache,
                     envChain, loadedItems, containerEnv>>
      /\ envPhase' = "override"
  BY DEF EnvironmentInv, EnvTypes, ChainIsWalk, Reached, envInput
<1>2. PICK key \in ServiceItems : key = Head(envTodo) /\ key \in EnvKeys
  BY <1>1, ServiceKeysTyped DEF EnvTypes
<1>3. PICK e \in 0..MaxWalk - 1 : e = Len(envChain) - 1
  BY <1>1 DEF EnvironmentInv, ChainIsWalk
<1>4. Last(envChain) = Walk(key)[e] /\ ItemAt(Last(envChain)) = WalkItem(key, e)
  <2>1. Len(envChain) = e + 1 /\ e + 1 \in 1..Len(envChain) /\ (e + 1) - 1 = e
    BY <1>1, <1>3 DEF EnvironmentInv, ChainIsWalk
  <2> QED BY <1>1, <1>2, <2>1 DEF EnvironmentInv, ChainIsWalk, Last, WalkItem
<1>5. /\ WalkItem(key, e).from = NoRef
      /\ envBase' = Written(Walk(key)[e]) /\ envLevel' = e
  BY <1>3, <1>4 DEF Reached
<1>6. CacheGrows /\ WalkItem(key, e)' = WalkItem(key, e)
  BY <1>1, ReferencesStay DEF CacheGrows
<1>7. WasRead(key, e)
  BY <1>1, <1>2, <1>3 DEF EnvironmentInv, ChainIsWalk
<1>8. BaseOf(key, e, e, Written(Walk(key)[e]))
  BY <1>1, <1>2, BaseStarts
<1>9. BaseOf(key, e, e, envBase)'
  BY <1>1, <1>2, <1>5, <1>6, <1>7, <1>8, BaseStays
<1>10. EnvTypes'
  BY <1>1 DEF EnvTypes, ItemsOK
<1>11. ChainIsWalk'
  <2>1. \A n \in 0..MaxWalk - 1 : Followed(key, n)' = Followed(key, n) /\ WasRead(key, n)' = WasRead(key, n)
    BY <1>1, WayStays
  <2>2. Head(envTodo)' = key /\ Walk(key)' = Walk(key)
    BY <1>1, <1>2, WalkStays
  <2> QED BY <1>1, <1>2, <1>3, <2>1, <2>2 DEF EnvironmentInv, ChainIsWalk
<1>12. BaseIsSaid'
  BY <1>1, <1>2, <1>3, <1>5, <1>6, <1>9 DEF BaseIsSaid
<1>13. LoadedAsWritten' /\ EnvironmentAsWritten'
  <2>1. \A k \in EnvKeys : IsLoaded(k)' <=> IsLoaded(k)
    BY <1>1 DEF IsLoaded
  <2> QED
    BY <2>1, <1>1, <1>6, LoadedStays, ServiceKeysTyped
    DEF EnvironmentInv, LoadedAsWritten, EnvironmentAsWritten
<1> QED BY <1>10, <1>11, <1>12, <1>13 DEF EnvironmentInv

LEMMA OverrideBaseKeeps ==
  ASSUME EnvironmentInv, OverrideBase
  PROVE  EnvironmentInv'
<1> USE WalkIsLong
<1>1. /\ EnvTypes /\ ItemsOK /\ envPhase = "override" /\ envTodo # <<>> /\ envLevel > 0
      /\ UNCHANGED <<envFiles, resolvable, configVersion, configChanges>>
  BY DEF EnvironmentInv, EnvTypes, ChainIsWalk, OverrideBase, envInput
<1>2. PICK key \in ServiceItems : key = Head(envTodo) /\ key \in EnvKeys
  BY <1>1, ServiceKeysTyped DEF EnvTypes
<1>3. PICK e \in 0..MaxWalk - 1 : e = Len(envChain) - 1
  BY <1>1 DEF EnvironmentInv, ChainIsWalk
<1>4. PICK n \in 1..e : n = envLevel
  BY <1>1, <1>3 DEF EnvironmentInv, BaseIsSaid
<1>5. /\ WalkItem(key, e).from = NoRef /\ BaseOf(key, n, e, envBase)
      /\ Followed(key, e) /\ WasRead(key, e)
      /\ envChain[n] = Walk(key)[n - 1]
  BY <1>1, <1>2, <1>3, <1>4 DEF EnvironmentInv, ChainIsWalk, BaseIsSaid
<1> DEFINE own    == Written(Walk(key)[n - 1])
           result == Overridden(envBase, own)
           top    == [result EXCEPT !.emitEmpty = IsEmpty(result.value)]
<1>6. IF DOMAIN own.values # {} /\ result.secretRef # Nowhere
        THEN Fail
        ELSE /\ envBase' = top /\ envLevel' = n - 1
             /\ UNCHANGED <<envPhase, envTodo, fileCache, envChain, loadedItems, containerEnv>>
  BY <1>4, <1>5 DEF OverrideBase
<1>7. CASE DOMAIN own.values # {} /\ result.secretRef # Nowhere
  <2> DEFINE k == n - 1
  <2>1. k \in 0..e - 1 /\ k \in 0..MaxWalk /\ n = k + 1
    OBVIOUS
  <2>2. WalkItem(key, k) \in EnvItem /\ ~WalkItem(key, k).isSecret
    BY <1>1, <1>2, <1>5, <2>1, WalkTyped DEF Followed
  <2>3. /\ own.value = IF NoDefault(key, k) THEN Nowhere
                        ELSE InCache(key, k, WalkItem(key, k).value)
        /\ DOMAIN own.values = WalkItem(key, k).values
        /\ DOMAIN own = {"value", "values", "secretRef", "emitEmpty"}
        /\ own.secretRef = Nowhere
    BY <2>2 DEF Written, WalkItem, InCache, NoDefault
  <2> HIDE DEF own, k
  <2>4. result.secretRef = IF own.value = Nowhere THEN envBase.secretRef ELSE own.secretRef
    BY <1>5, <2>3 DEF Overridden, BaseOf
  <2>5. NoDefault(key, k) /\ envBase.secretRef # Nowhere
    BY <1>7, <2>3, <2>4, PlacesAreSomewhere
  <2>6. WalkItem(key, e).isSecret /\ \A m \in n..e - 1 : NoDefault(key, m)
    BY <1>5, <2>5 DEF BaseOf
  <2>7. \A m \in k..e - 1 : NoDefault(key, m)
    <3>1. \A m \in k..e - 1 : m = k \/ m \in n..e - 1
      BY <2>1
    <3> QED BY <3>1, <2>5, <2>6
  <2>8. Length(key) = e
    BY <1>5, WalkEnds DEF Followed
  <2>9. WalkItem(key, k).values # {}
    BY <1>7, <2>3
  <2>10. Unresolvable(key)
    BY <2>1, <2>6, <2>7, <2>8, <2>9 DEF Unresolvable, NoDefault
  <2> QED BY <2>10, <1>1, <1>6, <1>7, FailKeeps
<1>8. CASE ~(DOMAIN own.values # {} /\ result.secretRef # Nowhere)
  <2>1. BaseOf(key, n - 1, e, top)
    BY <1>1, <1>2, <1>5, <1>8, BaseGrows
  <2> HIDE DEF top
  <2>2. /\ envBase' = top /\ envLevel' = n - 1
        /\ UNCHANGED <<envPhase, envTodo, fileCache, envChain, loadedItems, containerEnv>>
    BY <1>6, <1>8
  <2>3. CacheGrows /\ WalkItem(key, e)' = WalkItem(key, e)
    BY <1>1, <2>2, ReferencesStay DEF CacheGrows
  <2>4. BaseOf(key, n - 1, e, envBase)'
    BY <1>1, <1>2, <1>5, <2>1, <2>2, <2>3, BaseStays
  <2>5. EnvTypes'
    BY <1>1, <2>2 DEF EnvTypes, ItemsOK
  <2>6. ChainIsWalk'
    <3>1. \A i \in 0..MaxWalk - 1 : Followed(key, i)' = Followed(key, i) /\ WasRead(key, i)' = WasRead(key, i)
      BY <1>1, <2>2, WayStays
    <3>2. Head(envTodo)' = key /\ Walk(key)' = Walk(key)
      BY <1>1, <1>2, <2>2, WalkStays
    <3> QED BY <1>1, <1>2, <1>3, <2>2, <3>1, <3>2 DEF EnvironmentInv, ChainIsWalk
  <2>7. BaseIsSaid'
    <3>1. Len(envChain') - 1 = e /\ n - 1 \in 0..e
      BY <1>3, <2>2
    <3> QED BY <3>1, <1>1, <1>2, <1>5, <2>2, <2>3, <2>4 DEF BaseIsSaid
  <2>8. LoadedAsWritten' /\ EnvironmentAsWritten'
    <3>1. \A k \in EnvKeys : IsLoaded(k)' <=> IsLoaded(k)
      BY <2>2 DEF IsLoaded
    <3> QED
      BY <3>1, <1>1, <2>2, <2>3, LoadedStays, ServiceKeysTyped
      DEF EnvironmentInv, LoadedAsWritten, EnvironmentAsWritten
  <2> QED BY <2>5, <2>6, <2>7, <2>8 DEF EnvironmentInv
<1> QED BY <1>7, <1>8

LEMMA ItemLoadedKeeps ==
  ASSUME EnvironmentInv, ItemLoaded
  PROVE  EnvironmentInv'
<1> USE WalkIsLong
<1>1. /\ EnvTypes /\ ItemsOK /\ envPhase = "override" /\ envTodo # <<>> /\ envLevel = 0
      /\ UNCHANGED <<envFiles, resolvable, configVersion, configChanges, fileCache, containerEnv>>
      /\ envPhase' = "item" /\ envTodo' = Tail(envTodo)
  BY DEF EnvironmentInv, EnvTypes, ChainIsWalk, ItemLoaded, envInput
<1>2. PICK key \in ServiceItems : key = Head(envTodo) /\ key \in EnvKeys
  BY <1>1, ServiceKeysTyped DEF EnvTypes
<1>3. PICK e \in 0..MaxWalk - 1 : e = Len(envChain) - 1
  BY <1>1 DEF EnvironmentInv, ChainIsWalk
<1>4. /\ WalkItem(key, e).from = NoRef /\ BaseOf(key, 0, e, envBase)
      /\ Followed(key, e) /\ WasRead(key, e)
  BY <1>1, <1>2, <1>3 DEF EnvironmentInv, ChainIsWalk, BaseIsSaid
<1>5. CacheGrows /\ WalkItem(key, e)' = WalkItem(key, e)
  BY <1>1, ReferencesStay DEF CacheGrows
<1>6. loadedItems' = [loadedItems EXCEPT ![key] = envBase] /\ loadedItems'[key] = envBase
  BY <1>1, <1>2 DEF ItemLoaded, EnvTypes
<1>7. Resolved(key)'
  <2>1. BaseOf(key, 0, e, loadedItems[key])'
    BY <1>1, <1>2, <1>4, <1>5, <1>6, BaseStays
  <2>2. Followed(key, e)' /\ WasRead(key, e)'
    BY <1>1, <1>4, WayStays
  <2> QED BY <2>1, <2>2, <1>4, <1>5 DEF Resolved
<1>8. \A k \in EnvKeys : IsLoaded(k)' => k = key \/ IsLoaded(k)
  <2> SUFFICES ASSUME NEW k \in EnvKeys, k # key, IsLoaded(k)', NEW n \in 1..Len(envTodo)
               PROVE  envTodo[n] # k
    BY DEF IsLoaded
  <2>1. CASE n = 1
    BY <1>2, <2>1
  <2>2. CASE n > 1
    <3>1. n - 1 \in 1..Len(Tail(envTodo)) /\ Tail(envTodo)[n - 1] = envTodo[n]
      BY <1>1, <2>2 DEF EnvTypes
    <3> QED BY <1>1, <3>1 DEF IsLoaded
  <2> QED BY <2>1, <2>2
<1>9. \A k \in EnvKeys \ {key} : Resolved(k) => Resolved(k)'
  <2> SUFFICES ASSUME NEW k \in EnvKeys \ {key}, Resolved(k)
               PROVE  Resolved(k)'
    OBVIOUS
  <2>1. PICK d \in 0..MaxWalk - 1 : /\ Followed(k, d) /\ WalkItem(k, d).from = NoRef
                                    /\ WasRead(k, d)
                                    /\ BaseOf(k, 0, d, loadedItems[k])
    BY DEF Resolved
  <2>2. loadedItems'[k] = loadedItems[k]
    BY <1>1, <1>6 DEF EnvTypes
  <2>3. BaseOf(k, 0, d, loadedItems[k])'
    BY <1>1, <1>5, <2>1, <2>2, BaseStays
  <2>4. Followed(k, d)' /\ WasRead(k, d)' /\ (WalkItem(k, d).from = NoRef)'
    BY <1>1, <2>1, WayStays, ReferencesStay
  <2> QED BY <2>3, <2>4 DEF Resolved
<1>10. EnvTypes'
  <2>1. envTodo' \in Seq(ServiceItems)
    BY <1>1 DEF EnvTypes
  <2>2. /\ DOMAIN loadedItems' = EnvKeys
        /\ \A k \in EnvKeys \ ServiceItems : loadedItems'[k] = NoBase
    BY <1>1, <1>2, <1>6 DEF EnvTypes
  <2> QED BY <1>1, <2>1, <2>2 DEF EnvTypes, ItemsOK
<1>11. ChainIsWalk' /\ BaseIsSaid' /\ EnvironmentAsWritten'
  BY <1>1 DEF ChainIsWalk, BaseIsSaid, EnvironmentAsWritten
<1>12. LoadedAsWritten'
  BY <1>1, <1>7, <1>8, <1>9, ServiceKeysTyped DEF EnvironmentInv, LoadedAsWritten
<1> QED BY <1>10, <1>11, <1>12 DEF EnvironmentInv

LEMMA WriteEnvironmentKeeps ==
  ASSUME EnvironmentInv, WriteEnvironment
  PROVE  EnvironmentInv'
<1>1. /\ EnvTypes /\ ItemsOK /\ envPhase = "item" /\ envTodo = <<>>
      /\ UNCHANGED <<envFiles, resolvable, configVersion, configChanges>>
  BY DEF EnvironmentInv, EnvTypes, WriteEnvironment, envInput
<1>2. \A key \in ServiceItems : IsLoaded(key) /\ Resolved(key) /\ key \in EnvKeys
  BY <1>1, ServiceKeysTyped DEF EnvironmentInv, LoadedAsWritten, IsLoaded
<1>3. CASE NotResolvable # {}
  <2>1. Fail
    BY <1>3 DEF WriteEnvironment
  <2>2. PICK key \in resolvable : loadedItems[key].secretRef = Nowhere
    BY <1>3 DEF NotResolvable
  <2>3. ~IsSecretHere(key)
    BY <1>1, <1>2, <2>2, ResolvedDelivers, UnlistedIsUnresolvable DEF EnvTypes
  <2> QED BY <2>1, <2>3, <1>1, FailKeeps
<1>4. CASE NotResolvable = {}
  <2>1. /\ containerEnv' = [key \in EnvKeys |-> Delivered(key, loadedItems[key])]
        /\ envPhase' = "written"
        /\ UNCHANGED <<envTodo, fileCache, envChain, envLevel, envBase, loadedItems>>
    BY <1>4 DEF WriteEnvironment
  <2>2. EnvTypes'
    BY <1>1, <2>1 DEF EnvTypes, ItemsOK
  <2>3. ChainIsWalk' /\ BaseIsSaid'
    BY <2>1 DEF ChainIsWalk, BaseIsSaid
  <2>4. LoadedAsWritten'
    BY <1>1, <1>2, <2>1, LoadedStays DEF LoadedAsWritten, CacheGrows
  <2>5. \A key \in ServiceItems : ~Unresolvable(key)' /\ containerEnv'[key] = Nearest(key)'
    BY <1>1, <1>2, <2>1, ResolvedDelivers, ReferencesStay, NearestStays
  <2>7. \A key \in EnvKeys \ ServiceItems : containerEnv'[key] = Nowhere
    <3>1. \A key \in EnvKeys : Delivered(key, NoBase) = Nowhere
      BY DEF Delivered, NoBase, Nowhere, IsEmpty
    <3> QED BY <3>1, <1>1, <2>1 DEF EnvTypes
  <2>6. EnvironmentAsWritten'
    BY <2>1, <2>5, <2>7 DEF EnvironmentAsWritten
  <2> QED BY <2>2, <2>3, <2>4, <2>6 DEF EnvironmentInv
<1> QED BY <1>3, <1>4

\* Whatever is done to the config meanwhile.
LEMMA ConfigChangesKeep ==
  ASSUME EnvironmentInv, configVersion' \in [Configs -> Nat], configChanges' \in Nat,
         UNCHANGED <<envFiles, resolvable, envPhase, envTodo, fileCache, envChain, envLevel,
                     envBase, loadedItems, containerEnv>>
  PROVE  EnvironmentInv'
<1> USE WalkIsLong
<1>1. EnvTypes /\ ItemsOK /\ EnvTypes' /\ CacheGrows
  BY DEF EnvironmentInv, EnvTypes, ItemsOK, CacheGrows
<1>2. \A key \in EnvKeys : /\ Walk(key)' = Walk(key) /\ \A n : WalkItem(key, n)' = WalkItem(key, n)
                           /\ Unresolvable(key)' = Unresolvable(key)
                           /\ Nearest(key)' = Nearest(key) /\ IsSecretHere(key)' = IsSecretHere(key)
  BY WalkStays, ReferencesStay, NearestStays
<1>3. envPhase \in {"follow", "override"} => Head(envTodo) \in EnvKeys /\ Len(envChain) - 1 \in 0..MaxWalk - 1
  BY <1>1, ServiceKeysTyped, WalkIsLong DEF EnvironmentInv, ChainIsWalk, EnvTypes
<1>4. \A key \in EnvKeys, n \in 0..MaxWalk - 1 : /\ Followed(key, n)' = Followed(key, n)
                                                 /\ WasRead(key, n)' = WasRead(key, n)
  BY WayStays
<1>5. ChainIsWalk'
  BY <1>2, <1>3, <1>4 DEF EnvironmentInv, ChainIsWalk
<1>6. BaseIsSaid'
  <2> SUFFICES ASSUME envPhase = "override"
               PROVE  BaseIsSaid'
    BY DEF BaseIsSaid
  <2>1. PICK key \in EnvKeys, e \in 0..MaxWalk - 1 : key = Head(envTodo) /\ e = Len(envChain) - 1
    BY <1>3
  <2>2. PICK n \in 0..e : n = envLevel
    BY <2>1 DEF EnvironmentInv, BaseIsSaid
  <2>3. BaseOf(key, n, e, envBase) /\ WasRead(key, e) /\ WalkItem(key, e).from = NoRef
    BY <2>1, <2>2 DEF EnvironmentInv, BaseIsSaid, ChainIsWalk
  <2>4. BaseOf(key, n, e, envBase)'
    BY <1>1, <2>3, BaseStays
  <2> QED BY <2>1, <2>2, <2>3, <2>4, <1>2 DEF BaseIsSaid
<1>7. LoadedAsWritten'
  BY <1>1, LoadedStays, ServiceKeysTyped DEF EnvironmentInv, LoadedAsWritten, IsLoaded
<1>8. EnvironmentAsWritten'
  <2>1. FileIsGone' <=> FileIsGone
    BY WalkStays DEF FileIsGone
  <2> QED BY <2>1, <1>1, <1>2, ServiceKeysTyped DEF EnvironmentInv, EnvironmentAsWritten, EnvTypes
<1> QED BY <1>1, <1>5, <1>6, <1>7, <1>8 DEF EnvironmentInv

LEMMA EnvironmentStep ==
  ASSUME EnvironmentInv, [EnvironmentNext]_envVars
  PROVE  EnvironmentInv'
<1>1. ASSUME StoreConfig PROVE EnvironmentInv'
  <2>1. configVersion' \in [Configs -> Nat] /\ configChanges' \in Nat
    BY <1>1 DEF StoreConfig, EnvironmentInv, EnvTypes
  <2> QED BY <1>1, <2>1, ConfigChangesKeep DEF StoreConfig, envInput
<1>2. ASSUME UNCHANGED envVars PROVE EnvironmentInv'
  <2>1. configVersion' \in [Configs -> Nat] /\ configChanges' \in Nat
    BY <1>2 DEF envVars, EnvironmentInv, EnvTypes
  <2> QED BY <1>2, <2>1, ConfigChangesKeep DEF envVars
<1> QED
  BY <1>1, <1>2, LoadServiceEnvKeeps, NextItemKeeps, FollowKeeps, ReachedKeeps, OverrideBaseKeeps,
     ItemLoadedKeeps, WriteEnvironmentKeeps DEF EnvironmentNext

\* The environment stays as it is written whatever a service and a config say, as long
\* as a secret has no values, and however often configs change (internal/environment).
THEOREM EnvironmentInvariant ==
  ASSUME NEW CONSTANT files, \A f \in files : AreEnvFiles(f)
  PROVE  EnvironmentInit(files) /\ [][EnvironmentNext]_envVars => []EnvironmentInv
<1>1. EnvironmentInit(files) => EnvironmentInv
  BY EnvironmentStarts
<1>2. EnvironmentInv /\ [EnvironmentNext]_envVars => EnvironmentInv'
  BY EnvironmentStep
<1> QED BY <1>1, <1>2, PTL

\* Versions are no newer than the changes, and outside "override" no item is left to be
\* overridden.
EnvBounds ==
  /\ configChanges \in 0..MaxConfigChanges /\ configVersion \in [Configs -> 0..configChanges + 1]
  /\ \A f \in Files : fileCache[f] \in 0..configChanges + 1
  /\ Range(envChain) \subseteq Places /\ envChain \in Seq(Places)
  /\ envLevel \in 0..Len(envChain)
  /\ envPhase \in {"idle", "item", "follow"} => envLevel = 0

LEMMA EnvBoundsInitially ==
  ASSUME NEW files, EnvironmentInit(files)
  PROVE  EnvBounds
<1>1. Range(envChain) = {}
  BY DEF EnvironmentInit, Range
<1> QED BY <1>1, EnvironmentAssumption DEF EnvironmentInit, EnvBounds, Files

LEMMA EnvBoundsStep ==
  ASSUME EnvironmentInv, EnvBounds, [EnvironmentNext]_envVars
  PROVE  EnvBounds'
<1> USE WalkIsLong
<1> DEFINE Versions == /\ configChanges' \in 0..MaxConfigChanges
                       /\ configVersion' \in [Configs -> 0..configChanges' + 1]
                       /\ \A f \in Files : fileCache'[f] \in 0..configChanges' + 1
           Chain    == /\ Range(envChain)' \subseteq Places /\ envChain' \in Seq(Places)
                       /\ envLevel' \in 0..Len(envChain')
                       /\ envPhase' \in {"idle", "item", "follow"} => envLevel' = 0
<1>a. /\ configChanges \in Nat /\ configVersion \in [Configs -> Nat] /\ MaxConfigChanges \in Nat
      /\ fileCache \in [Files -> Nat] /\ "app" \in Files /\ \A f \in Files : f = "app" \/ f \in Configs
  BY EnvironmentAssumption DEF EnvironmentInv, EnvTypes, Files
<1>b. UNCHANGED <<configChanges, configVersion, fileCache>> => Versions
  BY DEF EnvBounds
<1>c. UNCHANGED <<envChain, envLevel>> /\ (envPhase' \in {"failed", "written", envPhase}) => Chain
  BY DEF EnvBounds, Range
<1>1. CASE LoadServiceEnv
  <2>1. Versions
    BY <1>a, <1>1 DEF LoadServiceEnv, EnvBounds
  <2>2. Chain
    BY <1>1 DEF LoadServiceEnv, EnvBounds, Range
  <2> QED BY <2>1, <2>2 DEF EnvBounds
<1>2. CASE NextItem
  <2>1. Head(envTodo) \in EnvKeys
    BY <1>2, ServiceKeysTyped DEF NextItem, EnvironmentInv, EnvTypes
  <2>2. <<"app", Head(envTodo)>> \in Places
    BY <1>a, <2>1 DEF Places
  <2>3. envChain' = <<<<"app", Head(envTodo)>>>> /\ envLevel' = 0
    BY <1>2 DEF NextItem, EnvBounds
  <2>4. Chain
    BY <2>2, <2>3 DEF Range
  <2> QED BY <1>b, <1>2, <2>4 DEF NextItem, EnvBounds
<1>3. CASE Follow
  <2>1. CASE Fail
    BY <1>b, <1>c, <1>3, <2>1 DEF Follow, Fail, EnvBounds
  <2>2. CASE ~Fail
    <3> DEFINE target == ItemAt(Last(envChain)).from
    <3>1. envChain # <<>> /\ envChain \in Seq(Places)
      BY <1>3 DEF Follow, EnvironmentInv, ChainIsWalk
    <3>2. Last(envChain) \in Places
      BY <3>1 DEF Last
    <3>3. target \in Places
      <4>1. \A f \in Files, key \in EnvKeys : envFiles[f][key] \in EnvItem
        BY DEF EnvironmentInv, EnvTypes, ItemsOK, AreEnvFiles
      <4>2. ItemAt(Last(envChain)) \in EnvItem
        BY <3>2, <4>1 DEF ItemAt, Places
      <4>3. target # NoRef
        BY <1>3 DEF Follow
      <4> QED BY <4>2, <4>3 DEF EnvItem
    <3>4. /\ fileCache' = [fileCache EXCEPT ![target[1]] = FileVersion(target[1])]
          /\ envChain' = Append(envChain, target)
          /\ UNCHANGED <<envPhase, envLevel, configVersion, configChanges>>
      BY <1>3, <2>2 DEF Follow
    <3> HIDE DEF target
    <3>5. target[1] \in Files
      BY <3>3 DEF Places
    <3>6. FileVersion(target[1]) \in 0..configChanges + 1
      BY <1>a, <3>5 DEF FileVersion, EnvBounds
    <3>7. Versions
      BY <1>a, <3>4, <3>5, <3>6 DEF EnvBounds
    <3>8. envChain' \in Seq(Places) /\ Range(envChain)' \subseteq Places /\ Len(envChain') = Len(envChain) + 1
      BY <3>1, <3>3, <3>4 DEF Range
    <3>9. Chain
      BY <3>4, <3>8, <1>3 DEF EnvBounds, Follow
    <3> QED BY <3>7, <3>9 DEF EnvBounds
  <2> QED BY <2>1, <2>2
<1>4. CASE Reached
  <2>1. Len(envChain) \in 1..MaxWalk
    BY <1>4 DEF Reached, EnvironmentInv, ChainIsWalk
  <2>2. envChain' = envChain /\ envLevel' = Len(envChain) - 1 /\ envPhase' = "override"
    BY <1>4 DEF Reached
  <2>3. envChain' \in Seq(Places) /\ Range(envChain)' \subseteq Places
    BY <2>2 DEF EnvBounds, Range
  <2>4. envLevel' \in 0..Len(envChain')
    BY <2>1, <2>2
  <2>5. Chain
    BY <2>2, <2>3, <2>4
  <2> QED BY <1>b, <1>4, <2>5 DEF Reached, EnvBounds
<1>5. CASE OverrideBase
  <2>1. CASE Fail
    BY <1>b, <1>c, <1>5, <2>1 DEF OverrideBase, Fail, EnvBounds
  <2>2. CASE ~Fail
    <3>1. envLevel' = envLevel - 1 /\ UNCHANGED <<envChain, envPhase>> /\ envLevel > 0 /\ envPhase = "override"
      BY <1>5, <2>2 DEF OverrideBase
    <3>2. Chain
      BY <3>1 DEF EnvBounds, Range
    <3> QED BY <1>b, <1>5, <2>2, <3>2 DEF OverrideBase, EnvBounds
  <2> QED BY <2>1, <2>2
<1>6. CASE ItemLoaded
  <2>1. envChain' = <<>> /\ envLevel' = 0
    BY <1>6 DEF ItemLoaded
  <2>2. Chain
    BY <2>1 DEF Range
  <2> QED BY <1>b, <1>6, <2>2 DEF ItemLoaded, EnvBounds
<1>7. CASE WriteEnvironment
  <2>1. CASE Fail
    BY <1>b, <1>c, <1>7, <2>1 DEF WriteEnvironment, Fail, EnvBounds
  <2>2. CASE ~Fail
    BY <1>b, <1>c, <1>7, <2>2 DEF WriteEnvironment, EnvBounds
  <2> QED BY <2>1, <2>2
<1>8. CASE StoreConfig
  <2>1. /\ configChanges' = configChanges + 1 /\ configChanges < MaxConfigChanges
        /\ \E c \in Configs : \E v \in {configChanges + 2, 0} :
             configVersion' = [configVersion EXCEPT ![c] = v]
        /\ UNCHANGED <<fileCache, envChain, envLevel, envPhase>>
    BY <1>8 DEF StoreConfig
  <2>2. Versions
    BY <1>a, <2>1 DEF EnvBounds
  <2> QED BY <1>c, <2>1, <2>2 DEF EnvBounds
<1>9. CASE UNCHANGED envVars
  BY <1>b, <1>c, <1>9 DEF envVars, EnvBounds
<1> QED
  BY <1>1, <1>2, <1>3, <1>4, <1>5, <1>6, <1>7, <1>8, <1>9 DEF EnvironmentNext

LEMMA EnvInvTypes ==
  ASSUME EnvTypes, EnvBounds
  PROVE  EnvironmentTypeOK
<1> QED
  BY EnvironmentAssumption DEF EnvironmentTypeOK, EnvTypes, EnvBounds

\* A deployment reads no version of a config that nobody installed, and keeps to the
\* places of its files.
THEOREM EnvironmentIsTyped ==
  ASSUME NEW CONSTANT files, \A f \in files : AreEnvFiles(f)
  PROVE  EnvironmentInit(files) /\ [][EnvironmentNext]_envVars => []EnvironmentTypeOK
<1>1. EnvironmentInit(files) => EnvironmentInv /\ EnvBounds
  BY EnvironmentStarts, EnvBoundsInitially
<1>2. EnvironmentInv /\ EnvBounds /\ [EnvironmentNext]_envVars => (EnvironmentInv /\ EnvBounds)'
  BY EnvironmentStep, EnvBoundsStep
<1>3. EnvironmentInv /\ EnvBounds => EnvironmentTypeOK
  BY EnvInvTypes DEF EnvironmentInv
<1> QED BY <1>1, <1>2, <1>3, PTL

\* What a container gets is what the nearest item of its reference chain says, in one
\* version of every file, and a deployment fails only for what cannot be resolved.
THEOREM EnvironmentStaysAsWritten == EnvironmentSpec => []EnvironmentAsWritten
<1>1. EnvironmentSpec => []EnvironmentInv
  BY EnvironmentAssumption, EnvironmentInvariant DEF EnvironmentSpec
<1>2. EnvironmentInv => EnvironmentAsWritten
  BY DEF EnvironmentInv
<1> QED BY <1>1, <1>2, PTL

-----------------------------------------------------------------------------
(* The stages together *)

\* In its stage a module keeps its invariant; at rest it says nothing new.
StageInv ==
  /\ stage \in {"targets", "environment", "rendering", "wait", "names"}
  /\ MonitorInv
  /\ stage = "environment" => EnvironmentInv /\ EnvBounds
  /\ stage # "environment" => envPhase = "idle" /\ EnvironmentTypeOK
  /\ NamesInv
  /\ TargetsInv
  /\ RenderingInv /\ RenderingTypeOK

LEMMA WaitOverInv ==
  ASSUME WaitOver
  PROVE  MonitorInv
<1>1. TypeOK
  <2>1. "" \in UpdateStates /\ "absent" \in TaskStates /\ "ended" \in Labels /\ "error" \in Outcomes
    BY DEF UpdateStates, TaskStates, Labels, Outcomes
  <2>2. task \in [Tasks -> TaskStates] /\ seenTask \in [Tasks -> TaskStates]
    BY <2>1 DEF WaitOver
  <2>3. ClockOK /\ MemoryOK
    BY DEF WaitOver, ClockOK, MemoryOK
  <2>4. SwarmOK
    BY <2>1, <2>2 DEF WaitOver, SwarmOK
  <2>5. ControlOK
    BY <2>1 DEF WaitOver, ControlOK
  <2> QED
    BY <2>3, <2>4, <2>5 DEF TypeOK
<1>2. now = 0 /\ pc = "ended" /\ outcome = "error" /\ ~converged /\ ~quiet /\ ~unstable
  BY DEF WaitOver
<1>3. now <= Timeout + Monitor + Slack
  BY <1>2, WindowsAssumption
<1> QED
  BY <1>1, <1>2, <1>3 DEF MonitorInv, DecidesInWindow, InWindow, Waiting, SuccessIsStable,
     AlarmMeansChange, SeenIsCurrent, StillStable

LEMMA RestingTarget == \A w \in OneTarget : IsTarget(w)
<1> DEFINE w == [services |-> {1}, dependsOn |-> <<{}>>, releaseOnly |-> {},
                 command |-> "rollback", target |-> None]
<1>1. 1 \in Nat /\ {1} = 1..1 /\ <<{}>> \in [{1} -> SUBSET Nat]
  OBVIOUS
<1>2. IsTarget(w)
  BY <1>1 DEF IsTarget
<1> QED
  BY <1>2 DEF OneTarget

LEMMA StageInitially == StageInit => StageInv
<1> SUFFICES ASSUME StageInit
             PROVE  StageInv
  OBVIOUS
<1>1. MonitorInv
  BY MonitorInvInit, WaitOverInv DEF StageInit
<1>2. ASSUME stage = "environment"
      PROVE  EnvironmentInv /\ EnvBounds
  <2>1. EnvironmentInit(FileContents)
    BY <1>2 DEF StageInit
  <2> QED
    BY <2>1, EnvironmentAssumption, EnvironmentStarts, EnvBoundsInitially
<1>3. ASSUME stage # "environment"
      PROVE  envPhase = "idle" /\ EnvironmentTypeOK
  <2>1. EnvironmentInit(EmptyFiles)
    BY <1>3 DEF StageInit
  <2>2. EnvBounds
    BY <2>1, EnvBoundsInitially
  <2>3. envPhase = "idle" /\ envTodo = <<>>
    BY <2>1 DEF EnvironmentInit
  <2>4. <<>> \in Seq(ServiceItems)
    OBVIOUS
  <2> QED
    BY <2>2, <2>3, <2>4, EnvironmentAssumption DEF EnvironmentTypeOK, EnvBounds
<1>4. NamesInv
  BY NamesInitially DEF StageInit
<1>5. TargetsInv
  BY AllAreTargets, RestingTarget, TargetsStart DEF StageInit
<1>6. RenderingInv /\ RenderingTypeOK
  <2>1. \A file \in {Blank} : IsComposeFile(file)
    BY ComposeFilesTyped DEF ComposeFiles
  <2> QED
    BY <2>1, ComposeFilesTyped, RenderingInitially, RenderingTypesInitially DEF StageInit
<1>7. stage \in {"targets", "environment", "rendering", "wait", "names"}
  BY DEF StageInit
<1> QED
  BY <1>1, <1>2, <1>3, <1>4, <1>5, <1>6, <1>7 DEF StageInv

LEMMA StageStep ==
  ASSUME StageInv, [StageNext]_stageVars
  PROVE  StageInv'
<1>1. /\ UNCHANGED stage
      /\ [Next]_vars /\ [NamesNext]_namesVars /\ [TargetsNext]_targetVars /\ [RenderingNext]_renderVars
      /\ [EnvironmentNext]_envVars /\ (stage # "environment" => UNCHANGED envVars)
  BY DEF StageNext, stageVars
<1>2. MonitorInv'
  BY <1>1, MonitorInvStep DEF StageInv
<1>3. stage = "environment" => (EnvironmentInv /\ EnvBounds)'
  BY <1>1, EnvironmentStep, EnvBoundsStep DEF StageInv
<1>4. stage # "environment" => (envPhase = "idle" /\ EnvironmentTypeOK)'
  BY <1>1 DEF StageInv, envVars, EnvironmentTypeOK
<1>5. NamesInv'
  BY <1>1, NamesStep DEF StageInv
<1>6. TargetsInv'
  BY <1>1, TargetsStep DEF StageInv
<1>7. RenderingInv' /\ RenderingTypeOK'
  BY <1>1, RenderingStep, RenderingTypesStep DEF StageInv
<1> QED
  BY <1>1, <1>2, <1>3, <1>4, <1>5, <1>6, <1>7 DEF StageInv

\* The stages keep their invariants side by side.
THEOREM StageInvariant == StageSpec => []StageInv
  BY StageInitially, StageStep, PTL DEF StageSpec

\* Every stage of a deploy keeps the types of its state.
THEOREM StageTypes == StageSpec => []StageTypeOK
<1>1. StageInv => StageTypeOK
  <2> SUFFICES ASSUME StageInv
               PROVE  StageTypeOK
    OBVIOUS
  <2>1. EnvironmentTypeOK
    BY EnvInvTypes DEF StageInv, EnvironmentInv
  <2> QED
    BY <2>1, NamesInvTypes, TargetsInvTypes DEF StageInv, MonitorInv, StageTypeOK
<1> QED
  BY <1>1, StageInvariant, PTL

\* What the stages promise, in the specification that plays all of them: windows and
\* verdicts of the wait, the environment as written, stacks of names, order of the
\* services, and the route.
THEOREM StagesAreSafe ==
  StageSpec => [](/\ DecidesInWindow /\ SuccessIsStable /\ AlarmMeansChange
                  /\ EnvironmentAsWritten /\ NamesKeepTheirStacks
                  /\ DependenciesFirst /\ RouteReachesService)
<1>1. StageInv => /\ DecidesInWindow /\ SuccessIsStable /\ AlarmMeansChange
                  /\ EnvironmentAsWritten /\ NamesKeepTheirStacks
                  /\ DependenciesFirst /\ RouteReachesService
  <2> SUFFICES ASSUME StageInv
               PROVE  /\ DecidesInWindow /\ SuccessIsStable /\ AlarmMeansChange
                      /\ EnvironmentAsWritten /\ NamesKeepTheirStacks
                      /\ DependenciesFirst /\ RouteReachesService
    OBVIOUS
  <2>1. DecidesInWindow /\ SuccessIsStable /\ AlarmMeansChange /\ NamesKeepTheirStacks
    BY DEF StageInv, MonitorInv, NamesInv
  <2>2. EnvironmentAsWritten
    BY DEF StageInv, EnvironmentInv, EnvironmentAsWritten
  <2>3. DependenciesFirst /\ RouteReachesService
    BY TargetsInvImplies, RouteReaches DEF StageInv
  <2> QED
    BY <2>1, <2>2, <2>3
<1> QED
  BY <1>1, StageInvariant, PTL

\* No later answer undoes a loss in there either.
THEOREM StageLossIsFinal == StageSpec => LossIsFinal
<1>1. MonitorInv /\ pc = "decide" /\ converged /\ Churned(seenTask) => Doomed
  BY DEF MonitorInv, TypeOK, ControlOK, Doomed
<1>2. StageInv /\ Doomed /\ [StageNext]_stageVars => Doomed'
  <2>1. [StageNext]_stageVars => [Next]_vars
    BY DEF StageNext, stageVars
  <2> QED
    BY <2>1, DoomedStep DEF StageInv
<1>3. Doomed => outcome # "completed"
  BY DEF Doomed
<1>4. StageInv => MonitorInv
  BY DEF StageInv
<1> QED
  BY <1>1, <1>2, <1>3, <1>4, StageInvariant, PTL DEF StageSpec, LossIsFinal
=============================================================================
