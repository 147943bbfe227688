--------------------------- MODULE RolloutMonitor ---------------------------
(***************************************************************************)
(* waitForSwarmConvergence: one process polls a service that Swarm is      *)
(* changing.  Each round asks for the update status, then for the task     *)
(* list, and decides later still, so the three see different moments.      *)
(* Two windows follow one another: the service has Timeout to converge,    *)
(* then Monitor to stay as it was.  Source: internal/deploy/runner.go.     *)
(*                                                                         *)
(* Time is a number of ticks since the call.  A call the process has made  *)
(* returns when its context ends and a sleeper wakes when its timer is up: *)
(* Tick does not pass either moment.                                       *)
(***************************************************************************)
EXTENDS Integers, FiniteSets

CONSTANTS
  Tasks,     \* task identifiers, each used once as in Swarm
  Desired,   \* desiredTasks
  Timeout,   \* rollout.convergence_timeout
  Monitor,   \* rollout.monitor
  Interval,  \* swarmObservationInterval
  Slack      \* the extra time of an observation that starts at a deadline

ASSUME WindowsAssumption ==
  /\ Timeout \in Nat
  /\ Monitor \in Nat
  /\ Interval \in Nat \ {0}
  /\ Slack \in Nat
  /\ Interval <= Slack

ASSUME DesiredAssumption == Desired \in Nat

\* States of the service update; "" is a service that was never updated.
UpdateStates == {"", "updating", "completed", "paused",
                 "rollback_started", "rollback_completed", "rollback_paused"}

\* "running" and "other" are Running tasks of the expected and of another
\* image; "leaving" is any task that neither runs nor has failed (shutting
\* down, complete); "down" stands for Failed, Rejected and Shutdown.
TaskStates == {"absent", "starting", "running", "other", "leaving", "down"}

Outcomes == {"completed", "rolled_back", "paused", "rollback_paused",
             "timed_out", "failed", "error"}

\* What the process is about to do: build a round's context, receive the
\* status, receive the task list, decide on it, wake up.
Labels == {"start", "status", "tasks", "decide", "sleep", "ended"}

VARIABLES
  \* Swarm
  now,
  update,    \* UpdateStatus.State
  specOK,    \* the service's spec names the expected image
  task,      \* task[t]: state of task t
  \* the call
  cancelled, \* its context is cancelled
  pc,        \* see Labels
  until,     \* when the running call's context ends, or the sleeper wakes
  seenUpdate, seenSpec, seenTask,  \* the last answers
  \* rolloutMonitorState and taskMonitor
  converged,
  monitorDeadline,
  unstable,
  initial,
  known,     \* taskMonitor.history
  outcome,
  \* bookkeeping for the properties, read by no action
  quiet,     \* Swarm has not moved since the status the window rests on
  faulted    \* a call failed

swarm  == <<update, specOK, task>>
seen   == <<seenUpdate, seenSpec, seenTask>>
memory == <<converged, monitorDeadline, unstable, initial, known>>
vars   == <<now, swarm, cancelled, pc, until, seen, memory, outcome, quiet, faulted>>

RunningIDs(tasks) == {t \in Tasks : tasks[t] = "running"}
Listed(tasks)     == {t \in Tasks : tasks[t] # "absent"}
FailedIDs(tasks)  == {t \in Tasks : tasks[t] = "down"}

SwarmConverged(state, spec, tasks) ==
  /\ state \in {"", "completed"}
  /\ spec
  /\ Cardinality(RunningIDs(tasks)) >= Desired

\* taskMonitor.observe: the answer differs from the baseline.
Churned(tasks) ==
  \/ RunningIDs(tasks) # initial
  \/ ~(FailedIDs(tasks) \subseteq known)

Deadline == IF converged THEN monitorDeadline ELSE Timeout

End(result) ==
  /\ outcome' = result
  /\ pc' = "ended"
  /\ UNCHANGED until

-----------------------------------------------------------------------------
(* Swarm *)

Successors(s) ==
  CASE s = "absent"   -> {"starting"}
    [] s = "starting" -> {"running", "leaving", "down"}
    [] s = "running"  -> {"leaving", "down"}
    [] s = "other"    -> {"leaving", "down"}
    [] s = "leaving"  -> {"down"}
    [] OTHER          -> {}

TaskMoves(t) ==
  /\ pc # "ended"
  /\ \E s \in Successors(task[t]) : task' = [task EXCEPT ![t] = s]
  /\ quiet' = FALSE
  /\ UNCHANGED <<now, update, specOK, cancelled, pc, until, seen, memory, outcome, faulted>>

UpdateMoves ==
  /\ pc # "ended"
  /\ \/ /\ update = "updating"
        /\ update' \in {"completed", "paused", "rollback_started"}
     \/ /\ update = "rollback_started"
        /\ update' \in {"rollback_completed", "rollback_paused"}
  /\ specOK' = (specOK /\ update' # "rollback_started")
  /\ quiet' = FALSE
  /\ UNCHANGED <<now, task, cancelled, pc, until, seen, memory, outcome, faulted>>

Tick ==
  /\ pc \in {"status", "tasks", "decide", "sleep"}
  /\ now < until
  /\ now' = now + 1
  /\ UNCHANGED <<swarm, cancelled, pc, until, seen, memory, outcome, quiet, faulted>>

Cancel ==
  /\ pc # "ended"
  /\ ~cancelled
  /\ cancelled' = TRUE
  /\ UNCHANGED <<now, swarm, pc, until, seen, memory, outcome, quiet, faulted>>

-----------------------------------------------------------------------------
(* The loop of waitForSwarmConvergence *)

\* Top of the loop: the context of both calls of the round.
Observe ==
  /\ pc = "start"
  /\ pc' = "status"
  /\ until' = IF Deadline + Slack > now THEN Deadline + Slack ELSE now
  /\ UNCHANGED <<now, swarm, cancelled, seen, memory, outcome, quiet, faulted>>

Verdict(state) ==
  CASE state = "rollback_completed" -> "rolled_back"
    [] state = "paused"             -> "paused"
    [] state = "rollback_paused"    -> "rollback_paused"
    [] OTHER                        -> "none"

\* The daemon answers with the update status.
ReadStatus ==
  /\ pc = "status"
  /\ seenUpdate' = update
  /\ seenSpec' = specOK
  /\ IF Verdict(update) # "none"
       THEN End(Verdict(update))
       ELSE /\ pc' = "tasks"
            /\ UNCHANGED <<until, outcome>>
  /\ quiet' = (quiet \/ ~converged)
  /\ UNCHANGED <<now, swarm, cancelled, seenTask, memory, faulted>>

\* The daemon answers with the task list; the process sees it in Decide.
ReadTasks ==
  /\ pc = "tasks"
  /\ seenTask' = task
  /\ pc' = "decide"
  /\ UNCHANGED <<now, swarm, cancelled, until, seenUpdate, seenSpec, memory, outcome, quiet, faulted>>

\* Mutant: the task list is asked for without the round's context.
CallFails_NoContext ==
  /\ pc = "status" \/ (pc \in {"tasks", "decide"} /\ cancelled)
  /\ End(IF ~cancelled /\ now >= Deadline THEN "timed_out" ELSE "error")
  /\ faulted' = TRUE
  /\ UNCHANGED <<now, swarm, cancelled, seen, memory, quiet>>

\* A call returns an error: Docker failed, or its context ended.
CallFails ==
  /\ pc \in {"status", "tasks", "decide"}
  /\ End(IF ~cancelled /\ now >= Deadline THEN "timed_out" ELSE "error")
  /\ faulted' = TRUE
  /\ UNCHANGED <<now, swarm, cancelled, seen, memory, quiet>>

Sleep ==
  /\ pc' = "sleep"
  /\ until' = now + Interval
  /\ UNCHANGED outcome

\* Mutant: the history holds only the tasks of the baseline.
DecideConvergence_NoHistory ==
  LET ok == SwarmConverged(seenUpdate, seenSpec, seenTask) IN
  /\ pc = "decide"
  /\ ~converged
  /\ IF now >= Timeout
       THEN /\ End("timed_out")
            /\ UNCHANGED memory
       ELSE /\ converged' = ok
            /\ IF ok
                 THEN /\ monitorDeadline' = now + Monitor
                      /\ initial' = RunningIDs(seenTask)
                      /\ known' = RunningIDs(seenTask)
                 ELSE UNCHANGED <<monitorDeadline, initial, known>>
            /\ IF ok /\ Monitor = 0 THEN End("completed") ELSE Sleep
            /\ UNCHANGED unstable
  /\ UNCHANGED <<now, swarm, cancelled, seen, quiet, faulted>>

\* rolloutMonitorState.observe before the service first converged.
DecideConvergence ==
  LET ok == SwarmConverged(seenUpdate, seenSpec, seenTask) IN
  /\ pc = "decide"
  /\ ~converged
  /\ IF now >= Timeout
       THEN /\ End("timed_out")
            /\ UNCHANGED memory
       ELSE /\ converged' = ok
            /\ IF ok
                 THEN /\ monitorDeadline' = now + Monitor
                      /\ initial' = RunningIDs(seenTask)
                      /\ known' = Listed(seenTask)
                 ELSE UNCHANGED <<monitorDeadline, initial, known>>
            /\ IF ok /\ Monitor = 0 THEN End("completed") ELSE Sleep
            /\ UNCHANGED unstable
  /\ UNCHANGED <<now, swarm, cancelled, seen, quiet, faulted>>

\* Mutant: the window starts again when the tasks change.
DecideMonitor_Restarts ==
  /\ pc = "decide"
  /\ converged
  /\ UNCHANGED unstable
  /\ IF Churned(seenTask)
       THEN /\ monitorDeadline' = now + Monitor
            /\ initial' = RunningIDs(seenTask)
            /\ Sleep
       ELSE /\ UNCHANGED <<monitorDeadline, initial>>
            /\ IF now >= monitorDeadline THEN End("completed") ELSE Sleep
  /\ UNCHANGED <<now, swarm, cancelled, seen, converged, known, quiet, faulted>>

\* Mutant: only the last answer of the window counts.
DecideMonitor_LastOnly ==
  /\ pc = "decide"
  /\ converged
  /\ unstable' = (Churned(seenTask) \/ ~SwarmConverged(seenUpdate, seenSpec, seenTask))
  /\ IF now >= monitorDeadline
       THEN End(IF unstable' THEN "failed" ELSE "completed")
       ELSE Sleep
  /\ UNCHANGED <<now, swarm, cancelled, seen, converged, monitorDeadline, initial, known, quiet, faulted>>

\* Mutant: counts the running tasks and does not look at which they are.
DecideMonitor_CountsOnly ==
  /\ pc = "decide"
  /\ converged
  /\ unstable' = (unstable \/ ~SwarmConverged(seenUpdate, seenSpec, seenTask))
  /\ IF now >= monitorDeadline
       THEN End(IF unstable' THEN "failed" ELSE "completed")
       ELSE Sleep
  /\ UNCHANGED <<now, swarm, cancelled, seen, converged, monitorDeadline, initial, known, quiet, faulted>>

\* taskMonitor.observe, then rolloutMonitorState.observe inside the window.
DecideMonitor ==
  /\ pc = "decide"
  /\ converged
  /\ unstable' = (unstable \/ Churned(seenTask)
                    \/ ~SwarmConverged(seenUpdate, seenSpec, seenTask))
  /\ IF now >= monitorDeadline
       THEN End(IF unstable' THEN "failed" ELSE "completed")
       ELSE Sleep
  /\ UNCHANGED <<now, swarm, cancelled, seen, converged, monitorDeadline, initial, known, quiet, faulted>>

\* Mutant: the cancelled wait returns no error.
Wake_NoError ==
  /\ pc = "sleep"
  /\ pc' = IF cancelled THEN "ended" ELSE "start"
  /\ cancelled \/ now >= until
  /\ UNCHANGED <<now, swarm, cancelled, until, seen, memory, outcome, quiet, faulted>>

\* The select: the timer is up, or the context is cancelled.
Wake ==
  /\ pc = "sleep"
  /\ \/ /\ now >= until
        /\ pc' = "start"
        /\ UNCHANGED <<until, outcome>>
     \/ /\ cancelled
        /\ End("error")
  /\ UNCHANGED <<now, swarm, cancelled, seen, memory, quiet, faulted>>

-----------------------------------------------------------------------------

Init ==
  /\ now = 0
  /\ update \in {"", "updating"}
  /\ specOK = TRUE
  /\ task \in [Tasks -> {"absent", "other", "down"}]
  /\ update = "" => \A t \in Tasks : task[t] # "other"
  /\ cancelled = FALSE
  /\ pc = "start"
  /\ until = 0
  /\ seenUpdate = "" /\ seenSpec = FALSE
  /\ seenTask = [t \in Tasks |-> "absent"]
  /\ converged = FALSE
  /\ monitorDeadline = 0
  /\ unstable = FALSE
  /\ initial = {} /\ known = {}
  /\ outcome = "none"
  /\ quiet = FALSE
  /\ faulted = FALSE

Loop == \/ Observe \/ ReadStatus \/ ReadTasks \/ CallFails
        \/ DecideConvergence \/ DecideMonitor \/ Wake

Next == \/ Loop \/ Tick \/ Cancel \/ UpdateMoves
        \/ \E t \in Tasks : TaskMoves(t)

Spec == Init /\ [][Next]_vars

\* Docker may never answer; only the process's own timers are sure to fire.
WaitFairness ==
  /\ WF_vars(Tick)
  /\ WF_vars(Observe)
  /\ WF_vars(Wake)
  /\ WF_vars(CallFails /\ now >= until)

FairSpec == Spec /\ WaitFairness

-----------------------------------------------------------------------------
(* Properties *)

ClockOK == now \in Nat /\ until \in Nat /\ monitorDeadline \in Nat

SwarmOK ==
  /\ update \in UpdateStates /\ seenUpdate \in UpdateStates
  /\ specOK \in BOOLEAN /\ seenSpec \in BOOLEAN
  /\ task \in [Tasks -> TaskStates] /\ seenTask \in [Tasks -> TaskStates]

MemoryOK ==
  /\ initial \subseteq Tasks /\ known \subseteq Tasks
  /\ cancelled \in BOOLEAN /\ converged \in BOOLEAN /\ unstable \in BOOLEAN
  /\ quiet \in BOOLEAN /\ faulted \in BOOLEAN

\* The wait has ended exactly when it has an outcome.
ControlOK ==
  /\ pc \in Labels
  /\ outcome \in Outcomes \cup {"none"}
  /\ (pc = "ended") <=> (outcome # "none")

TypeOK == ClockOK /\ SwarmOK /\ MemoryOK /\ ControlOK

\* The two windows are consecutive: the wait, its last observation included, is
\* over Slack after both of them, and neither a failure nor a success is
\* declared before the window that decides it has passed.
DecidesInWindow ==
  /\ now <= Timeout + Monitor + Slack
  /\ outcome \in {"timed_out", "failed", "completed"} => now >= Deadline
  /\ converged => monitorDeadline \in Monitor..(Timeout + Monitor - 1)

\* A completed rollout ran Desired tasks of the expected image for the whole
\* window: the tasks of the first converged answer, all of which still run in
\* the last one, under a spec that was not rolled back, and no later task
\* failed.  Task identifiers are not used twice, so no restart in between can
\* have been missed.
SuccessIsStable ==
  outcome = "completed" =>
    /\ SwarmConverged(seenUpdate, seenSpec, seenTask)
    /\ RunningIDs(seenTask) = initial
    /\ FailedIDs(seenTask) \subseteq known

\* Once an answer inside the window differs from the baseline, the rollout is
\* never completed, even if Swarm restores the desired count.
LossIsFinal ==
  [](pc = "decide" /\ converged /\ Churned(seenTask) => [](outcome # "completed"))

\* A service that has converged and that Swarm leaves alone afterwards, whatever
\* failed before, is not reported as failed; nor as timed out, unless a call
\* failed.
AlarmMeansChange ==
  /\ outcome = "failed" => ~quiet
  /\ outcome = "timed_out" /\ converged => faulted

\* The wait ends even when Docker does not answer: calls have a deadline and
\* timers fire.
WaitEnds == <>(pc = "ended")

-----------------------------------------------------------------------------
(* The inductive invariant behind the safety properties *)

Waiting == pc \in {"status", "tasks", "decide"}

\* A round starts less than an interval after a moment inside the window, and
\* its calls return at most Slack after the window.
InWindow ==
  /\ pc \in {"start", "sleep"} => now < Deadline + Interval
  /\ pc = "sleep" => now <= until /\ until < Deadline + Interval
  /\ Waiting => now <= until /\ until <= Deadline + Slack

\* The answers of a round are those of the moment as long as Swarm is quiet.
SeenIsCurrent ==
  /\ quiet /\ pc \in {"tasks", "decide"} => seenUpdate = update /\ seenSpec = specOK
  /\ quiet /\ pc = "decide" => seenTask = task

\* A quiet service still is as it was when the window began.
StillStable ==
  /\ unstable => converged
  /\ quiet /\ converged =>
       /\ ~unstable
       /\ SwarmConverged(update, specOK, task)
       /\ RunningIDs(task) = initial
       /\ FailedIDs(task) \subseteq known

MonitorInv ==
  /\ TypeOK
  /\ DecidesInWindow
  /\ SuccessIsStable
  /\ AlarmMeansChange
  /\ InWindow
  /\ SeenIsCurrent
  /\ StillStable
=============================================================================
