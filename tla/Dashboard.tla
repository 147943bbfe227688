----------------------------- MODULE Dashboard -----------------------------
(***************************************************************************)
(* The tables of noops ui: services, and the tasks of the selected one.    *)
(* Source: internal/tui/ui.go, services.go, tasks.go.                      *)
(*                                                                         *)
(* Queries run in goroutines; everything else happens in closures that the *)
(* event loop runs one at a time, so a closure is one action.  The         *)
(* generation number is only ever compared with the latest one: a query    *)
(* remembers whether it still is the latest.                               *)
(***************************************************************************)
EXTENDS Integers, FiniteSets, FiniteSetsExt

CONSTANTS
  ServiceCount,      \* Swarm services are the numbers 1..ServiceCount, sorted by name
  MaxChanges,        \* bound: services appearing or disappearing
  MaxQueryFailures,  \* bound: Docker answers that are errors
  MaxPicks           \* bound: selections by the user

ASSUME DashboardAssumption ==
  /\ ServiceCount \in Nat /\ MaxChanges \in Nat
  /\ MaxQueryFailures \in Nat /\ MaxPicks \in Nat

ServiceNames == 1..ServiceCount
NoService    == 0
Failed       == "failed"

VARIABLES
  swarmServices,   \* what docker service ls prints
  rows,            \* the services table
  selected,        \* service whose tasks are wanted
  instancesOf,     \* service whose tasks the tasks table shows
  serviceBusy, taskBusy,
  serviceQuery,    \* none, asking, or the answer that waits for the event loop
  taskQueries,     \* in flight: the service, whether the latest, and the answer
  uiUp,            \* the event loop runs
  changes, queryFailures, picks

dashboardVars == <<swarmServices, rows, selected, instancesOf, serviceBusy, taskBusy,
                   serviceQuery, taskQueries, uiUp, changes, queryFailures, picks>>

Phase(p, found) == [phase |-> p, found |-> found]

TaskQueries == [service : ServiceNames, latest : BOOLEAN, answer : {"none", "tasks", Failed}]

DashboardInit ==
  /\ swarmServices \in SUBSET ServiceNames
  /\ rows = {} /\ selected = NoService /\ instancesOf = NoService
  /\ serviceBusy = FALSE /\ taskBusy = FALSE
  /\ serviceQuery = Phase("none", {}) /\ taskQueries = {}
  /\ uiUp \in BOOLEAN
  /\ changes \in 0..MaxChanges /\ queryFailures \in 0..MaxQueryFailures /\ picks \in 0..MaxPicks

-----------------------------------------------------------------------------
\* loadTasks: whatever is in flight is no longer the latest.
LoadTasks(service) ==
  /\ selected' = service
  /\ instancesOf' = IF selected # service THEN NoService ELSE instancesOf
  /\ taskBusy' = (service # NoService)
  /\ taskQueries' = {[q EXCEPT !.latest = FALSE] : q \in taskQueries} \cup
                    (IF service = NoService THEN {}
                     ELSE {[service |-> service, latest |-> TRUE, answer |-> "none"]})

\* refresh: at most one query of each kind.
Refresh ==
  /\ IF serviceBusy THEN UNCHANGED <<serviceBusy, serviceQuery>>
     ELSE serviceBusy' = TRUE /\ serviceQuery' = Phase("asking", {})
  /\ IF taskBusy \/ selected = NoService
       THEN UNCHANGED <<selected, instancesOf, taskBusy, taskQueries>>
       ELSE LoadTasks(selected)

\* Every five seconds, and when a command of the dashboard ends.
Tick ==
  /\ uiUp
  /\ Refresh
  /\ UNCHANGED <<swarmServices, rows, uiUp, changes, queryFailures, picks>>

\* Services: Docker is asked; the query has ten seconds.
ServiceAnswer ==
  /\ serviceQuery.phase = "asking"
  /\ serviceQuery' = Phase("answered", swarmServices)
  /\ UNCHANGED <<swarmServices, rows, selected, instancesOf, serviceBusy, taskBusy,
                 taskQueries, uiUp, changes, queryFailures, picks>>

ServiceAnswerFails ==
  /\ serviceQuery.phase = "asking"
  /\ queryFailures < MaxQueryFailures
  /\ queryFailures' = queryFailures + 1
  /\ serviceQuery' = Phase(Failed, {})
  /\ UNCHANGED <<swarmServices, rows, selected, instancesOf, serviceBusy, taskBusy,
                 taskQueries, uiUp, changes, picks>>

\* Mutant: the early return for an error leaves the query marked as running.
ShowServices_ErrorStaysBusy ==
  /\ uiUp
  /\ serviceQuery.phase \in {"answered", Failed}
  /\ serviceQuery' = Phase("none", {})
  /\ serviceBusy' = (serviceQuery.phase = Failed)
  /\ IF serviceQuery.phase = Failed
       THEN UNCHANGED <<rows, selected, instancesOf, taskBusy, taskQueries>>
       ELSE LET new == serviceQuery.found IN
            /\ rows' = new
            /\ IF new = {} THEN LoadTasks(NoService)
               ELSE IF selected \in new
                 THEN UNCHANGED <<selected, instancesOf, taskBusy, taskQueries>>
                 ELSE LoadTasks(Min(new))
  /\ UNCHANGED <<swarmServices, uiUp, changes, queryFailures, picks>>

\* The answer in the event loop: the selection stays on its service while that
\* has a row, else it moves to the first row.
ShowServices ==
  /\ uiUp
  /\ serviceQuery.phase \in {"answered", Failed}
  /\ serviceQuery' = Phase("none", {})
  /\ serviceBusy' = FALSE
  /\ IF serviceQuery.phase = Failed
       THEN UNCHANGED <<rows, selected, instancesOf, taskBusy, taskQueries>>
       ELSE LET new == serviceQuery.found IN
            /\ rows' = new
            /\ IF new = {} THEN LoadTasks(NoService)
               ELSE IF selected \in new
                 THEN UNCHANGED <<selected, instancesOf, taskBusy, taskQueries>>
                 ELSE LoadTasks(Min(new))
  /\ UNCHANGED <<swarmServices, uiUp, changes, queryFailures, picks>>

\* SetSelectionChangedFunc of the services table.
PickService(s) ==
  /\ uiUp
  /\ s \in rows /\ s # selected
  /\ picks < MaxPicks
  /\ picks' = picks + 1
  /\ LoadTasks(s)
  /\ UNCHANGED <<swarmServices, rows, serviceBusy, serviceQuery, uiUp, changes, queryFailures>>

\* Tasks: a query that is no longer the latest was cancelled and fails, unless
\* Docker was quicker; a service that is gone has no tasks to list.
TaskAnswer(q, answer) ==
  /\ q \in taskQueries /\ q.answer = "none"
  /\ answer = "tasks" => q.service \in swarmServices
  /\ \/ answer = "tasks" \/ q.service \notin swarmServices \/ ~q.latest
     \/ queryFailures < MaxQueryFailures
  /\ queryFailures' = IF answer = Failed /\ q.latest /\ q.service \in swarmServices
                        THEN queryFailures + 1 ELSE queryFailures
  /\ taskQueries' = (taskQueries \ {q}) \cup {[q EXCEPT !.answer = answer]}
  /\ UNCHANGED <<swarmServices, rows, selected, instancesOf, serviceBusy, taskBusy,
                 serviceQuery, uiUp, changes, picks>>

\* Mutant: any answer is shown.
ShowTasks_AnyGeneration(q) ==
  /\ uiUp
  /\ q \in taskQueries /\ q.answer # "none"
  /\ taskQueries' = taskQueries \ {q}
  /\ taskBusy' = FALSE
  /\ instancesOf' = IF q.answer = "tasks" THEN q.service ELSE instancesOf
  /\ UNCHANGED <<swarmServices, rows, selected, serviceBusy, serviceQuery, uiUp,
                 changes, queryFailures, picks>>

\* The answer in the event loop; one of an older generation is dropped.
ShowTasks(q) ==
  /\ uiUp
  /\ q \in taskQueries /\ q.answer # "none"
  /\ taskQueries' = taskQueries \ {q}
  /\ IF q.latest
       THEN /\ taskBusy' = FALSE
            /\ instancesOf' = IF q.answer = "tasks" THEN q.service ELSE instancesOf
       ELSE UNCHANGED <<taskBusy, instancesOf>>
  /\ UNCHANGED <<swarmServices, rows, selected, serviceBusy, serviceQuery, uiUp,
                 changes, queryFailures, picks>>

\* Someone deploys or removes.
SwarmChanges(s) ==
  /\ changes < MaxChanges
  /\ changes' = changes + 1
  /\ swarmServices' = IF s \in swarmServices THEN swarmServices \ {s} ELSE swarmServices \cup {s}
  /\ UNCHANGED <<rows, selected, instancesOf, serviceBusy, taskBusy, serviceQuery,
                 taskQueries, uiUp, queryFailures, picks>>

DashboardNext ==
  \/ Tick
  \/ ServiceAnswer \/ ServiceAnswerFails \/ ShowServices
  \/ \E q \in taskQueries : ShowTasks(q) \/ \E a \in {"tasks", Failed} : TaskAnswer(q, a)
  \/ \E s \in ServiceNames : PickService(s) \/ SwarmChanges(s)

\* The ticker runs, queries end within their timeout, and the event loop runs
\* the closures it is given; nothing depends on queries that are superseded.
DashboardFairness ==
  /\ WF_dashboardVars(Tick)
  /\ WF_dashboardVars(ServiceAnswer \/ ServiceAnswerFails)
  /\ WF_dashboardVars(ShowServices)
  /\ WF_dashboardVars(\E q \in taskQueries : q.latest /\ ShowTasks(q))
  /\ WF_dashboardVars(\E q \in taskQueries : q.latest /\ \E a \in {"tasks", Failed} : TaskAnswer(q, a))

DashboardSpec == DashboardInit /\ [][DashboardNext]_dashboardVars /\ DashboardFairness

-----------------------------------------------------------------------------
DashboardTypeOK ==
  /\ swarmServices \subseteq ServiceNames /\ rows \subseteq ServiceNames
  /\ {selected, instancesOf} \subseteq ServiceNames \cup {NoService}
  /\ {serviceBusy, taskBusy, uiUp} \subseteq BOOLEAN
  /\ serviceQuery \in [phase : {"none", "asking", "answered", Failed}, found : SUBSET ServiceNames]
  /\ taskQueries \subseteq TaskQueries
  /\ changes \in 0..MaxChanges /\ queryFailures \in 0..MaxQueryFailures /\ picks \in 0..MaxPicks

\* The tasks that are shown are those of the selected service, whatever order
\* the answers of overlapping queries come in.
TasksBelongToSelected == instancesOf \in {NoService, selected}

\* When services come and go no more, the tables show them, and the tasks of
\* the selected one, in the end: no lost, failed or superseded query stops the
\* refreshing.
DashboardCatchesUp ==
  <>[](uiUp => /\ rows = swarmServices
               /\ instancesOf = selected
               /\ selected # NoService => selected \in rows)
=============================================================================
