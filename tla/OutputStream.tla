---------------------------- MODULE OutputStream ----------------------------
(***************************************************************************)
(* A command run from noops ui: a child process whose output fills a       *)
(* bounded buffer, shown until the command ends or the user kills it.      *)
(* Source: internal/tui/output.go, streamCommand of internal/cli.          *)
(*                                                                         *)
(* The child is a noops process in a process group of its own; a Docker    *)
(* command it runs is in that group and holds the same output pipe.        *)
(***************************************************************************)
EXTENDS Dashboard, Sequences

CONSTANTS
  OutputLimit,  \* bytes of output kept (256 KiB)
  MaxChunk,     \* bound: bytes of one write
  MaxBytes,     \* bound: bytes a command writes
  MaxJobs       \* bound: commands started

ASSUME OutputAssumption ==
  /\ {OutputLimit, MaxChunk, MaxBytes} \subseteq Nat \ {0} /\ MaxJobs \in Nat

VARIABLES
  jobRunning,
  cancelled,    \* the command's context
  outputVisible, keepKilledOutput,
  buffer,       \* outputBuffer.data: every byte is its position in the output
  unshown,       \* the revision is not the one the ticker showed last
  shown,        \* the text of the output view
  child,        \* "none", "runs", "terminating" (has SIGTERM), "exited"
  descendant,   \* a process the child started lives and holds the pipe
  waitDelay,    \* "off", "counting", "over" (child killed, pipes closed)
  runDone,      \* command.Run has returned and the group is dealt with
  written,      \* bytes written so far
  jobs,
  \* bookkeeping for the properties, read by no action
  killed        \* the command was cancelled before Run returned

streamVars == <<jobRunning, cancelled, outputVisible, keepKilledOutput, buffer, unshown,
                shown, child, descendant, waitDelay, runDone, written, jobs, killed>>
outputVars == <<dashboardVars, streamVars>>

OutputInit ==
  /\ DashboardInit
  /\ jobRunning = FALSE /\ cancelled = FALSE
  /\ outputVisible = FALSE /\ keepKilledOutput = FALSE
  /\ buffer = <<>> /\ unshown = FALSE /\ shown = <<>>
  /\ child = "none" /\ descendant = FALSE /\ waitDelay = "off" /\ runDone = FALSE
  /\ written = 0 /\ jobs = 0 /\ killed = FALSE

\* The bytes from a to b of the output.
Bytes(a, b) == [i \in 1..(b - a + 1) |-> a + i - 1]

\* Mutant: the oldest bytes make room for what is there already.
BufferWrite_NoRoom(data, p) ==
  IF Len(p) >= OutputLimit THEN SubSeq(p, Len(p) - OutputLimit + 1, Len(p))
  ELSE LET excess == Len(data) - OutputLimit IN
       (IF excess > 0 THEN SubSeq(data, excess + 1, Len(data)) ELSE data) \o p

\* outputBuffer.Write.
BufferWrite(data, p) ==
  IF Len(p) >= OutputLimit THEN SubSeq(p, Len(p) - OutputLimit + 1, Len(p))
  ELSE LET excess == Len(data) + Len(p) - OutputLimit IN
       (IF excess > 0 THEN SubSeq(data, excess + 1, Len(data)) ELSE data) \o p

-----------------------------------------------------------------------------
\* startStream, once the command is confirmed; its text is the first line of
\* the buffer.
StartStream ==
  /\ uiUp /\ ~jobRunning
  /\ jobs < MaxJobs
  /\ jobs' = jobs + 1
  /\ jobRunning' = TRUE /\ cancelled' = FALSE
  /\ outputVisible' = TRUE /\ keepKilledOutput' = FALSE
  /\ buffer' = Bytes(1, 1) /\ written' = 1 /\ unshown' = TRUE /\ shown' = Bytes(1, 1)
  /\ child' = "runs" /\ descendant' = FALSE /\ waitDelay' = "off" /\ runDone' = FALSE
  /\ killed' = FALSE
  /\ UNCHANGED dashboardVars

\* Keys x and X: cancelStream, twice without harm.  The context asks the child
\* to end and starts the delay after which it is killed.
CancelStream(closeView) ==
  /\ uiUp /\ jobRunning
  /\ keepKilledOutput' = ~closeView
  /\ cancelled' = TRUE
  /\ outputVisible' = (outputVisible /\ ~closeView)
  /\ IF child = "runs" /\ ~cancelled
       THEN /\ child' = "terminating"
            /\ waitDelay' = "counting"
       ELSE UNCHANGED <<child, waitDelay>>
  /\ UNCHANGED <<dashboardVars, jobRunning, buffer, unshown, shown, descendant, runDone, written, jobs, killed>>

\* Key o.
ShowOutput ==
  /\ uiUp /\ jobs > 0
  /\ ~outputVisible
  /\ outputVisible' = TRUE
  /\ UNCHANGED <<dashboardVars, jobRunning, cancelled, keepKilledOutput, buffer, unshown,
                 shown, child, descendant, waitDelay, runDone, written, jobs, killed>>

\* Anyone holding the pipe writes to it.
ChildWrites(n) ==
  /\ child \in {"runs", "terminating"} \/ descendant
  /\ ~runDone /\ waitDelay # "over"
  /\ written + n <= MaxBytes
  /\ written' = written + n
  /\ buffer' = BufferWrite(buffer, Bytes(written + 1, written + n))
  /\ unshown' = TRUE
  /\ UNCHANGED <<dashboardVars, jobRunning, cancelled, outputVisible, keepKilledOutput,
                 shown, child, descendant, waitDelay, runDone, jobs, killed>>

\* A Docker command of the child, also the cleanup after SIGTERM; it may outlive
\* the child.
ChildSpawns ==
  /\ child \in {"runs", "terminating"} /\ ~descendant
  /\ descendant' = TRUE
  /\ UNCHANGED <<dashboardVars, jobRunning, cancelled, outputVisible, keepKilledOutput, buffer,
                 unshown, shown, child, waitDelay, runDone, written, jobs, killed>>

DescendantExits ==
  /\ descendant
  /\ descendant' = FALSE
  /\ UNCHANGED <<dashboardVars, jobRunning, cancelled, outputVisible, keepKilledOutput, buffer,
                 unshown, shown, child, waitDelay, runDone, written, jobs, killed>>

\* Run notices the end of the child: the delay counts from here, or from the
\* cancellation before.
ChildExits ==
  /\ child \in {"runs", "terminating"}
  /\ child' = "exited"
  /\ waitDelay' = IF waitDelay = "off" THEN "counting" ELSE waitDelay
  /\ UNCHANGED <<dashboardVars, jobRunning, cancelled, outputVisible, keepKilledOutput, buffer,
                 unshown, shown, descendant, runDone, written, jobs, killed>>

\* Mutant: no WaitDelay is set.
WaitDelayEnds_Never ==
  /\ FALSE
  /\ UNCHANGED outputVars

\* The thirty seconds are over: Run kills the child and closes the pipes.
WaitDelayEnds ==
  /\ waitDelay = "counting" /\ ~runDone
  /\ waitDelay' = "over"
  /\ child' = "exited"
  /\ UNCHANGED <<dashboardVars, jobRunning, cancelled, outputVisible, keepKilledOutput, buffer,
                 unshown, shown, descendant, runDone, written, jobs, killed>>

\* Mutant: the rest of the group is left alone.
StreamReturns_NoGroupKill ==
  /\ child = "exited" /\ ~runDone
  /\ ~descendant \/ waitDelay = "over"
  /\ runDone' = TRUE /\ killed' = cancelled
  /\ UNCHANGED <<dashboardVars, jobRunning, cancelled, outputVisible, keepKilledOutput, buffer,
                 unshown, shown, child, descendant, waitDelay, written, jobs>>

\* streamCommand: Run returns when the child is gone and the pipes are closed;
\* after a cancellation what is left of the group is killed.
StreamReturns ==
  /\ child = "exited" /\ ~runDone
  /\ ~descendant \/ waitDelay = "over"
  /\ runDone' = TRUE /\ killed' = cancelled
  /\ descendant' = (descendant /\ ~cancelled)
  /\ UNCHANGED <<dashboardVars, jobRunning, cancelled, outputVisible, keepKilledOutput, buffer,
                 unshown, shown, child, waitDelay, written, jobs>>

\* update(false), ten times a second; QueueUpdateDraw waits for the event loop.
UpdateOutput ==
  /\ uiUp /\ jobRunning /\ unshown
  /\ shown' = buffer /\ unshown' = FALSE
  /\ UNCHANGED <<dashboardVars, jobRunning, cancelled, outputVisible, keepKilledOutput, buffer,
                 child, descendant, waitDelay, runDone, written, jobs, killed>>

\* update(true): the view shows all of it, is closed unless the user asked to
\* keep it, and the tables are refreshed.
FinalUpdate ==
  /\ uiUp /\ jobRunning /\ runDone
  /\ shown' = buffer /\ unshown' = FALSE
  /\ jobRunning' = FALSE
  /\ outputVisible' = (outputVisible /\ keepKilledOutput)
  /\ Refresh
  /\ UNCHANGED <<swarmServices, rows, uiUp, changes, queryFailures, picks, cancelled,
                 keepKilledOutput, buffer, child, descendant, waitDelay, runDone, written, jobs, killed>>

\* Key q: the contexts are cancelled and the process exits; SIGTERM is sent or
\* not, depending on which of the two is first.  Nobody waits for the child.
Quit ==
  /\ uiUp
  /\ uiUp' = FALSE
  /\ cancelled' = (cancelled \/ jobRunning)
  /\ child' \in IF child = "runs" THEN {"runs", "terminating"} ELSE {child}
  /\ waitDelay' = "off"
  /\ runDone' = TRUE
  /\ UNCHANGED <<swarmServices, rows, selected, instancesOf, serviceBusy, taskBusy, serviceQuery,
                 taskQueries, changes, queryFailures, picks, jobRunning, outputVisible,
                 keepKilledOutput, buffer, unshown, shown, descendant, written, jobs, killed>>

StreamNext ==
  \/ StartStream \/ ShowOutput \/ \E closeView \in BOOLEAN : CancelStream(closeView)
  \/ \E n \in 1..MaxChunk : ChildWrites(n)
  \/ ChildSpawns \/ DescendantExits \/ ChildExits
  \/ WaitDelayEnds \/ StreamReturns
  \/ UpdateOutput \/ FinalUpdate
  \/ Quit

OutputNext ==
  \/ StreamNext
  \/ DashboardNext /\ UNCHANGED streamVars

\* The delay and Run are the operating system's and the runtime's; a child is
\* never obliged to end by itself.
StreamFairness ==
  /\ WF_outputVars(WaitDelayEnds)
  /\ WF_outputVars(StreamReturns)
  /\ WF_outputVars(FinalUpdate)

OutputFairness == StreamFairness /\ DashboardFairness

OutputSpec == OutputInit /\ [][OutputNext]_outputVars /\ OutputFairness

-----------------------------------------------------------------------------
OutputTypeOK ==
  /\ DashboardTypeOK
  /\ {jobRunning, cancelled, outputVisible, keepKilledOutput, unshown, descendant, runDone,
      killed} \subseteq BOOLEAN
  /\ buffer \in Seq(Nat) /\ shown \in Seq(Nat)
  /\ child \in {"none", "runs", "terminating", "exited"}
  /\ waitDelay \in {"off", "counting", "over"}
  /\ written \in 0..MaxBytes /\ jobs \in 0..MaxJobs

\* The buffer is the end of everything the command wrote, as much as fits, and
\* when the command has ended that is what the view shows.
OutputKeepsTail ==
  /\ buffer = Bytes(Max({1, written - OutputLimit + 1}), written)
  /\ ~jobRunning => shown = buffer

\* While the dashboard runs, a command that ended or was killed is over in the
\* end, even when the child ignores SIGTERM or leaves a process that keeps the
\* pipe open: the next command can start.
CancelledStreamEnds ==
  (jobRunning /\ (cancelled \/ child = "exited")) ~> (~jobRunning \/ ~uiUp)

\* When a killed command is reported as over, no process of its group is left
\* that could still change the Swarm.
KilledLeavesNoProcess ==
  (uiUp /\ killed /\ ~jobRunning) => child = "exited" /\ ~descendant
=============================================================================
