-------------------------- MODULE DashboardProofs --------------------------
(***************************************************************************)
(* Proofs about Dashboard and OutputStream for any number of services,     *)
(* queries, failures and selections, any buffer, and any number of         *)
(* commands, writes and processes that a command leaves behind.            *)
(***************************************************************************)
EXTENDS OutputStream, SequenceTheorems, WellFoundedInduction, TLAPS

Query(s, l, a) == [service |-> s, latest |-> l, answer |-> a]

\* The query that may still be shown is about the selected service.
LatestIsOfSelected ==
  \A q \in taskQueries :
    /\ q = Query(q.service, q.latest, q.answer) /\ q.latest \in BOOLEAN
    /\ q.latest => q.service = selected

DashboardInv == LatestIsOfSelected /\ TasksBelongToSelected

\* Selecting a service, or asking again for the tasks of the selected one.
LEMMA LoadTasksKeeps ==
  ASSUME DashboardInv, NEW s, LoadTasks(s)
  PROVE  DashboardInv'
<1> USE DEF DashboardInv, LatestIsOfSelected, TasksBelongToSelected, LoadTasks
<1>1. TasksBelongToSelected'
  OBVIOUS
<1>2. ASSUME NEW q \in taskQueries'
      PROVE  /\ q = Query(q.service, q.latest, q.answer) /\ q.latest \in BOOLEAN
             /\ q.latest => q.service = selected'
  <2>1. CASE \E r \in taskQueries : q = [r EXCEPT !.latest = FALSE]
    <3>1. PICK r \in taskQueries : q = [r EXCEPT !.latest = FALSE]
      BY <2>1
    <3>2. r = Query(r.service, r.latest, r.answer)
      OBVIOUS
    <3> QED
      BY <3>1, <3>2 DEF Query
  <2>2. CASE q = Query(s, TRUE, "none")
    BY <2>2 DEF Query
  <2> QED
    BY <1>2, <2>1, <2>2 DEF Query
<1> QED
  BY <1>1, <1>2

\* The ticker, and the final update of a command, ask only what is not asked.
LEMMA RefreshKeeps ==
  ASSUME DashboardInv, Refresh
  PROVE  DashboardInv'
<1>1. CASE UNCHANGED <<selected, instancesOf, taskBusy, taskQueries>>
  BY <1>1 DEF DashboardInv, LatestIsOfSelected, TasksBelongToSelected
<1>2. CASE LoadTasks(selected)
  BY <1>2, LoadTasksKeeps
<1> QED
  BY <1>1, <1>2 DEF Refresh

\* No closure of the event loop and no answer breaks the two parts.
LEMMA DashboardStep ==
  ASSUME DashboardInv, [DashboardNext]_dashboardVars
  PROVE  DashboardInv'
<1> DEFINE Still == UNCHANGED <<selected, instancesOf, taskQueries>>
<1>0. Still => DashboardInv'
  BY DEF DashboardInv, LatestIsOfSelected, TasksBelongToSelected
<1>1. CASE Tick
  BY <1>1, RefreshKeeps DEF Tick
<1>2. CASE ServiceAnswer \/ ServiceAnswerFails
  BY <1>0, <1>2 DEF ServiceAnswer, ServiceAnswerFails
<1>3. CASE ShowServices
  <2>1. Still \/ \E s : LoadTasks(s)
    BY <1>3 DEF ShowServices
  <2> QED
    BY <1>0, <2>1, LoadTasksKeeps
<1>4. ASSUME NEW q \in taskQueries, ShowTasks(q)
      PROVE  DashboardInv'
  <2>1. taskQueries' \subseteq taskQueries /\ selected' = selected
    BY <1>4 DEF ShowTasks
  <2>2. LatestIsOfSelected'
    BY <2>1 DEF DashboardInv, LatestIsOfSelected
  <2>3. instancesOf' = instancesOf \/ (q.latest /\ instancesOf' = q.service)
    BY <1>4 DEF ShowTasks
  <2> QED
    BY <2>1, <2>2, <2>3 DEF DashboardInv, LatestIsOfSelected, TasksBelongToSelected
<1>5. ASSUME NEW q \in taskQueries, NEW a, TaskAnswer(q, a)
      PROVE  DashboardInv'
  <2> DEFINE r == [q EXCEPT !.answer = a]
  <2>1. taskQueries' = (taskQueries \ {q}) \cup {r} /\ UNCHANGED <<selected, instancesOf>>
    BY <1>5 DEF TaskAnswer
  <2>2. r = Query(q.service, q.latest, a)
    BY DEF DashboardInv, LatestIsOfSelected, Query
  <2>3. /\ r = Query(r.service, r.latest, r.answer) /\ r.latest \in BOOLEAN
        /\ r.latest => r.service = selected
    BY <2>2 DEF DashboardInv, LatestIsOfSelected, Query
  <2> HIDE DEF r
  <2> QED
    BY <2>1, <2>3 DEF DashboardInv, LatestIsOfSelected, TasksBelongToSelected
<1>6. ASSUME NEW s \in ServiceNames, PickService(s)
      PROVE  DashboardInv'
  BY <1>6, LoadTasksKeeps DEF PickService
<1>7. ASSUME NEW s \in ServiceNames, SwarmChanges(s)
      PROVE  DashboardInv'
  BY <1>0, <1>7 DEF SwarmChanges
<1>8. CASE UNCHANGED dashboardVars
  BY <1>0, <1>8 DEF dashboardVars
<1> QED
  BY <1>1, <1>2, <1>3, <1>4, <1>5, <1>6, <1>7, <1>8 DEF DashboardNext

\* The tasks shown are those of the selected service, in every order of answers.
THEOREM ShownTasksAreSelected == DashboardSpec => []TasksBelongToSelected
<1>1. DashboardInit => DashboardInv
  BY DEF DashboardInit, DashboardInv, LatestIsOfSelected, TasksBelongToSelected
<1>2. DashboardInv /\ [DashboardNext]_dashboardVars => DashboardInv'
  BY DashboardStep
<1>3. DashboardInv => TasksBelongToSelected
  BY DEF DashboardInv
<1> QED
  BY <1>1, <1>2, <1>3, PTL DEF DashboardSpec

-----------------------------------------------------------------------------
(* The output of a command.                                                *)

\* What the buffer keeps of w bytes.
Kept(w) == Bytes(Max({1, w - OutputLimit + 1}), w)

\* The first byte that is kept.
First(w) == IF w < OutputLimit THEN 1 ELSE w - OutputLimit + 1

\* The bytes of an output as a sequence.
LEMMA BytesSequence ==
  ASSUME NEW a \in Nat, NEW b \in Nat, a <= b + 1
  PROVE  /\ Bytes(a, b) \in Seq(Int)
         /\ Len(Bytes(a, b)) = b - a + 1
         /\ \A i \in 1..(b - a + 1) : Bytes(a, b)[i] = a + i - 1
<1>1. b - a + 1 \in Nat
  OBVIOUS
<1>2. Bytes(a, b) \in [1..(b - a + 1) -> Int]
  BY DEF Bytes
<1>3. Bytes(a, b) \in Seq(Int)
  BY <1>1, <1>2
<1>4. Len(Bytes(a, b)) = b - a + 1
  BY <1>1, <1>2, <1>3
<1> QED
  BY <1>3, <1>4 DEF Bytes

\* The end of some bytes.
LEMMA BytesEnd ==
  ASSUME NEW a \in Nat, NEW b \in Nat, NEW m \in Nat \ {0}, a + m <= b + 2
  PROVE  SubSeq(Bytes(a, b), m, b - a + 1) = Bytes(a + m - 1, b)
<1>0. a <= b + 1
  OBVIOUS
<1>1. /\ Bytes(a, b) \in Seq(Int) /\ Len(Bytes(a, b)) = b - a + 1
      /\ \A i \in 1..(b - a + 1) : Bytes(a, b)[i] = a + i - 1
  BY <1>0, BytesSequence
<1>2. a + m - 1 \in Nat /\ a + m - 1 <= b + 1
  OBVIOUS
<1>3. /\ Bytes(a + m - 1, b) \in Seq(Int) /\ Len(Bytes(a + m - 1, b)) = b - (a + m - 1) + 1
      /\ \A i \in 1..(b - (a + m - 1) + 1) : Bytes(a + m - 1, b)[i] = (a + m - 1) + i - 1
  BY <1>2, BytesSequence
<1> DEFINE s == SubSeq(Bytes(a, b), m, b - a + 1)
           t == Bytes(a + m - 1, b)
           n == b - a + 1 - m + 1
<1>4. s \in Seq(Int) /\ Len(s) = n /\ \A i \in 1..n : s[i] = Bytes(a, b)[m + i - 1]
  <2>1. \A i \in m..(b - a + 1) : i \in 1..Len(Bytes(a, b)) /\ Bytes(a, b)[i] \in Int
    BY <1>1
  <2>2. s = [i \in 1..n |-> Bytes(a, b)[m + i - 1]]
    BY <1>1
  <2>3. n \in Nat /\ \A i \in 1..n : m + i - 1 \in m..(b - a + 1)
    OBVIOUS
  <2>4. s \in [1..n -> Int]
    BY <2>1, <2>2, <2>3
  <2> HIDE DEF s, n
  <2>5. s \in Seq(Int) /\ Len(s) = n
    BY <2>3, <2>4
  <2> QED
    BY <2>2, <2>5
<1>5. \A i \in 1..n : s[i] = t[i]
  <2> SUFFICES ASSUME NEW i \in 1..n PROVE s[i] = t[i]
    OBVIOUS
  <2>1. m + i - 1 \in 1..(b - a + 1) /\ i \in 1..(b - (a + m - 1) + 1)
    OBVIOUS
  <2> QED
    BY <1>1, <1>3, <1>4, <2>1
<1>6. Len(s) = Len(t) /\ s \in Seq(Int) /\ t \in Seq(Int) /\ Len(s) = n
  BY <1>3, <1>4
<1> HIDE DEF s, t, n
<1>7. s = t
  BY <1>5, <1>6, SeqEqual
<1> QED
  BY <1>7 DEF s, t

\* Bytes that follow on bytes.
LEMMA BytesFollow ==
  ASSUME NEW a \in Nat, NEW b \in Nat, NEW c \in Nat, a <= b + 1, b <= c
  PROVE  Bytes(a, b) \o Bytes(b + 1, c) = Bytes(a, c)
<1> DEFINE r == Bytes(a, b)
           s == Bytes(b + 1, c)
           t == Bytes(a, c)
<1>1. r \in Seq(Int) /\ Len(r) = b - a + 1 /\ \A i \in 1..(b - a + 1) : r[i] = a + i - 1
  BY BytesSequence
<1>2. s \in Seq(Int) /\ Len(s) = c - b /\ \A i \in 1..(c - b) : s[i] = b + i
  <2>1. b + 1 \in Nat /\ b + 1 <= c + 1 /\ c - (b + 1) + 1 = c - b
    OBVIOUS
  <2>2. s \in Seq(Int) /\ Len(s) = c - (b + 1) + 1 /\ \A i \in 1..(c - (b + 1) + 1) : s[i] = (b + 1) + i - 1
    BY <2>1, BytesSequence
  <2> QED
    BY <2>2
<1>3. t \in Seq(Int) /\ Len(t) = c - a + 1 /\ \A i \in 1..(c - a + 1) : t[i] = a + i - 1
  <2>1. a <= c + 1
    OBVIOUS
  <2> QED
    BY <2>1, BytesSequence
<1> HIDE DEF r, s, t
<1>4. /\ r \o s \in Seq(Int) /\ Len(r \o s) = Len(r) + Len(s)
      /\ \A i \in 1..Len(r) + Len(s) : (r \o s)[i] = IF i <= Len(r) THEN r[i] ELSE s[i - Len(r)]
  BY <1>1, <1>2, ConcatProperties
<1>5. \A i \in 1..Len(t) : (r \o s)[i] = t[i]
  <2> SUFFICES ASSUME NEW i \in 1..Len(t) PROVE (r \o s)[i] = t[i]
    OBVIOUS
  <2>1. (r \o s)[i] = IF i <= Len(r) THEN r[i] ELSE s[i - Len(r)]
    <3>1. Len(r) + Len(s) = Len(t) /\ i \in 1..Len(r) + Len(s)
      BY <1>1, <1>2, <1>3
    <3> QED
      BY <1>4, <3>1
  <2>2. CASE i <= Len(r)
    <3>1. i \in 1..(b - a + 1) /\ i \in 1..(c - a + 1)
      BY <1>1, <1>3, <2>2
    <3> QED
      BY <1>1, <1>3, <2>1, <2>2, <3>1
  <2>3. CASE ~(i <= Len(r))
    <3>1. i - Len(r) \in 1..(c - b)
      BY <1>1, <1>3, <2>3
    <3> QED
      BY <1>1, <1>2, <1>3, <2>1, <2>3, <3>1
  <2> QED
    BY <2>2, <2>3
<1>6. Len(r \o s) = Len(t)
  BY <1>1, <1>2, <1>3, <1>4
<1>7. r \o s = t
  BY <1>3, <1>4, <1>5, <1>6, SeqEqual
<1> QED
  BY <1>7 DEF r, s, t

\* What is kept begins at the first byte that fits.
LEMMA KeptFrom ==
  ASSUME NEW w \in Nat
  PROVE  /\ Kept(w) = Bytes(First(w), w)
         /\ First(w) \in Nat /\ First(w) <= w + 1
<1>1. OutputLimit \in Nat \ {0}
  BY OutputAssumption
<1>2. ASSUME NEW a \in Int, NEW b \in Int, a <= b
      PROVE  Max({a, b}) = b
  <2> DEFINE P(x) == x \in {a, b} /\ \A y \in {a, b} : x >= y
  <2>1. P(b)
    BY <1>2
  <2>2. Max({a, b}) \in {a, b} /\ \A y \in {a, b} : Max({a, b}) >= y
    BY <2>1 DEF Max
  <2> QED
    BY <1>2, <2>2
<1>3. Max({1, w - OutputLimit + 1}) = First(w)
  <2>1. CASE w < OutputLimit
    <3>1. w - OutputLimit + 1 <= 1 /\ {1, w - OutputLimit + 1} = {w - OutputLimit + 1, 1}
      BY <1>1, <2>1
    <3>2. w - OutputLimit + 1 \in Int
      BY <1>1
    <3> QED
      BY <1>2, <2>1, <3>1, <3>2 DEF First
  <2>2. CASE w >= OutputLimit
    BY <1>1, <1>2, <2>2 DEF First
  <2> QED
    BY <1>1, <2>1, <2>2
<1> QED
  BY <1>1, <1>3 DEF Kept, First

\* A write, of whatever size, leaves the end of all that has been written.
LEMMA WriteKeepsEnd ==
  ASSUME NEW w \in Nat, NEW n \in Nat \ {0}
  PROVE  BufferWrite(Kept(w), Bytes(w + 1, w + n)) = Kept(w + n)
<1> DEFINE p == Bytes(w + 1, w + n)
           f == First(w)
           g == First(w + n)
<1>1. OutputLimit \in Nat \ {0}
  BY OutputAssumption
<1>2. /\ Kept(w) = Bytes(f, w) /\ f \in Nat /\ f <= w + 1
      /\ Kept(w + n) = Bytes(g, w + n) /\ g \in Nat /\ g <= w + n + 1
  BY KeptFrom
<1>3. Len(p) = n
  <2>1. w + 1 \in Nat /\ w + n \in Nat /\ (w + n) - (w + 1) + 1 = n
    OBVIOUS
  <2> QED
    BY <2>1, BytesSequence
<1>4. Len(Kept(w)) = w - f + 1
  BY <1>2, BytesSequence
<1>5. CASE n >= OutputLimit
  <2>1. SubSeq(p, n - OutputLimit + 1, n) = Bytes(w + n - OutputLimit + 1, w + n)
    <3> DEFINE m == n - OutputLimit + 1
    <3>1. m \in Nat \ {0} /\ (w + 1) + m <= (w + n) + 2
      BY <1>1, <1>5
    <3>2. w + 1 \in Nat /\ w + n \in Nat /\ (w + n) - (w + 1) + 1 = n
          /\ (w + 1) + m - 1 = w + n - OutputLimit + 1
      BY <1>1
    <3> HIDE DEF m
    <3>3. SubSeq(Bytes(w + 1, w + n), m, (w + n) - (w + 1) + 1) = Bytes((w + 1) + m - 1, w + n)
      BY <3>1, <3>2, BytesEnd
    <3> QED
      BY <3>2, <3>3 DEF m
  <2>2. g = w + n - OutputLimit + 1
    BY <1>1, <1>5 DEF First
  <2> HIDE DEF p, g
  <2>3. BufferWrite(Kept(w), p) = SubSeq(p, n - OutputLimit + 1, n)
    BY <1>3, <1>5 DEF BufferWrite
  <2> QED
    BY <1>2, <2>1, <2>2, <2>3 DEF p
<1>6. CASE n < OutputLimit
  <2> DEFINE excess == (w - f + 1) + n - OutputLimit
  <2>1. BufferWrite(Kept(w), p)
          = (IF excess > 0 THEN SubSeq(Kept(w), excess + 1, w - f + 1) ELSE Kept(w)) \o p
    <3>1. ~(Len(p) >= OutputLimit)
      BY <1>1, <1>3, <1>6
    <3>2. Len(Kept(w)) + Len(p) - OutputLimit = excess /\ Len(Kept(w)) = w - f + 1
      BY <1>3, <1>4
    <3> HIDE DEF p, f, excess
    <3> QED
      BY <3>1, <3>2 DEF BufferWrite
  <2>2. CASE excess > 0
    <3>1. excess + 1 \in Nat \ {0} /\ f + (excess + 1) <= w + 2 /\ f + (excess + 1) - 1 = g
      BY <1>1, <1>6, <2>2 DEF First
    <3> HIDE DEF f, g, excess, p
    <3>2. SubSeq(Bytes(f, w), excess + 1, w - f + 1) = Bytes(f + (excess + 1) - 1, w)
      BY <1>2, <3>1, BytesEnd
    <3>3. BufferWrite(Kept(w), p) = Bytes(g, w) \o p
      BY <1>2, <2>1, <2>2, <3>1, <3>2
    <3>4. g <= w + 1
      BY <1>1, <1>6 DEF g, First
    <3>5. Bytes(g, w) \o Bytes(w + 1, w + n) = Bytes(g, w + n)
      <4>1. w + n \in Nat /\ w <= w + n
        OBVIOUS
      <4> QED
        BY <1>2, <3>4, <4>1, BytesFollow
    <3> QED
      BY <1>2, <3>3, <3>5 DEF p
  <2>3. CASE ~(excess > 0)
    <3>1. g = f
      BY <1>1, <1>6, <2>3 DEF First
    <3> HIDE DEF f, g, excess, p
    <3>2. BufferWrite(Kept(w), p) = Bytes(f, w) \o p
      BY <1>2, <2>1, <2>3
    <3>3. Bytes(f, w) \o Bytes(w + 1, w + n) = Bytes(f, w + n)
      <4>1. w + n \in Nat /\ w <= w + n
        OBVIOUS
      <4> QED
        BY <1>2, <4>1, BytesFollow
    <3> QED
      BY <1>2, <3>1, <3>2, <3>3 DEF p
  <2> QED
    BY <2>2, <2>3
<1> QED
  BY <1>1, <1>5, <1>6
-----------------------------------------------------------------------------
(* The command and what it leaves.                                         *)

\* Once a command is over, or before the first one, nobody writes.
Silent == runDone \/ (child = "none" /\ ~descendant /\ waitDelay = "off")

StreamInv ==
  /\ written \in Nat
  /\ OutputKeepsTail
  /\ ~jobRunning => Silent
  /\ uiUp /\ runDone => child = "exited" /\ (killed => ~descendant)
  /\ killed => runDone

\* Every step of the command, its processes and the view keeps what is shown in line
\* with what was written, and what is over as it is.
LEMMA StreamStep ==
  ASSUME StreamInv, [OutputNext]_outputVars
  PROVE  StreamInv'
<1> USE DEF StreamInv, OutputKeepsTail, Silent
<1>k. OutputKeepsTail <=> buffer = Kept(written) /\ (~jobRunning => shown = buffer)
  BY DEF Kept
<1>0. ASSUME UNCHANGED <<jobRunning, buffer, shown, written>>
      PROVE  OutputKeepsTail' /\ written' \in Nat
  BY <1>0
<1>1. CASE StartStream
  <2>1. Bytes(1, 1) = Bytes(Max({1, 1 - OutputLimit + 1}), 1)
    BY KeptFrom, OutputAssumption DEF Kept, First
  <2> QED
    BY <1>1, <2>1 DEF StartStream
<1>2. CASE ShowOutput
  BY <1>0, <1>2 DEF ShowOutput, dashboardVars
<1>2c. ASSUME NEW closeView \in BOOLEAN, CancelStream(closeView)
       PROVE  StreamInv'
  <2>1. /\ jobRunning /\ uiUp /\ UNCHANGED <<uiUp, jobRunning, buffer, shown, written, descendant, runDone, killed>>
        /\ child = "exited" => child' = "exited"
    BY <1>2c DEF CancelStream, dashboardVars
  <2> QED
    BY <1>0, <2>1
<1>3. ASSUME NEW n \in 1..MaxChunk, ChildWrites(n)
      PROVE  StreamInv'
  <2>1. /\ written' = written + n /\ n \in Nat \ {0} /\ written \in Nat
        /\ buffer' = BufferWrite(Kept(written), Bytes(written + 1, written + n))
    BY <1>3, <1>k, OutputAssumption DEF ChildWrites
  <2>2. buffer' = Kept(written')
    BY <2>1, WriteKeepsEnd
  <2>3. jobRunning
    BY <1>3 DEF ChildWrites
  <2>4. UNCHANGED <<uiUp, jobRunning, runDone, child, descendant, waitDelay, killed>>
    BY <1>3 DEF ChildWrites, dashboardVars
  <2>5. OutputKeepsTail'
    BY <2>2, <2>3, <2>4 DEF Kept
  <2> QED
    BY <2>1, <2>3, <2>4, <2>5
<1>4. CASE ChildSpawns
  BY <1>0, <1>4 DEF ChildSpawns, dashboardVars
<1>4d. CASE DescendantExits
  BY <1>0, <1>4d DEF DescendantExits, dashboardVars
<1>4e. CASE ChildExits
  BY <1>0, <1>4e DEF ChildExits, dashboardVars
<1>5. CASE WaitDelayEnds
  BY <1>0, <1>5 DEF WaitDelayEnds, dashboardVars
<1>5r. CASE StreamReturns
  BY <1>0, <1>5r DEF StreamReturns, dashboardVars
<1>6. CASE UpdateOutput
  BY <1>6 DEF UpdateOutput, dashboardVars
<1>7. CASE FinalUpdate
  BY <1>7 DEF FinalUpdate
<1>8. CASE Quit
  BY <1>8 DEF Quit
<1>9. CASE UNCHANGED streamVars /\ (uiUp' = uiUp)
  BY <1>9 DEF streamVars
<1>10. CASE DashboardNext /\ UNCHANGED streamVars
  <2>1. uiUp' = uiUp
    <3>1. ASSUME NEW q \in taskQueries, ShowTasks(q) \/ \E a \in {"tasks", Failed} : TaskAnswer(q, a)
          PROVE  uiUp' = uiUp
      BY <3>1 DEF ShowTasks, TaskAnswer
    <3>2. ASSUME NEW s \in ServiceNames, PickService(s) \/ SwarmChanges(s)
          PROVE  uiUp' = uiUp
      BY <3>2 DEF PickService, SwarmChanges
    <3>3. CASE Tick \/ ServiceAnswer \/ ServiceAnswerFails \/ ShowServices
      BY <3>3 DEF Tick, ServiceAnswer, ServiceAnswerFails, ShowServices
    <3> QED
      BY <1>10, <3>1, <3>2, <3>3 DEF DashboardNext
  <2> QED
    BY <1>9, <1>10, <2>1
<1>11. CASE UNCHANGED outputVars
  BY <1>9, <1>11 DEF outputVars, dashboardVars
<1> QED
  BY <1>1, <1>2, <1>2c, <1>3, <1>4, <1>4d, <1>4e, <1>5, <1>5r, <1>6, <1>7, <1>8, <1>10, <1>11
  DEF OutputNext, StreamNext

\* Before the first command nothing is written and nothing is shown.
LEMMA StreamInitially == OutputInit => StreamInv
<1> SUFFICES ASSUME OutputInit PROVE StreamInv
  OBVIOUS
<1>1. Bytes(Max({1, 0 - OutputLimit + 1}), 0) = <<>>
  <2>1. Kept(0) = Bytes(1, 0)
    BY KeptFrom, OutputAssumption DEF First
  <2>2. Bytes(1, 0) \in Seq(Int) /\ Len(Bytes(1, 0)) = 0
    BY BytesSequence
  <2> QED
    BY <2>1, <2>2 DEF Kept
<1> QED
  BY <1>1 DEF OutputInit, StreamInv, OutputKeepsTail, Silent

\* The two parts together, in every reachable state.
THEOREM StreamInvariant == OutputSpec => []StreamInv
<1>1. StreamInv /\ [OutputNext]_outputVars => StreamInv'
  BY StreamStep
<1> QED
  BY <1>1, StreamInitially, PTL DEF OutputSpec

\* The view of a command that has ended shows the end of everything that its processes
\* wrote, as much as the buffer holds, for any limit and writes of any size.
THEOREM TailIsKept == OutputSpec => []OutputKeepsTail
<1>1. StreamInv => OutputKeepsTail
  BY DEF StreamInv
<1> QED
  BY <1>1, StreamInvariant, PTL

\* No process of a killed command is left once the command is reported as over.
THEOREM NothingIsLeft == OutputSpec => []KilledLeavesNoProcess
<1>1. StreamInv => KilledLeavesNoProcess
  BY DEF StreamInv, KilledLeavesNoProcess
<1> QED
  BY <1>1, StreamInvariant, PTL

\* The tasks shown are those of the selected service also while commands run, whose
\* end refreshes the tables.
THEOREM ShownTasksWhileStreaming == OutputSpec => []TasksBelongToSelected
<1>1. OutputInit => DashboardInv
  BY DEF OutputInit, DashboardInit, DashboardInv, LatestIsOfSelected, TasksBelongToSelected
<1>2. ASSUME DashboardInv, [OutputNext]_outputVars
      PROVE  DashboardInv'
  <2>1. CASE StreamNext /\ ~FinalUpdate
    <3>1. UNCHANGED <<selected, instancesOf, taskQueries>>
      BY <2>1 DEF StreamNext, StartStream, ShowOutput, CancelStream, ChildWrites, ChildSpawns,
                  DescendantExits, ChildExits, WaitDelayEnds, StreamReturns, UpdateOutput, Quit,
                  dashboardVars
    <3> QED
      BY <1>2, <3>1 DEF DashboardInv, LatestIsOfSelected, TasksBelongToSelected
  <2>2. CASE FinalUpdate
    BY <1>2, <2>2, RefreshKeeps DEF FinalUpdate
  <2>3. CASE DashboardNext
    BY <1>2, <2>3, DashboardStep
  <2>4. CASE UNCHANGED outputVars
    BY <1>2, <2>4, DashboardStep DEF outputVars
  <2> QED
    BY <1>2, <2>1, <2>2, <2>3, <2>4 DEF OutputNext
<1>3. DashboardInv => TasksBelongToSelected
  BY DEF DashboardInv
<1> QED
  BY <1>1, <1>2, <1>3, PTL DEF OutputSpec

-----------------------------------------------------------------------------
(* Types.                                                                  *)

\* A list that is not empty has a first row.
LEMMA FirstRow ==
  ASSUME NEW S \in SUBSET ServiceNames, S # {}
  PROVE  Min(S) \in S
<1>1. S \subseteq Nat
  BY DashboardAssumption DEF ServiceNames
<1>2. IsWellFoundedOn({ss \in Nat \X Nat : ss[1] < ss[2]}, Nat)
  BY NatLessThanWellFounded, Zenon DEF OpToRel
<1>3. \E n \in S : \A m \in S : ~(<<m, n>> \in {ss \in Nat \X Nat : ss[1] < ss[2]})
  BY <1>1, <1>2, WFMin, Zenon
<1>4. PICK n \in S : \A m \in S : ~(m < n)
  BY <1>1, <1>3
<1>5. n \in S /\ \A m \in S : n <= m
  BY <1>1, <1>4
<1> QED
  BY <1>5 DEF Min

ServiceQueries == [phase : {"none", "asking", "answered", Failed}, found : SUBSET ServiceNames]

LEMMA LoadTasksTypes ==
  ASSUME DashboardTypeOK, NEW s \in ServiceNames \cup {NoService}, LoadTasks(s)
  PROVE  /\ {selected', instancesOf'} \subseteq ServiceNames \cup {NoService}
         /\ taskBusy' \in BOOLEAN /\ taskQueries' \subseteq TaskQueries
<1>1. {selected', instancesOf'} \subseteq ServiceNames \cup {NoService} /\ taskBusy' \in BOOLEAN
  BY DEF LoadTasks, DashboardTypeOK
<1>2. ASSUME NEW q \in taskQueries'
      PROVE  q \in TaskQueries
  <2>1. \/ \E r \in taskQueries : q = [r EXCEPT !.latest = FALSE]
        \/ s # NoService /\ q = [service |-> s, latest |-> TRUE, answer |-> "none"]
    BY <1>2 DEF LoadTasks
  <2>2. \A r \in taskQueries : [r EXCEPT !.latest = FALSE] \in TaskQueries
    BY DEF DashboardTypeOK, TaskQueries
  <2>3. s # NoService => [service |-> s, latest |-> TRUE, answer |-> "none"] \in TaskQueries
    BY DEF TaskQueries
  <2> QED
    BY <2>1, <2>2, <2>3
<1> QED
  BY <1>1, <1>2

LEMMA RefreshTypes ==
  ASSUME DashboardTypeOK, Refresh
  PROVE  /\ {selected', instancesOf'} \subseteq ServiceNames \cup {NoService}
         /\ {taskBusy', serviceBusy'} \subseteq BOOLEAN /\ taskQueries' \subseteq TaskQueries
         /\ serviceQuery' \in ServiceQueries
<1>1. serviceBusy' \in BOOLEAN /\ serviceQuery' \in ServiceQueries
  <2>1. serviceQuery \in ServiceQueries /\ Phase("asking", {}) \in ServiceQueries
    BY DEF DashboardTypeOK, Phase, ServiceQueries
  <2>2. serviceBusy \in BOOLEAN
    BY DEF DashboardTypeOK
  <2>3. CASE serviceBusy
    BY <2>1, <2>2, <2>3 DEF Refresh
  <2>4. CASE ~serviceBusy
    BY <2>1, <2>4 DEF Refresh
  <2> QED
    BY <2>3, <2>4
<1>2. CASE UNCHANGED <<selected, instancesOf, taskBusy, taskQueries>>
  BY <1>1, <1>2 DEF DashboardTypeOK
<1>3. CASE LoadTasks(selected)
  BY <1>1, <1>3, LoadTasksTypes DEF DashboardTypeOK
<1> QED
  BY <1>2, <1>3 DEF Refresh

LEMMA DashboardTypesStep ==
  ASSUME DashboardTypeOK, [DashboardNext]_dashboardVars
  PROVE  DashboardTypeOK'
<1> USE DashboardAssumption
<1>1. CASE Tick
  BY <1>1, RefreshTypes DEF Tick, DashboardTypeOK, ServiceQueries
<1>2. CASE ServiceAnswer \/ ServiceAnswerFails
  BY <1>2 DEF ServiceAnswer, ServiceAnswerFails, DashboardTypeOK, Phase
<1>3. CASE ShowServices
  <2>1. serviceQuery.found \in SUBSET ServiceNames
    BY DEF DashboardTypeOK
  <2>2. /\ {selected', instancesOf'} \subseteq ServiceNames \cup {NoService}
        /\ taskBusy' \in BOOLEAN /\ taskQueries' \subseteq TaskQueries
    <3>1. CASE UNCHANGED <<selected, instancesOf, taskBusy, taskQueries>>
      BY <3>1 DEF DashboardTypeOK
    <3>2. CASE LoadTasks(NoService)
      BY <3>2, LoadTasksTypes
    <3>3. CASE serviceQuery.found # {} /\ LoadTasks(Min(serviceQuery.found))
      BY <2>1, <3>3, FirstRow, LoadTasksTypes
    <3> QED
      BY <1>3, <3>1, <3>2, <3>3 DEF ShowServices
  <2>3. /\ rows' \subseteq ServiceNames /\ serviceBusy' = FALSE /\ serviceQuery' = Phase("none", {})
        /\ UNCHANGED <<swarmServices, uiUp, changes, queryFailures, picks>>
    BY <1>3, <2>1 DEF ShowServices, DashboardTypeOK
  <2> QED
    BY <2>2, <2>3 DEF DashboardTypeOK, Phase
<1>4. ASSUME NEW q \in taskQueries, ShowTasks(q)
      PROVE  DashboardTypeOK'
  BY <1>4 DEF ShowTasks, DashboardTypeOK, TaskQueries
<1>5. ASSUME NEW q \in taskQueries, NEW a \in {"tasks", Failed}, TaskAnswer(q, a)
      PROVE  DashboardTypeOK'
  <2>1. q \in TaskQueries /\ [q EXCEPT !.answer = a] \in TaskQueries
    BY DEF DashboardTypeOK, TaskQueries
  <2>2. taskQueries' \subseteq TaskQueries
    BY <1>5, <2>1 DEF TaskAnswer, DashboardTypeOK
  <2>3. queryFailures' \in 0..MaxQueryFailures
    BY <1>5, <2>1 DEF TaskAnswer, DashboardTypeOK, Failed, TaskQueries
  <2> QED
    BY <1>5, <2>2, <2>3 DEF TaskAnswer, DashboardTypeOK
<1>6. ASSUME NEW s \in ServiceNames, PickService(s)
      PROVE  DashboardTypeOK'
  BY <1>6, LoadTasksTypes DEF PickService, DashboardTypeOK
<1>7. ASSUME NEW s \in ServiceNames, SwarmChanges(s)
      PROVE  DashboardTypeOK'
  BY <1>7 DEF SwarmChanges, DashboardTypeOK
<1>8. CASE UNCHANGED dashboardVars
  BY <1>8 DEF dashboardVars, DashboardTypeOK
<1> QED
  BY <1>1, <1>2, <1>3, <1>4, <1>5, <1>6, <1>7, <1>8 DEF DashboardNext

LEMMA DashboardInitially == DashboardInit => DashboardTypeOK
<1> SUFFICES ASSUME DashboardInit
             PROVE  DashboardTypeOK
  OBVIOUS
<1>1. serviceQuery \in ServiceQueries
  BY DEF DashboardInit, Phase, ServiceQueries
<1> QED
  BY <1>1 DEF DashboardInit, DashboardTypeOK, ServiceQueries, NoService

\* The tables hold services of the Swarm only, and every answer is of one of them.
THEOREM DashboardIsTyped == DashboardSpec => []DashboardTypeOK
<1>1. DashboardInit => DashboardTypeOK
  BY DashboardInitially
<1>2. DashboardTypeOK /\ [DashboardNext]_dashboardVars => DashboardTypeOK'
  BY DashboardTypesStep
<1> QED
  BY <1>1, <1>2, PTL DEF DashboardSpec

\* What the buffer keeps are bytes of the output.
LEMMA KeptTypes ==
  ASSUME NEW w \in Nat
  PROVE  Kept(w) \in Seq(Nat)
<1>1. Kept(w) = Bytes(First(w), w) /\ First(w) \in Nat \ {0}
  BY KeptFrom, OutputAssumption DEF First
<1>2. \A i \in 1..(w - First(w) + 1) : First(w) + i - 1 \in Nat
  BY <1>1
<1>3. CASE w - First(w) + 1 \in Nat
  <2>1. Bytes(First(w), w) \in [1..(w - First(w) + 1) -> Nat]
    BY <1>2 DEF Bytes
  <2> QED
    BY <1>1, <1>3, <2>1
<1> QED
  BY <1>1, <1>3, OutputAssumption DEF First

LEMMA OutputTypesStep ==
  ASSUME StreamInv, OutputTypeOK, [OutputNext]_outputVars
  PROVE  OutputTypeOK'
<1> DEFINE Flags == {jobRunning, cancelled, outputVisible, keepKilledOutput, unshown, descendant,
                     runDone, killed} \subseteq BOOLEAN
           Rest  == /\ child \in {"none", "runs", "terminating", "exited"}
                    /\ waitDelay \in {"off", "counting", "over"}
                    /\ written \in 0..MaxBytes /\ jobs \in 0..MaxJobs
<1>0. MaxBytes \in Nat \ {0} /\ MaxJobs \in Nat /\ MaxChunk \in Nat
  BY OutputAssumption
<1>1. buffer' \in Seq(Nat)
  <2>1. StreamInv'
    BY StreamStep
  <2> QED
    BY <2>1, KeptTypes DEF StreamInv, OutputKeepsTail, Kept
<1>2. shown' \in Seq(Nat)
  <2>1. shown' \in {shown, buffer, buffer'}
    BY DEF OutputNext, StreamNext, StartStream, ShowOutput, CancelStream, ChildWrites, ChildSpawns,
           DescendantExits, ChildExits, WaitDelayEnds, StreamReturns, UpdateOutput, FinalUpdate, Quit,
           streamVars, outputVars
  <2> QED
    BY <1>1, <2>1 DEF OutputTypeOK
<1>3. DashboardTypeOK'
  <2>1. CASE StreamNext /\ ~FinalUpdate /\ ~Quit
    <3>1. UNCHANGED dashboardVars
      BY <2>1 DEF StreamNext, StartStream, ShowOutput, CancelStream, ChildWrites, ChildSpawns,
                  DescendantExits, ChildExits, WaitDelayEnds, StreamReturns, UpdateOutput
    <3> QED
      BY <3>1, DashboardTypesStep DEF OutputTypeOK
  <2>2. CASE FinalUpdate
    BY <2>2, RefreshTypes DEF FinalUpdate, OutputTypeOK, DashboardTypeOK, ServiceQueries
  <2>3. CASE Quit
    BY <2>3 DEF Quit, OutputTypeOK, DashboardTypeOK
  <2>4. CASE DashboardNext \/ UNCHANGED outputVars
    BY <2>4, DashboardTypesStep DEF OutputTypeOK, outputVars
  <2> QED
    BY <2>1, <2>2, <2>3, <2>4 DEF OutputNext
<1>4. Flags' /\ Rest'
  <2>1. Flags /\ Rest
    BY DEF OutputTypeOK
  <2>2. CASE StartStream
    <3>1. Flags'
      BY <2>1, <2>2 DEF StartStream
    <3>2. Rest'
      BY <1>0, <2>1, <2>2 DEF StartStream
    <3> QED
      BY <3>1, <3>2
  <2>3. ASSUME NEW n \in 1..MaxChunk, ChildWrites(n)
        PROVE  Flags' /\ Rest'
    BY <1>0, <2>1, <2>3 DEF ChildWrites
  <2>4. ASSUME NEW closeView \in BOOLEAN, CancelStream(closeView)
        PROVE  Flags' /\ Rest'
    BY <2>1, <2>4 DEF CancelStream
  <2>5. CASE ShowOutput \/ ChildSpawns \/ DescendantExits \/ ChildExits
    BY <2>1, <2>5 DEF ShowOutput, ChildSpawns, DescendantExits, ChildExits
  <2>6. CASE WaitDelayEnds \/ StreamReturns \/ UpdateOutput
    BY <2>1, <2>6 DEF WaitDelayEnds, StreamReturns, UpdateOutput
  <2>7. CASE FinalUpdate
    BY <2>1, <2>7 DEF FinalUpdate
  <2>8. CASE Quit
    BY <2>1, <2>8 DEF Quit
  <2>9. CASE UNCHANGED streamVars
    BY <2>1, <2>9 DEF streamVars
  <2> QED
    BY <2>2, <2>3, <2>4, <2>5, <2>6, <2>7, <2>8, <2>9 DEF OutputNext, StreamNext, outputVars
<1> QED
  BY <1>1, <1>2, <1>3, <1>4 DEF OutputTypeOK

\* The buffer holds bytes of the output, no more than were written.
THEOREM OutputIsTyped == OutputSpec => []OutputTypeOK
<1>1. OutputInit => OutputTypeOK
  <2> SUFFICES ASSUME OutputInit
               PROVE  OutputTypeOK
    OBVIOUS
  <2>1. DashboardTypeOK
    BY DashboardInitially DEF OutputInit
  <2>2. MaxBytes \in Nat \ {0} /\ MaxJobs \in Nat
    BY OutputAssumption
  <2>3. buffer \in Seq(Nat) /\ shown \in Seq(Nat)
    BY DEF OutputInit
  <2>4. written \in 0..MaxBytes /\ jobs \in 0..MaxJobs
    BY <2>2 DEF OutputInit
  <2> QED
    BY <2>1, <2>3, <2>4 DEF OutputInit, OutputTypeOK
<1>2. StreamInv /\ OutputTypeOK /\ [OutputNext]_outputVars => OutputTypeOK'
  BY OutputTypesStep
<1> QED
  BY <1>1, <1>2, StreamInvariant, PTL DEF OutputSpec
=============================================================================
