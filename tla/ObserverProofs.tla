--------------------------- MODULE ObserverProofs ---------------------------
(***************************************************************************)
(* For any number of sessions, launches and captures, any threads and any  *)
(* clock: Observer is well typed, the timeline of an open session rises,   *)
(* and no step takes a session back.  With one user a session is compiled  *)
(* from all that was queued before its close.                              *)
(*                                                                         *)
(* The writer keeps a timeline in order by comparing each event with the   *)
(* last one of its session.  Closing a session, and the end of the         *)
(* process, forget that one.  So the invariant is about the sessions that  *)
(* still receive events: while such a session is open, what is remembered  *)
(* is not below any of its rows.  Nothing is forgotten of an open session, *)
(* since whoever closes it waits until its status is written.              *)
(*                                                                         *)
(* The other two follow the jobs through the queue, below: a mark is the   *)
(* last that is queued of the status of its session, and the rows that     *)
(* were due when a close was queued are stored or ahead of it.             *)
(***************************************************************************)
EXTENDS Observer, FiniteSetTheorems, TLAPS

USE StoreAssumption, ObserverAssumption

-----------------------------------------------------------------------------
\* The queue.

QueueOK(q) ==
  q \in Seq(Jobs) /\ \A i \in 1..Len(q) : q[i].kind # "stop" => q[i].s \in Sessions

HasAppend(q, s) == \E i \in 1..Len(q) : q[i].kind = "append" /\ q[i].s = s

HasClose(q, t, s) ==
  \E i \in 1..Len(q) : q[i].kind = "close" /\ q[i].s = s /\ q[i].by = t

\* What one more job does to a queue.
LEMMA QueueAppended ==
  ASSUME NEW q, QueueOK(q), NEW j \in Jobs, j.kind # "stop" => j.s \in Sessions
  PROVE  /\ QueueOK(Append(q, j))
         /\ \A s : HasAppend(Append(q, j), s)
                     => HasAppend(q, s) \/ (j.kind = "append" /\ j.s = s)
         /\ \A t, s : HasClose(q, t, s) => HasClose(Append(q, j), t, s)
         /\ \A t, s : j.kind = "close" /\ j.s = s /\ j.by = t
                        => HasClose(Append(q, j), t, s)
<1> DEFINE r == Append(q, j)
<1>1. /\ r \in Seq(Jobs) /\ Len(r) = Len(q) + 1 /\ Len(q) \in Nat
      /\ r[Len(q) + 1] = j
      /\ \A i \in 1..Len(q) : r[i] = q[i]
  BY DEF QueueOK
<1> HIDE DEF r
<1>2. QueueOK(r)
  BY <1>1 DEF QueueOK
<1>3. \A s : HasAppend(r, s) => HasAppend(q, s) \/ (j.kind = "append" /\ j.s = s)
  BY <1>1 DEF HasAppend
<1>4. \A t, s : HasClose(q, t, s) => HasClose(r, t, s)
  BY <1>1 DEF HasClose
<1>5. \A t, s : j.kind = "close" /\ j.s = s /\ j.by = t => HasClose(r, t, s)
  BY <1>1 DEF HasClose
<1> QED
  BY <1>2, <1>3, <1>4, <1>5 DEF r

\* What taking the first job off does.
LEMMA QueueTaken ==
  ASSUME NEW q, QueueOK(q), q # <<>>
  PROVE  /\ QueueOK(Tail(q))
         /\ Head(q) \in Jobs
         /\ Head(q).kind # "stop" => Head(q).s \in Sessions
         /\ Head(q).kind = "append" => HasAppend(q, Head(q).s)
         /\ \A s : HasAppend(Tail(q), s) => HasAppend(q, s)
         /\ \A t, s : HasClose(q, t, s)
                        => \/ HasClose(Tail(q), t, s)
                           \/ Head(q).kind = "close" /\ Head(q).s = s
<1> DEFINE r == Tail(q)
<1>1. /\ r \in Seq(Jobs) /\ Len(r) = Len(q) - 1 /\ Len(q) \in Nat /\ Len(q) > 0
      /\ Head(q) = q[1] /\ Head(q) \in Jobs
      /\ \A i \in 1..Len(r) : r[i] = q[i + 1]
  BY DEF QueueOK
<1> HIDE DEF r
<1>2. QueueOK(r)
  BY <1>1 DEF QueueOK
<1>3. Head(q).kind # "stop" => Head(q).s \in Sessions
  BY <1>1 DEF QueueOK
<1>4. Head(q).kind = "append" => HasAppend(q, Head(q).s)
  BY <1>1 DEF HasAppend
<1>5. \A s : HasAppend(r, s) => HasAppend(q, s)
  BY <1>1 DEF HasAppend
<1>6. ASSUME NEW t, NEW s, HasClose(q, t, s)
      PROVE  HasClose(r, t, s) \/ (Head(q).kind = "close" /\ Head(q).s = s)
  <2>1. PICK i \in 1..Len(q) : q[i].kind = "close" /\ q[i].s = s /\ q[i].by = t
    BY <1>6 DEF HasClose
  <2>2. CASE i = 1
    BY <2>1, <2>2, <1>1
  <2>3. CASE i # 1
    <3>1. i - 1 \in 1..Len(r) /\ r[i - 1] = q[i]
      BY <2>3, <1>1
    <3> QED
      BY <3>1, <2>1 DEF HasClose
  <2> QED
    BY <2>2, <2>3
<1> QED
  BY <1>1, <1>2, <1>3, <1>4, <1>5, <1>6 DEF r

\* What it does when a caller gives up waiting.
LEMMA QueueGivenUp ==
  ASSUME QueueOK(jobs), NEW u
  PROVE  /\ QueueOK(GivenUp(u))
         /\ \A s : HasAppend(GivenUp(u), s) => HasAppend(jobs, s)
         /\ \A t, s : t # u /\ HasClose(jobs, t, s) => HasClose(GivenUp(u), t, s)
<1> DEFINE r == GivenUp(u)
<1>1. /\ Len(jobs) \in Nat
      /\ \A i \in 1..Len(jobs) : jobs[i] \in Jobs
  BY DEF QueueOK
<1>2. /\ DOMAIN r = 1..Len(jobs)
      /\ \A i \in 1..Len(jobs) :
           /\ r[i] \in Jobs
           /\ r[i].kind = jobs[i].kind /\ r[i].s = jobs[i].s
           /\ jobs[i].by # u => r[i].by = jobs[i].by
  BY <1>1 DEF GivenUp, Jobs, Waiters
<1>3. r \in Seq(Jobs) /\ Len(r) = Len(jobs)
  <2>1. r = [i \in 1..Len(jobs) |-> r[i]]
    BY DEF GivenUp
  <2> QED
    BY <1>1, <1>2, <2>1
<1> HIDE DEF r
<1>4. QueueOK(r)
  BY <1>2, <1>3 DEF QueueOK
<1>5. \A s : HasAppend(r, s) => HasAppend(jobs, s)
  BY <1>2, <1>3 DEF HasAppend
<1>6. \A t, s : t # u /\ HasClose(jobs, t, s) => HasClose(r, t, s)
  BY <1>2, <1>3 DEF HasClose
<1> QED
  BY <1>4, <1>5, <1>6 DEF r

-----------------------------------------------------------------------------
\* Type correctness.

LEMMA StoreTypes == StoreTypeOK <=>
  /\ status \in [Sessions -> Statuses]
  /\ timeline \in [Sessions -> Seq(Rows)]
  /\ QueueOK(jobs)
  /\ lastTs \in [Sessions -> Nat]
  /\ writing \in BOOLEAN
BY DEF StoreTypeOK, QueueOK

MainTypeOK ==
  /\ phase \in Phases
  /\ launches \in 0..MaxLaunches
  /\ dialogs \subseteq Sessions

FeedTypeOK ==
  /\ heard \in Seq(0..MaxSessions)
  /\ loop \subseteq 0..MaxSessions
  /\ grab \in Grabs
  /\ grab.at # "none" => grab.s # 0
  /\ captures \in 0..MaxCaptures

LEMMA Types == TypeOK <=> StoreTypeOK /\ ControllerTypeOK /\ MainTypeOK /\ FeedTypeOK
BY DEF TypeOK, MainTypeOK, FeedTypeOK

LEMMA SessionIds == Sessions = (0..MaxSessions) \ {0} /\ Sessions \subseteq Nat
BY DEF Sessions

\* What is due is a number.
LEMMA DueIsNat ==
  ASSUME StoreTypeOK, NEW s \in Sessions
  PROVE  Due(s) \in Nat
<1> DEFINE A == {i \in 1..Len(jobs) : jobs[i].kind = "append" /\ jobs[i].s = s}
<1>1. Len(jobs) \in Nat /\ Len(timeline[s]) \in Nat
  BY DEF StoreTypeOK
<1>2. IsFiniteSet(1..Len(jobs))
  BY <1>1, FS_Interval
<1>3. IsFiniteSet(A)
  BY <1>2, FS_Subset
<1>4. Cardinality(A) \in Nat
  BY <1>3, FS_CardinalityType
<1> QED
  BY <1>1, <1>4 DEF Due

\* The jobs the program queues.
LEMMA JobTypes ==
  /\ \A s \in Sessions, t \in Threads : CloseJob(s, t) \in Jobs /\ CloseJob(s, t).s = s
  /\ \A s \in Sessions : MarkJob(s) \in Jobs /\ MarkJob(s).s = s
  /\ \A t \in Threads : StopJob(t) \in Jobs
  /\ \A s \in Sessions, t \in Waiters, r \in Rows :
       AppendJob(s, r, t) \in Jobs /\ AppendJob(s, r, t).s = s
BY SessionIds DEF CloseJob, MarkJob, StopJob, AppendJob, Job, Jobs, Waiters, Nobody, Threads,
  NoRow, Rows

LEMMA InitTypes == Init => TypeOK
<1> SUFFICES ASSUME Init PROVE TypeOK
  OBVIOUS
<1>1. StoreTypeOK
  <2>1. /\ status = [s \in Sessions |-> "none"]
        /\ timeline = [s \in Sessions |-> <<>>]
        /\ jobs = <<>> /\ lastTs = [s \in Sessions |-> 0] /\ writing = FALSE
    BY DEF Init, StoreInit
  <2>2. <<>> \in Seq(Rows) /\ <<>> \in Seq(Jobs)
    OBVIOUS
  <2>3. status \in [Sessions -> Statuses] /\ lastTs \in [Sessions -> Nat]
    BY <2>1 DEF Statuses
  <2>4. timeline \in [Sessions -> Seq(Rows)]
    BY <2>1, <2>2
  <2>5. jobs \in Seq(Jobs) /\ Len(jobs) = 0
    BY <2>1, <2>2
  <2>6. QueueOK(jobs)
    BY <2>5 DEF QueueOK
  <2> QED
    BY <2>1, <2>3, <2>4, <2>6, StoreTypes
<1>2. ControllerTypeOK
  <2>1. /\ current = 0 /\ paused = FALSE /\ capture = FALSE
        /\ exiting = FALSE /\ pc = [t \in Threads |-> "idle"]
        /\ snap = [t \in Threads |-> 0] /\ closing = [t \in Threads |-> 0]
        /\ owed = {} /\ before = [s \in Sessions |-> 0]
        /\ tasks = [t \in Threads |-> [s \in Sessions |-> "none"]]
    BY DEF Init, ControllerInit
  <2>2. [s \in Sessions |-> "none"] \in [Sessions -> TaskPcs]
    BY DEF TaskPcs
  <2>3. tasks \in [Threads -> [Sessions -> TaskPcs]]
    BY <2>1, <2>2
  <2>4. pc \in [Threads -> Pcs]
    BY <2>1 DEF Pcs
  <2>5. /\ snap \in [Threads -> 0..MaxSessions] /\ closing \in [Threads -> 0..MaxSessions]
        /\ before \in [Sessions -> Nat]
    BY <2>1
  <2>6. \A t \in Threads :
          /\ pc[t] \in {"halting", "testing", "queueing", "closing"} /\ ~Exiting(t)
               => snap[t] # 0
          /\ pc[t] \in {"closing", "recovering"} => closing[t] # 0
    BY <2>1
  <2>7. current \in 0..MaxSessions /\ owed \subseteq Sessions
    BY <2>1
  <2>8. paused \in BOOLEAN /\ capture \in BOOLEAN /\ exiting \in BOOLEAN
    BY <2>1
  <2> QED
    BY <2>3, <2>4, <2>5, <2>6, <2>7, <2>8 DEF ControllerTypeOK
<1>3. MainTypeOK /\ FeedTypeOK
  BY DEF Init, FeedInit, MainTypeOK, FeedTypeOK, Phases, NoGrab, Grabs
<1> QED
  BY <1>1, <1>2, <1>3, Types

\* The writer.
LEMMA WriterTypes == StoreTypeOK /\ WriterStep => StoreTypeOK'
<1> SUFFICES ASSUME StoreTypeOK, WriterStep PROVE StoreTypeOK'
  OBVIOUS
<1> DEFINE s == Head(jobs).s
<1>1. /\ status \in [Sessions -> Statuses] /\ timeline \in [Sessions -> Seq(Rows)]
      /\ QueueOK(jobs) /\ lastTs \in [Sessions -> Nat] /\ writing \in BOOLEAN
  BY StoreTypes
<1>2. jobs # <<>> /\ jobs' = Tail(jobs)
  BY DEF WriterStep, WriterAppends, WriterCloses, WriterMarks, WriterStops
<1>3. /\ QueueOK(jobs)' /\ Head(jobs) \in Jobs
      /\ Head(jobs).kind # "stop" => s \in Sessions
  BY <1>1, <1>2, QueueTaken DEF QueueOK
<1>4. CASE WriterAppends
  <2> DEFINE row == [Head(jobs).row EXCEPT !.ts = Clamped(s, @)]
  <2>1. s \in Sessions /\ Head(jobs).row \in Rows
    BY <1>3, <1>4 DEF WriterAppends, Jobs
  <2>2. row \in Rows /\ row.ts \in Nat
    <3> DEFINE old == Head(jobs).row
    <3>1. old.ts \in Nat /\ old.of \in 0..MaxSessions
      BY <2>1 DEF Rows
    <3>2. Clamped(s, old.ts) \in Nat
      BY <1>1, <2>1, <3>1 DEF Clamped
    <3>3. row = [ts |-> Clamped(s, old.ts), of |-> old.of]
      BY <2>1 DEF Rows
    <3> HIDE DEF old, row, s
    <3> QED
      BY <3>1, <3>2, <3>3 DEF Rows
  <2>3. /\ lastTs' = [lastTs EXCEPT ![s] = row.ts]
        /\ timeline' = IF Exists(s)
                       THEN [timeline EXCEPT ![s] = Append(@, row)]
                       ELSE timeline
        /\ UNCHANGED <<status, writing>>
    BY <1>4 DEF WriterAppends
  <2> HIDE DEF s, row
  <2>4. timeline' \in [Sessions -> Seq(Rows)]
    <3>1. Append(timeline[s], row) \in Seq(Rows)
      BY <1>1, <2>1, <2>2
    <3> QED
      BY <1>1, <2>3, <3>1
  <2>5. lastTs' \in [Sessions -> Nat]
    BY <1>1, <2>2, <2>3
  <2> QED
    BY <1>1, <1>3, <2>3, <2>4, <2>5 DEF StoreTypeOK, QueueOK
<1>5. CASE WriterCloses
  BY <1>1, <1>3, <1>5 DEF WriterCloses, StoreTypeOK, QueueOK, Updated, Statuses
<1>6. CASE WriterMarks
  BY <1>1, <1>3, <1>6 DEF WriterMarks, StoreTypeOK, QueueOK, Updated, Statuses
<1>7. CASE WriterStops
  BY <1>1, <1>3, <1>7 DEF WriterStops, StoreTypeOK, QueueOK
<1> QED
  BY <1>4, <1>5, <1>6, <1>7 DEF WriterStep

-----------------------------------------------------------------------------
\* A step of a thread of the controller.

\* The threads' own variables, apart.
ThreadsOK ==
  /\ pc \in [Threads -> Pcs]
  /\ snap \in [Threads -> 0..MaxSessions]
  /\ closing \in [Threads -> 0..MaxSessions]
  /\ \A t \in Threads :
       /\ pc[t] \in {"halting", "testing", "queueing", "closing"} /\ ~Exiting(t)
            => snap[t] # 0
       /\ pc[t] \in {"closing", "recovering"} => closing[t] # 0

SessionOK ==
  /\ current \in 0..MaxSessions
  /\ paused \in BOOLEAN /\ capture \in BOOLEAN /\ exiting \in BOOLEAN

TasksOK ==
  /\ tasks \in [Threads -> [Sessions -> TaskPcs]]
  /\ owed \subseteq Sessions
  /\ before \in [Sessions -> Nat]

LEMMA ControllerTypes == ControllerTypeOK <=> ThreadsOK /\ SessionOK /\ TasksOK
BY DEF ControllerTypeOK, ThreadsOK, SessionOK, TasksOK

\* A thread goes on: what it has to know where it arrives.
LEMMA ThreadMoves ==
  ASSUME ThreadsOK, exiting \in BOOLEAN, NEW t \in Threads, NEW x \in Pcs,
         NEW m \in 0..MaxSessions, NEW c \in 0..MaxSessions,
         pc' = [pc EXCEPT ![t] = x],
         snap' = [snap EXCEPT ![t] = m],
         closing' = [closing EXCEPT ![t] = c],
         exiting' = exiting \/ (exiting' /\ t = "qt"),
         x \in {"halting", "testing", "queueing", "closing"} /\ ~Exiting(t)' => m # 0,
         x \in {"closing", "recovering"} => c # 0
  PROVE  ThreadsOK'
<1>1. /\ pc' \in [Threads -> Pcs]
      /\ snap' \in [Threads -> 0..MaxSessions]
      /\ closing' \in [Threads -> 0..MaxSessions]
  BY DEF ThreadsOK
<1>2. ASSUME NEW u \in Threads
      PROVE  /\ (pc'[u] \in {"halting", "testing", "queueing", "closing"}
                   /\ ~Exiting(u)' => snap'[u] # 0)
             /\ (pc'[u] \in {"closing", "recovering"} => closing'[u] # 0)
  <2>1. CASE u = t
    BY <2>1 DEF ThreadsOK
  <2>2. CASE u # t
    <3>1. pc'[u] = pc[u] /\ snap'[u] = snap[u] /\ closing'[u] = closing[u]
      BY <2>2 DEF ThreadsOK
    <3>2. Exiting(u) => Exiting(u)'
      BY <2>2 DEF Exiting
    <3> QED
      BY <3>1, <3>2 DEF ThreadsOK
  <2> QED
    BY <2>1, <2>2
<1> QED
  BY <1>1, <1>2 DEF ThreadsOK

\* The same when it keeps its local variables, and when it drops them.
LEMMA ThreadGoes ==
  ASSUME ThreadsOK, SessionOK, NEW t \in Threads, NEW f, NEW x \in Pcs,
         Goes(t, f, x), UNCHANGED <<snap, closing, exiting>>,
         x \in {"halting", "testing", "queueing"} /\ ~Exiting(t) => snap[t] # 0,
         x \notin {"closing", "recovering"}
  PROVE  ThreadsOK'
<1>1. /\ pc' = [pc EXCEPT ![t] = x]
      /\ snap' = [snap EXCEPT ![t] = snap[t]]
      /\ closing' = [closing EXCEPT ![t] = closing[t]]
      /\ snap[t] \in 0..MaxSessions /\ closing[t] \in 0..MaxSessions
  BY DEF Goes, ThreadsOK
<1>2. Exiting(t)' = Exiting(t)
  BY DEF Exiting
<1> QED
  BY <1>1, <1>2, ThreadMoves DEF SessionOK

LEMMA ThreadReturns ==
  ASSUME ThreadsOK, SessionOK, NEW t \in Threads, NEW f, NEW x,
         Returns(t, f, x), UNCHANGED exiting,
         x \in {"idle", "draining", "joining"}
  PROVE  ThreadsOK'
<1>1. /\ pc' = [pc EXCEPT ![t] = x] /\ x \in Pcs
      /\ snap' = [snap EXCEPT ![t] = 0]
      /\ closing' = [closing EXCEPT ![t] = 0]
  BY DEF Returns, Goes, Pcs
<1>2. 0 \in 0..MaxSessions
  OBVIOUS
<1> QED
  BY <1>1, <1>2, ThreadMoves DEF SessionOK

LEMMA StoreStays == StoreTypeOK /\ UNCHANGED storeVars => StoreTypeOK'
BY DEF StoreTypeOK, storeVars

LEMMA TasksStay == TasksOK /\ UNCHANGED <<taskVars, before>> => TasksOK'
BY DEF TasksOK, taskVars

LEMMA StoreGrows ==
  ASSUME StoreTypeOK, UNCHANGED <<diskVars, lastTs, writing>>, QueueOK(jobs)'
  PROVE  StoreTypeOK'
BY DEF StoreTypeOK, QueueOK, diskVars

LEMMA ThreadStepTypes ==
  ASSUME StoreTypeOK, ControllerTypeOK, NEW t \in Threads, ThreadStep(t)
  PROVE  StoreTypeOK' /\ ControllerTypeOK'
<1>1. ThreadsOK /\ SessionOK /\ TasksOK
  BY ControllerTypes
<1>2. QueueOK(jobs)
  BY StoreTypes
<1> SUFFICES StoreTypeOK' /\ ThreadsOK' /\ SessionOK' /\ TasksOK'
  BY ControllerTypes DEF ControllerTypeOK, ThreadsOK, SessionOK, TasksOK
<1>3. CASE OpenTests(t)
  <2>1. ThreadsOK'
    BY <1>1, <1>3, ThreadGoes DEF OpenTests, Pcs
  <2> QED
    BY <1>1, <1>3, <2>1, StoreStays, TasksStay DEF OpenTests, SessionOK, sessionVars
<1>4. CASE OpenFails(t)
  <2>1. ThreadsOK'
    BY <1>1, <1>4, ThreadGoes DEF OpenFails, Pcs
  <2> QED
    BY <1>1, <1>4, <2>1, StoreStays, TasksStay DEF OpenFails, SessionOK, sessionVars
<1>5. CASE Opens(t)
  <2>1. ThreadsOK'
    BY <1>1, <1>5, ThreadGoes DEF Opens, Pcs
  <2>2. PICK s \in Sessions : OpenSession(s) /\ current' = s
    BY <1>5 DEF Opens
  <2>3. StoreTypeOK'
    BY <1>5, <2>2 DEF Opens, OpenSession, StoreTypeOK, Statuses
  <2>4. SessionOK'
    <3>1. current' \in 0..MaxSessions
      BY <2>2, SessionIds
    <3> QED
      BY <1>1, <1>5, <3>1 DEF Opens, SessionOK
  <2> QED
    BY <1>1, <1>5, <2>1, <2>3, <2>4, TasksStay DEF Opens
<1>6. CASE CaptureStarts(t)
  <2>1. ThreadsOK'
    BY <1>1, <1>6, ThreadGoes DEF CaptureStarts, Pcs
  <2> QED
    BY <1>1, <1>6, <2>1, StoreStays, TasksStay DEF CaptureStarts, SessionOK, sessionVars
<1>7. CASE StopTests(t)
  <2> DEFINE x == IF current = 0 THEN "idle" ELSE "halting"
  <2>1. /\ pc' = [pc EXCEPT ![t] = x] /\ x \in Pcs /\ (x = "halting" => current # 0)
        /\ x \in {"idle", "halting"}
        /\ snap' = [snap EXCEPT ![t] = current]
        /\ closing' = [closing EXCEPT ![t] = closing[t]]
        /\ exiting' = exiting
        /\ current \in 0..MaxSessions /\ closing[t] \in 0..MaxSessions
    BY <1>1, <1>7 DEF StopTests, Goes, Pcs, ThreadsOK, SessionOK
  <2> HIDE DEF x
  <2>2. ThreadsOK'
    BY <1>1, <2>1, ThreadMoves DEF SessionOK
  <2> QED
    BY <1>1, <1>7, <2>2, StoreStays, TasksStay DEF StopTests, SessionOK, sessionVars
<1>8. CASE CaptureStops(t)
  <2>1. ThreadsOK'
    <3>1. ~Exiting(t) => snap[t] # 0
      BY <1>1, <1>8 DEF CaptureStops, Goes, ThreadsOK
    <3> QED
      BY <1>1, <1>8, <3>1, ThreadGoes DEF CaptureStops, Pcs
  <2> QED
    BY <1>1, <1>8, <2>1, StoreStays, TasksStay DEF CaptureStops, SessionOK, sessionVars
<1>9. CASE CloseTests(t)
  <2>1. ThreadsOK'
    <3>1. ~Exiting(t) => snap[t] # 0
      BY <1>1, <1>9 DEF CloseTests, Goes, ThreadsOK
    <3> QED
      BY <1>1, <1>9, <3>1, ThreadGoes DEF CloseTests, Pcs
  <2> QED
    BY <1>1, <1>9, <2>1, StoreStays, TasksStay DEF CloseTests, SessionOK, sessionVars
<1>10. CASE ClosedAlready(t)
  <2>1. PICK f \in Pcs, x \in {"idle", "draining", "joining"} : Returns(t, f, x)
    BY <1>10 DEF ClosedAlready, Aborted, Pcs
  <2>2. ThreadsOK'
    BY <1>1, <1>10, <2>1, ThreadReturns DEF ClosedAlready
  <2> QED
    BY <1>1, <1>10, <2>2, StoreStays, TasksStay DEF ClosedAlready, SessionOK, sessionVars
<1>11. CASE CloseQueues(t)
  <2>1. current \in Sessions /\ current \in 0..MaxSessions
    BY <1>1, <1>11, SessionIds DEF CloseQueues, SessionOK
  <2>2. ThreadsOK'
    <3>1. ~Exiting(t) => snap[t] # 0
      BY <1>1, <1>11 DEF CloseQueues, Goes, ThreadsOK
    <3>2. /\ pc' = [pc EXCEPT ![t] = "closing"] /\ "closing" \in Pcs
          /\ snap' = [snap EXCEPT ![t] = snap[t]] /\ snap[t] \in 0..MaxSessions
          /\ closing' = [closing EXCEPT ![t] = current] /\ current # 0
          /\ exiting' = exiting /\ Exiting(t)' = Exiting(t)
      BY <1>1, <1>11 DEF CloseQueues, Goes, Pcs, ThreadsOK, Exiting
    <3> QED
      BY <1>1, <2>1, <3>1, <3>2, ThreadMoves DEF SessionOK
  <2>3. StoreTypeOK'
    <3>1. CloseJob(current, t) \in Jobs /\ CloseJob(current, t).s \in Sessions
      BY <2>1, JobTypes
    <3>2. QueueOK(jobs)'
      BY <1>2, <1>11, <3>1, QueueAppended DEF CloseQueues, QueueOK
    <3> QED
      BY <1>11, <3>2, StoreGrows DEF CloseQueues
  <2>4. TasksOK'
    <3>1. Due(current) \in Nat
      BY <2>1, DueIsNat
    <3> QED
      BY <1>1, <1>11, <2>1, <3>1 DEF CloseQueues, TasksOK, taskVars
  <2> QED
    BY <1>1, <1>11, <2>2, <2>3, <2>4 DEF CloseQueues, SessionOK, sessionVars
<1>12. CASE CloseTimesOut(t)
  <2>1. ThreadsOK'
    BY <1>1, <1>12, ThreadReturns DEF CloseTimesOut, Aborted
  <2>2. QueueOK(jobs)'
    BY <1>2, <1>12, QueueGivenUp DEF CloseTimesOut, QueueOK
  <2>3. StoreTypeOK'
    BY <1>12, <2>2, StoreGrows DEF CloseTimesOut
  <2> QED
    BY <1>1, <1>12, <2>1, <2>3, TasksStay DEF CloseTimesOut, SessionOK, sessionVars
<1>13. CASE ClosesTooLate(t)
  <2>1. ThreadsOK'
    BY <1>1, <1>13, ThreadReturns DEF ClosesTooLate, Aborted
  <2>2. StoreTypeOK'
    BY <1>13 DEF ClosesTooLate, StoreTypeOK, diskVars
  <2> QED
    BY <1>1, <1>13, <2>1, <2>2, TasksStay DEF ClosesTooLate, SessionOK, sessionVars
<1>14. CASE Closes(t)
  <2>1. ThreadsOK'
    BY <1>1, <1>14, ThreadReturns DEF Closes
  <2>2. StoreTypeOK'
    BY <1>14 DEF Closes, StoreTypeOK, diskVars
  <2>3. TasksOK'
    <3>1. CASE Exiting(t)
      BY <1>1, <1>14, <3>1 DEF Closes, TasksOK, taskVars
    <3>2. CASE ~Exiting(t)
      <4>1. snap[t] \in Sessions
        BY <1>1, <1>14, <3>2, SessionIds DEF Closes, Returns, Goes, ThreadsOK
      <4>2. /\ tasks' = [tasks EXCEPT ![t][snap[t]] = "scheduled"]
            /\ owed' = owed \union {snap[t]} /\ before' = before
        BY <1>14, <3>2 DEF Closes
      <4> QED
        BY <1>1, <4>1, <4>2 DEF TasksOK, TaskPcs
    <3> QED
      BY <3>1, <3>2
  <2>4. SessionOK'
    <3>1. current' \in 0..MaxSessions
      BY <1>14 DEF Closes
    <3>2. paused' \in BOOLEAN /\ UNCHANGED <<capture, exiting>>
      BY <1>14 DEF Closes
    <3> QED
      BY <1>1, <3>1, <3>2 DEF SessionOK
  <2> QED
    BY <2>1, <2>2, <2>3, <2>4
<1>15. CASE Pauses(t)
  <2>1. ThreadsOK'
    BY <1>1, <1>15, ThreadGoes DEF Pauses, Pcs
  <2> QED
    BY <1>1, <1>15, <2>1, StoreStays, TasksStay DEF Pauses, SessionOK
<1>16. CASE Resumes(t)
  <2>1. ThreadsOK'
    BY <1>1, <1>16, ThreadGoes DEF Resumes, Pcs
  <2> QED
    BY <1>1, <1>16, <2>1, StoreStays, TasksStay DEF Resumes, SessionOK
<1> QED
  BY <1>3, <1>4, <1>5, <1>6, <1>7, <1>8, <1>9, <1>10, <1>11, <1>12, <1>13, <1>14, <1>15,
     <1>16 DEF ThreadStep

-----------------------------------------------------------------------------
\* The other steps.

LEMMA CompileTypes ==
  ASSUME StoreTypeOK, ControllerTypeOK, NEW t \in Threads, NEW s \in Sessions,
         Compile(t, s)
  PROVE  StoreTypeOK' /\ ControllerTypeOK'
<1>1. ThreadsOK /\ SessionOK /\ TasksOK /\ QueueOK(jobs)
  BY ControllerTypes, StoreTypes
<1>2. PICK x \in TaskPcs : tasks' = [tasks EXCEPT ![t][s] = x]
  BY DEF Compile, CompileLoads, CompileFails, CompileReturns, Exports, Moves, TaskPcs
<1>3. owed' \in {owed, owed \ {s}} /\ before' \in {before, [before EXCEPT ![s] = 0]}
  BY DEF Compile, CompileLoads, CompileFails, CompileReturns, Exports
<1>4. TasksOK'
  BY <1>1, <1>2, <1>3 DEF TasksOK
<1>5. UNCHANGED <<current, paused, capture, exiting, pc, snap, closing>>
  BY DEF Compile, CompileLoads, CompileFails, CompileReturns, Exports, sessionVars,
     threadVars
<1>6. StoreTypeOK'
  <2>1. CASE UNCHANGED storeVars
    BY <2>1, StoreStays
  <2>2. CASE Exports(t, s)
    <3>1. MarkJob(s) \in Jobs /\ MarkJob(s).s \in Sessions
      BY JobTypes
    <3>2. QueueOK(Append(jobs, MarkJob(s)))
      BY <1>1, <3>1, QueueAppended
    <3>3. QueueOK(jobs)'
      BY <1>1, <2>2, <3>2 DEF Exports, QueueOK
    <3> QED
      BY <2>2, <3>3, StoreGrows DEF Exports
  <2> QED
    BY <2>1, <2>2 DEF Compile, CompileLoads, CompileFails, CompileReturns
<1> QED
  BY <1>1, <1>4, <1>5, <1>6 DEF ControllerTypeOK, ThreadsOK, SessionOK, TasksOK, Exiting

LEMMA ControllerStays == ControllerTypeOK /\ UNCHANGED controllerVars => ControllerTypeOK'
BY DEF ControllerTypeOK, controllerVars, Exiting

LEMMA MainStays == MainTypeOK /\ UNCHANGED mainVars => MainTypeOK'
BY DEF MainTypeOK, mainVars

LEMMA FeedStays == FeedTypeOK /\ UNCHANGED feedVars => FeedTypeOK'
BY DEF FeedTypeOK, feedVars

LEMMA Purges ==
  ASSUME StoreTypeOK, NEW gone, Purge(gone), UNCHANGED <<jobs, lastTs>>,
         writing' \in BOOLEAN
  PROVE  StoreTypeOK'
<1>1. status' \in [Sessions -> Statuses]
  BY DEF Purge, StoreTypeOK, Statuses
<1>2. timeline' \in [Sessions -> Seq(Rows)]
  <2>1. <<>> \in Seq(Rows) /\ \A s \in Sessions : timeline[s] \in Seq(Rows)
    BY DEF StoreTypeOK
  <2> QED
    BY <2>1 DEF Purge
<1> QED
  BY <1>1, <1>2 DEF StoreTypeOK

LEMMA ForgetsTypes ==
  ASSUME StoreTypeOK, ControllerTypeOK, MainTypeOK, FeedTypeOK, Forgets
  PROVE  StoreTypeOK' /\ ControllerTypeOK' /\ MainTypeOK' /\ FeedTypeOK'
<1>1. StoreTypeOK'
  <2>1. jobs' = <<>> /\ lastTs' = [s \in Sessions |-> 0] /\ writing' = FALSE
        /\ UNCHANGED <<status, timeline>>
    BY DEF Forgets, diskVars
  <2>2. lastTs' \in [Sessions -> Nat]
    BY <2>1
  <2>3. jobs' \in Seq(Jobs) /\ Len(jobs') = 0
    BY <2>1
  <2>4. writing' \in BOOLEAN
    BY <2>1
  <2> QED
    BY <2>1, <2>2, <2>3, <2>4 DEF StoreTypeOK
<1>2. ControllerTypeOK'
  <2>1. /\ current' = 0 /\ paused' = FALSE /\ capture' = FALSE /\ exiting' = FALSE
        /\ pc' = [t \in Threads |-> "idle"]
        /\ snap' = [t \in Threads |-> 0] /\ closing' = [t \in Threads |-> 0]
        /\ tasks' = [t \in Threads |-> [s \in Sessions |-> "none"]]
        /\ owed' = {} /\ before' = before
    BY DEF Forgets
  <2>2. [s \in Sessions |-> "none"] \in [Sessions -> TaskPcs]
    BY DEF TaskPcs
  <2>3. TasksOK'
    BY <2>1, <2>2, ControllerTypes DEF TasksOK
  <2>4. SessionOK'
    <3>1. current' \in 0..MaxSessions
      BY <2>1
    <3>2. paused' \in BOOLEAN /\ capture' \in BOOLEAN /\ exiting' \in BOOLEAN
      BY <2>1
    <3> QED
      BY <3>1, <3>2 DEF SessionOK
  <2>5. ThreadsOK'
    <3>1. pc' \in [Threads -> Pcs] /\ \A t \in Threads : pc'[t] = "idle"
      BY <2>1 DEF Pcs
    <3>2. snap' \in [Threads -> 0..MaxSessions] /\ closing' \in [Threads -> 0..MaxSessions]
      BY <2>1
    <3> QED
      BY <3>1, <3>2 DEF ThreadsOK
  <2> QED
    BY <2>3, <2>4, <2>5 DEF ControllerTypeOK, ThreadsOK, SessionOK, TasksOK
<1>3. MainTypeOK'
  BY DEF Forgets, MainTypeOK, Phases
<1>4. FeedTypeOK'
  <2>1. heard' = <<>> /\ loop' = {} /\ grab' = NoGrab /\ captures' = captures
    BY DEF Forgets
  <2>2. heard' \in Seq(0..MaxSessions)
    BY <2>1
  <2>3. grab' \in Grabs /\ (grab'.at # "none" => grab'.s # 0)
    BY <2>1 DEF NoGrab, Grabs
  <2> QED
    BY <2>1, <2>2, <2>3 DEF FeedTypeOK
<1> QED
  BY <1>1, <1>2, <1>3, <1>4

LEMMA LaunchTypes ==
  ASSUME StoreTypeOK, ControllerTypeOK, MainTypeOK, FeedTypeOK, Launch
  PROVE  StoreTypeOK' /\ ControllerTypeOK' /\ MainTypeOK' /\ FeedTypeOK'
<1>1. OpenSessions \subseteq Sessions
  BY DEF OpenSessions
<1>2. /\ phase' \in Phases /\ writing' \in BOOLEAN /\ dialogs' \subseteq Sessions
      /\ launches' = launches + 1 /\ launches < MaxLaunches
      /\ UNCHANGED <<jobs, lastTs, controllerVars, feedVars>>
      /\ \E gone : Purge(gone)
  BY <1>1 DEF Launch, Launches, PurgeExpired, Phases, StoreTypeOK, MainTypeOK
<1>3. StoreTypeOK'
  BY <1>2, Purges
<1>4. MainTypeOK'
  BY <1>2 DEF MainTypeOK
<1> QED
  BY <1>2, <1>3, <1>4, ControllerStays, FeedStays

LEMMA DialogTypes ==
  ASSUME StoreTypeOK, ControllerTypeOK, MainTypeOK, FeedTypeOK,
         Dialog \/ DialogCloses
  PROVE  StoreTypeOK' /\ ControllerTypeOK' /\ MainTypeOK' /\ FeedTypeOK'
<1>1. ThreadsOK /\ SessionOK /\ TasksOK /\ QueueOK(jobs)
  BY ControllerTypes, StoreTypes
<1>2. "qt" \in Threads
  BY DEF Threads
<1>3. CASE \E s \in Sessions : DialogCompile(s)
  <2>1. PICK s \in Sessions : DialogCompile(s)
    BY <1>3
  <2>2. s # 0 /\ s \in 0..MaxSessions
    BY SessionIds
  <2>3. ThreadsOK'
    <3>1. /\ pc' = [pc EXCEPT !["qt"] = "recovering"] /\ "recovering" \in Pcs
          /\ snap' = [snap EXCEPT !["qt"] = snap["qt"]]
          /\ snap["qt"] \in 0..MaxSessions
          /\ closing' = [closing EXCEPT !["qt"] = s] /\ exiting' = exiting
      BY <1>1, <1>2, <2>1 DEF DialogCompile, Goes, Pcs, ThreadsOK
    <3> QED
      BY <1>1, <1>2, <2>2, <3>1, ThreadMoves DEF SessionOK
  <2>4. StoreTypeOK'
    <3>1. CloseJob(s, "qt") \in Jobs /\ CloseJob(s, "qt").s \in Sessions
      BY <1>2, JobTypes
    <3>2. QueueOK(jobs)'
      BY <1>1, <2>1, <3>1, QueueAppended DEF DialogCompile, QueueOK
    <3> QED
      BY <2>1, <3>2, StoreGrows DEF DialogCompile
  <2>5. TasksOK'
    BY <1>1, <2>1, DueIsNat DEF DialogCompile, TasksOK, taskVars
  <2>6. ControllerTypeOK'
    <3>1. SessionOK'
      BY <1>1, <2>1 DEF DialogCompile, SessionOK, sessionVars
    <3> QED
      BY <2>3, <2>5, <3>1 DEF ControllerTypeOK, ThreadsOK, SessionOK, TasksOK
  <2>7. MainTypeOK' /\ FeedTypeOK'
    BY <2>1, FeedStays DEF DialogCompile, MainTypeOK
  <2> QED
    BY <2>4, <2>6, <2>7
<1>4. CASE \E s \in Sessions : DialogKeep(s)
  <2>1. UNCHANGED <<storeVars, controllerVars, phase, launches, feedVars>>
        /\ dialogs' \subseteq dialogs
    BY <1>4 DEF DialogKeep
  <2> QED
    BY <2>1, StoreStays, ControllerStays, FeedStays DEF MainTypeOK
<1>5. CASE \E s \in Sessions : DialogDelete(s)
  <2>1. /\ UNCHANGED <<jobs, lastTs, writing, controllerVars, phase, launches, feedVars>>
        /\ dialogs' \subseteq dialogs
        /\ \E gone : Purge(gone)
    BY <1>5 DEF DialogDelete
  <2>2. writing' \in BOOLEAN
    BY <2>1 DEF StoreTypeOK
  <2> QED
    BY <2>1, <2>2, Purges, ControllerStays, FeedStays DEF MainTypeOK
<1>6. CASE DialogCloses
  <2>1. closing["qt"] \in Sessions
    BY <1>1, <1>2, <1>6, SessionIds DEF DialogCloses, Returns, Goes, ThreadsOK
  <2>2. ThreadsOK'
    BY <1>1, <1>2, <1>6, ThreadReturns DEF DialogCloses
  <2>3. TasksOK'
    BY <1>1, <1>2, <1>6, <2>1 DEF DialogCloses, TasksOK, TaskPcs
  <2>4. SessionOK'
    BY <1>1, <1>6 DEF DialogCloses, SessionOK, sessionVars
  <2>5. StoreTypeOK'
    <3>1. QueueOK(jobs)'
      BY <1>1, <1>6, QueueGivenUp DEF DialogCloses, QueueOK
    <3>2. lastTs' \in [Sessions -> Nat]
      <4>1. lastTs' = lastTs \/ lastTs' = [lastTs EXCEPT ![closing["qt"]] = 0]
        BY <1>6 DEF DialogCloses
      <4>2. lastTs \in [Sessions -> Nat]
        BY DEF StoreTypeOK
      <4> QED
        BY <4>1, <4>2
    <3> QED
      BY <1>6, <3>1, <3>2 DEF DialogCloses, StoreTypeOK, QueueOK, diskVars
  <2>6. MainTypeOK' /\ FeedTypeOK'
    BY <1>6, MainStays, FeedStays DEF DialogCloses
  <2> QED
    BY <2>2, <2>3, <2>4, <2>5, <2>6
       DEF ControllerTypeOK, ThreadsOK, SessionOK, TasksOK
<1> QED
  BY <1>3, <1>4, <1>5, <1>6 DEF Dialog

\* An event is stamped and queued.
LEMMA EventQueued ==
  ASSUME StoreTypeOK, NEW s \in Sessions, NEW ts \in Stamps, NEW of \in 0..MaxSessions,
         NEW by \in Waiters
  PROVE  QueueOK(Append(jobs, AppendJob(s, [ts |-> ts, of |-> of], by)))
<1>1. [ts |-> ts, of |-> of] \in Rows
  BY DEF Rows
<1>2. AppendJob(s, [ts |-> ts, of |-> of], by) \in Jobs
      /\ AppendJob(s, [ts |-> ts, of |-> of], by).s \in Sessions
  BY <1>1, JobTypes
<1> QED
  BY <1>2, StoreTypes, QueueAppended

LEMMA FeedTypes ==
  ASSUME StoreTypeOK, ControllerTypeOK, MainTypeOK, FeedTypeOK,
         Speaks \/ Ambient \/ KeyframeTaken \/ Keyframe
  PROVE  StoreTypeOK' /\ ControllerTypeOK' /\ MainTypeOK' /\ FeedTypeOK'
<1>1. SessionOK /\ QueueOK(jobs)
  BY ControllerTypes, StoreTypes
<1>2. UNCHANGED <<controllerVars, mainVars>>
  BY DEF Speaks, Ambient, AmbientLost, AmbientTests, AmbientRecords, KeyframeTaken, Keyframe,
     KeyframeSkipped, KeyframeDone, KeyframeInserts
<1>3. ControllerTypeOK' /\ MainTypeOK'
  BY <1>2, ControllerStays, MainStays
<1>4. CASE Speaks
  <2>1. (IF paused THEN 0 ELSE current) \in 0..MaxSessions
    BY <1>1 DEF SessionOK
  <2>2. heard' \in Seq(0..MaxSessions)
    BY <1>4, <2>1 DEF Speaks, FeedTypeOK
  <2>3. StoreTypeOK'
    BY <1>4, StoreStays DEF Speaks
  <2>4. captures' \in 0..MaxCaptures
    BY <1>4 DEF Speaks, FeedTypeOK
  <2> QED
    BY <1>3, <1>4, <2>2, <2>3, <2>4 DEF Speaks, FeedTypeOK
<1>5. CASE AmbientLost \/ AmbientTests
  <2>1. /\ heard' = Tail(heard) /\ heard # <<>>
        /\ UNCHANGED <<storeVars, grab, captures>>
        /\ loop' \in {loop, {}, {Head(heard)}}
    BY <1>5 DEF AmbientLost, AmbientTests
  <2>2. heard' \in Seq(0..MaxSessions) /\ Head(heard) \in 0..MaxSessions
    BY <2>1 DEF FeedTypeOK
  <2>3. loop' \subseteq 0..MaxSessions
    BY <2>1, <2>2 DEF FeedTypeOK
  <2> QED
    BY <1>3, <2>1, <2>2, <2>3, StoreStays DEF FeedTypeOK
<1>6. CASE \E ts \in Stamps : AmbientRecords(ts)
  <2>1. PICK ts \in Stamps : AmbientRecords(ts)
    BY <1>6
  <2>2. PICK of \in loop :
          jobs' = IF current = 0 THEN jobs
                  ELSE Append(jobs, AppendJob(current, [ts |-> ts, of |-> of], Nobody))
    BY <2>1 DEF AmbientRecords
  <2>3. QueueOK(jobs')
    <3>1. CASE current = 0
      BY <1>1, <2>2, <3>1
    <3>2. CASE current # 0
      <4>1. current \in Sessions /\ of \in 0..MaxSessions /\ Nobody \in Waiters
        BY <1>1, <3>2, SessionIds DEF SessionOK, FeedTypeOK, Waiters
      <4> QED
        BY <2>2, <3>2, <4>1, EventQueued
    <3> QED
      BY <3>1, <3>2
  <2>4. StoreTypeOK'
    BY <2>1, <2>3, StoreGrows DEF AmbientRecords, QueueOK
  <2> QED
    BY <1>3, <2>1, <2>4 DEF AmbientRecords, FeedTypeOK
<1>7. CASE KeyframeTaken
  BY <1>1, <1>3, <1>7, StoreStays DEF KeyframeTaken, FeedTypeOK, Grabs, SessionOK
<1>8. CASE KeyframeSkipped
  BY <1>3, <1>8, StoreStays DEF KeyframeSkipped, FeedTypeOK, Grabs, NoGrab
<1>9. CASE KeyframeDone
  <2>1. QueueOK(jobs)'
    BY <1>1, <1>9, QueueGivenUp DEF KeyframeDone, QueueOK
  <2>2. StoreTypeOK'
    BY <1>9, <2>1, StoreGrows DEF KeyframeDone
  <2> QED
    BY <1>3, <1>9, <2>2 DEF KeyframeDone, FeedTypeOK, Grabs, NoGrab
<1>10. CASE \E ts \in Stamps : KeyframeInserts(ts)
  <2>1. PICK ts \in Stamps : KeyframeInserts(ts)
    BY <1>10
  <2>2. grab.s \in Sessions /\ grab.s \in 0..MaxSessions /\ "grabber" \in Waiters
    BY <2>1, SessionIds DEF KeyframeInserts, FeedTypeOK, Grabs, Waiters
  <2>3. QueueOK(jobs')
    BY <2>1, <2>2, EventQueued DEF KeyframeInserts
  <2>4. StoreTypeOK'
    BY <2>1, <2>3, StoreGrows DEF KeyframeInserts, QueueOK
  <2> QED
    BY <1>3, <2>1, <2>4 DEF KeyframeInserts, FeedTypeOK, Grabs
<1> QED
  BY <1>4, <1>5, <1>6, <1>7, <1>8, <1>9, <1>10 DEF Ambient, Keyframe

LEMMA PressTypes ==
  ASSUME StoreTypeOK, ControllerTypeOK, NEW t \in Threads,
         Press(t) \/ (t = "qt" /\ (Quit \/ QuitStops))
  PROVE  StoreTypeOK' /\ ControllerTypeOK'
<1>1. ThreadsOK /\ SessionOK /\ TasksOK /\ QueueOK(jobs)
  BY ControllerTypes, StoreTypes
<1> SUFFICES StoreTypeOK' /\ ThreadsOK' /\ SessionOK' /\ TasksOK'
  BY DEF ControllerTypeOK, ThreadsOK, SessionOK, TasksOK
<1>2. CASE Press(t)
  <2>1. PICK x \in {"opening", "stopping", "resuming", "pausing"} : Goes(t, "idle", x)
    BY <1>2 DEF Press, Toggle, PausePress
  <2>2. /\ UNCHANGED <<storeVars, sessionVars, capture, exiting, snap, closing>>
        /\ UNCHANGED <<taskVars, before>>
    BY <1>2 DEF Press, Toggle, PausePress
  <2>3. ThreadsOK'
    BY <1>1, <2>1, <2>2, ThreadGoes DEF Pcs
  <2> QED
    BY <1>1, <2>2, <2>3, StoreStays, TasksStay DEF SessionOK, sessionVars
<1>3. CASE t = "qt" /\ Quit
  <2> DEFINE x == IF current = 0 THEN "draining" ELSE "halting"
  <2>1. /\ pc' = [pc EXCEPT ![t] = x] /\ x \in Pcs /\ x \notin {"closing", "recovering"}
        /\ snap' = [snap EXCEPT ![t] = snap[t]]
        /\ closing' = [closing EXCEPT ![t] = closing[t]]
        /\ snap[t] \in 0..MaxSessions /\ closing[t] \in 0..MaxSessions
        /\ exiting = FALSE /\ exiting' = TRUE
    BY <1>1, <1>3 DEF Quit, ShutdownBegins, Goes, Pcs, ThreadsOK, SessionOK
  <2> HIDE DEF x
  <2>2. Exiting(t)'
    BY <1>3, <2>1 DEF Exiting
  <2>3. ThreadsOK'
    BY <1>1, <1>3, <2>1, <2>2, ThreadMoves DEF SessionOK
  <2> QED
    BY <1>1, <1>3, <2>1, <2>3, StoreStays, TasksStay
       DEF Quit, ShutdownBegins, SessionOK, sessionVars
<1>4. CASE t = "qt" /\ QuitStops
  <2>1. ThreadsOK'
    BY <1>1, <1>4, ThreadGoes DEF QuitStops, StoreStops, Pcs
  <2>2. QueueOK(jobs)'
    <3>1. StopJob("qt") \in Jobs /\ StopJob("qt").kind = "stop"
      BY JobTypes DEF Threads, StopJob, Job
    <3> QED
      BY <1>1, <1>4, <3>1, QueueAppended DEF QuitStops, StoreStops, QueueOK
  <2>3. StoreTypeOK'
    BY <1>4, <2>2, StoreGrows DEF QuitStops, StoreStops
  <2> QED
    BY <1>1, <1>4, <2>1, <2>3, TasksStay DEF QuitStops, StoreStops, SessionOK, sessionVars
<1> QED
  BY <1>2, <1>3, <1>4

LEMMA StepTypes == TypeOK /\ [Next]_vars => TypeOK'
<1> SUFFICES ASSUME TypeOK, [Next]_vars PROVE TypeOK'
  OBVIOUS
<1>1. StoreTypeOK /\ ControllerTypeOK /\ MainTypeOK /\ FeedTypeOK
  BY Types
<1> SUFFICES StoreTypeOK' /\ ControllerTypeOK' /\ MainTypeOK' /\ FeedTypeOK'
  BY DEF TypeOK, MainTypeOK, FeedTypeOK
<1>2. CASE Launch
  BY <1>1, <1>2, LaunchTypes
<1>3. CASE Crash \/ Exit
  BY <1>1, <1>3, ForgetsTypes DEF Crash, Exit
<1>4. CASE Quit \/ QuitStops
  BY <1>1, <1>4, PressTypes, MainStays, FeedStays DEF Threads, Quit, QuitStops
<1>5. CASE Dialog \/ DialogCloses
  BY <1>1, <1>5, DialogTypes
<1>6. CASE \E t \in Users : Press(t)
  BY <1>1, <1>6, PressTypes, MainStays, FeedStays DEF Press
<1>7. CASE \E t \in Threads : ThreadStep(t)
  BY <1>1, <1>7, ThreadStepTypes, MainStays, FeedStays DEF ThreadStep
<1>8. CASE \E t \in Threads, s \in Sessions : Compile(t, s)
  BY <1>1, <1>8, CompileTypes, MainStays, FeedStays DEF Compile
<1>9. CASE Writes
  BY <1>1, <1>9, WriterTypes, ControllerStays, MainStays, FeedStays DEF Writes
<1>10. CASE Speaks \/ Ambient \/ KeyframeTaken \/ Keyframe
  BY <1>1, <1>10, FeedTypes
<1>11. CASE UNCHANGED vars
  BY <1>1, <1>11, StoreStays, ControllerStays, MainStays, FeedStays DEF vars
<1> QED
  BY <1>2, <1>3, <1>4, <1>5, <1>6, <1>7, <1>8, <1>9, <1>10, <1>11 DEF Next

\* Every state of the Observer is well typed: queued jobs name sessions, and a
\* thread that is closing one knows which (main.py, controller.py, store.py).
THEOREM TypeCorrect == Spec => []TypeOK
BY InitTypes, StepTypes, PTL DEF Spec

-----------------------------------------------------------------------------
\* The timeline.

\* s still receives events.
Fed(s) ==
  \/ s = current
  \/ grab.at # "none" /\ grab.s = s
  \/ HasAppend(jobs, s)

AwaitsClose(t) == pc[t] \in {"closing", "recovering"}

\* What is remembered of an open session that is fed is not below its rows.
Remembered ==
  \A s \in Sessions :
    Fed(s) /\ status[s] = "open"
      => \A i \in 1..Len(timeline[s]) : timeline[s][i].ts <= lastTs[s]

\* Who waits for a session to be closed waits for a job in the queue.
CloseQueued ==
  \A t \in Threads :
    AwaitsClose(t) /\ status[closing[t]] = "open" => HasClose(jobs, t, closing[t])

\* Sessions that are spoken of have been opened.
Known ==
  /\ current # 0 => status[current] # "none"
  /\ \A t \in Threads : AwaitsClose(t) => status[closing[t]] # "none"
  /\ \A s \in dialogs : status[s] # "none"

Unwritten == \A s \in Sessions : status[s] = "none" => timeline[s] = <<>>

TimelineInv ==
  /\ Remembered /\ CloseQueued /\ Known /\ Unwritten /\ TimelineRises

LEMMA InitTimeline == Init => TimelineInv
<1> SUFFICES ASSUME Init PROVE TimelineInv
  OBVIOUS
<1>1. /\ status = [s \in Sessions |-> "none"]
      /\ timeline = [s \in Sessions |-> <<>>]
      /\ current = 0 /\ dialogs = {}
      /\ pc = [t \in Threads |-> "idle"]
  BY DEF Init, StoreInit, ControllerInit
<1>2. Remembered /\ Unwritten /\ TimelineRises
  BY <1>1 DEF Remembered, Unwritten, TimelineRises, OpenSessions
<1>3. CloseQueued /\ Known
  BY <1>1 DEF CloseQueued, Known, AwaitsClose
<1> QED
  BY <1>2, <1>3 DEF TimelineInv

\* A session's row and timeline stay as they are, or it stops being open.
Settles ==
  \A s \in Sessions :
    \/ status'[s] = status[s] /\ timeline'[s] = timeline[s]
    \/ status[s] # "none" /\ status'[s] \notin {"none", "open"}

\* The writer forgets closed sessions only.
Recalls == \A s \in Sessions : status[s] = "open" => lastTs'[s] = lastTs[s]

\* Events come from the current session and the keyframe's.
Feeds ==
  /\ current' \in {current, 0}
  /\ grab'.at # "none" => grab'.s = current \/ (grab.at # "none" /\ grab'.s = grab.s)
  /\ \A s \in Sessions :
       HasAppend(jobs', s)
         => HasAppend(jobs, s) \/ s = current \/ (grab.at # "none" /\ grab.s = s)

\* No close that is waited for is lost before it is carried out, and one is
\* queued for who starts to wait.
Closings ==
  \A t \in Threads :
    AwaitsClose(t)'
      => \/ /\ AwaitsClose(t) /\ closing'[t] = closing[t]
            /\ \/ status'[closing[t]] # "open"
               \/ HasClose(jobs, t, closing[t]) => HasClose(jobs', t, closing[t])
         \/ status[closing'[t]] # "none" /\ HasClose(jobs', t, closing'[t])

\* Most steps are like this.
LEMMA QuietStep ==
  ASSUME TypeOK, TypeOK', TimelineInv, Settles, Recalls, Feeds, Closings,
         \A s \in dialogs' : s \in dialogs \/ status[s] # "none"
  PROVE  TimelineInv'
<1>1. /\ Remembered /\ CloseQueued /\ Known /\ Unwritten /\ TimelineRises
      /\ dialogs' \subseteq Sessions
      /\ \A t \in Threads : AwaitsClose(t)' => closing'[t] \in Sessions
      /\ current' \in 0..MaxSessions
  BY SessionIds DEF TimelineInv, TypeOK, ControllerTypeOK, AwaitsClose
<1>2. \A s \in Sessions : Fed(s)' => Fed(s)
  BY <1>1, SessionIds DEF Feeds, Fed
<1>3. \A s \in Sessions : status'[s] = "open"
        => status[s] = "open" /\ timeline'[s] = timeline[s] /\ lastTs'[s] = lastTs[s]
  BY DEF Settles, Recalls
<1>4. \A s \in Sessions : status[s] # "none" => status'[s] # "none"
  BY DEF Settles
<1>5. Remembered'
  BY <1>1, <1>2, <1>3 DEF Remembered
<1>6. CloseQueued'
  BY <1>1, <1>3 DEF CloseQueued, Closings
<1>7. Known'
  <2>1. current' # 0 => status'[current'] # "none"
    BY <1>1, <1>4, SessionIds DEF Known, Feeds
  <2>2. \A t \in Threads : AwaitsClose(t)' => status'[closing'[t]] # "none"
    BY <1>1, <1>4 DEF Known, Closings
  <2>3. \A s \in dialogs' : status'[s] # "none"
    BY <1>1, <1>4 DEF Known
  <2> QED
    BY <2>1, <2>2, <2>3 DEF Known
<1>8. Unwritten'
  BY <1>1, <1>4 DEF Unwritten, Settles
<1>9. TimelineRises'
  BY <1>1, <1>3 DEF TimelineRises, OpenSessions
<1> QED
  BY <1>5, <1>6, <1>7, <1>8, <1>9 DEF TimelineInv

\* A row whose timestamp is above all others of its session.
LEMMA RowAppended ==
  ASSUME StoreTypeOK, NEW s \in Sessions, NEW r \in Rows,
         \A i \in 1..Len(timeline[s]) : timeline[s][i].ts < r.ts,
         \A i, j \in 1..Len(timeline[s]) : i < j => timeline[s][i].ts < timeline[s][j].ts
  PROVE  LET new == Append(timeline[s], r)
         IN  /\ \A i, j \in 1..Len(new) : i < j => new[i].ts < new[j].ts
             /\ \A i \in 1..Len(new) : new[i].ts <= r.ts
<1> DEFINE old == timeline[s]
           new == Append(old, r)
<1>1. /\ old \in Seq(Rows) /\ Len(new) = Len(old) + 1 /\ new[Len(old) + 1] = r
      /\ Len(old) \in Nat
      /\ \A i \in 1..Len(old) : new[i] = old[i] /\ old[i] \in Rows
  BY DEF StoreTypeOK
<1>2. \A i \in 1..Len(old) : old[i].ts < r.ts
  OBVIOUS
<1>3. \A i, j \in 1..Len(old) : i < j => old[i].ts < old[j].ts
  OBVIOUS
<1>4. r.ts \in Nat /\ \A i \in 1..Len(old) : old[i].ts \in Nat
  BY <1>1 DEF Rows
<1> HIDE DEF old, new
<1>5. ASSUME NEW i \in 1..Len(new), NEW j \in 1..Len(new), i < j
      PROVE  new[i].ts < new[j].ts
  <2>1. i \in 1..Len(old)
    BY <1>1, <1>5
  <2>2. CASE j = Len(old) + 1
    BY <2>1, <2>2, <1>1, <1>2
  <2>3. CASE j \in 1..Len(old)
    BY <2>1, <2>3, <1>1, <1>3, <1>5
  <2> QED
    BY <1>1, <2>2, <2>3
<1>6. \A i \in 1..Len(new) : new[i].ts <= r.ts
  BY <1>1, <1>2, <1>4
<1> QED
  BY <1>5, <1>6 DEF new, old

LEMMA NothingFed == UNCHANGED <<current, grab, jobs>> => Feeds
BY DEF Feeds

LEMMA NobodyCloses == UNCHANGED <<pc, closing, jobs>> => Closings
BY DEF Closings, AwaitsClose

\* A thread that does not wait for a close afterwards.
LEMMA ThreadAway ==
  ASSUME TypeOK, TypeOK', TimelineInv, NEW t \in Threads, NEW x,
         pc' = [pc EXCEPT ![t] = x], x \notin {"closing", "recovering"},
         closing' = closing \/ closing' = [closing EXCEPT ![t] = 0],
         UNCHANGED <<status, timeline, grab>>,
         dialogs' \subseteq dialogs,
         current' \in {current, 0},
         Recalls,
         \A s : HasAppend(jobs', s) => HasAppend(jobs, s),
         \A u, s : u # t /\ HasClose(jobs, u, s) => HasClose(jobs', u, s)
  PROVE  TimelineInv'
<1>1. Settles
  BY DEF Settles
<1>2. Feeds
  BY DEF Feeds
<1>3. Closings
  <2>1. pc \in [Threads -> Pcs] /\ closing \in [Threads -> 0..MaxSessions]
    BY DEF TypeOK, ControllerTypeOK
  <2>2. ASSUME NEW u \in Threads, AwaitsClose(u)'
        PROVE  /\ AwaitsClose(u) /\ closing'[u] = closing[u]
               /\ HasClose(jobs, u, closing[u]) => HasClose(jobs', u, closing[u])
    <3>1. u # t
      BY <2>1, <2>2 DEF AwaitsClose
    <3> QED
      BY <2>1, <2>2, <3>1 DEF AwaitsClose
  <2> QED
    BY <2>2 DEF Closings
<1>4. \A s \in dialogs' : s \in dialogs
  OBVIOUS
<1> QED
  BY <1>1, <1>2, <1>3, <1>4, QuietStep

\* Who no longer waits for a close has had it: the session is not open.
LEMMA Closed ==
  ASSUME TimelineInv, NEW t \in Threads, AwaitsClose(t), ~Waits(t)
  PROVE  status[closing[t]] # "open"
BY DEF TimelineInv, CloseQueued, HasClose, Waits

LEMMA Forgotten ==
  ASSUME TypeOK, TimelineInv, NEW t \in Threads, AwaitsClose(t), ~Waits(t),
         lastTs' = [lastTs EXCEPT ![closing[t]] = 0]
  PROVE  Recalls
<1>1. status[closing[t]] # "open"
  BY Closed
<1>2. lastTs \in [Sessions -> Nat]
  BY DEF TypeOK, StoreTypeOK
<1> QED
  BY <1>1, <1>2 DEF Recalls

\* A thread that waits for a close it has just queued.
LEMMA ThreadCloses ==
  ASSUME TypeOK, TypeOK', TimelineInv, NEW t \in Threads, NEW x, NEW s \in Sessions,
         pc' = [pc EXCEPT ![t] = x],
         closing' = [closing EXCEPT ![t] = s],
         jobs' = Append(jobs, CloseJob(s, t)),
         status[s] # "none",
         UNCHANGED <<status, timeline, lastTs, grab, current>>,
         dialogs' \subseteq dialogs
  PROVE  TimelineInv'
<1>1. /\ pc \in [Threads -> Pcs] /\ closing \in [Threads -> 0..MaxSessions]
      /\ QueueOK(jobs)
  BY StoreTypes DEF TypeOK, ControllerTypeOK
<1>2. /\ CloseJob(s, t) \in Jobs /\ CloseJob(s, t).s = s
      /\ CloseJob(s, t).kind = "close" /\ CloseJob(s, t).by = t
  BY JobTypes DEF CloseJob, Job
<1>3. /\ \A r : HasAppend(jobs', r) => HasAppend(jobs, r)
      /\ \A u, r : HasClose(jobs, u, r) => HasClose(jobs', u, r)
      /\ HasClose(jobs', t, s)
  BY <1>1, <1>2, QueueAppended
<1>4. Settles /\ Recalls
  BY DEF Settles, Recalls
<1>5. Feeds
  BY <1>3 DEF Feeds
<1>6. Closings
  <2>1. ASSUME NEW u \in Threads, u # t, AwaitsClose(u)'
        PROVE  AwaitsClose(u) /\ closing'[u] = closing[u]
    BY <1>1, <2>1 DEF AwaitsClose
  <2>2. closing'[t] = s
    BY <1>1
  <2> QED
    BY <1>3, <2>1, <2>2 DEF Closings
<1>7. \A r \in dialogs' : r \in dialogs
  OBVIOUS
<1> QED
  BY <1>4, <1>5, <1>6, <1>7, QuietStep

LEMMA WriterTimeline ==
  ASSUME TypeOK, TypeOK', TimelineInv, Writes
  PROVE  TimelineInv'
<1> DEFINE h == Head(jobs)
<1>1. UNCHANGED <<current, pc, closing, dialogs, grab>>
  BY DEF Writes, controllerVars, mainVars, feedVars
<1>2. jobs # <<>> /\ jobs' = Tail(jobs)
  BY DEF Writes, WriterStep, WriterAppends, WriterCloses, WriterMarks, WriterStops
<1>3. QueueOK(jobs) /\ StoreTypeOK /\ StoreTypeOK'
  BY StoreTypes DEF TypeOK
<1>4. /\ h \in Jobs
      /\ h.kind # "stop" => h.s \in Sessions
      /\ h.kind = "append" => HasAppend(jobs, h.s)
      /\ \A s : HasAppend(jobs', s) => HasAppend(jobs, s)
      /\ \A t, s : HasClose(jobs, t, s)
                     => HasClose(jobs', t, s) \/ (h.kind = "close" /\ h.s = s)
  BY <1>2, <1>3, QueueTaken
<1> HIDE DEF h
<1>5. Feeds /\ \A s \in dialogs' : s \in dialogs
  BY <1>1, <1>4 DEF Feeds
<1>6. /\ Remembered /\ CloseQueued /\ Known /\ Unwritten /\ TimelineRises
      /\ status \in [Sessions -> Statuses] /\ timeline \in [Sessions -> Seq(Rows)]
      /\ lastTs \in [Sessions -> Nat]
      /\ \A t \in Threads : AwaitsClose(t) => closing[t] \in Sessions
  BY <1>3, SessionIds DEF TimelineInv, StoreTypeOK, TypeOK, ControllerTypeOK, AwaitsClose
<1>7. CASE WriterAppends
  <2> DEFINE s   == h.s
             row == [h.row EXCEPT !.ts = Clamped(s, @)]
  <2>1. /\ lastTs' = [lastTs EXCEPT ![s] = row.ts]
        /\ timeline' = IF Exists(s)
                       THEN [timeline EXCEPT ![s] = Append(@, row)]
                       ELSE timeline
        /\ status' = status /\ h.kind = "append"
    BY <1>7 DEF WriterAppends, h
  <2>2. s \in Sessions /\ h.row \in Rows
    BY <1>4, <2>1 DEF Jobs
  <2>3. row \in Rows /\ row.ts > lastTs[s] /\ row.ts \in Nat
    <3> DEFINE old == h.row
    <3>1. old.ts \in Nat /\ old.of \in 0..MaxSessions
      BY <2>2 DEF Rows
    <3>2. Clamped(s, old.ts) \in Nat /\ Clamped(s, old.ts) > lastTs[s]
      BY <1>6, <2>2, <3>1 DEF Clamped
    <3>3. row = [ts |-> Clamped(s, old.ts), of |-> old.of]
      BY <2>2 DEF Rows
    <3> HIDE DEF old, row, s
    <3> QED
      BY <3>1, <3>2, <3>3 DEF Rows
  <2>4. Fed(s)
    BY <1>4, <2>1 DEF Fed
  <2> HIDE DEF s, row
  <2>5. CASE status[s] = "open"
    <3>1. timeline' = [timeline EXCEPT ![s] = Append(@, row)]
      BY <2>1, <2>5 DEF Exists
    <3>2. /\ timeline'[s] = Append(timeline[s], row) /\ lastTs'[s] = row.ts
          /\ \A r \in Sessions :
               r # s => timeline'[r] = timeline[r] /\ lastTs'[r] = lastTs[r]
      BY <1>6, <2>1, <2>2, <3>1
    <3>3. \A i \in 1..Len(timeline[s]) : timeline[s][i].ts < row.ts
      <4> SUFFICES ASSUME NEW i \in 1..Len(timeline[s])
                   PROVE  timeline[s][i].ts < row.ts
        OBVIOUS
      <4>1. timeline[s][i].ts <= lastTs[s]
        BY <1>6, <2>2, <2>4, <2>5 DEF Remembered
      <4>2. timeline[s][i] \in Rows
        BY <1>6, <2>2
      <4>3. timeline[s][i].ts \in Nat /\ lastTs[s] \in Nat
        BY <1>6, <2>2, <4>2 DEF Rows
      <4> QED
        BY <2>3, <4>1, <4>3
    <3>4. \A i, j \in 1..Len(timeline[s]) : i < j => timeline[s][i].ts < timeline[s][j].ts
      BY <1>6, <2>2, <2>5 DEF TimelineRises, OpenSessions
    <3>5. /\ \A i, j \in 1..Len(timeline'[s]) :
               i < j => timeline'[s][i].ts < timeline'[s][j].ts
          /\ \A i \in 1..Len(timeline'[s]) : timeline'[s][i].ts <= lastTs'[s]
      BY <1>3, <2>2, <2>3, <3>2, <3>3, <3>4, RowAppended
    <3>6. Remembered'
      BY <1>1, <1>4, <1>6, <2>1, <3>2, <3>5 DEF Remembered, Fed
    <3>7. TimelineRises'
      BY <1>6, <2>1, <3>2, <3>5 DEF TimelineRises, OpenSessions
    <3>8. CloseQueued' /\ Known'
      BY <1>1, <1>4, <1>6, <2>1 DEF CloseQueued, Known, AwaitsClose
    <3>9. Unwritten'
      BY <1>6, <2>1, <2>5, <3>2 DEF Unwritten
    <3> QED
      BY <3>6, <3>7, <3>8, <3>9 DEF TimelineInv
  <2>6. CASE status[s] # "open"
    <3>1. \A r \in Sessions : r # s => timeline'[r] = timeline[r] /\ lastTs'[r] = lastTs[r]
      BY <1>6, <2>1, <2>2
    <3>2. status[s] = "none" => timeline'[s] = timeline[s]
      BY <2>1 DEF Exists
    <3>3. Remembered'
      BY <1>1, <1>4, <1>6, <2>1, <2>6, <3>1 DEF Remembered, Fed
    <3>4. TimelineRises'
      BY <1>6, <2>1, <2>6, <3>1 DEF TimelineRises, OpenSessions
    <3>5. CloseQueued' /\ Known'
      BY <1>1, <1>4, <1>6, <2>1 DEF CloseQueued, Known, AwaitsClose
    <3>6. Unwritten'
      BY <1>6, <2>1, <3>1, <3>2 DEF Unwritten
    <3> QED
      BY <3>3, <3>4, <3>5, <3>6 DEF TimelineInv
  <2> QED
    BY <2>5, <2>6
<1>8. ASSUME NEW x \in {"closed", "compiled"}, h.s \in Sessions,
             status' = Updated(h.s, x), UNCHANGED <<timeline, lastTs>>,
             h.kind = "close" => x = "closed"
      PROVE  TimelineInv'
  <2>1. Settles /\ Recalls
    BY <1>6, <1>8 DEF Settles, Recalls, Updated, Exists
  <2>2. Closings
    <3>1. h.kind = "close" => status'[h.s] # "open"
      BY <1>6, <1>8 DEF Updated, Exists
    <3> QED
      BY <1>1, <1>4, <3>1 DEF Closings, AwaitsClose
  <2> QED
    BY <1>5, <2>1, <2>2, QuietStep
<1>9. CASE WriterCloses
  BY <1>4, <1>8, <1>9 DEF WriterCloses, h
<1>10. CASE WriterMarks
  BY <1>4, <1>8, <1>10 DEF WriterMarks, h
<1>11. CASE WriterStops
  <2>1. h.kind = "stop" /\ UNCHANGED <<status, timeline, lastTs>>
    BY <1>11 DEF WriterStops, h
  <2>2. Settles /\ Recalls
    BY <2>1 DEF Settles, Recalls
  <2>3. Closings
    BY <1>1, <1>4, <2>1 DEF Closings, AwaitsClose
  <2> QED
    BY <1>5, <2>2, <2>3, QuietStep
<1> QED
  BY <1>7, <1>9, <1>10, <1>11 DEF Writes, WriterStep

\* A new session has no rows, and nobody is about to close it.
LEMMA OpensTimeline ==
  ASSUME TypeOK, TypeOK', TimelineInv, NEW t \in Threads, Opens(t),
         UNCHANGED <<mainVars, feedVars>>
  PROVE  TimelineInv'
<1>1. PICK s \in Sessions : OpenSession(s) /\ current' = s
  BY DEF Opens
<1>2. /\ UNCHANGED <<timeline, jobs, lastTs, closing, dialogs, grab>>
      /\ pc' = [pc EXCEPT ![t] = "starting"]
  BY DEF Opens, Goes, mainVars, feedVars
<1>3. /\ Remembered /\ CloseQueued /\ Known /\ Unwritten /\ TimelineRises
      /\ status \in [Sessions -> Statuses] /\ pc \in [Threads -> Pcs]
      /\ \A u \in Threads : AwaitsClose(u) => closing[u] \in Sessions
  BY SessionIds DEF TimelineInv, TypeOK, StoreTypeOK, ControllerTypeOK, AwaitsClose
<1>4. /\ status[s] = "none" /\ status'[s] = "open" /\ timeline[s] = <<>>
      /\ \A r \in Sessions : r # s => status'[r] = status[r]
  BY <1>1, <1>3 DEF OpenSession, Fresh, Unwritten
<1>5. Len(timeline'[s]) = 0
  BY <1>2, <1>4
<1>6. \A u \in Threads : AwaitsClose(u)' => AwaitsClose(u) /\ closing[u] # s
  BY <1>2, <1>3, <1>4 DEF AwaitsClose, Known
<1>7. Remembered'
  <2>1. \A r \in Sessions : r # s /\ Fed(r)' => Fed(r)
    BY <1>1, <1>2 DEF Fed
  <2> QED
    BY <1>2, <1>3, <1>4, <1>5, <2>1 DEF Remembered
<1>8. CloseQueued'
  BY <1>2, <1>3, <1>4, <1>6 DEF CloseQueued
<1>9. Known'
  <2>1. \A u \in Threads : AwaitsClose(u)' => status'[closing'[u]] # "none"
    BY <1>2, <1>3, <1>4, <1>6 DEF Known
  <2>2. dialogs \subseteq Sessions
    BY DEF TypeOK
  <2> QED
    BY <1>1, <1>2, <1>3, <1>4, <2>1, <2>2 DEF Known
<1>10. Unwritten'
  BY <1>2, <1>3, <1>4 DEF Unwritten
<1>11. TimelineRises'
  BY <1>2, <1>3, <1>4, <1>5 DEF TimelineRises, OpenSessions
<1> QED
  BY <1>7, <1>8, <1>9, <1>10, <1>11 DEF TimelineInv

\* Without a process no session is fed.
LEMMA ForgetsTimeline ==
  ASSUME TypeOK, TypeOK', TimelineInv, Forgets
  PROVE  TimelineInv'
<1>1. /\ current' = 0 /\ grab' = NoGrab /\ jobs' = <<>> /\ dialogs' = {}
      /\ pc' = [t \in Threads |-> "idle"]
      /\ UNCHANGED <<status, timeline>>
  BY DEF Forgets, diskVars
<1>2. \A s \in Sessions : ~Fed(s)'
  <2>1. grab'.at = "none" /\ Len(jobs') = 0
    BY <1>1 DEF NoGrab
  <2> QED
    BY <1>1, <2>1, SessionIds DEF Fed, HasAppend
<1>3. \A t \in Threads : ~AwaitsClose(t)'
  BY <1>1 DEF AwaitsClose
<1> QED
  BY <1>1, <1>2, <1>3
     DEF TimelineInv, Remembered, CloseQueued, Known, Unwritten, TimelineRises, OpenSessions

LEMMA ThreadStepTimeline ==
  ASSUME TypeOK, TypeOK', TimelineInv, NEW t \in Threads, ThreadStep(t)
  PROVE  TimelineInv'
<1>1. UNCHANGED <<mainVars, feedVars>> /\ UNCHANGED <<dialogs, grab>>
  BY DEF ThreadStep, mainVars, feedVars
<1>2. QueueOK(jobs)
  BY StoreTypes DEF TypeOK
<1>3. CASE OpenTests(t) \/ OpenFails(t) \/ CaptureStarts(t) \/ StopTests(t)
             \/ CaptureStops(t) \/ CloseTests(t) \/ Pauses(t) \/ Resumes(t)
  <2>1. PICK x \in {"idle", "inserting", "halting", "testing", "queueing"} :
          pc' = [pc EXCEPT ![t] = x]
    BY <1>3 DEF OpenTests, OpenFails, CaptureStarts, StopTests, CaptureStops, CloseTests,
       Pauses, Resumes, Goes
  <2>2. UNCHANGED <<status, timeline, lastTs, jobs, current, closing>>
    BY <1>3 DEF OpenTests, OpenFails, CaptureStarts, StopTests, CaptureStops, CloseTests,
       Pauses, Resumes, storeVars, sessionVars
  <2>3. Recalls
    BY <2>2 DEF Recalls
  <2> QED
    BY <1>1, <2>1, <2>2, <2>3, ThreadAway
<1>4. CASE Opens(t)
  BY <1>1, <1>4, OpensTimeline
<1>5. CASE ClosedAlready(t)
  <2>1. PICK x : /\ pc' = [pc EXCEPT ![t] = x] /\ x \notin {"closing", "recovering"}
                 /\ closing' = [closing EXCEPT ![t] = 0]
    BY <1>5 DEF ClosedAlready, Returns, Goes, Aborted
  <2>2. UNCHANGED <<status, timeline, lastTs, jobs, current>>
    BY <1>5 DEF ClosedAlready, storeVars, sessionVars
  <2>3. Recalls
    BY <2>2 DEF Recalls
  <2> QED
    BY <1>1, <2>1, <2>2, <2>3, ThreadAway
<1>6. CASE CloseQueues(t)
  <2>1. /\ pc' = [pc EXCEPT ![t] = "closing"]
        /\ closing' = [closing EXCEPT ![t] = current]
        /\ jobs' = Append(jobs, CloseJob(current, t))
        /\ current # 0
        /\ UNCHANGED <<status, timeline, lastTs, current>>
    BY <1>6 DEF CloseQueues, Goes, diskVars, sessionVars
  <2>2. current \in Sessions /\ status[current] # "none"
    BY <2>1, SessionIds DEF TypeOK, ControllerTypeOK, TimelineInv, Known
  <2> QED
    BY <1>1, <2>1, <2>2, ThreadCloses
<1>7. CASE CloseTimesOut(t)
  <2>1. /\ pc' = [pc EXCEPT ![t] = Aborted(t)]
        /\ Aborted(t) \notin {"closing", "recovering"}
        /\ closing' = [closing EXCEPT ![t] = 0]
    BY <1>7 DEF CloseTimesOut, Returns, Goes, Aborted
  <2>2. UNCHANGED <<status, timeline, lastTs, current>> /\ jobs' = GivenUp(t)
    BY <1>7 DEF CloseTimesOut, diskVars, sessionVars
  <2>3. Recalls
    BY <2>2 DEF Recalls
  <2>4. /\ \A s : HasAppend(jobs', s) => HasAppend(jobs, s)
        /\ \A u, s : u # t /\ HasClose(jobs, u, s) => HasClose(jobs', u, s)
    BY <1>2, <2>2, QueueGivenUp
  <2> QED
    BY <1>1, <2>1, <2>2, <2>3, <2>4, ThreadAway
<1>8. CASE ClosesTooLate(t) \/ Closes(t)
  <2>1. PICK x : /\ pc' = [pc EXCEPT ![t] = x] /\ x \notin {"closing", "recovering"}
                 /\ closing' = [closing EXCEPT ![t] = 0]
    BY <1>8 DEF ClosesTooLate, Closes, Returns, Goes, Aborted
  <2>2. /\ UNCHANGED <<status, timeline, jobs>> /\ current' \in {current, 0}
        /\ lastTs' = [lastTs EXCEPT ![closing[t]] = 0]
        /\ AwaitsClose(t) /\ ~Waits(t)
    BY <1>8 DEF ClosesTooLate, Closes, Returns, Goes, diskVars, sessionVars, AwaitsClose
  <2>3. Recalls
    BY <2>2, Forgotten
  <2> QED
    BY <1>1, <2>1, <2>2, <2>3, ThreadAway
<1> QED
  BY <1>3, <1>4, <1>5, <1>6, <1>7, <1>8 DEF ThreadStep

LEMMA DialogTimeline ==
  ASSUME TypeOK, TypeOK', TimelineInv, Dialog \/ DialogCloses
  PROVE  TimelineInv'
<1>1. QueueOK(jobs) /\ "qt" \in Threads
  BY StoreTypes DEF TypeOK, Threads
<1>2. CASE \E s \in Sessions : DialogCompile(s)
  <2>1. PICK s \in Sessions : DialogCompile(s)
    BY <1>2
  <2>2. /\ pc' = [pc EXCEPT !["qt"] = "recovering"]
        /\ closing' = [closing EXCEPT !["qt"] = s]
        /\ jobs' = Append(jobs, CloseJob(s, "qt"))
        /\ UNCHANGED <<status, timeline, lastTs, current, grab>>
        /\ dialogs' \subseteq dialogs
    BY <2>1 DEF DialogCompile, Goes, diskVars, sessionVars, feedVars
  <2>3. status[s] # "none"
    BY <2>1 DEF DialogCompile, TimelineInv, Known
  <2> QED
    BY <1>1, <2>2, <2>3, ThreadCloses
<1>3. CASE \E s \in Sessions : DialogKeep(s)
  <2>1. /\ UNCHANGED <<status, timeline, lastTs, jobs, current, grab, pc, closing>>
        /\ \A s \in dialogs' : s \in dialogs
    BY <1>3 DEF DialogKeep, storeVars, controllerVars, feedVars
  <2>2. Settles /\ Recalls
    BY <2>1 DEF Settles, Recalls
  <2> QED
    BY <2>1, <2>2, NothingFed, NobodyCloses, QuietStep
<1>4. CASE \E s \in Sessions : DialogDelete(s)
  <2>1. PICK s \in Sessions : DialogDelete(s)
    BY <1>4
  <2>2. /\ UNCHANGED <<lastTs, jobs, current, grab, pc, closing>>
        /\ \A r \in dialogs' : r \in dialogs
    BY <2>1 DEF DialogDelete, controllerVars, feedVars
  <2>3. Recalls
    BY <2>2 DEF Recalls
  <2>4. Settles
    BY <2>1 DEF DialogDelete, Purge, Settles, TimelineInv, Known
  <2> QED
    BY <2>2, <2>3, <2>4, NothingFed, NobodyCloses, QuietStep
<1>5. CASE DialogCloses
  <2>1. /\ pc' = [pc EXCEPT !["qt"] = "idle"]
        /\ closing' = [closing EXCEPT !["qt"] = 0]
        /\ UNCHANGED <<status, timeline, current, dialogs, grab>>
        /\ AwaitsClose("qt")
    BY <1>5 DEF DialogCloses, Returns, Goes, diskVars, sessionVars, mainVars, feedVars,
       AwaitsClose
  <2>2. CASE /\ ~Waits("qt") /\ UNCHANGED jobs
             /\ lastTs' = [lastTs EXCEPT ![closing["qt"]] = 0]
    <3>1. Recalls
      BY <1>1, <2>1, <2>2, Forgotten
    <3> QED
      BY <1>1, <2>1, <2>2, <3>1, ThreadAway
  <2>3. CASE jobs' = GivenUp("qt") /\ UNCHANGED lastTs
    <3>1. Recalls
      BY <2>3 DEF Recalls
    <3>2. /\ \A s : HasAppend(jobs', s) => HasAppend(jobs, s)
          /\ \A u, s : u # "qt" /\ HasClose(jobs, u, s) => HasClose(jobs', u, s)
      BY <1>1, <2>3, QueueGivenUp
    <3> QED
      BY <1>1, <2>1, <3>1, <3>2, ThreadAway
  <2> QED
    BY <1>5, <2>2, <2>3 DEF DialogCloses
<1> QED
  BY <1>2, <1>3, <1>4, <1>5 DEF Dialog

LEMMA FeedTimeline ==
  ASSUME TypeOK, TypeOK', TimelineInv, Speaks \/ Ambient \/ KeyframeTaken \/ Keyframe
  PROVE  TimelineInv'
<1>1. /\ UNCHANGED <<status, timeline, lastTs, current, pc, closing>>
      /\ \A s \in dialogs' : s \in dialogs
  BY DEF Speaks, Ambient, AmbientLost, AmbientTests, AmbientRecords, KeyframeTaken, Keyframe,
     KeyframeSkipped, KeyframeDone, KeyframeInserts, storeVars, controllerVars, mainVars,
     diskVars
<1>2. Settles /\ Recalls /\ QueueOK(jobs)
  BY <1>1, StoreTypes DEF Settles, Recalls, TypeOK
<1> SUFFICES Feeds /\ Closings
  BY <1>1, <1>2, QuietStep
<1>3. CASE Speaks \/ AmbientLost \/ AmbientTests \/ KeyframeTaken \/ KeyframeSkipped
  <2>1. jobs' = jobs /\ (grab'.at # "none" => grab' = grab \/ grab'.s = current)
    BY <1>3 DEF Speaks, AmbientLost, AmbientTests, KeyframeTaken, KeyframeSkipped, storeVars,
       NoGrab
  <2> QED
    BY <1>1, <2>1, NobodyCloses DEF Feeds
<1>4. CASE KeyframeDone
  <2>1. jobs' = GivenUp("grabber") /\ grab'.at = "none"
    BY <1>4 DEF KeyframeDone, NoGrab
  <2>2. /\ \A s : HasAppend(jobs', s) => HasAppend(jobs, s)
        /\ \A u \in Threads : \A s : HasClose(jobs, u, s) => HasClose(jobs', u, s)
    BY <1>2, <2>1, QueueGivenUp DEF Threads
  <2> QED
    BY <1>1, <2>1, <2>2 DEF Feeds, Closings, AwaitsClose
<1>5. ASSUME NEW s \in Sessions, NEW j \in Jobs, j.kind = "append", j.s = s,
             jobs' = Append(jobs, j),
             s = current \/ (grab.at # "none" /\ grab.s = s),
             grab'.at # "none" => grab.at # "none" /\ grab'.s = grab.s
      PROVE  Feeds /\ Closings
  <2>1. /\ \A r : HasAppend(jobs', r) => HasAppend(jobs, r) \/ r = s
        /\ \A u, r : HasClose(jobs, u, r) => HasClose(jobs', u, r)
    BY <1>2, <1>5, QueueAppended
  <2> QED
    BY <1>1, <1>5, <2>1 DEF Feeds, Closings, AwaitsClose
<1>6. CASE \E ts \in Stamps : AmbientRecords(ts)
  <2>1. PICK ts \in Stamps : AmbientRecords(ts)
    BY <1>6
  <2>2. grab' = grab
    BY <2>1 DEF AmbientRecords
  <2>3. PICK of \in loop :
          jobs' = IF current = 0 THEN jobs
                  ELSE Append(jobs, AppendJob(current, [ts |-> ts, of |-> of], Nobody))
    BY <2>1 DEF AmbientRecords
  <2>4. CASE current = 0
    BY <1>1, <2>2, <2>3, <2>4, NothingFed, NobodyCloses
  <2>5. CASE current # 0
    <3>1. /\ current \in Sessions /\ Nobody \in Waiters
          /\ [ts |-> ts, of |-> of] \in Rows
      BY <2>5, SessionIds DEF TypeOK, ControllerTypeOK, Waiters, Rows
    <3> DEFINE j == AppendJob(current, [ts |-> ts, of |-> of], Nobody)
    <3>2. j \in Jobs /\ j.s = current /\ j.kind = "append"
      BY <3>1, JobTypes DEF AppendJob, Job
    <3>3. jobs' = Append(jobs, j)
      BY <2>3, <2>5
    <3> HIDE DEF j
    <3> QED
      BY <1>5, <2>2, <3>1, <3>2, <3>3
  <2> QED
    BY <2>4, <2>5
<1>7. CASE \E ts \in Stamps : KeyframeInserts(ts)
  <2>1. PICK ts \in Stamps : KeyframeInserts(ts)
    BY <1>7
  <2> DEFINE j == AppendJob(grab.s, [ts |-> ts, of |-> grab.s], "grabber")
  <2>2. /\ grab.at # "none" /\ grab' = [grab EXCEPT !.at = "inserting"]
        /\ jobs' = Append(jobs, j)
    BY <2>1 DEF KeyframeInserts
  <2>3. /\ grab.s \in Sessions /\ grab'.s = grab.s
        /\ "grabber" \in Waiters /\ [ts |-> ts, of |-> grab.s] \in Rows
    BY <2>2, SessionIds DEF TypeOK, Grabs, Waiters, Rows
  <2>4. j \in Jobs /\ j.s = grab.s /\ j.kind = "append"
    BY <2>3, JobTypes DEF AppendJob, Job
  <2> HIDE DEF j
  <2> QED
    BY <1>5, <2>2, <2>3, <2>4
<1> QED
  BY <1>3, <1>4, <1>6, <1>7 DEF Ambient, Keyframe

LEMMA StepTimeline ==
  ASSUME TypeOK, TypeOK', TimelineInv, [Next]_vars
  PROVE  TimelineInv'
<1>1. QueueOK(jobs)
  BY StoreTypes DEF TypeOK
<1>2. CASE Launch
  <2>1. PICK old \in SUBSET {s \in Sessions : status[s] \in {"closed", "compiled"}} :
          Purge(old)
    BY <1>2 DEF Launch, Launches, PurgeExpired
  <2>2. UNCHANGED <<jobs, lastTs, current, pc, closing, grab>>
    BY <1>2 DEF Launch, Launches, PurgeExpired, controllerVars, feedVars
  <2>3. Settles /\ Recalls
    BY <2>1, <2>2 DEF Purge, Settles, Recalls
  <2>4. \A s \in dialogs' : s \in dialogs \/ status[s] # "none"
    BY <1>2 DEF Launch, Launches, PurgeExpired, OpenSessions
  <2> QED
    BY <2>2, <2>3, <2>4, NothingFed, NobodyCloses, QuietStep
<1>3. CASE Crash \/ Exit
  BY <1>3, ForgetsTimeline DEF Crash, Exit
<1>4. ASSUME NEW t \in Threads, Press(t) \/ (t = "qt" /\ (Quit \/ QuitStops))
      PROVE  TimelineInv'
  <2>1. PICK x : pc' = [pc EXCEPT ![t] = x] /\ x \notin {"closing", "recovering"}
    BY <1>4 DEF Press, Toggle, PausePress, Quit, ShutdownBegins, QuitStops, StoreStops, Goes
  <2>2. UNCHANGED <<status, timeline, lastTs, current, closing, dialogs, grab>>
    BY <1>4 DEF Press, Toggle, PausePress, Quit, ShutdownBegins, QuitStops, StoreStops,
       storeVars, diskVars, sessionVars, mainVars, feedVars
  <2>3. jobs' = jobs \/ jobs' = Append(jobs, StopJob("qt"))
    BY <1>4 DEF Press, Toggle, PausePress, Quit, ShutdownBegins, QuitStops, StoreStops,
       storeVars
  <2>4. /\ \A s : HasAppend(jobs', s) => HasAppend(jobs, s)
        /\ \A u, s : HasClose(jobs, u, s) => HasClose(jobs', u, s)
    <3>1. CASE jobs' = jobs
      BY <3>1
    <3>2. CASE jobs' = Append(jobs, StopJob("qt"))
      <4>1. StopJob("qt") \in Jobs /\ StopJob("qt").kind = "stop"
        BY JobTypes DEF Threads, StopJob, Job
      <4> QED
        BY <1>1, <3>2, <4>1, QueueAppended
    <3> QED
      BY <2>3, <3>1, <3>2
  <2>5. Recalls
    BY <2>2 DEF Recalls
  <2> QED
    BY <2>1, <2>2, <2>4, <2>5, ThreadAway
<1>5. CASE Quit \/ QuitStops
  BY <1>4, <1>5 DEF Threads
<1>6. CASE Dialog \/ DialogCloses
  BY <1>6, DialogTimeline
<1>7. CASE \E t \in Users : Press(t)
  BY <1>4, <1>7
<1>8. CASE \E t \in Threads : ThreadStep(t)
  BY <1>8, ThreadStepTimeline
<1>9. CASE \E t \in Threads, s \in Sessions : Compile(t, s)
  <2>1. PICK t \in Threads, s \in Sessions : Compile(t, s)
    BY <1>9
  <2>2. /\ UNCHANGED <<status, timeline, lastTs, current, pc, closing, dialogs, grab>>
        /\ jobs' = jobs \/ jobs' = Append(jobs, MarkJob(s))
    BY <2>1 DEF Compile, CompileLoads, CompileFails, CompileReturns, Exports, storeVars,
       diskVars, sessionVars, threadVars, mainVars, feedVars
  <2>3. /\ \A r : HasAppend(jobs', r) => HasAppend(jobs, r)
        /\ \A u, r : HasClose(jobs, u, r) => HasClose(jobs', u, r)
    <3>1. CASE jobs' = jobs
      BY <3>1
    <3>2. CASE jobs' = Append(jobs, MarkJob(s))
      <4>1. /\ MarkJob(s) \in Jobs /\ MarkJob(s).s \in Sessions
            /\ MarkJob(s).kind # "append"
        BY JobTypes DEF MarkJob, Job
      <4> QED
        BY <1>1, <3>2, <4>1, QueueAppended
    <3> QED
      BY <2>2, <3>1, <3>2
  <2>4. Settles /\ Recalls
    BY <2>2 DEF Settles, Recalls
  <2>5. Feeds /\ Closings
    BY <2>2, <2>3 DEF Feeds, Closings, AwaitsClose
  <2> QED
    BY <2>2, <2>4, <2>5, QuietStep
<1>10. CASE Writes
  BY <1>10, WriterTimeline
<1>11. CASE Speaks \/ Ambient \/ KeyframeTaken \/ Keyframe
  BY <1>11, FeedTimeline
<1>12. CASE UNCHANGED vars
  <2>1. UNCHANGED <<status, timeline, lastTs, jobs, current, pc, closing, dialogs, grab>>
    BY <1>12 DEF vars, storeVars, controllerVars, mainVars, feedVars
  <2>2. Settles /\ Recalls
    BY <2>1 DEF Settles, Recalls
  <2> QED
    BY <2>1, <2>2, NothingFed, NobodyCloses, QuietStep
<1> QED
  BY <1>2, <1>3, <1>5, <1>6, <1>7, <1>8, <1>9, <1>10, <1>11, <1>12 DEF Next

\* The rows of an open session are stored in the order of their timestamps,
\* whatever the threads, the clock, crashes and time-outs do
\* (_do_insert_event, close_session).
THEOREM Rises == Spec => []TimelineRises
<1>1. TypeOK /\ TypeOK' /\ TimelineInv /\ [Next]_vars => TimelineInv'
  BY StepTimeline
<1>2. TimelineInv => TimelineRises
  BY DEF TimelineInv
<1> QED
  BY <1>1, <1>2, InitTimeline, TypeCorrect, PTL DEF Spec

-----------------------------------------------------------------------------
(***************************************************************************)
(* Sessions this process speaks of: all of them have a row, and no dialog  *)
(* is shown for one.  Without a process there are none (Down).             *)
(***************************************************************************)
Spoken(s) ==
  \/ s = current
  \/ \E t \in Threads : \/ snap[t] = s
                        \/ AwaitsClose(t) /\ closing[t] = s
                        \/ tasks[t][s] # "none"

Mine ==
  /\ \A s \in Sessions : Spoken(s) => Exists(s) /\ s \notin dialogs
  /\ \A s \in dialogs : Exists(s)

Down ==
  phase # "up" =>
    /\ jobs = <<>> /\ current = 0 /\ grab.at = "none" /\ dialogs = {}
    /\ \A t \in Threads :
         /\ pc[t] = "idle" /\ snap[t] = 0
         /\ \A s \in Sessions : tasks[t][s] = "none"

LEMMA MineInit == Init => Mine /\ Down
<1> SUFFICES ASSUME Init PROVE Mine /\ Down
  OBVIOUS
<1>1. \A s \in Sessions : ~Spoken(s)
  BY SessionIds DEF Init, ControllerInit, Spoken, AwaitsClose
<1> QED
  BY <1>1 DEF Init, StoreInit, ControllerInit, FeedInit, NoGrab, Mine, Down

LEMMA MineKept ==
  ASSUME TypeOK, Mine, dialogs' \subseteq dialogs,
         \A s \in Sessions : Exists(s) => Exists(s)' \/ (s \in dialogs /\ s \notin dialogs'),
         \A s \in Sessions : Spoken(s)' => Spoken(s) \/ (Exists(s)' /\ s \notin dialogs')
  PROVE  Mine'
BY DEF Mine, TypeOK

LEMMA Unspoken == TypeOK /\ Down /\ phase # "up" => \A s \in Sessions : ~Spoken(s)
BY SessionIds DEF Down, Spoken, AwaitsClose

LEMMA ForgetsSpoken ==
  ASSUME Forgets PROVE Down' /\ \A s \in Sessions : ~Spoken(s)'
<1>1. /\ current' = 0 /\ grab' = NoGrab /\ jobs' = <<>> /\ dialogs' = {}
      /\ pc' = [t \in Threads |-> "idle"] /\ snap' = [t \in Threads |-> 0]
      /\ tasks' = [t \in Threads |-> [s \in Sessions |-> "none"]]
  BY DEF Forgets
<1> QED
  BY <1>1, SessionIds DEF Down, Spoken, AwaitsClose, NoGrab

\* A session exists as long as it is not purged.
LEMMA ExistsUpdated ==
  ASSUME StoreTypeOK, NEW r \in Sessions, NEW x \in {"closed", "compiled"},
         status' = Updated(r, x), NEW s \in Sessions
  PROVE  Exists(s)' <=> Exists(s)
BY DEF StoreTypeOK, Updated, Exists

\* What the threads do with their variables.
LEMMA ThreadMine ==
  ASSUME TypeOK, TimelineInv, Mine, NEW t \in Threads, ThreadStep(t)
  PROVE  Mine'
<1>1. /\ UNCHANGED dialogs
      /\ pc \in [Threads -> Pcs] /\ snap \in [Threads -> 0..MaxSessions]
      /\ closing \in [Threads -> 0..MaxSessions]
      /\ tasks \in [Threads -> [Sessions -> TaskPcs]]
      /\ current \in 0..MaxSessions
      /\ status \in [Sessions -> Statuses]
  BY DEF ThreadStep, mainVars, TypeOK, ControllerTypeOK, StoreTypeOK
<1>2. CASE Opens(t)
  <2>1. PICK r \in Sessions : OpenSession(r) /\ current' = r
    BY <1>2 DEF Opens
  <2>2. /\ pc' = [pc EXCEPT ![t] = "starting"] /\ UNCHANGED <<snap, closing, tasks>>
    BY <1>2 DEF Opens, Goes, taskVars
  <2>3. status[r] = "none" /\ status' = [status EXCEPT ![r] = "open"]
    BY <2>1 DEF OpenSession, Fresh
  <2>4. r \notin dialogs
    BY <2>3 DEF TimelineInv, Known
  <2>5. Exists(r)' /\ \A s \in Sessions : Exists(s) => Exists(s)'
    BY <1>1, <2>3 DEF Exists
  <2>6. \A s \in Sessions : Spoken(s)' => Spoken(s) \/ s = r
    BY <1>1, <2>1, <2>2 DEF Spoken, AwaitsClose
  <2> QED BY <1>1, <2>4, <2>5, <2>6, MineKept
<1>3. ASSUME UNCHANGED status, \A s \in Sessions : Spoken(s)' => Spoken(s)
      PROVE  Mine'
  BY <1>1, <1>3, MineKept DEF Exists
<1>4. CASE OpenTests(t) \/ OpenFails(t) \/ CaptureStarts(t) \/ StopTests(t)
             \/ CaptureStops(t) \/ CloseTests(t) \/ Pauses(t) \/ Resumes(t)
  <2>1. PICK x \in {"idle", "inserting", "halting", "testing", "queueing"} :
          pc' = [pc EXCEPT ![t] = x]
    BY <1>4 DEF OpenTests, OpenFails, CaptureStarts, StopTests, CaptureStops, CloseTests,
       Pauses, Resumes, Goes
  <2>2. /\ UNCHANGED <<status, current, closing, tasks>>
        /\ snap' = snap \/ snap' = [snap EXCEPT ![t] = current]
    BY <1>4 DEF OpenTests, OpenFails, CaptureStarts, StopTests, CaptureStops, CloseTests,
       Pauses, Resumes, storeVars, sessionVars, taskVars
  <2>3. \A u \in Threads : snap'[u] \in {snap[u], current}
    BY <1>1, <2>2
  <2>4. \A u \in Threads : AwaitsClose(u)' => AwaitsClose(u)
    BY <1>1, <2>1 DEF AwaitsClose
  <2>5. \A s \in Sessions : Spoken(s)' => Spoken(s)
    BY <2>2, <2>3, <2>4 DEF Spoken
  <2> QED BY <1>3, <2>2, <2>5
<1>5. CASE ClosedAlready(t) \/ CloseTimesOut(t) \/ ClosesTooLate(t)
  <2>1. PICK x : /\ pc' = [pc EXCEPT ![t] = x] /\ x \notin {"closing", "recovering"}
                 /\ closing' = [closing EXCEPT ![t] = 0]
                 /\ snap' = [snap EXCEPT ![t] = 0]
    BY <1>5 DEF ClosedAlready, CloseTimesOut, ClosesTooLate, Returns, Goes, Aborted
  <2>2. UNCHANGED <<status, current, tasks>>
    BY <1>5 DEF ClosedAlready, CloseTimesOut, ClosesTooLate, storeVars, diskVars,
       sessionVars, taskVars
  <2>3. \A s \in Sessions : Spoken(s)' => Spoken(s)
    BY <1>1, <2>1, <2>2, SessionIds DEF Spoken, AwaitsClose
  <2> QED BY <1>3, <2>2, <2>3
<1>6. CASE CloseQueues(t)
  <2>1. /\ pc' = [pc EXCEPT ![t] = "closing"]
        /\ closing' = [closing EXCEPT ![t] = current]
        /\ UNCHANGED <<status, current, snap, tasks>>
    BY <1>6 DEF CloseQueues, Goes, diskVars, sessionVars, taskVars
  <2>2. \A s \in Sessions : Spoken(s)' => Spoken(s)
    BY <1>1, <2>1 DEF Spoken, AwaitsClose
  <2> QED BY <1>3, <2>1, <2>2
<1>7. CASE Closes(t)
  <2>1. PICK x \in {"idle", "draining"} :
          /\ pc' = [pc EXCEPT ![t] = x]
          /\ closing' = [closing EXCEPT ![t] = 0]
          /\ snap' = [snap EXCEPT ![t] = 0]
    <3>1. Returns(t, "closing", IF Exiting(t) THEN "draining" ELSE "idle")
      BY <1>7 DEF Closes
    <3> QED BY <3>1 DEF Returns, Goes
  <2>2. /\ UNCHANGED status /\ current' = 0
        /\ tasks' = tasks \/ tasks' = [tasks EXCEPT ![t][snap[t]] = "scheduled"]
    BY <1>7 DEF Closes, diskVars, taskVars
  <2>3. \A s \in Sessions : Spoken(s)' => Spoken(s)
    <3> SUFFICES ASSUME NEW s \in Sessions, Spoken(s)' PROVE Spoken(s)
      OBVIOUS
    <3>1. \A u \in Threads : tasks'[u][s] # "none" => tasks[u][s] # "none" \/ s = snap[t]
      BY <1>1, <2>2
    <3> QED BY <1>1, <2>1, <2>2, <3>1, SessionIds DEF Spoken, AwaitsClose
  <2> QED BY <1>3, <2>2, <2>3
<1> QED
  BY <1>2, <1>4, <1>5, <1>6, <1>7 DEF ThreadStep

LEMMA DialogMine ==
  ASSUME TypeOK, TimelineInv, Mine, Dialog \/ DialogCloses
  PROVE  Mine'
<1>1. /\ pc \in [Threads -> Pcs] /\ snap \in [Threads -> 0..MaxSessions]
      /\ closing \in [Threads -> 0..MaxSessions]
      /\ tasks \in [Threads -> [Sessions -> TaskPcs]]
      /\ status \in [Sessions -> Statuses] /\ "qt" \in Threads
      /\ dialogs \subseteq Sessions
  BY DEF TypeOK, ControllerTypeOK, StoreTypeOK, Threads
<1>2. CASE \E s \in Sessions : DialogCompile(s)
  <2>1. PICK r \in Sessions : DialogCompile(r)
    BY <1>2
  <2>2. /\ pc' = [pc EXCEPT !["qt"] = "recovering"]
        /\ closing' = [closing EXCEPT !["qt"] = r]
        /\ UNCHANGED <<status, current, snap, tasks>>
        /\ dialogs' = dialogs \ {r} /\ r \in dialogs
    BY <2>1 DEF DialogCompile, Goes, diskVars, sessionVars, taskVars
  <2>3. Exists(r) /\ \A s \in Sessions : Exists(s)' <=> Exists(s)
    BY <2>2 DEF Mine, Exists
  <2>4. \A s \in Sessions : Spoken(s)' => Spoken(s) \/ s = r
    BY <1>1, <2>2 DEF Spoken, AwaitsClose
  <2> QED BY <2>2, <2>3, <2>4, MineKept
<1>3. CASE \E s \in Sessions : DialogKeep(s) \/ DialogDelete(s)
  <2>1. PICK r \in Sessions : DialogKeep(r) \/ DialogDelete(r)
    BY <1>3
  <2>2. /\ UNCHANGED <<pc, closing, current, snap, tasks>>
        /\ dialogs' = dialogs \ {r} /\ r \in dialogs
        /\ status' = status \/ status' = [s \in Sessions |-> IF s \in {r} THEN "purged" ELSE status[s]]
    BY <2>1 DEF DialogKeep, DialogDelete, Purge, storeVars, controllerVars
  <2>3. \A s \in Sessions : Exists(s) => Exists(s)' \/ s = r
    BY <2>2 DEF Exists
  <2>4. \A s \in Sessions : Spoken(s)' => Spoken(s)
    BY <2>2 DEF Spoken, AwaitsClose
  <2> QED BY <2>2, <2>3, <2>4, MineKept
<1>4. CASE DialogCloses
  <2>1. /\ pc' = [pc EXCEPT !["qt"] = "idle"] /\ pc["qt"] = "recovering"
        /\ closing' = [closing EXCEPT !["qt"] = 0]
        /\ snap' = [snap EXCEPT !["qt"] = 0]
        /\ tasks' = [tasks EXCEPT !["qt"][closing["qt"]] = "scheduled"]
        /\ UNCHANGED <<status, current, dialogs>>
    BY <1>4 DEF DialogCloses, Returns, Goes, diskVars, sessionVars, mainVars
  <2>2. \A s \in Sessions : Exists(s)' <=> Exists(s)
    BY <2>1 DEF Exists
  <2>3. \A s \in Sessions : Spoken(s)' => Spoken(s)
    <3> SUFFICES ASSUME NEW s \in Sessions, Spoken(s)' PROVE Spoken(s)
      OBVIOUS
    <3>1. \A u \in Threads : tasks'[u][s] # "none" => tasks[u][s] # "none" \/ s = closing["qt"]
      BY <1>1, <2>1
    <3> QED BY <1>1, <2>1, <3>1, SessionIds DEF Spoken, AwaitsClose
  <2> QED BY <2>1, <2>2, <2>3, MineKept
<1> QED
  BY <1>2, <1>3, <1>4 DEF Dialog

\* Steps that leave the sessions alone but for the stages of compilations.
LEMMA OthersMine ==
  ASSUME TypeOK, Mine,
         \/ \E t \in Users : Press(t)
         \/ Quit \/ QuitStops \/ UNCHANGED vars
         \/ \E t \in Threads, s \in Sessions : Compile(t, s)
         \/ Speaks \/ Ambient \/ KeyframeTaken \/ Keyframe
  PROVE  Mine'
<1> DEFINE Compiles == \E t \in Threads, s \in Sessions : Compile(t, s)
<1>1. /\ pc \in [Threads -> Pcs]
      /\ tasks \in [Threads -> [Sessions -> TaskPcs]] /\ "qt" \in Threads
  BY DEF TypeOK, ControllerTypeOK, Threads
<1>2. CASE Compiles
  <2>1. PICK t \in Threads, r \in Sessions : Compile(t, r)
    BY <1>2
  <2>2. /\ UNCHANGED <<status, current, pc, closing, snap, dialogs>>
        /\ tasks[t][r] # "none" /\ \E x : tasks' = [tasks EXCEPT ![t][r] = x]
    BY <2>1 DEF Compile, CompileLoads, CompileFails, CompileReturns, Exports, Moves, storeVars,
       diskVars, sessionVars, threadVars, mainVars
  <2>3. \A u \in Threads, s \in Sessions : tasks'[u][s] # "none" => tasks[u][s] # "none"
    BY <1>1, <2>2
  <2>4. \A s \in Sessions : Spoken(s)' => Spoken(s)
    BY <2>2, <2>3 DEF Spoken, AwaitsClose
  <2> QED BY <2>2, <2>4, MineKept DEF Exists
<1>3. CASE ~Compiles
  <2>1. UNCHANGED <<status, current, closing, snap, dialogs, tasks>>
    BY <1>3 DEF Press, Toggle, PausePress, Quit, ShutdownBegins, QuitStops, StoreStops,
       Speaks, Ambient, AmbientLost, AmbientTests, AmbientRecords, KeyframeTaken, Keyframe,
       KeyframeSkipped, KeyframeDone, KeyframeInserts, storeVars, controllerVars, mainVars,
       diskVars, sessionVars, taskVars, vars
  <2>2. pc' = pc \/ \E t \in Threads : \E x : pc' = [pc EXCEPT ![t] = x] /\ x \notin {"closing", "recovering"}
    <3>1. CASE \E t \in Users : Press(t)
      <4>1. PICK t \in Users : Toggle(t) \/ PausePress(t)
        BY <3>1 DEF Press
      <4>2. \E x \in {"opening", "stopping", "pausing", "resuming"} : pc' = [pc EXCEPT ![t] = x]
        BY <4>1 DEF Toggle, PausePress, Goes
      <4> QED BY <4>2
    <3>2. CASE Quit \/ QuitStops
      BY <1>1, <3>2 DEF Quit, ShutdownBegins, QuitStops, StoreStops, Goes
    <3>3. CASE UNCHANGED vars \/ Speaks \/ Ambient \/ KeyframeTaken \/ Keyframe
      BY <3>3 DEF Speaks, Ambient, AmbientLost, AmbientTests, AmbientRecords, KeyframeTaken,
         Keyframe, KeyframeSkipped, KeyframeDone, KeyframeInserts, controllerVars, vars
    <3> QED BY <1>3, <3>1, <3>2, <3>3
  <2>3. \A u \in Threads : AwaitsClose(u)' => AwaitsClose(u)
    BY <1>1, <2>2 DEF AwaitsClose
  <2>4. \A s \in Sessions : Spoken(s)' => Spoken(s)
    BY <2>1, <2>3 DEF Spoken
  <2> QED BY <2>1, <2>4, MineKept DEF Exists
<1> QED BY <1>2, <1>3

LEMMA MineNext ==
  ASSUME TypeOK, TimelineInv, Mine, Down, [Next]_vars
  PROVE  Mine' /\ Down'
<1>1. CASE Launch
  <2>1. /\ phase # "up" /\ UNCHANGED <<jobs, current, grab, pc, snap, closing, tasks>>
    BY <1>1 DEF Launch, Launches, controllerVars, feedVars
  <2>2. \A s \in Sessions : ~Spoken(s)'
    BY <2>1, Unspoken DEF Spoken, AwaitsClose
  <2>3. PICK old \in SUBSET {s \in Sessions : status[s] \in {"closed", "compiled"}} :
          Purge(old)
    BY <1>1 DEF Launch, Launches, PurgeExpired
  <2>4. dialogs = {}
    BY <2>1 DEF Down
  <2>5. CASE phase' = "up"
    <3>1. dialogs' = OpenSessions
      BY <1>1, <2>5 DEF Launch, Launches
    <3>2. \A s \in dialogs' : status'[s] = "open"
      BY <2>3, <3>1 DEF Purge, OpenSessions
    <3> QED BY <2>2, <2>5, <3>2 DEF Mine, Down, Exists
  <2>6. CASE phase' # "up"
    <3>1. dialogs' = {}
      BY <1>1, <2>4, <2>6 DEF Launch, Launches
    <3> QED BY <2>1, <2>2, <3>1 DEF Mine, Down
  <2> QED BY <2>5, <2>6
<1>2. CASE Crash \/ Exit
  <2>1. Forgets /\ dialogs' = {}
    BY <1>2 DEF Crash, Exit, Forgets
  <2> QED BY <2>1, ForgetsSpoken DEF Mine
<1>3. CASE Writes
  <2>1. /\ UNCHANGED <<current, pc, snap, closing, tasks, dialogs, phase>>
        /\ jobs # <<>>
    BY <1>3 DEF Writes, WriterStep, WriterAppends, WriterCloses, WriterMarks, WriterStops,
       controllerVars, mainVars
  <2>2. Down'
    BY <2>1 DEF Down
  <2>3. \A s \in Sessions : Exists(s) => Exists(s)'
    <3>1. QueueOK(jobs) /\ StoreTypeOK
      BY StoreTypes DEF TypeOK
    <3>2. Head(jobs).kind # "stop" => Head(jobs).s \in Sessions
      BY <2>1, <3>1, QueueTaken
    <3>3. CASE WriterCloses \/ WriterMarks
      BY <3>1, <3>2, <3>3, ExistsUpdated DEF WriterCloses, WriterMarks
    <3>4. CASE WriterAppends \/ WriterStops
      BY <3>4 DEF WriterAppends, WriterStops, Exists
    <3> QED BY <1>3, <3>3, <3>4 DEF Writes, WriterStep
  <2>4. \A s \in Sessions : Spoken(s)' => Spoken(s)
    BY <2>1 DEF Spoken, AwaitsClose
  <2> QED BY <2>1, <2>2, <2>3, <2>4, MineKept
<1>4. CASE \E t \in Threads : ThreadStep(t)
  BY <1>4, ThreadMine DEF ThreadStep, mainVars, Down
<1>5. CASE Dialog \/ DialogCloses
  <2>1. phase = "up" /\ phase' = phase
    BY <1>5 DEF Dialog, DialogCloses, DialogCompile, DialogKeep, DialogDelete, mainVars
  <2> QED BY <1>5, <2>1, DialogMine DEF Down
<1>6. CASE \/ \E t \in Users : Press(t)
           \/ Quit \/ QuitStops
           \/ \E t \in Threads, s \in Sessions : Compile(t, s)
           \/ Speaks \/ Ambient \/ KeyframeTaken \/ Keyframe
  <2>1. phase = "up" /\ phase' = phase
    BY <1>6 DEF Press, Quit, QuitStops, Compile, Speaks, Ambient, AmbientLost, AmbientTests,
       AmbientRecords, KeyframeTaken, Keyframe, KeyframeSkipped, KeyframeDone,
       KeyframeInserts, mainVars
  <2> QED BY <1>6, <2>1, OthersMine DEF Down
<1>7. CASE UNCHANGED vars
  <2>1. UNCHANGED <<jobs, current, grab, pc, snap, tasks, dialogs, phase>>
    BY <1>7 DEF vars, storeVars, controllerVars, mainVars, feedVars
  <2>2. Down'
    BY <2>1 DEF Down
  <2> QED BY <1>7, <2>2, OthersMine
<1> QED BY <1>1, <1>2, <1>3, <1>4, <1>5, <1>6, <1>7 DEF Next

-----------------------------------------------------------------------------
(***************************************************************************)
(* Status.  A session that is compiled, or marked in the queue, or of      *)
(* which a compilation is scheduled, is one that nobody will close again,  *)
(* and no close of it follows its mark in the queue.                       *)
(***************************************************************************)
Released(s) == s # current /\ s \notin dialogs /\ status[s] # "none"

Has(q, kind, s) == \E i \in 1..Len(q) : q[i].kind = kind /\ q[i].s = s

MarksLast(q) ==
  \A i, j \in 1..Len(q) :
    i < j /\ q[i].kind = "mark" => ~(q[j].kind = "close" /\ q[j].s = q[i].s)

RankInv ==
  /\ MarksLast(jobs)
  /\ \A s \in Sessions : Has(jobs, "mark", s) => Released(s)
  /\ \A t \in Threads, s \in Sessions : tasks[t][s] # "none" => Released(s)
  /\ \A s \in Sessions : status[s] = "compiled" => Released(s) /\ ~Has(jobs, "close", s)
  /\ \A t \in Threads : pc[t] = "recovering" => closing[t] # current

LEMMA RankInit == Init => RankInv
<1> SUFFICES ASSUME Init PROVE RankInv
  OBVIOUS
<1>1. /\ jobs = <<>> /\ Len(jobs) = 0
      /\ tasks = [t \in Threads |-> [s \in Sessions |-> "none"]]
      /\ status = [s \in Sessions |-> "none"] /\ pc = [t \in Threads |-> "idle"]
  BY DEF Init, StoreInit, ControllerInit
<1> QED BY <1>1 DEF RankInv, MarksLast, Has

LEMMA MarkAppended ==
  ASSUME NEW q, QueueOK(q), MarksLast(q), NEW j \in Jobs,
         j.kind = "close" => j.s \in Sessions /\ ~Has(q, "mark", j.s)
  PROVE  /\ MarksLast(Append(q, j))
         /\ \A k, s : Has(Append(q, j), k, s) => Has(q, k, s) \/ (j.kind = k /\ j.s = s)
<1> DEFINE r == Append(q, j)
<1>1. /\ Len(r) = Len(q) + 1 /\ Len(q) \in Nat /\ r[Len(q) + 1] = j
      /\ \A i \in 1..Len(q) : r[i] = q[i]
  BY DEF QueueOK
<1> HIDE DEF r
<1>2. MarksLast(r)
  <2> SUFFICES ASSUME NEW i \in 1..Len(r), NEW k \in 1..Len(r), i < k, r[i].kind = "mark",
                      r[k].kind = "close", r[k].s = r[i].s
               PROVE  FALSE
    BY DEF MarksLast
  <2>1. i \in 1..Len(q) /\ r[i] = q[i]
    BY <1>1
  <2>2. CASE k \in 1..Len(q)
    BY <1>1, <2>1, <2>2 DEF MarksLast
  <2>3. CASE k = Len(q) + 1
    BY <1>1, <2>1, <2>3 DEF Has
  <2> QED BY <1>1, <2>2, <2>3
<1>3. \A k, s : Has(r, k, s) => Has(q, k, s) \/ (j.kind = k /\ j.s = s)
  BY <1>1 DEF Has
<1> QED BY <1>2, <1>3 DEF r

LEMMA MarkTaken ==
  ASSUME NEW q, QueueOK(q), MarksLast(q), q # <<>>
  PROVE  /\ MarksLast(Tail(q))
         /\ \A k, s : Has(Tail(q), k, s) => Has(q, k, s)
         /\ Has(q, Head(q).kind, Head(q).s)
         /\ Head(q).kind = "mark" => ~Has(Tail(q), "close", Head(q).s)
<1> DEFINE r == Tail(q)
<1>1. /\ Len(r) = Len(q) - 1 /\ Len(q) \in Nat /\ Len(q) > 0 /\ Head(q) = q[1]
      /\ \A i \in 1..Len(r) : r[i] = q[i + 1]
  BY DEF QueueOK
<1> HIDE DEF r
<1>2. \A i \in 1..Len(r) : i + 1 \in 1..Len(q) /\ 1 < i + 1
  BY <1>1
<1>3. MarksLast(r)
  BY <1>1, <1>2 DEF MarksLast
<1>4. \A k, s : Has(r, k, s) => Has(q, k, s)
  BY <1>1, <1>2 DEF Has
<1>5. Has(q, Head(q).kind, Head(q).s)
  BY <1>1 DEF Has
<1>6. Head(q).kind = "mark" => ~Has(r, "close", Head(q).s)
  <2> SUFFICES ASSUME q[1].kind = "mark", NEW i \in 1..Len(r), r[i].kind = "close", r[i].s = q[1].s
               PROVE  FALSE
    BY <1>1 DEF Has
  <2> QED BY <1>1, <1>2 DEF MarksLast
<1> QED BY <1>3, <1>4, <1>5, <1>6 DEF r

LEMMA MarkGivenUp ==
  ASSUME QueueOK(jobs), MarksLast(jobs), NEW u
  PROVE  /\ MarksLast(GivenUp(u))
         /\ \A k, s : Has(GivenUp(u), k, s) => Has(jobs, k, s)
<1> DEFINE r == GivenUp(u)
<1>1. /\ Len(jobs) \in Nat /\ \A i \in 1..Len(jobs) : jobs[i] \in Jobs
  BY DEF QueueOK
<1>2. \A i \in 1..Len(jobs) : r[i].kind = jobs[i].kind /\ r[i].s = jobs[i].s
  BY <1>1 DEF GivenUp, Jobs
<1>3. Len(r) = Len(jobs)
  BY <1>1 DEF GivenUp
<1> HIDE DEF r
<1>4. MarksLast(r) /\ \A k, s : Has(r, k, s) => Has(jobs, k, s)
  BY <1>2, <1>3 DEF MarksLast, Has
<1> QED BY <1>4 DEF r

-----------------------------------------------------------------------------
\* Nothing new is scheduled, marked or closed.
RankQuiet ==
  /\ UNCHANGED status /\ dialogs' \subseteq dialogs /\ current' \in {current, 0}
  /\ MarksLast(jobs') /\ \A k, s : k \in {"mark", "close"} /\ Has(jobs', k, s) => Has(jobs, k, s)
  /\ \A t \in Threads, s \in Sessions : tasks'[t][s] # "none" => tasks[t][s] # "none"
  /\ \A t \in Threads : pc'[t] = "recovering" => pc[t] = "recovering" /\ closing'[t] = closing[t]

LEMMA RankStays ==
  ASSUME TypeOK, RankInv, RankQuiet
  PROVE  RankInv'
<1>1. \A s \in Sessions : Released(s) => Released(s)'
  BY SessionIds DEF RankQuiet, Released
<1>2. \A t \in Threads : pc[t] = "recovering" => closing[t] \in Sessions
  BY SessionIds DEF TypeOK, ControllerTypeOK
<1>3. \A t \in Threads : pc'[t] = "recovering" => closing'[t] # current'
  BY <1>2, SessionIds DEF RankInv, RankQuiet
<1> QED BY <1>1, <1>3 DEF RankInv, RankQuiet

\* A compilation is scheduled of a session that is released by that.
LEMMA RankSchedules ==
  ASSUME TypeOK, RankInv, UNCHANGED <<status, jobs>> \/ (UNCHANGED status /\ jobs' = GivenUp("qt")),
         UNCHANGED dialogs, current' \in {current, 0},
         NEW t \in Threads, NEW s \in Sessions, NEW x, x # "recovering",
         tasks' = [tasks EXCEPT ![t][s] = "scheduled"],
         pc' = [pc EXCEPT ![t] = x], closing' = [closing EXCEPT ![t] = 0],
         Released(s)'
  PROVE  RankInv'
<1>1. \A r \in Sessions : Released(r) => Released(r)'
  BY SessionIds DEF Released
<1>2. /\ \A u \in Threads : pc[u] = "recovering" => closing[u] \in Sessions
      /\ tasks \in [Threads -> [Sessions -> TaskPcs]]
      /\ pc \in [Threads -> Pcs] /\ closing \in [Threads -> 0..MaxSessions]
  BY SessionIds DEF TypeOK, ControllerTypeOK
<1>3. \A u \in Threads : pc'[u] = "recovering" => closing'[u] # current'
  BY <1>2, SessionIds DEF RankInv
<1>4. MarksLast(jobs') /\ \A k, r : Has(jobs', k, r) => Has(jobs, k, r)
  BY MarkGivenUp, StoreTypes DEF TypeOK, RankInv
<1>5. \A u \in Threads, r \in Sessions :
        tasks'[u][r] # "none" => tasks[u][r] # "none" \/ r = s
  BY <1>2
<1> QED BY <1>1, <1>3, <1>4, <1>5 DEF RankInv

\* A session is about to be closed: the current one, or a dialog's.
LEMMA RankCloses ==
  ASSUME TypeOK, RankInv, UNCHANGED <<status, tasks, current>>, dialogs' \subseteq dialogs,
         NEW t \in Threads, NEW s \in Sessions, ~Released(s),
         jobs' = Append(jobs, CloseJob(s, t)),
         NEW x, pc' = [pc EXCEPT ![t] = x], closing' = [closing EXCEPT ![t] = s],
         x = "recovering" => s # current
  PROVE  RankInv'
<1>1. \A r \in Sessions : Released(r) => Released(r)'
  BY SessionIds DEF Released
<1>2. /\ pc \in [Threads -> Pcs] /\ closing \in [Threads -> 0..MaxSessions]
      /\ QueueOK(jobs)
  BY StoreTypes DEF TypeOK, ControllerTypeOK
<1>3. CloseJob(s, t) \in Jobs /\ CloseJob(s, t).s = s /\ CloseJob(s, t).kind = "close"
  BY JobTypes DEF CloseJob, Job
<1>4. /\ MarksLast(jobs')
      /\ \A k, r : Has(jobs', k, r) => Has(jobs, k, r) \/ (k = "close" /\ r = s)
  <2>1. ~Has(jobs, "mark", s)
    BY DEF RankInv
  <2> QED BY <1>2, <1>3, <2>1, MarkAppended DEF RankInv
<1>5. \A u \in Threads : pc'[u] = "recovering" => closing'[u] # current'
  BY <1>2 DEF RankInv
<1> QED BY <1>1, <1>4, <1>5 DEF RankInv

\* One more job that is neither a mark nor a close.
LEMMA OtherAppended ==
  ASSUME QueueOK(jobs), MarksLast(jobs), NEW j \in Jobs, j.kind \in {"append", "stop"},
         jobs' = Append(jobs, j)
  PROVE  MarksLast(jobs') /\ \A k, s : k \in {"mark", "close"} /\ Has(jobs', k, s) => Has(jobs, k, s)
BY MarkAppended

\* What is recorded comes to the writer as a row of the current session, or of the
\* keyframe's.
Recorded(j) ==
  /\ j \in Jobs /\ j.kind = "append" /\ j.by \in {Nobody, "grabber"}
  /\ j.s \in Sessions /\ (j.s = current \/ (grab.at # "none" /\ j.s = grab.s))

LEMMA AmbientJob ==
  ASSUME TypeOK, NEW ts \in Stamps, AmbientRecords(ts)
  PROVE  jobs' = jobs \/ \E j : Recorded(j) /\ jobs' = Append(jobs, j)
<1>1. PICK of \in loop :
        jobs' = IF current = 0 THEN jobs
                ELSE Append(jobs, AppendJob(current, [ts |-> ts, of |-> of], Nobody))
  BY DEF AmbientRecords
<1> SUFFICES ASSUME current # 0
             PROVE  Recorded(AppendJob(current, [ts |-> ts, of |-> of], Nobody))
  BY <1>1
<1>2. /\ current \in Sessions /\ Nobody \in Waiters
      /\ [ts |-> ts, of |-> of] \in Rows
  BY SessionIds DEF TypeOK, ControllerTypeOK, Waiters, Rows
<1> QED BY <1>2, JobTypes DEF AppendJob, Job, Recorded

LEMMA KeyframeJob ==
  ASSUME TypeOK, NEW ts \in Stamps, KeyframeInserts(ts)
  PROVE  \E j : Recorded(j) /\ jobs' = Append(jobs, j)
<1>1. /\ grab.at # "none"
      /\ jobs' = Append(jobs, AppendJob(grab.s, [ts |-> ts, of |-> grab.s], "grabber"))
  BY DEF KeyframeInserts
<1>2. /\ grab.s \in Sessions /\ "grabber" \in Waiters
      /\ [ts |-> ts, of |-> grab.s] \in Rows
  BY <1>1, SessionIds DEF TypeOK, Grabs, Waiters, Rows
<1>3. Recorded(AppendJob(grab.s, [ts |-> ts, of |-> grab.s], "grabber"))
  BY <1>1, <1>2, JobTypes DEF AppendJob, Job, Recorded
<1> QED BY <1>1, <1>3

LEMMA ThreadRank ==
  ASSUME TypeOK, TimelineInv, Mine, RankInv, NEW t \in Threads, ThreadStep(t)
  PROVE  RankInv'
<1>1. /\ UNCHANGED dialogs
      /\ pc \in [Threads -> Pcs] /\ snap \in [Threads -> 0..MaxSessions]
      /\ closing \in [Threads -> 0..MaxSessions]
      /\ tasks \in [Threads -> [Sessions -> TaskPcs]]
      /\ current \in 0..MaxSessions /\ QueueOK(jobs) /\ MarksLast(jobs)
      /\ status \in [Sessions -> Statuses]
  BY StoreTypes DEF ThreadStep, mainVars, TypeOK, ControllerTypeOK, RankInv
<1>2. CASE Opens(t)
  <2>1. PICK r \in Sessions : OpenSession(r) /\ current' = r
    BY <1>2 DEF Opens
  <2>2. pc' = [pc EXCEPT ![t] = "starting"] /\ UNCHANGED <<jobs, closing, tasks>>
    BY <1>2 DEF Opens, Goes, taskVars
  <2>3. status[r] = "none" /\ status' = [status EXCEPT ![r] = "open"]
    BY <2>1 DEF OpenSession, Fresh
  <2>4. \A s \in Sessions : Released(s) => Released(s)' /\ s # r
    BY <1>1, <2>1, <2>3 DEF Released
  <2>5. \A u \in Threads : pc'[u] = "recovering" => closing'[u] # current'
    BY <1>1, <2>1, <2>2, <2>3 DEF TimelineInv, Known, AwaitsClose
  <2>6. \A s \in Sessions : status'[s] = "compiled" => status[s] = "compiled"
    BY <1>1, <2>3
  <2> QED BY <2>2, <2>4, <2>5, <2>6 DEF RankInv
<1>3. ASSUME UNCHANGED <<status, tasks>>, current' \in {current, 0}, MarksLast(jobs'),
             \A k, s : k \in {"mark", "close"} /\ Has(jobs', k, s) => Has(jobs, k, s),
             NEW x, pc' = [pc EXCEPT ![t] = x], x # "recovering",
             closing' = closing \/ closing' = [closing EXCEPT ![t] = 0]
      PROVE  RankInv'
  <2>1. \A u \in Threads : pc'[u] = "recovering" => pc[u] = "recovering" /\ closing'[u] = closing[u]
    BY <1>1, <1>3
  <2> QED BY <1>1, <1>3, <2>1, RankStays DEF RankQuiet
<1>4. CASE OpenTests(t) \/ OpenFails(t) \/ CaptureStarts(t) \/ StopTests(t)
             \/ CaptureStops(t) \/ CloseTests(t) \/ Pauses(t) \/ Resumes(t)
  <2>1. PICK x \in {"idle", "inserting", "halting", "testing", "queueing"} :
          pc' = [pc EXCEPT ![t] = x]
    BY <1>4 DEF OpenTests, OpenFails, CaptureStarts, StopTests, CaptureStops, CloseTests,
       Pauses, Resumes, Goes
  <2>2. UNCHANGED <<status, jobs, current, closing, tasks>>
    BY <1>4 DEF OpenTests, OpenFails, CaptureStarts, StopTests, CaptureStops, CloseTests,
       Pauses, Resumes, storeVars, sessionVars, taskVars
  <2> QED BY <1>1, <1>3, <2>1, <2>2
<1>5. CASE ClosedAlready(t) \/ CloseTimesOut(t) \/ ClosesTooLate(t)
  <2>1. PICK x : /\ pc' = [pc EXCEPT ![t] = x] /\ x \notin {"closing", "recovering"}
                 /\ closing' = [closing EXCEPT ![t] = 0]
    BY <1>5 DEF ClosedAlready, CloseTimesOut, ClosesTooLate, Returns, Goes, Aborted
  <2>2. UNCHANGED <<status, current, tasks>> /\ (jobs' = jobs \/ jobs' = GivenUp(t))
    BY <1>5 DEF ClosedAlready, CloseTimesOut, ClosesTooLate, storeVars, diskVars,
       sessionVars, taskVars
  <2>3. MarksLast(jobs') /\ \A k, s : Has(jobs', k, s) => Has(jobs, k, s)
    BY <1>1, <2>2, MarkGivenUp
  <2> QED BY <1>1, <1>3, <2>1, <2>2, <2>3
<1>6. CASE CloseQueues(t)
  <2>1. /\ pc' = [pc EXCEPT ![t] = "closing"]
        /\ closing' = [closing EXCEPT ![t] = current]
        /\ jobs' = Append(jobs, CloseJob(current, t)) /\ current # 0
        /\ UNCHANGED <<status, current, tasks>>
    BY <1>6 DEF CloseQueues, Goes, diskVars, sessionVars, taskVars
  <2>2. current \in Sessions /\ ~Released(current)
    BY <1>1, <2>1, SessionIds DEF Released
  <2> QED BY <1>1, <2>1, <2>2, RankCloses
<1>7. CASE Closes(t)
  <2>1. PICK x \in {"idle", "draining"} :
          /\ pc' = [pc EXCEPT ![t] = x]
          /\ closing' = [closing EXCEPT ![t] = 0]
          /\ pc[t] = "closing"
    <3>1. Returns(t, "closing", IF Exiting(t) THEN "draining" ELSE "idle")
      BY <1>7 DEF Closes
    <3> QED BY <3>1 DEF Returns, Goes
  <2>2. UNCHANGED <<status, jobs>> /\ current' = 0
    BY <1>7 DEF Closes, diskVars
  <2>3. CASE Exiting(t)
    <3>1. UNCHANGED tasks
      BY <1>7, <2>3 DEF Closes, taskVars
    <3> QED BY <1>1, <1>3, <2>1, <2>2, <3>1
  <2>4. CASE ~Exiting(t)
    <3>1. tasks' = [tasks EXCEPT ![t][snap[t]] = "scheduled"]
      BY <1>7, <2>4 DEF Closes
    <3>2. snap[t] \in Sessions
      BY <1>1, <2>1, <2>4, SessionIds DEF TypeOK, ControllerTypeOK
    <3>3. PICK s \in Sessions : s = snap[t]
      BY <3>2
    <3>4. Released(s)'
      <4>1. s \notin dialogs /\ status[s] # "none"
        BY <3>3 DEF Mine, Spoken, Exists
      <4> QED BY <1>1, <2>2, <4>1, SessionIds DEF Released
    <3> QED BY <1>1, <2>1, <2>2, <3>1, <3>3, <3>4, RankSchedules
  <2> QED BY <2>3, <2>4
<1> QED
  BY <1>2, <1>4, <1>5, <1>6, <1>7 DEF ThreadStep

LEMMA DialogRank ==
  ASSUME TypeOK, TimelineInv, Mine, RankInv, Dialog \/ DialogCloses
  PROVE  RankInv'
<1>1. /\ pc \in [Threads -> Pcs] /\ closing \in [Threads -> 0..MaxSessions]
      /\ current \in 0..MaxSessions /\ QueueOK(jobs) /\ MarksLast(jobs)
      /\ status \in [Sessions -> Statuses] /\ "qt" \in Threads
      /\ dialogs \subseteq Sessions
  BY StoreTypes DEF TypeOK, ControllerTypeOK, RankInv, Threads
<1>2. CASE \E s \in Sessions : DialogCompile(s)
  <2>1. PICK r \in Sessions : DialogCompile(r)
    BY <1>2
  <2>2. /\ pc' = [pc EXCEPT !["qt"] = "recovering"]
        /\ closing' = [closing EXCEPT !["qt"] = r]
        /\ jobs' = Append(jobs, CloseJob(r, "qt"))
        /\ UNCHANGED <<status, current, tasks>>
        /\ dialogs' = dialogs \ {r} /\ r \in dialogs
    BY <2>1 DEF DialogCompile, Goes, diskVars, sessionVars, taskVars
  <2>3. r # current /\ ~Released(r)
    BY <2>2 DEF Released, Mine, Spoken
  <2> QED BY <1>1, <2>2, <2>3, RankCloses
<1>3. CASE \E s \in Sessions : DialogKeep(s) \/ DialogDelete(s)
  <2>1. PICK r \in Sessions : DialogKeep(r) \/ DialogDelete(r)
    BY <1>3
  <2>2. /\ UNCHANGED <<pc, closing, jobs, current, tasks>>
        /\ dialogs' = dialogs \ {r}
        /\ status' = status \/ status' = [s \in Sessions |-> IF s \in {r} THEN "purged" ELSE status[s]]
    BY <2>1 DEF DialogKeep, DialogDelete, Purge, storeVars, controllerVars
  <2>3. \A s \in Sessions : Released(s) => Released(s)'
    BY <2>2 DEF Released
  <2>4. \A s \in Sessions : status'[s] = "compiled" => status[s] = "compiled"
    BY <2>2
  <2> QED BY <2>2, <2>3, <2>4 DEF RankInv
<1>4. CASE DialogCloses
  <2>1. /\ pc' = [pc EXCEPT !["qt"] = "idle"] /\ pc["qt"] = "recovering"
        /\ closing' = [closing EXCEPT !["qt"] = 0]
        /\ tasks' = [tasks EXCEPT !["qt"][closing["qt"]] = "scheduled"]
        /\ UNCHANGED <<status, current, dialogs>>
        /\ jobs' = jobs \/ jobs' = GivenUp("qt")
    BY <1>4 DEF DialogCloses, Returns, Goes, diskVars, sessionVars, mainVars
  <2>2. PICK s \in Sessions : s = closing["qt"]
    BY <1>1, <2>1, SessionIds DEF TypeOK, ControllerTypeOK
  <2>3. Released(s)'
    <3>1. s \notin dialogs /\ status[s] # "none" /\ s # current
      BY <1>1, <2>1, <2>2 DEF Mine, Spoken, Exists, AwaitsClose, RankInv
    <3> QED BY <2>1, <3>1 DEF Released
  <2> QED BY <1>1, <2>1, <2>2, <2>3, RankSchedules
<1> QED
  BY <1>2, <1>3, <1>4 DEF Dialog

LEMMA WriterRank ==
  ASSUME TypeOK, RankInv, Writes
  PROVE  RankInv'
<1> DEFINE h == Head(jobs)
<1>1. /\ UNCHANGED <<current, pc, closing, tasks, dialogs>>
      /\ jobs # <<>> /\ jobs' = Tail(jobs)
  BY DEF Writes, WriterStep, WriterAppends, WriterCloses, WriterMarks, WriterStops,
     controllerVars, mainVars
<1>2. QueueOK(jobs) /\ MarksLast(jobs) /\ status \in [Sessions -> Statuses]
  BY StoreTypes DEF TypeOK, RankInv
<1>3. /\ MarksLast(jobs')
      /\ \A k, s : Has(jobs', k, s) => Has(jobs, k, s)
      /\ Has(jobs, h.kind, h.s)
      /\ h.kind = "mark" => ~Has(jobs', "close", h.s)
      /\ h.kind # "stop" => h.s \in Sessions
  BY <1>1, <1>2, MarkTaken, QueueTaken
<1>4. \/ UNCHANGED status
      \/ h.kind = "close" /\ status' = Updated(h.s, "closed")
      \/ h.kind = "mark" /\ status' = Updated(h.s, "compiled")
  BY DEF Writes, WriterStep, WriterAppends, WriterCloses, WriterMarks, WriterStops
<1> HIDE DEF h
<1>5. \A s \in Sessions : status[s] # "none" => status'[s] # "none"
  BY <1>2, <1>3, <1>4 DEF Updated
<1>6. \A s \in Sessions : Released(s) => Released(s)'
  BY <1>1, <1>5 DEF Released
<1>7. \A s \in Sessions :
        status'[s] = "compiled" => status[s] = "compiled" \/ (h.kind = "mark" /\ s = h.s)
  BY <1>2, <1>3, <1>4 DEF Updated
<1>8. \A s \in Sessions : status'[s] = "compiled" => Released(s) /\ ~Has(jobs', "close", s)
  BY <1>3, <1>7 DEF RankInv
<1> QED BY <1>1, <1>3, <1>6, <1>8 DEF RankInv

LEMMA RankNext ==
  ASSUME TypeOK, TimelineInv, Mine, Down, RankInv, [Next]_vars
  PROVE  RankInv'
<1>1. /\ pc \in [Threads -> Pcs] /\ closing \in [Threads -> 0..MaxSessions]
      /\ tasks \in [Threads -> [Sessions -> TaskPcs]]
      /\ current \in 0..MaxSessions /\ QueueOK(jobs) /\ MarksLast(jobs)
      /\ status \in [Sessions -> Statuses] /\ "qt" \in Threads
  BY StoreTypes DEF TypeOK, ControllerTypeOK, RankInv, Threads
<1>2. CASE Launch
  <2>1. /\ phase # "up" /\ UNCHANGED <<jobs, current, pc, closing, tasks>>
    BY <1>2 DEF Launch, Launches, controllerVars
  <2>2. /\ jobs' = <<>> /\ current' = 0 /\ Len(jobs') = 0
        /\ \A t \in Threads : pc'[t] = "idle" /\ \A s \in Sessions : tasks'[t][s] = "none"
        /\ dialogs = {}
    BY <2>1 DEF Down
  <2>3. dialogs' \subseteq OpenSessions
    BY <1>2, <2>2 DEF Launch, Launches
  <2>4. \A s \in Sessions : status'[s] = "compiled" => status[s] = "compiled"
    BY <1>2 DEF Launch, Launches, PurgeExpired, Purge
  <2>5. \A s \in Sessions : status'[s] = "compiled" => Released(s)'
    BY <2>2, <2>3, <2>4, SessionIds DEF Released, OpenSessions
  <2> QED BY <2>2, <2>5 DEF RankInv, MarksLast, Has
<1>3. CASE Crash \/ Exit
  <2>1. /\ jobs' = <<>> /\ current' = 0 /\ dialogs' = {} /\ status' = status
        /\ pc' = [t \in Threads |-> "idle"]
        /\ tasks' = [t \in Threads |-> [s \in Sessions |-> "none"]]
    BY <1>3 DEF Crash, Exit, Forgets, diskVars
  <2>2. \A s \in Sessions : status'[s] = "compiled" => Released(s)'
    BY <2>1, SessionIds DEF Released
  <2> QED BY <2>1, <2>2 DEF RankInv, MarksLast, Has
<1>4. CASE Writes
  BY <1>4, WriterRank
<1>5. CASE \E t \in Threads : ThreadStep(t)
  BY <1>5, ThreadRank
<1>6. CASE Dialog \/ DialogCloses
  BY <1>6, DialogRank
<1>7. CASE \E t \in Threads, s \in Sessions : Compile(t, s)
  <2>1. PICK t \in Threads, r \in Sessions : Compile(t, r)
    BY <1>7
  <2>2. /\ UNCHANGED <<status, current, pc, closing, dialogs>>
        /\ jobs' = jobs \/ jobs' = Append(jobs, MarkJob(r))
        /\ tasks[t][r] # "none" /\ \E x : tasks' = [tasks EXCEPT ![t][r] = x]
    BY <2>1 DEF Compile, CompileLoads, CompileFails, CompileReturns, Exports, Moves, storeVars,
       diskVars, sessionVars, threadVars, mainVars
  <2>3. \A u \in Threads, s \in Sessions : tasks'[u][s] # "none" => tasks[u][s] # "none"
    BY <1>1, <2>2
  <2>4. MarkJob(r) \in Jobs /\ MarkJob(r).s = r /\ MarkJob(r).kind = "mark"
    BY JobTypes DEF MarkJob, Job
  <2>5. /\ MarksLast(jobs')
        /\ \A k, s : Has(jobs', k, s) => Has(jobs, k, s) \/ (k = "mark" /\ s = r)
    <3>1. CASE jobs' = Append(jobs, MarkJob(r))
      <4>1. PICK j \in Jobs : j = MarkJob(r)
        BY <2>4
      <4> QED BY <1>1, <2>4, <3>1, <4>1, MarkAppended
    <3> QED BY <1>1, <2>2, <3>1
  <2>6. Released(r)
    BY <2>2 DEF RankInv
  <2>7. \A s \in Sessions : Released(s) => Released(s)'
    BY <2>2 DEF Released
  <2> QED BY <2>2, <2>3, <2>5, <2>6, <2>7 DEF RankInv
<1>8. CASE \/ \E t \in Users : Press(t)
           \/ Quit \/ QuitStops \/ UNCHANGED vars
           \/ Speaks \/ Ambient \/ KeyframeTaken \/ Keyframe
  <2>1. UNCHANGED <<status, current, closing, dialogs, tasks>>
    BY <1>8 DEF Press, Toggle, PausePress, Quit, ShutdownBegins, QuitStops, StoreStops,
       Speaks, Ambient, AmbientLost, AmbientTests, AmbientRecords, KeyframeTaken, Keyframe,
       KeyframeSkipped, KeyframeDone, KeyframeInserts, storeVars, controllerVars, mainVars,
       diskVars, sessionVars, taskVars, vars
  <2>2. \A u \in Threads : pc'[u] = "recovering" => pc[u] = "recovering"
    <3>1. CASE \E t \in Users : Press(t)
      <4>1. PICK t \in Users : Toggle(t) \/ PausePress(t)
        BY <3>1 DEF Press
      <4>2. PICK x \in {"opening", "stopping", "pausing", "resuming"} : pc' = [pc EXCEPT ![t] = x]
        BY <4>1 DEF Toggle, PausePress, Goes
      <4> QED BY <1>1, <4>2
    <3>2. CASE Quit \/ QuitStops
      BY <1>1, <3>2 DEF Quit, ShutdownBegins, QuitStops, StoreStops, Goes
    <3>3. CASE UNCHANGED vars \/ Speaks \/ Ambient \/ KeyframeTaken \/ Keyframe
      BY <3>3 DEF Speaks, Ambient, AmbientLost, AmbientTests, AmbientRecords, KeyframeTaken,
         Keyframe, KeyframeSkipped, KeyframeDone, KeyframeInserts, controllerVars, vars
    <3> QED BY <1>8, <3>1, <3>2, <3>3
  <2>3. \/ jobs' = jobs \/ jobs' = GivenUp("grabber")
        \/ \E j \in Jobs : j.kind \in {"append", "stop"} /\ jobs' = Append(jobs, j)
    <3>1. CASE QuitStops
      BY <3>1, JobTypes DEF QuitStops, StoreStops, StopJob, Job, Threads
    <3>2. CASE \E ts \in Stamps : AmbientRecords(ts)
      BY <3>2, AmbientJob DEF Recorded
    <3>3. CASE \E ts \in Stamps : KeyframeInserts(ts)
      BY <3>3, KeyframeJob DEF Recorded
    <3>4. CASE \/ \E t \in Users : Press(t)
               \/ Quit \/ UNCHANGED vars
               \/ Speaks \/ AmbientLost \/ AmbientTests \/ KeyframeTaken
               \/ KeyframeSkipped \/ KeyframeDone
      BY <3>4 DEF Press, Toggle, PausePress, Quit, ShutdownBegins, Speaks, AmbientLost,
         AmbientTests, KeyframeTaken, KeyframeSkipped, KeyframeDone, storeVars, vars
    <3> QED BY <1>8, <3>1, <3>2, <3>3, <3>4 DEF Ambient, Keyframe
  <2>4. MarksLast(jobs') /\ \A k, s : k \in {"mark", "close"} /\ Has(jobs', k, s) => Has(jobs, k, s)
    BY <1>1, <2>3, MarkGivenUp, OtherAppended
  <2> QED BY <2>1, <2>2, <2>4, RankStays DEF RankQuiet
<1> QED BY <1>2, <1>3, <1>4, <1>5, <1>6, <1>7, <1>8 DEF Next

\* The writer takes no session back: what it closes is not compiled.
LEMMA RankHolds ==
  ASSUME TypeOK, TimelineInv, RankInv, [Next]_vars
  PROVE  LET rank == [none |-> 0, open |-> 1, closed |-> 2, compiled |-> 3, purged |-> 4]
         IN \A s \in Sessions : rank[status[s]] <= rank[status'[s]]
<1> DEFINE rank == [none |-> 0, open |-> 1, closed |-> 2, compiled |-> 3, purged |-> 4]
<1>1. /\ rank["none"] = 0 /\ rank["open"] = 1 /\ rank["closed"] = 2
      /\ rank["compiled"] = 3 /\ rank["purged"] = 4
  OBVIOUS
<1>2. status \in [Sessions -> Statuses] /\ QueueOK(jobs)
  BY StoreTypes DEF TypeOK
<1> SUFFICES \A s \in Sessions :
               \/ status'[s] = status[s] \/ status'[s] = "purged"
               \/ status[s] = "none"
               \/ status'[s] = "closed" /\ status[s] \in {"open", "closed"}
               \/ status'[s] = "compiled" /\ status[s] \in {"open", "closed", "compiled"}
  <2> HIDE DEF rank
  <2>1. StoreTypeOK'
    BY StepTypes DEF TypeOK
  <2>2. status' \in [Sessions -> Statuses]
    BY <2>1 DEF StoreTypeOK
  <2>3. \A x \in Statuses : rank[x] \in 0..4
    BY <1>1 DEF Statuses
  <2>4. \A s \in Sessions : rank[status[s]] \in 0..4 /\ rank[status'[s]] \in 0..4
    BY <1>2, <2>2, <2>3
  <2>5. \A s \in Sessions : rank[status[s]] <= rank[status'[s]]
    BY <1>1, <2>4
  <2> QED BY <2>5 DEF rank
<1>3. CASE Launch
  BY <1>3 DEF Launch, Launches, PurgeExpired, Purge
<1>4. CASE \E t \in Threads : Opens(t)
  BY <1>2, <1>4 DEF Opens, OpenSession, Fresh
<1>5. CASE \E s \in Sessions : DialogDelete(s)
  BY <1>5 DEF DialogDelete, Purge
<1>6. CASE WriterStep
  <2>1. jobs # <<>>
    BY <1>6 DEF WriterStep, WriterAppends, WriterCloses, WriterMarks, WriterStops
  <2> DEFINE h == Head(jobs)
  <2>2. (h.kind # "stop" => h.s \in Sessions) /\ Has(jobs, h.kind, h.s)
    BY <1>2, <2>1, QueueTaken, MarkTaken DEF RankInv
  <2>3. \/ UNCHANGED status
        \/ h.kind = "close" /\ status' = Updated(h.s, "closed")
        \/ h.kind = "mark" /\ status' = Updated(h.s, "compiled")
    BY <1>6 DEF WriterStep, WriterAppends, WriterCloses, WriterMarks, WriterStops
  <2> HIDE DEF h
  <2>4. h.kind = "close" => status[h.s] # "compiled"
    BY <2>2 DEF RankInv
  <2> QED BY <1>2, <2>2, <2>3, <2>4 DEF Updated, Exists, Statuses
<1>7. CASE UNCHANGED status
  BY <1>7
<1> QED
  <2>1. CASE \E t \in Threads : ThreadStep(t)
    <3>1. PICK t \in Threads : ThreadStep(t)
      BY <2>1
    <3> QED BY <1>4, <1>7, <3>1
       DEF ThreadStep, OpenTests, OpenFails, CaptureStarts, StopTests, CaptureStops, CloseTests,
           ClosedAlready, CloseQueues, CloseTimesOut, ClosesTooLate, Closes, Pauses, Resumes,
           storeVars, diskVars
  <2>2. CASE Dialog \/ DialogCloses
    BY <1>5, <1>7, <2>2 DEF Dialog, DialogCloses, DialogCompile, DialogKeep, storeVars, diskVars
  <2>3. CASE \E t \in Threads, s \in Sessions : Compile(t, s)
    BY <1>7, <2>3 DEF Compile, CompileLoads, CompileFails, CompileReturns, Exports, storeVars, diskVars
  <2>4. CASE Writes \/ Launch
    BY <1>3, <1>6, <2>4 DEF Writes
  <2>5. CASE \/ \E t \in Users : Press(t)
             \/ Crash \/ Exit \/ Quit \/ QuitStops \/ UNCHANGED vars
             \/ Speaks \/ Ambient \/ KeyframeTaken \/ Keyframe
    BY <1>7, <2>5
       DEF Crash, Exit, Forgets, Press, Toggle, PausePress, Quit, ShutdownBegins, QuitStops,
           StoreStops, Speaks, Ambient, AmbientLost, AmbientTests, AmbientRecords, KeyframeTaken,
           Keyframe, KeyframeSkipped, KeyframeDone, KeyframeInserts, storeVars, diskVars, vars
  <2> QED BY <2>1, <2>2, <2>3, <2>4, <2>5 DEF Next

LEMMA RankAlways == Spec => [](TypeOK /\ TimelineInv /\ Mine /\ Down /\ RankInv)
<1>1. TypeOK /\ TypeOK' /\ TimelineInv /\ Mine /\ Down /\ RankInv /\ [Next]_vars
        => TimelineInv' /\ Mine' /\ Down' /\ RankInv'
  BY StepTimeline, MineNext, RankNext
<1> QED BY <1>1, InitTimeline, MineInit, RankInit, TypeCorrect, PTL DEF Spec

\* No step takes a session back, whichever threads close it and how often
\* (_do_close_session, _do_mark_status).
THEOREM StatusAlways == Spec => StatusRises
<1>1. TypeOK /\ TimelineInv /\ Mine /\ Down /\ RankInv /\ [Next]_vars
        => [LET rank == [none |-> 0, open |-> 1, closed |-> 2, compiled |-> 3, purged |-> 4]
            IN \A s \in Sessions : rank[status[s]] <= rank[status'[s]]]_vars
  BY RankHolds
<1> QED BY <1>1, RankAlways, PTL DEF Spec, StatusRises

-----------------------------------------------------------------------------
(***************************************************************************)
(* One user.  While the thread that he is on stops a session, no other can *)
(* become current: what it closes is what it has remembered.               *)
(***************************************************************************)
OneUser == \A t, u \in Users : t = u

Stopping == {"halting", "testing", "queueing", "closing"}

SoleInv ==
  \A t \in Threads :
    /\ pc[t] \in {"opening", "inserting", "stopping"} => t \in Users /\ ~Exiting(t)
    /\ pc[t] \in Stopping /\ ~Exiting(t) =>
         /\ t \in Users /\ current \in {0, snap[t]}
         /\ pc[t] = "closing" => closing[t] = snap[t]

LEMMA SoleInit == Init => SoleInv
  BY DEF Init, ControllerInit, SoleInv, Stopping

LEMMA SoleMoves ==
  ASSUME TypeOK, SoleInv, NEW t \in Threads, NEW x, pc' = [pc EXCEPT ![t] = x],
         UNCHANGED exiting, current' \in {current, 0},
         \A u \in Threads : u # t => snap'[u] = snap[u] /\ closing'[u] = closing[u],
         x \in {"opening", "inserting", "stopping"} => t \in Users /\ ~Exiting(t),
         x \in Stopping /\ ~Exiting(t) =>
           /\ t \in Users /\ current' \in {0, snap'[t]}
           /\ x = "closing" => closing'[t] = snap'[t]
  PROVE  SoleInv'
<1>1. pc \in [Threads -> Pcs]
  BY DEF TypeOK, ControllerTypeOK
<1>2. \A u \in Threads : Exiting(u)' <=> Exiting(u)
  BY DEF Exiting
<1>3. pc'[t] = x /\ \A u \in Threads : u # t => pc'[u] = pc[u]
  BY <1>1
<1> SUFFICES ASSUME NEW u \in Threads
             PROVE  /\ pc'[u] \in {"opening", "inserting", "stopping"} => u \in Users /\ ~Exiting(u)
                    /\ pc'[u] \in Stopping /\ ~Exiting(u) =>
                         /\ u \in Users /\ current' \in {0, snap'[u]}
                         /\ pc'[u] = "closing" => closing'[u] = snap'[u]
  BY <1>2 DEF SoleInv
<1>4. CASE u = t
  BY <1>3, <1>4
<1>5. CASE u # t
  BY <1>3, <1>5 DEF SoleInv
<1> QED BY <1>4, <1>5

LEMMA SoleThread ==
  ASSUME OneUser, TypeOK, SoleInv, NEW t \in Threads, ThreadStep(t)
  PROVE  SoleInv'
<1>1. /\ pc \in [Threads -> Pcs] /\ snap \in [Threads -> 0..MaxSessions]
      /\ closing \in [Threads -> 0..MaxSessions]
  BY DEF TypeOK, ControllerTypeOK
<1>2. CASE Opens(t)
  <2>1. /\ pc[t] = "inserting" /\ pc' = [pc EXCEPT ![t] = "starting"]
        /\ UNCHANGED <<snap, closing, exiting>>
    BY <1>2 DEF Opens, Goes
  <2>2. t \in Users
    BY <2>1 DEF SoleInv
  <2>3. \A u \in Threads : pc'[u] = IF u = t THEN "starting" ELSE pc[u]
    BY <1>1, <2>1
  <2>4. \A u \in Threads : u # t => pc[u] \notin Stopping \/ Exiting(u)
    BY <2>2 DEF OneUser, SoleInv
  <2>5. \A u \in Threads : Exiting(u)' <=> Exiting(u)
    BY <2>1 DEF Exiting
  <2> QED BY <2>3, <2>4, <2>5 DEF SoleInv, Stopping
<1>3. CASE OpenTests(t) \/ OpenFails(t) \/ CaptureStarts(t) \/ Pauses(t) \/ Resumes(t)
  <2>1. PICK x \in {"idle", "inserting"} : pc' = [pc EXCEPT ![t] = x] /\ (x = "inserting" => pc[t] = "opening")
    BY <1>3 DEF OpenTests, OpenFails, CaptureStarts, Pauses, Resumes, Goes
  <2>2. UNCHANGED <<current, snap, closing, exiting>>
    BY <1>3 DEF OpenTests, OpenFails, CaptureStarts, Pauses, Resumes, sessionVars
  <2>3. x = "inserting" => t \in Users /\ ~Exiting(t)
    BY <2>1 DEF SoleInv
  <2> QED BY <2>1, <2>2, <2>3, SoleMoves DEF Stopping
<1>4. CASE StopTests(t)
  <2>1. /\ pc[t] = "stopping" /\ snap' = [snap EXCEPT ![t] = current]
        /\ UNCHANGED <<current, closing, exiting>>
        /\ \E x \in {"idle", "halting"} : pc' = [pc EXCEPT ![t] = x]
    BY <1>4 DEF StopTests, Goes, sessionVars
  <2>2. t \in Users
    BY <2>1 DEF SoleInv
  <2>3. snap'[t] = current /\ \A u \in Threads : u # t => snap'[u] = snap[u]
    BY <1>1, <2>1
  <2> QED BY <2>1, <2>2, <2>3, SoleMoves DEF Stopping
<1>5. CASE CaptureStops(t) \/ CloseTests(t)
  <2>1. /\ pc[t] \in Stopping /\ \E x \in {"testing", "queueing"} : pc' = [pc EXCEPT ![t] = x]
        /\ UNCHANGED <<current, snap, closing, exiting>>
    BY <1>5 DEF CaptureStops, CloseTests, Goes, sessionVars, Stopping
  <2>2. ~Exiting(t) => t \in Users /\ current \in {0, snap[t]}
    BY <2>1 DEF SoleInv
  <2> QED BY <2>1, <2>2, SoleMoves
<1>6. CASE CloseQueues(t)
  <2>1. /\ pc[t] = "queueing" /\ pc' = [pc EXCEPT ![t] = "closing"]
        /\ closing' = [closing EXCEPT ![t] = current]
        /\ current # 0 /\ UNCHANGED <<current, snap, exiting>>
    BY <1>6 DEF CloseQueues, Goes, sessionVars
  <2>2. ~Exiting(t) => t \in Users /\ current \in {0, snap[t]}
    BY <2>1 DEF SoleInv, Stopping
  <2>3. closing'[t] = current /\ \A u \in Threads : u # t => closing'[u] = closing[u]
    BY <1>1, <2>1
  <2> QED BY <2>1, <2>2, <2>3, SoleMoves
<1>7. CASE ClosedAlready(t) \/ CloseTimesOut(t) \/ ClosesTooLate(t) \/ Closes(t)
  <2>1. PICK x \in {"idle", "draining", "joining"} : pc' = [pc EXCEPT ![t] = x]
    <3>1. \E y \in Pcs, x \in {"idle", "draining", "joining"} : Returns(t, y, x)
      BY <1>7 DEF ClosedAlready, CloseTimesOut, ClosesTooLate, Closes, Aborted, Pcs
    <3> QED BY <3>1 DEF Returns, Goes
  <2>2. /\ snap' = [snap EXCEPT ![t] = 0] /\ closing' = [closing EXCEPT ![t] = 0]
        /\ UNCHANGED exiting /\ current' \in {current, 0}
    BY <1>7 DEF ClosedAlready, CloseTimesOut, ClosesTooLate, Closes, Returns, sessionVars
  <2>3. \A u \in Threads : u # t => snap'[u] = snap[u] /\ closing'[u] = closing[u]
    BY <1>1, <2>2
  <2> QED BY <2>1, <2>2, <2>3, SoleMoves DEF Stopping
<1> QED BY <1>2, <1>3, <1>4, <1>5, <1>6, <1>7 DEF ThreadStep

LEMMA SoleNext ==
  ASSUME OneUser, TypeOK, Down, SoleInv, [Next]_vars
  PROVE  SoleInv'
<1>1. /\ pc \in [Threads -> Pcs] /\ snap \in [Threads -> 0..MaxSessions]
      /\ closing \in [Threads -> 0..MaxSessions] /\ "qt" \in Threads
  BY DEF TypeOK, ControllerTypeOK, Threads
<1>2. CASE Crash \/ Exit
  BY <1>2 DEF Crash, Exit, Forgets, SoleInv, Stopping
<1>3. CASE \E t \in Threads : ThreadStep(t)
  BY <1>3, SoleThread
<1>4. CASE \E t \in Users : Press(t)
  <2>1. PICK t \in Users : Press(t)
    BY <1>4
  <2>2. PICK x \in {"opening", "stopping", "pausing", "resuming"} : pc' = [pc EXCEPT ![t] = x]
    BY <2>1 DEF Press, Toggle, PausePress, Goes
  <2>3. ~exiting /\ UNCHANGED <<current, snap, closing, exiting>> /\ t \in Threads
    BY <2>1 DEF Press, Toggle, PausePress, sessionVars
  <2> QED BY <2>1, <2>2, <2>3, SoleMoves DEF Stopping, Exiting
<1>5. CASE Quit
  <2>1. /\ exiting' = TRUE /\ UNCHANGED <<current, snap, closing>>
        /\ \E x \in {"draining", "halting"} : pc' = [pc EXCEPT !["qt"] = x]
    BY <1>5 DEF Quit, ShutdownBegins, Goes, sessionVars
  <2>2. \A u \in Threads : u # "qt" => pc'[u] = pc[u] /\ ~Exiting(u) /\ ~Exiting(u)'
    BY <1>1, <2>1 DEF Exiting
  <2>3. pc'["qt"] \in {"draining", "halting"} /\ Exiting("qt")'
    BY <1>1, <2>1 DEF Exiting
  <2> QED BY <2>1, <2>2, <2>3 DEF SoleInv
<1>6. CASE QuitStops
  <2>1. /\ UNCHANGED <<current, snap, closing, exiting>>
        /\ pc' = [pc EXCEPT !["qt"] = "joining"]
    BY <1>6 DEF QuitStops, StoreStops, Goes, sessionVars
  <2> QED BY <1>1, <2>1, SoleMoves DEF Stopping
<1>7. CASE Dialog \/ DialogCloses
  <2>1. /\ UNCHANGED <<current, exiting>>
        /\ \A u \in Threads : u # "qt" => snap'[u] = snap[u] /\ closing'[u] = closing[u]
    BY <1>1, <1>7 DEF Dialog, DialogCloses, DialogCompile, DialogKeep, DialogDelete, Returns,
       controllerVars, sessionVars
  <2>2. CASE \E x \in {"recovering", "idle"} : pc' = [pc EXCEPT !["qt"] = x]
    BY <1>1, <2>1, <2>2, SoleMoves DEF Stopping
  <2>3. CASE UNCHANGED <<pc, snap, closing>>
    BY <2>1, <2>3 DEF SoleInv, Exiting
  <2> QED BY <1>7, <2>2, <2>3 DEF Dialog, DialogCloses, DialogCompile, DialogKeep, DialogDelete,
       Returns, Goes, controllerVars
<1>8. CASE UNCHANGED <<pc, current, snap, closing, exiting>>
  BY <1>8 DEF SoleInv, Exiting
<1>9. CASE \E t \in Threads, s \in Sessions : Compile(t, s)
  BY <1>8, <1>9 DEF Compile, CompileLoads, CompileFails, CompileReturns, Exports, sessionVars,
     threadVars
<1>10. CASE \/ Launch \/ Writes \/ UNCHANGED vars
            \/ Speaks \/ Ambient \/ KeyframeTaken \/ Keyframe
  BY <1>8, <1>10 DEF Launch, Launches, Writes, Speaks, Ambient, AmbientLost, AmbientTests,
     AmbientRecords, KeyframeTaken, Keyframe, KeyframeSkipped, KeyframeDone, KeyframeInserts,
     controllerVars, vars
<1> QED BY <1>2, <1>3, <1>4, <1>5, <1>6, <1>7, <1>9, <1>10 DEF Next

-----------------------------------------------------------------------------
\* Who has a job in the queue waits for it, and no rows are queued for a session
\* that a dialog is shown for.
WaitInv ==
  /\ \A t \in Threads : Waits(t) => pc[t] \in {"closing", "recovering", "joining"}
  /\ grab.at # "none" => grab.s \notin dialogs
  /\ \A s \in dialogs : ~Has(jobs, "append", s)

LEMMA WaitInit == Init => WaitInv
<1> SUFFICES ASSUME Init PROVE WaitInv
  OBVIOUS
<1>1. Len(jobs) = 0 /\ dialogs = {}
  BY DEF Init, StoreInit
<1> QED BY <1>1 DEF WaitInv, Waits

WaitedBy(q, t) == \E i \in 1..Len(q) : q[i].by = t

\* What one more job, one less, and a caller that gives up do to the queue.
LEMMA WaitAppended ==
  ASSUME NEW q, QueueOK(q), NEW j \in Jobs
  PROVE  /\ \A t : WaitedBy(Append(q, j), t) <=> WaitedBy(q, t) \/ j.by = t
         /\ \A k, s : Has(Append(q, j), k, s) => Has(q, k, s) \/ (j.kind = k /\ j.s = s)
<1> DEFINE r == Append(q, j)
<1>1. /\ Len(r) = Len(q) + 1 /\ Len(q) \in Nat /\ r[Len(q) + 1] = j
      /\ \A i \in 1..Len(q) : r[i] = q[i]
  BY DEF QueueOK
<1> HIDE DEF r
<1>2. 1..Len(r) = 1..Len(q) \union {Len(q) + 1}
  BY <1>1
<1>3. \A t : WaitedBy(r, t) <=> WaitedBy(q, t) \/ j.by = t
  BY <1>1, <1>2 DEF WaitedBy
<1>4. \A k, s : Has(r, k, s) => Has(q, k, s) \/ (j.kind = k /\ j.s = s)
  BY <1>1, <1>2 DEF Has
<1> QED BY <1>3, <1>4 DEF r

LEMMA WaitTaken ==
  ASSUME NEW q, QueueOK(q), q # <<>>
  PROVE  /\ \A t : WaitedBy(Tail(q), t) => WaitedBy(q, t)
         /\ \A k, s : Has(Tail(q), k, s) => Has(q, k, s)
<1> DEFINE r == Tail(q)
<1>1. Len(q) \in Nat /\ \A i \in 1..Len(r) : i + 1 \in 1..Len(q) /\ r[i] = q[i + 1]
  BY DEF QueueOK
<1> HIDE DEF r
<1>2. \A t : WaitedBy(r, t) => WaitedBy(q, t)
  BY <1>1 DEF WaitedBy
<1>3. \A k, s : Has(r, k, s) => Has(q, k, s)
  BY <1>1 DEF Has
<1> QED BY <1>2, <1>3 DEF r

LEMMA WaitGivenUp ==
  ASSUME QueueOK(jobs), NEW u, u # Nobody
  PROVE  /\ Len(GivenUp(u)) = Len(jobs)
         /\ \A i \in 1..Len(jobs) : /\ GivenUp(u)[i].kind = jobs[i].kind
                                    /\ GivenUp(u)[i].s = jobs[i].s
         /\ ~WaitedBy(GivenUp(u), u)
         /\ \A t : t # u /\ t # Nobody => (WaitedBy(GivenUp(u), t) <=> WaitedBy(jobs, t))
         /\ \A k, s : Has(GivenUp(u), k, s) => Has(jobs, k, s)
<1> DEFINE r == GivenUp(u)
<1>1. /\ Len(jobs) \in Nat /\ \A i \in 1..Len(jobs) : jobs[i] \in Jobs
  BY DEF QueueOK
<1>2. \A i \in 1..Len(jobs) :
        /\ r[i].kind = jobs[i].kind /\ r[i].s = jobs[i].s
        /\ r[i].by = IF jobs[i].by = u THEN Nobody ELSE jobs[i].by
  BY <1>1 DEF GivenUp, Jobs
<1>3. Len(r) = Len(jobs)
  BY <1>1 DEF GivenUp
<1> HIDE DEF r
<1>4. ~WaitedBy(r, u)
  BY <1>2, <1>3 DEF WaitedBy
<1>5. \A t : t # u /\ t # Nobody => (WaitedBy(r, t) <=> WaitedBy(jobs, t))
  BY <1>2, <1>3 DEF WaitedBy
<1>6. \A k, s : Has(r, k, s) => Has(jobs, k, s)
  BY <1>2, <1>3 DEF Has
<1> QED BY <1>2, <1>3, <1>4, <1>5, <1>6 DEF r

LEMMA NotWaiters == Nobody \notin Threads /\ "grabber" \notin Threads /\ "grabber" # Nobody
  BY DEF Nobody, Threads

\* How a step may change the queue: not at all, by a row, a mark, a close or the
\* sentinel, or by letting somebody go.
LEMMA WaitKept ==
  ASSUME TypeOK, WaitInv, dialogs' \subseteq dialogs,
         grab'.at # "none" => grab'.s \notin dialogs',
         \A t \in Threads : WaitedBy(jobs', t) /\ WaitedBy(jobs, t) => pc'[t] = pc[t],
         \A t \in Threads : WaitedBy(jobs', t) => \/ WaitedBy(jobs, t)
                                                  \/ pc'[t] \in {"closing", "recovering", "joining"},
         \A s \in dialogs' : Has(jobs', "append", s) => Has(jobs, "append", s)
  PROVE  WaitInv'
<1>1. \A t \in Threads : Waits(t) <=> WaitedBy(jobs, t)
  BY DEF Waits, WaitedBy
<1>2. \A t \in Threads : Waits(t)' <=> WaitedBy(jobs', t)
  BY DEF Waits, WaitedBy
<1> QED BY <1>1, <1>2 DEF WaitInv

LEMMA WaitThread ==
  ASSUME TypeOK, WaitInv, NEW t \in Threads, ThreadStep(t)
  PROVE  WaitInv'
<1>1. /\ pc \in [Threads -> Pcs] /\ QueueOK(jobs) /\ UNCHANGED <<dialogs, grab>>
  BY StoreTypes DEF TypeOK, ControllerTypeOK, ThreadStep, mainVars, feedVars
<1>2. PICK x : pc' = [pc EXCEPT ![t] = x] /\ (CloseQueues(t) => x = "closing")
  <2>1. \E y, x : Goes(t, y, x)
    BY DEF ThreadStep, OpenTests, OpenFails, Opens, CaptureStarts, StopTests, CaptureStops,
       CloseTests, ClosedAlready, CloseQueues, CloseTimesOut, ClosesTooLate, Closes, Pauses,
       Resumes, Returns
  <2>2. CloseQueues(t) => Goes(t, "queueing", "closing")
    BY DEF CloseQueues
  <2> QED BY <2>1, <2>2 DEF Goes
<1>3. \A u \in Threads : pc'[u] = IF u = t THEN x ELSE pc[u]
  BY <1>1, <1>2
<1>4. WaitInv => (pc[t] \in Pcs \ {"closing", "recovering", "joining"} => ~WaitedBy(jobs, t))
  BY DEF WaitInv, Waits, WaitedBy
<1>5. CASE CloseQueues(t)
  <2>1. jobs' = Append(jobs, CloseJob(current, t)) /\ current \in Sessions /\ pc[t] = "queueing"
    BY <1>5, SessionIds DEF CloseQueues, Goes, TypeOK, ControllerTypeOK
  <2>2. PICK j \in Jobs : j = CloseJob(current, t) /\ j.kind = "close" /\ j.by = t
    BY <2>1, JobTypes DEF CloseJob, Job
  <2>3. /\ \A u \in Threads : WaitedBy(jobs', u) <=> WaitedBy(jobs, u) \/ u = t
        /\ \A s : Has(jobs', "append", s) => Has(jobs, "append", s)
    BY <1>1, <2>1, <2>2, WaitAppended
  <2>4. ~WaitedBy(jobs, t)
    BY <1>1, <1>4, <2>1
  <2> QED BY <1>1, <1>2, <1>3, <1>5, <2>3, <2>4, WaitKept DEF WaitInv
<1>6. CASE CloseTimesOut(t)
  <2>1. jobs' = GivenUp(t)
    BY <1>6 DEF CloseTimesOut
  <2>2. /\ \A u \in Threads : WaitedBy(jobs', u) <=> WaitedBy(jobs, u) /\ u # t
        /\ \A s : Has(jobs', "append", s) => Has(jobs, "append", s)
    BY <1>1, <2>1, WaitGivenUp, NotWaiters
  <2> QED BY <1>1, <1>3, <2>2, WaitKept DEF WaitInv
<1>7. CASE ClosesTooLate(t) \/ Closes(t)
  <2>1. jobs' = jobs /\ ~WaitedBy(jobs, t)
    BY <1>7 DEF ClosesTooLate, Closes, Waits, WaitedBy
  <2> QED BY <1>1, <1>3, <2>1, WaitKept DEF WaitInv
<1>8. CASE \/ OpenTests(t) \/ OpenFails(t) \/ Opens(t) \/ CaptureStarts(t)
           \/ StopTests(t) \/ CaptureStops(t) \/ CloseTests(t) \/ ClosedAlready(t)
           \/ Pauses(t) \/ Resumes(t)
  <2>1. /\ jobs' = jobs
        /\ pc[t] \in {"opening", "inserting", "starting", "stopping", "halting", "testing",
                      "queueing", "pausing", "resuming"}
    BY <1>8 DEF OpenTests, OpenFails, Opens, CaptureStarts, StopTests, CaptureStops, CloseTests,
       ClosedAlready, Pauses, Resumes, Returns, Goes, storeVars
  <2>2. ~WaitedBy(jobs, t)
    BY <1>1, <1>4, <2>1
  <2> QED BY <1>1, <1>3, <2>1, <2>2, WaitKept DEF WaitInv
<1> QED BY <1>5, <1>6, <1>7, <1>8 DEF ThreadStep

LEMMA WaitNext ==
  ASSUME TypeOK, Mine, Down, WaitInv, [Next]_vars
  PROVE  WaitInv'
<1>1. /\ pc \in [Threads -> Pcs] /\ QueueOK(jobs) /\ "qt" \in Threads /\ dialogs \subseteq Sessions
      /\ current \in 0..MaxSessions
      /\ grab.at # "none" => grab.s \in Sessions /\ grab.s \notin dialogs
  BY StoreTypes, SessionIds DEF TypeOK, ControllerTypeOK, Threads, WaitInv, Grabs
<1>2. current \notin dialogs
  BY <1>1, SessionIds DEF Mine, Spoken
<1>3. \A t \in Threads : WaitedBy(jobs, t) => pc[t] \in {"closing", "recovering", "joining"}
  BY DEF WaitInv, Waits, WaitedBy
<1>4. ASSUME UNCHANGED <<pc, grab>>, dialogs' \subseteq dialogs,
             \A t \in Threads : WaitedBy(jobs', t) => WaitedBy(jobs, t),
             \A s \in dialogs : Has(jobs', "append", s) => Has(jobs, "append", s)
      PROVE  WaitInv'
  BY <1>1, <1>4, WaitKept
<1>5. ASSUME NEW j, Recorded(j), jobs' = Append(jobs, j), UNCHANGED <<pc, dialogs>>,
             grab'.at # "none" => grab.at # "none" /\ grab'.s = grab.s
      PROVE  WaitInv'
  <2>1. j \in Jobs /\ j.by \notin Threads /\ j.s \notin dialogs
    BY <1>1, <1>2, <1>5, NotWaiters DEF Recorded
  <2>2. /\ \A t \in Threads : WaitedBy(jobs', t) <=> WaitedBy(jobs, t)
        /\ \A s \in dialogs : Has(jobs', "append", s) => Has(jobs, "append", s)
    BY <1>1, <1>5, <2>1, WaitAppended
  <2> QED BY <1>1, <1>5, <2>2, WaitKept
<1>6. CASE Launch
  <2>1. phase # "up" /\ UNCHANGED <<jobs, grab>>
    BY <1>6 DEF Launch, Launches, feedVars
  <2>2. Len(jobs') = 0 /\ grab'.at = "none"
    BY <2>1 DEF Down
  <2> QED BY <2>2 DEF WaitInv, Waits, Has
<1>7. CASE Crash \/ Exit
  <2>1. Len(jobs') = 0 /\ dialogs' = {}
    BY <1>7 DEF Crash, Exit, Forgets
  <2> QED BY <2>1 DEF WaitInv, Waits
<1>8. CASE Writes
  <2>1. jobs # <<>> /\ jobs' = Tail(jobs) /\ UNCHANGED <<pc, dialogs, grab>>
    BY <1>8 DEF Writes, WriterStep, WriterAppends, WriterCloses, WriterMarks, WriterStops,
       controllerVars, mainVars, feedVars
  <2> QED BY <1>1, <1>4, <2>1, WaitTaken
<1>9. CASE \E t \in Threads : ThreadStep(t)
  BY <1>9, WaitThread
<1>10. CASE (\E t \in Users : Press(t)) \/ Quit
  <2>1. PICK t \in Threads : pc[t] = "idle" /\ \E x : pc' = [pc EXCEPT ![t] = x]
    BY <1>1, <1>10 DEF Press, Toggle, PausePress, Quit, ShutdownBegins, Goes
  <2>2. UNCHANGED <<jobs, dialogs, grab>>
    BY <1>10 DEF Press, Toggle, PausePress, Quit, ShutdownBegins, storeVars, mainVars, feedVars
  <2>3. ~WaitedBy(jobs, t)
    BY <1>3, <2>1
  <2>4. \A u \in Threads : u # t => pc'[u] = pc[u]
    BY <1>1, <2>1
  <2> QED BY <1>1, <2>2, <2>3, <2>4, WaitKept
<1>11. CASE QuitStops
  <2>1. /\ pc["qt"] = "draining" /\ pc' = [pc EXCEPT !["qt"] = "joining"]
        /\ jobs' = Append(jobs, StopJob("qt")) /\ UNCHANGED <<dialogs, grab>>
    BY <1>11 DEF QuitStops, StoreStops, Goes, mainVars, feedVars
  <2>2. PICK j \in Jobs : j = StopJob("qt") /\ j.kind = "stop" /\ j.by = "qt"
    BY <1>1, JobTypes DEF StopJob, Job
  <2>3. /\ \A t \in Threads : WaitedBy(jobs', t) <=> WaitedBy(jobs, t) \/ t = "qt"
        /\ \A s \in dialogs : Has(jobs', "append", s) => Has(jobs, "append", s)
    BY <1>1, <2>1, <2>2, WaitAppended
  <2>4. \A t \in Threads : pc'[t] = IF t = "qt" THEN "joining" ELSE pc[t]
    BY <1>1, <2>1
  <2>5. ~WaitedBy(jobs, "qt")
    BY <1>1, <1>3, <2>1
  <2> QED BY <1>1, <2>1, <2>3, <2>4, <2>5, WaitKept
<1>12. CASE \E s \in Sessions : DialogCompile(s)
  <2>1. PICK r \in Sessions : DialogCompile(r)
    BY <1>12
  <2>2. /\ pc["qt"] = "idle" /\ pc' = [pc EXCEPT !["qt"] = "recovering"]
        /\ jobs' = Append(jobs, CloseJob(r, "qt")) /\ dialogs' \subseteq dialogs
        /\ UNCHANGED grab
    BY <2>1 DEF DialogCompile, Goes, feedVars
  <2>3. PICK j \in Jobs : j = CloseJob(r, "qt") /\ j.kind = "close" /\ j.by = "qt"
    BY <1>1, JobTypes DEF CloseJob, Job
  <2>4. /\ \A t \in Threads : WaitedBy(jobs', t) <=> WaitedBy(jobs, t) \/ t = "qt"
        /\ \A s \in dialogs : Has(jobs', "append", s) => Has(jobs, "append", s)
    BY <1>1, <2>2, <2>3, WaitAppended
  <2>5. \A t \in Threads : pc'[t] = IF t = "qt" THEN "recovering" ELSE pc[t]
    BY <1>1, <2>2
  <2>6. ~WaitedBy(jobs, "qt")
    BY <1>1, <1>3, <2>2
  <2> QED BY <1>1, <2>2, <2>4, <2>5, <2>6, WaitKept
<1>13. CASE \E s \in Sessions : DialogKeep(s) \/ DialogDelete(s)
  <2>1. UNCHANGED <<pc, jobs, grab>> /\ dialogs' \subseteq dialogs
    BY <1>13 DEF DialogKeep, DialogDelete, storeVars, controllerVars, feedVars
  <2> QED BY <1>4, <2>1
<1>14. CASE DialogCloses
  <2>1. /\ pc' = [pc EXCEPT !["qt"] = "idle"] /\ UNCHANGED <<dialogs, grab>>
        /\ (jobs' = jobs /\ ~Waits("qt")) \/ jobs' = GivenUp("qt")
    BY <1>14 DEF DialogCloses, Returns, Goes, mainVars, feedVars
  <2>2. \A t \in Threads : t # "qt" => pc'[t] = pc[t]
    BY <1>1, <2>1
  <2>3. /\ \A t \in Threads : WaitedBy(jobs', t) <=> WaitedBy(jobs, t) /\ t # "qt"
        /\ \A s \in dialogs : Has(jobs', "append", s) => Has(jobs, "append", s)
    <3>1. CASE jobs' = jobs /\ ~Waits("qt")
      BY <3>1 DEF Waits, WaitedBy
    <3>2. CASE jobs' = GivenUp("qt")
      BY <1>1, <3>2, WaitGivenUp, NotWaiters
    <3> QED BY <2>1, <3>1, <3>2
  <2> QED BY <1>1, <2>1, <2>2, <2>3, WaitKept
<1>15. CASE \E t \in Threads, s \in Sessions : Compile(t, s)
  <2>1. PICK t \in Threads, r \in Sessions : Compile(t, r)
    BY <1>15
  <2>2. /\ UNCHANGED <<pc, dialogs, grab>>
        /\ jobs' = jobs \/ jobs' = Append(jobs, MarkJob(r))
    BY <2>1 DEF Compile, CompileLoads, CompileFails, CompileReturns, Exports, storeVars,
       threadVars, mainVars, feedVars
  <2>3. PICK j \in Jobs : j = MarkJob(r) /\ j.kind = "mark" /\ j.by = Nobody
    BY JobTypes DEF MarkJob, Job
  <2>4. CASE jobs' = Append(jobs, j)
    BY <1>1, <1>4, <2>2, <2>3, <2>4, WaitAppended, NotWaiters
  <2> QED BY <1>4, <2>2, <2>3, <2>4
<1>16. CASE KeyframeDone
  <2>1. jobs' = GivenUp("grabber") /\ grab'.at = "none" /\ UNCHANGED <<pc, dialogs>>
    BY <1>16 DEF KeyframeDone, NoGrab, controllerVars, mainVars
  <2>2. /\ \A t \in Threads : WaitedBy(jobs', t) <=> WaitedBy(jobs, t)
        /\ \A s \in dialogs : Has(jobs', "append", s) => Has(jobs, "append", s)
    BY <1>1, <2>1, WaitGivenUp, NotWaiters
  <2> QED BY <2>1, <2>2, WaitKept
<1>17. CASE (\E ts \in Stamps : AmbientRecords(ts)) \/ (\E ts \in Stamps : KeyframeInserts(ts))
  <2>1. /\ UNCHANGED <<pc, dialogs>>
        /\ grab'.at # "none" => grab.at # "none" /\ grab'.s = grab.s
    BY <1>17 DEF AmbientRecords, KeyframeInserts, controllerVars, mainVars, TypeOK, Grabs
  <2>2. (jobs' = jobs /\ UNCHANGED grab) \/ \E j : Recorded(j) /\ jobs' = Append(jobs, j)
    BY <1>17, AmbientJob, KeyframeJob DEF AmbientRecords
  <2> QED BY <1>4, <1>5, <2>1, <2>2
<1>18. CASE \/ Speaks \/ AmbientLost \/ AmbientTests \/ KeyframeTaken \/ KeyframeSkipped
            \/ UNCHANGED vars
  <2>1. /\ UNCHANGED <<pc, jobs, dialogs>>
        /\ grab'.at # "none" => (grab' = grab) \/ grab'.s = current
    BY <1>18 DEF Speaks, AmbientLost, AmbientTests, KeyframeTaken, KeyframeSkipped, NoGrab,
       storeVars, controllerVars, mainVars, feedVars, vars
  <2> QED BY <1>1, <1>2, <2>1, WaitKept
<1> QED
  BY <1>6, <1>7, <1>8, <1>9, <1>10, <1>11, <1>12, <1>13, <1>14, <1>15, <1>16, <1>17, <1>18
  DEF Next, Dialog, Ambient, Keyframe

-----------------------------------------------------------------------------
(***************************************************************************)
(* Completeness.  The rows of a session that are in the queue ahead of a   *)
(* job, together with those that are stored, are what was due when the job *)
(* was added, wherever the queue has got to since.                         *)
(***************************************************************************)
Ahead(q, i, s) == {j \in 1..Len(q) : j < i /\ q[j].kind = "append" /\ q[j].s = s}

LEMMA AheadFinite ==
  ASSUME NEW q, QueueOK(q), NEW i, NEW s
  PROVE  IsFiniteSet(Ahead(q, i, s)) /\ Cardinality(Ahead(q, i, s)) \in Nat
<1>1. Len(q) \in Nat
  BY DEF QueueOK
<1>2. IsFiniteSet(1..Len(q))
  BY <1>1, FS_Interval
<1>3. IsFiniteSet(Ahead(q, i, s))
  BY <1>2, FS_Subset DEF Ahead
<1> QED BY <1>3, FS_CardinalityType

LEMMA AheadAppended ==
  ASSUME NEW q, QueueOK(q), NEW j \in Jobs, NEW s
  PROVE  /\ \A i \in 1..Len(q) : Ahead(Append(q, j), i, s) = Ahead(q, i, s)
         /\ Ahead(Append(q, j), Len(q) + 1, s) =
              {i \in 1..Len(q) : q[i].kind = "append" /\ q[i].s = s}
<1> DEFINE r == Append(q, j)
<1>1. /\ Len(r) = Len(q) + 1 /\ Len(q) \in Nat
      /\ \A i \in 1..Len(q) : r[i] = q[i]
  BY DEF QueueOK
<1> HIDE DEF r
<1>2. \A i \in 1..(Len(q) + 1) : \A k : k \in 1..Len(r) /\ k < i <=> k \in 1..Len(q) /\ k < i
  BY <1>1
<1>3. \A i \in 1..Len(q) : Ahead(r, i, s) = Ahead(q, i, s)
  BY <1>1, <1>2 DEF Ahead
<1>4. Ahead(r, Len(q) + 1, s) = {i \in 1..Len(q) : q[i].kind = "append" /\ q[i].s = s}
  BY <1>1, <1>2 DEF Ahead
<1> QED BY <1>3, <1>4 DEF r

LEMMA AheadGivenUp ==
  ASSUME QueueOK(jobs), NEW u, NEW s, NEW i
  PROVE  Ahead(GivenUp(u), i, s) = Ahead(jobs, i, s)
<1> DEFINE r == GivenUp(u)
<1>1. /\ Len(jobs) \in Nat /\ \A k \in 1..Len(jobs) : jobs[k] \in Jobs
  BY DEF QueueOK
<1>2. \A k \in 1..Len(jobs) : r[k].kind = jobs[k].kind /\ r[k].s = jobs[k].s
  BY <1>1 DEF GivenUp, Jobs
<1>3. Len(r) = Len(jobs)
  BY <1>1 DEF GivenUp
<1> HIDE DEF r
<1>4. Ahead(r, i, s) = Ahead(jobs, i, s)
  BY <1>2, <1>3 DEF Ahead
<1> QED BY <1>4 DEF r

\* A row that is taken is ahead no more.
LEMMA AheadTaken ==
  ASSUME NEW q, QueueOK(q), q # <<>>, NEW i \in 1..Len(Tail(q)), NEW s
  PROVE  Cardinality(Ahead(q, i + 1, s)) =
           Cardinality(Ahead(Tail(q), i, s))
           + (IF Head(q).kind = "append" /\ Head(q).s = s THEN 1 ELSE 0)
<1> DEFINE r == Tail(q)
           A == Ahead(r, i, s)
           B == {j \in Ahead(q, i + 1, s) : j # 1}
<1>1. /\ Len(r) = Len(q) - 1 /\ Len(q) \in Nat /\ Len(q) > 0 /\ Head(q) = q[1]
      /\ \A j \in 1..Len(r) : r[j] = q[j + 1]
  BY DEF QueueOK
<1>2. QueueOK(r)
  BY QueueTaken
<1> HIDE DEF r
<1>3. \A j \in A : j + 1 \in B /\ j \in Nat
  BY <1>1 DEF Ahead, r
<1>4. \A k \in B : k - 1 \in A /\ k \in Nat
  <2> SUFFICES ASSUME NEW k \in B PROVE k - 1 \in A /\ k \in Nat
    OBVIOUS
  <2>1. /\ k \in 1..Len(q) /\ k # 1 /\ k < i + 1
        /\ q[k].kind = "append" /\ q[k].s = s
    BY DEF Ahead
  <2>2. k - 1 \in 1..Len(r) /\ k - 1 < i /\ (k - 1) + 1 = k
    BY <1>1, <2>1 DEF r
  <2> QED BY <1>1, <2>1, <2>2 DEF Ahead
<1>5. ExistsBijection(A, B)
  <2> DEFINE f == [j \in A |-> j + 1]
  <2>1. f \in [A -> B]
    BY <1>3
  <2>2. \A j, k \in A : f[j] = f[k] => j = k
    BY <1>3
  <2>3. \A k \in B : \E j \in A : f[j] = k
    <3> SUFFICES ASSUME NEW k \in B PROVE \E j \in A : f[j] = k
      OBVIOUS
    <3>1. k - 1 \in A /\ (k - 1) + 1 = k
      BY <1>4
    <3> QED BY <3>1
  <2> HIDE DEF f
  <2>4. f \in Injection(A, B)
    BY <2>1, <2>2 DEF Injection, IsInjective
  <2>5. f \in Surjection(A, B)
    BY <2>1, <2>3 DEF Surjection
  <2>6. f \in Bijection(A, B)
    BY <2>4, <2>5 DEF Bijection
  <2> QED BY <2>6 DEF ExistsBijection
<1>6. IsFiniteSet(A) /\ Cardinality(A) \in Nat
  BY <1>2, AheadFinite
<1>7. IsFiniteSet(B) /\ Cardinality(B) = Cardinality(A)
  BY <1>5, <1>6, FS_Bijection
<1>8. CASE Head(q).kind = "append" /\ Head(q).s = s
  <2>1. 1 \in Ahead(q, i + 1, s)
    BY <1>1, <1>8 DEF Ahead, r
  <2>2. Ahead(q, i + 1, s) = B \union {1} /\ 1 \notin B
    BY <2>1
  <2>3. Cardinality(Ahead(q, i + 1, s)) = Cardinality(B) + 1
    BY <1>7, <2>2, FS_AddElement
  <2> QED BY <1>7, <1>8, <2>3 DEF r
<1>9. CASE ~(Head(q).kind = "append" /\ Head(q).s = s)
  <2>1. Ahead(q, i + 1, s) = B
    BY <1>1, <1>9 DEF Ahead
  <2>2. Cardinality(Ahead(q, i + 1, s)) = Cardinality(Ahead(Tail(q), i, s))
    BY <1>7, <2>1 DEF r
  <2>3. Cardinality(Ahead(Tail(q), i, s)) \in Nat
    BY <1>6 DEF r
  <2> QED BY <1>9, <2>2, <2>3
<1> QED BY <1>8, <1>9

-----------------------------------------------------------------------------
\* A session that is compiled, or about to be, has all of its rows; one that is
\* waited for will have them when its close is written.
Written(s) == before[s] <= Len(timeline[s])

Settled(s) ==
  \E t \in Threads : tasks[t][s] = "scheduled" \/ (pc[t] = "recovering" /\ closing[t] = s)

Promising(t, s) == pc[t] = "closing" /\ ~Exiting(t) /\ closing[t] = s

Enough(q, t, s) ==
  \A i \in 1..Len(q) :
    q[i].by = t => before[s] <= Len(timeline[s]) + Cardinality(Ahead(q, i, s))

Promised(t, s) == (~WaitedBy(jobs, t) => Written(s)) /\ Enough(jobs, t, s)

CompleteInv ==
  /\ \A s \in Sessions : Settled(s) => Written(s)
  /\ \A t \in Threads, s \in Sessions : Promising(t, s) => Promised(t, s)

LEMMA CompleteInit == Init => CompleteInv
  BY SessionIds DEF Init, ControllerInit, CompleteInv, Settled, Promising

LEMMA CountTypes ==
  ASSUME TypeOK, NEW s \in Sessions
  PROVE  /\ before[s] \in Nat /\ Len(timeline[s]) \in Nat
         /\ QueueOK(jobs)
         /\ \A i : Cardinality(Ahead(jobs, i, s)) \in Nat
<1>1. before[s] \in Nat /\ Len(timeline[s]) \in Nat
  BY DEF TypeOK, ControllerTypeOK, StoreTypeOK
<1> QED BY <1>1, StoreTypes, AheadFinite DEF TypeOK

\* The place of t's job in the queue stays what it is.
SamePlace(t) ==
  /\ Len(jobs') \in Nat
  /\ WaitedBy(jobs, t) => WaitedBy(jobs', t)
  /\ \A i \in 1..Len(jobs') : jobs'[i].by = t =>
       /\ i \in 1..Len(jobs) /\ jobs[i].by = t
       /\ \A s : Ahead(jobs', i, s) = Ahead(jobs, i, s)

LEMMA PlaceAppended ==
  ASSUME QueueOK(jobs), NEW j \in Jobs, jobs' = Append(jobs, j), NEW t, j.by # t
  PROVE  SamePlace(t)
<1>1. /\ Len(jobs') = Len(jobs) + 1 /\ Len(jobs) \in Nat /\ jobs'[Len(jobs) + 1] = j
      /\ \A i \in 1..Len(jobs) : jobs'[i] = jobs[i]
  BY DEF QueueOK
<1>2. ASSUME NEW s, NEW i \in 1..Len(jobs) PROVE Ahead(jobs', i, s) = Ahead(jobs, i, s)
  <2>1. \A k \in 1..Len(jobs) : Ahead(Append(jobs, j), k, s) = Ahead(jobs, k, s)
    BY AheadAppended
  <2> QED BY <2>1
<1>3. \A i \in 1..Len(jobs') : jobs'[i].by = t => i \in 1..Len(jobs) /\ jobs[i].by = t
  BY <1>1
<1>4. WaitedBy(jobs, t) => WaitedBy(jobs', t)
  BY WaitAppended
<1> QED BY <1>1, <1>2, <1>3, <1>4 DEF SamePlace

LEMMA PlaceGivenUp ==
  ASSUME QueueOK(jobs), NEW u, u # Nobody, jobs' = GivenUp(u), NEW t, t # u, t # Nobody
  PROVE  SamePlace(t)
<1>1. /\ Len(jobs) \in Nat /\ \A i \in 1..Len(jobs) : jobs[i] \in Jobs
  BY DEF QueueOK
<1>2. \A i \in 1..Len(jobs) :
        jobs'[i].by = IF jobs[i].by = u THEN Nobody ELSE jobs[i].by
  BY <1>1 DEF GivenUp, Jobs
<1>3. Len(jobs') = Len(jobs) /\ (WaitedBy(jobs, t) => WaitedBy(jobs', t))
  BY WaitGivenUp
<1>4. \A i, s : Ahead(jobs', i, s) = Ahead(jobs, i, s)
  BY AheadGivenUp
<1> QED BY <1>1, <1>2, <1>3, <1>4 DEF SamePlace

LEMMA PlaceKept ==
  ASSUME TypeOK, jobs' = jobs, NEW t
  PROVE  SamePlace(t)
<1>1. Len(jobs) \in Nat
  BY DEF TypeOK, StoreTypeOK
<1> QED BY <1>1 DEF SamePlace

\* Less is due, or more is stored, and the job stays where it is.
LEMMA PromiseKept ==
  ASSUME TypeOK, TypeOK', NEW s \in Sessions, NEW t \in Threads, Promised(t, s), SamePlace(t),
         before'[s] <= before[s], Len(timeline[s]) <= Len(timeline'[s])
  PROVE  Promised(t, s)'
<1>1. /\ before[s] \in Nat /\ Len(timeline[s]) \in Nat
      /\ before'[s] \in Nat /\ Len(timeline'[s]) \in Nat
      /\ \A i : Cardinality(Ahead(jobs, i, s)) \in Nat
  <2>1. before'[s] \in Nat /\ Len(timeline'[s]) \in Nat
    BY DEF TypeOK, ControllerTypeOK, StoreTypeOK
  <2> QED BY <2>1, CountTypes
<1>2. (~WaitedBy(jobs, t) => before[s] <= Len(timeline[s])) /\ Enough(jobs, t, s)
  BY DEF Promised, Written
<1>3. ~WaitedBy(jobs', t) => before'[s] <= Len(timeline'[s])
  BY <1>1, <1>2 DEF SamePlace
<1>4. ASSUME NEW i \in 1..Len(jobs'), jobs'[i].by = t
      PROVE  before'[s] <= Len(timeline'[s]) + Cardinality(Ahead(jobs', i, s))
  <2>1. Ahead(jobs', i, s) = Ahead(jobs, i, s) /\ i \in 1..Len(jobs) /\ jobs[i].by = t
    BY <1>4 DEF SamePlace
  <2>2. before[s] <= Len(timeline[s]) + Cardinality(Ahead(jobs, i, s))
    BY <1>2, <2>1 DEF Enough
  <2> QED BY <1>1, <2>1, <2>2
<1> QED BY <1>3, <1>4 DEF Promised, Written, Enough

LEMMA WrittenKept ==
  ASSUME TypeOK, TypeOK', NEW s \in Sessions, Written(s),
         before'[s] <= before[s], Len(timeline[s]) <= Len(timeline'[s])
  PROVE  Written(s)'
<1>1. /\ before[s] \in Nat /\ Len(timeline[s]) \in Nat
      /\ before'[s] \in Nat /\ Len(timeline'[s]) \in Nat
  BY DEF TypeOK, ControllerTypeOK, StoreTypeOK
<1> QED BY <1>1 DEF Written

\* What is stored of s, and what is due of it, is as it was, or nobody asks.
CountsKept ==
  \A s \in Sessions :
    \/ before'[s] <= before[s] /\ Len(timeline[s]) <= Len(timeline'[s])
    \/ ~Settled(s)' /\ \A t \in Threads : ~Promising(t, s)'

LEMMA CompleteKept ==
  ASSUME TypeOK, TypeOK', CompleteInv, CountsKept,
         \A s \in Sessions : Settled(s)' => Settled(s) \/ Written(s),
         \A t \in Threads, s \in Sessions :
           Promising(t, s)' => Promising(t, s) /\ SamePlace(t)
  PROVE  CompleteInv'
<1>1. ASSUME NEW s \in Sessions, Settled(s)' PROVE Written(s)'
  BY <1>1, WrittenKept DEF CompleteInv, CountsKept
<1>2. ASSUME NEW t \in Threads, NEW s \in Sessions, Promising(t, s)' PROVE Promised(t, s)'
  BY <1>2, PromiseKept DEF CompleteInv, CountsKept
<1> QED BY <1>1, <1>2 DEF CompleteInv

LEMMA NothingAsked ==
  ASSUME TypeOK, \A t \in Threads : pc[t] = "idle" /\ \A s \in Sessions : tasks[t][s] = "none"
  PROVE  CompleteInv
BY DEF CompleteInv, Settled, Promising

LEMMA CompleteCloses ==
  ASSUME OneUser, TypeOK, TypeOK', RankInv, SoleInv, WaitInv, CompleteInv,
         NEW t \in Threads, CloseQueues(t)
  PROVE  CompleteInv'
<1>1. /\ pc \in [Threads -> Pcs] /\ closing \in [Threads -> 0..MaxSessions]
      /\ before \in [Sessions -> Nat] /\ QueueOK(jobs)
  BY StoreTypes DEF TypeOK, ControllerTypeOK
<1>2. /\ pc[t] = "queueing" /\ pc' = [pc EXCEPT ![t] = "closing"]
      /\ closing' = [closing EXCEPT ![t] = current]
      /\ jobs' = Append(jobs, CloseJob(current, t))
      /\ current # 0 /\ UNCHANGED <<timeline, tasks, exiting>>
      /\ before' = IF Exiting(t) THEN before ELSE [before EXCEPT ![current] = Due(current)]
  BY DEF CloseQueues, Goes, diskVars, taskVars
<1>3. PICK c \in Sessions : c = current
  BY <1>2, SessionIds DEF TypeOK, ControllerTypeOK
<1>4. PICK j \in Jobs : j = CloseJob(current, t) /\ j.by = t
  BY <1>3, JobTypes DEF CloseJob, Job
<1>5. \A u \in Threads : /\ u # t => pc'[u] = pc[u] /\ closing'[u] = closing[u]
                         /\ Exiting(u)' <=> Exiting(u)
  BY <1>1, <1>2 DEF Exiting
<1>6. pc'[t] = "closing" /\ closing'[t] = c
  BY <1>1, <1>2, <1>3
<1>7. \A s \in Sessions : Settled(s)' => Settled(s)
  BY <1>2, <1>5, <1>6 DEF Settled
<1>8. ~Settled(c)
  BY <1>3 DEF Settled, RankInv, Released
<1>9. \A s \in Sessions : s # c \/ Exiting(t) => before'[s] = before[s]
  BY <1>1, <1>2, <1>3
<1>10. ASSUME NEW s \in Sessions, Settled(s)' PROVE Written(s)'
  <2>1. s # c /\ Written(s)
    BY <1>7, <1>8, <1>10 DEF CompleteInv
  <2> QED BY <1>2, <1>9, <2>1 DEF Written
<1>11. ASSUME NEW u \in Threads, u # t, NEW s \in Sessions, Promising(u, s)' PROVE Promised(u, s)'
  <2>1. Promising(u, s)
    BY <1>5, <1>11 DEF Promising
  <2>2. Promised(u, s) /\ SamePlace(u)
    BY <1>1, <1>2, <1>4, <1>11, <2>1, PlaceAppended DEF CompleteInv
  <2>3. Exiting(t)
    BY <1>2, <1>11, <2>1 DEF SoleInv, OneUser, Stopping, Promising
  <2>4. before'[s] <= before[s] /\ Len(timeline[s]) <= Len(timeline'[s])
    BY <1>2, <1>9, <2>3, CountTypes
  <2> QED BY <2>2, <2>4, PromiseKept
<1>12. ASSUME NEW s \in Sessions, Promising(t, s)' PROVE Promised(t, s)'
  <2>1. s = c /\ ~Exiting(t)
    BY <1>5, <1>6, <1>12 DEF Promising
  <2>2. before'[s] = Due(s)
    BY <1>1, <1>2, <1>3, <2>1
  <2>3. ~WaitedBy(jobs, t)
    BY <1>2 DEF WaitInv, Waits, WaitedBy
  <2>4. WaitedBy(jobs', t)
    BY <1>1, <1>2, <1>4, WaitAppended
  <2>5. /\ Len(jobs') = Len(jobs) + 1 /\ Len(jobs) \in Nat
        /\ \A i \in 1..Len(jobs) : jobs'[i] = jobs[i]
    BY <1>1, <1>2, <1>4 DEF QueueOK
  <2>6. ASSUME NEW i \in 1..Len(jobs'), jobs'[i].by = t PROVE i = Len(jobs) + 1
    BY <2>3, <2>5, <2>6 DEF WaitedBy
  <2>7. Due(s) = Len(timeline[s]) + Cardinality(Ahead(jobs', Len(jobs) + 1, s))
    <3>1. Ahead(jobs', Len(jobs) + 1, s) = {i \in 1..Len(jobs) : jobs[i].kind = "append" /\ jobs[i].s = s}
      BY <1>1, <1>2, <1>4, AheadAppended
    <3> QED BY <3>1 DEF Due
  <2>8. Due(s) \in Nat
    BY DueIsNat DEF TypeOK
  <2>9. Enough(jobs, t, s)'
    BY <1>2, <2>2, <2>6, <2>7, <2>8 DEF Enough
  <2> QED BY <2>4, <2>9 DEF Promised
<1> QED BY <1>10, <1>11, <1>12 DEF CompleteInv

LEMMA CompleteThread ==
  ASSUME OneUser, TypeOK, TypeOK', RankInv, SoleInv, WaitInv, CompleteInv,
         NEW t \in Threads, ThreadStep(t)
  PROVE  CompleteInv'
<1>1. /\ pc \in [Threads -> Pcs] /\ closing \in [Threads -> 0..MaxSessions]
      /\ tasks \in [Threads -> [Sessions -> TaskPcs]]
      /\ before \in [Sessions -> Nat] /\ QueueOK(jobs)
  BY StoreTypes DEF TypeOK, ControllerTypeOK
<1>2. CASE CloseQueues(t)
  BY <1>2, CompleteCloses
<1>3. CASE \/ OpenTests(t) \/ OpenFails(t) \/ Opens(t) \/ CaptureStarts(t)
           \/ StopTests(t) \/ CaptureStops(t) \/ CloseTests(t) \/ ClosedAlready(t)
           \/ CloseTimesOut(t) \/ ClosesTooLate(t) \/ Closes(t) \/ Pauses(t) \/ Resumes(t)
  <2>1. PICK x : pc' = [pc EXCEPT ![t] = x] /\ x \notin {"closing", "recovering"}
    BY <1>3 DEF OpenTests, OpenFails, Opens, CaptureStarts, StopTests, CaptureStops, CloseTests,
       ClosedAlready, CloseTimesOut, ClosesTooLate, Closes, Pauses, Resumes, Returns, Goes,
       Aborted
  <2>2. /\ UNCHANGED <<timeline, before, exiting>>
        /\ jobs' = jobs \/ jobs' = GivenUp(t)
        /\ closing' = closing \/ closing' = [closing EXCEPT ![t] = 0]
    BY <1>3 DEF OpenTests, OpenFails, Opens, CaptureStarts, StopTests, CaptureStops, CloseTests,
       ClosedAlready, CloseTimesOut, ClosesTooLate, Closes, Pauses, Resumes, Returns, storeVars,
       diskVars
  <2>3. \A u \in Threads : u # t => pc'[u] = pc[u] /\ closing'[u] = closing[u]
    BY <1>1, <2>1, <2>2
  <2>4. CountsKept
    BY <2>2, CountTypes DEF CountsKept
  <2>5. \A u \in Threads, s \in Sessions : Promising(u, s)' => Promising(u, s) /\ u # t
    BY <1>1, <2>1, <2>2, <2>3 DEF Promising, Exiting
  <2>6. \A u \in Threads : u # t => SamePlace(u)
    BY <1>1, <2>2, PlaceKept, PlaceGivenUp, NotWaiters
  <2>7. \A s \in Sessions : Settled(s)' => Settled(s) \/ Written(s)
    <3>1. CASE UNCHANGED tasks
      BY <1>1, <2>1, <2>3, <3>1 DEF Settled
    <3>2. CASE ~UNCHANGED tasks
      <4>1. Closes(t) /\ ~Exiting(t)
        BY <1>3, <3>2 DEF OpenTests, OpenFails, Opens, CaptureStarts, StopTests, CaptureStops,
           CloseTests, ClosedAlready, CloseTimesOut, ClosesTooLate, Closes, Pauses, Resumes,
           taskVars
      <4>2. /\ pc[t] = "closing" /\ tasks' = [tasks EXCEPT ![t][snap[t]] = "scheduled"]
            /\ ~WaitedBy(jobs, t)
        BY <4>1 DEF Closes, Returns, Goes, Waits, WaitedBy
      <4>3. closing[t] = snap[t]
        BY <4>1, <4>2 DEF SoleInv, Stopping
      <4>4. PICK c \in Sessions : c = snap[t]
        BY <4>1, <4>2, SessionIds DEF TypeOK, ControllerTypeOK
      <4>5. Written(c)
        BY <4>1, <4>2, <4>3, <4>4 DEF CompleteInv, Promising, Promised
      <4>6. \A u \in Threads, s \in Sessions :
              tasks'[u][s] = "scheduled" => tasks[u][s] = "scheduled" \/ s = c
        BY <1>1, <4>2, <4>4
      <4>7. \A u \in Threads : pc'[u] = "recovering" => pc[u] = "recovering" /\ closing'[u] = closing[u]
        BY <1>1, <2>1, <2>3
      <4> QED BY <4>5, <4>6, <4>7 DEF Settled
    <3> QED BY <3>1, <3>2
  <2> QED BY <2>4, <2>5, <2>6, <2>7, CompleteKept
<1> QED BY <1>2, <1>3 DEF ThreadStep

LEMMA CompleteWrites ==
  ASSUME TypeOK, TypeOK', Mine, CompleteInv, Writes
  PROVE  CompleteInv'
<1>1. /\ UNCHANGED <<before, pc, closing, tasks, exiting>>
      /\ jobs # <<>> /\ jobs' = Tail(jobs)
  BY DEF Writes, WriterStep, WriterAppends, WriterCloses, WriterMarks, WriterStops,
     controllerVars
<1>2. /\ QueueOK(jobs) /\ timeline \in [Sessions -> Seq(Rows)]
      /\ \A s \in Sessions : Len(timeline[s]) \in Nat
  BY StoreTypes, CountTypes DEF TypeOK, StoreTypeOK
<1> DEFINE Took(s) == Head(jobs).kind = "append" /\ Head(jobs).s = s
<1>3. ASSUME NEW s \in Sessions
      PROVE  /\ Len(timeline[s]) <= Len(timeline'[s]) /\ Len(timeline'[s]) \in Nat
             /\ Took(s) /\ Exists(s) => Len(timeline'[s]) = Len(timeline[s]) + 1
  <2>1. CASE WriterAppends
    <3>1. PICK r \in Sessions : r = Head(jobs).s
      BY <1>1, <1>2, <2>1, QueueTaken DEF WriterAppends
    <3>2. \/ ~Exists(r) /\ timeline' = timeline
          \/ \E row : timeline' = [timeline EXCEPT ![r] = Append(@, row)]
      BY <2>1, <3>1 DEF WriterAppends
    <3>3. CASE ~Exists(r) /\ timeline' = timeline
      BY <1>2, <3>1, <3>3
    <3>4. CASE \E row : timeline' = [timeline EXCEPT ![r] = Append(@, row)]
      <4>1. PICK row : timeline' = [timeline EXCEPT ![r] = Append(@, row)]
        BY <3>4
      <4>2. \A q \in Seq(Rows) : Len(Append(q, row)) = Len(q) + 1
        OBVIOUS
      <4>3. timeline'[s] = IF s = r THEN Append(timeline[s], row) ELSE timeline[s]
        BY <1>2, <4>1
      <4>4. timeline[s] \in Seq(Rows)
        BY <1>2
      <4> QED BY <1>2, <3>1, <4>2, <4>3, <4>4
    <3> QED BY <3>2, <3>3, <3>4
  <2>2. CASE ~WriterAppends
    BY <1>2, <2>2 DEF Writes, WriterStep, WriterCloses, WriterMarks, WriterStops
  <2> QED BY <2>1, <2>2
<1>4. ASSUME NEW s \in Sessions, Settled(s)' PROVE Written(s)'
  <2>1. Settled(s)
    BY <1>1, <1>4 DEF Settled
  <2> QED BY <1>1, <1>3, <2>1, WrittenKept, CountTypes DEF CompleteInv
<1>5. ASSUME NEW t \in Threads, NEW s \in Sessions, Promising(t, s)' PROVE Promised(t, s)'
  <2>1. Promising(t, s) /\ Promised(t, s)
    BY <1>1, <1>5 DEF Promising, Exiting, CompleteInv
  <2>2. Exists(s)
    BY <2>1 DEF Mine, Spoken, Promising, AwaitsClose
  <2>3. /\ before[s] \in Nat /\ Len(timeline[s]) \in Nat /\ Len(timeline'[s]) \in Nat
        /\ Len(timeline[s]) <= Len(timeline'[s])
        /\ Took(s) => Len(timeline'[s]) = Len(timeline[s]) + 1
        /\ Enough(jobs, t, s) /\ before' = before
    BY <1>1, <1>3, <2>1, <2>2, CountTypes DEF Promised
  <2>4. /\ Len(jobs') = Len(jobs) - 1 /\ Len(jobs) \in Nat /\ Len(jobs) > 0
        /\ \A i \in 1..Len(jobs') : jobs'[i] = jobs[i + 1] /\ i + 1 \in 1..Len(jobs)
    BY <1>1, <1>2 DEF QueueOK
  <2>5. ASSUME NEW i \in 1..Len(jobs'), jobs'[i].by = t
        PROVE  before'[s] <= Len(timeline'[s]) + Cardinality(Ahead(jobs', i, s))
    <3>1. before[s] <= Len(timeline[s]) + Cardinality(Ahead(jobs, i + 1, s))
      BY <2>3, <2>4, <2>5 DEF Enough
    <3>2. Cardinality(Ahead(jobs, i + 1, s)) =
            Cardinality(Ahead(jobs', i, s)) + (IF Took(s) THEN 1 ELSE 0)
      BY <1>1, <1>2, AheadTaken
    <3>3. Cardinality(Ahead(jobs', i, s)) \in Nat
      <4>1. QueueOK(jobs')
        BY <1>1, <1>2, QueueTaken
      <4> QED BY <4>1, AheadFinite
    <3> HIDE DEF Took
    <3> QED BY <2>3, <3>1, <3>2, <3>3
  <2>6. ASSUME ~WaitedBy(jobs', t) PROVE before'[s] <= Len(timeline'[s])
    <3>1. CASE ~WaitedBy(jobs, t)
      <4>1. before[s] <= Len(timeline[s])
        BY <2>1, <3>1 DEF Promised, Written
      <4> QED BY <2>3, <4>1
    <3>2. CASE WaitedBy(jobs, t)
      <4>1. PICK k \in 1..Len(jobs) : jobs[k].by = t
        BY <3>2 DEF WaitedBy
      <4>2. k = 1
        <5>1. CASE k # 1
          <6>1. k - 1 \in 1..Len(jobs') /\ (k - 1) + 1 = k
            BY <2>4, <5>1
          <6> QED BY <2>4, <2>6, <4>1, <6>1 DEF WaitedBy
        <5> QED BY <5>1
      <4>3. Ahead(jobs, 1, s) = {}
        BY DEF Ahead
      <4>4. before[s] <= Len(timeline[s]) + 0
        BY <2>3, <4>1, <4>2, <4>3, FS_EmptySet DEF Enough
      <4> QED BY <2>3, <4>4
    <3> QED BY <3>1, <3>2
  <2> QED BY <2>5, <2>6 DEF Promised, Enough, Written
<1> QED BY <1>4, <1>5 DEF CompleteInv

LEMMA CompleteDialog ==
  ASSUME TypeOK, TypeOK', Mine, WaitInv, CompleteInv, Dialog \/ DialogCloses
  PROVE  CompleteInv'
<1>1. /\ pc \in [Threads -> Pcs] /\ closing \in [Threads -> 0..MaxSessions]
      /\ tasks \in [Threads -> [Sessions -> TaskPcs]] /\ before \in [Sessions -> Nat]
      /\ QueueOK(jobs) /\ "qt" \in Threads /\ dialogs \subseteq Sessions
  BY StoreTypes DEF TypeOK, ControllerTypeOK, Threads
<1>2. CASE \E s \in Sessions : DialogCompile(s)
  <2>1. PICK r \in Sessions : DialogCompile(r)
    BY <1>2
  <2>2. /\ pc["qt"] = "idle" /\ pc' = [pc EXCEPT !["qt"] = "recovering"]
        /\ closing' = [closing EXCEPT !["qt"] = r]
        /\ jobs' = Append(jobs, CloseJob(r, "qt"))
        /\ before' = [before EXCEPT ![r] = Due(r)]
        /\ UNCHANGED <<timeline, tasks, exiting>> /\ r \in dialogs
    BY <2>1 DEF DialogCompile, Goes, diskVars, taskVars
  <2>3. PICK j \in Jobs : j = CloseJob(r, "qt") /\ j.by = "qt" /\ j.s = r
    BY <1>1, JobTypes DEF CloseJob, Job
  <2>4. before'[r] = Len(timeline[r]) /\ \A s \in Sessions : s # r => before'[s] = before[s]
    <3>1. {i \in 1..Len(jobs) : jobs[i].kind = "append" /\ jobs[i].s = r} = {}
      BY <2>2 DEF WaitInv, Has
    <3>2. Due(r) = Len(timeline[r]) + 0
      BY <3>1, FS_EmptySet DEF Due
    <3> QED BY <1>1, <2>2, <3>2, CountTypes
  <2>5. \A u \in Threads : u # "qt" => pc'[u] = pc[u] /\ closing'[u] = closing[u]
    BY <1>1, <2>2
  <2>6. \A s \in Sessions : Settled(s)' => Settled(s) \/ s = r
    BY <1>1, <2>2, <2>5 DEF Settled
  <2>7. \A t \in Threads, s \in Sessions : Promising(t, s)' => Promising(t, s) /\ t # "qt"
    BY <1>1, <2>2, <2>5 DEF Promising, Exiting
  <2>8. ASSUME NEW s \in Sessions, Settled(s)' PROVE Written(s)'
    <3>1. CASE s = r
      BY <2>2, <2>4, <3>1, CountTypes DEF Written
    <3>2. CASE s # r
      BY <2>2, <2>4, <2>6, <2>8, <3>2 DEF Written, CompleteInv
    <3> QED BY <3>1, <3>2
  <2>9. ASSUME NEW t \in Threads, NEW s \in Sessions, Promising(t, s)' PROVE Promised(t, s)'
    <3>1. CASE s = r
      <4>1. QueueOK(jobs')
        BY <1>1, <2>2, <2>3, QueueAppended
      <4>2. Len(timeline'[s]) \in Nat /\ \A i : Cardinality(Ahead(jobs', i, s)) \in Nat
        BY <2>2, <4>1, CountTypes, AheadFinite
      <4>3. before'[s] = Len(timeline'[s])
        BY <2>2, <2>4, <3>1
      <4> QED BY <4>2, <4>3 DEF Promised, Written, Enough
    <3>2. CASE s # r
      <4>1. Promised(t, s) /\ SamePlace(t)
        BY <1>1, <2>2, <2>3, <2>7, <2>9, PlaceAppended DEF CompleteInv
      <4>2. before'[s] <= before[s] /\ Len(timeline[s]) <= Len(timeline'[s])
        BY <2>2, <2>4, <3>2, CountTypes
      <4> QED BY <4>1, <4>2, PromiseKept
    <3> QED BY <3>1, <3>2
  <2> QED BY <2>8, <2>9 DEF CompleteInv
<1>3. CASE \E s \in Sessions : DialogKeep(s) \/ DialogDelete(s)
  <2>1. PICK r \in Sessions : DialogKeep(r) \/ DialogDelete(r)
    BY <1>3
  <2>2. /\ UNCHANGED <<pc, closing, tasks, exiting, before, jobs>> /\ r \in dialogs
        /\ \/ timeline' = timeline
           \/ timeline' = [s \in Sessions |-> IF s \in {r} THEN <<>> ELSE timeline[s]]
    BY <2>1 DEF DialogKeep, DialogDelete, Purge, storeVars, controllerVars
  <2>3. /\ \A s \in Sessions : Settled(s)' <=> Settled(s)
        /\ \A t \in Threads, s \in Sessions : Promising(t, s)' <=> Promising(t, s)
    BY <2>2 DEF Settled, Promising, Exiting
  <2>4. ~Spoken(r)
    BY <2>2 DEF Mine
  <2>5. ~Settled(r) /\ \A t \in Threads : ~Promising(t, r)
    BY <2>4 DEF Spoken, Settled, Promising, AwaitsClose
  <2>6. CountsKept
    BY <2>2, <2>3, <2>5, CountTypes DEF CountsKept
  <2> QED BY <2>2, <2>3, <2>6, PlaceKept, CompleteKept
<1>4. CASE DialogCloses
  <2>1. /\ pc["qt"] = "recovering" /\ pc' = [pc EXCEPT !["qt"] = "idle"]
        /\ closing' = [closing EXCEPT !["qt"] = 0]
        /\ tasks' = [tasks EXCEPT !["qt"][closing["qt"]] = "scheduled"]
        /\ jobs' = jobs \/ jobs' = GivenUp("qt")
        /\ UNCHANGED <<timeline, exiting, before>>
    BY <1>4 DEF DialogCloses, Returns, Goes, diskVars
  <2>2. PICK c \in Sessions : c = closing["qt"]
    BY <1>1, <2>1, SessionIds DEF TypeOK, ControllerTypeOK
  <2>3. Settled(c)
    BY <1>1, <2>1, <2>2 DEF Settled
  <2>4. \A u \in Threads : u # "qt" => pc'[u] = pc[u] /\ closing'[u] = closing[u]
    BY <1>1, <2>1
  <2>5. \A u \in Threads, s \in Sessions :
          tasks'[u][s] = "scheduled" => tasks[u][s] = "scheduled" \/ s = c
    BY <1>1, <2>1, <2>2
  <2>6. \A s \in Sessions : Settled(s)' => Settled(s)
    <3>1. \A u \in Threads : pc'[u] = "recovering" => pc[u] = "recovering" /\ closing'[u] = closing[u]
      BY <1>1, <2>1, <2>4
    <3> QED BY <2>3, <2>5, <3>1 DEF Settled
  <2>7. \A t \in Threads, s \in Sessions : Promising(t, s)' => Promising(t, s) /\ t # "qt"
    BY <1>1, <2>1, <2>4 DEF Promising, Exiting
  <2>8. \A t \in Threads : t # "qt" => SamePlace(t)
    BY <1>1, <2>1, PlaceKept, PlaceGivenUp, NotWaiters
  <2>9. CountsKept
    BY <2>1, CountTypes DEF CountsKept
  <2> QED BY <2>6, <2>7, <2>8, <2>9, CompleteKept
<1> QED BY <1>2, <1>3, <1>4 DEF Dialog

LEMMA CompleteNext ==
  ASSUME OneUser, TypeOK, TimelineInv, Mine, Down, RankInv, SoleInv, WaitInv, CompleteInv,
         [Next]_vars
  PROVE  CompleteInv'
<1>1. /\ pc \in [Threads -> Pcs] /\ closing \in [Threads -> 0..MaxSessions]
      /\ tasks \in [Threads -> [Sessions -> TaskPcs]] /\ before \in [Sessions -> Nat]
      /\ QueueOK(jobs) /\ "qt" \in Threads
  BY StoreTypes DEF TypeOK, ControllerTypeOK, Threads
<1>2. TypeOK'
  BY StepTypes
<1>3. CASE Launch \/ Crash \/ Exit
  <2>1. \A t \in Threads : pc'[t] = "idle" /\ \A s \in Sessions : tasks'[t][s] = "none"
    <3>1. CASE Launch
      <4>1. phase # "up" /\ UNCHANGED <<pc, tasks>>
        BY <3>1 DEF Launch, Launches, controllerVars
      <4> QED BY <4>1 DEF Down
    <3>2. CASE Crash \/ Exit
      BY <3>2 DEF Crash, Exit, Forgets
    <3> QED BY <1>3, <3>1, <3>2
  <2> QED BY <2>1 DEF CompleteInv, Settled, Promising
<1>4. CASE Writes
  BY <1>2, <1>4, CompleteWrites
<1>5. CASE \E t \in Threads : ThreadStep(t)
  BY <1>2, <1>5, CompleteThread
<1>6. CASE Dialog \/ DialogCloses
  BY <1>2, <1>6, CompleteDialog
<1>7. CASE \E t \in Threads, s \in Sessions : Compile(t, s)
  <2>1. PICK t \in Threads, r \in Sessions : Compile(t, r)
    BY <1>7
  <2>2. /\ UNCHANGED <<timeline, pc, closing, exiting>>
        /\ jobs' = jobs \/ jobs' = Append(jobs, MarkJob(r))
        /\ before' = before \/ before' = [before EXCEPT ![r] = 0]
        /\ \E x \in TaskPcs \ {"scheduled"} : tasks' = [tasks EXCEPT ![t][r] = x]
    BY <2>1 DEF Compile, CompileLoads, CompileFails, CompileReturns, Exports, Moves, storeVars,
       diskVars, threadVars, TaskPcs
  <2>3. \A u \in Threads, s \in Sessions :
          tasks'[u][s] = "scheduled" => tasks[u][s] = "scheduled"
    BY <1>1, <2>2
  <2>4. PICK j \in Jobs : j = MarkJob(r) /\ j.by = Nobody
    BY JobTypes DEF MarkJob, Job
  <2>5. \A u \in Threads : SamePlace(u)
    BY <1>1, <2>2, <2>4, PlaceKept, PlaceAppended, NotWaiters
  <2>6. CountsKept
    <3>1. \A s \in Sessions : before'[s] = before[s] \/ before'[s] = 0
      BY <1>1, <2>2
    <3> QED BY <2>2, <3>1, CountTypes DEF CountsKept
  <2>7. /\ \A s \in Sessions : Settled(s)' => Settled(s)
        /\ \A u \in Threads, s \in Sessions : Promising(u, s)' => Promising(u, s)
    BY <2>2, <2>3 DEF Settled, Promising, Exiting
  <2> QED BY <1>2, <2>5, <2>6, <2>7, CompleteKept
<1>8. CASE \/ \E t \in Users : Press(t)
           \/ Quit \/ QuitStops \/ UNCHANGED vars
           \/ Speaks \/ Ambient \/ KeyframeTaken \/ Keyframe
  <2>1. UNCHANGED <<timeline, before, closing, tasks>>
    BY <1>8 DEF Press, Toggle, PausePress, Quit, ShutdownBegins, QuitStops, StoreStops,
       Speaks, Ambient, AmbientLost, AmbientTests, AmbientRecords, KeyframeTaken, Keyframe,
       KeyframeSkipped, KeyframeDone, KeyframeInserts, storeVars, controllerVars, mainVars,
       diskVars, sessionVars, taskVars, vars
  <2>2. /\ exiting => exiting'
        /\ \/ pc' = pc
           \/ \E t \in Threads : \E x \in Pcs \ {"closing", "recovering"} :
                pc' = [pc EXCEPT ![t] = x]
    <3>1. CASE \E t \in Users : Press(t)
      <4>1. PICK t \in Users : Toggle(t) \/ PausePress(t)
        BY <3>1 DEF Press
      <4>2. \E x \in {"opening", "stopping", "pausing", "resuming"} : pc' = [pc EXCEPT ![t] = x]
        BY <4>1 DEF Toggle, PausePress, Goes
      <4>3. exiting' = exiting
        BY <4>1 DEF Toggle, PausePress
      <4> QED BY <4>2, <4>3 DEF Pcs
    <3>2. CASE Quit \/ QuitStops
      BY <1>1, <3>2 DEF Quit, ShutdownBegins, QuitStops, StoreStops, Goes, Pcs
    <3>3. CASE UNCHANGED vars \/ Speaks \/ Ambient \/ KeyframeTaken \/ Keyframe
      <4>1. UNCHANGED <<pc, exiting>>
        BY <3>3 DEF Speaks, Ambient, AmbientLost, AmbientTests, AmbientRecords, KeyframeTaken,
           Keyframe, KeyframeSkipped, KeyframeDone, KeyframeInserts, controllerVars, vars
      <4> QED BY <4>1
    <3> QED BY <1>8, <3>1, <3>2, <3>3
  <2>3. /\ \A s \in Sessions : Settled(s)' => Settled(s)
        /\ \A t \in Threads, s \in Sessions : Promising(t, s)' => Promising(t, s)
    <3>1. \A u \in Threads : pc'[u] \in {"closing", "recovering"} => pc'[u] = pc[u]
      BY <1>1, <2>2
    <3> QED BY <2>1, <2>2, <3>1 DEF Settled, Promising, Exiting
  <2>4. CountsKept
    BY <2>1, CountTypes DEF CountsKept
  <2>6. \A t \in Threads : pc'[t] = "closing" => SamePlace(t)
    <3>1. CASE QuitStops
      <4>1. jobs' = Append(jobs, StopJob("qt")) /\ pc' = [pc EXCEPT !["qt"] = "joining"]
        BY <3>1 DEF QuitStops, StoreStops, Goes
      <4>2. PICK j \in Jobs : j = StopJob("qt") /\ j.by = "qt"
        BY <1>1, JobTypes DEF StopJob, Job
      <4>3. pc'["qt"] # "closing"
        BY <1>1, <4>1
      <4> QED BY <1>1, <4>1, <4>2, <4>3, PlaceAppended
    <3>2. CASE (\E ts \in Stamps : AmbientRecords(ts)) \/ (\E ts \in Stamps : KeyframeInserts(ts))
      <4>1. jobs' = jobs \/ \E j : Recorded(j) /\ jobs' = Append(jobs, j)
        BY <3>2, AmbientJob, KeyframeJob
      <4>2. CASE jobs' = jobs
        BY <4>2, PlaceKept
      <4>3. CASE \E j : Recorded(j) /\ jobs' = Append(jobs, j)
        <5>1. PICK j \in Jobs : j.by \in {Nobody, "grabber"} /\ jobs' = Append(jobs, j)
          BY <4>3 DEF Recorded
        <5> QED BY <1>1, <5>1, PlaceAppended, NotWaiters
      <4> QED BY <4>1, <4>2, <4>3
    <3>3. CASE KeyframeDone
      BY <1>1, <3>3, PlaceGivenUp, NotWaiters DEF KeyframeDone
    <3>4. CASE \/ \E t \in Users : Press(t)
               \/ Quit \/ UNCHANGED vars
               \/ Speaks \/ AmbientLost \/ AmbientTests \/ KeyframeTaken \/ KeyframeSkipped
      <4>1. jobs' = jobs
        BY <3>4 DEF Press, Toggle, PausePress, Quit, ShutdownBegins, Speaks, AmbientLost,
           AmbientTests, KeyframeTaken, KeyframeSkipped, storeVars, vars
      <4> QED BY <4>1, PlaceKept
    <3> QED BY <1>8, <3>1, <3>2, <3>3, <3>4 DEF Ambient, Keyframe
  <2>7. \A t \in Threads, s \in Sessions : Promising(t, s)' => Promising(t, s) /\ SamePlace(t)
    BY <2>3, <2>6 DEF Promising
  <2> QED BY <1>2, <2>3, <2>4, <2>7, CompleteKept
<1> QED BY <1>3, <1>4, <1>5, <1>6, <1>7, <1>8 DEF Next

\* A session is compiled from all that was queued before its close was: the close
\* goes through the same queue, and close_session() waits for it.  With one user:
\* a second close of a session that is being compiled would make more due of it.
THEOREM BundleAlways ==
  ASSUME OneUser
  PROVE  Spec => BundleComplete
<1> DEFINE I == TypeOK /\ TimelineInv /\ Mine /\ Down /\ RankInv
           J == SoleInv /\ WaitInv /\ CompleteInv
<1>1. Init => J
  BY SoleInit, WaitInit, CompleteInit
<1>2. I /\ J /\ [Next]_vars => J'
  BY SoleNext, WaitNext, CompleteNext
<1>3. I /\ J => \A t \in Threads, s \in Sessions :
                  tasks[t][s] = "scheduled" => Len(timeline[s]) >= before[s]
  BY CountTypes DEF CompleteInv, Settled, Written
<1>4. I /\ J => [\A t \in Threads, s \in Sessions :
                   tasks[t][s] = "scheduled" /\ tasks'[t][s] = "compiling"
                     => Len(timeline[s]) >= before[s]]_vars
  BY <1>3
<1> QED BY <1>1, <1>2, <1>4, RankAlways, PTL DEF Spec, BundleComplete

=============================================================================
