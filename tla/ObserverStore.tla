--------------------------- MODULE ObserverStore ---------------------------
(***************************************************************************)
(* observer/store.py: the sessions and events tables on disk, and the one  *)
(* thread that writes them, fed through a queue.  open_session and purge   *)
(* write through a connection of the calling thread.  A caller that needs  *)
(* an answer waits until the writer is past its job, or for 5 seconds.     *)
(***************************************************************************)
EXTENDS Naturals, Sequences, FiniteSets

CONSTANTS MaxSessions,  \* bound: sessions ever opened
          MaxJobs       \* bound: jobs in the queue when a close is added

ASSUME StoreAssumption == MaxSessions \in Nat /\ MaxJobs \in Nat

Sessions == 1..MaxSessions      \* row ids

VARIABLES
  status,    \* sessions.status on disk
  timeline,  \* the rows of events of each session, in id order
  jobs,      \* _queue
  lastTs,    \* _last_ts_ms, 0 = no entry
  writing    \* the writer thread runs

diskVars  == <<status, timeline>>
storeVars == <<status, timeline, jobs, lastTs, writing>>

Statuses == {"none",    \* no such row yet
             "open", "closed", "compiled",
             "purged"}  \* the row was deleted

\* A row of events: its timestamp, and the session it was captured in
\* (0 = it was captured while capture was paused).
Rows == [ts : Nat, of : 0..MaxSessions]

\* Who waits for a job; Nobody also stands for a caller that gave up.
Nobody  == "nobody"
Waiters == {Nobody, "hotkey", "qt", "grabber"}

Job(k, s, r, t) == [kind |-> k, s |-> s, row |-> r, by |-> t]
NoRow == [ts |-> 0, of |-> 0]

AppendJob(s, r, t) == Job("append", s, r, t)
CloseJob(s, t)     == Job("close", s, NoRow, t)
MarkJob(s)         == Job("mark", s, NoRow, Nobody)
StopJob(t)         == Job("stop", 0, NoRow, t)     \* the sentinel

Jobs == [kind : {"append", "close", "mark", "stop"}, s : 0..MaxSessions,
         row : Rows, by : Waiters]

\* t's barrier is set as soon as none of its jobs is left.
Waits(t) == \E i \in 1..Len(jobs) : jobs[i].by = t
GivenUp(t) ==
  [i \in 1..Len(jobs) |->
     IF jobs[i].by = t THEN [jobs[i] EXCEPT !.by = Nobody] ELSE jobs[i]]

Exists(s) == status[s] \notin {"none", "purged"}

\* UPDATE sessions SET status: nothing happens to a row that is not there.
Updated(s, x) == IF Exists(s) THEN [status EXCEPT ![s] = x] ELSE status

\* Rows of s once the queue has been written.
Due(s) == Len(timeline[s])
          + Cardinality({i \in 1..Len(jobs) :
                           jobs[i].kind = "append" /\ jobs[i].s = s})

StoreTypeOK ==
  /\ status \in [Sessions -> Statuses]
  /\ timeline \in [Sessions -> Seq(Rows)]
  /\ jobs \in Seq(Jobs)
  /\ \A i \in 1..Len(jobs) : jobs[i].kind # "stop" => jobs[i].s \in Sessions
  /\ lastTs \in [Sessions -> Nat]
  /\ writing \in BOOLEAN

StoreInit ==
  /\ status = [s \in Sessions |-> "none"]
  /\ timeline = [s \in Sessions |-> <<>>]
  /\ jobs = <<>>
  /\ lastTs = [s \in Sessions |-> 0]
  /\ writing = FALSE

-----------------------------------------------------------------------------
\* The writer thread.

\* Mutant: events are stored under the time they were stamped with.
Unclamped(s, ts) == ts

\* A timestamp that does not exceed the last one of its session is replaced.
Clamped(s, ts) == IF ts > lastTs[s] THEN ts ELSE lastTs[s] + 1

\* _do_insert_event().  Without a session the insertion fails.
WriterAppends ==
  /\ writing /\ jobs # <<>> /\ Head(jobs).kind = "append"
  /\ LET s   == Head(jobs).s
         row == [Head(jobs).row EXCEPT !.ts = Clamped(s, @)]
     IN /\ lastTs' = [lastTs EXCEPT ![s] = row.ts]
        /\ timeline' = IF Exists(s)
                       THEN [timeline EXCEPT ![s] = Append(@, row)]
                       ELSE timeline
  /\ jobs' = Tail(jobs)
  /\ UNCHANGED <<status, writing>>

\* _do_close_session()
WriterCloses ==
  /\ writing /\ jobs # <<>> /\ Head(jobs).kind = "close"
  /\ status' = Updated(Head(jobs).s, "closed")
  /\ jobs' = Tail(jobs)
  /\ UNCHANGED <<timeline, lastTs, writing>>

\* _do_mark_status(), of mark_compiled(): the only status it is called with.
WriterMarks ==
  /\ writing /\ jobs # <<>> /\ Head(jobs).kind = "mark"
  /\ status' = Updated(Head(jobs).s, "compiled")
  /\ jobs' = Tail(jobs)
  /\ UNCHANGED <<timeline, lastTs, writing>>

\* The sentinel of stop().
WriterStops ==
  /\ writing /\ jobs # <<>> /\ Head(jobs).kind = "stop"
  /\ writing' = FALSE
  /\ jobs' = Tail(jobs)
  /\ UNCHANGED <<status, timeline, lastTs>>

WriterStep ==
  WriterAppends \/ WriterCloses \/ WriterMarks \/ WriterStops

-----------------------------------------------------------------------------
\* What other threads do to the tables themselves.

\* open_session(): the id is the next one; AUTOINCREMENT uses none twice.
Fresh(s) == status[s] = "none" /\ \A r \in Sessions : r < s => status[r] # "none"
OpenSession(s) == Fresh(s) /\ status' = [status EXCEPT ![s] = "open"]

\* find_open_sessions()
OpenSessions == {s \in Sessions : status[s] = "open"}

\* purge_session()
Purge(gone) ==
  /\ status' = [s \in Sessions |-> IF s \in gone THEN "purged" ELSE status[s]]
  /\ timeline' = [s \in Sessions |-> IF s \in gone THEN <<>> ELSE timeline[s]]

\* purge_expired(): never an open session.
PurgeExpired ==
  \E old \in SUBSET {s \in Sessions : status[s] \in {"closed", "compiled"}} : Purge(old)

=============================================================================
