------------------------- MODULE ObserverController -------------------------
(***************************************************************************)
(* observer/session.py and observer/controller.py: the current session,    *)
(* the pause flag, and the methods that change them.  They run, without a  *)
(* lock, on the thread that publishes the hotkey event: the hotkey         *)
(* listener, or Qt for a click in the tray menu.  Compilation runs on the  *)
(* event loop.                                                             *)
(***************************************************************************)
EXTENDS ObserverStore

VARIABLES
  current,   \* _current, 0 = None
  paused,    \* _is_paused
  capture,   \* the attached capture objects are started
  exiting,   \* shutdown() was called, on the Qt thread
  pc,        \* where each thread is
  snap,      \* session_id in each thread's stop_session()
  closing,   \* the session each thread's close_session() is about
  tasks,     \* where the _run_compile() that each thread scheduled is
  owed,      \* history: sessions whose end was published, compilation not yet
  before     \* history: rows a session was due when its close was queued, until
             \* its compilation has loaded them

sessionVars == <<current, paused>>
threadVars  == <<pc, snap, closing>>
taskVars    == <<tasks, owed>>
controllerVars == <<current, paused, capture, exiting, pc, snap, closing, tasks,
                    owed, before>>

Threads == {"hotkey", "qt"}

Pcs ==
  {"idle",
   "opening",   \* start_session()
   "inserting", \* open() found no session, and inserts one
   "starting",  \* the session is open, capture not started
   "stopping",  \* stop_session()
   "halting",   \* about to stop capture; in shutdown() as well
   "testing",   \* SessionManager.close()
   "queueing",  \* there is a session to close
   "closing",   \* in close_session(), waiting for the writer
   "pausing", "resuming",
   "draining",  \* shutdown(), store.stop()
   "joining",
   "recovering"}  \* close_session() of the recovery dialog

TaskPcs == {"none", "scheduled", "compiling", "exporting"}

Exiting(t) == exiting /\ t = "qt"

ControllerTypeOK ==
  /\ current \in 0..MaxSessions
  /\ paused \in BOOLEAN
  /\ capture \in BOOLEAN
  /\ exiting \in BOOLEAN
  /\ pc \in [Threads -> Pcs]
  /\ snap \in [Threads -> 0..MaxSessions]
  /\ closing \in [Threads -> 0..MaxSessions]
  /\ \A t \in Threads :
       /\ pc[t] \in {"halting", "testing", "queueing", "closing"} /\ ~Exiting(t)
            => snap[t] # 0
       /\ pc[t] \in {"closing", "recovering"} => closing[t] # 0
  /\ tasks \in [Threads -> [Sessions -> TaskPcs]]
  /\ owed \subseteq Sessions
  /\ before \in [Sessions -> Nat]

\* What a process starts with.
ControllerInit ==
  /\ current = 0 /\ paused = FALSE /\ capture = FALSE /\ exiting = FALSE
  /\ pc = [t \in Threads |-> "idle"]
  /\ snap = [t \in Threads |-> 0]
  /\ closing = [t \in Threads |-> 0]
  /\ tasks = [t \in Threads |-> [s \in Sessions |-> "none"]]
  /\ owed = {}

Goes(t, from, to) == pc[t] = from /\ pc' = [pc EXCEPT ![t] = to]

-----------------------------------------------------------------------------
\* Start a session.

\* toggle_session()
Toggle(t) ==
  /\ Goes(t, "idle", IF current = 0 THEN "opening" ELSE "stopping")
  /\ UNCHANGED <<storeVars, sessionVars, capture, exiting, snap, closing, taskVars,
                 before>>

\* start_session(), open(): refused while a session is open.
OpenTests(t) ==
  /\ Goes(t, "opening", IF current = 0 THEN "inserting" ELSE "idle")
  /\ UNCHANGED <<storeVars, sessionVars, capture, exiting, snap, closing, taskVars,
                 before>>

\* Once the store is stopped open_session() raises.
OpenFails(t) ==
  /\ ~writing
  /\ Goes(t, "inserting", "idle")
  /\ UNCHANGED <<storeVars, sessionVars, capture, exiting, snap, closing, taskVars,
                 before>>

\* Another thread may have opened one since: it is current no longer, and
\* stays open until the next launch.
Opens(t) ==
  /\ writing
  /\ Goes(t, "inserting", "starting")
  /\ \E s \in Sessions : OpenSession(s) /\ current' = s
  /\ paused' = FALSE
  /\ UNCHANGED <<timeline, jobs, lastTs, writing, capture, exiting, snap, closing,
                 taskVars, before>>

\* The rest of start_session(): start() of each capture object.
CaptureStarts(t) ==
  /\ Goes(t, "starting", "idle")
  /\ capture' = TRUE
  /\ UNCHANGED <<storeVars, sessionVars, exiting, snap, closing, taskVars, before>>

-----------------------------------------------------------------------------
\* Stop a session.

\* Mutant: the session id is read when it is needed, after close().
StopTestsOnly(t) ==
  /\ Goes(t, "stopping", IF current = 0 THEN "idle" ELSE "halting")
  /\ UNCHANGED <<storeVars, sessionVars, capture, exiting, snap, closing, taskVars,
                 before>>

\* stop_session(), up to its snapshot of the session id.
StopTests(t) ==
  /\ Goes(t, "stopping", IF current = 0 THEN "idle" ELSE "halting")
  /\ snap' = [snap EXCEPT ![t] = current]
  /\ UNCHANGED <<storeVars, sessionVars, capture, exiting, closing, taskVars, before>>

\* stop() of each capture object, whether or not one raises.  Each joins its
\* worker for 2 seconds at most, so a keyframe may still be on its way.
CaptureStops(t) ==
  /\ Goes(t, "halting", "testing")
  /\ capture' = FALSE
  /\ UNCHANGED <<storeVars, sessionVars, exiting, snap, closing, taskVars, before>>

\* Where an exception leaves a thread: the event bus and main() swallow it.
Aborted(t) == IF Exiting(t) THEN "joining" ELSE "idle"

\* A method returns, or raises, at x: its local variables are gone.
Returns(t, from, x) ==
  /\ Goes(t, from, x)
  /\ snap' = [snap EXCEPT ![t] = 0]
  /\ closing' = [closing EXCEPT ![t] = 0]

\* SessionManager.close(): its test.
CloseTests(t) ==
  /\ current # 0
  /\ Goes(t, "testing", "queueing")
  /\ UNCHANGED <<storeVars, sessionVars, capture, exiting, snap, closing, taskVars,
                 before>>

\* Another thread has closed the session: None, which ends stop_session().
\* If it does so only now, after the test, None has no id.
ClosedAlready(t) ==
  /\ current = 0
  /\ \/ Returns(t, "testing", IF Exiting(t) THEN "draining" ELSE "idle")
     \/ Returns(t, "queueing", Aborted(t))
  /\ UNCHANGED <<storeVars, sessionVars, capture, exiting, taskVars, before>>

\* Mutant: the caller of close_session() does not wait for the writer.
CloseQueuesNoWait(t) ==
  /\ current # 0 /\ Len(jobs) < MaxJobs
  /\ Goes(t, "queueing", "closing")
  /\ closing' = [closing EXCEPT ![t] = current]
  /\ jobs' = Append(jobs, CloseJob(current, Nobody))
  /\ before' = IF Exiting(t) THEN before ELSE [before EXCEPT ![current] = Due(current)]
  /\ UNCHANGED <<diskVars, lastTs, writing, sessionVars, capture, exiting, snap,
                 taskVars>>

\* Mutant: the session is closed by the id that stop_session() remembers.
CloseQueuesRemembered(t) ==
  /\ snap[t] # 0 /\ Len(jobs) < MaxJobs
  /\ Goes(t, "queueing", "closing")
  /\ closing' = [closing EXCEPT ![t] = snap[t]]
  /\ jobs' = Append(jobs, CloseJob(snap[t], t))
  /\ UNCHANGED <<diskVars, lastTs, writing, sessionVars, capture, exiting, snap,
                 taskVars, before>>

\* close_session() of the store, for the session that is current by now.
CloseQueues(t) ==
  /\ current # 0 /\ Len(jobs) < MaxJobs
  /\ Goes(t, "queueing", "closing")
  /\ closing' = [closing EXCEPT ![t] = current]
  /\ jobs' = Append(jobs, CloseJob(current, t))
  /\ before' = IF Exiting(t) THEN before ELSE [before EXCEPT ![current] = Due(current)]
  /\ UNCHANGED <<diskVars, lastTs, writing, sessionVars, capture, exiting, snap,
                 taskVars>>

\* Five seconds: close_session() raises; the session stays current, its close
\* stays queued.
CloseTimesOut(t) ==
  /\ Waits(t)
  /\ Returns(t, "closing", Aborted(t))
  /\ jobs' = GivenUp(t)
  /\ UNCHANGED <<diskVars, lastTs, writing, sessionVars, capture, exiting, taskVars,
                 before>>

\* The row is written, but the session is no longer there to be described.
ClosesTooLate(t) ==
  /\ ~Waits(t) /\ current = 0
  /\ Returns(t, "closing", Aborted(t))
  /\ lastTs' = [lastTs EXCEPT ![closing[t]] = 0]
  /\ UNCHANGED <<diskVars, jobs, writing, sessionVars, capture, exiting, taskVars,
                 before>>

\* The row is written.  stop_session() publishes the end of the session it
\* remembers and schedules its compilation; shutdown() does not.
Closes(t) ==
  /\ ~Waits(t) /\ current # 0
  /\ Returns(t, "closing", IF Exiting(t) THEN "draining" ELSE "idle")
  /\ lastTs' = [lastTs EXCEPT ![closing[t]] = 0]
  /\ current' = 0 /\ paused' = FALSE
  /\ IF Exiting(t)
       THEN UNCHANGED taskVars
       ELSE /\ tasks' = [tasks EXCEPT ![t][snap[t]] = "scheduled"]
            /\ owed' = owed \union {snap[t]}
  /\ UNCHANGED <<diskVars, jobs, writing, capture, exiting, before>>

-----------------------------------------------------------------------------
\* pause() and resume(), after on_hotkey() has looked at is_paused.

PausePress(t) ==
  /\ Goes(t, "idle", IF paused THEN "resuming" ELSE "pausing")
  /\ UNCHANGED <<storeVars, sessionVars, capture, exiting, snap, closing, taskVars,
                 before>>

Pauses(t) ==
  /\ Goes(t, "pausing", "idle")
  /\ paused' = (paused \/ current # 0)
  /\ UNCHANGED <<storeVars, current, capture, exiting, snap, closing, taskVars,
                 before>>

Resumes(t) ==
  /\ Goes(t, "resuming", "idle")
  /\ paused' = (paused /\ current = 0)
  /\ UNCHANGED <<storeVars, current, capture, exiting, snap, closing, taskVars,
                 before>>

-----------------------------------------------------------------------------
\* _run_compile(), on the loop; main() keeps the loop free for it.

Moves(t, s, from, to) ==
  tasks[t][s] = from /\ tasks' = [tasks EXCEPT ![t][s] = to]

\* load_bundle() reads the tables as they are; it raises, and nobody is told,
\* when the session is gone.
CompileLoads(t, s) ==
  /\ Moves(t, s, "scheduled", IF Exists(s) THEN "compiling" ELSE "none")
  /\ before' = [before EXCEPT ![s] = 0]
  /\ UNCHANGED <<storeVars, sessionVars, capture, exiting, threadVars, owed>>

\* Mutant: a compiler that raises ends the task without a word.
CompileFailsSilently(t, s) ==
  /\ Moves(t, s, "compiling", "none")
  /\ UNCHANGED <<storeVars, sessionVars, capture, exiting, threadVars, owed, before>>

\* The compiler raises: a degraded ObserverCompiledEvent.
CompileFails(t, s) ==
  /\ Moves(t, s, "compiling", "none")
  /\ owed' = owed \ {s}
  /\ UNCHANGED <<storeVars, sessionVars, capture, exiting, threadVars, before>>

CompileReturns(t, s) ==
  /\ Moves(t, s, "compiling", "exporting")
  /\ UNCHANGED <<storeVars, sessionVars, capture, exiting, threadVars, owed, before>>

\* The exporters are done: the session is marked if they produced anything.
Exports(t, s) ==
  /\ Moves(t, s, "exporting", "none")
  /\ jobs' \in {jobs, Append(jobs, MarkJob(s))}
  /\ owed' = owed \ {s}
  /\ UNCHANGED <<diskVars, lastTs, writing, sessionVars, capture, exiting,
                 threadVars, before>>

-----------------------------------------------------------------------------
\* shutdown(), on the Qt thread.

ShutdownBegins ==
  /\ ~exiting /\ exiting' = TRUE
  /\ Goes("qt", "idle", IF current = 0 THEN "draining" ELSE "halting")
  /\ UNCHANGED <<storeVars, sessionVars, capture, snap, closing, taskVars, before>>

\* flush(), which stop() makes superfluous, and the sentinel of stop().
StoreStops ==
  /\ Goes("qt", "draining", "joining")
  /\ jobs' = Append(jobs, StopJob("qt"))
  /\ UNCHANGED <<diskVars, lastTs, writing, sessionVars, capture, exiting, snap,
                 closing, taskVars, before>>

=============================================================================
