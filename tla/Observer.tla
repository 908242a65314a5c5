------------------------------ MODULE Observer ------------------------------
(***************************************************************************)
(* Observer mode as main.py wires it: sessions are opened and closed by    *)
(* hotkey or tray, ambient speech and keyframes are recorded into them,    *)
(* the process is launched, quit and killed, and a launch offers to        *)
(* recover the sessions that a killed process left open.                   *)
(***************************************************************************)
EXTENDS ObserverController

CONSTANTS Users,        \* threads on which the user toggles and pauses
          MaxLaunches,  \* bound: launches of the program
          MaxCaptures,  \* bound: utterances and keyframes captured
          Stamps        \* times that events are stamped with (the wall clock)

ASSUME ObserverAssumption ==
  /\ Users \subseteq Threads
  /\ MaxLaunches \in Nat /\ MaxCaptures \in Nat
  /\ Stamps \subseteq Nat

VARIABLES
  phase,     \* of the process
  launches,  \* launches so far
  dialogs,   \* sessions a recovery dialog is shown for
  heard,     \* utterances on their way through the arbiter
  loop,      \* {} or the utterance whose record() the loop is in
  grab,      \* the keyframe the capture thread is at
  captures   \* utterances and keyframes captured so far

mainVars == <<phase, launches, dialogs>>
feedVars == <<heard, loop, grab, captures>>
vars == <<storeVars, controllerVars, mainVars, feedVars>>

Phases == {"off", "up",
           "died"}  \* an exception left main()

NoGrab == [at |-> "none", s |-> 0]
Grabs  == [at : {"none", "taken", "inserting"}, s : 0..MaxSessions]

TypeOK ==
  /\ StoreTypeOK
  /\ ControllerTypeOK
  /\ phase \in Phases
  /\ launches \in 0..MaxLaunches
  /\ dialogs \subseteq Sessions
  /\ heard \in Seq(0..MaxSessions)
  /\ loop \subseteq 0..MaxSessions
  /\ grab \in Grabs
  /\ grab.at # "none" => grab.s # 0
  /\ captures \in 0..MaxCaptures

FeedInit == heard = <<>> /\ loop = {} /\ grab = NoGrab

Init ==
  /\ StoreInit
  /\ ControllerInit
  /\ before = [s \in Sessions |-> 0]
  /\ phase = "off" /\ launches = 0 /\ dialogs = {}
  /\ FeedInit /\ captures = 0

-----------------------------------------------------------------------------
\* The process.

\* The store starts and purges what is past its retention, and a dialog for each
\* open session is to follow: the loop over them deletes a name it needs again,
\* so a second session ends the program.
Launches(offered) ==
  /\ phase # "up" /\ launches < MaxLaunches
  /\ launches' = launches + 1
  /\ PurgeExpired
  /\ IF Cardinality(offered) > 1
       THEN phase' = "died" /\ UNCHANGED <<writing, dialogs>>
       ELSE phase' = "up" /\ writing' = TRUE /\ dialogs' = offered
  /\ UNCHANGED <<jobs, lastTs, controllerVars, feedVars>>

Launch == Launches(OpenSessions)

\* What the process had in memory is gone.
Forgets ==
  /\ jobs' = <<>> /\ lastTs' = [s \in Sessions |-> 0] /\ writing' = FALSE
  /\ current' = 0 /\ paused' = FALSE /\ capture' = FALSE /\ exiting' = FALSE
  /\ pc' = [t \in Threads |-> "idle"]
  /\ snap' = [t \in Threads |-> 0]
  /\ closing' = [t \in Threads |-> 0]
  /\ tasks' = [t \in Threads |-> [s \in Sessions |-> "none"]]
  /\ owed' = {}
  /\ dialogs' = {}
  /\ heard' = <<>> /\ loop' = {} /\ grab' = NoGrab
  /\ phase' = "off"
  /\ UNCHANGED <<diskVars, before, launches, captures>>

Crash == phase = "up" /\ Forgets

\* The writer has met its sentinel, or 5 seconds have passed: the threads that
\* still run are daemons.
Exit == phase = "up" /\ pc["qt"] = "joining" /\ Forgets

-----------------------------------------------------------------------------
\* The buttons of the recovery dialog, on the Qt thread.

DialogCompile(s) ==
  /\ phase = "up" /\ ~exiting /\ s \in dialogs /\ Len(jobs) < MaxJobs
  /\ Goes("qt", "idle", "recovering")
  /\ closing' = [closing EXCEPT !["qt"] = s]
  /\ jobs' = Append(jobs, CloseJob(s, "qt"))
  /\ before' = [before EXCEPT ![s] = Due(s)]
  /\ dialogs' = dialogs \ {s}
  /\ UNCHANGED <<diskVars, lastTs, writing, sessionVars, capture, exiting, snap,
                 taskVars, phase, launches, feedVars>>

\* The row is written, or 5 seconds have passed: the session is compiled.
DialogCloses ==
  /\ phase = "up"
  /\ Returns("qt", "recovering", "idle")
  /\ \/ /\ ~Waits("qt")
        /\ lastTs' = [lastTs EXCEPT ![closing["qt"]] = 0]
        /\ UNCHANGED jobs
     \/ /\ Waits("qt")
        /\ jobs' = GivenUp("qt")
        /\ UNCHANGED lastTs
  /\ tasks' = [tasks EXCEPT !["qt"][closing["qt"]] = "scheduled"]
  /\ owed' = owed \union {closing["qt"]}
  /\ UNCHANGED <<diskVars, writing, sessionVars, capture, exiting, before, mainVars,
                 feedVars>>

DialogKeep(s) ==
  /\ phase = "up" /\ ~exiting /\ pc["qt"] = "idle" /\ s \in dialogs
  /\ dialogs' = dialogs \ {s}
  /\ UNCHANGED <<storeVars, controllerVars, phase, launches, feedVars>>

\* purge_session(): the rows at once; the rest of it waits for the writer.
DialogDelete(s) ==
  /\ phase = "up" /\ ~exiting /\ pc["qt"] = "idle" /\ s \in dialogs
  /\ Purge({s})
  /\ dialogs' = dialogs \ {s}
  /\ UNCHANGED <<jobs, lastTs, writing, controllerVars, phase, launches, feedVars>>

-----------------------------------------------------------------------------
\* What is recorded.

\* The ambient listener passes an utterance on, whether or not capture is paused.
Speaks ==
  /\ phase = "up" /\ capture /\ captures < MaxCaptures
  /\ captures' = captures + 1
  /\ heard' = Append(heard, IF paused THEN 0 ELSE current)
  /\ UNCHANGED <<storeVars, controllerVars, mainVars, loop, grab>>

\* The arbiter drops it, its provider fails or it has no text.
AmbientLost ==
  /\ phase = "up" /\ heard # <<>>
  /\ heard' = Tail(heard)
  /\ UNCHANGED <<storeVars, controllerVars, mainVars, loop, grab, captures>>

\* _on_ambient_text() on the loop, record(): its tests.
AmbientTests ==
  /\ phase = "up" /\ heard # <<>> /\ loop = {}
  /\ heard' = Tail(heard)
  /\ loop' = IF current = 0 \/ paused THEN {} ELSE {Head(heard)}
  /\ UNCHANGED <<storeVars, controllerVars, mainVars, grab, captures>>

\* record(): the event goes to the session that is current by now.
AmbientRecords(ts) ==
  /\ phase = "up" /\ loop # {}
  /\ loop' = {}
  /\ \E of \in loop :
       jobs' = IF current = 0 THEN jobs
               ELSE Append(jobs, AppendJob(current, [ts |-> ts, of |-> of], Nobody))
  /\ UNCHANGED <<diskVars, lastTs, writing, controllerVars, mainVars, heard, grab,
                 captures>>

\* _on_keyframe_grab() on the capture thread: the tests.
KeyframeTaken ==
  /\ phase = "up" /\ capture /\ captures < MaxCaptures
  /\ grab.at = "none" /\ current # 0 /\ ~paused
  /\ captures' = captures + 1
  /\ grab' = [at |-> "taken", s |-> current]
  /\ UNCHANGED <<storeVars, controllerVars, mainVars, heard, loop>>

\* The blob cannot be written, or the session is at its cap.
KeyframeSkipped ==
  /\ phase = "up" /\ grab.at = "taken"
  /\ grab' = NoGrab
  /\ UNCHANGED <<storeVars, controllerVars, mainVars, heard, loop, captures>>

\* append_returning_id()
KeyframeInserts(ts) ==
  /\ phase = "up" /\ grab.at = "taken"
  /\ grab' = [grab EXCEPT !.at = "inserting"]
  /\ jobs' = Append(jobs, AppendJob(grab.s, [ts |-> ts, of |-> grab.s], "grabber"))
  /\ UNCHANGED <<diskVars, lastTs, writing, controllerVars, mainVars, heard, loop,
                 captures>>

\* It is in, or 5 seconds have passed.
KeyframeDone ==
  /\ phase = "up" /\ grab.at = "inserting"
  /\ grab' = NoGrab
  /\ jobs' = GivenUp("grabber")
  /\ UNCHANGED <<diskVars, lastTs, writing, controllerVars, mainVars, heard, loop,
                 captures>>

-----------------------------------------------------------------------------

\* The user, on one of the threads; the hotkeys are stopped before shutdown().
Press(t) ==
  /\ phase = "up" /\ ~exiting
  /\ Toggle(t) \/ PausePress(t)
  /\ UNCHANGED <<mainVars, feedVars>>

\* A thread inside a method of the controller goes on.
ThreadStep(t) ==
  /\ phase = "up"
  /\ \/ OpenTests(t) \/ OpenFails(t) \/ Opens(t) \/ CaptureStarts(t)
     \/ StopTests(t) \/ CaptureStops(t)
     \/ CloseTests(t) \/ ClosedAlready(t) \/ CloseQueues(t)
     \/ CloseTimesOut(t) \/ ClosesTooLate(t) \/ Closes(t)
     \/ Pauses(t) \/ Resumes(t)
  /\ UNCHANGED <<mainVars, feedVars>>

Quit ==
  /\ phase = "up"
  /\ ShutdownBegins
  /\ UNCHANGED <<mainVars, feedVars>>

QuitStops ==
  /\ phase = "up"
  /\ StoreStops
  /\ UNCHANGED <<mainVars, feedVars>>

Compile(t, s) ==
  /\ phase = "up" /\ loop = {}
  /\ CompileLoads(t, s) \/ CompileFails(t, s) \/ CompileReturns(t, s) \/ Exports(t, s)
  /\ UNCHANGED <<mainVars, feedVars>>

Writes == WriterStep /\ UNCHANGED <<controllerVars, mainVars, feedVars>>

Ambient  == AmbientLost \/ AmbientTests \/ \E ts \in Stamps : AmbientRecords(ts)
Keyframe == KeyframeSkipped \/ KeyframeDone \/ \E ts \in Stamps : KeyframeInserts(ts)
Dialog   == \E s \in Sessions : DialogCompile(s) \/ DialogKeep(s) \/ DialogDelete(s)

Next ==
  \/ Launch \/ Crash \/ Quit \/ QuitStops \/ Exit
  \/ Dialog \/ DialogCloses
  \/ \E t \in Users : Press(t)
  \/ \E t \in Threads : ThreadStep(t) \/ \E s \in Sessions : Compile(t, s)
  \/ Writes
  \/ Speaks \/ Ambient \/ KeyframeTaken \/ Keyframe

Spec == Init /\ [][Next]_vars

\* Threads and the loop go on; the compiler returns or raises.
Fairness ==
  /\ WF_vars(Writes) /\ WF_vars(Ambient) /\ WF_vars(Keyframe)
  /\ WF_vars(DialogCloses)
  /\ \A t \in Threads : WF_vars(ThreadStep(t))
  /\ WF_vars(\E t \in Threads, s \in Sessions : Compile(t, s))

FairSpec == Spec /\ Fairness

-----------------------------------------------------------------------------
\* Properties.

\* Rows are stored in the order of their timestamps as long as their session is
\* open, although threads stamp them before they queue them and the wall clock
\* may step back.
TimelineRises ==
  \A s \in OpenSessions :
    \A i, j \in 1..Len(timeline[s]) : i < j => timeline[s][i].ts < timeline[s][j].ts

\* A session is compiled from all that was queued before its close was: the
\* close waits for the writer before it lets the compilation be scheduled.
BundleComplete ==
  [][\A t \in Threads, s \in Sessions :
       tasks[t][s] = "scheduled" /\ tasks'[t][s] = "compiling"
         => Len(timeline[s]) >= before[s]]_vars

\* No step takes a session back, from compiled to closed or from closed to open,
\* whichever threads close it and how often.
StatusRises ==
  [][LET rank == [none |-> 0, open |-> 1, closed |-> 2, compiled |-> 3, purged |-> 4]
     IN \A s \in Sessions : rank[status[s]] <= rank[status'[s]]]_vars

\* The end of a session that was published is followed by the news of its
\* compilation, good or degraded, unless the process ends first.
CompilationReported == \A s \in Sessions : s \in owed ~> s \notin owed

\* "Nothing is captured during the pause."
PauseHolds ==
  \A s \in Sessions : \A i \in 1..Len(timeline[s]) : timeline[s][i].of # 0

=============================================================================
