------------------------------ MODULE Capture ------------------------------
(***************************************************************************)
(* The capture side of a session, as main.py wires it: the microphone, the *)
(* foreground window and the mouse feed the listener's worker and the      *)
(* threads that ask the gate for a keyframe; the capture thread takes and  *)
(* stores it.  The controller starts and stops them in turn.               *)
(***************************************************************************)
EXTENDS AmbientListener, ScreenGrabber

CONSTANTS Secret,       \* windows that the exclusion list names
          Setups,       \* set-ups: is there a microphone, which sources are
                        \* enabled; and the bounds ticks, of the clock and the
                        \* blocks of audio; moves, of the foreground; inputs:
                        \* clicks, scrolls and pauses
          MaxSessions,  \* bound: sessions
          MaxBlobs      \* max_session_mb, in keyframes

ASSUME CaptureAssumption ==
  /\ Secret \subseteq Windows
  /\ Setups \subseteq
       [mic : BOOLEAN, sources : SUBSET Sources, ticks : Nat, moves : Nat,
        inputs : Nat]
  /\ MaxSessions \in Nat /\ MaxBlobs \in Nat

VARIABLES
  setup,     \* never changes
  now,       \* the clock
  window,    \* the foreground
  moves,     \* changes of the foreground so far
  inputs,    \* inputs so far
  user,      \* where the thread is that starts and stops sessions
  session,   \* the current one, 0 = None
  opened,    \* sessions opened so far
  paused,    \* is_paused
  pattern,   \* exclusion_state: a pattern holds capture down
  pauses,    \* history: pause_start rows of the session without a pause_end
  blobs,     \* blob_bytes of the session
  capped,    \* the session is in capped_sessions
  frames     \* history: keyframe rows

worldVars   == <<setup, now, window, moves, inputs>>
sessionVars == <<user, session, opened, paused>>
rowVars     == <<pattern, pauses, blobs, capped, frames>>
vars == <<ambientVars, gateVars, triggerVars, caller, grabberVars, worldVars,
          sessionVars, rowVars>>

UserStates ==
  {"idle", "ambient", "draining", "putting", "joining", "triggers", "mouse",
   "grabber", "dropping", "handing", "ending", "closing"}

TypeOK ==
  /\ AmbientTypeOK /\ GateTypeOK /\ GrabberTypeOK
  /\ setup \in Setups /\ enabled = setup.sources
  /\ now \in 1..setup.ticks /\ window \in Windows /\ moves \in 0..setup.moves
  /\ inputs \in 0..setup.inputs
  /\ user \in UserStates
  /\ session \in 0..MaxSessions /\ opened \in 0..MaxSessions
  /\ paused \in BOOLEAN /\ pattern \in BOOLEAN /\ pauses \in Int
  /\ blobs \in 0..MaxBlobs /\ capped \in BOOLEAN
  /\ lastApp \in Windows \union {"none"}

Init ==
  /\ setup \in Setups /\ enabled = setup.sources
  /\ AmbientInit /\ GateInit /\ GrabberInit
  /\ now = 1 /\ window \in Windows /\ moves = 0 /\ inputs = 0
  /\ user = "idle" /\ session = 0 /\ opened = 0 /\ paused = FALSE
  /\ pattern = FALSE /\ pauses = 0 /\ blobs = 0 /\ capped = FALSE /\ frames = {}

-----------------------------------------------------------------------------
\* The world: a block of audio with each tick, the foreground, the mouse.

Tick ==
  /\ now < setup.ticks
  /\ now' = now + 1
  /\ IF setup.mic THEN Feed(now + 1) ELSE UNCHANGED ambientVars
  /\ UNCHANGED <<setup, window, moves, inputs, gateVars, triggerVars, caller, grabberVars,
                 sessionVars, rowVars>>

Focus ==
  /\ moves < setup.moves
  /\ \E w \in Windows \ {window} : window' = w
  /\ moves' = moves + 1
  /\ UNCHANGED <<setup, now, inputs, ambientVars, gateVars, triggerVars, caller,
                 grabberVars, sessionVars, rowVars>>

Input ==
  /\ inputs < setup.inputs
  /\ inputs' = inputs + 1
  /\ UNCHANGED <<setup, now, window, moves, ambientVars, grabberVars, rowVars>>

Mouse ==
  Input /\ (Scroll(now) \/ Click) /\ UNCHANGED sessionVars

\* pause() and resume()
Pause ==
  /\ Input
  /\ session # 0 /\ paused' = ~paused
  /\ UNCHANGED <<user, session, opened, gateVars, triggerVars, caller>>

-----------------------------------------------------------------------------
\* Start and stop.

Goes(from, to) == user = from /\ user' = to

StartSession ==
  /\ Goes("idle", "idle") /\ session = 0 /\ opened < MaxSessions
  /\ opened' = opened + 1 /\ session' = opened + 1 /\ paused' = FALSE
  /\ blobs' = 0 /\ capped' = FALSE /\ pauses' = 0
  /\ StartListening /\ StartPolling /\ StartGrabbing
  /\ UNCHANGED <<worldVars, pattern, frames>>

\* A step of stop_session().
Step(from, to) ==
  Goes(from, to) /\ UNCHANGED <<worldVars, session, opened, paused, rowVars>>

Others == <<gateVars, triggerVars, caller, grabberVars>>

StopSession ==
  session # 0 /\ Step("idle", "ambient") /\ UNCHANGED <<ambientVars, Others>>

\* Mutant: the sentinel is dropped when the queue is full.
StopAmbientDrops ==
  /\ Step("ambient", "joining")
  /\ IF Len(blocks) < Depth THEN Put(Stop) ELSE UNCHANGED ambientVars
  /\ UNCHANGED Others

\* AmbientListener.stop(): when there is no room for the sentinel, what waits is
\* thrown away first.
StopAmbient ==
  \/ Step("ambient", "joining") /\ Put(Stop) /\ UNCHANGED Others
  \/ /\ Len(blocks) = Depth
     /\ Step("ambient", "draining") /\ UNCHANGED <<ambientVars, Others>>
  \/ Step("draining", "draining") /\ DrainOne /\ UNCHANGED Others
  \/ /\ blocks = <<>>
     /\ Step("draining", "putting") /\ UNCHANGED <<ambientVars, Others>>
  \/ Step("putting", "joining") /\ Put(Stop) /\ UNCHANGED Others

AmbientJoined ==
  Step("joining", "triggers") /\ StopListening /\ UNCHANGED Others

\* TriggerEngine.stop()
StopTriggers ==
  /\ UNCHANGED <<ambientVars, grabberVars>>
  /\ \/ Step("triggers", "mouse") /\ StopPolling
     \/ Step("mouse", "grabber") /\ StopMouse

\* Mutant: the capture thread is not waited for.
StopGrabberAtOnce ==
  /\ UNCHANGED <<ambientVars, gateVars, triggerVars, caller>>
  /\ \/ Step("grabber", "closing") /\ Submit(None)
     \/ Full /\ Step("grabber", "dropping") /\ UNCHANGED grabberVars
     \/ Step("dropping", "dropping") /\ DropOne
     \/ requests = <<>> /\ Step("dropping", "handing") /\ UNCHANGED grabberVars
     \/ Step("handing", "closing") /\ Submit(None)

\* ScreenGrabber.stop()
StopGrabber ==
  /\ UNCHANGED <<ambientVars, gateVars, triggerVars, caller>>
  /\ \/ Step("grabber", "ending") /\ Submit(None)
     \/ Full /\ Step("grabber", "dropping") /\ UNCHANGED grabberVars
     \/ Step("dropping", "dropping") /\ DropOne
     \/ requests = <<>> /\ Step("dropping", "handing") /\ UNCHANGED grabberVars
     \/ Step("handing", "ending") /\ Submit(None)
     \/ /\ grabber.at = "none"
        /\ Step("ending", "closing") /\ UNCHANGED grabberVars

\* SessionManager.close()
CloseSession ==
  /\ Goes("closing", "idle")
  /\ session' = 0 /\ paused' = FALSE
  /\ UNCHANGED <<worldVars, opened, rowVars, ambientVars, Others>>

-----------------------------------------------------------------------------
\* The listener's worker.

Works == UNCHANGED <<worldVars, sessionVars, grabberVars, rowVars>>

Listen ==
  /\ Works /\ UNCHANGED <<gateVars, triggerVars, caller>>
  /\ \/ Load \/ Stops \/ Discards \/ StaysIdle \/ Speaks(TRUE) \/ Speaks(FALSE)

HearSpeech == Works /\ Onset /\ SpeechOnset

\* on_speech_onset() has returned.
Announced ==
  /\ worker = "announcing" /\ Is("ambient", "idle")
  /\ worker' = "listening"
  /\ Works /\ UNCHANGED <<blocks, vad, segmentVars, gateVars, triggerVars, caller>>

-----------------------------------------------------------------------------
\* Requests for keyframes.

Asking == UNCHANGED <<ambientVars, worldVars, sessionVars>>

PollStep ==
  /\ Asking /\ UNCHANGED <<grabberVars, rowVars>>
  /\ SeesFocus(window) \/ SeesScroll(now) \/ ForgetsScroll \/ PollAgain

MouseStep == Asking /\ UNCHANGED <<grabberVars, rowVars>> /\ MouseEnds

\* request(): no session, or a pause.
Refused(t) ==
  /\ Is(t, "asking") /\ (session = 0 \/ paused)
  /\ Moves(t, After(t))
  /\ Asking /\ UNCHANGED <<gateVars, triggerVars, grabberVars, rowVars>>

\* Mutant: a selection passes.
ChecksAllButSelections(t) ==
  LET excluded == window \in Secret /\ caller[t].why # "selection"
  IN  /\ Is(t, "asking") /\ session # 0 /\ ~paused
      /\ pattern' = excluded
      /\ caller' = [caller EXCEPT ![t] =
           [@ EXCEPT !.moves = moves, !.pause = excluded,
                     !.at = IF pattern # excluded THEN "noting"
                            ELSE IF excluded THEN After(t) ELSE "limiting"]]
      /\ Asking
      /\ UNCHANGED <<gateVars, triggerVars, grabberVars, pauses, blobs, capped, frames>>

\* request(): the foreground is looked up, and exclusion_state compared with it.
Checks(t) ==
  LET excluded == window \in Secret
  IN  /\ Is(t, "asking") /\ session # 0 /\ ~paused
      /\ pattern' = excluded
      /\ caller' = [caller EXCEPT ![t] =
           [@ EXCEPT !.moves = moves, !.pause = excluded,
                     !.at = IF pattern # excluded THEN "noting"
                            ELSE IF excluded THEN After(t) ELSE "limiting"]]
      /\ Asking
      /\ UNCHANGED <<gateVars, triggerVars, grabberVars, pauses, blobs, capped, frames>>

\* The pause_start or pause_end row of an exclusion.
Notes(t) ==
  /\ Is(t, "noting")
  /\ pauses' = IF session = 0 THEN pauses
               ELSE IF caller[t].pause THEN pauses + 1 ELSE pauses - 1
  /\ Moves(t, IF caller[t].pause THEN After(t) ELSE "limiting")
  /\ Asking
  /\ UNCHANGED <<gateVars, triggerVars, grabberVars, pattern, blobs, capped, frames>>

Weighs(t) == Weigh(t, now) /\ Asking /\ UNCHANGED <<grabberVars, rowVars>>

\* The request is queued, or dropped with a gap row; the allowance is spent.
Submits(t) ==
  /\ Is(t, "submitting")
  /\ \/ Submit([why |-> caller[t].why, moves |-> caller[t].moves])
     \/ Full /\ UNCHANGED grabberVars
  /\ Moves(t, After(t))
  /\ Asking /\ UNCHANGED <<gateVars, triggerVars, rowVars>>

-----------------------------------------------------------------------------
\* The capture thread.

Grabbing == UNCHANGED <<ambientVars, gateVars, triggerVars, caller, worldVars, sessionVars>>

GrabStep ==
  /\ Grabbing /\ UNCHANGED rowVars
  /\ \/ TakeRequest
     \/ GrabsNothing
     \/ Grabs(window, [moves |-> moves, session |-> session])
     \/ Names(window)

Waits == grabber' = Idle /\ UNCHANGED <<requests, recent>>

\* _on_keyframe_grab(): there is no picture, no session, or a pause.
Passes ==
  /\ grabber.at = "named"
  /\ grabber.image = "none" \/ session = 0 \/ paused
  /\ Waits /\ Grabbing /\ UNCHANGED rowVars

\* _write_blob(): the session is over its cap, or the file is not written.
WriteBlob ==
  /\ grabber.at = "named" /\ grabber.image # "none" /\ session # 0 /\ ~paused
  /\ Grabbing /\ UNCHANGED <<pattern, pauses, frames>>
  /\ \/ blobs = MaxBlobs /\ capped' = TRUE /\ Waits /\ UNCHANGED blobs
     \/ blobs < MaxBlobs /\ Waits /\ UNCHANGED <<blobs, capped>>
     \/ /\ blobs < MaxBlobs
        /\ blobs' = blobs + 1
        /\ grabber' = [grabber EXCEPT !.at = "storing", !.into = session]
        /\ UNCHANGED <<capped, requests, recent>>

\* The row, which may fail to be inserted.
StoreRow ==
  /\ grabber.at = "storing"
  /\ frames' \in {frames,
       frames \union {[image |-> grabber.image, app |-> grabber.app,
                       taken |-> grabber.taken, into |-> grabber.into,
                       asked |-> grabber.moves]}}
  /\ Waits /\ Grabbing /\ UNCHANGED <<pattern, pauses, blobs, capped>>

-----------------------------------------------------------------------------
Stopping ==
  \/ StopAmbient \/ AmbientJoined \/ StopTriggers \/ StopGrabber \/ CloseSession

Listens == Listen \/ HearSpeech \/ Announced

Requesting(t) == Refused(t) \/ Checks(t) \/ Notes(t) \/ Weighs(t) \/ Submits(t)

Captures == GrabStep \/ Passes \/ WriteBlob \/ StoreRow

Next ==
  \/ Tick \/ Focus \/ Mouse \/ Pause
  \/ StartSession \/ StopSession \/ Stopping
  \/ Listens
  \/ PollStep \/ MouseStep
  \/ \E t \in Callers : Requesting(t)
  \/ Captures

Spec == Init /\ [][Next]_vars

\* Every thread is given its turn, except the mouse listener's, which nobody waits
\* for.  The clock, the user and the foreground owe nothing.
FairSpec ==
  /\ Spec
  /\ WF_vars(Stopping)
  /\ WF_vars(Listens \/ Requesting("ambient"))
  /\ WF_vars(PollStep \/ Requesting("poll"))
  /\ WF_vars(Captures)

-----------------------------------------------------------------------------
\* A window on the exclusion list is only ever captured when it came to the
\* foreground after the gate had looked: a request is never let through for it,
\* whatever its reason and whichever thread asks.
SecretOnlyIfMoved ==
  \A f \in frames : f.image \in Secret => f.taken.moves > f.asked

\* A keyframe belongs to the session it is stored in: none that was being taken
\* when the session stopped is found in the next one, or in none.
FramesOfTheirSession ==
  \A f \in frames : f.into # 0 /\ f.taken.session = f.into

\* Stopping a session comes to an end, whatever the queues hold: each thread finds
\* its sentinel.
SessionStops == user = "ambient" ~> user = "idle"

\* The timeline of a session holds "exactly one pause_start / pause_end pair" for
\* each time an excluded window held capture down.
PausesPaired == pauses \in {0, 1}
=============================================================================
