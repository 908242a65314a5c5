----------------------------- MODULE Dictation -----------------------------
(***************************************************************************)
(* Dictation, end to end: the hotkeys (main.py, on_hotkey) drive audio     *)
(* capture, which feeds the orchestrator through the event loop.           *)
(***************************************************************************)
EXTENDS AudioCapture, Orchestrator

CONSTANTS MaxCancels,  \* bound: presses of the cancel hotkey
          Hasty        \* the user may press a hotkey before the previous
                       \* dictation has run its course

ASSUME UserAssumption == MaxCancels \in Nat /\ Hasty \in BOOLEAN

VARIABLES ncancel,     \* presses of the cancel hotkey so far
          spoken,      \* history: blocks the microphone heard, per recording
          kept,        \* history: recordings never cancelled
          origin,      \* history: the recording each pipeline is for, 0 = none
          revoked,     \* history: pipelines whose RecordingStopped was already
                       \* scheduled, and whose insertion had not begun, when
                       \* Orchestrator.cancel ran
          cut          \* history: those of them that had started by then

historyOfUser == <<spoken, kept, origin, revoked, cut>>
userVars == <<ncancel, historyOfUser>>
vars == <<ready, captureVars, chunkerVars, orchestratorVars, userVars>>

TypeOK ==
  /\ ready \in Seq(Callbacks)
  /\ CaptureTypeOK
  /\ ChunkerTypeOK
  /\ OrchestratorTypeOK
  /\ ncancel \in 0..MaxCancels
  /\ spoken \in [Recs -> Nat]
  /\ kept \subseteq Recs
  /\ origin \in [Pipes -> 0..MaxRecs]
  /\ revoked \subseteq Pipes
  /\ cut \subseteq Pipes

Init ==
  /\ ready = <<>>
  /\ CaptureInit
  /\ ChunkerInit
  /\ OrchestratorInit
  /\ ncancel = 0
  /\ spoken = [r \in Recs |-> 0]
  /\ kept = Recs
  /\ origin = [p \in Pipes |-> 0]
  /\ revoked = {} /\ cut = {}

\* Nothing of an earlier dictation is left to do (the error timer apart).
Settled ==
  /\ ready = <<>> /\ ~recording /\ Stopping = {}
  /\ \A p \in Pipes : pc[p] \in {"none", "gone"}
  /\ \A r \in Recs : loopPc[r] \in {"none", "done"}

-----------------------------------------------------------------------------
\* The user: on_hotkey runs in the hotkey listener's thread.

HotkeyFree == stopper["hotkey"] = "out"

\* toggle_recording while not recording.
HotkeyStart ==
  /\ ~recording /\ HotkeyFree
  /\ Hasty \/ Settled
  /\ StartRecording
  /\ ui' = "recording"
  /\ UNCHANGED <<sm, handle, audio, transcript, last, timerVars, streamVars,
                 pipeVars, historyVars, userVars>>

\* cancel
HotkeyCancel ==
  /\ ncancel < MaxCancels /\ HotkeyFree
  /\ CancelRecording
  /\ ui' = "idle"
  /\ ncancel' = ncancel + 1
  /\ kept' = kept \ {nrec}
  /\ UNCHANGED <<sm, handle, audio, transcript, last, timerVars, streamVars,
                 pipeVars, historyVars, spoken, origin, revoked, cut>>

\* stop_recording is called by toggle_recording while recording, by silence or
\* by the maximum duration ...
StopStarts(t) == StopTests(t) /\ UNCHANGED <<orchestratorVars, userVars>>

\* ... and runs to its end.
StopProceeds(t) ==
  /\ \/ StopFlips(t) /\ UNCHANGED origin
     \/ StopPosts(t) /\ origin' = [origin EXCEPT ![nstop + 1] = nrec]
  /\ UNCHANGED <<orchestratorVars, ncancel, spoken, kept, revoked, cut>>

StopRecording == \E t \in Threads : StopStarts(t) \/ StopProceeds(t)

Speak ==
  /\ AudioBlock
  /\ spoken' = [spoken EXCEPT ![nrec] = @ + 1]
  /\ UNCHANGED <<orchestratorVars, ncancel, kept, origin, revoked, cut>>

-----------------------------------------------------------------------------
\* The event loop.

LoopCancel ==
  LET begun == {p \in Pipes : pc[p] \in Inserting \union {"ended", "gone"}}
                 \union {out[i].pipe : i \in 1..Len(out)}
  IN /\ Cancel
     /\ revoked' = revoked \union ((1..nstop) \ begun)
     /\ cut' = cut \union {p \in (1..nstop) \ begun : pc[p] \in InFlight}
     /\ UNCHANGED <<captureVars, chunkerVars, ncancel, spoken, kept, origin>>

ChunkerStep ==
  /\ \/ \E r \in Recs : Start(r) \/ LoopEnds(r) \/ LoopSleeps(r)
     \/ StopSpawn \/ StopBegin \/ StopFinish
  /\ UNCHANGED <<captureVars, orchestratorVars, userVars>>

CaptureStep ==
  /\ FinalizeStop
  /\ UNCHANGED <<orchestratorVars, userVars>>

OrchestratorStep ==
  /\ \/ Prepare \/ OnRecordingStopped \/ OnPipelineDone
     \/ OnAudioChunk \/ IgnoreAudioChunk
     \/ StreamConsumes \/ StreamReachesEnd \/ StreamFinal \/ StreamFails
     \/ StreamUnwinds
     \/ \E p \in Pipes : PipelineStep(p)
     \/ TimerFires
  /\ UNCHANGED <<captureVars, chunkerVars, userVars>>

\* The loop thread runs the oldest callback.
LoopStep == ChunkerStep \/ CaptureStep \/ OrchestratorStep \/ LoopCancel

-----------------------------------------------------------------------------
\* Work outside the loop thread that ends by itself.

CallCompletes(p) == Completes(p) /\ UNCHANGED <<captureVars, chunkerVars, userVars>>
PassCompletes == StreamPassDone /\ UNCHANGED <<captureVars, chunkerVars, userVars>>
TimerExpires == TimerElapses /\ UNCHANGED <<captureVars, chunkerVars, userVars>>
IntervalElapses(r) ==
  LoopTick(r) /\ UNCHANGED <<captureVars, orchestratorVars, userVars>>

External ==
  \/ \E p \in Pipes : CallCompletes(p)
  \/ PassCompletes \/ TimerExpires
  \/ \E r \in Recs : IntervalElapses(r)

Next == HotkeyStart \/ HotkeyCancel \/ StopRecording \/ Speak
        \/ LoopStep \/ External

Spec == Init /\ [][Next]_vars

\* The loop thread runs while it has callbacks; calls to providers and to the
\* operating system return; timers elapse; a thread inside stop_recording
\* leaves it.  The user owes nothing.
Fairness ==
  /\ WF_vars(LoopStep)
  /\ \A p \in Pipes : WF_vars(CallCompletes(p))
  /\ WF_vars(PassCompletes)
  /\ WF_vars(TimerExpires)
  /\ \A r \in Recs : WF_vars(IntervalElapses(r))
  /\ \A t \in Threads : WF_vars(StopProceeds(t))

FairSpec == Spec /\ Fairness

=============================================================================
