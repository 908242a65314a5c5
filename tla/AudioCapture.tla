---------------------------- MODULE AudioCapture ----------------------------
(***************************************************************************)
(* audio/capture.py: the recording flag and buffer shared by the hotkey    *)
(* thread (start, stop, cancel), the audio callback thread (blocks, auto   *)
(* stop) and the loop thread (_finalize_stop).                             *)
(***************************************************************************)
EXTENDS AudioChunker, FiniteSets

CONSTANTS Streaming,   \* asr.streaming: a chunker exists, the ASR streams
          AutoStop     \* VAD silence / maximum duration may stop a recording

ASSUME CaptureAssumption == Streaming \in BOOLEAN /\ AutoStop \in BOOLEAN

VARIABLES recording,   \* _recording
          buffer,      \* _audio_buffer
          nrec,        \* recordings started so far; the last one is current
          nstop,       \* _finalize_stop callbacks scheduled so far
          stopper      \* where each thread is in stop_recording

captureVars == <<recording, buffer, nrec, nstop, stopper>>

\* The two threads that call stop_recording.
Threads == {"hotkey", "audio"}

StopperPcs ==
  {"out",       \* not in stop_recording
   "tested",    \* past "if not self._recording: return"
   "flipped"}   \* has cleared _recording and scheduled the chunker's stop

CaptureTypeOK ==
  /\ recording \in BOOLEAN
  /\ buffer \in Audio
  /\ nrec \in 0..MaxRecs
  /\ nstop \in 0..MaxPipes
  /\ stopper \in [Threads -> StopperPcs]

CaptureInit ==
  /\ recording = FALSE
  /\ buffer = <<>>
  /\ nrec = 0
  /\ nstop = 0
  /\ stopper = [t \in Threads |-> "out"]

\* Mutant: start_recording() appends to the buffer it finds.
StartKeepsAudio ==
  /\ nrec < MaxRecs
  /\ recording' = TRUE
  /\ nrec' = nrec + 1
  /\ CallSoon(<<Callback("prepare", nrec + 1)>>
              \o (IF Streaming THEN <<Callback("chunker_start", nrec + 1)>>
                               ELSE <<>>))
  /\ UNCHANGED <<buffer, nstop, stopper, chunkerVars>>

\* start_recording(): a new buffer; the chunker starts on the loop, later.
StartRecording ==
  /\ nrec < MaxRecs
  /\ buffer' = <<>>
  /\ recording' = TRUE
  /\ nrec' = nrec + 1
  /\ CallSoon(<<Callback("prepare", nrec + 1)>>
              \o (IF Streaming THEN <<Callback("chunker_start", nrec + 1)>>
                               ELSE <<>>))
  /\ UNCHANGED <<nstop, stopper, chunkerVars>>

\* Threads inside stop_recording.
Stopping == {t \in Threads : stopper[t] # "out"}

\* stop_recording(), "if not self._recording: return".
StopTests(t) ==
  /\ recording /\ stopper[t] = "out"
  /\ t = "audio" => AutoStop
  /\ nstop + Cardinality(Stopping) < MaxPipes
  /\ stopper' = [stopper EXCEPT ![t] = "tested"]
  /\ UNCHANGED <<recording, buffer, nrec, nstop, chunkerVars, ready>>

\* Then it clears the flag and asks the chunker to flush and stop.
StopFlips(t) ==
  /\ stopper[t] = "tested"
  /\ stopper' = [stopper EXCEPT ![t] = "flipped"]
  /\ recording' = FALSE
  /\ CallSoon(IF Streaming THEN <<StopCall("stop_spawn", TRUE)>> ELSE <<>>)
  /\ UNCHANGED <<buffer, nrec, nstop, chunkerVars>>

\* Then it schedules _finalize_stop.
StopPosts(t) ==
  /\ stopper[t] = "flipped"
  /\ nstop < MaxPipes
  /\ stopper' = [stopper EXCEPT ![t] = "out"]
  /\ nstop' = nstop + 1
  /\ CallSoon(<<Callback("finalize", nstop + 1)>>)
  /\ UNCHANGED <<recording, buffer, nrec, chunkerVars>>

\* _finalize_stop(): join the buffer as it is NOW and publish it.
FinalizeStop ==
  /\ Runs("finalize")
  /\ Schedules(<<[kind |-> "stopped", id |-> Head(ready).id,
                  flush |-> FALSE, data |-> buffer]>>)
  /\ UNCHANGED <<captureVars, chunkerVars>>

\* Mutant: cancel_recording() leaves the buffer to the next start.
CancelKeepsAudio ==
  /\ recording' = FALSE
  /\ CallSoon((IF recording /\ Streaming
                 THEN <<StopCall("stop_spawn", FALSE)>> ELSE <<>>)
              \o <<Callback("cancel", 0)>>)
  /\ UNCHANGED <<buffer, nrec, nstop, stopper, chunkerVars>>

\* cancel_recording(): discard the buffer; stop the chunker without a flush.
\* on_hotkey then schedules Orchestrator.cancel.
CancelRecording ==
  /\ recording' = FALSE
  /\ buffer' = <<>>
  /\ CallSoon((IF recording /\ Streaming
                 THEN <<StopCall("stop_spawn", FALSE)>> ELSE <<>>)
              \o <<Callback("cancel", 0)>>)
  /\ UNCHANGED <<nrec, nstop, stopper, chunkerVars>>

\* _audio_callback while recording: the block goes into the buffer and, once
\* the chunker has started, to the chunker.  The thread is busy while it is
\* itself inside stop_recording.
AudioBlock ==
  LET block == <<nrec, Len(buffer) + 1>>
  IN
  /\ recording /\ stopper["audio"] = "out"
  /\ Len(buffer) < MaxBlocks
  /\ buffer' = Append(buffer, block)
  /\ chunkBuf' = IF Streaming /\ running THEN Append(chunkBuf, block)
                                         ELSE chunkBuf
  /\ UNCHANGED <<recording, nrec, nstop, stopper, ready,
                 running, loopTask, loopPc, stopWaits>>

=============================================================================
