---------------------------- MODULE Orchestrator ----------------------------
(***************************************************************************)
(* core/orchestrator.py: the dictation pipeline ASR -> cleanup -> insertion*)
(* with its retries, fallbacks, streaming coordinator, cancellation and    *)
(* error timer.  Each RecordingStopped event starts one pipeline task;     *)
(* nothing stops two of them from being in flight at once, so a pipeline   *)
(* has local variables and shares the orchestrator's fields with the rest. *)
(*                                                                         *)
(* Every action below is one uninterrupted run of a task, from one "await" *)
(* to the next.                                                            *)
(***************************************************************************)
EXTENDS EventLoop, AppStateMachine, FiniteSets

CONSTANTS StreamingASR,       \* _streaming_enabled
          ClipboardFallback,  \* insertion.clipboard_fallback
          Outcomes            \* what the environment may do: see below

\* Outcomes of external calls other than success.
AllOutcomes ==
  {"asr",           \* transcribe_audio raises ASRError
   "stream",        \* stream_transcribe raises
   "unavailable",   \* cleanup provider reports is_available() = False
   "cleanup",       \* rewrite raises CleanupError
   "keyboard",      \* keyboard insertion fails
   "clipboard"}     \* clipboard insertion fails

ASSUME OrchestratorAssumption ==
  /\ StreamingASR \in BOOLEAN
  /\ ClipboardFallback \in BOOLEAN
  /\ Outcomes \subseteq AllOutcomes

VARIABLES
  sm,           \* the StateMachine's state
  ui,           \* the last StateChangedEvent.current published
  pc,           \* where each pipeline task is
  text,         \* its local data: the audio it transcribes, then the text
  tries,        \* failed attempts of the stage it is in
  handle,       \* _pipeline_task: a pipeline, 0 = None
  audio,        \* _current_audio_bytes: <<>> = None, <<bytes>> otherwise
  transcript,   \* _current_transcript (None and "" read the same)
  last,         \* _last_transcript
  timer,        \* _error_timer_task: "off", "armed" or "due"
  timerGen,     \* which of the timers armed so far is the current one
  streamPc,     \* _stream_task: where it is, "none" = no task
  streamGen,    \* which of the stream tasks created so far that is
  streamGot,    \* the audio it has consumed
  streamQueue,  \* _stream_queue; End is the _STREAM_END sentinel
  finalSet,     \* _stream_final_event.is_set()
  finalSeg,     \* _stream_final_segment: <<>> = None, <<text>> otherwise
  out,          \* history: the insertions made, in order
  failed        \* history: pipelines that emitted a non-recoverable error

sharedVars == <<sm, ui, handle, audio, transcript, last>>
timerVars  == <<timer, timerGen>>
streamVars == <<streamPc, streamGen, streamGot, streamQueue, finalSet, finalSeg>>
pipeVars   == <<pc, text, tries>>
historyVars == <<out, failed>>
orchestratorVars == <<sharedVars, timerVars, streamVars, pipeVars, historyVars>>

End == <<0, 0>>

PipePcs ==
  {"none", "new",            \* task not created; first step queued
   "stream", "streamed",     \* awaiting _stream_final_event; woken by it
   "asr", "asrPause",        \* awaiting transcribe_audio; sleeping to retry
   "clean", "cleanPause",    \* awaiting rewrite; sleeping to retry
   "insert", "undo", "clip", \* awaiting insert, undo_last, clipboard insert
   "killed", "cancelled",    \* CancelledError pending, before / after step 1
   "ended", "gone"}          \* task done; its handler has returned

\* Suspended on something outside the loop thread.
Awaiting == {"asr", "asrPause", "clean", "cleanPause", "insert", "undo", "clip"}
Inserting == {"insert", "undo", "clip"}
InFlight == PipePcs \ {"none", "ended", "gone"}

SharedTypeOK ==
  /\ sm \in AppStates
  /\ ui \in AppStates
  /\ handle \in 0..MaxPipes
  /\ audio \in Seq(Audio) /\ Len(audio) <= 1
  /\ transcript \in Audio
  /\ last \in Audio

TimerTypeOK == timer \in {"off", "armed", "due"} /\ timerGen \in Nat

StreamTypeOK ==
  /\ streamPc \in {"none", "new", "waiting", "woken", "final", "finalDue", "done"}
  /\ streamGen \in Nat
  /\ streamGot \in Audio
  /\ streamQueue \in Seq(Block \union {End})
  /\ finalSet \in BOOLEAN
  /\ finalSeg \in Seq(Audio) /\ Len(finalSeg) <= 1

PipeTypeOK ==
  /\ pc \in [Pipes -> PipePcs]
  /\ text \in [Pipes -> Audio]
  /\ tries \in [Pipes -> 0..1]

HistoryTypeOK ==
  /\ out \in Seq([pipe : Pipes, text : Audio])
  /\ failed \subseteq Pipes

OrchestratorTypeOK ==
  SharedTypeOK /\ TimerTypeOK /\ StreamTypeOK /\ PipeTypeOK /\ HistoryTypeOK

OrchestratorInit ==
  /\ sm = "idle" /\ ui = "idle"
  /\ pc = [p \in Pipes |-> "none"]
  /\ text = [p \in Pipes |-> <<>>]
  /\ tries = [p \in Pipes |-> 0]
  /\ handle = 0 /\ audio = <<>> /\ transcript = <<>> /\ last = <<>>
  /\ timer = "off" /\ timerGen = 0
  /\ streamPc = "none" /\ streamGen = 0 /\ streamGot = <<>>
  /\ streamQueue = <<>> /\ finalSet = FALSE /\ finalSeg = <<>>
  /\ out = <<>> /\ failed = {}


-----------------------------------------------------------------------------
\* Pieces of a step.

\* The pipeline's next step.
Wake(p) == Callback("pipeline", p)

Step(p) == Runs("pipeline") /\ Head(ready).id = p

\* _reset_streaming_state(): drop the stream task (a pending step of it finds
\* CancelledError and does nothing more), the final segment and the queue.
ResetStreaming ==
  /\ streamPc' = "none" /\ streamGot' = <<>> /\ streamQueue' = <<>>
  /\ finalSet' = FALSE /\ finalSeg' = <<>>
  /\ UNCHANGED streamGen

\* _emit_error(recoverable=False): publish, and re-arm the error timer.
EmitFatal(p) ==
  /\ failed' = failed \union {p}
  /\ timer' = "armed"
  /\ timerGen' = timerGen + 1

NoError == UNCHANGED <<timer, timerGen, failed>>

\* The pipeline suspends at stage.
Awaits(p, stage) ==
  /\ pc' = [pc EXCEPT ![p] = stage]
  /\ Schedules(<<>>)
  /\ UNCHANGED streamVars

\* The pipeline returns or unwinds: its "finally" resets the streaming state,
\* whoever it belongs to by now, and its handler is resumed.
Ends(p) ==
  /\ pc' = [pc EXCEPT ![p] = "ended"]
  /\ Schedules(<<Callback("joined", p)>>)
  /\ ResetStreaming

\* _run_cleanup() up to its first await, given the transcript t and the state s
\* it starts in.  (Vocabulary, snippets, commands and vision are not modelled
\* here: they leave t and the state as they are when switched off.)
BeginsCleanup(p, t, s) ==
  /\ text' = [text EXCEPT ![p] = t]
  /\ tries' = [tries EXCEPT ![p] = 0]
  /\ Schedules(<<>>)
  /\ \/ /\ pc' = [pc EXCEPT ![p] = "clean"]
        /\ sm' = s
     \/ /\ "unavailable" \in Outcomes
        /\ pc' = [pc EXCEPT ![p] = "insert"]
        /\ sm' = Fire(s, "cleanup_failed")

\* The StateChangedEvent a final transcript publishes.
AnnouncesTranscript ==
  ui' = IF Matches(sm, "transcript") THEN Fire(sm, "transcript") ELSE ui

-----------------------------------------------------------------------------
\* Event handlers.

\* prepare_for_recording()
Prepare ==
  /\ Runs("prepare")
  /\ ResetStreaming
  /\ Schedules(<<>>)
  /\ UNCHANGED <<sharedVars, timerVars, pipeVars, historyVars>>

\* Mutant: the audio is appended to what is there, not assigned.
AppendsAudio ==
  LET p == Head(ready).id
  IN /\ Runs("stopped")
     /\ audio' = Append(audio, Head(ready).data)
     /\ sm' = "transcribing" /\ ui' = "transcribing"
     /\ pc' = [pc EXCEPT ![p] = "new"]
     /\ handle' = p
     /\ Schedules(<<Wake(p)>>)
     /\ UNCHANGED <<transcript, last, text, tries,
                    timerVars, streamVars, historyVars>>

\* _on_recording_stopped(), up to "await self._pipeline_task".
OnRecordingStopped ==
  LET p  == Head(ready).id
      s1 == IF sm = "idle" THEN Fire(sm, "toggle") ELSE sm
      s2 == IF s1 = "recording" THEN Fire(s1, "duration") ELSE s1
  IN /\ Runs("stopped")
     /\ audio' = <<Head(ready).data>>
     /\ sm' = s2
     /\ ui' = IF s2 # sm THEN s2 ELSE ui
     /\ pc' = [pc EXCEPT ![p] = "new"]
     /\ handle' = p
     /\ Schedules(<<Wake(p)>>)
     /\ UNCHANGED <<transcript, last, text, tries,
                    timerVars, streamVars, historyVars>>

\* _on_recording_stopped(), after the await: "finally: _pipeline_task = None",
\* whichever pipeline that names by now.
OnPipelineDone ==
  /\ Runs("joined")
  /\ handle' = 0
  /\ pc' = [pc EXCEPT ![Head(ready).id] = "gone"]
  /\ Schedules(<<>>)
  /\ UNCHANGED <<sm, ui, audio, transcript, last, text, tries,
                 timerVars, streamVars, historyVars>>

\* Mutant: cancel() resets the streaming state but not the pipeline.
CancelSparesPipeline ==
  /\ Runs("cancel")
  /\ Schedules(<<>>)
  /\ ResetStreaming
  /\ audio' = <<>> /\ transcript' = <<>>
  /\ sm' = "idle"
  /\ UNCHANGED <<pc, out, ui, handle, last, text, tries, timerVars, failed>>

\* cancel(): the task in _pipeline_task gets CancelledError at its next step.
\* An insertion already handed to the input thread may still be typed.
Cancel ==
  LET p == handle
      live == p # 0 /\ pc[p] \in InFlight
  IN /\ Runs("cancel")
     /\ IF live
          THEN /\ pc' = [pc EXCEPT ![p] =
                           IF @ \in {"new", "killed"} THEN "killed"
                                                      ELSE "cancelled"]
               /\ Schedules(IF Queued(Wake(p)) THEN <<>> ELSE <<Wake(p)>>)
               /\ \/ UNCHANGED out
                  \/ /\ pc[p] \in {"insert", "clip"} /\ text[p] # <<>>
                     /\ out' = Append(out, [pipe |-> p, text |-> text[p]])
          ELSE /\ Schedules(<<>>)
               /\ UNCHANGED <<pc, out>>
     /\ ResetStreaming
     /\ audio' = <<>> /\ transcript' = <<>>
     /\ sm' = "idle"
     /\ UNCHANGED <<ui, handle, last, text, tries, timerVars, failed>>

-----------------------------------------------------------------------------
\* Streaming ASR.

\* The first waiting reader of the queue is woken by a put.
PutWakes == streamPc = "waiting"

\* _on_audio_chunk(): start the stream task on the first chunk; queue the audio,
\* and the sentinel after a flush.
OnAudioChunk ==
  LET c == Head(ready)
      lazyStart == ~c.flush /\ streamPc = "none"
  IN /\ Runs("chunk") /\ StreamingASR
     /\ streamQueue' = streamQueue \o c.data
                         \o (IF c.flush THEN <<End>> ELSE <<>>)
     /\ streamGen' = IF lazyStart THEN streamGen + 1 ELSE streamGen
     /\ streamPc' = IF lazyStart THEN "new"
                    ELSE IF PutWakes THEN "woken" ELSE streamPc
     /\ Schedules(IF lazyStart \/ PutWakes
                    THEN <<Callback("stream", streamGen')>> ELSE <<>>)
     /\ UNCHANGED <<streamGot, finalSet, finalSeg, sharedVars, timerVars,
                    pipeVars, historyVars>>

\* ... which ignores the chunk when the provider does not stream.
IgnoreAudioChunk ==
  /\ Runs("chunk") /\ ~StreamingASR
  /\ Schedules(<<>>)
  /\ UNCHANGED orchestratorVars

\* A step of the current stream task, not of one cancelled since.
StreamStep(pcs) ==
  Runs("stream") /\ Head(ready).id = streamGen /\ streamPc \in pcs

\* A step of a cancelled stream task: CancelledError, which skips the set().
StreamUnwinds ==
  /\ Runs("stream")
  /\ Head(ready).id # streamGen \/ streamPc = "none"
  /\ Schedules(<<>>)
  /\ UNCHANGED orchestratorVars

\* The waiters of _stream_final_event, in the order their tasks were created.
Waiters == {p \in Pipes : pc[p] = "stream"}
Ascending(S) ==
  {q \in [1..Cardinality(S) -> S] : \A i, j \in 1..Cardinality(S) :
                                      i < j => q[i] < q[j]}

\* _run_streaming_asr() returns: "_stream_final_event.set()" wakes the waiters.
StreamEnds(seg) ==
  /\ streamPc' = "done"
  /\ finalSeg' = seg
  /\ finalSet' = TRUE
  /\ pc' = [p \in Pipes |-> IF p \in Waiters THEN "streamed" ELSE pc[p]]
  /\ \E q \in Ascending(Waiters) :
       Schedules([i \in 1..Len(q) |-> Wake(q[i])])

\* The stream task takes all that is queued and waits for more.
StreamConsumes ==
  /\ StreamStep({"new", "woken"})
  /\ \A i \in 1..Len(streamQueue) : streamQueue[i] # End
  /\ streamGot' = streamGot \o streamQueue
  /\ streamQueue' = <<>>
  /\ streamPc' = "waiting"
  /\ IF streamPc = "new" THEN finalSet' = FALSE /\ finalSeg' = <<>>
                         ELSE UNCHANGED <<finalSet, finalSeg>>
  /\ Schedules(<<>>)
  /\ UNCHANGED <<streamGen, sharedVars, timerVars, pipeVars, historyVars>>

\* It meets the sentinel: the final pass over the audio starts, or there is
\* nothing to transcribe and the final segment is "".
StreamReachesEnd ==
  /\ StreamStep({"new", "woken"})
  /\ \E n \in 1..Len(streamQueue) :
       /\ streamQueue[n] = End
       /\ \A i \in 1..(n - 1) : streamQueue[i] # End
       /\ streamGot' = streamGot \o SubSeq(streamQueue, 1, n - 1)
       /\ streamQueue' = SubSeq(streamQueue, n + 1, Len(streamQueue))
  /\ IF streamGot' = <<>>
       THEN StreamEnds(<<<<>>>>)
       ELSE /\ streamPc' = "final"
            /\ IF streamPc = "new" THEN finalSet' = FALSE /\ finalSeg' = <<>>
                                   ELSE UNCHANGED <<finalSet, finalSeg>>
            /\ Schedules(<<>>)
            /\ UNCHANGED pc
  /\ UNCHANGED <<streamGen, text, tries, sharedVars, timerVars, historyVars>>

\* The final pass completes, outside the loop thread.
StreamPassDone ==
  /\ streamPc = "final"
  /\ streamPc' = "finalDue"
  /\ CallSoon(<<Callback("stream", streamGen)>>)
  /\ UNCHANGED <<streamGen, streamGot, streamQueue, finalSet, finalSeg,
                 sharedVars, timerVars, pipeVars, historyVars>>

\* Its result is the final segment.
StreamFinal ==
  /\ StreamStep({"finalDue"})
  /\ StreamEnds(<<streamGot>>)
  /\ UNCHANGED <<streamGen, streamGot, streamQueue, text, tries,
                 sharedVars, timerVars, historyVars>>

\* stream_transcribe raises: no final segment.
StreamFails ==
  /\ "stream" \in Outcomes
  /\ StreamStep({"new", "finalDue"})
  /\ StreamEnds(<<>>)
  /\ UNCHANGED <<streamGen, streamGot, streamQueue, text, tries,
                 sharedVars, timerVars, historyVars>>

-----------------------------------------------------------------------------
\* The pipeline: _run_pipeline() and the methods it awaits.

\* Its first step finds a stream task, or no stream task.
FindsStream(p) == pc[p] = "new" /\ StreamingASR /\ streamPc # "none"
FindsNone(p)   == pc[p] = "new" /\ ~(StreamingASR /\ streamPc # "none")

\* "await self._stream_final_event.wait()" suspends ...
WaitsForStream(p) ==
  /\ Step(p) /\ FindsStream(p) /\ ~finalSet
  /\ Awaits(p, "stream")
  /\ NoError
  /\ UNCHANGED <<sharedVars, text, tries, out>>

\* ... and is over, because the event was set or has woken the pipeline.
StreamOver(p) == pc[p] = "streamed" \/ (FindsStream(p) /\ finalSet)

\* The final segment is the transcript.
TakesStreamed(p) ==
  /\ Step(p) /\ StreamOver(p) /\ finalSeg # <<>>
  /\ finalSet' = FALSE
  /\ transcript' = finalSeg[1]
  /\ AnnouncesTranscript
  /\ BeginsCleanup(p, finalSeg[1], Fire(sm, "transcript"))
  /\ NoError
  /\ UNCHANGED <<handle, audio, last, out,
                 streamPc, streamGen, streamGot, streamQueue, finalSeg>>

\* _run_asr() is entered: batch mode, or streaming without a final segment.
EntersAsr(p) == FindsNone(p) \/ (StreamOver(p) /\ finalSeg = <<>>)

\* It reads _current_audio_bytes and awaits transcribe_audio.
CallsAsr(p) ==
  /\ Step(p) /\ EntersAsr(p) /\ audio # <<>>
  /\ text' = [text EXCEPT ![p] = audio[1]]
  /\ tries' = [tries EXCEPT ![p] = 0]
  /\ pc' = [pc EXCEPT ![p] = "asr"]
  /\ finalSet' = IF StreamOver(p) THEN FALSE ELSE finalSet
  /\ Schedules(<<>>)
  /\ NoError
  /\ UNCHANGED <<sharedVars, out,
                 streamPc, streamGen, streamGot, streamQueue, finalSeg>>

\* "assert self._current_audio_bytes is not None" fails: an unhandled pipeline
\* error is emitted, and the state machine is not told.
AsrHasNoAudio(p) ==
  /\ Step(p) /\ EntersAsr(p) /\ audio = <<>>
  /\ EmitFatal(p)
  /\ Ends(p)
  /\ UNCHANGED <<sharedVars, text, tries, out>>

\* Mutant: a provider that swallows CancelledError and returns.
AsrReturnsDespiteCancel(p) ==
  /\ Step(p) /\ pc[p] \in {"asr", "cancelled"}
  /\ transcript' = text[p]
  /\ AnnouncesTranscript
  /\ BeginsCleanup(p, text[p], Fire(sm, "transcript"))
  /\ NoError
  /\ UNCHANGED <<handle, audio, last, out, streamVars>>

\* transcribe_audio returns.
AsrReturns(p) ==
  /\ Step(p) /\ pc[p] = "asr"
  /\ transcript' = text[p]
  /\ AnnouncesTranscript
  /\ BeginsCleanup(p, text[p], Fire(sm, "transcript"))
  /\ NoError
  /\ UNCHANGED <<handle, audio, last, out, streamVars>>

\* Mutant: the attempts are not counted.
PausesForever(p, stage, pause, outcome) ==
  /\ outcome \in Outcomes
  /\ Step(p) /\ pc[p] = stage /\ text[p] # <<>>
  /\ Awaits(p, pause)
  /\ NoError
  /\ UNCHANGED <<sharedVars, text, tries, out>>

\* A failed call of a stage that has a retry left: sleep.
Pauses(p, stage, pause, outcome) ==
  /\ outcome \in Outcomes
  /\ Step(p) /\ pc[p] = stage /\ tries[p] = 0 /\ text[p] # <<>>
  /\ tries' = [tries EXCEPT ![p] = 1]
  /\ Awaits(p, pause)
  /\ NoError
  /\ UNCHANGED <<sharedVars, text, out>>

\* The sleep is over: call again.
Retries(p, stage, pause) ==
  /\ Step(p) /\ pc[p] = pause
  /\ Awaits(p, stage)
  /\ NoError
  /\ UNCHANGED <<sharedVars, text, tries, out>>

\* Mutant: the state machine is not told.
AsrExhaustedUntold(p) ==
  /\ "asr" \in Outcomes
  /\ Step(p) /\ pc[p] = "asr" /\ tries[p] = 1
  /\ EmitFatal(p)
  /\ BeginsCleanup(p, transcript, sm)
  /\ UNCHANGED <<ui, handle, audio, transcript, last, out, streamVars>>

\* transcribe_audio failed twice: the error is emitted, _run_asr RETURNS, and
\* the pipeline goes on with whatever _current_transcript holds.
AsrExhausted(p) ==
  /\ "asr" \in Outcomes
  /\ Step(p) /\ pc[p] = "asr" /\ tries[p] = 1
  /\ EmitFatal(p)
  /\ BeginsCleanup(p, transcript, Fire(sm, "asr_failed"))
  /\ UNCHANGED <<ui, handle, audio, transcript, last, out, streamVars>>

\* The cleanup stage is over, with the rewritten or the raw text: insert() is
\* called.
EntersInsertion(p, e) ==
  /\ sm' = Fire(sm, e)
  /\ Awaits(p, "insert")
  /\ NoError
  /\ UNCHANGED <<ui, handle, audio, transcript, last, text, tries, out>>

CleanupReturns(p) ==
  /\ Step(p) /\ pc[p] = "clean"
  /\ EntersInsertion(p, "cleaned")

\* rewrite() failed twice: fall back to the raw transcript.
CleanupExhausted(p) ==
  /\ "cleanup" \in Outcomes
  /\ Step(p) /\ pc[p] = "clean" /\ tries[p] = 1
  /\ EntersInsertion(p, "cleanup_failed")

\* An insertion succeeded: remember it, and announce idle whatever the state
\* machine makes of it.  Inserting "" succeeds without typing.
Inserted(p, e) ==
  /\ out' = IF text[p] = <<>> THEN out
            ELSE Append(out, [pipe |-> p, text |-> text[p]])
  /\ last' = text[p]
  /\ sm' = Fire(sm, e)
  /\ ui' = "idle"
  /\ Ends(p)
  /\ NoError
  /\ UNCHANGED <<handle, audio, transcript, text, tries>>

\* Mutant: no return after a success, so the clipboard fallback follows.
InsertFallsThrough(p) ==
  /\ Step(p) /\ pc[p] = "insert"
  /\ out' = IF text[p] = <<>> THEN out
            ELSE Append(out, [pipe |-> p, text |-> text[p]])
  /\ last' = text[p]
  /\ sm' = Fire(sm, "inserted")
  /\ ui' = "idle"
  /\ Awaits(p, "undo")
  /\ NoError
  /\ UNCHANGED <<handle, audio, transcript, text, tries>>

InsertReturns(p) ==
  /\ Step(p) /\ pc[p] = "insert"
  /\ Inserted(p, "inserted")

\* Keyboard insertion failed: undo what was typed, then try the clipboard.
InsertFallsBack(p) ==
  /\ "keyboard" \in Outcomes /\ ClipboardFallback
  /\ Step(p) /\ pc[p] = "insert" /\ text[p] # <<>>
  /\ Awaits(p, "undo")
  /\ NoError
  /\ UNCHANGED <<sharedVars, text, tries, out>>

UndoReturns(p) ==
  /\ Step(p) /\ pc[p] = "undo"
  /\ Awaits(p, "clip")
  /\ NoError
  /\ UNCHANGED <<sharedVars, text, tries, out>>

ClipboardReturns(p) ==
  /\ Step(p) /\ pc[p] = "clip"
  /\ Inserted(p, "clipboard")

\* The last way to insert has failed.
InsertionFails(p) ==
  /\ \/ "keyboard" \in Outcomes /\ ~ClipboardFallback /\ pc[p] = "insert"
     \/ "clipboard" \in Outcomes /\ pc[p] = "clip"
  /\ Step(p) /\ text[p] # <<>>
  /\ sm' = Fire(sm, "insert_failed")
  /\ EmitFatal(p)
  /\ Ends(p)
  /\ UNCHANGED <<ui, handle, audio, transcript, last, text, tries, out>>

\* CancelledError: before the first step no "finally" runs.
Unwinds(p) ==
  /\ Step(p)
  /\ \/ pc[p] = "cancelled" /\ Ends(p)
     \/ /\ pc[p] = "killed"
        /\ pc' = [pc EXCEPT ![p] = "ended"]
        /\ Schedules(<<Callback("joined", p)>>)
        /\ UNCHANGED streamVars
  /\ NoError
  /\ UNCHANGED <<sharedVars, text, tries, out>>

PipelineStep(p) ==
  \/ WaitsForStream(p) \/ TakesStreamed(p) \/ CallsAsr(p) \/ AsrHasNoAudio(p)
  \/ AsrReturns(p)
  \/ Pauses(p, "asr", "asrPause", "asr") \/ Retries(p, "asr", "asrPause")
  \/ AsrExhausted(p)
  \/ CleanupReturns(p)
  \/ Pauses(p, "clean", "cleanPause", "cleanup")
  \/ Retries(p, "clean", "cleanPause")
  \/ CleanupExhausted(p)
  \/ InsertReturns(p) \/ InsertFallsBack(p) \/ UndoReturns(p)
  \/ ClipboardReturns(p) \/ InsertionFails(p)
  \/ Unwinds(p)

\* What the pipeline awaits completes, off the loop thread.
Completes(p) ==
  /\ pc[p] \in Awaiting /\ ~Queued(Wake(p))
  /\ CallSoon(<<Wake(p)>>)
  /\ UNCHANGED orchestratorVars

-----------------------------------------------------------------------------
\* The error timer.

TimerElapses ==
  /\ timer = "armed"
  /\ timer' = "due"
  /\ CallSoon(<<Callback("error_timer", timerGen)>>)
  /\ UNCHANGED <<timerGen, sharedVars, streamVars, pipeVars, historyVars>>

\* Mutant: a superseded timer is not cancelled, and ends its successor.
AnyTimerFires ==
  /\ Runs("error_timer")
  /\ timer' = "off"
  /\ Schedules(<<>>)
  /\ UNCHANGED <<sharedVars, timerGen, streamVars, pipeVars, historyVars>>

\* _timeout() after its sleep; a timer cancelled by a later error does nothing.
TimerFires ==
  LET current == timer = "due" /\ Head(ready).id = timerGen
  IN /\ Runs("error_timer")
     /\ timer' = IF current THEN "off" ELSE timer
     /\ IF current /\ sm = "error"
          THEN /\ sm' = Fire(sm, "timeout")
               /\ ui' = "idle"
               /\ audio' = <<>> /\ transcript' = <<>>
          ELSE UNCHANGED <<sm, ui, audio, transcript>>
     /\ Schedules(<<>>)
     /\ UNCHANGED <<timerGen, handle, last, streamVars, pipeVars, historyVars>>

=============================================================================
