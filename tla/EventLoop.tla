----------------------------- MODULE EventLoop -----------------------------
(***************************************************************************)
(* The single asyncio loop thread every component runs its callbacks on    *)
(* (core/async_loop.py), and how the event bus reaches it                  *)
(* (core/event_bus.py).                                                    *)
(*                                                                         *)
(* The loop is a FIFO of callbacks.  A callback or one step of a task (up  *)
(* to its next suspension) runs to completion before the next one starts.  *)
(* loop.call_soon_threadsafe() appends one callback.  A coroutine handler  *)
(* of a bus event published ON the loop becomes a task whose first step is *)
(* appended (create_task); run_coroutine_threadsafe() from another thread  *)
(* needs two hops, one to create the task and one for its first step.      *)
(***************************************************************************)
EXTENDS Naturals, Sequences

CONSTANTS MaxRecs,      \* bound: recordings the user starts
          MaxBlocks,    \* bound: audio blocks heard in a recording
          MaxPipes      \* bound: RecordingStopped events, hence pipelines

ASSUME BoundsAssumption ==
  MaxRecs \in Nat \ {0} /\ MaxBlocks \in Nat /\ MaxPipes \in Nat \ {0}

VARIABLE ready          \* callbacks the loop has yet to run, oldest first

Recs  == 1..MaxRecs
Pipes == 1..MaxPipes

\* Audio is a sequence of blocks <<r, n>>, the n-th block heard in recording r;
\* a transcript stands for the audio it was made from.
Block == Recs \X (1..MaxBlocks)
Audio == Seq(Block)

Kinds ==
  {"prepare",        \* Orchestrator.prepare_for_recording
   "cancel",         \* Orchestrator.cancel
   "chunker_start",  \* AudioChunker.start
   "stop_spawn",     \* run_coroutine_threadsafe(chunker.stop()): make the task
   "stop_begin",     \* AudioChunker.stop, first step
   "stop_resume",    \* AudioChunker.stop, after "await self._task"
   "chunk_loop",     \* a step of AudioChunker._chunk_loop
   "finalize",       \* AudioCapture._finalize_stop
   "chunk",          \* Orchestrator._on_audio_chunk
   "stopped",        \* Orchestrator._on_recording_stopped, up to its await
   "joined",         \* Orchestrator._on_recording_stopped, after its await
   "pipeline",       \* a step of Orchestrator._run_pipeline
   "stream",         \* a step of Orchestrator._run_streaming_asr
   "error_timer"}    \* _schedule_error_timeout._timeout, after its sleep

\* id: the task, or the recording; flush and data: the event's payload.
Callbacks ==
  {c \in [kind : Kinds, id : Nat, flush : BOOLEAN, data : Audio] :
     c.kind \in {"finalize", "stopped"} => c.id \in Pipes}

Callback(k, n) == [kind |-> k, id |-> n, flush |-> FALSE, data |-> <<>>]

\* The loop is about to run a callback of kind k.
Runs(k) == ready # <<>> /\ Head(ready).kind = k

\* ... it runs it, and the step schedules the callbacks new.
Schedules(new) == ready' = Tail(ready) \o new

\* Another thread (or the loop's own I/O and timers) schedules new.
CallSoon(new) == ready' = ready \o new

Queued(c) == \E i \in 1..Len(ready) : ready[i] = c

=============================================================================
