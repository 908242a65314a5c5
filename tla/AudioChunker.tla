---------------------------- MODULE AudioChunker ----------------------------
(***************************************************************************)
(* audio/chunker.py: the buffer that turns live audio into AudioChunkEvents*)
(* for streaming ASR.  One task per start() sleeps and publishes the bytes *)
(* that arrived since its last emission; stop() cancels the task, waits    *)
(* for it and publishes the tail as a flush event.                         *)
(***************************************************************************)
EXTENDS EventLoop

VARIABLES running,    \* _running
          chunkBuf,   \* _buffer: audio not yet emitted
          loopTask,   \* _task: the recording whose start() made it, 0 = None
          loopPc,     \* the chunk-loop task of each start()
          stopWaits   \* stop() calls suspended in "await self._task": their flush

chunkerVars == <<running, chunkBuf, loopTask, loopPc, stopWaits>>

LoopPcs ==
  {"none",        \* not created
   "new",         \* created, first step queued
   "sleeping",    \* in asyncio.sleep
   "due",         \* slept, step queued
   "cancelled",   \* CancelledError pending, step queued
   "done"}

ChunkerTypeOK ==
  /\ running \in BOOLEAN
  /\ chunkBuf \in Audio
  /\ loopTask \in 0..MaxRecs
  /\ loopPc \in [Recs -> LoopPcs]
  /\ stopWaits \in [Recs -> Seq(BOOLEAN)]

ChunkerInit ==
  /\ running = FALSE
  /\ chunkBuf = <<>>
  /\ loopTask = 0
  /\ loopPc = [r \in Recs |-> "none"]
  /\ stopWaits = [r \in Recs |-> <<>>]

ChunkEvent(flush, data) ==
  [kind |-> "chunk", id |-> 0, flush |-> flush, data |-> data]

StopCall(k, flush) == [Callback(k, 0) EXCEPT !.flush = flush]

\* start(): a fresh buffer and a fresh loop task.
Start(r) ==
  /\ Runs("chunker_start") /\ Head(ready).id = r
  /\ running' = TRUE
  /\ chunkBuf' = <<>>
  /\ loopTask' = r
  /\ loopPc' = [loopPc EXCEPT ![r] = "new"]
  /\ Schedules(<<Callback("chunk_loop", r)>>)
  /\ UNCHANGED stopWaits

\* The stop() calls waiting for task r resume when it ends.
Resumed(r) ==
  [i \in 1..Len(stopWaits[r]) |-> StopCall("stop_resume", stopWaits[r][i])]

\* The loop task ends: cancelled, or it saw _running = False.
LoopEnds(r) ==
  /\ Runs("chunk_loop") /\ Head(ready).id = r
  /\ loopPc[r] = "cancelled" \/ ~running
  /\ loopPc' = [loopPc EXCEPT ![r] = "done"]
  /\ stopWaits' = [stopWaits EXCEPT ![r] = <<>>]
  /\ Schedules(Resumed(r))
  /\ UNCHANGED <<running, chunkBuf, loopTask>>

\* The loop task goes (back) to sleep, after emitting the delta if there is one.
LoopSleeps(r) ==
  /\ Runs("chunk_loop") /\ Head(ready).id = r
  /\ loopPc[r] \in {"new", "due"} /\ running
  /\ loopPc' = [loopPc EXCEPT ![r] = "sleeping"]
  /\ IF loopPc[r] = "due" /\ chunkBuf # <<>>
       THEN /\ chunkBuf' = <<>>
            /\ Schedules(<<ChunkEvent(FALSE, chunkBuf)>>)
       ELSE /\ UNCHANGED chunkBuf
            /\ Schedules(<<>>)
  /\ UNCHANGED <<running, loopTask, stopWaits>>

\* The chunk interval elapses.
LoopTick(r) ==
  /\ loopPc[r] = "sleeping"
  /\ loopPc' = [loopPc EXCEPT ![r] = "due"]
  /\ CallSoon(<<Callback("chunk_loop", r)>>)
  /\ UNCHANGED <<running, chunkBuf, loopTask, stopWaits>>

\* stop() has no live task to await.
NothingToAwait == IF loopTask = 0 THEN TRUE ELSE loopPc[loopTask] = "done"

\* run_coroutine_threadsafe has reached the loop: the stop() task is created.
StopSpawn ==
  /\ Runs("stop_spawn")
  /\ Schedules(<<StopCall("stop_begin", Head(ready).flush)>>)
  /\ UNCHANGED chunkerVars

\* stop(), up to "await self._task": cancel the loop task that _task names now.
StopBegin ==
  /\ Runs("stop_begin")
  /\ ~NothingToAwait
  /\ running' = FALSE
  /\ loopPc' = [loopPc EXCEPT ![loopTask] = "cancelled"]
  /\ stopWaits' = [stopWaits EXCEPT ![loopTask] = Append(@, Head(ready).flush)]
  /\ Schedules(IF loopPc[loopTask] = "sleeping"
                 THEN <<Callback("chunk_loop", loopTask)>> ELSE <<>>)
  /\ UNCHANGED <<chunkBuf, loopTask>>

\* Mutant: the flush event goes out before the tail is added to it.
StopFlushesNothing ==
  /\ \/ Runs("stop_resume") /\ UNCHANGED running
     \/ Runs("stop_begin") /\ NothingToAwait /\ running' = FALSE
  /\ loopTask' = 0
  /\ Schedules(IF Head(ready).flush THEN <<ChunkEvent(TRUE, <<>>)>> ELSE <<>>)
  /\ UNCHANGED <<chunkBuf, loopPc, stopWaits>>

\* Mutant: the flush event is published only when there is a tail.
StopFlushesTailOnly ==
  /\ \/ Runs("stop_resume") /\ UNCHANGED running
     \/ Runs("stop_begin") /\ NothingToAwait /\ running' = FALSE
  /\ loopTask' = 0
  /\ IF Head(ready).flush /\ chunkBuf # <<>>
       THEN chunkBuf' = <<>> /\ Schedules(<<ChunkEvent(TRUE, chunkBuf)>>)
       ELSE UNCHANGED chunkBuf /\ Schedules(<<>>)
  /\ UNCHANGED <<loopPc, stopWaits>>

\* The rest of stop(): forget the task, flush the tail.  Reached when the
\* awaited task ends, or at once when there is nothing to wait for.
StopFinish ==
  /\ \/ Runs("stop_resume") /\ UNCHANGED running
     \/ Runs("stop_begin") /\ NothingToAwait /\ running' = FALSE
  /\ loopTask' = 0
  /\ IF Head(ready).flush
       THEN /\ chunkBuf' = <<>>
            /\ Schedules(<<ChunkEvent(TRUE, chunkBuf)>>)
       ELSE /\ UNCHANGED chunkBuf
            /\ Schedules(<<>>)
  /\ UNCHANGED <<loopPc, stopWaits>>

=============================================================================
