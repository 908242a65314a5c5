------------------------- MODULE DictationProofs --------------------------
(***************************************************************************)
(* Theorems about Dictation, for every value of its constants.  First, for *)
(* every user: its types; the error timer is never lost; a pipeline        *)
(* inserts at most once; the machine rests in idle.  Then what it promises *)
(* a user who is patient.                                                  *)
(***************************************************************************)
EXTENDS DictationProperties, FiniteSetTheorems, SequenceTheorems, TLAPS

-----------------------------------------------------------------------------
\* The state machine.

\* An event takes the machine to the target of a rule for it, or nowhere.
LEMMA FireFollowsARule ==
  ASSUME NEW s, NEW e
  PROVE  \/ Fire(s, e) = s
         \/ \E r \in Rules : r[1] = s /\ r[2] = e /\ r[3] = Fire(s, e)
  BY DEF Fire, Matches

\* The machine stays within its states.
LEMMA FireTyped ==
  ASSUME NEW s \in AppStates, NEW e
  PROVE  Fire(s, e) \in AppStates
  <1>1. \A r \in Rules : r[3] \in AppStates
    BY DEF Rules, AppStates
  <1> QED BY <1>1, FireFollowsARule

\* Only two events enter "error".
LEMMA FireEntersError ==
  ASSUME NEW s, NEW e, Fire(s, e) = "error",
         e \notin {"asr_failed", "insert_failed"}
  PROVE  s = "error"
  <1>1. \A r \in Rules : r[3] = "error" => r[2] \in {"asr_failed", "insert_failed"}
    BY DEF Rules
  <1> QED BY <1>1, FireFollowsARule

\* The timeout leaves it.
LEMMA FireTimeout == Fire("error", "timeout") # "error"
  <1>1. <<"error", "timeout", "idle">> \in Rules
    BY DEF Rules
  <1>2. Matches("error", "timeout")
    BY <1>1 DEF Matches
  <1>3. \A r \in Rules : r[2] = "timeout" => r[3] = "idle"
    BY DEF Rules
  <1> QED BY <1>2, <1>3 DEF Fire, Matches

-----------------------------------------------------------------------------
\* The event loop.

\* The callbacks the code creates are callbacks.
LEMMA CallbackTyped ==
  ASSUME NEW k \in Kinds \ {"finalize", "stopped"}, NEW n \in Nat
  PROVE  Callback(k, n) \in Callbacks
  BY DEF Callback, Callbacks, Audio

LEMMA FinalizeTyped ==
  ASSUME NEW p \in Pipes
  PROVE  Callback("finalize", p) \in Callbacks
  BY DEF Callback, Callbacks, Audio, Kinds, Pipes

LEMMA StoppedTyped ==
  ASSUME NEW p \in Pipes, NEW d \in Audio
  PROVE  [kind |-> "stopped", id |-> p, flush |-> FALSE, data |-> d] \in Callbacks
  BY DEF Callbacks, Kinds, Pipes

LEMMA StopCallTyped ==
  ASSUME NEW k \in {"stop_spawn", "stop_begin", "stop_resume"},
         NEW f \in BOOLEAN
  PROVE  StopCall(k, f) \in Callbacks
  <1>1. StopCall(k, f) = [kind |-> k, id |-> 0, flush |-> f, data |-> <<>>]
    BY DEF StopCall, Callback
  <1>2. <<>> \in Audio
    BY DEF Audio
  <1> QED BY <1>1, <1>2 DEF Callbacks, Kinds

LEMMA ChunkEventTyped ==
  ASSUME NEW f \in BOOLEAN, NEW d \in Audio
  PROVE  ChunkEvent(f, d) \in Callbacks
  BY DEF ChunkEvent, Callbacks, Kinds

\* What is left when the oldest callback runs, and that callback.
LEMMA TailTyped ==
  ASSUME ready \in Seq(Callbacks), NEW k, Runs(k)
  PROVE  Tail(ready) \in Seq(Callbacks)
  BY DEF Runs

LEMMA AppendsTyped ==
  ASSUME NEW S, NEW q \in Seq(S)
  PROVE  /\ \A c \in S : q \o <<c>> \in Seq(S)
         /\ q \o <<>> \in Seq(S)
  OBVIOUS

LEMMA AppendTyped ==
  ASSUME NEW S, NEW q \in Seq(S), NEW c \in S
  PROVE  Append(q, c) \in Seq(S)
  OBVIOUS

LEMMA HeadTyped ==
  ASSUME ready \in Seq(Callbacks), NEW k, Runs(k)
  PROVE  /\ Head(ready) \in Callbacks
         /\ Head(ready).kind = k
         /\ Head(ready).id \in Nat
         /\ Head(ready).flush \in BOOLEAN
         /\ Head(ready).data \in Audio
         /\ k \in {"finalize", "stopped"} => Head(ready).id \in Pipes
  <1>1. Head(ready) \in Callbacks
    BY DEF Runs
  <1> QED BY <1>1 DEF Runs, Callbacks

-----------------------------------------------------------------------------
\* Type correctness.  Beyond the types, only that a recording is one of Recs.

TypeInv == TypeOK /\ (recording => nrec # 0)

LEMMA TypeInvInit == Init => TypeInv
  <1> SUFFICES ASSUME Init PROVE TypeInv
    OBVIOUS
  <1>0. <<>> \in Audio /\ <<>> \in Seq(Audio) /\ Len(<<>>) <= 1
    BY DEF Audio
  <1>1. CaptureTypeOK /\ ~recording
    <2>1. stopper \in [Threads -> StopperPcs]
      BY DEF Init, CaptureInit, StopperPcs
    <2>2. nrec \in 0..MaxRecs /\ nstop \in 0..MaxPipes
      BY BoundsAssumption DEF Init, CaptureInit
    <2> QED BY <1>0, <2>1, <2>2 DEF Init, CaptureInit, CaptureTypeOK
  <1>2. ChunkerTypeOK
    <2>1. loopPc \in [Recs -> LoopPcs]
      BY DEF Init, ChunkerInit, LoopPcs
    <2>2. stopWaits \in [Recs -> Seq(BOOLEAN)]
      BY DEF Init, ChunkerInit
    <2>3. loopTask \in 0..MaxRecs
      BY BoundsAssumption DEF Init, ChunkerInit
    <2> QED BY <1>0, <2>1, <2>2, <2>3 DEF Init, ChunkerInit, ChunkerTypeOK
  <1>3. OrchestratorTypeOK
    <2>1. /\ pc \in [Pipes -> PipePcs]
          /\ text \in [Pipes -> Audio]
          /\ tries \in [Pipes -> 0..1]
      BY <1>0 DEF Init, OrchestratorInit, PipePcs
    <2>2. sm \in AppStates /\ ui \in AppStates
      BY DEF Init, OrchestratorInit, AppStates
    <2>3. handle \in 0..MaxPipes
      BY BoundsAssumption DEF Init, OrchestratorInit
    <2>4. streamQueue \in Seq(Block \union {End})
      BY DEF Init, OrchestratorInit
    <2>5. out \in Seq([pipe : Pipes, text : Audio])
      BY DEF Init, OrchestratorInit
    <2> QED
      BY <1>0, <2>1, <2>2, <2>3, <2>4, <2>5
         DEF Init, OrchestratorInit, OrchestratorTypeOK, SharedTypeOK,
             TimerTypeOK, StreamTypeOK, PipeTypeOK, HistoryTypeOK
  <1>4. /\ ready \in Seq(Callbacks)
        /\ ncancel \in 0..MaxCancels
        /\ spoken \in [Recs -> Nat]
        /\ kept \subseteq Recs
        /\ origin \in [Pipes -> 0..MaxRecs]
        /\ revoked \subseteq Pipes /\ cut \subseteq Pipes
    BY BoundsAssumption, UserAssumption DEF Init
  <1> QED
    BY <1>1, <1>2, <1>3, <1>4 DEF TypeInv, TypeOK

LEMMA EmptyTyped == <<>> \in Seq(Callbacks) /\ <<>> \in Audio
  BY DEF Audio

\* The chunker's steps.
LEMMA StartTyped ==
  ASSUME TypeOK, NEW r \in Recs, Start(r)
  PROVE  ready' \in Seq(Callbacks) /\ ChunkerTypeOK'
  <1>1. Callback("chunk_loop", r) \in Callbacks
    BY CallbackTyped DEF Kinds, Recs
  <1>2. ready' \in Seq(Callbacks)
    BY <1>1, TailTyped DEF Schedules, Start, TypeOK
  <1> QED
    BY <1>2 DEF Start, TypeOK, ChunkerTypeOK, LoopPcs, Recs, Audio

LEMMA LoopEndsTyped ==
  ASSUME TypeOK, NEW r \in Recs, LoopEnds(r)
  PROVE  ready' \in Seq(Callbacks) /\ ChunkerTypeOK'
  <1>1. stopWaits[r] \in Seq(BOOLEAN)
    BY DEF TypeOK, ChunkerTypeOK
  <1>2. \A i \in 1..Len(stopWaits[r]) :
          StopCall("stop_resume", stopWaits[r][i]) \in Callbacks
    BY <1>1, StopCallTyped
  <1>3. Resumed(r) \in Seq(Callbacks)
    BY <1>1, <1>2 DEF Resumed
  <1>4. ready' \in Seq(Callbacks)
    BY <1>3, TailTyped DEF Schedules, LoopEnds, TypeOK
  <1> QED
    BY <1>4 DEF LoopEnds, TypeOK, ChunkerTypeOK, LoopPcs

LEMMA LoopSleepsTyped ==
  ASSUME TypeOK, NEW r \in Recs, LoopSleeps(r)
  PROVE  ready' \in Seq(Callbacks) /\ ChunkerTypeOK'
  <1>1. ChunkEvent(FALSE, chunkBuf) \in Callbacks
    BY ChunkEventTyped DEF TypeOK, ChunkerTypeOK
  <1>2. ready' \in Seq(Callbacks)
    <2>1. ready' \in {Tail(ready) \o <<ChunkEvent(FALSE, chunkBuf)>>,
                      Tail(ready) \o <<>>}
      BY DEF LoopSleeps, Schedules
    <2>2. Tail(ready) \in Seq(Callbacks)
      BY TailTyped DEF LoopSleeps, TypeOK
    <2> QED BY <1>1, <2>1, <2>2, AppendsTyped
  <1>3. chunkBuf' \in Audio
    BY EmptyTyped DEF LoopSleeps, TypeOK, ChunkerTypeOK
  <1> QED
    BY <1>2, <1>3 DEF LoopSleeps, TypeOK, ChunkerTypeOK, LoopPcs

LEMMA LoopTickTyped ==
  ASSUME TypeOK, NEW r \in Recs, LoopTick(r)
  PROVE  ready' \in Seq(Callbacks) /\ ChunkerTypeOK'
  <1>1. Callback("chunk_loop", r) \in Callbacks
    BY CallbackTyped DEF Kinds, Recs
  <1>2. ready' \in Seq(Callbacks)
    BY <1>1 DEF CallSoon, LoopTick, TypeOK
  <1> QED
    BY <1>2 DEF LoopTick, TypeOK, ChunkerTypeOK, LoopPcs

LEMMA StopSpawnTyped ==
  ASSUME TypeOK, StopSpawn
  PROVE  ready' \in Seq(Callbacks) /\ ChunkerTypeOK'
  <1>1. StopCall("stop_begin", Head(ready).flush) \in Callbacks
    BY HeadTyped, StopCallTyped DEF StopSpawn, TypeOK
  <1>2. ready' \in Seq(Callbacks)
    BY <1>1, TailTyped DEF Schedules, StopSpawn, TypeOK
  <1> QED
    BY <1>2 DEF StopSpawn, TypeOK, ChunkerTypeOK, chunkerVars

LEMMA StopBeginTyped ==
  ASSUME TypeOK, StopBegin
  PROVE  ready' \in Seq(Callbacks) /\ ChunkerTypeOK'
  <1>1. loopTask \in Recs
    BY DEF StopBegin, NothingToAwait, TypeOK, ChunkerTypeOK, Recs
  <1>2. Head(ready).flush \in BOOLEAN
    BY HeadTyped DEF StopBegin, TypeOK
  <1>3. Callback("chunk_loop", loopTask) \in Callbacks
    BY <1>1, CallbackTyped DEF Kinds, Recs
  <1>4. ready' \in Seq(Callbacks)
    BY <1>3, TailTyped, EmptyTyped DEF Schedules, StopBegin, TypeOK
  <1>5. stopWaits' \in [Recs -> Seq(BOOLEAN)]
    BY <1>1, <1>2 DEF StopBegin, TypeOK, ChunkerTypeOK
  <1> QED
    BY <1>1, <1>4, <1>5 DEF StopBegin, TypeOK, ChunkerTypeOK, LoopPcs

LEMMA StopFinishTyped ==
  ASSUME TypeOK, StopFinish
  PROVE  ready' \in Seq(Callbacks) /\ ChunkerTypeOK'
  <1>1. ChunkEvent(TRUE, chunkBuf) \in Callbacks
    BY ChunkEventTyped DEF TypeOK, ChunkerTypeOK
  <1>2. PICK k : Runs(k)
    BY DEF StopFinish
  <1>3. ready' \in Seq(Callbacks)
    <2>1. ready' \in {Tail(ready) \o <<ChunkEvent(TRUE, chunkBuf)>>,
                      Tail(ready) \o <<>>}
      BY DEF StopFinish, Schedules
    <2>2. Tail(ready) \in Seq(Callbacks)
      BY <1>2, TailTyped DEF TypeOK
    <2> QED BY <1>1, <2>1, <2>2, AppendsTyped
  <1>4. chunkBuf' \in Audio
    BY EmptyTyped DEF StopFinish, TypeOK, ChunkerTypeOK
  <1>5. running' \in BOOLEAN
    BY DEF StopFinish, TypeOK, ChunkerTypeOK
  <1>6. /\ loopTask' \in 0..MaxRecs
        /\ UNCHANGED <<loopPc, stopWaits>>
    BY BoundsAssumption DEF StopFinish
  <1> QED
    BY <1>3, <1>4, <1>5, <1>6 DEF TypeOK, ChunkerTypeOK

-----------------------------------------------------------------------------
\* The orchestrator's steps: the pieces they are made of.

\* What a step leaves alone stays typed.
LEMMA UnchangedTyped ==
  ASSUME OrchestratorTypeOK
  PROVE  /\ UNCHANGED sharedVars => SharedTypeOK'
         /\ UNCHANGED timerVars => TimerTypeOK'
         /\ UNCHANGED streamVars => StreamTypeOK'
         /\ UNCHANGED pipeVars => PipeTypeOK'
         /\ UNCHANGED historyVars => HistoryTypeOK'
  BY DEF OrchestratorTypeOK, SharedTypeOK, TimerTypeOK, StreamTypeOK, PipeTypeOK,
         HistoryTypeOK, sharedVars, timerVars, streamVars, pipeVars, historyVars

LEMMA QuietTyped ==
  ASSUME ready \in Seq(Callbacks), NEW k, Runs(k), Schedules(<<>>)
  PROVE  ready' \in Seq(Callbacks)
  BY TailTyped DEF Schedules

LEMMA OneTyped ==
  ASSUME ready \in Seq(Callbacks), NEW k, Runs(k),
         NEW c \in Callbacks, Schedules(<<c>>)
  PROVE  ready' \in Seq(Callbacks)
  BY TailTyped, AppendsTyped DEF Schedules

LEMMA WakeTyped == \A p \in Pipes : Wake(p) \in Callbacks
  BY CallbackTyped DEF Wake, Kinds, Pipes

LEMMA ResetTyped ==
  ASSUME StreamTypeOK, ResetStreaming
  PROVE  StreamTypeOK'
  <1>1. <<>> \in Audio /\ <<>> \in Seq(Block \union {End})
        /\ <<>> \in Seq(Audio) /\ Len(<<>>) <= 1
    BY DEF Audio
  <1> QED BY <1>1 DEF StreamTypeOK, ResetStreaming

LEMMA EmitFatalTyped ==
  ASSUME NEW p \in Pipes, TimerTypeOK, HistoryTypeOK, EmitFatal(p)
  PROVE  TimerTypeOK' /\ failed' \subseteq Pipes
  BY DEF TimerTypeOK, HistoryTypeOK, EmitFatal

LEMMA NoErrorTyped ==
  ASSUME OrchestratorTypeOK, NoError
  PROVE  TimerTypeOK' /\ failed' \subseteq Pipes
  BY DEF OrchestratorTypeOK, TimerTypeOK, HistoryTypeOK, NoError

LEMMA AwaitsTyped ==
  ASSUME TypeOK, NEW p \in Pipes, Step(p), NEW stage \in PipePcs, Awaits(p, stage)
  PROVE  /\ ready' \in Seq(Callbacks)
         /\ pc' \in [Pipes -> PipePcs]
         /\ StreamTypeOK'
  <1>1. ready' \in Seq(Callbacks)
    BY QuietTyped DEF Awaits, Step, TypeOK
  <1>2. StreamTypeOK'
    BY UnchangedTyped DEF Awaits, TypeOK
  <1> QED
    BY <1>1, <1>2 DEF Awaits, TypeOK, OrchestratorTypeOK, PipeTypeOK

LEMMA EndsTyped ==
  ASSUME TypeOK, NEW p \in Pipes, Step(p), Ends(p)
  PROVE  /\ ready' \in Seq(Callbacks)
         /\ pc' \in [Pipes -> PipePcs]
         /\ StreamTypeOK'
  <1>1. Callback("joined", p) \in Callbacks
    BY CallbackTyped DEF Kinds, Pipes
  <1>2. ready' \in Seq(Callbacks)
    BY <1>1, OneTyped DEF Ends, Step, TypeOK
  <1>3. StreamTypeOK'
    BY ResetTyped DEF Ends, TypeOK, OrchestratorTypeOK
  <1> QED
    BY <1>2, <1>3 DEF Ends, TypeOK, OrchestratorTypeOK, PipeTypeOK, PipePcs

\* The first half of a cleanup: t is the transcript and s the machine's state.
LEMMA BeginsCleanupTyped ==
  ASSUME TypeOK, NEW p \in Pipes, Step(p),
         NEW t \in Audio, NEW s \in AppStates, BeginsCleanup(p, t, s)
  PROVE  ready' \in Seq(Callbacks) /\ PipeTypeOK' /\ sm' \in AppStates
  <1>1. ready' \in Seq(Callbacks)
    BY QuietTyped DEF BeginsCleanup, Step, TypeOK
  <1>2. text' \in [Pipes -> Audio] /\ tries' \in [Pipes -> 0..1]
    BY DEF BeginsCleanup, TypeOK, OrchestratorTypeOK, PipeTypeOK
  <1>3. pc' \in [Pipes -> PipePcs]
    BY DEF BeginsCleanup, TypeOK, OrchestratorTypeOK, PipeTypeOK, PipePcs
  <1>4. sm' \in AppStates
    BY FireTyped DEF BeginsCleanup
  <1> QED BY <1>1, <1>2, <1>3, <1>4 DEF PipeTypeOK

LEMMA AnnouncesTyped ==
  ASSUME SharedTypeOK, AnnouncesTranscript
  PROVE  ui' \in AppStates
  BY FireTyped DEF AnnouncesTranscript, SharedTypeOK

-----------------------------------------------------------------------------
\* The orchestrator's steps, one by one.

LEMMA PrepareTyped ==
  ASSUME TypeOK, Prepare
  PROVE  ready' \in Seq(Callbacks) /\ OrchestratorTypeOK'
  <1>1. ready' \in Seq(Callbacks)
    BY QuietTyped DEF Prepare, TypeOK
  <1>2. StreamTypeOK'
    BY ResetTyped DEF Prepare, TypeOK, OrchestratorTypeOK
  <1> QED
    BY <1>1, <1>2, UnchangedTyped DEF Prepare, TypeOK, OrchestratorTypeOK

LEMMA OnRecordingStoppedTyped ==
  ASSUME TypeOK, OnRecordingStopped
  PROVE  ready' \in Seq(Callbacks) /\ OrchestratorTypeOK'
  <1> DEFINE p  == Head(ready).id
             s1 == IF sm = "idle" THEN Fire(sm, "toggle") ELSE sm
             s2 == IF s1 = "recording" THEN Fire(s1, "duration") ELSE s1
  <1>1. p \in Pipes /\ Head(ready).data \in Audio
    BY HeadTyped DEF OnRecordingStopped, TypeOK
  <1>2. sm \in AppStates /\ ui \in AppStates
    BY DEF TypeOK, OrchestratorTypeOK, SharedTypeOK
  <1>3. s1 \in AppStates
    BY <1>2, FireTyped
  <1>4. s2 \in AppStates
    BY <1>3, FireTyped
  <1>5. ready' \in Seq(Callbacks)
    <2>1. ready' = Tail(ready) \o <<Wake(p)>>
      BY DEF OnRecordingStopped, Schedules
    <2>2. Tail(ready) \in Seq(Callbacks)
      BY TailTyped DEF OnRecordingStopped, TypeOK
    <2>3. Wake(p) \in Callbacks
      BY <1>1, WakeTyped
    <2> QED BY <2>1, <2>2, <2>3, AppendsTyped
  <1>6. SharedTypeOK'
    <2>1. sm' = s2 /\ ui' \in {s2, ui} /\ handle' = p
          /\ audio' = <<Head(ready).data>>
          /\ UNCHANGED <<transcript, last>>
      BY DEF OnRecordingStopped
    <2>2. p \in 0..MaxPipes
      BY <1>1, BoundsAssumption DEF Pipes
    <2> QED
      BY <1>1, <1>2, <1>4, <2>1, <2>2
         DEF TypeOK, OrchestratorTypeOK, SharedTypeOK
  <1>7. PipeTypeOK'
    BY DEF OnRecordingStopped, TypeOK, OrchestratorTypeOK, PipeTypeOK, PipePcs
  <1>8. TimerTypeOK' /\ StreamTypeOK' /\ HistoryTypeOK'
    BY UnchangedTyped DEF OnRecordingStopped, TypeOK
  <1> QED BY <1>5, <1>6, <1>7, <1>8 DEF OrchestratorTypeOK

LEMMA OnPipelineDoneTyped ==
  ASSUME TypeOK, OnPipelineDone
  PROVE  ready' \in Seq(Callbacks) /\ OrchestratorTypeOK'
  <1>1. ready' \in Seq(Callbacks)
    BY QuietTyped DEF OnPipelineDone, TypeOK
  <1>2. SharedTypeOK'
    BY BoundsAssumption
       DEF OnPipelineDone, TypeOK, OrchestratorTypeOK, SharedTypeOK
  <1>3. PipeTypeOK'
    BY DEF OnPipelineDone, TypeOK, OrchestratorTypeOK, PipeTypeOK, PipePcs
  <1>4. TimerTypeOK' /\ StreamTypeOK' /\ HistoryTypeOK'
    BY UnchangedTyped DEF OnPipelineDone, TypeOK
  <1> QED BY <1>1, <1>2, <1>3, <1>4 DEF OrchestratorTypeOK

LEMMA CancelTyped ==
  ASSUME TypeOK, Cancel
  PROVE  ready' \in Seq(Callbacks) /\ OrchestratorTypeOK'
  <1> DEFINE p == handle
             live == p # 0 /\ pc[p] \in InFlight
  <1>1. live => p \in Pipes
    BY BoundsAssumption DEF Pipes, TypeOK, OrchestratorTypeOK, SharedTypeOK
  <1>2. ready' \in Seq(Callbacks)
    <2>1. ready' = Tail(ready) \o <<>> \/ (live /\ ready' = Tail(ready) \o <<Wake(p)>>)
      BY DEF Cancel, Schedules
    <2>2. Tail(ready) \in Seq(Callbacks)
      BY TailTyped DEF Cancel, TypeOK
    <2>3. live => Wake(p) \in Callbacks
      BY <1>1, WakeTyped
    <2> QED BY <2>1, <2>2, <2>3, AppendsTyped
  <1>3. SharedTypeOK'
    <2>1. audio' = <<>> /\ transcript' = <<>> /\ sm' = "idle"
          /\ UNCHANGED <<ui, handle, last>>
      BY DEF Cancel
    <2>2. <<>> \in Audio /\ <<>> \in Seq(Audio) /\ Len(<<>>) <= 1
      BY DEF Audio
    <2> QED
      BY <2>1, <2>2 DEF TypeOK, OrchestratorTypeOK, SharedTypeOK, AppStates
  <1>4. pc' \in [Pipes -> PipePcs]
    BY DEF Cancel, TypeOK, OrchestratorTypeOK, PipeTypeOK, PipePcs
  <1>5. PipeTypeOK'
    BY <1>4 DEF Cancel, TypeOK, OrchestratorTypeOK, PipeTypeOK
  <1>6. StreamTypeOK'
    BY ResetTyped DEF Cancel, TypeOK, OrchestratorTypeOK
  <1>7. HistoryTypeOK'
    <2>1. \/ UNCHANGED out
          \/ live /\ out' = Append(out, [pipe |-> p, text |-> text[p]])
      BY DEF Cancel
    <2>2. live => [pipe |-> p, text |-> text[p]] \in [pipe : Pipes, text : Audio]
      BY <1>1 DEF TypeOK, OrchestratorTypeOK, PipeTypeOK
    <2>3. out \in Seq([pipe : Pipes, text : Audio]) /\ failed \subseteq Pipes
      BY DEF TypeOK, OrchestratorTypeOK, HistoryTypeOK
    <2>4. failed' = failed
      BY DEF Cancel
    <2>5. out' \in Seq([pipe : Pipes, text : Audio])
      BY <2>1, <2>2, <2>3, AppendTyped
    <2> QED BY <2>3, <2>4, <2>5 DEF HistoryTypeOK
  <1>8. TimerTypeOK'
    BY UnchangedTyped DEF Cancel, TypeOK
  <1> QED BY <1>2, <1>3, <1>5, <1>6, <1>7, <1>8 DEF OrchestratorTypeOK

LEMMA OnAudioChunkTyped ==
  ASSUME TypeOK, OnAudioChunk
  PROVE  ready' \in Seq(Callbacks) /\ OrchestratorTypeOK'
  <1>1. streamGen \in Nat
    BY DEF TypeOK, OrchestratorTypeOK, StreamTypeOK
  <1>2. streamGen' \in Nat
    BY <1>1 DEF OnAudioChunk
  <1>3. ready' \in Seq(Callbacks)
    <2>1. ready' \in {Tail(ready) \o <<Callback("stream", streamGen')>>,
                      Tail(ready) \o <<>>}
      BY DEF OnAudioChunk, Schedules
    <2>2. Tail(ready) \in Seq(Callbacks)
      BY TailTyped DEF OnAudioChunk, TypeOK
    <2>3. Callback("stream", streamGen') \in Callbacks
      BY <1>2, CallbackTyped DEF Kinds
    <2> QED BY <2>1, <2>2, <2>3, AppendsTyped
  <1>4. streamQueue' \in Seq(Block \union {End})
    <2>1. Head(ready).data \in Seq(Block \union {End})
      BY HeadTyped DEF OnAudioChunk, TypeOK, Audio
    <2>2. streamQueue \o Head(ready).data \in Seq(Block \union {End})
      BY <2>1 DEF TypeOK, OrchestratorTypeOK, StreamTypeOK
    <2>3. streamQueue' \in {streamQueue \o Head(ready).data \o <<End>>,
                            streamQueue \o Head(ready).data \o <<>>}
      BY DEF OnAudioChunk
    <2> QED BY <2>2, <2>3, AppendsTyped
  <1>5. StreamTypeOK'
    BY <1>2, <1>4 DEF OnAudioChunk, TypeOK, OrchestratorTypeOK, StreamTypeOK
  <1> QED
    BY <1>3, <1>5, UnchangedTyped DEF OnAudioChunk, TypeOK, OrchestratorTypeOK

LEMMA IgnoredTyped ==
  ASSUME TypeOK, IgnoreAudioChunk \/ StreamUnwinds
  PROVE  ready' \in Seq(Callbacks) /\ OrchestratorTypeOK'
  <1>1. ready' \in Seq(Callbacks)
    BY QuietTyped DEF IgnoreAudioChunk, StreamUnwinds, TypeOK
  <1> QED
    BY <1>1, UnchangedTyped
       DEF IgnoreAudioChunk, StreamUnwinds, TypeOK, OrchestratorTypeOK,
           orchestratorVars

\* The stream task ends: its waiters are woken, in the order of their tasks.
LEMMA StreamEndsTyped ==
  ASSUME TypeOK, NEW k, Runs(k), NEW seg \in Seq(Audio), Len(seg) <= 1,
         StreamEnds(seg)
  PROVE  /\ ready' \in Seq(Callbacks)
         /\ streamPc' \in {"done"} /\ finalSet' \in BOOLEAN
         /\ finalSeg' \in Seq(Audio) /\ Len(finalSeg') <= 1
         /\ pc' \in [Pipes -> PipePcs]
  <1>1. IsFiniteSet(Waiters) /\ Waiters \subseteq Pipes
    <2>1. IsFiniteSet(Pipes)
      BY FS_Interval, BoundsAssumption DEF Pipes
    <2> QED BY <2>1, FS_Subset DEF Waiters
  <1>2. Cardinality(Waiters) \in Nat
    BY <1>1, FS_CardinalityType
  <1>3. PICK q \in Ascending(Waiters) :
          ready' = Tail(ready) \o [i \in 1..Len(q) |-> Wake(q[i])]
    BY DEF StreamEnds, Schedules
  <1>4. q \in [1..Cardinality(Waiters) -> Waiters]
    BY <1>3 DEF Ascending
  <1>5. q \in Seq(Pipes)
    BY <1>1, <1>2, <1>4
  <1>6. \A i \in 1..Len(q) : Wake(q[i]) \in Callbacks
    BY <1>5, WakeTyped
  <1>7. [i \in 1..Len(q) |-> Wake(q[i])] \in Seq(Callbacks)
    BY <1>5, <1>6
  <1>8. ready' \in Seq(Callbacks)
    BY <1>3, <1>7, TailTyped DEF TypeOK
  <1>9. pc' \in [Pipes -> PipePcs]
    BY DEF StreamEnds, TypeOK, OrchestratorTypeOK, PipeTypeOK, PipePcs
  <1> QED BY <1>8, <1>9 DEF StreamEnds

LEMMA StreamConsumesTyped ==
  ASSUME TypeOK, StreamConsumes
  PROVE  ready' \in Seq(Callbacks) /\ OrchestratorTypeOK'
  <1>1. ready' \in Seq(Callbacks)
    BY QuietTyped DEF StreamConsumes, StreamStep, TypeOK
  <1>2. streamGot \in Seq(Block) /\ streamQueue \in Seq(Block \union {End})
    BY DEF TypeOK, OrchestratorTypeOK, StreamTypeOK, Audio
  <1>3. streamQueue \in Seq(Block)
    BY <1>2 DEF StreamConsumes
  <1>4. streamGot' \in Audio /\ streamQueue' \in Seq(Block \union {End})
    BY <1>2, <1>3 DEF StreamConsumes, Audio
  <1>5. finalSet' \in BOOLEAN /\ finalSeg' \in Seq(Audio) /\ Len(finalSeg') <= 1
    <2>1. \/ finalSet' = FALSE /\ finalSeg' = <<>>
          \/ UNCHANGED <<finalSet, finalSeg>>
      BY DEF StreamConsumes
    <2>2. <<>> \in Seq(Audio) /\ Len(<<>>) <= 1
      OBVIOUS
    <2> QED BY <2>1, <2>2 DEF TypeOK, OrchestratorTypeOK, StreamTypeOK
  <1>6. StreamTypeOK'
    BY <1>4, <1>5 DEF StreamConsumes, TypeOK, OrchestratorTypeOK, StreamTypeOK
  <1> QED
    BY <1>1, <1>6, UnchangedTyped DEF StreamConsumes, TypeOK, OrchestratorTypeOK

LEMMA StreamReachesEndTyped ==
  ASSUME TypeOK, StreamReachesEnd
  PROVE  ready' \in Seq(Callbacks) /\ OrchestratorTypeOK'
  <1>1. streamGot \in Seq(Block) /\ streamQueue \in Seq(Block \union {End})
    BY DEF TypeOK, OrchestratorTypeOK, StreamTypeOK, Audio
  <1>2. PICK n \in 1..Len(streamQueue) :
          /\ \A i \in 1..(n - 1) : streamQueue[i] # End
          /\ streamGot' = streamGot \o SubSeq(streamQueue, 1, n - 1)
          /\ streamQueue' = SubSeq(streamQueue, n + 1, Len(streamQueue))
    BY DEF StreamReachesEnd
  <1>3. SubSeq(streamQueue, 1, n - 1) \in Seq(Block)
    BY <1>1, <1>2
  <1>4. streamGot' \in Audio /\ streamQueue' \in Seq(Block \union {End})
    BY <1>1, <1>2, <1>3 DEF Audio
  <1>5. CASE streamGot' = <<>>
    <2>1. <<<<>>>> \in Seq(Audio) /\ Len(<<<<>>>>) <= 1
      BY DEF Audio
    <2>2. StreamEnds(<<<<>>>>)
      BY <1>5 DEF StreamReachesEnd
    <2>3. Runs("stream")
      BY DEF StreamReachesEnd, StreamStep
    <2>4. /\ ready' \in Seq(Callbacks)
          /\ streamPc' = "done" /\ finalSet' \in BOOLEAN
          /\ finalSeg' \in Seq(Audio) /\ Len(finalSeg') <= 1
          /\ pc' \in [Pipes -> PipePcs]
      BY <2>1, <2>2, <2>3, StreamEndsTyped
    <2>5. StreamTypeOK' /\ PipeTypeOK'
      BY <1>4, <2>4 DEF StreamReachesEnd, TypeOK, OrchestratorTypeOK,
                        StreamTypeOK, PipeTypeOK
    <2> QED
      BY <2>4, <2>5, UnchangedTyped
         DEF StreamReachesEnd, TypeOK, OrchestratorTypeOK
  <1>6. CASE streamGot' # <<>>
    <2>1. ready' \in Seq(Callbacks)
      BY <1>6, QuietTyped DEF StreamReachesEnd, StreamStep, TypeOK
    <2>2. finalSet' \in BOOLEAN /\ finalSeg' \in Seq(Audio) /\ Len(finalSeg') <= 1
      <3>1. \/ finalSet' = FALSE /\ finalSeg' = <<>>
            \/ UNCHANGED <<finalSet, finalSeg>>
        BY <1>6 DEF StreamReachesEnd
      <3>2. <<>> \in Seq(Audio) /\ Len(<<>>) <= 1
        OBVIOUS
      <3> QED BY <3>1, <3>2 DEF TypeOK, OrchestratorTypeOK, StreamTypeOK
    <2>3. StreamTypeOK' /\ PipeTypeOK'
      BY <1>4, <1>6, <2>2 DEF StreamReachesEnd, TypeOK, OrchestratorTypeOK,
                              StreamTypeOK, PipeTypeOK
    <2> QED
      BY <2>1, <2>3, UnchangedTyped
         DEF StreamReachesEnd, TypeOK, OrchestratorTypeOK
  <1> QED BY <1>5, <1>6

LEMMA StreamPassDoneTyped ==
  ASSUME TypeOK, StreamPassDone
  PROVE  ready' \in Seq(Callbacks) /\ OrchestratorTypeOK'
  <1>1. Callback("stream", streamGen) \in Callbacks
    BY CallbackTyped DEF Kinds, TypeOK, OrchestratorTypeOK, StreamTypeOK
  <1>2. ready' \in Seq(Callbacks)
    BY <1>1 DEF StreamPassDone, CallSoon, TypeOK
  <1>3. StreamTypeOK'
    BY DEF StreamPassDone, TypeOK, OrchestratorTypeOK, StreamTypeOK
  <1> QED
    BY <1>2, <1>3, UnchangedTyped DEF StreamPassDone, TypeOK, OrchestratorTypeOK

LEMMA StreamFinalTyped ==
  ASSUME TypeOK, StreamFinal \/ StreamFails
  PROVE  ready' \in Seq(Callbacks) /\ OrchestratorTypeOK'
  <1>1. <<streamGot>> \in Seq(Audio) /\ Len(<<streamGot>>) <= 1
        /\ <<>> \in Seq(Audio) /\ Len(<<>>) <= 1
    BY DEF TypeOK, OrchestratorTypeOK, StreamTypeOK
  <1>2. PICK seg \in Seq(Audio) : Len(seg) <= 1 /\ StreamEnds(seg)
    BY <1>1 DEF StreamFinal, StreamFails
  <1>3. Runs("stream")
    BY DEF StreamFinal, StreamFails, StreamStep
  <1>4. /\ ready' \in Seq(Callbacks)
        /\ streamPc' = "done" /\ finalSet' \in BOOLEAN
        /\ finalSeg' \in Seq(Audio) /\ Len(finalSeg') <= 1
        /\ pc' \in [Pipes -> PipePcs]
    BY <1>2, <1>3, StreamEndsTyped
  <1>5. StreamTypeOK' /\ PipeTypeOK'
    BY <1>4 DEF StreamFinal, StreamFails, TypeOK, OrchestratorTypeOK,
                StreamTypeOK, PipeTypeOK
  <1> QED
    BY <1>4, <1>5, UnchangedTyped
       DEF StreamFinal, StreamFails, TypeOK, OrchestratorTypeOK

-----------------------------------------------------------------------------
\* The pipeline's steps.

\* A step that only moves the pipeline to another stage.
LEMMA MovesTyped ==
  ASSUME TypeOK, NEW p \in Pipes, Step(p), NEW stage \in PipePcs, Awaits(p, stage),
         NoError, UNCHANGED <<sharedVars, text, out>>, tries' \in [Pipes -> 0..1]
  PROVE  ready' \in Seq(Callbacks) /\ OrchestratorTypeOK'
  <1>1. /\ ready' \in Seq(Callbacks)
        /\ pc' \in [Pipes -> PipePcs]
        /\ StreamTypeOK'
    BY AwaitsTyped
  <1>2. TimerTypeOK' /\ failed' \subseteq Pipes
    BY NoErrorTyped DEF TypeOK
  <1>3. SharedTypeOK'
    BY UnchangedTyped DEF TypeOK
  <1>4. PipeTypeOK' /\ HistoryTypeOK'
    BY <1>1, <1>2 DEF TypeOK, OrchestratorTypeOK, PipeTypeOK, HistoryTypeOK
  <1> QED BY <1>1, <1>2, <1>3, <1>4 DEF OrchestratorTypeOK

LEMMA SimpleMovesTyped ==
  ASSUME TypeOK, NEW p \in Pipes,
         \/ WaitsForStream(p)
         \/ Retries(p, "asr", "asrPause") \/ Retries(p, "clean", "cleanPause")
         \/ InsertFallsBack(p) \/ UndoReturns(p)
  PROVE  ready' \in Seq(Callbacks) /\ OrchestratorTypeOK'
  <1>1. /\ Step(p) /\ NoError /\ UNCHANGED <<sharedVars, text, out>>
        /\ tries' = tries
        /\ \E stage \in PipePcs : Awaits(p, stage)
    BY DEF WaitsForStream, Retries, InsertFallsBack, UndoReturns, PipePcs
  <1>2. tries' \in [Pipes -> 0..1]
    BY <1>1 DEF TypeOK, OrchestratorTypeOK, PipeTypeOK
  <1> QED BY <1>1, <1>2, MovesTyped

LEMMA PausesTyped ==
  ASSUME TypeOK, NEW p \in Pipes, NEW stage, NEW pause \in PipePcs, NEW outcome,
         Pauses(p, stage, pause, outcome)
  PROVE  ready' \in Seq(Callbacks) /\ OrchestratorTypeOK'
  <1>1. tries' \in [Pipes -> 0..1]
    BY DEF Pauses, TypeOK, OrchestratorTypeOK, PipeTypeOK
  <1>2. /\ Step(p) /\ NoError /\ UNCHANGED <<sharedVars, text, out>>
        /\ Awaits(p, pause)
    BY DEF Pauses
  <1> QED BY <1>1, <1>2, MovesTyped

\* A transcript t arrives, and the cleanup begins.
LEMMA TakesStreamedTyped ==
  ASSUME TypeOK, NEW p \in Pipes, TakesStreamed(p)
  PROVE  ready' \in Seq(Callbacks) /\ OrchestratorTypeOK'
  <1>1. finalSeg[1] \in Audio /\ Fire(sm, "transcript") \in AppStates
    BY FireTyped DEF TakesStreamed, TypeOK, OrchestratorTypeOK, StreamTypeOK,
                     SharedTypeOK
  <1>2. PICK t \in Audio, s \in AppStates : BeginsCleanup(p, t, s) /\ transcript' = t
    BY <1>1 DEF TakesStreamed
  <1>3. ready' \in Seq(Callbacks) /\ PipeTypeOK' /\ sm' \in AppStates
    BY <1>2, BeginsCleanupTyped DEF TakesStreamed
  <1>4. ui' \in AppStates
    BY AnnouncesTyped DEF TakesStreamed, TypeOK, OrchestratorTypeOK
  <1>5. SharedTypeOK'
    BY <1>2, <1>3, <1>4 DEF TakesStreamed, TypeOK, OrchestratorTypeOK, SharedTypeOK
  <1>6. TimerTypeOK' /\ failed' \subseteq Pipes
    BY NoErrorTyped DEF TakesStreamed, TypeOK
  <1>7. StreamTypeOK'
    BY DEF TakesStreamed, TypeOK, OrchestratorTypeOK, StreamTypeOK
  <1>8. HistoryTypeOK'
    BY <1>6 DEF TakesStreamed, TypeOK, OrchestratorTypeOK, HistoryTypeOK
  <1> QED BY <1>3, <1>5, <1>6, <1>7, <1>8 DEF OrchestratorTypeOK

LEMMA AsrReturnsTyped ==
  ASSUME TypeOK, NEW p \in Pipes, AsrReturns(p)
  PROVE  ready' \in Seq(Callbacks) /\ OrchestratorTypeOK'
  <1>1. text[p] \in Audio /\ Fire(sm, "transcript") \in AppStates
    BY FireTyped DEF TypeOK, OrchestratorTypeOK, PipeTypeOK, SharedTypeOK
  <1>2. PICK t \in Audio, s \in AppStates : BeginsCleanup(p, t, s) /\ transcript' = t
    BY <1>1 DEF AsrReturns
  <1>3. ready' \in Seq(Callbacks) /\ PipeTypeOK' /\ sm' \in AppStates
    BY <1>2, BeginsCleanupTyped DEF AsrReturns
  <1>4. ui' \in AppStates
    BY AnnouncesTyped DEF AsrReturns, TypeOK, OrchestratorTypeOK
  <1>5. SharedTypeOK'
    BY <1>2, <1>3, <1>4 DEF AsrReturns, TypeOK, OrchestratorTypeOK, SharedTypeOK
  <1>6. TimerTypeOK' /\ failed' \subseteq Pipes
    BY NoErrorTyped DEF AsrReturns, TypeOK
  <1>7. StreamTypeOK'
    BY UnchangedTyped DEF AsrReturns, TypeOK
  <1>8. HistoryTypeOK'
    BY <1>6 DEF AsrReturns, TypeOK, OrchestratorTypeOK, HistoryTypeOK
  <1> QED BY <1>3, <1>5, <1>6, <1>7, <1>8 DEF OrchestratorTypeOK

LEMMA AsrExhaustedTyped ==
  ASSUME TypeOK, NEW p \in Pipes, AsrExhausted(p)
  PROVE  ready' \in Seq(Callbacks) /\ OrchestratorTypeOK'
  <1>1. transcript \in Audio /\ Fire(sm, "asr_failed") \in AppStates
    BY FireTyped DEF TypeOK, OrchestratorTypeOK, SharedTypeOK
  <1>2. PICK t \in Audio, s \in AppStates : BeginsCleanup(p, t, s)
    BY <1>1 DEF AsrExhausted
  <1>3. ready' \in Seq(Callbacks) /\ PipeTypeOK' /\ sm' \in AppStates
    BY <1>2, BeginsCleanupTyped DEF AsrExhausted
  <1>4. SharedTypeOK'
    BY <1>3 DEF AsrExhausted, TypeOK, OrchestratorTypeOK, SharedTypeOK
  <1>5. TimerTypeOK' /\ failed' \subseteq Pipes
    BY EmitFatalTyped DEF AsrExhausted, TypeOK, OrchestratorTypeOK
  <1>6. StreamTypeOK'
    BY UnchangedTyped DEF AsrExhausted, TypeOK
  <1>7. HistoryTypeOK'
    BY <1>5 DEF AsrExhausted, TypeOK, OrchestratorTypeOK, HistoryTypeOK
  <1> QED BY <1>3, <1>4, <1>5, <1>6, <1>7 DEF OrchestratorTypeOK

LEMMA CallsAsrTyped ==
  ASSUME TypeOK, NEW p \in Pipes, CallsAsr(p)
  PROVE  ready' \in Seq(Callbacks) /\ OrchestratorTypeOK'
  <1>1. ready' \in Seq(Callbacks)
    BY QuietTyped DEF CallsAsr, Step, TypeOK
  <1>2. PipeTypeOK'
    <2>1. audio[1] \in Audio
      BY DEF CallsAsr, TypeOK, OrchestratorTypeOK, SharedTypeOK
    <2> QED
      BY <2>1 DEF CallsAsr, TypeOK, OrchestratorTypeOK, PipeTypeOK, PipePcs
  <1>3. StreamTypeOK'
    BY DEF CallsAsr, TypeOK, OrchestratorTypeOK, StreamTypeOK
  <1>4. TimerTypeOK' /\ failed' \subseteq Pipes
    BY NoErrorTyped DEF CallsAsr, TypeOK
  <1>5. SharedTypeOK'
    BY UnchangedTyped DEF CallsAsr, TypeOK
  <1>6. HistoryTypeOK'
    BY <1>4 DEF CallsAsr, TypeOK, OrchestratorTypeOK, HistoryTypeOK
  <1> QED BY <1>1, <1>2, <1>3, <1>4, <1>5, <1>6 DEF OrchestratorTypeOK

\* A step that ends the pipeline.
LEMMA EndingTyped ==
  ASSUME TypeOK, NEW p \in Pipes, Step(p), Ends(p), UNCHANGED <<text, tries>>,
         NoError \/ EmitFatal(p),
         SharedTypeOK', out' \in Seq([pipe : Pipes, text : Audio])
  PROVE  ready' \in Seq(Callbacks) /\ OrchestratorTypeOK'
  <1>1. /\ ready' \in Seq(Callbacks)
        /\ pc' \in [Pipes -> PipePcs]
        /\ StreamTypeOK'
    BY EndsTyped
  <1>2. TimerTypeOK' /\ failed' \subseteq Pipes
    BY NoErrorTyped, EmitFatalTyped DEF TypeOK, OrchestratorTypeOK
  <1>3. PipeTypeOK'
    BY <1>1 DEF TypeOK, OrchestratorTypeOK, PipeTypeOK
  <1> QED BY <1>1, <1>2, <1>3 DEF OrchestratorTypeOK, HistoryTypeOK

LEMMA AsrHasNoAudioTyped ==
  ASSUME TypeOK, NEW p \in Pipes, AsrHasNoAudio(p)
  PROVE  ready' \in Seq(Callbacks) /\ OrchestratorTypeOK'
  <1>1. SharedTypeOK' /\ out' \in Seq([pipe : Pipes, text : Audio])
    BY UnchangedTyped DEF AsrHasNoAudio, TypeOK, OrchestratorTypeOK, HistoryTypeOK
  <1> QED BY <1>1, EndingTyped DEF AsrHasNoAudio

LEMMA EntersInsertionTyped ==
  ASSUME TypeOK, NEW p \in Pipes, CleanupReturns(p) \/ CleanupExhausted(p)
  PROVE  ready' \in Seq(Callbacks) /\ OrchestratorTypeOK'
  <1>1. PICK e : Step(p) /\ EntersInsertion(p, e)
    BY DEF CleanupReturns, CleanupExhausted
  <1>2. /\ ready' \in Seq(Callbacks)
        /\ pc' \in [Pipes -> PipePcs]
        /\ StreamTypeOK'
    BY <1>1, AwaitsTyped DEF EntersInsertion, PipePcs
  <1>3. TimerTypeOK' /\ failed' \subseteq Pipes
    BY <1>1, NoErrorTyped DEF EntersInsertion, TypeOK
  <1>4. sm' \in AppStates
    BY <1>1, FireTyped DEF EntersInsertion, TypeOK, OrchestratorTypeOK, SharedTypeOK
  <1>5. SharedTypeOK' /\ PipeTypeOK' /\ HistoryTypeOK'
    BY <1>1, <1>2, <1>3, <1>4
       DEF EntersInsertion, TypeOK, OrchestratorTypeOK, SharedTypeOK, PipeTypeOK,
           HistoryTypeOK
  <1> QED BY <1>2, <1>3, <1>5 DEF OrchestratorTypeOK

LEMMA InsertedTyped ==
  ASSUME TypeOK, NEW p \in Pipes, InsertReturns(p) \/ ClipboardReturns(p)
  PROVE  ready' \in Seq(Callbacks) /\ OrchestratorTypeOK'
  <1>1. PICK e : Step(p) /\ Inserted(p, e)
    BY DEF InsertReturns, ClipboardReturns
  <1>2. text[p] \in Audio
    BY DEF TypeOK, OrchestratorTypeOK, PipeTypeOK
  <1>3. sm' \in AppStates
    BY <1>1, FireTyped DEF Inserted, TypeOK, OrchestratorTypeOK, SharedTypeOK
  <1>4. SharedTypeOK'
    BY <1>1, <1>2, <1>3
       DEF Inserted, TypeOK, OrchestratorTypeOK, SharedTypeOK, AppStates
  <1>5. out' \in Seq([pipe : Pipes, text : Audio])
    <2>1. out \in Seq([pipe : Pipes, text : Audio])
      BY DEF TypeOK, OrchestratorTypeOK, HistoryTypeOK
    <2>2. [pipe |-> p, text |-> text[p]] \in [pipe : Pipes, text : Audio]
      BY <1>2
    <2>3. out' \in {out, Append(out, [pipe |-> p, text |-> text[p]])}
      BY <1>1 DEF Inserted
    <2> QED BY <2>1, <2>2, <2>3, AppendTyped
  <1> QED BY <1>1, <1>4, <1>5, EndingTyped DEF Inserted

LEMMA InsertionFailsTyped ==
  ASSUME TypeOK, NEW p \in Pipes, InsertionFails(p)
  PROVE  ready' \in Seq(Callbacks) /\ OrchestratorTypeOK'
  <1>1. sm' \in AppStates
    BY FireTyped DEF InsertionFails, TypeOK, OrchestratorTypeOK, SharedTypeOK
  <1>2. SharedTypeOK' /\ out' \in Seq([pipe : Pipes, text : Audio])
    BY <1>1 DEF InsertionFails, TypeOK, OrchestratorTypeOK, SharedTypeOK, HistoryTypeOK
  <1> QED BY <1>2, EndingTyped DEF InsertionFails

LEMMA UnwindsTyped ==
  ASSUME TypeOK, NEW p \in Pipes, Unwinds(p)
  PROVE  ready' \in Seq(Callbacks) /\ OrchestratorTypeOK'
  <1>1. SharedTypeOK' /\ out' \in Seq([pipe : Pipes, text : Audio])
    BY UnchangedTyped DEF Unwinds, TypeOK, OrchestratorTypeOK, HistoryTypeOK
  <1>2. CASE Ends(p)
    BY <1>1, <1>2, EndingTyped DEF Unwinds
  <1>3. CASE /\ pc' = [pc EXCEPT ![p] = "ended"]
             /\ Schedules(<<Callback("joined", p)>>)
             /\ UNCHANGED streamVars
    <2>1. Callback("joined", p) \in Callbacks
      BY CallbackTyped DEF Kinds, Pipes
    <2>2. ready' \in Seq(Callbacks)
      BY <1>3, <2>1, OneTyped DEF Unwinds, Step, TypeOK
    <2>3. StreamTypeOK'
      BY <1>3, UnchangedTyped DEF TypeOK
    <2>4. TimerTypeOK' /\ failed' \subseteq Pipes
      BY NoErrorTyped DEF Unwinds, TypeOK
    <2>5. PipeTypeOK'
      BY <1>3 DEF Unwinds, TypeOK, OrchestratorTypeOK, PipeTypeOK, PipePcs
    <2> QED
      BY <1>1, <2>2, <2>3, <2>4, <2>5 DEF OrchestratorTypeOK, HistoryTypeOK
  <1> QED BY <1>2, <1>3 DEF Unwinds

LEMMA PipelineStepTyped ==
  ASSUME TypeOK, NEW p \in Pipes, PipelineStep(p)
  PROVE  ready' \in Seq(Callbacks) /\ OrchestratorTypeOK'
  <1>1. "asrPause" \in PipePcs /\ "cleanPause" \in PipePcs
    BY DEF PipePcs
  <1> QED
    BY <1>1, SimpleMovesTyped, PausesTyped, TakesStreamedTyped, CallsAsrTyped,
       AsrHasNoAudioTyped, AsrReturnsTyped, AsrExhaustedTyped,
       EntersInsertionTyped, InsertedTyped, InsertionFailsTyped, UnwindsTyped
       DEF PipelineStep

LEMMA CompletesTyped ==
  ASSUME TypeOK, NEW p \in Pipes, Completes(p)
  PROVE  ready' \in Seq(Callbacks) /\ OrchestratorTypeOK'
  <1>1. ready' \in Seq(Callbacks)
    BY WakeTyped DEF Completes, CallSoon, TypeOK
  <1> QED
    BY <1>1, UnchangedTyped DEF Completes, TypeOK, OrchestratorTypeOK, orchestratorVars

LEMMA TimerElapsesTyped ==
  ASSUME TypeOK, TimerElapses
  PROVE  ready' \in Seq(Callbacks) /\ OrchestratorTypeOK'
  <1>1. Callback("error_timer", timerGen) \in Callbacks
    BY CallbackTyped DEF Kinds, TypeOK, OrchestratorTypeOK, TimerTypeOK
  <1>2. ready' \in Seq(Callbacks)
    BY <1>1 DEF TimerElapses, CallSoon, TypeOK
  <1>3. TimerTypeOK'
    BY DEF TimerElapses, TypeOK, OrchestratorTypeOK, TimerTypeOK
  <1> QED
    BY <1>2, <1>3, UnchangedTyped DEF TimerElapses, TypeOK, OrchestratorTypeOK

LEMMA TimerFiresTyped ==
  ASSUME TypeOK, TimerFires
  PROVE  ready' \in Seq(Callbacks) /\ OrchestratorTypeOK'
  <1>1. ready' \in Seq(Callbacks)
    BY QuietTyped DEF TimerFires, TypeOK
  <1>2. TimerTypeOK'
    BY DEF TimerFires, TypeOK, OrchestratorTypeOK, TimerTypeOK
  <1>3. SharedTypeOK'
    <2>1. \/ /\ sm' = Fire(sm, "timeout") /\ ui' = "idle"
             /\ audio' = <<>> /\ transcript' = <<>>
          \/ UNCHANGED <<sm, ui, audio, transcript>>
      BY DEF TimerFires
    <2>2. sm' \in AppStates /\ ui' \in AppStates
      BY <2>1, FireTyped
         DEF TypeOK, OrchestratorTypeOK, SharedTypeOK, AppStates
    <2>3. <<>> \in Audio /\ <<>> \in Seq(Audio) /\ Len(<<>>) <= 1
      BY DEF Audio
    <2> QED
      BY <2>1, <2>2, <2>3 DEF TimerFires, TypeOK, OrchestratorTypeOK, SharedTypeOK
  <1> QED
    BY <1>1, <1>2, <1>3, UnchangedTyped DEF TimerFires, TypeOK, OrchestratorTypeOK

-----------------------------------------------------------------------------
\* Audio capture.

\* Every value a capture step posts to the loop is a callback.
LEMMA CallSoonTyped ==
  ASSUME ready \in Seq(Callbacks), NEW new \in Seq(Callbacks), CallSoon(new)
  PROVE  ready' \in Seq(Callbacks)
  BY DEF CallSoon

LEMMA SingletonTyped == \A c \in Callbacks : <<c>> \in Seq(Callbacks)
  OBVIOUS

LEMMA StartRecordingTyped ==
  ASSUME TypeOK, StartRecording
  PROVE  ready' \in Seq(Callbacks) /\ CaptureTypeOK' /\ ChunkerTypeOK'
         /\ (recording' => nrec' # 0)
  <1>1. nrec \in Nat /\ nrec + 1 \in Nat /\ nrec + 1 \in 0..MaxRecs /\ nrec + 1 # 0
    BY BoundsAssumption DEF TypeOK, CaptureTypeOK, StartRecording
  <1>2. Callback("prepare", nrec + 1) \in Callbacks
        /\ Callback("chunker_start", nrec + 1) \in Callbacks
    BY <1>1, CallbackTyped DEF Kinds
  <1> DEFINE new == <<Callback("prepare", nrec + 1)>>
                      \o (IF Streaming THEN <<Callback("chunker_start", nrec + 1)>>
                                       ELSE <<>>)
  <1>3. new \in Seq(Callbacks)
    BY <1>2
  <1>4. ready' = ready \o new
    BY DEF StartRecording, CallSoon
  <1>5. ready' \in Seq(Callbacks)
    BY <1>3, <1>4 DEF TypeOK
  <1>6. CaptureTypeOK'
    BY <1>1 DEF StartRecording, TypeOK, CaptureTypeOK, Audio
  <1>7. ChunkerTypeOK'
    BY DEF StartRecording, TypeOK, ChunkerTypeOK, chunkerVars
  <1> QED BY <1>1, <1>5, <1>6, <1>7 DEF StartRecording

LEMMA StopTestsTyped ==
  ASSUME TypeInv, NEW t \in Threads, StopTests(t)
  PROVE  ready' \in Seq(Callbacks) /\ CaptureTypeOK' /\ ChunkerTypeOK'
         /\ (recording' => nrec' # 0)
  <1>1. CaptureTypeOK'
    BY DEF StopTests, TypeInv, TypeOK, CaptureTypeOK, StopperPcs
  <1>2. ChunkerTypeOK'
    BY DEF StopTests, TypeInv, TypeOK, ChunkerTypeOK, chunkerVars
  <1> QED BY <1>1, <1>2 DEF StopTests, TypeInv, TypeOK

LEMMA StopFlipsTyped ==
  ASSUME TypeOK, NEW t \in Threads, StopFlips(t)
  PROVE  ready' \in Seq(Callbacks) /\ CaptureTypeOK' /\ ChunkerTypeOK'
         /\ (recording' => nrec' # 0)
  <1> DEFINE new == IF Streaming THEN <<StopCall("stop_spawn", TRUE)>> ELSE <<>>
  <1>1. StopCall("stop_spawn", TRUE) \in Callbacks
    BY StopCallTyped
  <1>2. new \in Seq(Callbacks)
    <2>1. <<StopCall("stop_spawn", TRUE)>> \in Seq(Callbacks)
      BY <1>1, SingletonTyped, Zenon
    <2> QED BY <2>1, EmptyTyped
  <1> HIDE DEF new
  <1>3. ready' = ready \o new
    BY DEF StopFlips, CallSoon, new
  <1>4. ready' \in Seq(Callbacks)
    BY <1>2, <1>3 DEF TypeOK
  <1>5. CaptureTypeOK'
    BY DEF StopFlips, TypeOK, CaptureTypeOK, StopperPcs
  <1>6. ChunkerTypeOK'
    BY DEF StopFlips, TypeOK, ChunkerTypeOK, chunkerVars
  <1> QED BY <1>4, <1>5, <1>6 DEF StopFlips

LEMMA StopPostsTyped ==
  ASSUME TypeInv, NEW t \in Threads, StopPosts(t)
  PROVE  ready' \in Seq(Callbacks) /\ CaptureTypeOK' /\ ChunkerTypeOK'
         /\ (recording' => nrec' # 0)
  <1>1. nstop + 1 \in Pipes /\ nstop + 1 \in 0..MaxPipes
    BY BoundsAssumption DEF StopPosts, TypeInv, TypeOK, CaptureTypeOK, Pipes
  <1>2. Callback("finalize", nstop + 1) \in Callbacks
    BY <1>1, FinalizeTyped
  <1>3. ready' = ready \o <<Callback("finalize", nstop + 1)>>
    BY DEF StopPosts, CallSoon
  <1>4. ready' \in Seq(Callbacks)
    BY <1>2, <1>3 DEF TypeInv, TypeOK
  <1>5. CaptureTypeOK'
    BY <1>1 DEF StopPosts, TypeInv, TypeOK, CaptureTypeOK, StopperPcs
  <1>6. ChunkerTypeOK'
    BY DEF StopPosts, TypeInv, TypeOK, ChunkerTypeOK, chunkerVars
  <1> QED BY <1>4, <1>5, <1>6 DEF StopPosts, TypeInv

LEMMA FinalizeStopTyped ==
  ASSUME TypeInv, FinalizeStop
  PROVE  ready' \in Seq(Callbacks) /\ CaptureTypeOK' /\ ChunkerTypeOK'
         /\ (recording' => nrec' # 0)
  <1> DEFINE c == [kind |-> "stopped", id |-> Head(ready).id,
                   flush |-> FALSE, data |-> buffer]
  <1>1. Head(ready) \in Callbacks /\ Head(ready).kind = "finalize"
    BY HeadTyped DEF FinalizeStop, TypeInv, TypeOK
  <1>2. Head(ready).id \in Pipes
    BY <1>1 DEF Callbacks
  <1>3. c \in Callbacks
    BY <1>2, StoppedTyped DEF TypeInv, TypeOK, CaptureTypeOK
  <1>4. ready' = Tail(ready) \o <<c>> /\ Tail(ready) \in Seq(Callbacks)
    BY TailTyped DEF FinalizeStop, Schedules, TypeInv, TypeOK
  <1>5. ready' \in Seq(Callbacks)
    BY <1>3, <1>4
  <1>6. CaptureTypeOK'
    BY DEF FinalizeStop, TypeInv, TypeOK, CaptureTypeOK, captureVars
  <1>7. ChunkerTypeOK'
    BY DEF FinalizeStop, TypeInv, TypeOK, ChunkerTypeOK, chunkerVars
  <1> QED BY <1>5, <1>6, <1>7 DEF FinalizeStop, TypeInv, captureVars

LEMMA CancelRecordingTyped ==
  ASSUME TypeOK, CancelRecording
  PROVE  ready' \in Seq(Callbacks) /\ CaptureTypeOK' /\ ChunkerTypeOK'
         /\ (recording' => nrec' # 0)
  <1> DEFINE stop == IF recording /\ Streaming
                       THEN <<StopCall("stop_spawn", FALSE)>> ELSE <<>>
             new  == stop \o <<Callback("cancel", 0)>>
  <1>1. StopCall("stop_spawn", FALSE) \in Callbacks
        /\ Callback("cancel", 0) \in Callbacks
    BY StopCallTyped, CallbackTyped DEF Kinds
  <1>2. stop \in Seq(Callbacks)
    <2>1. <<StopCall("stop_spawn", FALSE)>> \in Seq(Callbacks)
      BY <1>1, SingletonTyped, Zenon
    <2> QED BY <2>1, EmptyTyped
  <1>4. ready' = ready \o new
    BY DEF CancelRecording, CallSoon
  <1> HIDE DEF stop
  <1>3. new \in Seq(Callbacks)
    BY <1>1, <1>2
  <1> HIDE DEF new
  <1>5. ready' \in Seq(Callbacks)
    BY <1>3, <1>4 DEF TypeOK
  <1>6. CaptureTypeOK'
    BY EmptyTyped DEF CancelRecording, TypeOK, CaptureTypeOK
  <1>7. ChunkerTypeOK'
    BY DEF CancelRecording, TypeOK, ChunkerTypeOK, chunkerVars
  <1> QED BY <1>5, <1>6, <1>7 DEF CancelRecording

\* A block is heard in a recording that exists: recording => nrec # 0.
LEMMA AudioBlockTyped ==
  ASSUME TypeInv, AudioBlock
  PROVE  ready' \in Seq(Callbacks) /\ CaptureTypeOK' /\ ChunkerTypeOK'
         /\ (recording' => nrec' # 0)
  <1> DEFINE block == <<nrec, Len(buffer) + 1>>
  <1>1. buffer \in Seq(Block) /\ chunkBuf \in Seq(Block)
    BY DEF TypeInv, TypeOK, CaptureTypeOK, ChunkerTypeOK, Audio
  <1>2. nrec \in Recs
    BY DEF AudioBlock, TypeInv, TypeOK, CaptureTypeOK, Recs
  <1>3. Len(buffer) \in Nat
    BY <1>1
  <1>4. Len(buffer) + 1 \in 1..MaxBlocks
    BY <1>3, BoundsAssumption DEF AudioBlock
  <1>5. block \in Block
    BY <1>2, <1>4 DEF Block
  <1>6. buffer' \in Audio /\ chunkBuf' \in Audio
    <2>1. buffer' = Append(buffer, block)
          /\ chunkBuf' \in {chunkBuf, Append(chunkBuf, block)}
      BY DEF AudioBlock
    <2>2. Append(buffer, block) \in Audio /\ Append(chunkBuf, block) \in Audio
      BY <1>1, <1>5, AppendTyped DEF Audio
    <2> QED BY <2>1, <2>2, <1>1 DEF Audio
  <1>7. CaptureTypeOK' /\ ChunkerTypeOK'
    BY <1>6 DEF AudioBlock, TypeInv, TypeOK, CaptureTypeOK, ChunkerTypeOK
  <1> QED BY <1>7 DEF AudioBlock, TypeInv, TypeOK

-----------------------------------------------------------------------------
\* The composed system.

\* The part of TypeInv about the user and the history variables.
UserTypeOK ==
  /\ ncancel \in 0..MaxCancels
  /\ spoken \in [Recs -> Nat]
  /\ kept \subseteq Recs
  /\ origin \in [Pipes -> 0..MaxRecs]
  /\ revoked \subseteq Pipes
  /\ cut \subseteq Pipes

LEMMA PartsOfTypeInv ==
  TypeInv <=> /\ ready \in Seq(Callbacks)
              /\ CaptureTypeOK
              /\ ChunkerTypeOK
              /\ OrchestratorTypeOK
              /\ UserTypeOK
              /\ recording => nrec # 0
  BY DEF TypeInv, TypeOK, UserTypeOK

\* The parts a step leaves alone keep their types.
LEMMA UntouchedTyped ==
  ASSUME TypeInv
  PROVE  /\ UNCHANGED orchestratorVars => OrchestratorTypeOK'
         /\ UNCHANGED captureVars => CaptureTypeOK' /\ (recording' => nrec' # 0)
         /\ UNCHANGED chunkerVars => ChunkerTypeOK'
         /\ UNCHANGED userVars => UserTypeOK'
  <1>1. ASSUME UNCHANGED orchestratorVars PROVE OrchestratorTypeOK'
    BY <1>1, UnchangedTyped DEF TypeInv, TypeOK, OrchestratorTypeOK, orchestratorVars
  <1>2. ASSUME UNCHANGED captureVars PROVE CaptureTypeOK' /\ (recording' => nrec' # 0)
    BY <1>2 DEF TypeInv, TypeOK, CaptureTypeOK, captureVars
  <1>3. ASSUME UNCHANGED chunkerVars PROVE ChunkerTypeOK'
    BY <1>3 DEF TypeInv, TypeOK, ChunkerTypeOK, chunkerVars
  <1>4. ASSUME UNCHANGED userVars PROVE UserTypeOK'
    BY <1>4 DEF TypeInv, TypeOK, UserTypeOK, userVars, historyOfUser
  <1> QED BY <1>1, <1>2, <1>3, <1>4

LEMMA HotkeyStartTyped == TypeInv /\ HotkeyStart => TypeInv'
  <1> SUFFICES ASSUME TypeInv, HotkeyStart PROVE TypeInv'
    OBVIOUS
  <1>1. ready' \in Seq(Callbacks) /\ CaptureTypeOK' /\ ChunkerTypeOK'
        /\ (recording' => nrec' # 0)
    BY StartRecordingTyped DEF HotkeyStart, TypeInv
  <1>2. SharedTypeOK'
    BY DEF HotkeyStart, TypeInv, TypeOK, OrchestratorTypeOK, SharedTypeOK, AppStates
  <1>3. OrchestratorTypeOK'
    BY <1>2, UnchangedTyped DEF HotkeyStart, TypeInv, TypeOK, OrchestratorTypeOK
  <1>4. UserTypeOK'
    BY UntouchedTyped DEF HotkeyStart
  <1> QED BY <1>1, <1>3, <1>4 DEF TypeInv, TypeOK, UserTypeOK

LEMMA HotkeyCancelTyped == TypeInv /\ HotkeyCancel => TypeInv'
  <1> SUFFICES ASSUME TypeInv, HotkeyCancel PROVE TypeInv'
    OBVIOUS
  <1>1. ready' \in Seq(Callbacks) /\ CaptureTypeOK' /\ ChunkerTypeOK'
        /\ (recording' => nrec' # 0)
    BY CancelRecordingTyped DEF HotkeyCancel, TypeInv
  <1>2. SharedTypeOK'
    BY DEF HotkeyCancel, TypeInv, TypeOK, OrchestratorTypeOK, SharedTypeOK, AppStates
  <1>3. OrchestratorTypeOK'
    BY <1>2, UnchangedTyped DEF HotkeyCancel, TypeInv, TypeOK, OrchestratorTypeOK
  <1>4. UserTypeOK'
    <2>1. ncancel \in 0..MaxCancels /\ ncancel < MaxCancels /\ ncancel' = ncancel + 1
      BY DEF HotkeyCancel, TypeInv, TypeOK
    <2>2. ncancel' \in 0..MaxCancels
      BY <2>1, UserAssumption
    <2> QED
      BY <2>2 DEF HotkeyCancel, TypeInv, TypeOK, UserTypeOK
  <1> QED BY <1>1, <1>3, <1>4 DEF TypeInv, TypeOK, UserTypeOK

LEMMA StopRecordingTyped == TypeInv /\ StopRecording => TypeInv'
  <1> SUFFICES ASSUME TypeInv, NEW t \in Threads, StopStarts(t) \/ StopProceeds(t)
               PROVE  TypeInv'
    BY DEF StopRecording
  <1>1. CASE StopStarts(t)
    <2>1. ready' \in Seq(Callbacks) /\ CaptureTypeOK' /\ ChunkerTypeOK'
          /\ (recording' => nrec' # 0)
      BY <1>1, StopTestsTyped DEF StopStarts
    <2>2. OrchestratorTypeOK' /\ UserTypeOK'
      BY <1>1, UntouchedTyped DEF StopStarts
    <2> QED BY <2>1, <2>2 DEF TypeInv, TypeOK, UserTypeOK
  <1>2. CASE StopProceeds(t)
    <2>1. ready' \in Seq(Callbacks) /\ CaptureTypeOK' /\ ChunkerTypeOK'
          /\ (recording' => nrec' # 0)
      BY <1>2, StopFlipsTyped, StopPostsTyped DEF StopProceeds, TypeInv
    <2>2. OrchestratorTypeOK'
      BY <1>2, UntouchedTyped DEF StopProceeds
    <2>3. origin' \in [Pipes -> 0..MaxRecs]
      BY <1>2 DEF StopProceeds, TypeInv, TypeOK, CaptureTypeOK
    <2>4. UserTypeOK'
      BY <1>2, <2>3 DEF StopProceeds, TypeInv, TypeOK, UserTypeOK
    <2> QED BY <2>1, <2>2, <2>4 DEF TypeInv, TypeOK, UserTypeOK
  <1> QED BY <1>1, <1>2

LEMMA SpeakTyped == TypeInv /\ Speak => TypeInv'
  <1> SUFFICES ASSUME TypeInv, Speak PROVE TypeInv'
    OBVIOUS
  <1>1. ready' \in Seq(Callbacks) /\ CaptureTypeOK' /\ ChunkerTypeOK'
        /\ (recording' => nrec' # 0)
    BY AudioBlockTyped DEF Speak
  <1>2. OrchestratorTypeOK'
    BY UntouchedTyped DEF Speak
  <1>3. nrec \in Recs /\ spoken \in [Recs -> Nat]
    BY DEF Speak, AudioBlock, TypeInv, TypeOK, CaptureTypeOK, Recs
  <1>4. spoken' \in [Recs -> Nat]
    BY <1>3 DEF Speak
  <1>5. UserTypeOK'
    BY <1>4 DEF Speak, TypeInv, TypeOK, UserTypeOK
  <1> QED BY <1>1, <1>2, <1>5 DEF TypeInv, TypeOK, UserTypeOK

LEMMA LoopCancelTyped == TypeInv /\ LoopCancel => TypeInv'
  <1> SUFFICES ASSUME TypeInv, LoopCancel PROVE TypeInv'
    OBVIOUS
  <1>1. ready' \in Seq(Callbacks) /\ OrchestratorTypeOK'
    BY CancelTyped DEF LoopCancel, TypeInv
  <1>2. CaptureTypeOK' /\ ChunkerTypeOK' /\ (recording' => nrec' # 0)
    BY UntouchedTyped DEF LoopCancel
  <1>3. 1..nstop \subseteq Pipes
    BY BoundsAssumption DEF TypeInv, TypeOK, CaptureTypeOK, Pipes
  <1>4. revoked' \subseteq Pipes /\ cut' \subseteq Pipes
    BY <1>3 DEF LoopCancel, TypeInv, TypeOK
  <1>5. UserTypeOK'
    BY <1>4 DEF LoopCancel, TypeInv, TypeOK, UserTypeOK
  <1> QED BY <1>1, <1>2, <1>5 DEF TypeInv, TypeOK, UserTypeOK

LEMMA LoopStepTyped == TypeInv /\ LoopStep => TypeInv'
  <1> SUFFICES ASSUME TypeInv, LoopStep PROVE TypeInv'
    OBVIOUS
  <1>0. TypeOK
    BY DEF TypeInv
  <1>1. CASE ChunkerStep
    <2>1. ready' \in Seq(Callbacks) /\ ChunkerTypeOK'
      BY <1>0, <1>1, StartTyped, LoopEndsTyped, LoopSleepsTyped, StopSpawnTyped,
         StopBeginTyped, StopFinishTyped DEF ChunkerStep
    <2>2. CaptureTypeOK' /\ OrchestratorTypeOK' /\ UserTypeOK'
          /\ (recording' => nrec' # 0)
      BY <1>1, UntouchedTyped DEF ChunkerStep
    <2> QED BY <2>1, <2>2 DEF TypeInv, TypeOK, UserTypeOK
  <1>2. CASE CaptureStep
    <2>1. ready' \in Seq(Callbacks) /\ CaptureTypeOK' /\ ChunkerTypeOK'
          /\ (recording' => nrec' # 0)
      BY <1>2, FinalizeStopTyped DEF CaptureStep
    <2>2. OrchestratorTypeOK' /\ UserTypeOK'
      BY <1>2, UntouchedTyped DEF CaptureStep
    <2> QED BY <2>1, <2>2 DEF TypeInv, TypeOK, UserTypeOK
  <1>3. CASE OrchestratorStep
    <2>1. ready' \in Seq(Callbacks) /\ OrchestratorTypeOK'
      BY <1>0, <1>3, PrepareTyped, OnRecordingStoppedTyped, OnPipelineDoneTyped,
         OnAudioChunkTyped, IgnoredTyped, StreamConsumesTyped,
         StreamReachesEndTyped, StreamFinalTyped, PipelineStepTyped,
         TimerFiresTyped DEF OrchestratorStep
    <2>2. CaptureTypeOK' /\ ChunkerTypeOK' /\ UserTypeOK'
          /\ (recording' => nrec' # 0)
      BY <1>3, UntouchedTyped DEF OrchestratorStep
    <2> QED BY <2>1, <2>2 DEF TypeInv, TypeOK, UserTypeOK
  <1> QED BY <1>1, <1>2, <1>3, LoopCancelTyped DEF LoopStep

LEMMA ExternalTyped == TypeInv /\ External => TypeInv'
  <1> SUFFICES ASSUME TypeInv, External PROVE TypeInv'
    OBVIOUS
  <1>0. TypeOK
    BY DEF TypeInv
  <1>1. CASE \E r \in Recs : IntervalElapses(r)
    <2>1. ready' \in Seq(Callbacks) /\ ChunkerTypeOK'
      BY <1>0, <1>1, LoopTickTyped DEF IntervalElapses
    <2>2. CaptureTypeOK' /\ OrchestratorTypeOK' /\ UserTypeOK'
          /\ (recording' => nrec' # 0)
      BY <1>1, UntouchedTyped DEF IntervalElapses
    <2> QED BY <2>1, <2>2 DEF TypeInv, TypeOK, UserTypeOK
  <1>2. CASE (\E p \in Pipes : CallCompletes(p)) \/ PassCompletes \/ TimerExpires
    <2>1. ready' \in Seq(Callbacks) /\ OrchestratorTypeOK'
      BY <1>0, <1>2, CompletesTyped, StreamPassDoneTyped, TimerElapsesTyped
         DEF CallCompletes, PassCompletes, TimerExpires
    <2>2. CaptureTypeOK' /\ ChunkerTypeOK' /\ UserTypeOK'
          /\ (recording' => nrec' # 0)
      BY <1>2, UntouchedTyped DEF CallCompletes, PassCompletes, TimerExpires
    <2> QED BY <2>1, <2>2 DEF TypeInv, TypeOK, UserTypeOK
  <1> QED BY <1>1, <1>2 DEF External

LEMMA TypeInvStep == TypeInv /\ [Next]_vars => TypeInv'
  <1> SUFFICES ASSUME TypeInv, [Next]_vars PROVE TypeInv'
    OBVIOUS
  <1>1. CASE UNCHANGED vars
    <2>1. CaptureTypeOK' /\ ChunkerTypeOK' /\ OrchestratorTypeOK' /\ UserTypeOK'
          /\ (recording' => nrec' # 0)
      BY <1>1, UntouchedTyped DEF vars
    <2>2. ready' \in Seq(Callbacks)
      BY <1>1 DEF vars, TypeInv, TypeOK
    <2> QED BY <2>1, <2>2 DEF TypeInv, TypeOK, UserTypeOK
  <1> QED
    BY <1>1, HotkeyStartTyped, HotkeyCancelTyped, StopRecordingTyped, SpeakTyped,
       LoopStepTyped, ExternalTyped DEF Next

\* Every variable of the dictation path keeps its type in every behaviour: in
\* particular a second RecordingStopped, whenever it arrives, replaces the
\* audio of the first (_current_audio_bytes), and every callback of the loop
\* names a task that exists.
THEOREM TypeCorrect == Spec => []TypeOK
  <1>1. Init => TypeInv
    BY TypeInvInit
  <1>2. TypeInv /\ [Next]_vars => TypeInv'
    BY TypeInvStep
  <1>3. TypeInv => TypeOK
    BY DEF TypeInv
  <1> QED BY <1>1, <1>2, <1>3, PTL DEF Spec

-----------------------------------------------------------------------------
(***************************************************************************)
(* The error timer is never lost: in every behaviour, for every bound and  *)
(* every configuration, the machine is in "error" only while a timer that  *)
(* will take it out is armed or due.                                       *)
(*                                                                         *)
(* ErrorTimerArmed is inductive once the timer's type is known.  The only  *)
(* two events that enter "error" are raised next to an _emit_error, which  *)
(* arms the timer in the same step; the only step that disarms it is the   *)
(* current timer's own, which leaves "error" in the same step.             *)
(***************************************************************************)

\* A step that leaves the timer alone and does not enter "error".
LEMMA TimerKept ==
  ASSUME ErrorTimerArmed, UNCHANGED timerVars, sm' = "error" => sm = "error"
  PROVE  ErrorTimerArmed'
  BY DEF ErrorTimerArmed, timerVars

LEMMA NoErrorKeepsTimer ==
  ASSUME ErrorTimerArmed, NoError, sm' = "error" => sm = "error"
  PROVE  ErrorTimerArmed'
  BY DEF ErrorTimerArmed, NoError

\* A step that emits a non-recoverable error, whatever it does to the machine.
LEMMA EmitFatalArms ==
  ASSUME NEW p, EmitFatal(p)
  PROVE  ErrorTimerArmed'
  BY DEF ErrorTimerArmed, EmitFatal

LEMMA OrchestratorUnchangedKeepsTimer ==
  ASSUME ErrorTimerArmed, UNCHANGED orchestratorVars
  PROVE  ErrorTimerArmed'
  BY DEF ErrorTimerArmed, orchestratorVars, timerVars, sharedVars

\* _on_recording_stopped() moves towards "transcribing".
LEMMA OnRecordingStoppedKeepsTimer ==
  ASSUME ErrorTimerArmed, OnRecordingStopped
  PROVE  ErrorTimerArmed'
  <1>1. UNCHANGED timerVars
    BY DEF OnRecordingStopped
  <1>2. ASSUME sm' = "error" PROVE sm = "error"
    <2> DEFINE s1 == IF sm = "idle" THEN Fire(sm, "toggle") ELSE sm
               s2 == IF s1 = "recording" THEN Fire(s1, "duration") ELSE s1
    <2>1. s2 = "error"
      BY <1>2 DEF OnRecordingStopped
    <2>2. s1 = "error"
      BY <2>1, FireEntersError
    <2> QED BY <2>2, FireEntersError
  <1> QED BY <1>1, <1>2, TimerKept

\* The stage that follows the transcript, entered in the state s.
LEMMA BeginsCleanupState ==
  ASSUME NEW p, NEW t, NEW s, BeginsCleanup(p, t, s), sm' = "error"
  PROVE  s = "error"
  BY FireEntersError DEF BeginsCleanup

LEMMA PipelineStepKeepsTimer ==
  ASSUME ErrorTimerArmed, NEW p \in Pipes, PipelineStep(p)
  PROVE  ErrorTimerArmed'
  <1>1. CASE WaitsForStream(p) \/ CallsAsr(p) \/ Unwinds(p)
    BY <1>1, NoErrorKeepsTimer DEF WaitsForStream, CallsAsr, Unwinds, sharedVars
  <1>2. CASE Pauses(p, "asr", "asrPause", "asr")
             \/ Pauses(p, "clean", "cleanPause", "cleanup")
             \/ Retries(p, "asr", "asrPause") \/ Retries(p, "clean", "cleanPause")
             \/ InsertFallsBack(p) \/ UndoReturns(p)
    BY <1>2, NoErrorKeepsTimer
       DEF Pauses, Retries, InsertFallsBack, UndoReturns, sharedVars
  <1>3. CASE AsrHasNoAudio(p) \/ AsrExhausted(p) \/ InsertionFails(p)
    BY <1>3, EmitFatalArms DEF AsrHasNoAudio, AsrExhausted, InsertionFails
  <1>4. CASE TakesStreamed(p) \/ AsrReturns(p)
    <2>1. PICK t : BeginsCleanup(p, t, Fire(sm, "transcript")) /\ NoError
      BY <1>4 DEF TakesStreamed, AsrReturns
    <2>2. sm' = "error" => sm = "error"
      BY <2>1, BeginsCleanupState, FireEntersError
    <2> QED BY <2>1, <2>2, NoErrorKeepsTimer
  <1>5. CASE CleanupReturns(p) \/ CleanupExhausted(p)
    <2>1. PICK e \in {"cleaned", "cleanup_failed"} : EntersInsertion(p, e)
      BY <1>5 DEF CleanupReturns, CleanupExhausted
    <2>2. sm' = "error" => sm = "error"
      BY <2>1, FireEntersError DEF EntersInsertion
    <2> QED BY <2>1, <2>2, NoErrorKeepsTimer DEF EntersInsertion
  <1>6. CASE InsertReturns(p) \/ ClipboardReturns(p)
    <2>1. PICK e \in {"inserted", "clipboard"} : Inserted(p, e)
      BY <1>6 DEF InsertReturns, ClipboardReturns
    <2>2. sm' = "error" => sm = "error"
      BY <2>1, FireEntersError DEF Inserted
    <2> QED BY <2>1, <2>2, NoErrorKeepsTimer DEF Inserted
  <1> QED BY <1>1, <1>2, <1>3, <1>4, <1>5, <1>6 DEF PipelineStep

\* _timeout() disarms the current timer only, and then leaves "error".
LEMMA TimerFiresKeepsTimer ==
  ASSUME TypeOK, ErrorTimerArmed, TimerFires
  PROVE  ErrorTimerArmed'
  <1> DEFINE current == timer = "due" /\ Head(ready).id = timerGen
  <1>1. CASE current /\ sm = "error"
    BY <1>1, FireTimeout DEF TimerFires, ErrorTimerArmed
  <1>2. CASE ~(current /\ sm = "error")
    BY <1>2 DEF TimerFires, ErrorTimerArmed
  <1> QED BY <1>1, <1>2

LEMMA OrchestratorStepKeepsTimer ==
  ASSUME TypeOK, ErrorTimerArmed, OrchestratorStep
  PROVE  ErrorTimerArmed'
  <1>1. CASE Prepare \/ OnPipelineDone \/ OnAudioChunk
    BY <1>1, TimerKept DEF Prepare, OnPipelineDone, OnAudioChunk, sharedVars
  <1>2. CASE IgnoreAudioChunk \/ StreamUnwinds
    BY <1>2, OrchestratorUnchangedKeepsTimer DEF IgnoreAudioChunk, StreamUnwinds
  <1>3. CASE StreamConsumes \/ StreamReachesEnd \/ StreamFinal \/ StreamFails
    BY <1>3, TimerKept
       DEF StreamConsumes, StreamReachesEnd, StreamFinal, StreamFails, sharedVars
  <1> QED
    BY <1>1, <1>2, <1>3, OnRecordingStoppedKeepsTimer, PipelineStepKeepsTimer,
       TimerFiresKeepsTimer DEF OrchestratorStep

LEMMA ErrorTimerStep == TypeOK /\ ErrorTimerArmed /\ [Next]_vars => ErrorTimerArmed'
  <1> SUFFICES ASSUME TypeOK, ErrorTimerArmed, [Next]_vars PROVE ErrorTimerArmed'
    OBVIOUS
  <1>1. CASE UNCHANGED vars
    BY <1>1, OrchestratorUnchangedKeepsTimer DEF vars
  <1>2. CASE HotkeyStart \/ HotkeyCancel
    BY <1>2, TimerKept DEF HotkeyStart, HotkeyCancel
  <1>3. CASE StopRecording \/ Speak
    BY <1>3, OrchestratorUnchangedKeepsTimer
       DEF StopRecording, StopStarts, StopProceeds, Speak
  <1>4. CASE LoopStep
    <2>1. CASE ChunkerStep \/ CaptureStep
      BY <2>1, OrchestratorUnchangedKeepsTimer DEF ChunkerStep, CaptureStep
    <2>2. CASE OrchestratorStep
      BY <2>2, OrchestratorStepKeepsTimer
    <2>3. CASE LoopCancel
      BY <2>3, TimerKept DEF LoopCancel, Cancel
    <2> QED BY <1>4, <2>1, <2>2, <2>3 DEF LoopStep
  <1>5. CASE External
    <2>1. CASE (\E p \in Pipes : CallCompletes(p)) \/ \E r \in Recs : IntervalElapses(r)
      BY <2>1, OrchestratorUnchangedKeepsTimer
         DEF CallCompletes, Completes, IntervalElapses
    <2>2. CASE PassCompletes
      BY <2>2, TimerKept DEF PassCompletes, StreamPassDone, sharedVars
    <2>3. CASE TimerExpires
      BY <2>3 DEF TimerExpires, TimerElapses, ErrorTimerArmed, sharedVars
    <2> QED BY <1>5, <2>1, <2>2, <2>3 DEF External
  <1> QED BY <1>1, <1>2, <1>3, <1>4, <1>5 DEF Next

\* Whenever the machine is in "error" the timer that takes it out of there is
\* running: no cancellation, later error or second pipeline loses it
\* (_schedule_error_timeout, and every transition into "error").
THEOREM ErrorTimer == Spec => []ErrorTimerArmed
  <1>1. Init => ErrorTimerArmed
    BY DEF Init, OrchestratorInit, ErrorTimerArmed
  <1>2. TypeOK /\ ErrorTimerArmed /\ [Next]_vars => ErrorTimerArmed'
    BY ErrorTimerStep
  <1> QED BY <1>1, <1>2, TypeCorrect, PTL DEF Spec

-----------------------------------------------------------------------------
(***************************************************************************)
(* A pipeline inserts at most once, for every bound, every configuration   *)
(* and any failures.                                                       *)
(*                                                                         *)
(* A pipeline whose text has been typed is past its insertion, and never   *)
(* comes back: no step takes it out of Past.  The one way back would be a  *)
(* second RecordingStopped that starts it afresh, so the invariant must    *)
(* follow the number of a pipeline from stop_recording through the loop's  *)
(* queue: each number is announced by at most one callback, and only while *)
(* no task bears it.                                                       *)
(***************************************************************************)

\* Callbacks that lead to a new pipeline; pipelines that cannot insert, and those
\* whose task is done.
Births == {"finalize", "stopped"}
Past == {"cancelled", "ended", "gone"}
Done == {"ended", "gone"}

\* What a callback says of the pipeline it names.
Announces(c) == c.kind \in Births => c.id <= nstop /\ pc[c.id] = "none"
Resumes(c) == c.kind = "joined" => c.id \in Pipes /\ pc[c.id] \in Done

BirthsOnce ==
  \A i, j \in 1..Len(ready) :
    /\ ready[i].kind \in Births
    /\ ready[j].kind \in Births
    /\ ready[i].id = ready[j].id
    => i = j

Numbered ==
  /\ \A i \in 1..Len(ready) : Announces(ready[i]) /\ Resumes(ready[i])
  /\ BirthsOnce
  /\ \A p \in Pipes : p > nstop => pc[p] = "none"

InsertedPast == \A i \in Insertions : pc[out[i].pipe] \in Past

InsertedInv == Numbered /\ InsertedPast /\ InsertedOnce

-----------------------------------------------------------------------------
\* The queue.

LEMMA ConcatAt ==
  ASSUME NEW S, NEW s \in Seq(S), NEW t \in Seq(S)
  PROVE  /\ Len(s \o t) = Len(s) + Len(t)
         /\ \A i \in 1..Len(s) : (s \o t)[i] = s[i]
         /\ \A i \in 1..Len(t) : (s \o t)[Len(s) + i] = t[i]
         /\ \A i \in (Len(s) + 1)..(Len(s) + Len(t)) : (s \o t)[i] = t[i - Len(s)]
  OBVIOUS

LEMMA SeqAt ==
  ASSUME NEW S, NEW s \in Seq(S)
  PROVE  Len(s) \in Nat /\ \A i \in 1..Len(s) : s[i] \in S
  OBVIOUS

LEMMA TailAt ==
  ASSUME NEW S, NEW s \in Seq(S), s # <<>>
  PROVE  /\ Tail(s) \in Seq(S)
         /\ Len(s) \in Nat /\ Len(s) >= 1
         /\ Len(Tail(s)) = Len(s) - 1
         /\ \A i \in 1..Len(Tail(s)) : Tail(s)[i] = s[i + 1]
         /\ Head(s) = s[1]
  OBVIOUS

\* The queue after a step that appends new: an older callback, d places back,
\* or one of new.
Shifted(d, new) ==
  /\ Len(ready') = Len(ready) - d + Len(new)
  /\ \A i \in 1..Len(ready') :
       \/ i <= Len(ready) - d /\ i + d \in 1..Len(ready) /\ ready'[i] = ready[i + d]
       \/ i > Len(ready) - d /\ i - (Len(ready) - d) \in 1..Len(new)
          /\ ready'[i] = new[i - (Len(ready) - d)]

LEMMA CallSoonShifts ==
  ASSUME ready \in Seq(Callbacks), NEW new \in Seq(Callbacks), CallSoon(new)
  PROVE  Shifted(0, new)
  <1>1. /\ Len(ready) \in Nat /\ Len(new) \in Nat
        /\ Len(ready') = Len(ready) + Len(new)
        /\ \A i \in 1..Len(ready) : ready'[i] = ready[i]
        /\ \A i \in (Len(ready) + 1)..(Len(ready) + Len(new)) :
             ready'[i] = new[i - Len(ready)]
    BY ConcatAt DEF CallSoon
  <1> QED BY <1>1 DEF Shifted

LEMMA SchedulesShifts ==
  ASSUME ready \in Seq(Callbacks), ready # <<>>,
         NEW new \in Seq(Callbacks), Schedules(new)
  PROVE  Shifted(1, new)
  <1> DEFINE t == Tail(ready)
  <1>1. /\ t \in Seq(Callbacks)
        /\ Len(ready) \in Nat /\ Len(new) \in Nat /\ Len(ready) >= 1
        /\ Len(t) = Len(ready) - 1
        /\ \A i \in 1..Len(t) : t[i] = ready[i + 1]
    BY TailAt
  <1> HIDE DEF t
  <1>2. ready' = t \o new
    BY DEF t, Schedules
  <1>3. /\ Len(ready') = Len(t) + Len(new)
        /\ \A i \in 1..Len(t) : ready'[i] = t[i]
        /\ \A i \in (Len(t) + 1)..(Len(t) + Len(new)) : ready'[i] = new[i - Len(t)]
    BY <1>1, <1>2, ConcatAt
  <1> QED BY <1>1, <1>3 DEF Shifted

\* Most steps announce no pipeline, and no pipeline that exists vanishes.
PcKept ==
  \A p \in Pipes : /\ pc'[p] = "none" <=> pc[p] = "none"
                   /\ pc[p] \in Past => pc'[p] \in Past
                   /\ pc[p] \in Done => pc'[p] \in Done

Announcing(new) ==
  \A i \in 1..Len(new) :
    /\ new[i].kind \notin Births
    /\ new[i].kind = "joined" => new[i].id \in Pipes /\ pc'[new[i].id] \in Done

LEMMA NumberedKept ==
  ASSUME TypeOK, Numbered, NEW d \in {0, 1}, NEW new \in Seq(Callbacks),
         Shifted(d, new), Announcing(new), PcKept, nstop' = nstop
  PROVE  Numbered'
  <1>0. /\ ready \in Seq(Callbacks) /\ Len(ready) \in Nat /\ Len(new) \in Nat
        /\ \A i \in 1..Len(ready) : ready[i].kind \in Births => ready[i].id \in Pipes
    <2>1. \A i \in 1..Len(ready) : ready[i] \in Callbacks
      BY DEF TypeOK
    <2> QED BY <2>1 DEF TypeOK, Callbacks, Births
  <1>1. ASSUME NEW i \in 1..Len(ready')
        PROVE  Announces(ready[i])' /\ Resumes(ready[i])'
    <2>1. CASE i + d \in 1..Len(ready) /\ ready'[i] = ready[i + d]
      <3>1. Announces(ready[i + d]) /\ Resumes(ready[i + d])
        BY <2>1 DEF Numbered
      <3> QED BY <1>0, <2>1, <3>1 DEF Announces, Resumes, PcKept
    <2>2. CASE i - (Len(ready) - d) \in 1..Len(new)
               /\ ready'[i] = new[i - (Len(ready) - d)]
      BY <2>2 DEF Announcing, Announces, Resumes
    <2> QED BY <2>1, <2>2 DEF Shifted
  <1>2. BirthsOnce'
    <2> SUFFICES ASSUME NEW i \in 1..Len(ready'), NEW j \in 1..Len(ready'),
                        ready'[i].kind \in Births, ready'[j].kind \in Births,
                        ready'[i].id = ready'[j].id
                 PROVE  i = j
      BY DEF BirthsOnce
    <2>1. ASSUME NEW k \in 1..Len(ready'), ready'[k].kind \in Births
          PROVE  k + d \in 1..Len(ready) /\ ready'[k] = ready[k + d]
      BY <2>1 DEF Shifted, Announcing
    <2>2. i + d = j + d
      BY <2>1 DEF Numbered, BirthsOnce
    <2> QED BY <2>2
  <1>3. \A p \in Pipes : p > nstop' => pc'[p] = "none"
    BY DEF Numbered, PcKept
  <1> QED BY <1>1, <1>2, <1>3 DEF Numbered

LEMMA NumberedSchedules ==
  ASSUME TypeOK, Numbered, NEW k, Runs(k), NEW new \in Seq(Callbacks),
         Schedules(new), Announcing(new), PcKept, nstop' = nstop
  PROVE  Numbered'
  <1>1. ready \in Seq(Callbacks) /\ ready # <<>>
    BY DEF TypeOK, Runs
  <1>2. Shifted(1, new)
    BY <1>1, SchedulesShifts
  <1> QED BY <1>2, NumberedKept

LEMMA NumberedCallSoon ==
  ASSUME TypeOK, Numbered, NEW new \in Seq(Callbacks),
         CallSoon(new), Announcing(new), PcKept, nstop' = nstop
  PROVE  Numbered'
  <1>1. Shifted(0, new)
    BY CallSoonShifts DEF TypeOK
  <1> QED BY <1>1, NumberedKept

\* Callbacks that announce nothing.
LEMMA NothingAnnounced == <<>> \in Seq(Callbacks) /\ Announcing(<<>>)
  BY DEF Announcing

LEMMA OneAnnounced ==
  ASSUME NEW c \in Callbacks, c.kind \notin Births, c.kind # "joined"
  PROVE  <<c>> \in Seq(Callbacks) /\ Announcing(<<c>>)
  BY DEF Announcing

LEMMA CallbackAnnounced ==
  ASSUME NEW k \in Kinds \ {"finalize", "stopped", "joined"}, NEW n \in Nat
  PROVE  <<Callback(k, n)>> \in Seq(Callbacks) /\ Announcing(<<Callback(k, n)>>)
  <1>1. Callback(k, n) \in Callbacks /\ Callback(k, n).kind = k
    BY CallbackTyped DEF Callback
  <1> QED BY <1>1, OneAnnounced DEF Births

LEMMA StopCallAnnounced ==
  ASSUME NEW k \in {"stop_spawn", "stop_begin", "stop_resume"}, NEW f \in BOOLEAN
  PROVE  <<StopCall(k, f)>> \in Seq(Callbacks) /\ Announcing(<<StopCall(k, f)>>)
  <1>1. StopCall(k, f) \in Callbacks /\ StopCall(k, f).kind = k
    BY StopCallTyped DEF StopCall, Callback
  <1> QED BY <1>1, OneAnnounced DEF Births

LEMMA ChunkEventAnnounced ==
  ASSUME NEW f \in BOOLEAN, NEW d \in Audio
  PROVE  <<ChunkEvent(f, d)>> \in Seq(Callbacks) /\ Announcing(<<ChunkEvent(f, d)>>)
  <1>1. ChunkEvent(f, d) \in Callbacks /\ ChunkEvent(f, d).kind = "chunk"
    BY ChunkEventTyped DEF ChunkEvent
  <1> QED BY <1>1, OneAnnounced DEF Births

-----------------------------------------------------------------------------
\* The insertions.

LEMMA OutTyped ==
  ASSUME TypeOK
  PROVE  /\ out \in Seq([pipe : Pipes, text : Audio])
         /\ Len(out) \in Nat
         /\ \A i \in 1..Len(out) : out[i].pipe \in Pipes
  <1> DEFINE R == [pipe : Pipes, text : Audio]
  <1>1. out \in Seq(R)
    BY DEF TypeOK, OrchestratorTypeOK, HistoryTypeOK
  <1>2. \A x \in R : x.pipe \in Pipes
    OBVIOUS
  <1> HIDE DEF R
  <1>3. Len(out) \in Nat /\ \A i \in 1..Len(out) : out[i] \in R
    BY <1>1, SeqAt
  <1>4. \A i \in 1..Len(out) : out[i].pipe \in Pipes
    BY <1>2, <1>3
  <1> QED BY <1>1, <1>3, <1>4 DEF R

LEMMA PcUnchangedKept ==
  ASSUME UNCHANGED pc
  PROVE  PcKept
  BY DEF PcKept

LEMMA PcMovesKept ==
  ASSUME TypeOK, NEW p \in Pipes, NEW x, pc' = [pc EXCEPT ![p] = x],
         pc[p] # "none", x # "none", pc[p] \in Past => x \in Past,
         pc[p] \in Done => x \in Done
  PROVE  PcKept
  BY DEF PcKept, TypeOK, OrchestratorTypeOK, PipeTypeOK

\* A step makes no insertion, or one by a pipeline it takes past inserting.
LEMMA InsertionsKept ==
  ASSUME TypeOK, InsertedPast, InsertedOnce, PcKept,
         \/ UNCHANGED out
         \/ \E p \in Pipes : \E t :
              /\ pc[p] \notin Past /\ pc'[p] \in Past
              /\ out' = Append(out, [pipe |-> p, text |-> t])
  PROVE  InsertedPast' /\ InsertedOnce'
  <1>0. /\ out \in Seq([pipe : Pipes, text : Audio]) /\ Len(out) \in Nat
        /\ \A i \in 1..Len(out) : out[i].pipe \in Pipes
    BY OutTyped
  <1>1. CASE UNCHANGED out
    BY <1>0, <1>1 DEF InsertedPast, InsertedOnce, Insertions, PcKept
  <1>2. ASSUME NEW p \in Pipes, NEW t, pc[p] \notin Past, pc'[p] \in Past,
               out' = Append(out, [pipe |-> p, text |-> t])
        PROVE  InsertedPast' /\ InsertedOnce'
    <2>1. /\ Len(out') = Len(out) + 1
          /\ \A i \in 1..Len(out) : out'[i] = out[i]
          /\ out'[Len(out) + 1].pipe = p
      BY <1>0, <1>2
    <2>2. \A i \in 1..Len(out) : out[i].pipe # p
      BY <1>2 DEF InsertedPast, Insertions
    <2>3. InsertedPast'
      BY <1>0, <1>2, <2>1 DEF InsertedPast, Insertions, PcKept
    <2>4. InsertedOnce'
      BY <1>0, <2>1, <2>2 DEF InsertedOnce, Insertions
    <2> QED BY <2>3, <2>4
  <1> QED BY <1>1, <1>2

\* Steps that leave the pipelines and the insertions alone.
LEMMA QuietKept ==
  ASSUME TypeOK, InsertedInv, UNCHANGED <<pc, out, nstop>>,
         NEW new \in Seq(Callbacks), Announcing(new),
         \/ CallSoon(new)
         \/ \E k : Runs(k) /\ Schedules(new)
  PROVE  InsertedInv'
  <1>1. PcKept
    BY PcUnchangedKept
  <1>2. Numbered'
    BY <1>1, NumberedCallSoon, NumberedSchedules DEF InsertedInv
  <1> QED BY <1>1, <1>2, InsertionsKept DEF InsertedInv

\* Nothing that the invariant is about changes.
LEMMA StillKept ==
  ASSUME TypeOK, InsertedInv, UNCHANGED <<pc, out, nstop, ready>>
  PROVE  InsertedInv'
  <1>1. CallSoon(<<>>)
    BY DEF CallSoon, TypeOK
  <1> QED BY <1>1, QuietKept, NothingAnnounced

-----------------------------------------------------------------------------
\* The pipeline.

LEMMA MovesKept ==
  ASSUME TypeOK, InsertedInv, NEW p \in Pipes, Step(p),
         pc[p] \notin Past \union {"none"}, NEW x, x # "none",
         pc' = [pc EXCEPT ![p] = x], Schedules(<<>>), UNCHANGED <<out, nstop>>
  PROVE  InsertedInv'
  <1>1. PcKept
    BY PcMovesKept DEF Past, Done
  <1>2. Numbered'
    BY <1>1, NothingAnnounced, NumberedSchedules DEF Step, InsertedInv
  <1> QED BY <1>1, <1>2, InsertionsKept DEF InsertedInv

LEMMA EndsKept ==
  ASSUME TypeOK, InsertedInv, NEW p \in Pipes, Step(p), pc[p] # "none",
         pc' = [pc EXCEPT ![p] = "ended"], Schedules(<<Callback("joined", p)>>),
         UNCHANGED nstop,
         \/ UNCHANGED out
         \/ /\ pc[p] \notin Past
            /\ out' = Append(out, [pipe |-> p, text |-> text[p]])
  PROVE  InsertedInv'
  <1>0. pc'[p] = "ended"
    BY DEF TypeOK, OrchestratorTypeOK, PipeTypeOK
  <1>1. PcKept
    BY PcMovesKept DEF Past, Done
  <1>2. /\ Callback("joined", p) \in Callbacks
        /\ Callback("joined", p).kind = "joined"
        /\ Callback("joined", p).id = p
    BY CallbackTyped DEF Kinds, Pipes, Callback
  <1>3. /\ <<Callback("joined", p)>> \in Seq(Callbacks)
        /\ Announcing(<<Callback("joined", p)>>)
    BY <1>0, <1>2 DEF Announcing, Births, Done
  <1>4. Numbered'
    BY <1>1, <1>3, NumberedSchedules DEF Step, InsertedInv
  <1>5. InsertedPast' /\ InsertedOnce'
    BY <1>0, <1>1, InsertionsKept DEF InsertedInv, Past
  <1> QED BY <1>4, <1>5 DEF InsertedInv

\* Where a pipeline is when it enters the ASR stage or takes a streamed text.
LEMMA EntersFrom ==
  ASSUME NEW p, EntersAsr(p) \/ StreamOver(p)
  PROVE  pc[p] \in {"new", "streamed"}
  BY DEF EntersAsr, StreamOver, FindsNone, FindsStream

LEMMA BeginsCleanupKept ==
  ASSUME TypeOK, InsertedInv, NEW p \in Pipes, Step(p),
         pc[p] \notin Past \union {"none"}, NEW t, NEW s, BeginsCleanup(p, t, s),
         UNCHANGED <<out, nstop>>
  PROVE  InsertedInv'
  BY MovesKept DEF BeginsCleanup

LEMMA InsertedKept ==
  ASSUME TypeOK, InsertedInv, NEW p \in Pipes, Step(p), pc[p] \in {"insert", "clip"},
         NEW e, Inserted(p, e), UNCHANGED nstop
  PROVE  InsertedInv'
  <1>1. /\ \/ UNCHANGED out
           \/ out' = Append(out, [pipe |-> p, text |-> text[p]])
        /\ pc' = [pc EXCEPT ![p] = "ended"]
        /\ Schedules(<<Callback("joined", p)>>)
    BY DEF Inserted, Ends
  <1> QED BY <1>1, EndsKept DEF Past

LEMMA PipelineStepKept ==
  ASSUME TypeOK, InsertedInv, NEW p \in Pipes, PipelineStep(p), UNCHANGED nstop
  PROVE  InsertedInv'
  <1>1. CASE WaitsForStream(p)
    BY <1>1, MovesKept DEF WaitsForStream, FindsStream, Awaits, Past
  <1>2. CASE Pauses(p, "asr", "asrPause", "asr")
             \/ Pauses(p, "clean", "cleanPause", "cleanup")
    BY <1>2, MovesKept DEF Pauses, Awaits, Past
  <1>3. CASE Retries(p, "asr", "asrPause") \/ Retries(p, "clean", "cleanPause")
    BY <1>3, MovesKept DEF Retries, Awaits, Past
  <1>4. CASE InsertFallsBack(p) \/ UndoReturns(p)
    BY <1>4, MovesKept DEF InsertFallsBack, UndoReturns, Awaits, Past
  <1>5. CASE CleanupReturns(p) \/ CleanupExhausted(p)
    BY <1>5, MovesKept
       DEF CleanupReturns, CleanupExhausted, EntersInsertion, Awaits, Past
  <1>6. CASE CallsAsr(p)
    BY <1>6, EntersFrom, MovesKept DEF CallsAsr, Past
  <1>7. CASE TakesStreamed(p)
    BY <1>7, EntersFrom, BeginsCleanupKept DEF TakesStreamed, Past
  <1>8. CASE AsrReturns(p) \/ AsrExhausted(p)
    BY <1>8, BeginsCleanupKept DEF AsrReturns, AsrExhausted, Past
  <1>9. CASE AsrHasNoAudio(p)
    BY <1>9, EntersFrom, EndsKept DEF AsrHasNoAudio, Ends
  <1>10. CASE InsertionFails(p)
    BY <1>10, EndsKept DEF InsertionFails, Ends
  <1>11. CASE Unwinds(p)
    BY <1>11, EndsKept DEF Unwinds, Ends
  <1>12. CASE InsertReturns(p) \/ ClipboardReturns(p)
    BY <1>12, InsertedKept DEF InsertReturns, ClipboardReturns
  <1> QED
    BY <1>1, <1>2, <1>3, <1>4, <1>5, <1>6, <1>7, <1>8, <1>9, <1>10, <1>11, <1>12
       DEF PipelineStep

-----------------------------------------------------------------------------
\* The stream task.

LEMMA WakesAnnounced ==
  ASSUME NEW n \in Nat, NEW q \in Seq(Pipes)
  PROVE  LET w == [i \in 1..Len(q) |-> Wake(q[i])]
         IN  w \in Seq(Callbacks) /\ Announcing(w)
  <1>1. \A i \in 1..Len(q) : q[i] \in Pipes
    OBVIOUS
  <1>2. \A i \in 1..Len(q) : Wake(q[i]) \in Callbacks /\ Wake(q[i]).kind = "pipeline"
    BY <1>1, WakeTyped DEF Wake, Callback
  <1> QED BY <1>2 DEF Announcing, Births

LEMMA StreamEndsKept ==
  ASSUME TypeOK, InsertedInv, NEW k, Runs(k), NEW seg, StreamEnds(seg),
         UNCHANGED <<out, nstop>>
  PROVE  InsertedInv'
  <1>1. PcKept
    BY DEF StreamEnds, Waiters, PcKept, Past, Done
  <1>2. PICK q \in Ascending(Waiters) : Schedules([i \in 1..Len(q) |-> Wake(q[i])])
    BY DEF StreamEnds
  <1>3. q \in Seq(Pipes)
    <2>1. Waiters \subseteq Pipes /\ IsFiniteSet(Waiters)
      <3>1. IsFiniteSet(Pipes)
        BY BoundsAssumption, FS_Interval DEF Pipes
      <3> QED BY <3>1, FS_Subset DEF Waiters
    <2>2. Cardinality(Waiters) \in Nat /\ q \in [1..Cardinality(Waiters) -> Waiters]
      BY <2>1, FS_CardinalityType DEF Ascending
    <2> QED BY <2>1, <2>2
  <1>4. Numbered'
    BY <1>1, <1>2, <1>3, WakesAnnounced, NumberedSchedules DEF InsertedInv
  <1> QED BY <1>1, <1>4, InsertionsKept DEF InsertedInv

LEMMA StreamStepKept ==
  ASSUME TypeOK, InsertedInv, UNCHANGED nstop,
         \/ StreamConsumes \/ StreamReachesEnd \/ StreamFinal \/ StreamFails
         \/ StreamUnwinds
  PROVE  InsertedInv'
  <1>1. Runs("stream") /\ UNCHANGED out
    BY DEF StreamConsumes, StreamReachesEnd, StreamFinal, StreamFails,
           StreamUnwinds, StreamStep, historyVars, orchestratorVars
  <1>2. CASE StreamConsumes \/ StreamUnwinds
    BY <1>1, <1>2, QuietKept, NothingAnnounced
       DEF StreamConsumes, StreamUnwinds, pipeVars, orchestratorVars
  <1>3. CASE StreamFinal \/ StreamFails
    BY <1>1, <1>3, StreamEndsKept DEF StreamFinal, StreamFails
  <1>4. CASE StreamReachesEnd
    <2>1. CASE streamGot' = <<>>
      BY <1>1, <1>4, <2>1, StreamEndsKept DEF StreamReachesEnd
    <2>2. CASE streamGot' # <<>>
      BY <1>1, <1>4, <2>2, QuietKept, NothingAnnounced DEF StreamReachesEnd
    <2> QED BY <2>1, <2>2
  <1> QED BY <1>2, <1>3, <1>4

-----------------------------------------------------------------------------
\* The other handlers of the orchestrator.

\* A recording's pipeline is born: its callback announced it, and is gone.
LEMMA OnRecordingStoppedKept ==
  ASSUME TypeOK, InsertedInv, OnRecordingStopped, UNCHANGED nstop
  PROVE  InsertedInv'
  <1> DEFINE p == Head(ready).id
  <1>0. /\ ready \in Seq(Callbacks) /\ ready # <<>> /\ Len(ready) \in Nat
        /\ Len(ready) >= 1 /\ Head(ready) = ready[1]
        /\ ready[1].kind = "stopped" /\ p \in Pipes
        /\ \A i \in 1..Len(ready) : ready[i].kind \in Births => ready[i].id \in Pipes
    <2>1. ready \in Seq(Callbacks) /\ ready # <<>> /\ Head(ready).kind = "stopped"
      BY DEF OnRecordingStopped, Runs, TypeOK
    <2>2. Head(ready) = ready[1] /\ Len(ready) \in Nat /\ Len(ready) >= 1
      BY <2>1, TailAt
    <2>3. p \in Pipes
      BY <2>1, HeadTyped DEF OnRecordingStopped
    <2>4. \A i \in 1..Len(ready) : ready[i] \in Callbacks
      BY <2>1
    <2> QED BY <2>1, <2>2, <2>3, <2>4 DEF Callbacks, Births
  <1>1. /\ p <= nstop /\ pc[p] = "none"
        /\ \A i \in 1..Len(ready) : ready[i].kind \in Births /\ ready[i].id = p => i = 1
    BY <1>0 DEF InsertedInv, Numbered, Announces, BirthsOnce, Births
  <1>2. /\ pc'[p] = "new"
        /\ \A q \in Pipes \ {p} : pc'[q] = pc[q]
    BY <1>0 DEF OnRecordingStopped, TypeOK, OrchestratorTypeOK, PipeTypeOK
  <1>3. /\ <<Wake(p)>> \in Seq(Callbacks)
        /\ Len(<<Wake(p)>>) = 1 /\ <<Wake(p)>>[1].kind = "pipeline"
    BY <1>0, WakeTyped DEF Wake, Callback
  <1>4. Shifted(1, <<Wake(p)>>)
    BY <1>0, <1>3, SchedulesShifts DEF OnRecordingStopped
  <1> HIDE DEF p
  <1>5. ASSUME NEW i \in 1..Len(ready')
        PROVE  \/ /\ i + 1 \in 1..Len(ready) /\ ready'[i] = ready[i + 1]
               \/ ready'[i].kind = "pipeline"
    BY <1>0, <1>3, <1>4 DEF Shifted
  <1>6. ASSUME NEW i \in 1..Len(ready')
        PROVE  Announces(ready[i])' /\ Resumes(ready[i])'
    <2>1. CASE ready'[i].kind = "pipeline"
      BY <2>1 DEF Announces, Resumes, Births
    <2>2. CASE i + 1 \in 1..Len(ready) /\ ready'[i] = ready[i + 1]
      <3>1. Announces(ready[i + 1]) /\ Resumes(ready[i + 1])
        BY <2>2 DEF InsertedInv, Numbered
      <3>2. ready[i + 1].kind \in Births => ready[i + 1].id \in Pipes \ {p}
        BY <1>0, <1>1, <2>2
      <3>3. Announces(ready[i])'
        BY <1>2, <2>2, <3>1, <3>2 DEF Announces
      <3>4. Resumes(ready[i])'
        BY <1>0, <1>1, <1>2, <2>2, <3>1 DEF Resumes, Done
      <3> QED BY <3>3, <3>4
    <2> QED BY <1>5, <2>1, <2>2
  <1>7. BirthsOnce'
    <2> SUFFICES ASSUME NEW i \in 1..Len(ready'), NEW j \in 1..Len(ready'),
                        ready'[i].kind \in Births, ready'[j].kind \in Births,
                        ready'[i].id = ready'[j].id
                 PROVE  i = j
      BY DEF BirthsOnce
    <2>1. i + 1 = j + 1
      BY <1>5 DEF InsertedInv, Numbered, BirthsOnce, Births
    <2> QED BY <2>1
  <1>8. \A q \in Pipes : q > nstop' => pc'[q] = "none"
    BY <1>0, <1>1, <1>2 DEF InsertedInv, Numbered, TypeOK, CaptureTypeOK, Pipes
  <1>9. InsertedPast' /\ InsertedOnce'
    <2>1. /\ Len(out) \in Nat /\ UNCHANGED out
          /\ \A i \in 1..Len(out) : out[i].pipe \in Pipes
      BY OutTyped DEF OnRecordingStopped, historyVars
    <2>2. \A i \in 1..Len(out) : out[i].pipe # p
      BY <1>1 DEF InsertedInv, InsertedPast, Insertions, Past
    <2>3. InsertedPast'
      BY <1>2, <2>1, <2>2 DEF InsertedInv, InsertedPast, Insertions
    <2> QED BY <2>1, <2>3 DEF InsertedInv, InsertedOnce, Insertions
  <1> QED BY <1>6, <1>7, <1>8, <1>9 DEF InsertedInv, Numbered

\* The await of the pipeline is over: its number is the head's, and exists.
LEMMA OnPipelineDoneKept ==
  ASSUME TypeOK, InsertedInv, OnPipelineDone, UNCHANGED nstop
  PROVE  InsertedInv'
  <1> DEFINE p == Head(ready).id
  <1>1. ready \in Seq(Callbacks) /\ ready # <<>> /\ Head(ready).kind = "joined"
    BY DEF OnPipelineDone, Runs, TypeOK
  <1>2. 1 \in 1..Len(ready) /\ Head(ready) = ready[1]
    BY <1>1, TailAt
  <1>3. p \in Pipes /\ pc[p] \in Done
    BY <1>1, <1>2 DEF InsertedInv, Numbered, Resumes
  <1>4. PcKept
    BY <1>3, PcMovesKept DEF OnPipelineDone, Past, Done
  <1>5. Numbered'
    BY <1>4, NothingAnnounced, NumberedSchedules DEF OnPipelineDone, InsertedInv
  <1> QED BY <1>4, <1>5, InsertionsKept DEF OnPipelineDone, InsertedInv, historyVars

\* The cancelled pipeline may have typed, and can no more.
LEMMA CancelKept ==
  ASSUME TypeOK, InsertedInv, Cancel, UNCHANGED nstop
  PROVE  InsertedInv'
  <1>1. Runs("cancel")
    BY DEF Cancel
  <1>2. CASE handle # 0 /\ pc[handle] \in InFlight
    <2> DEFINE p == handle
               x == IF pc[p] \in {"new", "killed"} THEN "killed" ELSE "cancelled"
               new == IF Queued(Wake(p)) THEN <<>> ELSE <<Wake(p)>>
    <2>1. p \in Pipes
      BY <1>2, BoundsAssumption
         DEF TypeOK, OrchestratorTypeOK, SharedTypeOK, Pipes
    <2>2. /\ pc' = [pc EXCEPT ![p] = x]
          /\ Schedules(new)
          /\ \/ UNCHANGED out
             \/ /\ pc[p] \in {"insert", "clip"}
                /\ out' = Append(out, [pipe |-> p, text |-> text[p]])
      BY <1>2 DEF Cancel
    <2>3. new \in Seq(Callbacks) /\ Announcing(new)
      BY <2>1, NothingAnnounced, CallbackAnnounced DEF Wake, Kinds, Pipes
    <2>4. pc[p] \notin Done \union {"none"} /\ (pc[p] \in Past => pc[p] = "cancelled")
      BY <1>2 DEF InFlight, PipePcs, Past, Done
    <2>5. /\ x # "none"
          /\ pc[p] \in Past => x \in Past
          /\ pc[p] \in {"insert", "clip"} => x \in Past
      BY <2>4 DEF Past
    <2>6. pc'[p] = x
      BY <2>1, <2>2 DEF TypeOK, OrchestratorTypeOK, PipeTypeOK
    <2> HIDE DEF p, x, new
    <2>7. PcKept
      BY <2>1, <2>2, <2>4, <2>5, PcMovesKept DEF Done
    <2>8. Numbered'
      BY <1>1, <2>2, <2>3, <2>7, NumberedSchedules DEF InsertedInv
    <2>9. \/ UNCHANGED out
          \/ /\ pc[p] \notin Past /\ pc'[p] \in Past
             /\ out' = Append(out, [pipe |-> p, text |-> text[p]])
      BY <2>2, <2>5, <2>6 DEF Past
    <2> QED BY <2>1, <2>7, <2>8, <2>9, InsertionsKept DEF InsertedInv
  <1>3. CASE ~(handle # 0 /\ pc[handle] \in InFlight)
    <2>1. Schedules(<<>>) /\ UNCHANGED <<pc, out>>
      BY <1>3 DEF Cancel
    <2> QED BY <1>1, <2>1, QuietKept, NothingAnnounced
  <1> QED BY <1>2, <1>3

LEMMA OnAudioChunkKept ==
  ASSUME TypeOK, InsertedInv, OnAudioChunk, UNCHANGED nstop
  PROVE  InsertedInv'
  <1>1. Runs("chunk") /\ UNCHANGED <<pc, out>>
    BY DEF OnAudioChunk, pipeVars, historyVars
  <1>2. streamGen' \in Nat
    BY DEF OnAudioChunk, TypeOK, OrchestratorTypeOK, StreamTypeOK
  <1>3. \/ Schedules(<<>>)
        \/ Schedules(<<Callback("stream", streamGen')>>)
    BY DEF OnAudioChunk
  <1>4. CASE Schedules(<<>>)
    BY <1>1, <1>4, QuietKept, NothingAnnounced
  <1>5. CASE Schedules(<<Callback("stream", streamGen')>>)
    <2>1. /\ <<Callback("stream", streamGen')>> \in Seq(Callbacks)
          /\ Announcing(<<Callback("stream", streamGen')>>)
      BY <1>2, CallbackAnnounced DEF Kinds
    <2> QED BY <1>1, <1>5, <2>1, QuietKept
  <1> QED BY <1>3, <1>4, <1>5

LEMMA OrchestratorStepKept ==
  ASSUME TypeOK, InsertedInv, OrchestratorStep
  PROVE  InsertedInv'
  <1>0. UNCHANGED nstop
    BY DEF OrchestratorStep, captureVars
  <1>1. CASE Prepare \/ IgnoreAudioChunk \/ TimerFires
    BY <1>0, <1>1, QuietKept, NothingAnnounced
       DEF Prepare, IgnoreAudioChunk, TimerFires, orchestratorVars, pipeVars,
           historyVars
  <1>2. CASE \E p \in Pipes : PipelineStep(p)
    BY <1>0, <1>2, PipelineStepKept
  <1>3. CASE StreamConsumes \/ StreamReachesEnd \/ StreamFinal \/ StreamFails
             \/ StreamUnwinds
    BY <1>0, <1>3, StreamStepKept
  <1> QED
    BY <1>0, <1>1, <1>2, <1>3, OnRecordingStoppedKept, OnPipelineDoneKept,
       OnAudioChunkKept DEF OrchestratorStep

-----------------------------------------------------------------------------
\* The chunker and the capture.

LEMMA ResumedAnnounced ==
  ASSUME TypeOK, NEW r \in Recs
  PROVE  Resumed(r) \in Seq(Callbacks) /\ Announcing(Resumed(r))
  <1>1. stopWaits[r] \in Seq(BOOLEAN)
    BY DEF TypeOK, ChunkerTypeOK
  <1>2. \A i \in 1..Len(stopWaits[r]) :
          /\ StopCall("stop_resume", stopWaits[r][i]) \in Callbacks
          /\ StopCall("stop_resume", stopWaits[r][i]).kind = "stop_resume"
    BY <1>1, StopCallTyped DEF StopCall, Callback
  <1> QED BY <1>1, <1>2 DEF Resumed, Announcing, Births

LEMMA ChunkerStepKept ==
  ASSUME TypeOK, InsertedInv, ChunkerStep
  PROVE  InsertedInv'
  <1>0. UNCHANGED <<pc, out, nstop>>
    BY DEF ChunkerStep, captureVars, orchestratorVars, pipeVars, historyVars
  <1>1. ASSUME NEW r \in Recs, Start(r) PROVE InsertedInv'
    <2>1. /\ <<Callback("chunk_loop", r)>> \in Seq(Callbacks)
          /\ Announcing(<<Callback("chunk_loop", r)>>)
      BY CallbackAnnounced DEF Kinds, Recs
    <2> QED BY <1>0, <1>1, <2>1, QuietKept DEF Start
  <1>2. ASSUME NEW r \in Recs, LoopEnds(r) PROVE InsertedInv'
    BY <1>0, <1>2, ResumedAnnounced, QuietKept DEF LoopEnds
  <1>3. ASSUME NEW r \in Recs, LoopSleeps(r) PROVE InsertedInv'
    <2>1. /\ <<ChunkEvent(FALSE, chunkBuf)>> \in Seq(Callbacks)
          /\ Announcing(<<ChunkEvent(FALSE, chunkBuf)>>)
      BY ChunkEventAnnounced DEF TypeOK, ChunkerTypeOK
    <2>2. /\ Runs("chunk_loop")
          /\ \/ Schedules(<<>>)
             \/ Schedules(<<ChunkEvent(FALSE, chunkBuf)>>)
      BY <1>3 DEF LoopSleeps
    <2> QED BY <1>0, <2>1, <2>2, NothingAnnounced, QuietKept
  <1>4. CASE StopSpawn
    <2>1. Head(ready).flush \in BOOLEAN
      BY <1>4, HeadTyped DEF StopSpawn, TypeOK
    <2>2. /\ <<StopCall("stop_begin", Head(ready).flush)>> \in Seq(Callbacks)
          /\ Announcing(<<StopCall("stop_begin", Head(ready).flush)>>)
      BY <2>1, StopCallAnnounced
    <2> QED BY <1>0, <1>4, <2>2, QuietKept DEF StopSpawn
  <1>5. CASE StopBegin
    <2>1. loopTask \in Nat
      BY BoundsAssumption DEF TypeOK, ChunkerTypeOK
    <2>2. /\ <<Callback("chunk_loop", loopTask)>> \in Seq(Callbacks)
          /\ Announcing(<<Callback("chunk_loop", loopTask)>>)
      BY <2>1, CallbackAnnounced DEF Kinds
    <2>3. /\ Runs("stop_begin")
          /\ \/ Schedules(<<>>)
             \/ Schedules(<<Callback("chunk_loop", loopTask)>>)
      BY <1>5 DEF StopBegin
    <2> QED BY <1>0, <2>2, <2>3, NothingAnnounced, QuietKept
  <1>6. CASE StopFinish
    <2>1. /\ <<ChunkEvent(TRUE, chunkBuf)>> \in Seq(Callbacks)
          /\ Announcing(<<ChunkEvent(TRUE, chunkBuf)>>)
      BY ChunkEventAnnounced DEF TypeOK, ChunkerTypeOK
    <2>2. /\ Runs("stop_resume") \/ Runs("stop_begin")
          /\ \/ Schedules(<<>>)
             \/ Schedules(<<ChunkEvent(TRUE, chunkBuf)>>)
      BY <1>6 DEF StopFinish
    <2> QED BY <1>0, <2>1, <2>2, NothingAnnounced, QuietKept
  <1> QED BY <1>1, <1>2, <1>3, <1>4, <1>5, <1>6 DEF ChunkerStep

\* _finalize_stop passes its number on to the event it publishes.
LEMMA CaptureStepKept ==
  ASSUME TypeOK, InsertedInv, CaptureStep
  PROVE  InsertedInv'
  <1> DEFINE p == Head(ready).id
             c == [kind |-> "stopped", id |-> p, flush |-> FALSE, data |-> buffer]
  <1>1. /\ Runs("finalize") /\ Schedules(<<c>>)
        /\ UNCHANGED <<pc, out, nstop>>
    BY DEF CaptureStep, FinalizeStop, captureVars, orchestratorVars, pipeVars,
           historyVars
  <1>2. ready \in Seq(Callbacks) /\ ready # <<>> /\ Head(ready).kind = "finalize"
    BY <1>1 DEF Runs, TypeOK
  <1>3. /\ Len(ready) \in Nat /\ Len(ready) >= 1 /\ 1 \in 1..Len(ready)
        /\ Head(ready) = ready[1]
    BY <1>2, TailAt
  <1>4. /\ c \in Callbacks /\ c.kind = "stopped" /\ c.id = p
        /\ <<c>> \in Seq(Callbacks) /\ Len(<<c>>) = 1 /\ <<c>>[1] = c
    BY <1>1, HeadTyped, StoppedTyped DEF TypeOK, CaptureTypeOK
  <1>5. /\ p <= nstop /\ pc[p] = "none"
        /\ \A i \in 1..Len(ready) : ready[i].kind \in Births /\ ready[i].id = p => i = 1
    BY <1>2, <1>3 DEF InsertedInv, Numbered, Announces, BirthsOnce, Births
  <1>6. Shifted(1, <<c>>)
    BY <1>1, <1>2, <1>4, SchedulesShifts
  <1> HIDE DEF p, c
  <1>7. ASSUME NEW i \in 1..Len(ready')
        PROVE  \/ i < Len(ready) /\ i + 1 \in 1..Len(ready) /\ ready'[i] = ready[i + 1]
               \/ i = Len(ready) /\ ready'[i] = c
    BY <1>3, <1>4, <1>6 DEF Shifted
  <1>8. ASSUME NEW i \in 1..Len(ready')
        PROVE  Announces(ready[i])' /\ Resumes(ready[i])'
    <2>1. CASE ready'[i] = c
      BY <1>1, <1>4, <1>5, <2>1 DEF Announces, Resumes
    <2>2. CASE i + 1 \in 1..Len(ready) /\ ready'[i] = ready[i + 1]
      <3>1. Announces(ready[i + 1]) /\ Resumes(ready[i + 1])
        BY <2>2 DEF InsertedInv, Numbered
      <3> QED BY <1>1, <2>2, <3>1 DEF Announces, Resumes
    <2> QED BY <1>7, <2>1, <2>2
  <1>9. BirthsOnce'
    <2> SUFFICES ASSUME NEW i \in 1..Len(ready'), NEW j \in 1..Len(ready'),
                        ready'[i].kind \in Births, ready'[j].kind \in Births,
                        ready'[i].id = ready'[j].id
                 PROVE  i = j
      BY DEF BirthsOnce
    <2>1. CASE i < Len(ready) /\ j < Len(ready)
      <3>1. /\ i + 1 \in 1..Len(ready) /\ ready'[i] = ready[i + 1]
            /\ j + 1 \in 1..Len(ready) /\ ready'[j] = ready[j + 1]
        BY <1>7, <2>1
      <3>2. i + 1 = j + 1
        BY <3>1 DEF InsertedInv, Numbered, BirthsOnce
      <3> QED BY <3>2
    <2>2. ASSUME NEW k \in 1..Len(ready'), k < Len(ready),
                 ready'[k].kind \in Births, ready'[k].id = p
          PROVE  FALSE
      <3>1. k + 1 \in 1..Len(ready) /\ ready'[k] = ready[k + 1]
        BY <1>7, <2>2
      <3>2. k + 1 = 1
        BY <1>5, <2>2, <3>1
      <3> QED BY <3>2
    <2> QED BY <1>4, <1>7, <2>1, <2>2
  <1>10. Numbered'
    BY <1>1, <1>8, <1>9 DEF InsertedInv, Numbered
  <1> QED BY <1>1, <1>10, PcUnchangedKept, InsertionsKept DEF InsertedInv

-----------------------------------------------------------------------------
\* The user, and the work outside the loop thread.

LEMMA ConcatAnnounced ==
  ASSUME NEW s \in Seq(Callbacks), Announcing(s),
         NEW t \in Seq(Callbacks), Announcing(t)
  PROVE  s \o t \in Seq(Callbacks) /\ Announcing(s \o t)
  <1>1. /\ s \o t \in Seq(Callbacks)
        /\ Len(s) \in Nat /\ Len(t) \in Nat /\ Len(s \o t) = Len(s) + Len(t)
        /\ \A i \in 1..Len(s) : (s \o t)[i] = s[i]
        /\ \A i \in (Len(s) + 1)..(Len(s) + Len(t)) : (s \o t)[i] = t[i - Len(s)]
    BY ConcatAt
  <1>2. ASSUME NEW i \in 1..Len(s \o t)
        PROVE  \/ i \in 1..Len(s) /\ (s \o t)[i] = s[i]
               \/ i - Len(s) \in 1..Len(t) /\ (s \o t)[i] = t[i - Len(s)]
    <2>1. CASE i <= Len(s)
      BY <1>1, <2>1
    <2>2. CASE i > Len(s)
      <3>1. i \in (Len(s) + 1)..(Len(s) + Len(t))
        BY <1>1, <2>2
      <3> QED BY <1>1, <3>1
    <2> QED BY <1>1, <2>1, <2>2
  <1> QED BY <1>1, <1>2 DEF Announcing

LEMMA HotkeyStartKept ==
  ASSUME TypeOK, InsertedInv, HotkeyStart
  PROVE  InsertedInv'
  <1> DEFINE s == <<Callback("prepare", nrec + 1)>>
             t == IF Streaming THEN <<Callback("chunker_start", nrec + 1)>> ELSE <<>>
  <1>1. UNCHANGED <<pc, out, nstop>> /\ CallSoon(s \o t)
    BY DEF HotkeyStart, StartRecording, pipeVars, historyVars
  <1>2. nrec + 1 \in Nat
    BY DEF TypeOK, CaptureTypeOK
  <1>3. s \in Seq(Callbacks) /\ Announcing(s)
    BY <1>2, CallbackAnnounced DEF Kinds
  <1>4. t \in Seq(Callbacks) /\ Announcing(t)
    BY <1>2, CallbackAnnounced, NothingAnnounced DEF Kinds
  <1> HIDE DEF s, t
  <1>5. s \o t \in Seq(Callbacks) /\ Announcing(s \o t)
    BY <1>3, <1>4, ConcatAnnounced
  <1> QED BY <1>1, <1>5, QuietKept

LEMMA HotkeyCancelKept ==
  ASSUME TypeOK, InsertedInv, HotkeyCancel
  PROVE  InsertedInv'
  <1> DEFINE s == IF recording /\ Streaming
                    THEN <<StopCall("stop_spawn", FALSE)>> ELSE <<>>
             t == <<Callback("cancel", 0)>>
  <1>1. UNCHANGED <<pc, out, nstop>> /\ CallSoon(s \o t)
    BY DEF HotkeyCancel, CancelRecording, pipeVars, historyVars
  <1>2. s \in Seq(Callbacks) /\ Announcing(s)
    BY StopCallAnnounced, NothingAnnounced
  <1>3. t \in Seq(Callbacks) /\ Announcing(t)
    BY CallbackAnnounced DEF Kinds
  <1> HIDE DEF s, t
  <1>4. s \o t \in Seq(Callbacks) /\ Announcing(s \o t)
    BY <1>2, <1>3, ConcatAnnounced
  <1> QED BY <1>1, <1>4, QuietKept

LEMMA StopFlipsKept ==
  ASSUME TypeOK, InsertedInv, NEW t \in Threads, StopFlips(t),
         UNCHANGED orchestratorVars
  PROVE  InsertedInv'
  <1> DEFINE new == IF Streaming THEN <<StopCall("stop_spawn", TRUE)>> ELSE <<>>
  <1>1. UNCHANGED <<pc, out, nstop>> /\ CallSoon(new)
    BY DEF StopFlips, orchestratorVars, pipeVars, historyVars
  <1>2. new \in Seq(Callbacks) /\ Announcing(new)
    BY StopCallAnnounced, NothingAnnounced
  <1> HIDE DEF new
  <1> QED BY <1>1, <1>2, QuietKept

\* A number is announced once: stop_recording takes the next one.
LEMMA StopPostsKept ==
  ASSUME TypeOK, InsertedInv, NEW t \in Threads, StopPosts(t),
         UNCHANGED orchestratorVars
  PROVE  InsertedInv'
  <1> DEFINE p == nstop + 1
             c == Callback("finalize", p)
  <1>1. /\ CallSoon(<<c>>) /\ nstop' = p
        /\ UNCHANGED <<pc, out>>
    BY DEF StopPosts, orchestratorVars, pipeVars, historyVars
  <1>2. /\ nstop \in Nat /\ p \in Pipes
        /\ p > nstop
    BY BoundsAssumption DEF StopPosts, TypeOK, CaptureTypeOK, Pipes
  <1>3. /\ c \in Callbacks /\ c.kind = "finalize" /\ c.id = p
        /\ <<c>> \in Seq(Callbacks) /\ Len(<<c>>) = 1 /\ <<c>>[1] = c
    BY <1>2, FinalizeTyped DEF Callback
  <1>4. pc[p] = "none"
    BY <1>2 DEF InsertedInv, Numbered
  <1>5. /\ ready \in Seq(Callbacks) /\ Len(ready) \in Nat
        /\ \A i \in 1..Len(ready) : /\ Announces(ready[i]) /\ Resumes(ready[i])
                                    /\ ready[i] \in Callbacks
    <2>1. ready \in Seq(Callbacks)
      BY DEF TypeOK
    <2> QED BY <2>1, SeqAt DEF InsertedInv, Numbered
  <1>6. Shifted(0, <<c>>)
    BY <1>1, <1>3, <1>5, CallSoonShifts
  <1> HIDE DEF p, c
  <1>7. ASSUME NEW i \in 1..Len(ready')
        PROVE  \/ i \in 1..Len(ready) /\ ready'[i] = ready[i]
               \/ i = Len(ready) + 1 /\ ready'[i] = c
    BY <1>3, <1>5, <1>6 DEF Shifted
  <1>8. ASSUME NEW i \in 1..Len(ready), ready[i].kind \in Births
        PROVE  ready[i].id # p /\ ready[i].id <= p /\ pc[ready[i].id] = "none"
    <2>1. ready[i].id <= nstop /\ pc[ready[i].id] = "none"
      BY <1>5, <1>8 DEF Announces
    <2>2. ready[i].id \in Nat
      BY <1>5 DEF Callbacks
    <2>3. p \in Nat
      BY <1>2 DEF p
    <2> QED BY <1>2, <2>1, <2>2, <2>3
  <1>9. ASSUME NEW i \in 1..Len(ready')
        PROVE  Announces(ready[i])' /\ Resumes(ready[i])'
    <2>1. CASE ready'[i] = c
      <3>1. p \in Nat
        BY <1>2 DEF p
      <3> QED BY <1>1, <1>3, <1>4, <2>1, <3>1 DEF Announces, Resumes
    <2>2. CASE i \in 1..Len(ready) /\ ready'[i] = ready[i]
      <3>1. Announces(ready[i])'
        BY <1>1, <1>8, <2>2 DEF Announces
      <3>2. Resumes(ready[i])'
        BY <1>1, <1>5, <2>2 DEF Resumes
      <3> QED BY <3>1, <3>2
    <2> QED BY <1>7, <2>1, <2>2
  <1>10. BirthsOnce'
    BY <1>3, <1>7, <1>8 DEF InsertedInv, Numbered, BirthsOnce
  <1>11. \A q \in Pipes : q > nstop' => pc'[q] = "none"
    BY <1>1, <1>2 DEF InsertedInv, Numbered, p, Pipes
  <1>12. Numbered'
    BY <1>9, <1>10, <1>11 DEF Numbered
  <1> QED BY <1>1, <1>12, PcUnchangedKept, InsertionsKept DEF InsertedInv

LEMMA StopRecordingKept ==
  ASSUME TypeOK, InsertedInv, StopRecording
  PROVE  InsertedInv'
  <1>1. PICK t \in Threads : StopStarts(t) \/ StopProceeds(t)
    BY DEF StopRecording
  <1>2. CASE StopStarts(t)
    BY <1>2, StillKept
       DEF StopStarts, StopTests, orchestratorVars, pipeVars, historyVars
  <1>3. CASE StopProceeds(t)
    BY <1>3, StopFlipsKept, StopPostsKept DEF StopProceeds
  <1> QED BY <1>1, <1>2, <1>3

LEMMA ExternalKept ==
  ASSUME TypeOK, InsertedInv, External
  PROVE  InsertedInv'
  <1>1. ASSUME NEW p \in Pipes, CallCompletes(p) PROVE InsertedInv'
    <2>1. <<Wake(p)>> \in Seq(Callbacks) /\ Announcing(<<Wake(p)>>)
      BY CallbackAnnounced DEF Wake, Kinds, Pipes
    <2> QED
      BY <1>1, <2>1, QuietKept
         DEF CallCompletes, Completes, captureVars, orchestratorVars, pipeVars,
             historyVars
  <1>2. CASE PassCompletes
    <2>1. /\ <<Callback("stream", streamGen)>> \in Seq(Callbacks)
          /\ Announcing(<<Callback("stream", streamGen)>>)
      BY CallbackAnnounced
         DEF Kinds, TypeOK, OrchestratorTypeOK, StreamTypeOK
    <2> QED
      BY <1>2, <2>1, QuietKept
         DEF PassCompletes, StreamPassDone, captureVars, pipeVars, historyVars
  <1>3. CASE TimerExpires
    <2>1. /\ <<Callback("error_timer", timerGen)>> \in Seq(Callbacks)
          /\ Announcing(<<Callback("error_timer", timerGen)>>)
      BY CallbackAnnounced
         DEF Kinds, TypeOK, OrchestratorTypeOK, TimerTypeOK
    <2> QED
      BY <1>3, <2>1, QuietKept
         DEF TimerExpires, TimerElapses, captureVars, pipeVars, historyVars
  <1>4. ASSUME NEW r \in Recs, IntervalElapses(r) PROVE InsertedInv'
    <2>1. /\ <<Callback("chunk_loop", r)>> \in Seq(Callbacks)
          /\ Announcing(<<Callback("chunk_loop", r)>>)
      BY CallbackAnnounced DEF Kinds, Recs
    <2> QED
      BY <1>4, <2>1, QuietKept
         DEF IntervalElapses, LoopTick, captureVars, orchestratorVars, pipeVars,
             historyVars
  <1> QED BY <1>1, <1>2, <1>3, <1>4 DEF External

-----------------------------------------------------------------------------
\* All together.

LEMMA InsertedInit == Init => InsertedInv
  <1> SUFFICES ASSUME Init PROVE InsertedInv
    OBVIOUS
  <1>1. Len(ready) = 0 /\ Len(out) = 0 /\ \A p \in Pipes : pc[p] = "none"
    BY DEF Init, OrchestratorInit
  <1> QED
    BY <1>1 DEF InsertedInv, Numbered, BirthsOnce, InsertedPast, InsertedOnce,
                Insertions

LEMMA InsertedStep == TypeOK /\ InsertedInv /\ [Next]_vars => InsertedInv'
  <1> SUFFICES ASSUME TypeOK, InsertedInv, [Next]_vars PROVE InsertedInv'
    OBVIOUS
  <1>1. CASE UNCHANGED vars
    BY <1>1, StillKept
       DEF vars, captureVars, orchestratorVars, pipeVars, historyVars
  <1>2. CASE Speak
    BY <1>2, StillKept
       DEF Speak, AudioBlock, orchestratorVars, pipeVars, historyVars
  <1>3. CASE LoopStep
    <2>1. CASE LoopCancel
      BY <2>1, CancelKept DEF LoopCancel, captureVars
    <2> QED
      BY <1>3, <2>1, ChunkerStepKept, CaptureStepKept, OrchestratorStepKept
         DEF LoopStep
  <1> QED
    BY <1>1, <1>2, <1>3, HotkeyStartKept, HotkeyCancelKept, StopRecordingKept,
       ExternalKept DEF Next

\* A pipeline inserts at most once: no retry, fallback to the clipboard or
\* cancellation in the middle of an insertion types its text again, and no
\* second RecordingStopped starts it again (_run_pipeline, _insert, cancel,
\* _on_recording_stopped), whatever the threads' and the tasks' interleaving.
THEOREM InsertOnce == Spec => []InsertedOnce
  <1>1. Init => InsertedInv
    BY InsertedInit
  <1>2. TypeOK /\ InsertedInv /\ [Next]_vars => InsertedInv'
    BY InsertedStep
  <1>3. InsertedInv => InsertedOnce
    BY DEF InsertedInv
  <1> QED BY <1>1, <1>2, <1>3, TypeCorrect, PTL DEF Spec

-----------------------------------------------------------------------------
(***************************************************************************)
(* The machine is back in "idle" once nothing is left to do.               *)
(*                                                                         *)
(* The machine does not know which pipeline an event is about: it is in    *)
(* "cleaning", say, because of one pipeline and moved on by another.  What *)
(* is true of it is that some pipeline that nobody has cancelled is still  *)
(* at the stage the machine shows or before it (Busy), and will raise the  *)
(* events that bring it to idle.  A pipeline may only be lost before it    *)
(* has raised them for want of audio, which a busy machine has.            *)
(***************************************************************************)

\* Stages up to the transcript, and of the clean-up.
Hearing == {"new", "stream", "streamed", "asr", "asrPause"}
Cleaning == {"clean", "cleanPause"}

Held(stages) == \E p \in Pipes : pc[p] \in stages

Busy ==
  /\ sm # "recording"
  /\ sm \notin {"idle", "error"} => audio # <<>>
  /\ sm = "transcribing" => Held(Hearing)
  /\ sm = "cleaning" => Held(Hearing \union Cleaning)
  /\ sm = "inserting" => Held(Hearing \union Cleaning \union Inserting)

\* An event that only one rule names.
LEMMA FireOne ==
  ASSUME NEW s, NEW e, NEW from, NEW to, <<from, e, to>> \in Rules,
         \A r \in Rules : r[2] = e => r[1] = from /\ r[3] = to
  PROVE  Fire(s, e) = IF s = from THEN to ELSE s
  <1>1. CASE s = from
    <2>1. Matches(s, e)
      BY <1>1 DEF Matches
    <2> QED BY <1>1, <2>1 DEF Fire
  <1>2. CASE s # from
    BY <1>2 DEF Fire, Matches
  <1> QED BY <1>1, <1>2

LEMMA FireTable ==
  ASSUME NEW s
  PROVE  /\ Fire(s, "transcript") = IF s = "transcribing" THEN "cleaning" ELSE s
         /\ Fire(s, "asr_failed") = IF s = "transcribing" THEN "error" ELSE s
         /\ Fire(s, "cleaned") = IF s = "cleaning" THEN "inserting" ELSE s
         /\ Fire(s, "cleanup_failed") = IF s = "cleaning" THEN "inserting" ELSE s
         /\ Fire(s, "inserted") = IF s = "inserting" THEN "idle" ELSE s
         /\ Fire(s, "clipboard") = IF s = "inserting" THEN "idle" ELSE s
         /\ Fire(s, "insert_failed") = IF s = "inserting" THEN "error" ELSE s
         /\ Fire(s, "timeout") = IF s = "error" THEN "idle" ELSE s
         /\ Fire(s, "duration") = IF s = "recording" THEN "transcribing" ELSE s
  <1>1. Fire(s, "transcript") = IF s = "transcribing" THEN "cleaning" ELSE s
    BY FireOne DEF Rules
  <1>2. Fire(s, "asr_failed") = IF s = "transcribing" THEN "error" ELSE s
    BY FireOne DEF Rules
  <1>3. Fire(s, "cleaned") = IF s = "cleaning" THEN "inserting" ELSE s
    BY FireOne DEF Rules
  <1>4. Fire(s, "cleanup_failed") = IF s = "cleaning" THEN "inserting" ELSE s
    BY FireOne DEF Rules
  <1>5. Fire(s, "inserted") = IF s = "inserting" THEN "idle" ELSE s
    BY FireOne DEF Rules
  <1>6. Fire(s, "clipboard") = IF s = "inserting" THEN "idle" ELSE s
    BY FireOne DEF Rules
  <1>7. Fire(s, "insert_failed") = IF s = "inserting" THEN "error" ELSE s
    BY FireOne DEF Rules
  <1>8. Fire(s, "timeout") = IF s = "error" THEN "idle" ELSE s
    BY FireOne DEF Rules
  <1>9. Fire(s, "duration") = IF s = "recording" THEN "transcribing" ELSE s
    BY FireOne DEF Rules
  <1> QED BY <1>1, <1>2, <1>3, <1>4, <1>5, <1>6, <1>7, <1>8, <1>9

LEMMA FireToggle == Fire("idle", "toggle") = "recording"
  <1>1. <<"idle", "toggle", "recording">> \in Rules
    BY DEF Rules
  <1>2. Matches("idle", "toggle")
    BY <1>1 DEF Matches
  <1>3. \A r \in Rules : r[1] = "idle" /\ r[2] = "toggle" => r[3] = "recording"
    BY DEF Rules
  <1> QED BY <1>2, <1>3 DEF Fire, Matches

\* A step that moves no pipeline, or only some from one stage of Hearing to
\* another, and leaves the machine alone.
LEMMA IdleKept ==
  ASSUME Busy, sm' = sm, audio' = audio,
         \A p \in Pipes : pc'[p] = pc[p] \/ (pc[p] \in Hearing /\ pc'[p] \in Hearing)
  PROVE  Busy'
  BY DEF Busy, Held

\* A pipeline moves to the stage "to", and the machine with it or not.
LEMMA StageKept ==
  ASSUME Busy, pc \in [Pipes -> PipePcs], NEW p \in Pipes, NEW to,
         pc' = [pc EXCEPT ![p] = to],
         sm' # "recording",
         sm' \notin {"idle", "error"} => audio' # <<>>,
         sm' = "transcribing" =>
           to \in Hearing \/ (sm = sm' /\ pc[p] \notin Hearing),
         sm' = "cleaning" =>
           \/ to \in Hearing \union Cleaning
           \/ sm = sm' /\ pc[p] \notin Hearing \union Cleaning,
         sm' = "inserting" =>
           \/ to \in Hearing \union Cleaning \union Inserting
           \/ sm = sm' /\ pc[p] \notin Hearing \union Cleaning \union Inserting
  PROVE  Busy'
  <1>1. \A q \in Pipes : pc'[q] = IF q = p THEN to ELSE pc[q]
    OBVIOUS
  <1>2. sm' = "transcribing" => Held(Hearing)'
    <2> SUFFICES ASSUME sm' = "transcribing" PROVE Held(Hearing)'
      OBVIOUS
    <2> QED BY <1>1 DEF Busy, Held, Hearing
  <1>3. sm' = "cleaning" => Held(Hearing \union Cleaning)'
    <2> SUFFICES ASSUME sm' = "cleaning" PROVE Held(Hearing \union Cleaning)'
      OBVIOUS
    <2> QED BY <1>1 DEF Busy, Held, Hearing, Cleaning
  <1>4. sm' = "inserting" => Held(Hearing \union Cleaning \union Inserting)'
    <2> SUFFICES ASSUME sm' = "inserting"
                 PROVE  Held(Hearing \union Cleaning \union Inserting)'
      OBVIOUS
    <2> QED BY <1>1 DEF Busy, Held, Hearing, Cleaning, Inserting
  <1> QED BY <1>2, <1>3, <1>4 DEF Busy

\* A transcript is there, or has failed to come.
LEMMA BeginsCleanupIdle ==
  ASSUME Busy, pc \in [Pipes -> PipePcs], NEW p \in Pipes, NEW t,
         NEW e \in {"transcript", "asr_failed"}, pc[p] \in Hearing,
         BeginsCleanup(p, t, Fire(sm, e)), audio' = audio
  PROVE  Busy'
  <1> DEFINE s == Fire(sm, e)
  <1>1. s \notin {"recording", "transcribing"}
        /\ (s \notin {"idle", "error"} => sm \notin {"idle", "error"})
    BY FireTable DEF Busy
  <1>2. CASE pc' = [pc EXCEPT ![p] = "clean"] /\ sm' = s
    BY <1>1, <1>2, StageKept DEF Busy, Hearing, Cleaning
  <1>3. CASE pc' = [pc EXCEPT ![p] = "insert"] /\ sm' = Fire(s, "cleanup_failed")
    <2>1. sm' \notin {"recording", "transcribing", "cleaning"}
          /\ (sm' \notin {"idle", "error"} => s \notin {"idle", "error"})
      BY <1>1, <1>3, FireTable
    <2> HIDE DEF s
    <2> QED BY <1>1, <1>3, <2>1, StageKept DEF Busy, Inserting
  <1> QED BY <1>2, <1>3 DEF BeginsCleanup

LEMMA PipelineStepIdle ==
  ASSUME TypeOK, Busy, NEW p \in Pipes, PipelineStep(p)
  PROVE  Busy'
  <1>0. pc \in [Pipes -> PipePcs]
    BY DEF TypeOK, OrchestratorTypeOK, PipeTypeOK
  <1>1. CASE WaitsForStream(p) \/ CallsAsr(p) \/ Retries(p, "asr", "asrPause")
             \/ Pauses(p, "asr", "asrPause", "asr")
    <2>1. /\ sm' = sm /\ audio' = audio /\ pc[p] \in Hearing
          /\ \E to \in Hearing : pc' = [pc EXCEPT ![p] = to]
      BY <1>1 DEF WaitsForStream, CallsAsr, Retries, Pauses, Awaits, EntersAsr,
           FindsStream, FindsNone, StreamOver, sharedVars, Hearing
    <2> QED BY <1>0, <2>1, StageKept DEF Busy
  <1>2. CASE Unwinds(p)
    <2>1. /\ sm' = sm /\ audio' = audio /\ pc[p] \in {"cancelled", "killed"}
          /\ pc' = [pc EXCEPT ![p] = "ended"]
      BY <1>2 DEF Unwinds, Ends, sharedVars
    <2> QED BY <1>0, <2>1, StageKept DEF Busy, Hearing, Cleaning, Inserting
  <1>3. CASE AsrHasNoAudio(p)
    <2>1. /\ sm' = sm /\ audio' = audio /\ audio = <<>>
          /\ pc' = [pc EXCEPT ![p] = "ended"]
      BY <1>3 DEF AsrHasNoAudio, Ends, sharedVars
    <2> QED BY <1>0, <2>1, StageKept DEF Busy
  <1>4. CASE AsrExhausted(p)
    BY <1>0, <1>4, BeginsCleanupIdle DEF AsrExhausted, Hearing
  <1>5. CASE TakesStreamed(p) \/ AsrReturns(p)
    <2>1. /\ pc[p] \in Hearing /\ audio' = audio
          /\ \E t : BeginsCleanup(p, t, Fire(sm, "transcript"))
      BY <1>5 DEF TakesStreamed, AsrReturns, StreamOver, FindsStream, Hearing
    <2> QED BY <1>0, <2>1, BeginsCleanupIdle
  <1>6. CASE Pauses(p, "clean", "cleanPause", "cleanup")
             \/ Retries(p, "clean", "cleanPause")
    <2>1. /\ sm' = sm /\ audio' = audio /\ pc[p] \in Cleaning
          /\ \E to \in Cleaning : pc' = [pc EXCEPT ![p] = to]
      BY <1>6 DEF Pauses, Retries, Awaits, sharedVars, Cleaning
    <2> QED BY <1>0, <2>1, StageKept DEF Busy, Hearing, Cleaning
  <1>7. CASE CleanupReturns(p) \/ CleanupExhausted(p)
    <2>1. /\ audio' = audio /\ pc[p] \in Cleaning
          /\ pc' = [pc EXCEPT ![p] = "insert"]
          /\ sm' = IF sm = "cleaning" THEN "inserting" ELSE sm
      BY <1>7, FireTable
         DEF CleanupReturns, CleanupExhausted, EntersInsertion, Awaits, Cleaning
    <2> QED BY <1>0, <2>1, StageKept DEF Busy, Hearing, Cleaning, Inserting
  <1>8. CASE InsertFallsBack(p) \/ UndoReturns(p)
    <2>1. /\ sm' = sm /\ audio' = audio /\ pc[p] \in Inserting
          /\ \E to \in Inserting : pc' = [pc EXCEPT ![p] = to]
      BY <1>8 DEF InsertFallsBack, UndoReturns, Awaits, sharedVars, Inserting
    <2> QED BY <1>0, <2>1, StageKept DEF Busy, Hearing, Cleaning, Inserting
  <1>9. CASE InsertReturns(p) \/ ClipboardReturns(p) \/ InsertionFails(p)
    <2>1. /\ audio' = audio /\ pc[p] \in Inserting
          /\ pc' = [pc EXCEPT ![p] = "ended"]
          /\ \/ sm # "inserting" /\ sm' = sm
             \/ sm' \in {"idle", "error"}
      BY <1>9, FireTable
         DEF InsertReturns, ClipboardReturns, InsertionFails, Inserted, Ends, Inserting
    <2> QED BY <1>0, <2>1, StageKept DEF Busy, Hearing, Cleaning, Inserting
  <1> QED
    BY <1>1, <1>2, <1>3, <1>4, <1>5, <1>6, <1>7, <1>8, <1>9 DEF PipelineStep

LEMMA OnRecordingStoppedIdle ==
  ASSUME TypeOK, Busy, OnRecordingStopped
  PROVE  Busy'
  <1> DEFINE p == Head(ready).id
             s1 == IF sm = "idle" THEN Fire(sm, "toggle") ELSE sm
             s2 == IF s1 = "recording" THEN Fire(s1, "duration") ELSE s1
  <1>1. pc \in [Pipes -> PipePcs] /\ p \in Pipes
    BY HeadTyped DEF TypeOK, OrchestratorTypeOK, PipeTypeOK, OnRecordingStopped
  <1>2. sm' = s2 /\ audio' # <<>> /\ pc' = [pc EXCEPT ![p] = "new"]
    BY DEF OnRecordingStopped
  <1>3. s2 = IF sm = "idle" THEN "transcribing" ELSE sm
    BY FireTable, FireToggle DEF Busy
  <1> HIDE DEF p, s2
  <1> QED BY <1>1, <1>2, <1>3, StageKept DEF Busy, Hearing

LEMMA OrchestratorStepIdle ==
  ASSUME TypeOK, Numbered, Busy, OrchestratorStep
  PROVE  Busy'
  <1>0. pc \in [Pipes -> PipePcs]
    BY DEF TypeOK, OrchestratorTypeOK, PipeTypeOK
  <1>1. CASE Prepare \/ OnAudioChunk \/ IgnoreAudioChunk \/ StreamUnwinds
             \/ StreamConsumes
    BY <1>1, IdleKept
       DEF Prepare, OnAudioChunk, IgnoreAudioChunk, StreamUnwinds, StreamConsumes,
           orchestratorVars, sharedVars, pipeVars
  <1>2. CASE OnPipelineDone
    <2> DEFINE p == Head(ready).id
    <2>1. /\ sm' = sm /\ audio' = audio /\ ready # <<>> /\ Head(ready).kind = "joined"
          /\ pc' = [pc EXCEPT ![p] = "gone"]
      BY <1>2 DEF OnPipelineDone, Runs
    <2>2. Head(ready) = ready[1] /\ 1 \in 1..Len(ready)
      BY <2>1, TailAt DEF TypeOK
    <2>3. p \in Pipes /\ pc[p] \in Done
      BY <2>1, <2>2 DEF Numbered, Resumes
    <2> HIDE DEF p
    <2> QED
      BY <1>0, <2>1, <2>3, StageKept DEF Busy, Done, Hearing, Cleaning, Inserting
  <1>3. CASE StreamReachesEnd \/ StreamFinal \/ StreamFails
    <2>1. sm' = sm /\ audio' = audio
      BY <1>3 DEF StreamReachesEnd, StreamFinal, StreamFails, sharedVars
    <2>2. \/ pc' = pc
          \/ pc' = [q \in Pipes |-> IF q \in Waiters THEN "streamed" ELSE pc[q]]
      BY <1>3 DEF StreamReachesEnd, StreamFinal, StreamFails, StreamEnds
    <2>3. \A q \in Pipes : \/ pc'[q] = pc[q]
                           \/ pc[q] \in Hearing /\ pc'[q] \in Hearing
      BY <2>2 DEF Waiters, Hearing
    <2> QED BY <2>1, <2>3, IdleKept
  <1>4. CASE TimerFires
    <2>1. pc' = pc /\ \/ sm' = sm /\ audio' = audio
                      \/ sm' = "idle"
      BY <1>4, FireTable DEF TimerFires, pipeVars
    <2> QED BY <2>1, IdleKept DEF Busy
  <1> QED
    BY <1>1, <1>2, <1>3, <1>4, OnRecordingStoppedIdle, PipelineStepIdle
       DEF OrchestratorStep

LEMMA IdleInit == Init => Busy
  BY DEF Init, OrchestratorInit, Busy

LEMMA IdleStep == TypeOK /\ Numbered /\ Busy /\ [Next]_vars => Busy'
  <1> SUFFICES ASSUME TypeOK, Numbered, Busy, [Next]_vars PROVE Busy'
    OBVIOUS
  <1>1. CASE UNCHANGED orchestratorVars
    BY <1>1, IdleKept DEF orchestratorVars, sharedVars, pipeVars
  <1>2. CASE HotkeyStart \/ HotkeyCancel \/ PassCompletes \/ TimerExpires
    BY <1>2, IdleKept
       DEF HotkeyStart, HotkeyCancel, PassCompletes, StreamPassDone, TimerExpires,
           TimerElapses, sharedVars, pipeVars
  <1>3. CASE LoopCancel
    BY <1>3 DEF LoopCancel, Cancel, Busy
  <1>4. CASE OrchestratorStep
    BY <1>4, OrchestratorStepIdle
  <1> QED
    BY <1>1, <1>2, <1>3, <1>4
       DEF Next, vars, StopRecording, StopStarts, StopProceeds, Speak, LoopStep,
           ChunkerStep, CaptureStep, External, CallCompletes, Completes,
           IntervalElapses

\* Once every task is done and no error is on display the machine is in idle,
\* for any number of pipelines, whichever of them moved it (_run_pipeline and
\* the StateMachine's table).
THEOREM RestsIdleAlways == Spec => []RestsIdle
  <1>1. Init => Busy
    BY IdleInit
  <1>2. TypeOK /\ InsertedInv /\ Busy /\ [Next]_vars => Busy'
    BY IdleStep DEF InsertedInv
  <1>3. TypeOK /\ ErrorTimerArmed /\ Busy => RestsIdle
    <2> SUFFICES ASSUME TypeOK, ErrorTimerArmed, Busy, Settled, timer = "off"
                 PROVE  sm = "idle"
      BY DEF RestsIdle
    <2>1. \A p \in Pipes : pc[p] \in {"none", "gone"}
      BY DEF Settled
    <2>2. sm \in AppStates /\ sm # "error"
      BY DEF TypeOK, OrchestratorTypeOK, SharedTypeOK, ErrorTimerArmed
    <2> QED
      BY <2>1, <2>2 DEF Busy, Held, Hearing, Cleaning, Inserting, AppStates
  <1>4. Init => InsertedInv
    BY InsertedInit
  <1>5. TypeOK /\ InsertedInv /\ [Next]_vars => InsertedInv'
    BY InsertedStep
  <1> QED
    BY <1>1, <1>2, <1>3, <1>4, <1>5, TypeCorrect, ErrorTimer, PTL DEF Spec

-----------------------------------------------------------------------------
(***************************************************************************)
(* A PATIENT USER.  What Dictation promises him (Hasty = FALSE): the text  *)
(* of the whole recording or, in streaming mode, of a tail of it; nothing  *)
(* after a cancel; and the service described in DictationService, which it *)
(* implements.  First what the proofs share: a classification of the       *)
(* steps, and what "patient" makes true.                                   *)
(***************************************************************************)

-----------------------------------------------------------------------------
(***************************************************************************)
(* What a step may do to a dictation, said once for the proofs below: it   *)
(* is a step of the user's, an event that creates, cancels or forgets a    *)
(* pipeline, a step of one pipeline, or none of these (Aside).             *)
(***************************************************************************)

\* Callbacks that create or forget a pipeline, or cancel one.
Plain(new) ==
  \A i \in 1..Len(new) : new[i].kind \notin {"finalize", "stopped", "joined", "cancel"}

Queues(d, new) == new \in Seq(Callbacks) /\ Shifted(d, new)

Aside ==
  /\ UNCHANGED <<captureVars, handle, audio, text, out, failed, userVars>>
  /\ \A p \in Pipes : \/ pc'[p] = pc[p]
                      \/ pc[p] = "stream" /\ pc'[p] = "streamed"
  /\ pc' \in [Pipes -> PipePcs]
  /\ \E d \in {0, 1} : \E new :
       Queues(d, new) /\ Plain(new) /\ (d = 1 => Head(ready).kind \notin Births)

\* Where a pipeline has the text it will insert.
Holding == {"asr", "asrPause", "clean", "cleanPause"} \union Inserting

Works(p) ==
  /\ Queues(1, <<>>) /\ UNCHANGED out
  /\ \E x \in {"stream"} \union Holding :
       /\ pc' = [pc EXCEPT ![p] = x]
       /\ \/ pc[p] = "new" /\ x = "stream" /\ StreamingASR /\ UNCHANGED <<text, failed>>
          \/ /\ pc[p] \in {"new", "streamed"} /\ x \in Holding /\ audio # <<>>
             /\ text' = [text EXCEPT ![p] = audio[1]] /\ UNCHANGED failed
          \/ /\ pc[p] \in {"new", "streamed"} /\ x \in Holding
             /\ finalSeg # <<>> /\ (pc[p] = "new" => StreamingASR)
             /\ text' = [text EXCEPT ![p] = finalSeg[1]] /\ UNCHANGED failed
          \/ pc[p] \in Holding /\ x \in Holding /\ UNCHANGED <<text, failed>>
          \/ /\ "asr" \in Outcomes /\ pc[p] = "asr" /\ x \in Holding
             /\ text' = [text EXCEPT ![p] = transcript]
             /\ failed' = failed \union {p}

Stops(p) ==
  /\ Queues(1, <<Callback("joined", p)>>)
  /\ pc[p] \notin {"none", "ended", "gone"}
  /\ pc' = [pc EXCEPT ![p] = "ended"] /\ UNCHANGED text
  /\ \/ failed' \in {failed, failed \union {p}} /\ UNCHANGED out
     \/ /\ pc[p] \in {"insert", "clip"} /\ text[p] # <<>> /\ UNCHANGED failed
        /\ out' = Append(out, [pipe |-> p, text |-> text[p]])

Advances(p) ==
  /\ UNCHANGED <<captureVars, chunkerVars, handle, audio, userVars>>
  /\ \/ UNCHANGED <<streamPc, streamGen, streamGot, streamQueue, finalSeg>>
     \/ ResetStreaming
  /\ Works(p) \/ Stops(p)
  /\ Runs("pipeline")

-----------------------------------------------------------------------------
\* A pipeline's steps.

LEMMA NoneQueued ==
  ASSUME TypeOK, NEW k, Runs(k), Schedules(<<>>)
  PROVE  Queues(1, <<>>)
  <1>1. <<>> \in Seq(Callbacks) /\ ready # <<>> /\ ready \in Seq(Callbacks)
    BY DEF TypeOK, Runs
  <1> QED BY <1>1, SchedulesShifts DEF Queues

LEMMA OneQueued ==
  ASSUME TypeOK, NEW k, Runs(k), NEW c \in Callbacks, Schedules(<<c>>)
  PROVE  Queues(1, <<c>>)
  <1>1. <<c>> \in Seq(Callbacks) /\ ready # <<>> /\ ready \in Seq(Callbacks)
    BY DEF TypeOK, Runs
  <1> QED BY <1>1, SchedulesShifts DEF Queues

LEMMA CleanupHolds ==
  ASSUME TypeOK, NEW p \in Pipes, NEW t, NEW s, BeginsCleanup(p, t, s)
  PROVE  /\ \E x \in Holding : pc' = [pc EXCEPT ![p] = x]
         /\ text' = [text EXCEPT ![p] = t] /\ Schedules(<<>>)
  BY DEF BeginsCleanup, Holding, Inserting

LEMMA TextSame ==
  ASSUME TypeOK, NEW p \in Pipes
  PROVE  [text EXCEPT ![p] = text[p]] = text
  BY DEF TypeOK, OrchestratorTypeOK, PipeTypeOK

LEMMA MovesWork ==
  ASSUME TypeOK, NEW p \in Pipes, Step(p), pc[p] \in Holding, NEW x \in Holding,
         pc' = [pc EXCEPT ![p] = x], UNCHANGED <<text, failed, out>>, Schedules(<<>>)
  PROVE  Works(p)
  BY NoneQueued DEF Works, Step

LEMMA EndsStop ==
  ASSUME TypeOK, NEW p \in Pipes, Step(p), pc[p] \notin {"none", "ended", "gone"},
         pc' = [pc EXCEPT ![p] = "ended"], Schedules(<<Callback("joined", p)>>),
         UNCHANGED text,
         \/ failed' \in {failed, failed \union {p}} /\ UNCHANGED out
         \/ /\ pc[p] \in {"insert", "clip"} /\ text[p] # <<>> /\ UNCHANGED failed
            /\ out' = Append(out, [pipe |-> p, text |-> text[p]])
  PROVE  Stops(p)
  <1>1. Callback("joined", p) \in Callbacks
    BY CallbackTyped DEF Kinds, Pipes
  <1>2. Queues(1, <<Callback("joined", p)>>)
    BY <1>1, OneQueued DEF Step
  <1> QED BY <1>2 DEF Stops

LEMMA PipelineStepWorks ==
  ASSUME TypeOK, NEW p \in Pipes, PipelineStep(p)
  PROVE  Works(p) \/ Stops(p)
  <1>0. Step(p)
    BY DEF PipelineStep, WaitsForStream, TakesStreamed, CallsAsr, AsrHasNoAudio,
           AsrReturns, Pauses, Retries, AsrExhausted, CleanupReturns, CleanupExhausted,
           InsertReturns, InsertFallsBack, UndoReturns, ClipboardReturns,
           InsertionFails, Unwinds
  <1>2. CASE WaitsForStream(p)
    <2>1. /\ Queues(1, <<>>) /\ pc[p] = "new" /\ StreamingASR
          /\ pc' = [pc EXCEPT ![p] = "stream"] /\ UNCHANGED <<text, failed, out>>
      BY <1>0, <1>2, NoneQueued DEF WaitsForStream, FindsStream, Awaits, NoError, Step
    <2> QED BY <2>1 DEF Works
  <1>3. CASE CallsAsr(p)
    <2>1. /\ Queues(1, <<>>) /\ pc[p] \in {"new", "streamed"} /\ audio # <<>>
          /\ pc' = [pc EXCEPT ![p] = "asr"] /\ UNCHANGED <<failed, out>>
          /\ text' = [text EXCEPT ![p] = audio[1]]
      BY <1>0, <1>3, NoneQueued, EntersFrom DEF CallsAsr, NoError, Step
    <2> QED BY <2>1 DEF Works, Holding
  <1>4. CASE TakesStreamed(p)
    <2>1. /\ pc[p] \in {"new", "streamed"} /\ (pc[p] = "new" => StreamingASR)
          /\ finalSeg # <<>> /\ UNCHANGED <<failed, out>>
          /\ \E s : BeginsCleanup(p, finalSeg[1], s)
      BY <1>4 DEF TakesStreamed, StreamOver, FindsStream, NoError
    <2>2. /\ \E x \in Holding : pc' = [pc EXCEPT ![p] = x]
          /\ text' = [text EXCEPT ![p] = finalSeg[1]] /\ Schedules(<<>>)
      BY <2>1, CleanupHolds
    <2>3. Queues(1, <<>>)
      BY <1>0, <2>2, NoneQueued DEF Step
    <2> QED BY <2>1, <2>2, <2>3 DEF Works
  <1>5. CASE AsrReturns(p)
    <2>1. /\ pc[p] = "asr" /\ UNCHANGED <<failed, out>>
          /\ \E s : BeginsCleanup(p, text[p], s)
      BY <1>5 DEF AsrReturns, NoError
    <2>2. /\ \E x \in Holding : pc' = [pc EXCEPT ![p] = x]
          /\ text' = text /\ Schedules(<<>>)
      BY <2>1, CleanupHolds, TextSame
    <2> QED BY <1>0, <2>1, <2>2, MovesWork DEF Holding
  <1>6. CASE AsrExhausted(p)
    <2>1. /\ pc[p] = "asr" /\ failed' = failed \union {p} /\ UNCHANGED out
          /\ "asr" \in Outcomes /\ \E s : BeginsCleanup(p, transcript, s)
      BY <1>6 DEF AsrExhausted, EmitFatal
    <2>2. /\ \E x \in Holding : pc' = [pc EXCEPT ![p] = x]
          /\ text' = [text EXCEPT ![p] = transcript] /\ Schedules(<<>>)
      BY <2>1, CleanupHolds
    <2>3. Queues(1, <<>>)
      BY <1>0, <2>2, NoneQueued DEF Step
    <2> QED BY <2>1, <2>2, <2>3 DEF Works
  <1>7. CASE \/ Pauses(p, "asr", "asrPause", "asr") \/ Retries(p, "asr", "asrPause")
             \/ Pauses(p, "clean", "cleanPause", "cleanup")
             \/ Retries(p, "clean", "cleanPause")
             \/ InsertFallsBack(p) \/ UndoReturns(p)
             \/ CleanupReturns(p) \/ CleanupExhausted(p)
    <2>1. /\ pc[p] \in Holding /\ \E x \in Holding : pc' = [pc EXCEPT ![p] = x]
          /\ UNCHANGED <<text, failed, out>> /\ Schedules(<<>>)
      BY <1>7
         DEF Pauses, Retries, InsertFallsBack, UndoReturns, CleanupReturns,
             CleanupExhausted, EntersInsertion, Awaits, NoError, Holding, Inserting
    <2> QED BY <1>0, <2>1, MovesWork
  <1>8. CASE AsrHasNoAudio(p)
    <2>1. pc[p] \in {"new", "streamed"}
      BY <1>8, EntersFrom DEF AsrHasNoAudio
    <2> QED BY <1>0, <1>8, <2>1, EndsStop DEF AsrHasNoAudio, EmitFatal, Ends
  <1>9. CASE InsertionFails(p)
    BY <1>0, <1>9, EndsStop DEF InsertionFails, EmitFatal, Ends
  <1>10. CASE Unwinds(p)
    BY <1>0, <1>10, EndsStop DEF Unwinds, NoError, Ends
  <1>11. CASE InsertReturns(p) \/ ClipboardReturns(p)
    <2>1. /\ pc[p] \in {"insert", "clip"} /\ UNCHANGED <<text, failed>>
          /\ pc' = [pc EXCEPT ![p] = "ended"] /\ Schedules(<<Callback("joined", p)>>)
          /\ out' = IF text[p] = <<>> THEN out
                    ELSE Append(out, [pipe |-> p, text |-> text[p]])
      BY <1>11 DEF InsertReturns, ClipboardReturns, Inserted, NoError, Ends
    <2>2. CASE text[p] = <<>>
      BY <1>0, <2>1, <2>2, EndsStop
    <2>3. CASE text[p] # <<>>
      BY <1>0, <2>1, <2>3, EndsStop
    <2> QED BY <2>2, <2>3
  <1> QED
    BY <1>2, <1>3, <1>4, <1>5, <1>6, <1>7, <1>8, <1>9, <1>10, <1>11 DEF PipelineStep

LEMMA PipelineStepAdvances ==
  ASSUME TypeOK, NEW p \in Pipes, PipelineStep(p),
         UNCHANGED <<captureVars, chunkerVars, userVars>>
  PROVE  Advances(p)
  <1>1. UNCHANGED <<handle, audio>>
    BY DEF PipelineStep, WaitsForStream, TakesStreamed, CallsAsr, AsrHasNoAudio,
           AsrReturns, Pauses, Retries, AsrExhausted, CleanupReturns, CleanupExhausted,
           EntersInsertion, InsertReturns, InsertFallsBack, UndoReturns,
           ClipboardReturns, Inserted, InsertionFails, Unwinds, sharedVars
  <1>2. \/ UNCHANGED <<streamPc, streamGen, streamGot, streamQueue, finalSeg>>
        \/ ResetStreaming
    BY DEF PipelineStep, WaitsForStream, TakesStreamed, CallsAsr, AsrHasNoAudio,
           AsrReturns, Pauses, Retries, AsrExhausted, CleanupReturns, CleanupExhausted,
           EntersInsertion, InsertReturns, InsertFallsBack, UndoReturns, Awaits, Ends,
           ClipboardReturns, Inserted, InsertionFails, Unwinds, streamVars
  <1>3. Runs("pipeline")
    BY DEF PipelineStep, WaitsForStream, TakesStreamed, CallsAsr, AsrHasNoAudio,
           AsrReturns, Pauses, Retries, AsrExhausted, CleanupReturns, CleanupExhausted,
           InsertReturns, InsertFallsBack, UndoReturns, ClipboardReturns,
           InsertionFails, Unwinds, Step
  <1> QED BY <1>1, <1>2, <1>3, PipelineStepWorks DEF Advances

-----------------------------------------------------------------------------
\* The steps that concern no dictation's fate.

LEMMA StillAside ==
  ASSUME TypeOK, UNCHANGED <<captureVars, handle, audio, text, out, failed, userVars>>,
         UNCHANGED <<pc, ready>>
  PROVE  Aside
  <1>1. ready \in Seq(Callbacks) /\ <<>> \in Seq(Callbacks) /\ CallSoon(<<>>)
    BY DEF TypeOK, CallSoon
  <1>2. Shifted(0, <<>>)
    BY <1>1, CallSoonShifts
  <1>3. Queues(0, <<>>) /\ Plain(<<>>)
    BY <1>1, <1>2 DEF Queues, Plain
  <1> QED
    BY <1>3 DEF Aside, TypeOK, OrchestratorTypeOK, PipeTypeOK

LEMMA QuietAside ==
  ASSUME TypeOK, UNCHANGED <<captureVars, handle, audio, text, out, failed, userVars>>,
         \A p \in Pipes : \/ pc'[p] = pc[p]
                          \/ pc[p] = "stream" /\ pc'[p] = "streamed",
         pc' \in [Pipes -> PipePcs],
         NEW new \in Seq(Callbacks), Plain(new),
         \/ CallSoon(new)
         \/ \E k : Runs(k) /\ k \notin Births /\ Schedules(new)
  PROVE  Aside
  <1>1. ready \in Seq(Callbacks)
    BY DEF TypeOK
  <1>2. Queues(0, new) \/ (Queues(1, new) /\ Head(ready).kind \notin Births)
    BY <1>1, CallSoonShifts, SchedulesShifts DEF Queues, Runs
  <1> QED BY <1>2 DEF Aside

\* New callbacks of the kinds that matter here to nobody.
LEMMA PlainOne ==
  ASSUME NEW c \in Callbacks, c.kind \notin {"finalize", "stopped", "joined", "cancel"}
  PROVE  <<c>> \in Seq(Callbacks) /\ Plain(<<c>>)
  BY DEF Plain

LEMMA PlainNone == <<>> \in Seq(Callbacks) /\ Plain(<<>>)
  BY DEF Plain

LEMMA PlainCallback ==
  ASSUME NEW k \in Kinds \ {"finalize", "stopped", "joined", "cancel"}, NEW n \in Nat
  PROVE  <<Callback(k, n)>> \in Seq(Callbacks) /\ Plain(<<Callback(k, n)>>)
  <1>1. Callback(k, n) \in Callbacks /\ Callback(k, n).kind = k
    BY CallbackTyped DEF Callback
  <1> QED BY <1>1, PlainOne

LEMMA PlainStopCall ==
  ASSUME NEW k \in {"stop_spawn", "stop_begin", "stop_resume"}, NEW f \in BOOLEAN
  PROVE  <<StopCall(k, f)>> \in Seq(Callbacks) /\ Plain(<<StopCall(k, f)>>)
  <1>1. StopCall(k, f) \in Callbacks /\ StopCall(k, f).kind = k
    BY StopCallTyped DEF StopCall, Callback
  <1> QED BY <1>1, PlainOne

LEMMA PlainChunk ==
  ASSUME NEW f \in BOOLEAN, NEW d \in Audio
  PROVE  <<ChunkEvent(f, d)>> \in Seq(Callbacks) /\ Plain(<<ChunkEvent(f, d)>>)
  <1>1. ChunkEvent(f, d) \in Callbacks /\ ChunkEvent(f, d).kind = "chunk"
    BY ChunkEventTyped DEF ChunkEvent
  <1> QED BY <1>1, PlainOne

LEMMA ChunkerAside ==
  ASSUME TypeOK, ChunkerStep
  PROVE  Aside
  <1>0. /\ UNCHANGED <<captureVars, handle, audio, text, out, failed, userVars, pc>>
        /\ pc' \in [Pipes -> PipePcs]
    BY DEF ChunkerStep, orchestratorVars, pipeVars, historyVars, sharedVars,
           TypeOK, OrchestratorTypeOK, PipeTypeOK
  <1>1. ASSUME NEW r \in Recs, Start(r) PROVE Aside
    <2>1. /\ <<Callback("chunk_loop", r)>> \in Seq(Callbacks)
          /\ Plain(<<Callback("chunk_loop", r)>>)
      BY PlainCallback DEF Kinds, Recs
    <2> QED BY <1>0, <1>1, <2>1, QuietAside DEF Start, Births
  <1>2. ASSUME NEW r \in Recs, LoopEnds(r) PROVE Aside
    <2>1. stopWaits[r] \in Seq(BOOLEAN)
      BY DEF TypeOK, ChunkerTypeOK
    <2>2. \A i \in 1..Len(stopWaits[r]) :
            /\ StopCall("stop_resume", stopWaits[r][i]) \in Callbacks
            /\ StopCall("stop_resume", stopWaits[r][i]).kind = "stop_resume"
      BY <2>1, StopCallTyped DEF StopCall, Callback
    <2>3. Resumed(r) \in Seq(Callbacks) /\ Plain(Resumed(r))
      BY <2>1, <2>2 DEF Resumed, Plain
    <2> QED BY <1>0, <1>2, <2>3, QuietAside DEF LoopEnds, Births
  <1>3. ASSUME NEW r \in Recs, LoopSleeps(r) PROVE Aside
    <2>1. /\ <<ChunkEvent(FALSE, chunkBuf)>> \in Seq(Callbacks)
          /\ Plain(<<ChunkEvent(FALSE, chunkBuf)>>)
      BY PlainChunk DEF TypeOK, ChunkerTypeOK
    <2>2. /\ Runs("chunk_loop")
          /\ \/ Schedules(<<>>)
             \/ Schedules(<<ChunkEvent(FALSE, chunkBuf)>>)
      BY <1>3 DEF LoopSleeps
    <2> QED BY <1>0, <2>1, <2>2, PlainNone, QuietAside DEF Births
  <1>4. CASE StopSpawn
    <2>1. Head(ready).flush \in BOOLEAN
      BY <1>4, HeadTyped DEF StopSpawn, TypeOK
    <2>2. /\ <<StopCall("stop_begin", Head(ready).flush)>> \in Seq(Callbacks)
          /\ Plain(<<StopCall("stop_begin", Head(ready).flush)>>)
      BY <2>1, PlainStopCall
    <2> QED BY <1>0, <1>4, <2>2, QuietAside DEF StopSpawn, Births
  <1>5. CASE StopBegin
    <2>1. loopTask \in Nat
      BY BoundsAssumption DEF TypeOK, ChunkerTypeOK
    <2>2. /\ <<Callback("chunk_loop", loopTask)>> \in Seq(Callbacks)
          /\ Plain(<<Callback("chunk_loop", loopTask)>>)
      BY <2>1, PlainCallback DEF Kinds
    <2>3. /\ Runs("stop_begin")
          /\ \/ Schedules(<<>>)
             \/ Schedules(<<Callback("chunk_loop", loopTask)>>)
      BY <1>5 DEF StopBegin
    <2> QED BY <1>0, <2>2, <2>3, PlainNone, QuietAside DEF Births
  <1>6. CASE StopFinish
    <2>1. /\ <<ChunkEvent(TRUE, chunkBuf)>> \in Seq(Callbacks)
          /\ Plain(<<ChunkEvent(TRUE, chunkBuf)>>)
      BY PlainChunk DEF TypeOK, ChunkerTypeOK
    <2>2. /\ Runs("stop_resume") \/ Runs("stop_begin")
          /\ \/ Schedules(<<>>)
             \/ Schedules(<<ChunkEvent(TRUE, chunkBuf)>>)
      BY <1>6 DEF StopFinish
    <2> QED BY <1>0, <2>1, <2>2, PlainNone, QuietAside DEF Births
  <1> QED BY <1>1, <1>2, <1>3, <1>4, <1>5, <1>6 DEF ChunkerStep

\* The waiters that the stream task's end wakes.
LEMMA StreamEndsWakes ==
  ASSUME NEW seg, StreamEnds(seg)
  PROVE  \E w \in Seq(Callbacks) :
           Schedules(w) /\ \A i \in 1..Len(w) : w[i].kind = "pipeline"
  <1>1. PICK q \in Ascending(Waiters) : Schedules([i \in 1..Len(q) |-> Wake(q[i])])
    BY DEF StreamEnds
  <1>2. q \in Seq(Pipes)
    <2>1. Waiters \subseteq Pipes /\ IsFiniteSet(Waiters)
      <3>1. IsFiniteSet(Pipes)
        BY BoundsAssumption, FS_Interval DEF Pipes
      <3> QED BY <3>1, FS_Subset DEF Waiters
    <2>2. Cardinality(Waiters) \in Nat /\ q \in [1..Cardinality(Waiters) -> Waiters]
      BY <2>1, FS_CardinalityType DEF Ascending
    <2> QED BY <2>1, <2>2
  <1> DEFINE w == [i \in 1..Len(q) |-> Wake(q[i])]
  <1>3. \A i \in 1..Len(q) : Wake(q[i]) \in Callbacks /\ Wake(q[i]).kind = "pipeline"
    <2>1. \A i \in 1..Len(q) : q[i] \in Pipes
      BY <1>2
    <2> QED BY <2>1, WakeTyped DEF Wake, Callback
  <1>4. w \in Seq(Callbacks) /\ \A i \in 1..Len(w) : w[i].kind = "pipeline"
    BY <1>2, <1>3
  <1> QED BY <1>1, <1>4

LEMMA StreamEndsAside ==
  ASSUME TypeOK, NEW k, Runs(k), k \notin Births, NEW seg, StreamEnds(seg),
         UNCHANGED <<captureVars, handle, audio, text, out, failed, userVars>>
  PROVE  Aside
  <1>1. /\ \A p \in Pipes : \/ pc'[p] = pc[p]
                            \/ pc[p] = "stream" /\ pc'[p] = "streamed"
        /\ pc' \in [Pipes -> PipePcs]
    BY DEF StreamEnds, Waiters, PipePcs, TypeOK, OrchestratorTypeOK, PipeTypeOK
  <1>2. PICK w \in Seq(Callbacks) :
          Schedules(w) /\ \A i \in 1..Len(w) : w[i].kind = "pipeline"
    BY StreamEndsWakes
  <1>3. Plain(w)
    BY <1>2 DEF Plain
  <1> QED BY <1>1, <1>2, <1>3, QuietAside

LEMMA OrchestratorAside ==
  ASSUME TypeOK, UNCHANGED <<captureVars, chunkerVars, userVars>>,
         \/ Prepare \/ OnAudioChunk \/ IgnoreAudioChunk
         \/ StreamConsumes \/ StreamReachesEnd \/ StreamFinal \/ StreamFails
         \/ StreamUnwinds
  PROVE  Aside
  <1>0. /\ UNCHANGED <<handle, audio, text, out, failed>>
        /\ pc \in [Pipes -> PipePcs]
    BY DEF Prepare, OnAudioChunk, IgnoreAudioChunk, StreamConsumes, StreamReachesEnd,
           StreamFinal, StreamFails, StreamUnwinds, orchestratorVars, sharedVars,
           pipeVars, historyVars, TypeOK, OrchestratorTypeOK, PipeTypeOK
  <1>1. CASE Prepare \/ IgnoreAudioChunk \/ StreamConsumes \/ StreamUnwinds
    <2>1. UNCHANGED pc /\ Schedules(<<>>)
      BY <1>1 DEF Prepare, IgnoreAudioChunk, StreamConsumes, StreamUnwinds, orchestratorVars, pipeVars
    <2>2. Runs("prepare") \/ Runs("chunk") \/ Runs("stream")
      BY <1>1 DEF Prepare, IgnoreAudioChunk, StreamConsumes, StreamUnwinds, StreamStep
    <2>3. \E k : Runs(k) /\ k \notin Births
      BY <2>2 DEF Births
    <2> QED BY <1>0, <2>1, <2>3, PlainNone, QuietAside DEF Births
  <1>2. CASE OnAudioChunk
    <2>1. UNCHANGED pc /\ Runs("chunk") /\ streamGen' \in Nat
      BY <1>2 DEF OnAudioChunk, pipeVars, TypeOK, OrchestratorTypeOK, StreamTypeOK
    <2>2. \/ Schedules(<<>>)
          \/ Schedules(<<Callback("stream", streamGen')>>)
      BY <1>2 DEF OnAudioChunk
    <2>3. /\ <<Callback("stream", streamGen')>> \in Seq(Callbacks)
          /\ Plain(<<Callback("stream", streamGen')>>)
      BY <2>1, PlainCallback DEF Kinds
    <2> QED BY <1>0, <2>1, <2>2, <2>3, PlainNone, QuietAside DEF Births
  <1>3. CASE StreamFinal \/ StreamFails
    BY <1>0, <1>3, StreamEndsAside DEF Births, StreamFinal, StreamFails, StreamStep
  <1>4. CASE StreamReachesEnd
    <2>1. Runs("stream")
      BY <1>4 DEF StreamReachesEnd, StreamStep
    <2>2. CASE streamGot' = <<>>
      BY <1>0, <1>4, <2>1, <2>2, StreamEndsAside DEF Births, StreamReachesEnd
    <2>3. CASE streamGot' # <<>>
      BY <1>0, <1>4, <2>1, <2>3, PlainNone, QuietAside DEF Births, StreamReachesEnd
    <2> QED BY <2>2, <2>3
  <1> QED BY <1>1, <1>2, <1>3, <1>4

LEMMA ExternalAside ==
  ASSUME TypeOK, External
  PROVE  Aside
  <1>0. pc \in [Pipes -> PipePcs]
    BY DEF TypeOK, OrchestratorTypeOK, PipeTypeOK
  <1>1. ASSUME NEW p \in Pipes, CallCompletes(p) PROVE Aside
    <2>1. <<Wake(p)>> \in Seq(Callbacks) /\ Plain(<<Wake(p)>>)
      BY PlainCallback DEF Wake, Kinds, Pipes
    <2> QED
      BY <1>0, <1>1, <2>1, QuietAside
         DEF CallCompletes, Completes, captureVars, orchestratorVars, pipeVars,
             historyVars, sharedVars
  <1>2. CASE PassCompletes
    <2>1. /\ <<Callback("stream", streamGen)>> \in Seq(Callbacks)
          /\ Plain(<<Callback("stream", streamGen)>>)
      BY PlainCallback
         DEF Kinds, TypeOK, OrchestratorTypeOK, StreamTypeOK
    <2> QED
      BY <1>0, <1>2, <2>1, QuietAside
         DEF PassCompletes, StreamPassDone, captureVars, pipeVars, historyVars,
             sharedVars
  <1>3. CASE TimerExpires
    <2>1. /\ <<Callback("error_timer", timerGen)>> \in Seq(Callbacks)
          /\ Plain(<<Callback("error_timer", timerGen)>>)
      BY PlainCallback
         DEF Kinds, TypeOK, OrchestratorTypeOK, TimerTypeOK
    <2> QED
      BY <1>0, <1>3, <2>1, QuietAside
         DEF TimerExpires, TimerElapses, captureVars, pipeVars, historyVars, sharedVars
  <1>4. ASSUME NEW r \in Recs, IntervalElapses(r) PROVE Aside
    <2>1. /\ <<Callback("chunk_loop", r)>> \in Seq(Callbacks)
          /\ Plain(<<Callback("chunk_loop", r)>>)
      BY PlainCallback DEF Kinds, Recs
    <2> QED
      BY <1>0, <1>4, <2>1, QuietAside
         DEF IntervalElapses, LoopTick, captureVars, orchestratorVars, pipeVars,
             historyVars, sharedVars
  <1> QED BY <1>1, <1>2, <1>3, <1>4 DEF External

\* Every step is one of these.
LEMMA EveryStep ==
  ASSUME TypeOK, [Next]_vars
  PROVE  \/ HotkeyStart \/ HotkeyCancel \/ StopRecording \/ Speak
         \/ LoopCancel \/ CaptureStep
         \/ /\ OnRecordingStopped \/ OnPipelineDone \/ TimerFires
            /\ UNCHANGED <<captureVars, chunkerVars, userVars>>
         \/ \E p \in Pipes : PipelineStep(p) /\ Advances(p)
         \/ Aside
  <1>1. CASE UNCHANGED vars
    BY <1>1, StillAside DEF vars, orchestratorVars, pipeVars, historyVars, sharedVars
  <1>2. CASE LoopStep
    <2>1. CASE OrchestratorStep
      BY <2>1, OrchestratorAside, PipelineStepAdvances DEF OrchestratorStep
    <2> QED BY <1>2, <2>1, ChunkerAside DEF LoopStep
  <1> QED BY <1>1, <1>2, ExternalAside DEF Next

-----------------------------------------------------------------------------
(***************************************************************************)
(* A patient user.  With Hasty = FALSE a recording begins when nothing of  *)
(* the one before is left to do, so all that is on its way belongs to the  *)
(* current recording, nrec, and while a pipeline of it is announced or     *)
(* runs nothing more is recorded (Ours).                                   *)
(***************************************************************************)

Current(p) == p \in 1..nstop /\ origin[p] = nrec

\* Callbacks that are for the pipeline they name.
ForPipe == Births \union {"joined"}

Ours ==
  /\ \A p \in 1..nstop : origin[p] \in 1..nrec /\ (origin[p] = nrec => ~recording)
  /\ \A i \in 1..Len(ready) : ready[i].kind \in ForPipe => Current(ready[i].id)
  /\ \A p \in Pipes : pc[p] \notin {"none", "gone"} => Current(p)
  /\ \A t \in Threads : /\ stopper[t] # "out" => nrec # 0
                        /\ stopper[t] = "flipped" => ~recording
  /\ recording => nrec # 0

LEMMA Numbers ==
  ASSUME TypeOK
  PROVE  /\ nrec \in Nat /\ nrec <= MaxRecs /\ nstop \in Nat /\ nstop <= MaxPipes
         /\ 1..nstop \subseteq Pipes
         /\ ready \in Seq(Callbacks) /\ Len(ready) \in Nat
         /\ \A i \in 1..Len(ready) : ready[i] \in Callbacks
         /\ pc \in [Pipes -> PipePcs] /\ text \in [Pipes -> Audio]
         /\ origin \in [Pipes -> 0..MaxRecs] /\ stopper \in [Threads -> StopperPcs]
         /\ spoken \in [Recs -> Nat] /\ buffer \in Audio /\ audio \in Seq(Audio)
  <1>1. ready \in Seq(Callbacks) /\ nrec \in 0..MaxRecs /\ nstop \in 0..MaxPipes
    BY DEF TypeOK, CaptureTypeOK
  <1>2. nrec \in Nat /\ nrec <= MaxRecs /\ nstop \in Nat /\ nstop <= MaxPipes
        /\ 1..nstop \subseteq Pipes
    BY <1>1, BoundsAssumption DEF Pipes
  <1> QED
    BY <1>1, <1>2
       DEF TypeOK, CaptureTypeOK, OrchestratorTypeOK, PipeTypeOK, SharedTypeOK

\* The callback that runs is the first of the queue.
LEMMA HeadIsFirst ==
  ASSUME TypeOK, NEW k, Runs(k)
  PROVE  Head(ready) = ready[1] /\ 1 \in 1..Len(ready) /\ ready[1].kind = k
  BY TailAt DEF Runs, TypeOK

\* A callback in the queue was there, or is new.
LEMMA OldOrNew ==
  ASSUME TypeOK, NEW d \in {0, 1}, NEW new, Queues(d, new), NEW i \in 1..Len(ready')
  PROVE  \/ \E j \in 1..Len(ready) : j = i + d /\ ready'[i] = ready[j]
         \/ \E j \in 1..Len(new) : ready'[i] = new[j]
  BY DEF Queues, Shifted

LEMMA OursKept ==
  ASSUME TypeOK, Ours, UNCHANGED <<nrec, nstop, origin>>, recording' => recording,
         \A t \in Threads : /\ stopper'[t] # "out" => nrec # 0
                            /\ stopper'[t] = "flipped" => ~recording',
         NEW d \in {0, 1}, NEW new, Queues(d, new),
         \A i \in 1..Len(new) : new[i].kind \in ForPipe => Current(new[i].id),
         \A p \in Pipes : pc'[p] \notin {"none", "gone"} =>
                            pc[p] \notin {"none", "gone"} \/ Current(p)
  PROVE  Ours'
  <1>1. \A i \in 1..Len(ready') : ready'[i].kind \in ForPipe => Current(ready'[i].id)
    BY OldOrNew DEF Ours
  <1>2. \A p \in Pipes : pc'[p] \notin {"none", "gone"} => Current(p)
    BY DEF Ours
  <1>3. \A p : Current(p) => Current(p)'
    BY DEF Current
  <1>4. \A i \in 1..Len(ready') : ready'[i].kind \in ForPipe => Current(ready[i].id)'
    BY <1>1 DEF Current
  <1>5. \A p \in Pipes : pc'[p] \notin {"none", "gone"} => Current(p)'
    BY <1>2, <1>3
  <1> QED BY <1>4, <1>5 DEF Ours

\* ... when capture does nothing.
LEMMA OursKeptStill ==
  ASSUME TypeOK, Ours, UNCHANGED <<recording, nrec, nstop, origin, stopper>>,
         NEW d \in {0, 1}, NEW new, Queues(d, new),
         \A i \in 1..Len(new) : new[i].kind \in ForPipe => Current(new[i].id),
         \A p \in Pipes : pc'[p] \notin {"none", "gone"} =>
                            pc[p] \notin {"none", "gone"} \/ Current(p)
  PROVE  Ours'
  <1>1. \A t \in Threads : /\ stopper'[t] # "out" => nrec # 0
                           /\ stopper'[t] = "flipped" => ~recording'
    BY DEF Ours
  <1> QED BY <1>1, OursKept

LEMMA AsideOurs ==
  ASSUME TypeOK, Ours, Aside
  PROVE  Ours'
  <1>1. PICK d \in {0, 1} : \E new : Queues(d, new) /\ Plain(new)
    BY DEF Aside
  <1>2. PICK new : Queues(d, new) /\ Plain(new)
    BY <1>1
  <1>3. \A i \in 1..Len(new) : new[i].kind \notin ForPipe
    BY <1>2 DEF Plain, ForPipe, Births
  <1>4. /\ UNCHANGED <<recording, nrec, nstop, origin, stopper>>
        /\ \A p \in Pipes : pc'[p] \notin {"none", "gone"} => pc[p] \notin {"none", "gone"}
    BY DEF Aside, captureVars, userVars, historyOfUser
  <1> QED BY <1>2, <1>3, <1>4, OursKeptStill

LEMMA AdvancesOurs ==
  ASSUME TypeOK, Ours, NEW p \in Pipes, Advances(p)
  PROVE  Ours'
  <1>1. UNCHANGED <<recording, nrec, nstop, origin, stopper>>
    BY DEF Advances, captureVars, userVars, historyOfUser
  <1>2. CASE Works(p)
    <2>1. /\ pc[p] \notin {"none", "gone"}
          /\ \A q \in Pipes : q # p => pc'[q] = pc[q]
      BY <1>2, Numbers DEF Works, Holding, Inserting
    <2>2. \A i \in 1..Len(<<>>) : <<>>[i].kind \in ForPipe => Current(<<>>[i].id)
      OBVIOUS
    <2>3. Queues(1, <<>>)
      BY <1>2 DEF Works
    <2> QED BY <1>1, <2>1, <2>2, <2>3, OursKeptStill
  <1>3. CASE Stops(p)
    <2> DEFINE c == Callback("joined", p)
    <2>1. /\ pc[p] \notin {"none", "gone"} /\ Queues(1, <<c>>)
          /\ \A q \in Pipes : q # p => pc'[q] = pc[q]
      BY <1>3, Numbers DEF Stops
    <2>2. Current(p)
      BY <2>1 DEF Ours
    <2>3. \A i \in 1..Len(<<c>>) : <<c>>[i].kind \in ForPipe => Current(<<c>>[i].id)
      BY <2>2 DEF Callback
    <2> HIDE DEF c
    <2> QED BY <1>1, <2>1, <2>2, <2>3, OursKeptStill
  <1> QED BY <1>2, <1>3 DEF Advances

\* The events that create, cancel or forget a pipeline.
LEMMA HandlersOurs ==
  ASSUME TypeOK, Ours,
         UNCHANGED <<recording, nrec, nstop, origin, stopper>>,
         OnRecordingStopped \/ OnPipelineDone \/ TimerFires \/ Cancel \/ FinalizeStop,
         FinalizeStop => UNCHANGED pc
  PROVE  Ours'
  <1>0. /\ pc \in [Pipes -> PipePcs] /\ ready \in Seq(Callbacks)
        /\ buffer \in Audio
    BY Numbers
  <1>1. \A i \in 1..Len(<<>>) : <<>>[i].kind \in ForPipe => Current(<<>>[i].id)
    OBVIOUS
  <1>2. CASE OnRecordingStopped
    <2> DEFINE p == Head(ready).id
    <2>1. Runs("stopped") /\ Schedules(<<Wake(p)>>) /\ pc' = [pc EXCEPT ![p] = "new"]
      BY <1>2 DEF OnRecordingStopped
    <2>2. Current(p) /\ p \in Pipes
      BY <2>1, HeadIsFirst, Numbers DEF Ours, Current, ForPipe, Births
    <2>3. Wake(p) \in Callbacks /\ Wake(p).kind \notin ForPipe
      BY <2>2, WakeTyped DEF Wake, Callback, ForPipe, Births
    <2> HIDE DEF p
    <2>4. Queues(1, <<Wake(p)>>)
      BY <2>1, <2>3, OneQueued
    <2>5. \A i \in 1..Len(<<Wake(p)>>) :
            <<Wake(p)>>[i].kind \in ForPipe => Current(<<Wake(p)>>[i].id)
      BY <2>3
    <2> QED BY <1>0, <2>1, <2>2, <2>4, <2>5, OursKeptStill
  <1>3. CASE OnPipelineDone
    <2>1. Queues(1, <<>>) /\ pc' = [pc EXCEPT ![Head(ready).id] = "gone"]
      BY <1>3, NoneQueued DEF OnPipelineDone
    <2> QED BY <1>0, <1>1, <2>1, OursKeptStill
  <1>4. CASE TimerFires
    <2>1. Queues(1, <<>>) /\ UNCHANGED pc
      BY <1>4, NoneQueued DEF TimerFires, pipeVars
    <2> QED BY <1>1, <2>1, OursKeptStill
  <1>5. CASE Cancel
    <2>1. Runs("cancel") /\ handle \in 0..MaxPipes
      BY <1>5 DEF Cancel, TypeOK, OrchestratorTypeOK, SharedTypeOK
    <2>2. CASE Schedules(<<>>)
      <3>1. \A p \in Pipes : pc'[p] \notin {"none", "gone"} => pc[p] \notin {"none", "gone"}
        BY <1>0, <1>5 DEF Cancel, InFlight
      <3> QED BY <1>1, <2>1, <2>2, <3>1, NoneQueued, OursKeptStill
    <2>3. CASE handle # 0 /\ pc[handle] \in InFlight /\ Schedules(<<Wake(handle)>>)
      <3>1. \A p \in Pipes : pc'[p] \notin {"none", "gone"} => pc[p] \notin {"none", "gone"}
        BY <1>0, <1>5 DEF Cancel, InFlight
      <3>2. Wake(handle) \in Callbacks /\ Wake(handle).kind \notin ForPipe
        BY <2>1, <2>3, BoundsAssumption, WakeTyped DEF Wake, Callback, ForPipe, Births, Pipes
      <3>3. Queues(1, <<Wake(handle)>>)
        BY <2>1, <2>3, <3>2, OneQueued
      <3>4. \A i \in 1..Len(<<Wake(handle)>>) :
              <<Wake(handle)>>[i].kind \in ForPipe => Current(<<Wake(handle)>>[i].id)
        BY <3>2
      <3> QED BY <3>1, <3>3, <3>4, OursKeptStill
    <2> QED BY <1>5, <2>2, <2>3 DEF Cancel
  <1>6. CASE FinalizeStop /\ UNCHANGED pc
    <2> DEFINE p == Head(ready).id
               c == [kind |-> "stopped", id |-> p, flush |-> FALSE, data |-> buffer]
    <2>1. Runs("finalize") /\ Schedules(<<c>>)
      BY <1>6 DEF FinalizeStop
    <2>2. Current(p) /\ p \in Pipes
      BY <2>1, HeadIsFirst, Numbers DEF Ours, Current, ForPipe, Births
    <2>3. c \in Callbacks /\ c.id = p
      BY <1>0, <2>2, StoppedTyped
    <2> HIDE DEF p, c
    <2>4. Queues(1, <<c>>)
      BY <2>1, <2>3, OneQueued
    <2>5. \A i \in 1..Len(<<c>>) : <<c>>[i].kind \in ForPipe => Current(<<c>>[i].id)
      BY <2>2, <2>3
    <2> QED BY <1>6, <2>4, <2>5, OursKeptStill
  <1> QED BY <1>2, <1>3, <1>4, <1>5, <1>6

-----------------------------------------------------------------------------
\* The user's steps.

OfKinds(K) == {c \in Callbacks : c.kind \in K}

LEMMA OfKindsSeq ==
  ASSUME NEW K
  PROVE  /\ <<>> \in Seq(OfKinds(K))
         /\ \A c \in OfKinds(K) : <<c>> \in Seq(OfKinds(K))
         /\ \A s, t \in Seq(OfKinds(K)) : s \o t \in Seq(OfKinds(K))
  OBVIOUS

LEMMA CallSoonQueues ==
  ASSUME TypeOK, NEW K, NEW new \in Seq(OfKinds(K)), CallSoon(new)
  PROVE  Queues(0, new) /\ \A i \in 1..Len(new) : new[i].kind \in K
  <1>1. new \in Seq(Callbacks) /\ \A i \in 1..Len(new) : new[i].kind \in K
    BY DEF OfKinds
  <1> QED BY <1>1, Numbers, CallSoonShifts DEF Queues

LEMMA StartQueues ==
  ASSUME TypeOK, HotkeyStart
  PROVE  \E new : /\ Queues(0, new)
                  /\ \A i \in 1..Len(new) : new[i].kind \in {"prepare", "chunker_start"}
  <1> DEFINE K == {"prepare", "chunker_start"}
             s == <<Callback("prepare", nrec + 1)>>
             t == IF Streaming THEN <<Callback("chunker_start", nrec + 1)>> ELSE <<>>
  <1>1. /\ Callback("prepare", nrec + 1) \in OfKinds(K)
        /\ Callback("chunker_start", nrec + 1) \in OfKinds(K)
    <2>1. nrec + 1 \in Nat
      BY Numbers
    <2>2. /\ Callback("prepare", nrec + 1) \in Callbacks
          /\ Callback("chunker_start", nrec + 1) \in Callbacks
      BY <2>1, CallbackTyped DEF Kinds
    <2> QED BY <2>2 DEF OfKinds, Callback
  <1>2. CallSoon(s \o t)
    BY DEF HotkeyStart, StartRecording
  <1> HIDE DEF K
  <1>3. s \in Seq(OfKinds(K)) /\ t \in Seq(OfKinds(K))
    BY <1>1, OfKindsSeq, Zenon
  <1> HIDE DEF s, t
  <1>4. s \o t \in Seq(OfKinds(K))
    BY <1>3, OfKindsSeq
  <1> QED BY <1>2, <1>4, CallSoonQueues DEF K

LEMMA CancelQueues ==
  ASSUME TypeOK, HotkeyCancel
  PROVE  \E new : /\ Queues(0, new)
                  /\ \A i \in 1..Len(new) : new[i].kind \in {"stop_spawn", "cancel"}
  <1> DEFINE K == {"stop_spawn", "cancel"}
             s == IF recording /\ Streaming
                    THEN <<StopCall("stop_spawn", FALSE)>> ELSE <<>>
             t == <<Callback("cancel", 0)>>
  <1>1. Callback("cancel", 0) \in OfKinds(K) /\ StopCall("stop_spawn", FALSE) \in OfKinds(K)
    BY CallbackTyped, StopCallTyped DEF Kinds, OfKinds, Callback, StopCall
  <1>2. CallSoon(s \o t)
    BY DEF HotkeyCancel, CancelRecording
  <1> HIDE DEF K
  <1>3. s \in Seq(OfKinds(K)) /\ t \in Seq(OfKinds(K))
    BY <1>1, OfKindsSeq, Zenon
  <1> HIDE DEF s, t
  <1>4. s \o t \in Seq(OfKinds(K))
    BY <1>3, OfKindsSeq
  <1> QED BY <1>2, <1>4, CallSoonQueues DEF K

\* stop_recording schedules nothing, a stop of the chunker, or _finalize_stop.
LEMMA StopQueues ==
  ASSUME TypeOK, NEW t \in Threads, StopStarts(t) \/ StopProceeds(t)
  PROVE  \E new : /\ Queues(0, new)
                  /\ \A i \in 1..Len(new) :
                       \/ new[i].kind = "stop_spawn"
                       \/ StopPosts(t) /\ new[i] = Callback("finalize", nstop + 1)
  <1>1. CASE StopStarts(t)
    <2>1. <<>> \in Seq(OfKinds({"stop_spawn"})) /\ CallSoon(<<>>)
      BY <1>1, OfKindsSeq, Numbers DEF StopStarts, StopTests, CallSoon
    <2>2. /\ Queues(0, <<>>)
          /\ \A i \in 1..Len(<<>>) : <<>>[i].kind \in {"stop_spawn"}
      BY <2>1, CallSoonQueues
    <2> QED BY <2>2
  <1>2. CASE StopFlips(t)
    <2> DEFINE K == {"stop_spawn"}
               s == IF Streaming THEN <<StopCall("stop_spawn", TRUE)>> ELSE <<>>
    <2>1. StopCall("stop_spawn", TRUE) \in OfKinds(K)
      BY StopCallTyped DEF OfKinds, Callback, StopCall
    <2>2. CallSoon(s)
      BY <1>2 DEF StopFlips
    <2> HIDE DEF K
    <2>3. s \in Seq(OfKinds(K))
      BY <2>1, OfKindsSeq, Zenon
    <2> HIDE DEF s
    <2> QED BY <2>2, <2>3, CallSoonQueues DEF K
  <1>3. CASE StopPosts(t)
    <2> DEFINE c == Callback("finalize", nstop + 1)
    <2>1. nstop + 1 \in Pipes
      BY <1>3, Numbers, BoundsAssumption DEF StopPosts, Pipes
    <2>2. c \in Callbacks
      BY <2>1, FinalizeTyped
    <2>3. CallSoon(<<c>>)
      BY <1>3 DEF StopPosts
    <2> HIDE DEF c
    <2>4. <<c>> \in Seq(Callbacks) /\ \A i \in 1..Len(<<c>>) : <<c>>[i] = c
      BY <2>2
    <2>5. Queues(0, <<c>>)
      BY <2>3, <2>4, Numbers, CallSoonShifts DEF Queues
    <2> QED BY <1>3, <2>4, <2>5 DEF c
  <1> QED BY <1>1, <1>2, <1>3 DEF StopProceeds

LEMMA HotkeyStartOurs ==
  ASSUME TypeOK, Ours, ~Hasty, HotkeyStart
  PROVE  Ours'
  <1>1. /\ Len(ready) = 0 /\ \A t \in Threads : stopper[t] = "out"
        /\ \A p \in Pipes : pc[p] \in {"none", "gone"}
    BY DEF HotkeyStart, Settled, Stopping
  <1>2. nrec' = nrec + 1 /\ UNCHANGED <<nstop, stopper, origin, pc>>
    BY DEF HotkeyStart, StartRecording, pipeVars, userVars, historyOfUser
  <1>3. PICK new : /\ Queues(0, new)
                   /\ \A i \in 1..Len(new) : new[i].kind \in {"prepare", "chunker_start"}
    BY StartQueues
  <1>4. \A i \in 1..Len(ready') : ready'[i].kind \notin ForPipe
    BY <1>1, <1>3, OldOrNew DEF ForPipe, Births
  <1>5. \A p \in 1..nstop : origin[p] \in 1..nrec' /\ origin[p] # nrec'
    BY <1>2, Numbers DEF Ours
  <1> QED BY <1>1, <1>2, <1>4, <1>5, Numbers DEF Ours

LEMMA HotkeyCancelOurs ==
  ASSUME TypeOK, Ours, HotkeyCancel
  PROVE  Ours'
  <1>1. UNCHANGED <<nrec, nstop, stopper, origin, pc>> /\ recording' = FALSE
    BY DEF HotkeyCancel, CancelRecording, pipeVars
  <1>2. PICK new : /\ Queues(0, new)
                   /\ \A i \in 1..Len(new) : new[i].kind \in {"stop_spawn", "cancel"}
    BY CancelQueues
  <1>3. \A i \in 1..Len(new) : new[i].kind \in ForPipe => Current(new[i].id)
    BY <1>2 DEF ForPipe, Births
  <1>4. \A t \in Threads : /\ stopper'[t] # "out" => nrec # 0
                           /\ stopper'[t] = "flipped" => ~recording'
    BY <1>1 DEF Ours
  <1> QED BY <1>1, <1>2, <1>3, <1>4, OursKept

LEMMA StopPostsOurs ==
  ASSUME TypeOK, Ours, NEW t \in Threads, StopProceeds(t), StopPosts(t)
  PROVE  Ours'
  <1>1. /\ nstop' = nstop + 1 /\ nstop < MaxPipes /\ UNCHANGED <<recording, nrec>>
        /\ stopper[t] = "flipped" /\ stopper' = [stopper EXCEPT ![t] = "out"]
        /\ UNCHANGED pc /\ origin' = [origin EXCEPT ![nstop + 1] = nrec]
    BY DEF StopPosts, StopProceeds, StopFlips, orchestratorVars, pipeVars
  <1>2. nrec # 0 /\ ~recording /\ ~recording'
    BY <1>1 DEF Ours
  <1>3. PICK q \in Pipes : q = nstop + 1 /\ q = nstop' /\ nrec \in 1..nrec
    <2>1. nstop + 1 \in Pipes
      BY <1>1, Numbers, BoundsAssumption DEF Pipes
    <2> QED BY <1>1, <1>2, <2>1, Numbers
  <1>4. /\ origin'[q] = nrec
        /\ \A p \in 1..nstop : origin'[p] = origin[p]
        /\ \A p \in 1..nstop' : p = q \/ p \in 1..nstop
    BY <1>1, <1>3, Numbers
  <1>5. \A p \in 1..nstop' : origin'[p] \in 1..nrec
    BY <1>3, <1>4 DEF Ours
  <1>6. \A p : Current(p) => p \in 1..nstop' /\ origin'[p] = nrec
    BY <1>1, <1>4, Numbers DEF Current
  <1>7. q \in 1..nstop'
    BY <1>3, Numbers
  <1>8. PICK new : /\ Queues(0, new)
                   /\ \A i \in 1..Len(new) : \/ new[i].kind = "stop_spawn"
                                             \/ new[i] = Callback("finalize", nstop + 1)
    BY StopQueues DEF StopProceeds, StopStarts, orchestratorVars, pipeVars
  <1>9. \A i \in 1..Len(new) : new[i].kind \in ForPipe => new[i].id = q
    BY <1>3, <1>8 DEF Callback, ForPipe, Births
  <1>10. ASSUME NEW i \in 1..Len(ready'), ready'[i].kind \in ForPipe
         PROVE  ready'[i].id \in 1..nstop' /\ origin'[ready'[i].id] = nrec
    <2>1. \/ \E j \in 1..Len(ready) : ready'[i] = ready[j]
          \/ ready'[i].id = q
      BY <1>8, <1>9, <1>10, OldOrNew
    <2>2. CASE \E j \in 1..Len(ready) : ready'[i] = ready[j]
      <3>1. PICK j \in 1..Len(ready) : ready'[i] = ready[j]
        BY <2>2
      <3>2. Current(ready[j].id)
        BY <1>10, <3>1 DEF Ours
      <3> QED BY <1>6, <3>1, <3>2
    <2>3. CASE ready'[i].id = q
      BY <1>4, <1>7, <2>3
    <2> QED BY <2>1, <2>2, <2>3
  <1>11. \A p \in Pipes : pc'[p] \notin {"none", "gone"} =>
                            p \in 1..nstop' /\ origin'[p] = nrec
    BY <1>1, <1>6 DEF Ours
  <1>12. \A s \in Threads : /\ stopper'[s] # "out" => nrec # 0
                            /\ stopper'[s] = "flipped" => ~recording'
    BY <1>1, <1>2
  <1> QED
    BY <1>1, <1>2, <1>5, <1>10, <1>11, <1>12 DEF Ours, Current

LEMMA StopOurs ==
  ASSUME TypeOK, Ours, StopRecording
  PROVE  Ours'
  <1>1. PICK t \in Threads : StopStarts(t) \/ StopProceeds(t)
    BY DEF StopRecording
  <1>2. CASE ~StopPosts(t)
    <2>1. PICK new : /\ Queues(0, new)
                     /\ \A i \in 1..Len(new) : new[i].kind = "stop_spawn"
      BY <1>1, <1>2, StopQueues
    <2>2. \A i \in 1..Len(new) : new[i].kind \in ForPipe => Current(new[i].id)
      BY <2>1 DEF ForPipe, Births
    <2>3. /\ UNCHANGED <<nrec, nstop, origin, pc>>
          /\ \/ /\ recording /\ UNCHANGED recording
                /\ stopper' = [stopper EXCEPT ![t] = "tested"]
             \/ /\ stopper[t] = "tested" /\ recording' = FALSE
                /\ stopper' = [stopper EXCEPT ![t] = "flipped"]
      BY <1>1, <1>2 DEF StopStarts, StopProceeds, StopTests, StopFlips, orchestratorVars,
         pipeVars, userVars, historyOfUser
    <2>4. \A s \in Threads : /\ stopper'[s] # "out" => nrec # 0
                             /\ stopper'[s] = "flipped" => ~recording'
      BY <2>3, Numbers DEF Ours
    <2> QED BY <2>1, <2>2, <2>3, <2>4, OursKept
  <1>3. CASE StopPosts(t)
    <2>1. StopProceeds(t)
      BY <1>1, <1>3 DEF StopStarts, StopTests, StopPosts
    <2> QED BY <1>3, <2>1, StopPostsOurs
  <1> QED BY <1>2, <1>3

LEMMA SpeakOurs ==
  ASSUME TypeOK, Ours, Speak
  PROVE  Ours'
  <1>1. UNCHANGED <<recording, nrec, nstop, stopper, ready, origin, pc>>
    BY DEF Speak, AudioBlock, orchestratorVars, pipeVars
  <1> QED BY <1>1 DEF Ours, Current

LEMMA OursInit == Init => Ours
  <1> SUFFICES ASSUME Init PROVE Ours
    OBVIOUS
  <1>1. Len(ready) = 0
    BY DEF Init
  <1> QED
    BY <1>1 DEF Init, CaptureInit, OrchestratorInit, Ours, Current

LEMMA OursStep ==
  ASSUME TypeOK, Ours, ~Hasty, [Next]_vars
  PROVE  Ours'
  <1>1. CASE LoopCancel
    <2>1. UNCHANGED <<recording, nrec, nstop, origin, stopper>> /\ Cancel
      BY <1>1 DEF LoopCancel, captureVars
    <2>2. ~FinalizeStop
      BY <2>1 DEF Cancel, FinalizeStop, Runs
    <2> QED BY <2>1, <2>2, HandlersOurs
  <1>2. CASE CaptureStep
    BY <1>2, HandlersOurs
       DEF CaptureStep, FinalizeStop, captureVars, userVars, historyOfUser,
           orchestratorVars, pipeVars
  <1>3. CASE /\ OnRecordingStopped \/ OnPipelineDone \/ TimerFires
             /\ UNCHANGED <<captureVars, chunkerVars, userVars>>
    BY <1>3, HandlersOurs DEF captureVars, userVars, historyOfUser, FinalizeStop,
       OnRecordingStopped, OnPipelineDone, TimerFires, Runs
  <1> QED
    BY <1>1, <1>2, <1>3, EveryStep, AsideOurs, AdvancesOurs, HotkeyStartOurs,
       HotkeyCancelOurs, StopOurs, SpeakOurs

-----------------------------------------------------------------------------
(***************************************************************************)
(* What is inserted is what was said.  From the microphone to the          *)
(* insertion, the audio of a dictation is in one place after another: the  *)
(* buffer, the RecordingStopped event, _current_audio_bytes, the task.     *)
(* Everywhere it is nothing (cancelled) or the whole recording (WholeInv); *)
(* but in streaming mode the task may have a tail of it, from the stream.  *)
(***************************************************************************)

Whole == From(nrec, 1)
IsWhole(a) == a # <<>> => nrec # 0 /\ a = Whole

\* A text of recording r: the whole of it or, in streaming mode, a tail.
PartOf(r, t) ==
  \E n \in 1..spoken[r] : t = From(r, n) /\ (~StreamingASR => n = 1)
IsPart(t) == t # <<>> => nrec # 0 /\ PartOf(nrec, t)

\* After a failed transcription a pipeline has the text of an earlier one.
Spoilt(p) == "asr" \in Outcomes /\ p \in failed

\* An insertion is of a pipeline there has been, and of its recording.
Right(o) ==
  /\ o.pipe \in 1..nstop
  /\ Spoilt(o.pipe) \/ PartOf(origin[o.pipe], o.text)

\* Pipelines that have not got their text yet.
Fresh == {"new", "stream", "streamed"}

WholeInv ==
  /\ \A r \in Recs : r > nrec => spoken[r] = 0
  /\ IsWhole(buffer) /\ (recording => buffer = Whole)
  /\ \A i \in 1..Len(ready) : ready[i].kind = "stopped" => IsWhole(ready[i].data)
  /\ \A p \in Pipes :
       /\ ~StreamingASR => pc[p] \notin {"stream", "streamed"}
       /\ pc[p] \in Fresh => audio = <<>> \/ IsWhole(audio[1])
       /\ pc[p] \in Holding => Spoilt(p) \/ IsPart(text[p])
  /\ \A i \in Insertions : Right(out[i])

LEMMA WholeSame ==
  ASSUME UNCHANGED <<nrec, spoken>>
  PROVE  Whole' = Whole
  BY DEF Whole, From

LEMMA WholeInvInit == Init => WholeInv
  <1> SUFFICES ASSUME Init PROVE WholeInv
    OBVIOUS
  <1>1. Len(ready) = 0 /\ Len(out) = 0
    BY DEF Init, OrchestratorInit
  <1> QED
    BY <1>1
       DEF Init, CaptureInit, OrchestratorInit, WholeInv, IsWhole, Holding, Inserting,
           Fresh, Insertions

\* The whole is a part.
LEMMA WholePart ==
  ASSUME TypeOK, NEW a, IsWhole(a)
  PROVE  IsPart(a)
  <1> SUFFICES ASSUME a # <<>> PROVE nrec # 0 /\ PartOf(nrec, a)
    BY DEF IsPart
  <1>1. nrec # 0 /\ nrec \in Recs /\ spoken[nrec] \in Nat /\ a = From(nrec, 1)
    BY Numbers, BoundsAssumption DEF IsWhole, Whole, Recs
  <1>2. spoken[nrec] # 0
    <2>1. spoken[nrec] = 0 => From(nrec, 1) = <<>>
      BY DEF From
    <2> QED BY <1>1, <2>1
  <1>3. 1 \in 1..spoken[nrec]
    BY <1>1, <1>2
  <1> QED BY <1>1, <1>3 DEF PartOf

\* What has been inserted, when perhaps one more dictation is.
LEMMA InsertedRight ==
  ASSUME TypeOK, Ours, WholeInv, UNCHANGED <<nrec, spoken>>,
         nstop' \in Nat, nstop <= nstop', \A p \in 1..nstop : origin'[p] = origin[p],
         failed \subseteq failed',
         \/ UNCHANGED out
         \/ \E p \in Pipes : /\ pc[p] \in Holding /\ text[p] # <<>>
                             /\ out' = Append(out, [pipe |-> p, text |-> text[p]])
  PROVE  (\A i \in Insertions : Right(out[i]))'
  <1>1. ASSUME NEW o, Right(o) PROVE Right(o)'
    <2>1. o.pipe \in 1..nstop /\ origin'[o.pipe] = origin[o.pipe] /\ o.pipe \in 1..nstop'
      BY <1>1, Numbers DEF Right
    <2>2. Spoilt(o.pipe) \/ PartOf(origin[o.pipe], o.text)
      BY <1>1 DEF Right
    <2> QED BY <2>1, <2>2 DEF Right, PartOf, From, Spoilt
  <1>2. \A i \in 1..Len(out) : Right(out[i])
    BY DEF WholeInv, Insertions
  <1>3. CASE UNCHANGED out
    BY <1>1, <1>2, <1>3 DEF Insertions
  <1>4. ASSUME NEW p \in Pipes, pc[p] \in Holding, text[p] # <<>>,
               out' = Append(out, [pipe |-> p, text |-> text[p]])
        PROVE  (\A i \in Insertions : Right(out[i]))'
    <2> DEFINE o == [pipe |-> p, text |-> text[p]]
    <2>1. pc[p] \notin {"none", "gone"}
      BY <1>4 DEF Holding, Inserting
    <2>2. p \in 1..nstop /\ origin[p] = nrec
      BY <2>1 DEF Ours, Current
    <2>3. Spoilt(p) \/ PartOf(nrec, text[p])
      BY <1>4 DEF WholeInv, IsPart
    <2>4. Right(o)
      BY <2>2, <2>3 DEF Right
    <2>5. out \in Seq([pipe : Pipes, text : Audio]) /\ o \in [pipe : Pipes, text : Audio]
      BY Numbers DEF TypeOK, OrchestratorTypeOK, HistoryTypeOK
    <2> HIDE DEF o
    <2>6. \A i \in 1..Len(out') : (i \in 1..Len(out) /\ out'[i] = out[i]) \/ out'[i] = o
      BY <1>4, <2>5 DEF o
    <2>7. \A i \in 1..Len(out') : Right(out'[i])
      BY <1>2, <2>4, <2>6
    <2>8. \A x : Right(x) => Right(x)'
      BY <1>1
    <2> QED BY <2>7, <2>8 DEF Insertions
  <1> QED BY <1>3, <1>4

LEMMA IsWholeSame ==
  ASSUME UNCHANGED <<nrec, spoken>>, NEW a
  PROVE  /\ IsWhole(a)' <=> IsWhole(a)
         /\ IsPart(a)' <=> IsPart(a)
  BY DEF IsWhole, Whole, IsPart, PartOf, From

\* What a step may do to a pipeline, and to what has been inserted.
CarriesOn(p) ==
  /\ ~StreamingASR => pc'[p] \notin {"stream", "streamed"}
  /\ pc'[p] \in Fresh => \/ pc[p] \in Fresh /\ UNCHANGED audio
                         \/ audio' = <<>>
                         \/ \E a : audio' = <<a>> /\ IsWhole(a)
  /\ pc'[p] \in Holding => \/ pc[p] \in Holding /\ text'[p] = text[p]
                           \/ "asr" \in Outcomes /\ p \in failed'
                           \/ \E a : text'[p] = a /\ IsPart(a)

InsertsHeld ==
  \/ UNCHANGED out
  \/ \E p \in Pipes : /\ pc[p] \in Holding /\ text[p] # <<>>
                      /\ out' = Append(out, [pipe |-> p, text |-> text[p]])

\* A step that hears nothing and begins nothing.
LEMMA WholeKept ==
  ASSUME TypeOK, Ours, WholeInv, UNCHANGED <<nrec, spoken>>,
         nstop' \in Nat, nstop <= nstop', \A p \in 1..nstop : origin'[p] = origin[p],
         buffer' \in {buffer, <<>>}, recording' => recording /\ buffer' = buffer,
         NEW d \in {0, 1}, NEW new, Queues(d, new),
         \A i \in 1..Len(new) : new[i].kind = "stopped" => IsWhole(new[i].data),
         failed \subseteq failed',
         \A p \in Pipes : CarriesOn(p),
         InsertsHeld
  PROVE  WholeInv'
  <1>0. (\A i \in Insertions : Right(out[i]))'
    BY InsertedRight DEF InsertsHeld
  <1>1. \A a : IsWhole(a) => IsWhole(a)'
    BY IsWholeSame
  <1>2. \A r \in Recs : r > nrec' => spoken'[r] = 0
    BY DEF WholeInv
  <1>3. IsWhole(buffer)' /\ (recording' => buffer' = Whole')
    BY WholeSame DEF WholeInv, IsWhole
  <1>4. \A i \in 1..Len(ready') : ready'[i].kind = "stopped" => IsWhole(ready'[i].data)
    BY OldOrNew DEF WholeInv
  <1>5. \A i \in 1..Len(ready') : ready'[i].kind = "stopped" => IsWhole(ready[i].data)'
    BY <1>4, WholeSame DEF IsWhole
  <1>6. ASSUME NEW p \in Pipes
        PROVE  /\ ~StreamingASR => pc'[p] \notin {"stream", "streamed"}
               /\ pc'[p] \in Fresh => audio' = <<>> \/ IsWhole(audio[1])'
               /\ pc'[p] \in Holding => Spoilt(p)' \/ IsPart(text[p])'
    <2>1. pc'[p] \in Fresh => audio' = <<>> \/ IsWhole(audio'[1])
      BY DEF WholeInv, CarriesOn
    <2>2. pc'[p] \in Holding => Spoilt(p)' \/ IsPart(text'[p])
      BY DEF WholeInv, CarriesOn, Spoilt
    <2>3. /\ IsWhole(audio'[1]) => IsWhole(audio[1])'
          /\ IsPart(text'[p]) => IsPart(text[p])'
      BY DEF IsWhole, Whole, IsPart, PartOf, From
    <2> QED BY <2>1, <2>2, <2>3 DEF CarriesOn
  <1> QED BY <1>0, <1>2, <1>3, <1>5, <1>6 DEF WholeInv

\* ... and to which capture does nothing.
LEMMA WholeKeptStill ==
  ASSUME TypeOK, Ours, WholeInv,
         UNCHANGED <<recording, buffer, nrec, nstop, spoken, origin>>,
         NEW d \in {0, 1}, NEW new, Queues(d, new),
         \A i \in 1..Len(new) : new[i].kind = "stopped" => IsWhole(new[i].data),
         failed \subseteq failed', \A p \in Pipes : CarriesOn(p), InsertsHeld
  PROVE  WholeInv'
  <1>1. /\ nstop' \in Nat /\ nstop <= nstop'
        /\ \A p \in 1..nstop : origin'[p] = origin[p]
        /\ buffer' \in {buffer, <<>>} /\ (recording' => recording /\ buffer' = buffer)
    BY Numbers
  <1> QED BY <1>1, WholeKept

LEMMA AsideWhole ==
  ASSUME TypeOK, Ours, WholeInv, Aside
  PROVE  WholeInv'
  <1>1. PICK d \in {0, 1} : \E new : Queues(d, new) /\ Plain(new)
    BY DEF Aside
  <1>2. PICK new : Queues(d, new) /\ Plain(new)
    BY <1>1
  <1>3. \A i \in 1..Len(new) : new[i].kind = "stopped" => IsWhole(new[i].data)
    BY <1>2 DEF Plain
  <1>4. /\ UNCHANGED <<captureVars, audio, text, out, failed, spoken, origin>>
        /\ \A p \in Pipes : \/ pc'[p] = pc[p]
                            \/ pc[p] = "stream" /\ pc'[p] = "streamed"
    BY DEF Aside, userVars, historyOfUser
  <1>5. UNCHANGED <<recording, buffer, nrec, nstop, spoken, origin>>
        /\ failed \subseteq failed'
    BY <1>4 DEF captureVars
  <1>6. (\A p \in Pipes : CarriesOn(p)) /\ InsertsHeld
    BY <1>4 DEF CarriesOn, InsertsHeld, WholeInv, Fresh, Holding, Inserting
  <1> QED BY <1>2, <1>3, <1>4, <1>5, <1>6, WholeKeptStill

\* A pipeline that steps finds in the final segment, if there is one, a part
\* of its recording: only streaming needs this.
SegmentIsPart ==
  StreamingASR /\ Runs("pipeline") /\ finalSeg # <<>> /\ nrec # 0 =>
    IsPart(finalSeg[1])

LEMMA AdvancesWhole ==
  ASSUME TypeOK, Ours, WholeInv, SegmentIsPart, NEW p \in Pipes, Advances(p)
  PROVE  WholeInv'
  <1>1. UNCHANGED <<recording, buffer, nrec, nstop, audio, spoken, origin>>
        /\ Runs("pipeline")
    BY DEF Advances, captureVars, userVars, historyOfUser
  <1>2. \A q \in Pipes : /\ ~StreamingASR => pc[q] \notin {"stream", "streamed"}
                         /\ pc[q] \in Holding => Spoilt(q) \/ IsPart(text[q])
    BY DEF WholeInv
  <1>3. CASE Works(p)
    <2>1. PICK x \in {"stream"} \union Holding :
            /\ pc' = [pc EXCEPT ![p] = x]
            /\ \/ pc[p] = "new" /\ x = "stream" /\ StreamingASR /\ UNCHANGED <<text, failed>>
               \/ /\ pc[p] \in {"new", "streamed"} /\ x \in Holding /\ audio # <<>>
                  /\ text' = [text EXCEPT ![p] = audio[1]] /\ UNCHANGED failed
               \/ /\ pc[p] \in {"new", "streamed"} /\ x \in Holding
                  /\ finalSeg # <<>> /\ (pc[p] = "new" => StreamingASR)
                  /\ text' = [text EXCEPT ![p] = finalSeg[1]] /\ UNCHANGED failed
               \/ pc[p] \in Holding /\ x \in Holding /\ UNCHANGED <<text, failed>>
               \/ /\ "asr" \in Outcomes /\ pc[p] = "asr" /\ x \in Holding
                  /\ text' = [text EXCEPT ![p] = transcript]
                  /\ failed' = failed \union {p}
      BY <1>3 DEF Works
    <2>2. failed \subseteq failed' /\ UNCHANGED out /\ Queues(1, <<>>)
      BY <1>3, <2>1 DEF Works
    <2>3. pc[p] \in Fresh => audio = <<>> \/ IsWhole(audio[1])
      BY DEF WholeInv
    <2>4. \A i \in 1..Len(<<>>) : <<>>[i].kind = "stopped" => IsWhole(<<>>[i].data)
      OBVIOUS
    <2>5. \A q \in Pipes : q # p => pc'[q] = pc[q] /\ text'[q] = text[q]
      BY <2>1, Numbers
    <2>6. /\ pc'[p] = x
          /\ pc'[p] \in Fresh => pc[p] \in Fresh /\ StreamingASR
          /\ pc'[p] \in Holding => \/ pc[p] \in Holding /\ text'[p] = text[p]
                                   \/ "asr" \in Outcomes /\ p \in failed'
                                   \/ \E a : text'[p] = a /\ IsPart(a)
      <3>1. pc'[p] = x /\ (x \in Holding => x \notin Fresh)
        BY <2>1, Numbers DEF Fresh, Holding, Inserting
      <3>2. CASE pc[p] = "new" /\ x = "stream" /\ StreamingASR
        BY <3>1, <3>2 DEF Fresh, Holding, Inserting
      <3>3. CASE /\ pc[p] \in {"new", "streamed"} /\ audio # <<>>
                 /\ text' = [text EXCEPT ![p] = audio[1]] /\ x \in Holding
        <4>1. text'[p] = audio[1] /\ IsPart(audio[1])
          BY <2>3, <3>3, Numbers, WholePart DEF Fresh
        <4> QED BY <3>1, <3>3, <4>1
      <3>4. CASE /\ pc[p] \in {"new", "streamed"} /\ finalSeg # <<>> /\ x \in Holding
                 /\ pc[p] = "new" => StreamingASR
                 /\ text' = [text EXCEPT ![p] = finalSeg[1]]
        <4>1. StreamingASR
          <5>1. CASE pc[p] = "new"
            BY <3>4, <5>1
          <5>2. CASE pc[p] = "streamed"
            BY <1>2, <5>2
          <5> QED BY <3>4, <5>1, <5>2
        <4>2. text'[p] = finalSeg[1] /\ IsPart(finalSeg[1])
          <5>1. Current(p)
            BY <3>4 DEF Ours
          <5>2. nrec # 0
            BY <5>1, Numbers DEF Current, Ours
          <5> QED BY <1>1, <3>4, <4>1, <5>2, Numbers DEF SegmentIsPart
        <4> QED BY <3>1, <3>4, <4>2
      <3>5. CASE pc[p] \in Holding /\ x \in Holding /\ UNCHANGED text
        BY <3>1, <3>5
      <3>6. CASE "asr" \in Outcomes /\ failed' = failed \union {p} /\ x \in Holding
        BY <3>1, <3>6
      <3> QED BY <2>1, <3>2, <3>3, <3>4, <3>5, <3>6
    <2>7. (\A q \in Pipes : CarriesOn(q)) /\ InsertsHeld
      <3>1. ASSUME NEW q \in Pipes PROVE CarriesOn(q)
        <4>1. CASE q = p
          BY <1>1, <2>6, <4>1 DEF CarriesOn, Fresh
        <4>2. CASE q # p
          BY <1>1, <1>2, <2>5, <4>2 DEF CarriesOn
        <4> QED BY <4>1, <4>2
      <3> QED BY <2>2, <3>1 DEF InsertsHeld
    <2> QED BY <1>1, <2>2, <2>4, <2>7, WholeKeptStill
  <1>4. CASE Stops(p)
    <2> DEFINE c == Callback("joined", p)
    <2>1. /\ Queues(1, <<c>>) /\ pc' = [pc EXCEPT ![p] = "ended"] /\ UNCHANGED text
          /\ failed \subseteq failed'
          /\ \/ UNCHANGED out
             \/ /\ pc[p] \in {"insert", "clip"} /\ text[p] # <<>>
                /\ out' = Append(out, [pipe |-> p, text |-> text[p]])
      BY <1>4 DEF Stops
    <2>2. \A i \in 1..Len(<<c>>) : <<c>>[i].kind = "stopped" => IsWhole(<<c>>[i].data)
      BY DEF Callback
    <2> HIDE DEF c
    <2>3. \A q \in Pipes : CarriesOn(q)
      BY <1>1, <1>2, <2>1, Numbers DEF CarriesOn, Fresh, Holding, Inserting
    <2>4. InsertsHeld
      BY <2>1 DEF InsertsHeld, Holding, Inserting
    <2> QED BY <1>1, <2>1, <2>2, <2>3, <2>4, WholeKeptStill
  <1> QED BY <1>3, <1>4 DEF Advances

LEMMA HandlersWhole ==
  ASSUME TypeOK, Ours, WholeInv,
         UNCHANGED <<recording, buffer, nrec, nstop, spoken, origin>>,
         OnRecordingStopped \/ OnPipelineDone \/ TimerFires \/ Cancel
  PROVE  WholeInv'
  <1>0. /\ pc \in [Pipes -> PipePcs]
        /\ \A q \in Pipes : ~StreamingASR => pc[q] \notin {"stream", "streamed"}
    BY Numbers DEF WholeInv
  <1>1. \A i \in 1..Len(<<>>) : <<>>[i].kind = "stopped" => IsWhole(<<>>[i].data)
    OBVIOUS
  <1>2. CASE OnRecordingStopped
    <2> DEFINE p == Head(ready).id
               a == Head(ready).data
    <2>1. /\ Runs("stopped") /\ Schedules(<<Wake(p)>>) /\ pc' = [pc EXCEPT ![p] = "new"]
          /\ audio' = <<a>> /\ UNCHANGED <<text, out, failed>>
      BY <1>2 DEF OnRecordingStopped, historyVars
    <2>2. p \in Pipes /\ IsWhole(a)
      BY <2>1, HeadIsFirst, Numbers DEF Ours, Current, ForPipe, Births, WholeInv
    <2>3. Wake(p) \in Callbacks /\ Wake(p).kind # "stopped"
      BY <2>2, WakeTyped DEF Wake, Callback
    <2> HIDE DEF p, a
    <2>4. Queues(1, <<Wake(p)>>)
      BY <2>1, <2>3, OneQueued
    <2>5. \A i \in 1..Len(<<Wake(p)>>) :
            <<Wake(p)>>[i].kind = "stopped" => IsWhole(<<Wake(p)>>[i].data)
      BY <2>3
    <2>6. \A q \in Pipes : CarriesOn(q)
      BY <1>0, <2>1, <2>2 DEF CarriesOn, Fresh, Holding, Inserting
    <2>7. InsertsHeld /\ failed \subseteq failed'
      BY <2>1 DEF InsertsHeld
    <2> QED BY <2>4, <2>5, <2>6, <2>7, WholeKeptStill
  <1>3. CASE OnPipelineDone
    <2>1. /\ Queues(1, <<>>) /\ pc' = [pc EXCEPT ![Head(ready).id] = "gone"]
          /\ UNCHANGED <<audio, text, out, failed>>
      BY <1>3, NoneQueued DEF OnPipelineDone, historyVars
    <2>2. \A q \in Pipes : CarriesOn(q)
      BY <1>0, <2>1 DEF CarriesOn, Fresh, Holding, Inserting
    <2>3. InsertsHeld /\ failed \subseteq failed'
      BY <2>1 DEF InsertsHeld
    <2> QED BY <1>1, <2>1, <2>2, <2>3, WholeKeptStill
  <1>4. CASE TimerFires
    <2>1. Queues(1, <<>>) /\ UNCHANGED <<pc, text, out, failed>>
      BY <1>4, NoneQueued DEF TimerFires, pipeVars, historyVars
    <2>2. audio' = audio \/ audio' = <<>>
      BY <1>4 DEF TimerFires
    <2>3. \A q \in Pipes : CarriesOn(q)
      BY <1>0, <2>1, <2>2 DEF CarriesOn, Fresh
    <2>4. InsertsHeld /\ failed \subseteq failed'
      BY <2>1 DEF InsertsHeld
    <2> QED BY <1>1, <2>1, <2>3, <2>4, WholeKeptStill
  <1>5. CASE Cancel
    <2>1. /\ Runs("cancel") /\ handle \in 0..MaxPipes /\ audio' = <<>>
          /\ UNCHANGED <<text, failed>>
      BY <1>5 DEF Cancel, TypeOK, OrchestratorTypeOK, SharedTypeOK
    <2>2. /\ \A q \in Pipes : pc'[q] \in {pc[q], "killed", "cancelled"}
          /\ InsertsHeld /\ failed \subseteq failed'
      <3>1. CASE handle # 0 /\ pc[handle] \in InFlight
        <4>1. handle \in Pipes
          BY <2>1, <3>1, BoundsAssumption DEF Pipes
        <4>2. \A q \in Pipes : pc'[q] \in {pc[q], "killed", "cancelled"}
          BY <1>0, <1>5, <3>1 DEF Cancel
        <4>3. InsertsHeld
          BY <1>5, <3>1, <4>1 DEF Cancel, InsertsHeld, Holding, Inserting
        <4> QED BY <2>1, <4>2, <4>3
      <3>2. CASE ~(handle # 0 /\ pc[handle] \in InFlight)
        BY <1>5, <2>1, <3>2 DEF Cancel, InsertsHeld
      <3> QED BY <3>1, <3>2
    <2>3. \A q \in Pipes : CarriesOn(q)
      BY <1>0, <2>1, <2>2 DEF CarriesOn, Fresh, Holding, Inserting
    <2>4. CASE Schedules(<<>>)
      BY <1>1, <2>1, <2>2, <2>3, <2>4, NoneQueued, WholeKeptStill
    <2>5. CASE handle # 0 /\ Schedules(<<Wake(handle)>>)
      <3>1. Wake(handle) \in Callbacks /\ Wake(handle).kind # "stopped"
        BY <2>1, <2>5, BoundsAssumption, WakeTyped DEF Wake, Callback, Pipes
      <3>2. Queues(1, <<Wake(handle)>>)
        BY <2>1, <2>5, <3>1, OneQueued
      <3>3. \A i \in 1..Len(<<Wake(handle)>>) :
              <<Wake(handle)>>[i].kind = "stopped" => IsWhole(<<Wake(handle)>>[i].data)
        BY <3>1
      <3> QED BY <2>2, <2>3, <3>2, <3>3, WholeKeptStill
    <2> QED BY <1>5, <2>4, <2>5 DEF Cancel
  <1> QED BY <1>2, <1>3, <1>4, <1>5

LEMMA CaptureStepWhole ==
  ASSUME TypeOK, Ours, WholeInv, CaptureStep
  PROVE  WholeInv'
  <1> DEFINE p == Head(ready).id
             c == [kind |-> "stopped", id |-> p, flush |-> FALSE, data |-> buffer]
  <1>1. /\ Runs("finalize") /\ Schedules(<<c>>)
        /\ UNCHANGED <<recording, buffer, nrec, nstop, spoken, origin>>
        /\ UNCHANGED <<pc, text, audio, out, failed>>
    BY DEF CaptureStep, FinalizeStop, captureVars, userVars, historyOfUser,
           orchestratorVars, pipeVars, sharedVars, historyVars
  <1>2. p \in Pipes
    BY <1>1, HeadIsFirst, Numbers DEF Ours, Current, ForPipe, Births
  <1>3. c \in Callbacks /\ IsWhole(c.data)
    BY <1>2, StoppedTyped, Numbers DEF WholeInv
  <1> HIDE DEF p, c
  <1>4. Queues(1, <<c>>)
    BY <1>1, <1>3, OneQueued
  <1>5. \A i \in 1..Len(<<c>>) : <<c>>[i].kind = "stopped" => IsWhole(<<c>>[i].data)
    BY <1>3
  <1>6. (\A q \in Pipes : CarriesOn(q)) /\ InsertsHeld /\ failed \subseteq failed'
    BY <1>1 DEF CarriesOn, InsertsHeld, WholeInv, Fresh
  <1> QED BY <1>1, <1>4, <1>5, <1>6, WholeKeptStill

\* A new recording: nothing has been heard in it, and nothing of another is
\* under way.
LEMMA HotkeyStartWhole ==
  ASSUME TypeOK, Ours, WholeInv, ~Hasty, HotkeyStart
  PROVE  WholeInv'
  <1>1. /\ Len(ready) = 0 /\ \A p \in Pipes : pc[p] \in {"none", "gone"}
        /\ nrec < MaxRecs /\ nrec' = nrec + 1 /\ buffer' = <<>>
        /\ UNCHANGED <<nstop, spoken, origin, pc, out, failed>>
    BY DEF HotkeyStart, Settled, StartRecording, pipeVars, historyVars, userVars,
           historyOfUser
  <1>2. \A i \in 1..Len(ready') : ready'[i].kind # "stopped"
    <2>1. PICK new : /\ Queues(0, new)
                     /\ \A i \in 1..Len(new) : new[i].kind \in {"prepare", "chunker_start"}
      BY StartQueues
    <2> QED BY <1>1, <2>1, OldOrNew
  <1>3. nrec' \in Recs /\ spoken[nrec'] = 0 /\ nrec \in Nat
    BY <1>1, Numbers, BoundsAssumption DEF WholeInv, Recs
  <1>4. Whole' = <<>>
    BY <1>1, <1>3 DEF Whole, From
  <1>5. \A r \in Recs : r > nrec' => spoken'[r] = 0
    BY <1>1, <1>3 DEF WholeInv, Recs
  <1>6. \A o : Right(o) => Right(o)'
    BY <1>1 DEF Right, PartOf, Spoilt, From
  <1>7. (\A i \in Insertions : Right(out[i]))'
    BY <1>1, <1>6 DEF WholeInv, Insertions
  <1>8. \A p \in Pipes : pc'[p] \notin Fresh /\ pc'[p] \notin Holding
    BY <1>1 DEF Fresh, Holding, Inserting
  <1> QED BY <1>1, <1>2, <1>4, <1>5, <1>7, <1>8 DEF WholeInv, IsWhole, Fresh

LEMMA HotkeyCancelWhole ==
  ASSUME TypeOK, Ours, WholeInv, HotkeyCancel
  PROVE  WholeInv'
  <1>1. /\ UNCHANGED <<nrec, nstop, spoken, origin, pc, text, audio, out, failed>>
        /\ buffer' = <<>> /\ recording' = FALSE
    BY DEF HotkeyCancel, CancelRecording, pipeVars, historyVars
  <1>6. PICK new : /\ Queues(0, new)
                   /\ \A i \in 1..Len(new) : new[i].kind \in {"stop_spawn", "cancel"}
    BY CancelQueues
  <1>7. (\A p \in Pipes : CarriesOn(p)) /\ InsertsHeld /\ failed \subseteq failed'
    BY <1>1 DEF CarriesOn, InsertsHeld, WholeInv, Fresh
  <1>8. \A i \in 1..Len(new) : new[i].kind = "stopped" => IsWhole(new[i].data)
    BY <1>6
  <1>9. /\ nstop' \in Nat /\ nstop <= nstop'
        /\ \A p \in 1..nstop : origin'[p] = origin[p]
        /\ buffer' \in {buffer, <<>>} /\ (recording' => recording /\ buffer' = buffer)
    BY <1>1, Numbers
  <1> QED BY <1>1, <1>6, <1>7, <1>8, <1>9, WholeKept

LEMMA StopWhole ==
  ASSUME TypeOK, Ours, WholeInv, StopRecording
  PROVE  WholeInv'
  <1>1. PICK t \in Threads : StopStarts(t) \/ StopProceeds(t)
    BY DEF StopRecording
  <1>2. UNCHANGED <<nrec, buffer, spoken, pc, text, audio, out, failed>>
    BY <1>1 DEF StopStarts, StopProceeds, StopTests, StopFlips, StopPosts,
       orchestratorVars, pipeVars, historyVars, sharedVars, userVars, historyOfUser
  <1>3. (\A p \in Pipes : CarriesOn(p)) /\ InsertsHeld /\ failed \subseteq failed'
    BY <1>2 DEF CarriesOn, InsertsHeld, WholeInv, Fresh
  <1>4. /\ nstop' \in Nat /\ nstop <= nstop'
        /\ \A p \in 1..nstop : origin'[p] = origin[p]
        /\ buffer' \in {buffer, <<>>} /\ (recording' => recording /\ buffer' = buffer)
    <2>1. CASE UNCHANGED origin /\ nstop' = nstop /\ (recording' => recording)
      BY <1>2, <2>1, Numbers
    <2>2. CASE StopPosts(t) /\ origin' = [origin EXCEPT ![nstop + 1] = nrec]
      <3>1. nstop' = nstop + 1 /\ recording' = recording
        BY <2>2 DEF StopPosts
      <3>2. \A p \in 1..nstop : origin'[p] = origin[p]
        BY <2>2, Numbers
      <3> QED BY <1>2, <3>1, <3>2, Numbers
    <2> QED
      BY <1>1, <2>1, <2>2
         DEF StopStarts, StopProceeds, StopTests, StopFlips, userVars, historyOfUser
  <1>7. PICK new : /\ Queues(0, new)
                   /\ \A i \in 1..Len(new) : \/ new[i].kind = "stop_spawn"
                                             \/ new[i] = Callback("finalize", nstop + 1)
    BY <1>1, StopQueues
  <1>8. \A i \in 1..Len(new) : new[i].kind = "stopped" => IsWhole(new[i].data)
    BY <1>7 DEF Callback
  <1> QED BY <1>2, <1>3, <1>4, <1>7, <1>8, WholeKept

\* A block is heard: nothing but the buffer holds any of this recording yet.
LEMMA SpeakWhole ==
  ASSUME TypeOK, Ours, WholeInv, Speak
  PROVE  WholeInv'
  <1>1. /\ recording /\ nrec # 0 /\ recording' = recording
        /\ buffer' = Append(buffer, <<nrec, Len(buffer) + 1>>)
        /\ spoken' = [spoken EXCEPT ![nrec] = @ + 1]
        /\ UNCHANGED <<nrec, nstop, origin, ready, pc, text, audio, out, failed>>
    BY DEF Speak, AudioBlock, Ours, orchestratorVars, pipeVars, historyVars,
           sharedVars
  <1>2. nrec \in Recs /\ spoken[nrec] \in Nat /\ spoken'[nrec] = spoken[nrec] + 1
        /\ \A r \in Recs : r # nrec => spoken'[r] = spoken[r]
    BY <1>1, Numbers, BoundsAssumption DEF Recs
  <1>3. \A p : ~Current(p)
    BY <1>1 DEF Ours, Current
  <1>4. \A p \in Pipes : pc[p] \in {"none", "gone"}
    BY <1>3 DEF Ours
  <1>5. \A i \in 1..Len(ready) : ready[i].kind # "stopped"
    BY <1>3 DEF Ours, ForPipe, Births
  <1>6. \A r \in Recs : r > nrec => spoken'[r] = 0
    BY <1>2, Numbers DEF WholeInv
  <1>7. buffer' = Whole'
    <2>1. buffer = [i \in 1..spoken[nrec] |-> <<nrec, i>>]
      BY <1>1, <1>2 DEF WholeInv, Whole, From
    <2>2. buffer \in Seq(Nat \X Nat) /\ Len(buffer) = spoken[nrec]
      BY <1>2, <2>1 DEF Recs
    <2>3. buffer' = [i \in 1..(spoken[nrec] + 1) |-> <<nrec, i>>]
      <3> DEFINE n == spoken[nrec]
                 b == <<nrec, n + 1>>
      <3>1. buffer' = Append(buffer, b) /\ b \in Nat \X Nat /\ n \in Nat
        BY <1>1, <1>2, <2>2 DEF Recs
      <3>2. \A i \in 1..n : buffer[i] = <<nrec, i>>
        BY <2>1
      <3> HIDE DEF b, n
      <3>3. /\ Len(buffer') = n + 1 /\ buffer' \in Seq(Nat \X Nat)
            /\ buffer'[n + 1] = b /\ \A i \in 1..n : buffer'[i] = buffer[i]
        BY <2>2, <3>1 DEF n
      <3>4. \A i \in 1..(n + 1) : buffer'[i] = <<nrec, i>>
        BY <3>1, <3>2, <3>3 DEF b
      <3>5. DOMAIN buffer' = 1..(n + 1) /\ buffer' = [i \in 1..(n + 1) |-> buffer'[i]]
        BY <3>3
      <3> QED BY <3>4, <3>5 DEF n
    <2>4. Whole' = [i \in 1..(spoken[nrec] + 1) |-> <<nrec, i>>]
      BY <1>1, <1>2 DEF Whole, From
    <2> QED BY <2>3, <2>4
  <1>8. \A o : Right(o) => Right(o)'
    <2> SUFFICES ASSUME NEW o, Right(o) PROVE Right(o)'
      OBVIOUS
    <2>1. /\ o.pipe \in 1..nstop /\ origin[o.pipe] # nrec
          /\ origin[o.pipe] \in Recs
      BY <1>1, Numbers, BoundsAssumption DEF Right, Ours, Recs
    <2>2. spoken'[origin[o.pipe]] = spoken[origin[o.pipe]]
      BY <1>2, <2>1
    <2> QED BY <1>1, <2>1, <2>2 DEF Right, PartOf, Spoilt, From
  <1>9. (\A i \in Insertions : Right(out[i]))'
    BY <1>1, <1>8 DEF WholeInv, Insertions
  <1>10. \A p \in Pipes : pc'[p] \notin Fresh /\ pc'[p] \notin Holding
    BY <1>1, <1>4 DEF Fresh, Holding, Inserting
  <1> QED BY <1>1, <1>5, <1>6, <1>7, <1>9, <1>10 DEF WholeInv, IsWhole, Fresh

LEMMA WholeStep ==
  ASSUME TypeOK, Ours, WholeInv, SegmentIsPart, ~Hasty, [Next]_vars
  PROVE  WholeInv'
  <1>1. CASE LoopCancel
    BY <1>1, HandlersWhole DEF LoopCancel, captureVars
  <1>2. CASE /\ OnRecordingStopped \/ OnPipelineDone \/ TimerFires
             /\ UNCHANGED <<captureVars, chunkerVars, userVars>>
    BY <1>2, HandlersWhole DEF captureVars, userVars, historyOfUser
  <1> QED
    BY <1>1, <1>2, EveryStep, AsideWhole, AdvancesWhole, CaptureStepWhole,
       HotkeyStartWhole, HotkeyCancelWhole, StopWhole, SpeakWhole

\* In batch mode the text of a pipeline that reported no error is the whole of
\* its recording, whatever stops the recording, and however often it is
\* cancelled (_finalize_stop joins the buffer after later blocks or a cancel).
THEOREM InsertedWholeAlways ==
  ASSUME ~Hasty, ~StreamingASR
  PROVE  Spec => []InsertedWhole
  <1>1. Ours /\ WholeInv /\ TypeOK /\ [Next]_vars => Ours' /\ WholeInv'
    BY OursStep, WholeStep DEF SegmentIsPart
  <1>2. WholeInv => InsertedWhole
    BY DEF WholeInv, Right, PartOf, Spoilt, InsertedWhole
  <1> QED BY <1>1, <1>2, OursInit, WholeInvInit, TypeCorrect, PTL DEF Spec

-----------------------------------------------------------------------------
\* Blocks a + 1 to b of recording r.

Span(r, a, b) == [i \in 1..(b - a) |-> <<r, a + i>>]

LEMMA SpanSeq ==
  ASSUME NEW r \in Nat, NEW a \in Nat, NEW b \in Nat, a <= b
  PROVE  /\ Span(r, a, b) \in Seq(Nat \X Nat) /\ Len(Span(r, a, b)) = b - a
         /\ \A i \in 1..(b - a) : Span(r, a, b)[i] = <<r, a + i>>
  <1>1. \A i \in 1..(b - a) : <<r, a + i>> \in Nat \X Nat
    OBVIOUS
  <1> QED BY <1>1 DEF Span

LEMMA SpanIs ==
  ASSUME NEW r \in Nat, NEW a \in Nat, NEW b \in Nat, a <= b,
         NEW s \in Seq(Nat \X Nat), Len(s) = b - a,
         \A i \in 1..(b - a) : s[i] = <<r, a + i>>
  PROVE  s = Span(r, a, b)
  <1>1. s = [i \in 1..(b - a) |-> s[i]]
    OBVIOUS
  <1> QED BY <1>1 DEF Span

LEMMA SpanNone ==
  ASSUME NEW r \in Nat, NEW a \in Nat, NEW b \in Nat, a <= b
  PROVE  Span(r, a, b) = <<>> <=> a = b
  <1>1. a = b => Span(r, a, b) = <<>>
    BY DEF Span
  <1>2. Len(Span(r, a, b)) = b - a
    BY SpanSeq
  <1>3. Span(r, a, b) = <<>> => Len(Span(r, a, b)) = 0
    OBVIOUS
  <1> QED BY <1>1, <1>2, <1>3

LEMMA SpanJoin ==
  ASSUME NEW r \in Nat, NEW a \in Nat, NEW b \in Nat, NEW c \in Nat, a <= b, b <= c
  PROVE  Span(r, a, b) \o Span(r, b, c) = Span(r, a, c)
  <1> DEFINE s == Span(r, a, b)
             t == Span(r, b, c)
  <1>1. /\ s \in Seq(Nat \X Nat) /\ Len(s) = b - a
        /\ \A i \in 1..(b - a) : s[i] = <<r, a + i>>
    BY SpanSeq
  <1>2. /\ t \in Seq(Nat \X Nat) /\ Len(t) = c - b
        /\ \A i \in 1..(c - b) : t[i] = <<r, b + i>>
    BY SpanSeq
  <1> HIDE DEF s, t
  <1>3. s \o t \in Seq(Nat \X Nat) /\ Len(s \o t) = c - a
    BY <1>1, <1>2
  <1>4. ASSUME NEW i \in 1..(c - a) PROVE (s \o t)[i] = <<r, a + i>>
    <2>1. CASE i <= b - a
      BY <1>1, <1>2, <2>1, ConcatAt
    <2>2. CASE i > b - a
      <3>1. i \in (Len(s) + 1)..(Len(s) + Len(t)) /\ i - Len(s) \in 1..(c - b)
        BY <1>1, <1>2, <2>2
      <3>2. (s \o t)[i] = t[i - Len(s)]
        BY <1>1, <1>2, <3>1, ConcatAt
      <3>3. b + (i - Len(s)) = a + i
        BY <1>1
      <3>4. t[i - Len(s)] = <<r, b + (i - Len(s))>>
        BY <1>2, <3>1
      <3> QED BY <3>2, <3>3, <3>4
    <2>3. i <= b - a \/ i > b - a
      OBVIOUS
    <2> QED BY <2>1, <2>2, <2>3
  <1>5. a <= c
    OBVIOUS
  <1>6. s \o t = Span(r, a, c)
    BY <1>3, <1>4, <1>5, SpanIs
  <1> QED BY <1>6 DEF s, t

LEMMA SpanGrows ==
  ASSUME NEW r \in Nat, NEW a \in Nat, NEW b \in Nat, a <= b
  PROVE  Append(Span(r, a, b), <<r, b + 1>>) = Span(r, a, b + 1)
  <1> DEFINE s == Span(r, a, b)
             x == <<r, b + 1>>
  <1>0. x \in Nat \X Nat
    OBVIOUS
  <1>1. /\ s \in Seq(Nat \X Nat) /\ Len(s) = b - a
        /\ \A i \in 1..(b - a) : s[i] = <<r, a + i>>
    BY SpanSeq
  <1> HIDE DEF s, x
  <1>2. /\ Append(s, x) \in Seq(Nat \X Nat) /\ Len(Append(s, x)) = (b + 1) - a
        /\ \A i \in 1..(b - a) : Append(s, x)[i] = <<r, a + i>>
        /\ Append(s, x)[(b + 1) - a] = x
    <2>1. /\ Append(s, x) \in Seq(Nat \X Nat) /\ Len(Append(s, x)) = Len(s) + 1
          /\ \A i \in 1..Len(s) : Append(s, x)[i] = s[i]
          /\ Append(s, x)[Len(s) + 1] = x
      BY <1>0, <1>1
    <2>2. Len(s) + 1 = (b + 1) - a
      BY <1>1
    <2> QED BY <1>1, <2>1, <2>2
  <1>3. \A i \in 1..((b + 1) - a) : Append(s, x)[i] = <<r, a + i>>
    <2>1. <<r, a + ((b + 1) - a)>> = x
      BY DEF x
    <2>2. \A i \in 1..((b + 1) - a) : i \in 1..(b - a) \/ i = (b + 1) - a
      OBVIOUS
    <2> QED BY <1>2, <2>1, <2>2
  <1>4. b + 1 \in Nat /\ a <= b + 1
    OBVIOUS
  <1>5. Append(s, x) = Span(r, a, b + 1)
    BY <1>2, <1>3, <1>4, SpanIs
  <1> QED BY <1>5 DEF s, x

LEMMA SpanTail ==
  ASSUME NEW r, NEW a \in Nat, spoken[r] \in Nat
  PROVE  Span(r, a, spoken[r]) = From(r, a + 1)
  <1>1. spoken[r] - a = spoken[r] + 1 - (a + 1)
    OBVIOUS
  <1>2. \A i \in 1..(spoken[r] - a) : <<r, a + i>> = <<r, (a + 1) + i - 1>>
    OBVIOUS
  <1> QED BY <1>1, <1>2 DEF Span, From

-----------------------------------------------------------------------------
(***************************************************************************)
(* The line from the microphone to the stream task: the chunker's buffer,  *)
(* its events on the loop, the task's queue, what the task has consumed.   *)
(* First when that line begins: prepare and the chunker's start are the    *)
(* first callbacks of a recording, and until both have run (Starting)      *)
(* nothing of the line runs; a stop of the chunker is for a recording that *)
(* is over.                                                                *)
(***************************************************************************)

Starts == {"prepare", "chunker_start"}
ChunkerStops == {"stop_spawn", "stop_begin", "stop_resume"}
Starting == \E i \in 1..Len(ready) : ready[i].kind \in Starts

StreamClean ==
  streamPc = "none" /\ streamGot = <<>> /\ streamQueue = <<>> /\ finalSeg = <<>>

StartInv ==
  /\ \A i \in 1..Len(ready) :
       /\ ready[i].kind = "prepare" => i = 1
       /\ ready[i].kind = "chunker_start" => i = 1 \/ (i = 2 /\ Runs("prepare"))
       /\ ready[i].kind = "chunk" => ~Starting
       /\ ready[i].kind \in ChunkerStops => ~recording
  /\ Runs("prepare") => Len(ready) >= 2 /\ ready[2].kind = "chunker_start"
  /\ \A r \in Recs :
       stopWaits[r] # <<>> => ~recording /\ ~Starting /\ loopPc[r] = "cancelled"
  /\ Runs("chunker_start") => StreamClean
  /\ recording /\ ~Starting => running

LEMMA HeadStarts ==
  ASSUME TypeOK, StartInv, Starting
  PROVE  Runs("prepare") \/ Runs("chunker_start")
  <1>1. PICK i \in 1..Len(ready) : ready[i].kind \in Starts
    BY DEF Starting
  <1>2. ready # <<>> /\ Head(ready) = ready[1]
    BY <1>1, Numbers, TailAt
  <1> QED BY <1>1, <1>2 DEF StartInv, Starts, Runs

\* A callback that stays in the queue.
LEMMA StaysQueued ==
  ASSUME TypeOK, NEW d \in {0, 1}, NEW new, Queues(d, new),
         NEW i \in 1..Len(ready), i > d
  PROVE  i - d \in 1..Len(ready') /\ ready'[i - d] = ready[i]
  <1>1. Len(ready') \in Nat /\ Len(new) \in Nat
    BY Numbers DEF Queues, Shifted
  <1>2. Len(ready') = Len(ready) - d + Len(new) /\ i - d \in 1..Len(ready')
    BY <1>1, Numbers DEF Queues, Shifted
  <1>3. /\ (i - d) <= Len(ready) - d /\ (i - d) + d = i
    BY Numbers
  <1> QED BY <1>2, <1>3 DEF Queues, Shifted

\* A step that neither begins a recording nor runs the callbacks that do.
LEMMA StartingKept ==
  ASSUME TypeOK, StartInv, NEW d \in {0, 1}, NEW new, Queues(d, new),
         \A i \in 1..Len(new) : new[i].kind \notin Starts,
         d = 1 => ~Runs("prepare") /\ ~Runs("chunker_start")
  PROVE  Starting' <=> Starting
  <1>1. ASSUME Starting' PROVE Starting
    <2>1. PICK i \in 1..Len(ready') : ready'[i].kind \in Starts
      BY <1>1 DEF Starting
    <2> QED BY <2>1, OldOrNew DEF Starting
  <1>2. ASSUME Starting PROVE Starting'
    <2>1. d = 0
      BY <1>2, HeadStarts
    <2>2. PICK i \in 1..Len(ready) : ready[i].kind \in Starts
      BY <1>2 DEF Starting
    <2> QED BY <2>1, <2>2, StaysQueued DEF Starting
  <1> QED BY <1>1, <1>2

LEMMA RunsStarting ==
  ASSUME TypeOK', Runs("prepare")' \/ Runs("chunker_start")'
  PROVE  Starting'
  <1>1. ready' \in Seq(Callbacks) /\ ready' # <<>> /\ Head(ready').kind \in Starts
    BY DEF TypeOK, Runs, Starts
  <1>2. Head(ready') = ready'[1] /\ 1 \in 1..Len(ready')
    BY <1>1, TailAt
  <1> QED BY <1>1, <1>2 DEF Starting

\* What is said of the stop calls, and of a chunker that is to take audio, holds
\* on through a step that starts nothing.
StopsFollow ==
  /\ \A r \in Recs :
       stopWaits'[r] # <<>> =>
         \/ stopWaits[r] # <<>> /\ loopPc'[r] = loopPc[r]
         \/ ~recording' /\ ~Starting /\ loopPc'[r] = "cancelled"
  /\ running' = running \/ ~recording'

LEMMA StartKept ==
  ASSUME TypeOK, TypeOK', StartInv, recording' => recording, StopsFollow,
         NEW d \in {0, 1}, NEW new, Queues(d, new),
         \A i \in 1..Len(new) :
           /\ new[i].kind \notin Starts
           /\ new[i].kind = "chunk" => ~Starting
           /\ new[i].kind \in ChunkerStops => ~recording',
         d = 1 => ~Runs("prepare") /\ ~Runs("chunker_start"),
         d = 0 /\ StreamClean => StreamClean'
  PROVE  StartInv' /\ (Starting' <=> Starting)
  <1>1. Starting' <=> Starting
    BY StartingKept
  <1>2. ASSUME Starting
        PROVE  /\ d = 0 /\ Len(ready) >= 1 /\ Len(ready') >= Len(ready)
               /\ \A i \in 1..Len(ready) : ready'[i] = ready[i]
               /\ \A k : Runs(k)' <=> Runs(k)
    <2>1. d = 0 /\ Len(ready) >= 1 /\ 1 \in 1..Len(ready)
      BY <1>2, HeadStarts, HeadIsFirst, Numbers
    <2>2. \A i \in 1..Len(ready) : i - 0 = i /\ i > 0
      BY Numbers
    <2>3. \A i \in 1..Len(ready) : ready'[i] = ready[i]
      BY <2>1, <2>2, StaysQueued
    <2>4. Len(ready') >= Len(ready)
      BY <2>1, Numbers DEF Queues, Shifted
    <2>5. ready' \in Seq(Callbacks)
      BY DEF TypeOK
    <2>6. ready # <<>> /\ ready' # <<>>
      BY <2>1, <2>4, <2>5, Numbers
    <2>7. Head(ready) = ready[1] /\ Head(ready') = ready'[1]
      BY <2>5, <2>6, Numbers, TailAt
    <2> QED BY <2>1, <2>3, <2>4, <2>6, <2>7 DEF Runs
  <1>3. ASSUME NEW i \in 1..Len(ready')
        PROVE  /\ ready'[i].kind = "prepare" => i = 1
               /\ ready'[i].kind = "chunker_start" => i = 1 \/ (i = 2 /\ Runs("prepare")')
               /\ ready'[i].kind = "chunk" => ~Starting
               /\ ready'[i].kind \in ChunkerStops => ~recording'
    <2>1. CASE \E j \in 1..Len(new) : ready'[i] = new[j]
      BY <2>1 DEF Starts
    <2>2. ASSUME NEW j \in 1..Len(ready), j = i + d, ready'[i] = ready[j]
          PROVE  /\ ready'[i].kind = "prepare" => i = 1
                 /\ ready'[i].kind = "chunker_start" => i = 1 \/ (i = 2 /\ Runs("prepare")')
                 /\ ready'[i].kind = "chunk" => ~Starting
                 /\ ready'[i].kind \in ChunkerStops => ~recording'
      <3>1. CASE Starting
        <4>1. j = i
          BY <1>2, <2>2, <3>1
        <4> QED BY <1>2, <2>2, <3>1, <4>1 DEF StartInv
      <3>2. CASE ~Starting
        BY <2>2, <3>2 DEF StartInv, Starting, Starts
      <3> QED BY <3>1, <3>2
    <2> QED BY <2>1, <2>2, OldOrNew
  <1>4. Runs("prepare")' => Len(ready') >= 2 /\ ready'[2].kind = "chunker_start"
    <2> SUFFICES ASSUME Runs("prepare")'
                 PROVE  Len(ready') >= 2 /\ ready'[2].kind = "chunker_start"
      OBVIOUS
    <2>1. Starting
      BY <1>1, RunsStarting
    <2>2. Len(ready) >= 2 /\ ready[2].kind = "chunker_start" /\ 2 \in 1..Len(ready)
      BY <1>2, <2>1, Numbers DEF StartInv
    <2> QED BY <1>2, <2>1, <2>2, Numbers
  <1>5. Runs("chunker_start")' => StreamClean'
    <2> SUFFICES ASSUME Runs("chunker_start")' PROVE StreamClean'
      OBVIOUS
    <2>1. Starting
      BY <1>1, RunsStarting
    <2> QED BY <1>2, <2>1 DEF StartInv
  <1>6. \A r \in Recs : stopWaits'[r] # <<>> =>
                          ~recording' /\ ~Starting /\ loopPc'[r] = "cancelled"
    BY DEF StartInv, StopsFollow
  <1>7. recording' /\ ~Starting => running'
    BY DEF StartInv, StopsFollow
  <1> QED BY <1>1, <1>3, <1>4, <1>5, <1>6, <1>7 DEF StartInv

-----------------------------------------------------------------------------
(***************************************************************************)
(* Once the chunker has started, the line holds a tail of the recording:   *)
(* the task has consumed Span(a, m), its queue goes on to c[0], the chunk  *)
(* events on the loop from c[i - 1] to c[i], the chunker's buffer from the *)
(* last of these cuts to the block heard last (LineInv).  A flush, and the *)
(* sentinel it queues, come after the last block.                          *)
(***************************************************************************)

Heard == spoken[nrec]
Carried(cb) == IF cb.kind = "chunk" THEN cb.data ELSE <<>>

Events(c) ==
  /\ c \in [0..Len(ready) -> Nat]
  /\ \A i \in 0..Len(ready) : c[i] <= Heard
  /\ \A i \in 1..Len(ready) :
       /\ c[i - 1] <= c[i]
       /\ Carried(ready[i]) = Span(nrec, c[i - 1], c[i])
       /\ ready[i].kind = "chunk" /\ ready[i].flush => ~recording /\ c[i] = Heard

\* Of a queue that goes from m to z.
Queue(m, z) ==
  /\ z - m <= Len(streamQueue)
  /\ \A i \in 1..Len(streamQueue) :
       /\ i <= z - m => streamQueue[i] = <<nrec, m + i>>
       /\ i > z - m => streamQueue[i] = End /\ z = Heard /\ ~recording

\* The final segment is a tail, once there is one.
Closed ==
  finalSeg # <<>> =>
    /\ ~recording
    /\ finalSeg[1] = <<>> \/ \E n \in 1..Heard : finalSeg[1] = From(nrec, n)

Front(a, m, z) ==
  /\ a <= m /\ m <= z /\ z <= Heard
  /\ streamGot = Span(nrec, a, m)
  /\ Queue(m, z)
  /\ streamPc \in {"final", "finalDue"} => m = Heard /\ ~recording
  /\ Closed

Fronted(z) == \E a, m \in Nat : Front(a, m, z)

LineInv ==
  nrec # 0 /\ ~Starting =>
    \E c : /\ Events(c)
           /\ chunkBuf = Span(nrec, c[Len(ready)], Heard)
           /\ Fronted(c[0])

\* The events after a step that takes away d and adds new, which carries what
\* the buffer had up to e.
LEMMA EventsMove ==
  ASSUME TypeOK, UNCHANGED nrec, nrec # 0, Heard' \in Nat,
         Heard' = Heard \/ (recording /\ Heard <= Heard'), recording' => recording,
         NEW d \in {0, 1}, NEW new, Queues(d, new), d <= Len(ready),
         NEW c, Events(c), NEW e \in Nat, c[Len(ready)] <= e, e <= Heard',
         Len(new) = 0 => e = c[Len(ready)],
         \A i \in 1..Len(new) :
           /\ Carried(new[i]) = IF i = 1 THEN Span(nrec, c[Len(ready)], e) ELSE <<>>
           /\ new[i].kind = "chunk" /\ new[i].flush => ~recording' /\ e = Heard'
  PROVE  \E k : Events(k)' /\ k[0] = c[d] /\ k[Len(ready')] = e
  <1> DEFINE L == Len(ready)
  <1>1. PICK n \in Nat, M \in Nat :
          /\ n + d = L /\ M = Len(ready') /\ M = n + Len(new) /\ Len(new) \in Nat
          /\ d \in Nat /\ L \in Nat /\ L - d = n
    <2>1. L \in Nat /\ Len(new) \in Nat /\ Len(ready') = (L - d) + Len(new) /\ d \in Nat
      BY Numbers DEF Queues, Shifted
    <2>2. L - d \in Nat /\ (L - d) + d = L
      BY <2>1
    <2>3. Len(ready') \in Nat
      BY <2>1, <2>2
    <2> QED BY <2>1, <2>2, <2>3
  <1>2. /\ c \in [0..L -> Nat] /\ \A i \in 0..L : c[i] <= Heard
        /\ \A i \in 1..L :
             /\ c[i - 1] <= c[i]
             /\ Carried(ready[i]) = Span(nrec, c[i - 1], c[i])
             /\ ready[i].kind = "chunk" /\ ready[i].flush => ~recording /\ c[i] = Heard
    BY DEF Events
  <1>3. Heard \in Nat /\ Heard <= Heard' /\ nrec \in Nat /\ L \in Nat
    BY <1>1, <1>2, Numbers, BoundsAssumption DEF Heard, Recs
  <1>4. PICK k : k = [j \in 0..M |-> IF j <= n THEN c[j + d] ELSE e]
    OBVIOUS
  <1>5. /\ \A j \in 0..M : j <= n => j + d \in 0..L /\ k[j] = c[j + d]
        /\ \A j \in 0..M : j > n => k[j] = e
    BY <1>1, <1>4
  <1>6. /\ k \in [0..M -> Nat] /\ \A j \in 0..M : k[j] <= Heard'
        /\ k[0] = c[d] /\ k[M] = e
    <2>1. ASSUME NEW j \in 0..M PROVE k[j] \in Nat /\ k[j] <= Heard'
      <3>1. CASE j <= n
        <4>1. PICK l \in 0..L : l = j + d
          BY <1>5, <3>1
        <4>2. k[j] = c[l] /\ c[l] \in Nat /\ c[l] <= Heard
          BY <1>2, <1>5, <3>1, <4>1
        <4> QED BY <1>3, <4>2
      <3>2. CASE j > n
        BY <1>5, <3>2
      <3> QED BY <1>1, <3>1, <3>2
    <2>2. k[0] = c[d]
      BY <1>1, <1>5
    <2>3. k[M] = e
      <3>1. CASE Len(new) = 0
        <4>1. M = n /\ M \in 0..M /\ M <= n
          BY <1>1, <3>1
        <4> QED BY <1>1, <1>5, <3>1, <4>1
      <3>2. CASE Len(new) # 0
        <4>1. M > n /\ M \in 0..M
          BY <1>1, <3>2
        <4> QED BY <1>5, <4>1
      <3> QED BY <3>1, <3>2
    <2>4. k \in [0..M -> Nat]
      BY <1>4, <2>1
    <2> QED BY <2>1, <2>2, <2>3, <2>4
  <1>7. ASSUME NEW i \in 1..M
        PROVE  /\ k[i - 1] <= k[i]
               /\ Carried(ready'[i]) = Span(nrec, k[i - 1], k[i])
               /\ ready'[i].kind = "chunk" /\ ready'[i].flush => ~recording' /\ k[i] = Heard'
    <2>1. CASE i <= n
      <3>1. PICK j \in 1..L : j = i + d /\ ready'[i] = ready[j]
        <4>1. Len(ready) - d = n /\ i \in 1..Len(ready') /\ ~(i > n)
          BY <1>1, <2>1
        <4>2. i + d \in 1..Len(ready) /\ ready'[i] = ready[i + d]
          BY <4>1 DEF Queues, Shifted
        <4> QED BY <4>2
      <3>2. i \in 0..M /\ i - 1 \in 0..M /\ i - 1 <= n /\ (i - 1) + d = j - 1
        BY <2>1, <3>1
      <3>3. k[i] = c[j] /\ k[i - 1] = c[j - 1]
        BY <1>5, <2>1, <3>1, <3>2
      <3>4. /\ c[j - 1] <= c[j]
            /\ Carried(ready[j]) = Span(nrec, c[j - 1], c[j])
            /\ ready[j].kind = "chunk" /\ ready[j].flush => ~recording /\ c[j] = Heard
        BY <1>2
      <3> QED BY <3>1, <3>3, <3>4
    <2>2. CASE i > n
      <3>1. PICK j \in 1..Len(new) : j = i - n /\ ready'[i] = new[j]
        <4>1. Len(ready) - d = n /\ i \in 1..Len(ready') /\ ~(i <= n)
          BY <1>1, <2>2
        <4>2. i - n \in 1..Len(new) /\ ready'[i] = new[i - n]
          BY <4>1 DEF Queues, Shifted
        <4> QED BY <4>2
      <3>2. k[i] = e
        BY <1>5, <2>2
      <3>3. CASE j = 1
        <4>1. i - 1 = n /\ (i - 1) + d = L /\ i - 1 \in 0..M /\ i - 1 <= n
          BY <1>1, <3>1, <3>3
        <4>2. k[i - 1] = c[L]
          BY <1>5, <4>1
        <4> QED BY <3>1, <3>2, <3>3, <4>2
      <3>4. CASE j # 1
        <4>1. i - 1 > n /\ i - 1 \in 0..M
          BY <1>1, <3>1, <3>4
        <4>2. k[i - 1] = e
          BY <1>5, <4>1
        <4>3. Span(nrec, e, e) = <<>>
          BY <1>3, SpanNone
        <4> QED BY <3>1, <3>2, <3>4, <4>2, <4>3
      <3> QED BY <3>3, <3>4
    <2> QED BY <1>1, <2>1, <2>2
  <1>8. Events(k)'
    <2>1. \A i : Carried(ready[i])' = Carried(ready'[i])
      BY DEF Carried
    <2>2. \A x, y : Span(nrec, x, y)' = Span(nrec, x, y)
      BY DEF Span
    <2>3. \A i \in 1..M : Carried(ready[i])' = Span(nrec, k[i - 1], k[i])'
      BY <1>7, <2>1, <2>2
    <2> QED BY <1>1, <1>6, <1>7, <2>3 DEF Events
  <1> QED BY <1>1, <1>6, <1>8

\* A step that runs another callback than those that begin a recording.
Tame(d, new) ==
  /\ Queues(d, new)
  /\ d = 1 => ready # <<>> /\ Head(ready).kind \notin Starts
  /\ \A i \in 1..Len(new) : /\ new[i].kind \notin Starts
                            /\ new[i].kind \in ChunkerStops => ~recording'

\* The chunker's buffer is left alone, or goes out as an event.
KeepsTail(new) == chunkBuf' = chunkBuf /\ \A i \in 1..Len(new) : new[i].kind # "chunk"
EmitsTail(new) ==
  \E f \in BOOLEAN :
    /\ new = <<ChunkEvent(f, chunkBuf)>> /\ chunkBuf' = <<>>
    /\ f => ~recording'

\* The stream task's end of the line follows.
FrontMoves(d) ==
  /\ d = 0 /\ StreamClean => StreamClean'
  /\ nrec # 0 /\ ~Starting => \A c : Events(c) /\ Fronted(c[0]) => Fronted(c[d])'

\* ... where it is.
FrontKept ==
  /\ StreamClean => StreamClean'
  /\ \A z \in Nat : nrec # 0 /\ Fronted(z) => Fronted(z)'

LEMMA HeardNat ==
  ASSUME TypeOK, nrec # 0
  PROVE  Heard \in Nat /\ nrec \in Recs /\ nrec \in Nat
  BY Numbers, BoundsAssumption DEF Heard, Recs

LEMMA TailMoves ==
  ASSUME TypeOK, TypeOK', StartInv, LineInv,
         UNCHANGED <<nrec, spoken>>, recording' => recording, StopsFollow,
         NEW d \in {0, 1}, NEW new, Tame(d, new), FrontMoves(d),
         KeepsTail(new) \/ (EmitsTail(new) /\ d = 1)
  PROVE  StartInv' /\ LineInv'
  <1>0. d = 1 => 1 \in 1..Len(ready) /\ ready[1] = Head(ready)
    BY Numbers, TailAt DEF Tame
  <1>1. /\ d = 1 => ~Runs("prepare") /\ ~Runs("chunker_start")
        /\ EmitsTail(new) /\ d = 1 => ~Starting
    BY HeadStarts DEF Tame, Runs, Starts
  <1>2. StartInv' /\ (Starting' <=> Starting)
    <2>1. \A i \in 1..Len(new) : /\ new[i].kind \notin Starts
                                 /\ new[i].kind = "chunk" => ~Starting
                                 /\ new[i].kind \in ChunkerStops => ~recording'
      BY <1>1 DEF Tame, KeepsTail
    <2> QED BY <1>1, <2>1, StartKept DEF Tame, FrontMoves
  <1>3. ASSUME nrec # 0, ~Starting
        PROVE  (\E c : /\ Events(c)
                       /\ chunkBuf = Span(nrec, c[Len(ready)], Heard)
                       /\ Fronted(c[0]))'
    <2> DEFINE L == Len(ready)
    <2>1. PICK c : /\ Events(c)
                   /\ chunkBuf = Span(nrec, c[L], Heard)
                   /\ Fronted(c[0])
      BY <1>3 DEF LineInv
    <2>2. L \in Nat /\ Heard \in Nat /\ Heard' = Heard /\ nrec \in Nat /\ d <= L
      BY <1>0, <1>3, Numbers, HeardNat DEF Heard
    <2>3. /\ c[0] \in Nat /\ c[d] \in Nat /\ c[L] \in Nat
          /\ c[L] <= Heard
      <3>1. c \in [0..L -> Nat] /\ c[L] <= Heard
        BY <2>1, <2>2 DEF Events
      <3> QED BY <2>2, <3>1
    <2>4. \E e \in Nat :
            /\ c[L] <= e /\ e <= Heard /\ (Len(new) = 0 => e = c[L])
            /\ chunkBuf' = Span(nrec, e, Heard)
            /\ \A i \in 1..Len(new) :
                 /\ Carried(new[i]) = IF i = 1 THEN Span(nrec, c[L], e) ELSE <<>>
                 /\ new[i].kind = "chunk" /\ new[i].flush => ~recording' /\ e = Heard'
      <3>1. CASE KeepsTail(new)
        <4>1. Span(nrec, c[L], c[L]) = <<>>
          BY <2>2, <2>3, SpanNone
        <4>2. \A i \in 1..Len(new) : Carried(new[i]) = <<>> /\ new[i].kind # "chunk"
          BY <3>1 DEF KeepsTail, Carried
        <4> QED BY <2>1, <2>3, <3>1, <4>1, <4>2 DEF KeepsTail
      <3>2. CASE EmitsTail(new)
        <4>1. PICK f \in BOOLEAN : /\ new = <<ChunkEvent(f, chunkBuf)>>
                                   /\ chunkBuf' = <<>> /\ (f => ~recording')
          BY <3>2 DEF EmitsTail
        <4>2. /\ Len(new) = 1 /\ Carried(new[1]) = Span(nrec, c[L], Heard)
              /\ new[1].flush = f
          BY <2>1, <4>1 DEF Carried, ChunkEvent
        <4>3. Span(nrec, Heard, Heard) = <<>>
          BY <2>2, SpanNone
        <4>4. \A i \in 1..Len(new) : i = 1
          BY <4>2
        <4> QED BY <2>2, <2>3, <4>1, <4>2, <4>3, <4>4
      <3> QED BY <3>1, <3>2
    <2>5. PICK e \in Nat :
            /\ c[L] <= e /\ e <= Heard /\ (Len(new) = 0 => e = c[L])
            /\ chunkBuf' = Span(nrec, e, Heard)
            /\ \A i \in 1..Len(new) :
                 /\ Carried(new[i]) = IF i = 1 THEN Span(nrec, c[L], e) ELSE <<>>
                 /\ new[i].kind = "chunk" /\ new[i].flush => ~recording' /\ e = Heard'
      BY <2>4
    <2>6. PICK k : Events(k)' /\ k[0] = c[d] /\ k[Len(ready')] = e
      <3>1. UNCHANGED nrec /\ e <= Heard' /\ Heard' \in Nat /\ Queues(d, new)
        BY <2>2, <2>5 DEF Tame
      <3> QED BY <1>3, <2>1, <2>2, <2>5, <3>1, EventsMove
    <2>7. chunkBuf' = Span(nrec, k[Len(ready)], Heard)'
      BY <2>2, <2>5, <2>6 DEF Span
    <2>8. Fronted(k[0])'
      <3>1. Fronted(c[d])'
        BY <1>3, <2>1 DEF FrontMoves
      <3> QED BY <2>6, <3>1
    <2> QED BY <2>6, <2>7, <2>8
  <1>4. LineInv'
    BY <1>2, <1>3 DEF LineInv
  <1> QED BY <1>2, <1>4

LEMMA TailKept ==
  ASSUME TypeOK, TypeOK', StartInv, LineInv,
         UNCHANGED <<nrec, spoken>>, recording' => recording, StopsFollow, FrontKept,
         NEW d \in {0, 1}, NEW new, Tame(d, new), d = 1 => Head(ready).kind # "chunk",
         KeepsTail(new) \/ (EmitsTail(new) /\ d = 1)
  PROVE  StartInv' /\ LineInv'
  <1>1. ASSUME nrec # 0, NEW c, Events(c), Fronted(c[0]) PROVE Fronted(c[d])'
    <2>1. c[0] \in Nat /\ nrec \in Nat
      BY <1>1, Numbers DEF Events
    <2>2. ASSUME d = 1 PROVE c[1] = c[0]
      <3>1. 1 \in 1..Len(ready) /\ ready[1] = Head(ready)
        BY <2>2, Numbers, TailAt DEF Tame
      <3>2. Carried(ready[1]) = <<>>
        BY <2>2, <3>1 DEF Carried
      <3>3. /\ c[1 - 1] <= c[1] /\ Carried(ready[1]) = Span(nrec, c[1 - 1], c[1])
            /\ c[1] \in Nat
        BY <1>1, <3>1 DEF Events
      <3>4. c[0] <= c[1] /\ Span(nrec, c[0], c[1]) = <<>>
        BY <3>2, <3>3
      <3> QED BY <2>1, <3>3, <3>4, SpanNone
    <2>3. Fronted(c[0])'
      BY <1>1, <2>1 DEF FrontKept
    <2> QED BY <2>2, <2>3
  <1>2. FrontMoves(d)
    BY <1>1 DEF FrontMoves, FrontKept
  <1> QED BY <1>2, TailMoves

-----------------------------------------------------------------------------
\* What the stream task does to its end of the line.

LEMMA FrontSame ==
  ASSUME UNCHANGED <<nrec, spoken>>, recording' => recording,
         UNCHANGED <<streamPc, streamGot, streamQueue, finalSeg>>
  PROVE  FrontKept
  <1>1. ASSUME NEW z \in Nat, Fronted(z) PROVE Fronted(z)'
    <2>1. PICK a \in Nat, m \in Nat : Front(a, m, z)
      BY <1>1 DEF Fronted
    <2>2. Queue(m, z)'
      BY <2>1 DEF Front, Queue, Heard
    <2>3. Closed'
      BY <2>1 DEF Front, Closed, Heard, From
    <2>4. Front(a, m, z)'
      BY <2>1, <2>2, <2>3 DEF Front, Heard, Span
    <2> QED BY <2>4 DEF Fronted
  <1> QED BY <1>1 DEF FrontKept, StreamClean

LEMMA FrontReset ==
  ASSUME TypeOK, UNCHANGED <<nrec, spoken>>, ResetStreaming
  PROVE  FrontKept
  <1>1. StreamClean'
    BY DEF ResetStreaming, StreamClean
  <1>2. ASSUME NEW z \in Nat, nrec # 0, Fronted(z) PROVE Fronted(z)'
    <2>1. z <= Heard' /\ Heard \in Nat /\ nrec \in Nat
      BY <1>2, HeardNat DEF Fronted, Front, Heard
    <2>2. Span(nrec, z, z) = <<>> /\ streamGot' = Span(nrec', z, z)
      BY <1>1, <2>1, SpanNone DEF StreamClean
    <2>3. streamGot' = Span(nrec, z, z)'
      BY <2>2 DEF Span
    <2>4. Queue(z, z)'
      BY <1>1 DEF StreamClean, Queue
    <2>5. Front(z, z, z)'
      BY <1>1, <2>1, <2>3, <2>4 DEF Front, Closed, StreamClean
    <2> QED BY <2>5 DEF Fronted
  <1> QED BY <1>1, <1>2 DEF FrontKept

\* A queue without a sentinel is a span; one with a sentinel, up to it.
LEMMA QueueSpan ==
  ASSUME TypeOK, nrec # 0, NEW m \in Nat, NEW z \in Nat, m <= z, Queue(m, z)
  PROVE  /\ streamQueue \in Seq(Block \union {End})
         /\ \A i \in 1..(z - m) : i \in 1..Len(streamQueue) /\ streamQueue[i] # End
         /\ SubSeq(streamQueue, 1, z - m) = Span(nrec, m, z)
         /\ \A i \in 1..Len(streamQueue) : i > z - m => streamQueue[i] = End
  <1>1. streamQueue \in Seq(Block \union {End}) /\ Len(streamQueue) \in Nat
    BY DEF TypeOK, OrchestratorTypeOK, StreamTypeOK
  <1>2. nrec \in Nat /\ z - m \in Nat /\ z - m <= Len(streamQueue)
    BY Numbers DEF Queue
  <1>3. \A i \in 1..(z - m) : i \in 1..Len(streamQueue) /\ streamQueue[i] = <<nrec, m + i>>
    BY <1>1, <1>2 DEF Queue
  <1>4. \A i \in 1..(z - m) : streamQueue[i] # End
    BY <1>2, <1>3 DEF End
  <1>5. SubSeq(streamQueue, 1, z - m) = Span(nrec, m, z)
    <2> DEFINE s == SubSeq(streamQueue, 1, z - m)
    <2>1. Len(s) = z - m /\ \A i \in 1..(z - m) : s[i] = streamQueue[i]
      BY <1>1, <1>2
    <2>2. s = [i \in 1..(z - m) |-> s[i]]
      BY <1>1, <1>2
    <2> HIDE DEF s
    <2>3. s = [i \in 1..(z - m) |-> <<nrec, m + i>>]
      BY <1>3, <2>1, <2>2
    <2> QED BY <2>3 DEF s, Span
  <1> QED BY <1>1, <1>3, <1>4, <1>5 DEF Queue

LEMMA FrontConsumes ==
  ASSUME TypeOK, UNCHANGED <<nrec, spoken, recording>>, StreamConsumes
  PROVE  FrontKept
  <1>1. /\ \A i \in 1..Len(streamQueue) : streamQueue[i] # End
        /\ streamGot' = streamGot \o streamQueue /\ streamQueue' = <<>>
        /\ streamPc' = "waiting" /\ streamPc # "none"
        /\ finalSeg' \in {finalSeg, <<>>}
    BY DEF StreamConsumes, StreamStep
  <1>2. ASSUME NEW z \in Nat, nrec # 0, Fronted(z) PROVE Fronted(z)'
    <2>1. PICK a \in Nat, m \in Nat : Front(a, m, z)
      BY <1>2 DEF Fronted
    <2>2. a <= m /\ m <= z /\ z <= Heard /\ nrec \in Nat /\ a <= z
      BY <2>1, Numbers DEF Front
    <2>3. streamQueue = Span(nrec, m, z)
      <3>1. /\ streamQueue \in Seq(Block \union {End})
            /\ SubSeq(streamQueue, 1, z - m) = Span(nrec, m, z)
            /\ \A i \in 1..Len(streamQueue) : i > z - m => streamQueue[i] = End
            /\ z - m <= Len(streamQueue)
        BY <1>2, <2>1, <2>2, QueueSpan DEF Front, Queue
      <3>2. Len(streamQueue) \in Nat /\ ~(Len(streamQueue) > z - m)
        <4>1. Len(streamQueue) \in Nat /\ z - m \in Nat
          BY <2>2, <3>1
        <4>2. Len(streamQueue) > z - m => Len(streamQueue) \in 1..Len(streamQueue)
          BY <4>1
        <4> QED BY <1>1, <3>1, <4>1, <4>2
      <3>3. Len(streamQueue) = z - m
        BY <3>1, <3>2
      <3>4. SubSeq(streamQueue, 1, Len(streamQueue)) = streamQueue
        BY <3>1
      <3> QED BY <3>1, <3>3, <3>4
    <2>4. streamGot' = Span(nrec, a, z)
      BY <1>1, <2>1, <2>2, <2>3, SpanJoin DEF Front
    <2>5. streamGot' = Span(nrec, a, z)'
      BY <2>4 DEF Span
    <2>6. Queue(z, z)'
      BY <1>1 DEF Queue
    <2>7. Closed'
      BY <1>1, <2>1 DEF Front, Closed, Heard, From
    <2>8. Front(a, z, z)'
      BY <1>1, <2>2, <2>5, <2>6, <2>7 DEF Front, Heard
    <2> QED BY <2>8 DEF Fronted
  <1> QED BY <1>1, <1>2 DEF FrontKept, StreamClean

LEMMA FrontReachesEnd ==
  ASSUME TypeOK, UNCHANGED <<nrec, spoken, recording>>, StreamReachesEnd
  PROVE  FrontKept
  <1>1. /\ streamPc # "none"
        /\ \E n \in 1..Len(streamQueue) :
             /\ streamQueue[n] = End
             /\ \A i \in 1..(n - 1) : streamQueue[i] # End
             /\ streamGot' = streamGot \o SubSeq(streamQueue, 1, n - 1)
             /\ streamQueue' = SubSeq(streamQueue, n + 1, Len(streamQueue))
        /\ streamGot' = <<>> => finalSeg' = <<<<>>>>
        /\ streamGot' # <<>> => finalSeg' \in {finalSeg, <<>>}
    BY DEF StreamReachesEnd, StreamStep, StreamEnds
  <1>2. PICK n \in 1..Len(streamQueue) :
             /\ streamQueue[n] = End
             /\ \A i \in 1..(n - 1) : streamQueue[i] # End
             /\ streamGot' = streamGot \o SubSeq(streamQueue, 1, n - 1)
             /\ streamQueue' = SubSeq(streamQueue, n + 1, Len(streamQueue))
    BY <1>1
  <1>3. ASSUME NEW z \in Nat, nrec # 0, Fronted(z) PROVE Fronted(z)'
    <2>1. PICK a \in Nat, m \in Nat : Front(a, m, z)
      BY <1>3 DEF Fronted
    <2>2. /\ a <= m /\ m <= z /\ z <= Heard /\ nrec \in Nat /\ a <= z
          /\ Queue(m, z) /\ Closed /\ streamGot = Span(nrec, a, m)
      BY <2>1, Numbers DEF Front
    <2>3. /\ streamQueue \in Seq(Block \union {End})
          /\ \A i \in 1..(z - m) : i \in 1..Len(streamQueue) /\ streamQueue[i] # End
          /\ SubSeq(streamQueue, 1, z - m) = Span(nrec, m, z)
          /\ \A i \in 1..Len(streamQueue) : i > z - m => streamQueue[i] = End
      BY <1>3, <2>2, QueueSpan
    <2>4. n - 1 = z - m
      <3>1. ~(n <= z - m) /\ z - m \in Nat
        BY <1>2, <2>2, <2>3
      <3>2. ASSUME n - 1 > z - m PROVE FALSE
        <4>1. PICK i \in 1..(n - 1) : i = z - m + 1
          BY <3>1, <3>2
        <4>2. i \in 1..Len(streamQueue) /\ i > z - m
          BY <2>3, <3>1, <4>1
        <4> QED BY <1>2, <2>3, <4>1, <4>2
      <3> QED BY <3>1, <3>2
    <2>5. z = Heard /\ ~recording
      <3>1. n > z - m
        BY <2>2, <2>4
      <3> QED BY <2>2, <3>1 DEF Queue
    <2>6. streamGot' = Span(nrec, a, z)
      <3>1. streamGot' = streamGot \o Span(nrec, m, z)
        BY <1>2, <2>3, <2>4
      <3> QED BY <2>2, <3>1, SpanJoin
    <2>7. streamGot' = Span(nrec, a, z)'
      BY <2>6 DEF Span
    <2>8. Queue(z, z)'
      <3>1. \A i \in 1..Len(streamQueue') : streamQueue'[i] = End
        <4>1. /\ Len(streamQueue') = Len(streamQueue) - n
              /\ \A i \in 1..(Len(streamQueue) - n) :
                   streamQueue'[i] = streamQueue[n + i]
          BY <1>2, <2>3
        <4>2. \A i \in 1..(Len(streamQueue) - n) :
                n + i \in 1..Len(streamQueue) /\ n + i > z - m
          BY <1>2, <2>2, <2>4
        <4> QED BY <2>3, <4>1, <4>2
      <3>2. Len(streamQueue') \in Nat
        BY <1>2, <2>3
      <3> QED BY <2>5, <3>1, <3>2 DEF Queue, Heard
    <2>9. Closed'
      <3>1. CASE finalSeg' = <<<<>>>>
        BY <2>5, <3>1 DEF Closed
      <3>2. CASE finalSeg' = <<>>
        BY <3>2 DEF Closed
      <3>3. CASE finalSeg' = finalSeg
        BY <2>2, <3>3 DEF Closed, Heard, From
      <3> QED BY <1>1, <3>1, <3>2, <3>3
    <2>10. Front(a, z, z)'
      BY <2>2, <2>5, <2>7, <2>8, <2>9 DEF Front, Heard
    <2> QED BY <2>10 DEF Fronted
  <1> QED BY <1>1, <1>3 DEF FrontKept, StreamClean

\* The final pass, from its start to the final segment.
LEMMA FrontPass ==
  ASSUME TypeOK, UNCHANGED <<nrec, spoken, recording>>,
         StreamPassDone \/ StreamFinal \/ StreamFails
  PROVE  FrontKept
  <1>1. /\ streamPc # "none" /\ UNCHANGED <<streamGot, streamQueue>>
        /\ \/ streamPc = "final" /\ streamPc' = "finalDue" /\ UNCHANGED finalSeg
           \/ /\ streamPc' = "done"
              /\ \/ streamPc = "finalDue" /\ finalSeg' = <<streamGot>>
                 \/ finalSeg' = <<>>
    BY DEF StreamPassDone, StreamFinal, StreamFails, StreamStep, StreamEnds
  <1>2. ASSUME NEW z \in Nat, nrec # 0, Fronted(z) PROVE Fronted(z)'
    <2>1. PICK a \in Nat, m \in Nat : Front(a, m, z)
      BY <1>2 DEF Fronted
    <2>2. /\ a <= m /\ m <= z /\ z <= Heard /\ Heard \in Nat /\ Heard = spoken[nrec]
          /\ Queue(m, z) /\ Closed /\ streamGot = Span(nrec, a, m)
          /\ streamPc \in {"final", "finalDue"} => m = Heard /\ ~recording
      BY <1>2, <2>1, HeardNat DEF Front, Heard
    <2>3. Queue(m, z)' /\ streamGot' = Span(nrec, a, m)'
      BY <1>1, <2>2 DEF Queue, Heard, Span
    <2>4. Closed'
      <3>1. CASE streamPc = "finalDue" /\ finalSeg' = <<streamGot>>
        <4>1. finalSeg'[1] = Span(nrec, a, Heard) /\ ~recording' /\ Heard' = Heard
          BY <2>2, <3>1 DEF Heard
        <4>2. CASE a = Heard
          <5>1. finalSeg'[1] = <<>>
            BY <2>2, <4>1, <4>2, Numbers, SpanNone
          <5> QED BY <4>1, <5>1 DEF Closed
        <4>3. CASE a < Heard
          <5>1. finalSeg'[1] = From(nrec, a + 1)
            BY <2>2, <4>1, SpanTail
          <5>2. finalSeg'[1] = From(nrec, a + 1)' /\ a + 1 \in 1..Heard'
            BY <2>2, <4>1, <4>3, <5>1 DEF From
          <5> QED BY <4>1, <5>2 DEF Closed
        <4> QED BY <2>2, <4>2, <4>3
      <3>2. CASE finalSeg' = <<>>
        BY <3>2 DEF Closed
      <3>3. CASE finalSeg' = finalSeg
        BY <2>2, <3>3 DEF Closed, Heard, From
      <3> QED BY <1>1, <3>1, <3>2, <3>3
    <2>5. Front(a, m, z)'
      BY <1>1, <2>2, <2>3, <2>4 DEF Front, Heard
    <2> QED BY <2>5 DEF Fronted
  <1> QED BY <1>1, <1>2 DEF FrontKept, StreamClean

-----------------------------------------------------------------------------
\* The beginning of a recording.

LEMMA HotkeyStartTail ==
  ASSUME TypeOK, TypeOK', StartInv, Streaming, ~Hasty, HotkeyStart
  PROVE  StartInv' /\ LineInv'
  <1> DEFINE p == Callback("prepare", nrec + 1)
             s == Callback("chunker_start", nrec + 1)
  <1>1. /\ ready = <<>> /\ \A r \in Recs : loopPc[r] \in {"none", "done"}
        /\ UNCHANGED <<loopPc, stopWaits>>
        /\ ready' = <<>> \o (<<p>> \o <<s>>)
    BY DEF HotkeyStart, Settled, StartRecording, CallSoon, chunkerVars
  <1>2. p.kind = "prepare" /\ s.kind = "chunker_start"
    BY DEF Callback
  <1> HIDE DEF p, s
  <1>3. /\ p \in Callbacks /\ s \in Callbacks
    <2>1. nrec + 1 \in Nat
      BY Numbers
    <2> QED BY <2>1, CallbackTyped DEF Kinds, p, s
  <1>4. /\ Len(ready') = 2 /\ ready'[1] = p /\ ready'[2] = s
        /\ ready' # <<>> /\ Head(ready') = p
    <2> DEFINE q == <<p>> \o <<s>>
    <2>1. /\ <<p>> \in Seq(Callbacks) /\ <<s>> \in Seq(Callbacks)
          /\ Len(<<p>>) = 1 /\ Len(<<s>>) = 1 /\ <<p>>[1] = p /\ <<s>>[1] = s
      BY <1>3
    <2>2. q \in Seq(Callbacks) /\ Len(q) = 2 /\ q[1] = p /\ q[1 + 1] = s
      BY <2>1, ConcatAt
    <2> HIDE DEF q
    <2>3. <<>> \o q = q
      BY <2>2, ConcatEmptySeq
    <2>4. ready' = q /\ Len(<<>>) = 0
      BY <1>1, <2>3 DEF q
    <2>5. q # <<>>
      BY <2>2, <2>4
    <2>6. Head(q) = q[1]
      BY <2>2, <2>5, TailAt
    <2> QED BY <2>2, <2>4, <2>5, <2>6
  <1>5. Runs("prepare")' /\ ~Runs("chunker_start")'
    BY <1>2, <1>4 DEF Runs
  <1>6. Starting'
    BY <1>5, RunsStarting
  <1>7. \A r \in Recs : stopWaits'[r] = <<>>
    BY <1>1 DEF StartInv
  <1>8. \A i \in 1..Len(ready') : (i = 1 /\ ready'[i] = p) \/ (i = 2 /\ ready'[i] = s)
    BY <1>4
  <1> QED
    BY <1>2, <1>4, <1>5, <1>6, <1>7, <1>8 DEF StartInv, LineInv, ChunkerStops

LEMMA PrepareTail ==
  ASSUME TypeOK, TypeOK', StartInv, UNCHANGED <<captureVars, chunkerVars>>, Prepare
  PROVE  StartInv' /\ LineInv'
  <1>1. /\ Runs("prepare") /\ Queues(1, <<>>) /\ StreamClean'
        /\ UNCHANGED <<recording, loopPc, stopWaits>>
    BY NoneQueued DEF Prepare, ResetStreaming, StreamClean, captureVars, chunkerVars
  <1>2. /\ Len(ready) >= 2 /\ ready[2].kind = "chunker_start" /\ Starting
        /\ ready[1].kind = "prepare" /\ 1 \in 1..Len(ready)
    BY <1>1, HeadIsFirst DEF StartInv, Starting, Starts
  <1>3. /\ Len(ready') = Len(ready) - 1 /\ Len(ready) \in Nat
        /\ \A i \in 1..Len(ready') : i + 1 \in 1..Len(ready) /\ ready'[i] = ready[i + 1]
    <2>1. Len(ready) \in Nat /\ Len(ready) >= 2
      BY <1>2, Numbers
    <2>2. /\ Len(ready') = Len(ready) - 1 + Len(<<>>) /\ Len(<<>>) = 0
          /\ \A i \in 1..Len(ready') :
               i <= Len(ready) - 1 => i + 1 \in 1..Len(ready) /\ ready'[i] = ready[i + 1]
      BY <1>1 DEF Queues, Shifted
    <2>3. Len(ready') = Len(ready) - 1
      BY <2>1, <2>2
    <2> QED BY <2>1, <2>2, <2>3
  <1>4. Len(ready') >= 1 /\ ready'[1].kind = "chunker_start" /\ 1 \in 1..Len(ready')
    BY <1>2, <1>3
  <1>5. ~Runs("prepare")'
    <2>1. ready' \in Seq(Callbacks) /\ ready' # <<>>
      BY <1>4 DEF TypeOK
    <2>2. Head(ready') = ready'[1]
      BY <2>1, TailAt
    <2> QED BY <1>4, <2>2 DEF Runs
  <1>6. Starting'
    BY <1>4 DEF Starting, Starts
  <1>7. ASSUME NEW i \in 1..Len(ready')
        PROVE  /\ ready'[i].kind = "prepare" => i = 1
               /\ ready'[i].kind = "chunker_start" => i = 1
               /\ ready'[i].kind # "chunk"
               /\ ready'[i].kind \in ChunkerStops => ~recording'
    <2>1. PICK j \in 1..Len(ready) : j = i + 1 /\ ready'[i] = ready[j]
      BY <1>3
    <2>2. /\ ready[j].kind = "prepare" => j = 1
          /\ ready[j].kind = "chunker_start" => j = 1 \/ j = 2
          /\ ready[j].kind # "chunk"
          /\ ready[j].kind \in ChunkerStops => ~recording
      BY <1>2 DEF StartInv
    <2> QED BY <1>1, <2>1, <2>2
  <1>8. \A r \in Recs : stopWaits'[r] = <<>>
    BY <1>1, <1>2 DEF StartInv
  <1> QED BY <1>1, <1>5, <1>6, <1>7, <1>8 DEF StartInv, LineInv

LEMMA StartTail ==
  ASSUME TypeOK, TypeOK', StartInv, UNCHANGED <<captureVars, orchestratorVars, userVars>>,
         NEW r \in Recs, Start(r)
  PROVE  StartInv' /\ LineInv'
  <1> DEFINE new == <<Callback("chunk_loop", r)>>
  <1>1. /\ Runs("chunker_start") /\ running' = TRUE /\ chunkBuf' = <<>>
        /\ UNCHANGED <<stopWaits, recording, nrec, spoken>>
        /\ UNCHANGED <<streamPc, streamGot, streamQueue, finalSeg>>
    BY DEF Start, captureVars, orchestratorVars, streamVars, userVars, historyOfUser
  <1>2. Starting /\ StreamClean /\ ready[1].kind = "chunker_start" /\ ~Runs("prepare")
    BY <1>1, HeadIsFirst DEF StartInv, Starting, Starts, Runs
  <1>3. Queues(1, new) /\ Len(new) = 1 /\ new[1].kind = "chunk_loop"
    <2>1. Callback("chunk_loop", r) \in Callbacks
      BY CallbackTyped DEF Kinds, Recs
    <2>2. Queues(1, new)
      BY <1>1, <2>1, OneQueued DEF Start
    <2> QED BY <2>2 DEF Callback
  <1> HIDE DEF new
  <1>4. ASSUME NEW i \in 1..Len(ready')
        PROVE  /\ ready'[i].kind \notin Starts
               /\ ready'[i].kind # "chunk"
               /\ ready'[i].kind \in ChunkerStops => ~recording'
    <2>1. CASE \E j \in 1..Len(new) : ready'[i] = new[j]
      BY <1>3, <2>1 DEF Starts, ChunkerStops
    <2>2. ASSUME NEW j \in 1..Len(ready), j = i + 1, ready'[i] = ready[j]
          PROVE  /\ ready'[i].kind \notin Starts
                 /\ ready'[i].kind # "chunk"
                 /\ ready'[i].kind \in ChunkerStops => ~recording'
      <3>1. /\ ready[j].kind # "prepare" /\ ready[j].kind # "chunker_start"
            /\ ready[j].kind # "chunk"
            /\ ready[j].kind \in ChunkerStops => ~recording
        <4>1. j # 1
          BY <2>2
        <4> QED BY <1>2, <4>1 DEF StartInv
      <3> QED BY <1>1, <2>2, <3>1 DEF Starts
    <2> QED BY <1>3, <2>1, <2>2, OldOrNew
  <1>5. ~Starting'
    BY <1>4 DEF Starting
  <1>6. ~Runs("prepare")' /\ ~Runs("chunker_start")'
    BY <1>5, RunsStarting
  <1>7. \A q \in Recs : stopWaits'[q] = <<>>
    BY <1>1, <1>2 DEF StartInv
  <1>8. StartInv'
    BY <1>1, <1>4, <1>5, <1>6, <1>7 DEF StartInv, Starts
  <1>9. ASSUME nrec # 0
        PROVE  (\E c : /\ Events(c)
                       /\ chunkBuf = Span(nrec, c[Len(ready)], Heard)
                       /\ Fronted(c[0]))'
    <2>1. Heard \in Nat /\ nrec \in Nat /\ Heard' = Heard /\ Len(ready') \in Nat
      BY <1>1, <1>9, HeardNat DEF Heard, TypeOK
    <2>2. PICK h \in Nat : h = Heard /\ h = Heard'
      BY <2>1
    <2>3. PICK c : c = [i \in 0..Len(ready') |-> h]
      OBVIOUS
    <2>4. c \in [0..Len(ready') -> Nat] /\ \A i \in 0..Len(ready') : c[i] = h
      BY <2>3
    <2>5. Span(nrec, h, h) = <<>> /\ Span(nrec, h, h)' = <<>>
      <3>1. Span(nrec, h, h) = <<>>
        BY <2>1, SpanNone
      <3> QED BY <1>1, <3>1 DEF Span
    <2>6. Events(c)'
      <3>1. \A i \in 1..Len(ready') : /\ i \in 0..Len(ready') /\ i - 1 \in 0..Len(ready')
                                      /\ c[i - 1] = h /\ c[i] = h
        BY <2>1, <2>4
      <3>2. \A i \in 1..Len(ready') : Carried(ready'[i]) = <<>>
        BY <1>4 DEF Carried
      <3>3. \A i : Carried(ready[i])' = Carried(ready'[i])
        BY DEF Carried
      <3>4. \A i \in 1..Len(ready') : Carried(ready[i])' = Span(nrec, c[i - 1], c[i])'
        BY <2>5, <3>1, <3>2, <3>3
      <3> QED BY <1>4, <2>2, <2>4, <3>1, <3>4 DEF Events
    <2>7. chunkBuf' = Span(nrec, c[Len(ready)], Heard)'
      <3>1. c[Len(ready')] = h
        BY <2>1, <2>4
      <3> QED BY <1>1, <2>2, <2>5, <3>1
    <2>8. Fronted(h)'
      <3>1. Queue(h, h)' /\ Closed'
        BY <1>1, <1>2 DEF StreamClean, Queue, Closed
      <3>2. Front(h, h, h)'
        BY <1>1, <1>2, <2>2, <2>5, <3>1 DEF Front, StreamClean
      <3> QED BY <3>2 DEF Fronted
    <2>9. c[0] = h
      BY <2>1, <2>4
    <2> QED BY <2>6, <2>7, <2>8, <2>9
  <1>10. LineInv'
    BY <1>1, <1>9 DEF LineInv
  <1> QED BY <1>8, <1>10

-----------------------------------------------------------------------------
\* A chunk event reaches the task's queue.

LEMMA QueueGrows ==
  ASSUME TypeOK, nrec # 0, UNCHANGED <<nrec, spoken, recording>>,
         NEW m \in Nat, NEW z \in Nat, NEW y \in Nat, m <= z, z <= y, y <= Heard,
         Queue(m, z), NEW data \in Audio, data = Span(nrec, z, y),
         NEW end \in {<<>>, <<End>>}, end # <<>> => ~recording /\ y = Heard,
         streamQueue' = streamQueue \o data \o end
  PROVE  Queue(m, y)'
  <1> DEFINE S == Block \union {End}
             q == streamQueue
             n == Len(q)
             l == y - z
  <1>1. q \in Seq(S) /\ data \in Seq(S) /\ end \in Seq(S)
    <2>1. q \in Seq(S) /\ data \in Seq(S)
      BY DEF TypeOK, OrchestratorTypeOK, StreamTypeOK, Audio
    <2>2. End \in S
      OBVIOUS
    <2> HIDE DEF S
    <2>3. <<>> \in Seq(S) /\ <<End>> \in Seq(S)
      BY <2>2
    <2> QED BY <2>1, <2>3
  <1>2. /\ n \in Nat /\ l \in Nat /\ Len(data) = l /\ Len(end) \in Nat
        /\ \A i \in 1..l : data[i] = <<nrec, z + i>>
    <2>1. nrec \in Nat
      BY HeardNat
    <2>2. Len(data) = l /\ \A i \in 1..l : data[i] = <<nrec, z + i>>
      BY <2>1, SpanSeq
    <2>3. n \in Nat /\ l \in Nat /\ Len(end) \in Nat
      BY <1>1
    <2> QED BY <2>2, <2>3
  <1>3. /\ z - m <= n
        /\ \A i \in 1..n : /\ i <= z - m => q[i] = <<nrec, m + i>>
                           /\ i > z - m => q[i] = End /\ z = Heard /\ ~recording
    BY DEF Queue
  <1> HIDE DEF S, q, n, l
  <1>4. /\ q \o data \in Seq(S) /\ Len(q \o data) = n + l
        /\ \A i \in 1..n : (q \o data)[i] = q[i]
        /\ \A i \in (n + 1)..(n + l) : (q \o data)[i] = data[i - n]
    <2>1. /\ q \o data \in Seq(S) /\ Len(q \o data) = Len(q) + Len(data)
          /\ \A i \in 1..Len(q) : (q \o data)[i] = q[i]
          /\ \A i \in (Len(q) + 1)..(Len(q) + Len(data)) : (q \o data)[i] = data[i - Len(q)]
      BY <1>1, ConcatAt
    <2>2. Len(q) = n
      BY DEF n
    <2> QED BY <1>2, <2>1, <2>2
  <1>5. /\ Len(streamQueue') = n + l + Len(end)
        /\ \A i \in 1..(n + l) : streamQueue'[i] = (q \o data)[i]
        /\ \A i \in (n + l + 1)..(n + l + Len(end)) :
             streamQueue'[i] = end[i - (n + l)]
    <2> DEFINE t == q \o data
    <2>1. t \in Seq(S) /\ Len(t) = n + l
      BY <1>4
    <2>2. streamQueue' = t \o end
      BY DEF q
    <2>3. \A i : (q \o data)[i] = t[i]
      OBVIOUS
    <2> HIDE DEF t
    <2>4. \A e \in Seq(S) :
            /\ Len(t \o e) = Len(t) + Len(e)
            /\ \A i \in 1..Len(t) : (t \o e)[i] = t[i]
            /\ \A i \in (Len(t) + 1)..(Len(t) + Len(e)) : (t \o e)[i] = e[i - Len(t)]
      BY <2>1, ConcatAt
    <2>5. /\ Len(t \o end) = Len(t) + Len(end)
          /\ \A i \in 1..Len(t) : (t \o end)[i] = t[i]
          /\ \A i \in (Len(t) + 1)..(Len(t) + Len(end)) : (t \o end)[i] = end[i - Len(t)]
      BY <1>1, <2>4, Zenon
    <2> QED BY <2>1, <2>2, <2>3, <2>5
  <1>6. l = 0 \/ (n = z - m /\ l > 0)
    <2>1. l > 0 => ~(z = Heard)
      BY HeardNat DEF l
    <2>2. n > z - m => n \in 1..n
      BY <1>2
    <2>3. ASSUME n > z - m PROVE l = 0
      <3>1. PICK i \in 1..n : i > z - m
        BY <2>2, <2>3
      <3>2. z = Heard
        BY <1>3, <3>1
      <3> QED BY <1>2, <2>1, <3>2
    <2>4. z - m \in Nat
      OBVIOUS
    <2> QED BY <1>2, <1>3, <2>3, <2>4
  <1>7. y - m = (z - m) + l /\ z - m \in Nat /\ Heard \in Nat /\ z <= Heard
    BY HeardNat DEF l
  <1>8. ASSUME NEW i \in 1..Len(streamQueue')
        PROVE  /\ i <= y - m => streamQueue'[i] = <<nrec, m + i>>
               /\ i > y - m => streamQueue'[i] = End /\ y = Heard /\ ~recording
    <2>1. CASE i <= n
      <3>1. streamQueue'[i] = q[i] /\ i \in 1..n
        BY <1>2, <1>4, <1>5, <2>1
      <3>2. CASE l = 0
        <4>1. y = z
          BY <3>2 DEF l
        <4> QED BY <1>3, <3>1, <4>1
      <3>3. CASE n = z - m /\ l > 0
        BY <1>2, <1>3, <1>7, <2>1, <3>1, <3>3
      <3> QED BY <1>6, <3>2, <3>3
    <2>2. CASE i > n /\ i <= n + l
      <3>1. l > 0 /\ n = z - m
        BY <1>2, <1>6, <2>2
      <3>2. PICK j \in 1..l : j = i - n
        BY <1>2, <2>2
      <3>3. i \in 1..(n + l) /\ i \in (n + 1)..(n + l)
        BY <1>2, <2>2
      <3>4. streamQueue'[i] = <<nrec, z + j>>
        BY <1>2, <1>4, <1>5, <3>2, <3>3
      <3>5. z + j = m + i /\ i <= y - m
        BY <1>2, <1>7, <2>2, <3>1, <3>2
      <3> QED BY <1>7, <3>4, <3>5
    <2>3. CASE i > n + l
      <3>1. i \in (n + l + 1)..(n + l + Len(end)) /\ i - (n + l) \in 1..Len(end)
        BY <1>2, <1>5, <2>3
      <3>2. end = <<End>>
        BY <3>1
      <3>3. streamQueue'[i] = End
        <4>1. Len(end) = 1 /\ end[1] = End
          BY <3>2
        <4>2. i - (n + l) = 1
          BY <3>1, <4>1
        <4> QED BY <1>5, <3>1, <4>1, <4>2
      <3>4. y = Heard /\ ~recording /\ i > y - m
        <4>1. n + l >= y - m
          BY <1>2, <1>3, <1>7
        <4> QED BY <1>2, <1>7, <2>3, <3>2, <4>1
      <3> QED BY <1>7, <3>3, <3>4
    <2>4. i <= n \/ (i > n /\ i <= n + l) \/ i > n + l
      <3>1. i \in Nat /\ n + l \in Nat
        BY <1>2
      <3> QED BY <1>2, <3>1
    <2> QED BY <2>1, <2>2, <2>3, <2>4
  <1>9. y - m <= Len(streamQueue')
    BY <1>2, <1>3, <1>5, <1>7
  <1> QED BY <1>8, <1>9 DEF Queue, Heard

LEMMA OnAudioChunkTail ==
  ASSUME TypeOK, TypeOK', StartInv, LineInv,
         UNCHANGED <<captureVars, chunkerVars, userVars>>, OnAudioChunk
  PROVE  StartInv' /\ LineInv'
  <1> DEFINE h == Head(ready)
             end == IF h.flush THEN <<End>> ELSE <<>>
  <1>1. /\ Runs("chunk") /\ UNCHANGED <<nrec, spoken, recording>>
        /\ UNCHANGED <<streamGot, finalSeg, chunkBuf, running, stopWaits, loopPc>>
        /\ streamQueue' = streamQueue \o h.data \o end
        /\ streamPc' \in {"new", "woken", streamPc}
        /\ streamGen' \in Nat
    BY DEF OnAudioChunk, captureVars, chunkerVars, userVars, historyOfUser,
           TypeOK, OrchestratorTypeOK, StreamTypeOK
  <1>2. /\ h = ready[1] /\ 1 \in 1..Len(ready) /\ h.kind = "chunk" /\ ready # <<>>
        /\ h.data \in Audio /\ h.flush \in BOOLEAN
    BY <1>1, HeadIsFirst, HeadTyped, Numbers DEF Runs
  <1>3. PICK new : /\ Queues(1, new)
                   /\ \A i \in 1..Len(new) : new[i].kind = "stream"
    <2>1. CASE Schedules(<<>>)
      <3>1. Queues(1, <<>>) /\ Len(<<>>) = 0
        BY <1>1, <2>1, NoneQueued
      <3> QED BY <3>1
    <2>2. CASE Schedules(<<Callback("stream", streamGen')>>)
      <3> DEFINE s == Callback("stream", streamGen')
      <3>1. s \in Callbacks /\ s.kind = "stream"
        BY <1>1, CallbackTyped DEF Kinds, Callback
      <3>2. Queues(1, <<s>>)
        BY <1>1, <2>2, <3>1, OneQueued
      <3> HIDE DEF s
      <3>3. \A i \in 1..Len(<<s>>) : <<s>>[i] = s
        OBVIOUS
      <3> QED BY <3>1, <3>2, <3>3
    <2> QED BY <2>1, <2>2 DEF OnAudioChunk
  <1>4. Tame(1, new) /\ KeepsTail(new)
    BY <1>1, <1>2, <1>3 DEF Tame, KeepsTail, Starts, ChunkerStops
  <1>5. StopsFollow /\ (recording' => recording)
    BY <1>1 DEF StopsFollow
  <1>6. ASSUME nrec # 0, NEW c, Events(c), Fronted(c[0])
        PROVE  Fronted(c[1])'
    <2>1. PICK z \in Nat, y \in Nat :
            /\ z = c[0] /\ y = c[1] /\ z <= y /\ y <= Heard
            /\ h.data = Span(nrec, z, y) /\ (h.flush => ~recording /\ y = Heard)
      <3>1. /\ c[1 - 1] <= c[1] /\ Carried(ready[1]) = Span(nrec, c[1 - 1], c[1])
            /\ ready[1].kind = "chunk" /\ ready[1].flush => ~recording /\ c[1] = Heard
        BY <1>2, <1>6 DEF Events
      <3>2. c[0] \in Nat /\ c[1] \in Nat /\ c[1] <= Heard /\ 1 - 1 = 0
        BY <1>2, <1>6 DEF Events
      <3>3. Carried(ready[1]) = h.data
        BY <1>2 DEF Carried
      <3> QED BY <1>2, <3>1, <3>2, <3>3
    <2>2. PICK a \in Nat, m \in Nat : Front(a, m, z)
      BY <1>6, <2>1 DEF Fronted
    <2>3. /\ a <= m /\ m <= z /\ z <= Heard /\ Heard \in Nat
          /\ streamGot = Span(nrec, a, m) /\ Queue(m, z) /\ Closed
          /\ streamPc \in {"final", "finalDue"} => m = Heard /\ ~recording
      BY <1>6, <2>2, HeardNat DEF Front
    <2>4. Queue(m, y)'
      <3>1. end \in {<<>>, <<End>>} /\ (end # <<>> => ~recording /\ y = Heard)
        BY <2>1
      <3> HIDE DEF h, end
      <3> QED BY <1>1, <1>2, <1>6, <2>1, <2>3, <3>1, QueueGrows
    <2>5. Front(a, m, y)'
      <3>1. streamGot' = Span(nrec, a, m)'
        BY <1>1, <2>3 DEF Span
      <3>2. Closed'
        BY <1>1, <2>3 DEF Closed, Heard, From
      <3>3. m <= y
        BY <2>1, <2>3
      <3> QED BY <1>1, <2>1, <2>3, <2>4, <3>1, <3>2, <3>3 DEF Front, Heard
    <2> QED BY <2>1, <2>5 DEF Fronted
  <1>7. FrontMoves(1)
    BY <1>6 DEF FrontMoves
  <1> QED BY <1>1, <1>4, <1>5, <1>7, TailMoves

-----------------------------------------------------------------------------
\* A block is heard: it goes to the buffer's end.

LEMMA SpeakTail ==
  ASSUME TypeOK, TypeOK', Ours, WholeInv, StartInv, LineInv, Streaming, Speak
  PROVE  StartInv' /\ LineInv'
  <1>1. /\ recording /\ nrec # 0 /\ UNCHANGED <<ready, nrec, recording>>
        /\ UNCHANGED <<running, loopPc, stopWaits>>
        /\ UNCHANGED <<streamPc, streamGot, streamQueue, finalSeg>>
        /\ spoken' = [spoken EXCEPT ![nrec] = @ + 1]
        /\ buffer = From(nrec, 1)
        /\ running => chunkBuf' = Append(chunkBuf, <<nrec, Len(buffer) + 1>>)
    BY DEF Speak, AudioBlock, Ours, WholeInv, Whole, orchestratorVars, streamVars
  <1>2. Heard \in Nat /\ Heard' = Heard + 1 /\ nrec \in Nat /\ nrec \in Recs
    BY <1>1, HeardNat, Numbers DEF Heard
  <1>3. Queues(0, <<>>) /\ Len(<<>>) = 0
    <2>1. <<>> \in Seq(Callbacks) /\ CallSoon(<<>>)
      BY <1>1, Numbers DEF CallSoon
    <2> QED BY <2>1, Numbers, CallSoonShifts DEF Queues
  <1>4. StartInv' /\ (Starting' <=> Starting)
    BY <1>1, <1>3, StartKept DEF StopsFollow, StreamClean
  <1>5. ASSUME ~Starting
        PROVE  (\E c : /\ Events(c)
                       /\ chunkBuf = Span(nrec, c[Len(ready)], Heard)
                       /\ Fronted(c[0]))'
    <2> DEFINE L == Len(ready)
    <2>1. PICK c : /\ Events(c)
                   /\ chunkBuf = Span(nrec, c[L], Heard)
                   /\ Fronted(c[0])
      BY <1>1, <1>5 DEF LineInv
    <2>2. PICK e \in Nat : e = c[L] /\ e <= Heard
      BY Numbers, <2>1 DEF Events
    <2>3. PICK k : Events(k)' /\ k[0] = c[0] /\ k[Len(ready')] = e
      <3>1. /\ Heard' \in Nat /\ Heard <= Heard' /\ c[Len(ready)] <= e /\ e <= Heard'
            /\ 0 <= Len(ready)
        BY <1>2, <2>2, Numbers
      <3> QED BY <1>1, <1>3, <2>1, <2>2, <3>1, EventsMove
    <2>4. chunkBuf' = Span(nrec, k[Len(ready)], Heard)'
      <3>1. Len(buffer) = Heard
        BY <1>1, <1>2 DEF From, Heard
      <3>2. running
        BY <1>1, <1>5 DEF StartInv
      <3>3. chunkBuf' = Append(Span(nrec, e, Heard), <<nrec, Heard + 1>>)
        BY <1>1, <2>1, <2>2, <3>1, <3>2
      <3>4. chunkBuf' = Span(nrec, e, Heard + 1)
        BY <1>2, <2>2, <3>3, SpanGrows
      <3> QED BY <1>1, <1>2, <2>3, <3>4 DEF Span
    <2>5. Fronted(k[0])'
      <3>1. PICK a \in Nat, m \in Nat : Front(a, m, c[0])
        BY <2>1 DEF Fronted
      <3>2. PICK z \in Nat : z = c[0]
        BY <2>1, Numbers DEF Events
      <3>3. /\ a <= m /\ m <= z /\ z <= Heard /\ streamGot = Span(nrec, a, m)
            /\ Queue(m, z) /\ Closed /\ streamPc \notin {"final", "finalDue"}
        BY <1>1, <3>1, <3>2 DEF Front
      <3>4. Queue(m, z)'
        BY <1>1, <3>3 DEF Queue
      <3>5. Closed'
        BY <1>1, <3>3 DEF Closed
      <3>6. Front(a, m, z)'
        BY <1>1, <1>2, <3>3, <3>4, <3>5 DEF Front, Span
      <3> QED BY <2>3, <3>2, <3>6 DEF Fronted
    <2> QED BY <2>3, <2>4, <2>5
  <1> QED BY <1>4, <1>5 DEF LineInv

-----------------------------------------------------------------------------
\* The chunker's steps.

LEMMA ChunkerTail ==
  ASSUME TypeOK, TypeOK', StartInv, LineInv,
         UNCHANGED <<captureVars, orchestratorVars, userVars>>, NEW r \in Recs,
         \/ LoopEnds(r) \/ LoopSleeps(r) \/ LoopTick(r)
         \/ StopSpawn \/ StopBegin \/ StopFinish
  PROVE  StartInv' /\ LineInv'
  <1>0. /\ UNCHANGED <<nrec, spoken, recording>>
        /\ UNCHANGED <<streamPc, streamGot, streamQueue, finalSeg>>
        /\ chunkBuf \in Audio /\ loopPc \in [Recs -> LoopPcs]
        /\ stopWaits \in [Recs -> Seq(BOOLEAN)]
    BY DEF captureVars, orchestratorVars, streamVars, userVars, historyOfUser,
           TypeOK, ChunkerTypeOK
  <1>1. FrontKept /\ (recording' => recording)
    BY <1>0, FrontSame
  <1>2. ASSUME NEW k \in ChunkerStops, Runs(k)
        PROVE  ~recording' /\ ~Starting
    <2>1. ~recording
      BY <1>2, HeadIsFirst DEF StartInv
    <2>2. ~Starting
      BY <1>2, HeadStarts DEF ChunkerStops, Runs
    <2> QED BY <1>0, <2>1, <2>2
  <1>3. ASSUME NEW k \in Kinds \ (Starts \union {"chunk"}), Runs(k),
               NEW new \in Seq(Callbacks), Schedules(new), StopsFollow,
               \A i \in 1..Len(new) : /\ new[i].kind \notin Starts
                                      /\ new[i].kind \in ChunkerStops => ~recording',
               KeepsTail(new) \/ EmitsTail(new)
        PROVE  StartInv' /\ LineInv'
    <2>1. Queues(1, new)
      BY <1>3, Numbers, SchedulesShifts DEF Queues, Runs
    <2>2. Tame(1, new) /\ Head(ready).kind # "chunk"
      BY <1>3, <2>1 DEF Tame, Runs
    <2> QED BY <1>0, <1>1, <1>3, <2>2, TailKept
  <1>10. ASSUME NEW k \in Kinds \ (Starts \union {"chunk"}), Runs(k),
                Schedules(<<>>), StopsFollow, chunkBuf' = chunkBuf
         PROVE  StartInv' /\ LineInv'
    <2>1. <<>> \in Seq(Callbacks) /\ Len(<<>>) = 0
      OBVIOUS
    <2>2. PICK none \in Seq(Callbacks) : none = <<>> /\ Len(none) = 0
      BY <2>1
    <2>3. Schedules(none)
      BY <1>10, <2>2
    <2>4. KeepsTail(none) /\ \A i \in 1..Len(none) : i \notin 1..0
      BY <1>10, <2>2 DEF KeepsTail
    <2> QED BY <1>3, <1>10, <2>2, <2>3, <2>4
  <1>11. ASSUME NEW k \in Kinds \ (Starts \union {"chunk"}), Runs(k),
                NEW f \in BOOLEAN, f => ~recording',
                Schedules(<<ChunkEvent(f, chunkBuf)>>), StopsFollow, chunkBuf' = <<>>
         PROVE  StartInv' /\ LineInv'
    <2> DEFINE x == ChunkEvent(f, chunkBuf)
               e == <<x>>
    <2>1. x \in Callbacks /\ x.kind = "chunk" /\ EmitsTail(e) /\ Schedules(e)
      <3>1. x \in Callbacks
        BY <1>0, ChunkEventTyped
      <3>2. x.kind = "chunk"
        BY DEF ChunkEvent
      <3>3. EmitsTail(e)
        BY <1>11 DEF EmitsTail
      <3> QED BY <1>11, <3>1, <3>2, <3>3
    <2> HIDE DEF x
    <2>2. e \in Seq(Callbacks) /\ \A i \in 1..Len(e) : e[i] = x
      BY <2>1
    <2> HIDE DEF e
    <2> QED BY <1>3, <1>11, <2>1, <2>2 DEF Starts, ChunkerStops
  <1>4. CASE LoopEnds(r)
    <2>1. /\ Runs("chunk_loop") /\ Schedules(Resumed(r))
          /\ UNCHANGED <<running, chunkBuf>>
          /\ loopPc' = [loopPc EXCEPT ![r] = "done"]
          /\ stopWaits' = [stopWaits EXCEPT ![r] = <<>>]
      BY <1>4 DEF LoopEnds
    <2>2. /\ Resumed(r) \in Seq(Callbacks) /\ Len(Resumed(r)) = Len(stopWaits[r])
          /\ \A i \in 1..Len(Resumed(r)) : Resumed(r)[i].kind = "stop_resume"
      <3>1. \A i \in 1..Len(stopWaits[r]) :
              /\ StopCall("stop_resume", stopWaits[r][i]) \in Callbacks
              /\ StopCall("stop_resume", stopWaits[r][i]).kind = "stop_resume"
        BY <1>0, StopCallTyped DEF StopCall, Callback
      <3>2. Len(stopWaits[r]) \in Nat
        BY <1>0
      <3> QED BY <3>1, <3>2 DEF Resumed
    <2>3. Len(Resumed(r)) # 0 => ~recording'
      BY <1>0, <2>2 DEF StartInv
    <2>4. StopsFollow
      BY <1>0, <2>1 DEF StopsFollow
    <2>5. KeepsTail(Resumed(r))
      BY <2>1, <2>2 DEF KeepsTail
    <2>6. \A i \in 1..Len(Resumed(r)) : /\ Resumed(r)[i].kind \notin Starts
                                        /\ Resumed(r)[i].kind \in ChunkerStops => ~recording'
      BY <2>2, <2>3 DEF Starts
    <2> QED BY <1>3, <2>1, <2>2, <2>4, <2>5, <2>6 DEF Kinds, Starts
  <1>5. CASE LoopSleeps(r)
    <2>1. /\ Runs("chunk_loop") /\ UNCHANGED <<running, stopWaits>>
          /\ loopPc[r] # "cancelled" /\ loopPc' = [loopPc EXCEPT ![r] = "sleeping"]
          /\ \/ chunkBuf' = <<>> /\ Schedules(<<ChunkEvent(FALSE, chunkBuf)>>)
             \/ chunkBuf' = chunkBuf /\ Schedules(<<>>)
      BY <1>5 DEF LoopSleeps
    <2>2. StopsFollow
      BY <1>0, <2>1 DEF StopsFollow, StartInv
    <2>3. "chunk_loop" \in Kinds \ (Starts \union {"chunk"})
      BY DEF Kinds, Starts
    <2> QED BY <1>10, <1>11, <2>1, <2>2, <2>3
  <1>6. CASE LoopTick(r)
    <2> DEFINE new == <<Callback("chunk_loop", r)>>
    <2>1. /\ UNCHANGED <<running, chunkBuf, stopWaits>> /\ CallSoon(new)
          /\ loopPc[r] # "cancelled" /\ loopPc' = [loopPc EXCEPT ![r] = "due"]
      BY <1>6 DEF LoopTick
    <2>2. new \in Seq(Callbacks) /\ \A i \in 1..Len(new) : new[i].kind = "chunk_loop"
      BY PlainCallback DEF Kinds, Recs, Callback
    <2> HIDE DEF new
    <2>3. Queues(0, new)
      BY <2>1, <2>2, Numbers, CallSoonShifts DEF Queues
    <2>4. Tame(0, new) /\ KeepsTail(new)
      BY <2>1, <2>2, <2>3 DEF Tame, KeepsTail, Starts, ChunkerStops
    <2>5. StopsFollow
      BY <1>0, <2>1 DEF StopsFollow, StartInv
    <2> QED BY <1>0, <1>1, <2>4, <2>5, TailKept
  <1>7. CASE StopSpawn
    <2> DEFINE x == StopCall("stop_begin", Head(ready).flush)
               new == <<x>>
    <2>1. Runs("stop_spawn") /\ Schedules(new) /\ UNCHANGED chunkerVars
      BY <1>7 DEF StopSpawn
    <2>2. x \in Callbacks /\ x.kind = "stop_begin"
      <3>1. Head(ready).flush \in BOOLEAN
        BY <2>1, HeadTyped, Numbers DEF Runs
      <3> QED BY <3>1, StopCallTyped DEF StopCall, Callback
    <2> HIDE DEF x
    <2>4. new \in Seq(Callbacks) /\ \A i \in 1..Len(new) : new[i] = x
      BY <2>2
    <2> HIDE DEF new
    <2>3. StopsFollow /\ KeepsTail(new) /\ ~recording'
      BY <1>2, <2>1, <2>2, <2>4 DEF StopsFollow, KeepsTail, chunkerVars, ChunkerStops
    <2> QED BY <1>3, <2>1, <2>2, <2>3, <2>4 DEF Kinds, Starts
  <1>8. CASE StopBegin
    <2>1. /\ Runs("stop_begin") /\ running' = FALSE /\ UNCHANGED chunkBuf
          /\ loopPc' = [loopPc EXCEPT ![loopTask] = "cancelled"]
          /\ stopWaits' = [stopWaits EXCEPT ![loopTask] = Append(@, Head(ready).flush)]
          /\ \/ Schedules(<<>>)
             \/ Schedules(<<Callback("chunk_loop", loopTask)>>)
      BY <1>8 DEF StopBegin
    <2>2. ~recording' /\ ~Starting
      BY <1>2, <2>1 DEF ChunkerStops
    <2>3. StopsFollow
      <3>1. \A q \in Recs : \/ q = loopTask /\ loopPc'[q] = "cancelled"
                            \/ stopWaits'[q] = stopWaits[q] /\ loopPc'[q] = loopPc[q]
        BY <1>0, <2>1
      <3> QED BY <2>2, <3>1 DEF StopsFollow
    <2>4. ASSUME NEW new \in Seq(Callbacks), Schedules(new),
                 \A i \in 1..Len(new) : new[i].kind = "chunk_loop"
          PROVE  StartInv' /\ LineInv'
      <3>1. KeepsTail(new)
        BY <2>1, <2>4 DEF KeepsTail
      <3> QED BY <1>3, <2>1, <2>3, <2>4, <3>1 DEF Kinds, Starts, ChunkerStops
    <2>5. loopTask \in Nat
      BY BoundsAssumption DEF TypeOK, ChunkerTypeOK
    <2> DEFINE x == Callback("chunk_loop", loopTask)
               l == <<x>>
    <2>6. x \in Callbacks /\ x.kind = "chunk_loop"
      BY <2>5, CallbackTyped DEF Kinds, Callback
    <2> HIDE DEF x
    <2>7. l \in Seq(Callbacks) /\ \A i \in 1..Len(l) : l[i].kind = "chunk_loop"
      BY <2>6
    <2>8. Schedules(<<>>) \/ Schedules(l)
      BY <2>1 DEF x
    <2> HIDE DEF l
    <2>9. "stop_begin" \in Kinds \ (Starts \union {"chunk"})
      BY DEF Kinds, Starts
    <2> QED BY <1>10, <2>1, <2>3, <2>4, <2>7, <2>8, <2>9
  <1>9. CASE StopFinish
    <2>1. PICK k \in ChunkerStops \ {"stop_spawn"} : Runs(k)
      BY <1>9 DEF StopFinish, ChunkerStops
    <2>2. /\ ~recording' /\ UNCHANGED <<loopPc, stopWaits>>
          /\ \/ chunkBuf' = <<>> /\ Schedules(<<ChunkEvent(TRUE, chunkBuf)>>)
             \/ chunkBuf' = chunkBuf /\ Schedules(<<>>)
      BY <1>2, <1>9, <2>1 DEF StopFinish
    <2>3. StopsFollow /\ k \in Kinds \ (Starts \union {"chunk"})
      BY <2>1, <2>2 DEF StopsFollow, Kinds, Starts, ChunkerStops
    <2> QED BY <1>10, <1>11, <2>1, <2>2, <2>3
  <1> QED BY <1>4, <1>5, <1>6, <1>7, <1>8, <1>9

-----------------------------------------------------------------------------
\* The steps that leave the chunker alone and hand on no audio.

Calm == Kinds \ (Starts \union ChunkerStops \union {"chunk"})

LEMMA QuietTail ==
  ASSUME TypeOK, TypeOK', StartInv, LineInv,
         UNCHANGED <<chunkerVars, nrec, spoken>>, recording' => recording, FrontKept,
         NEW d \in {0, 1}, NEW new, Queues(d, new),
         d = 1 => ready # <<>> /\ Head(ready).kind \notin Starts \union {"chunk"},
         \A i \in 1..Len(new) : new[i].kind \in IF recording' THEN Calm
                                                 ELSE Calm \union ChunkerStops
  PROVE  StartInv' /\ LineInv'
  <1>1. \A i \in 1..Len(new) : /\ new[i].kind \notin Starts
                               /\ new[i].kind # "chunk"
                               /\ new[i].kind \in ChunkerStops => ~recording'
    BY DEF Calm, Starts, ChunkerStops
  <1>2. Tame(d, new)
    BY <1>1 DEF Tame
  <1>3. KeepsTail(new) /\ StopsFollow
    BY <1>1 DEF KeepsTail, StopsFollow, chunkerVars
  <1> QED BY <1>2, <1>3, TailKept

LEMMA LoopQuiet ==
  ASSUME TypeOK, TypeOK', StartInv, LineInv,
         UNCHANGED <<chunkerVars, nrec, spoken, recording>>, FrontKept,
         NEW k \in Calm, Runs(k), NEW new \in Seq(OfKinds(Calm)), Schedules(new)
  PROVE  StartInv' /\ LineInv'
  <1>1. new \in Seq(Callbacks) /\ \A i \in 1..Len(new) : new[i].kind \in Calm
    BY DEF OfKinds
  <1>2. Queues(1, new)
    BY <1>1, Numbers, SchedulesShifts DEF Queues, Runs
  <1>3. ready # <<>> /\ Head(ready).kind \notin Starts \union {"chunk"}
    BY DEF Runs, Calm
  <1> QED BY <1>1, <1>2, <1>3, QuietTail

LEMMA SoonQuiet ==
  ASSUME TypeOK, TypeOK', StartInv, LineInv,
         UNCHANGED <<chunkerVars, nrec, spoken, recording>>, FrontKept,
         NEW new \in Seq(OfKinds(Calm)), CallSoon(new)
  PROVE  StartInv' /\ LineInv'
  <1>1. Queues(0, new) /\ \A i \in 1..Len(new) : new[i].kind \in Calm
    BY CallSoonQueues
  <1> QED BY <1>1, QuietTail

LEMMA CalmCallback ==
  ASSUME NEW k \in Calm \ {"finalize", "stopped"}, NEW n \in Nat
  PROVE  <<Callback(k, n)>> \in Seq(OfKinds(Calm))
  <1>1. Callback(k, n) \in OfKinds(Calm)
    BY CallbackTyped DEF OfKinds, Callback, Calm
  <1> HIDE DEF Calm
  <1> QED BY <1>1, OfKindsSeq

LEMMA StreamTail ==
  ASSUME TypeOK, TypeOK', StartInv, LineInv,
         UNCHANGED <<captureVars, chunkerVars, userVars>>,
         \/ StreamConsumes \/ StreamReachesEnd \/ StreamFinal \/ StreamFails
         \/ StreamUnwinds
  PROVE  StartInv' /\ LineInv'
  <1>1. UNCHANGED <<nrec, spoken, recording>> /\ Runs("stream") /\ "stream" \in Calm
    BY DEF captureVars, userVars, historyOfUser, StreamConsumes, StreamReachesEnd,
           StreamFinal, StreamFails, StreamUnwinds, StreamStep, Calm, Kinds, Starts,
           ChunkerStops
  <1>2. FrontKept
    <2>1. CASE StreamUnwinds
      BY <1>1, <2>1, FrontSame DEF StreamUnwinds, orchestratorVars, streamVars
    <2> QED BY <1>1, <2>1, FrontConsumes, FrontReachesEnd, FrontPass
  <1>3. \E new \in Seq(OfKinds(Calm)) : Schedules(new)
    <2>1. Schedules(<<>>) \/ \E seg : StreamEnds(seg)
      BY DEF StreamConsumes, StreamReachesEnd, StreamFinal, StreamFails, StreamUnwinds
    <2>2. CASE Schedules(<<>>)
      BY <2>2, OfKindsSeq
    <2>3. ASSUME NEW seg, StreamEnds(seg)
          PROVE  \E new \in Seq(OfKinds(Calm)) : Schedules(new)
      <3>1. PICK w \in Seq(Callbacks) :
              Schedules(w) /\ \A i \in 1..Len(w) : w[i].kind = "pipeline"
        BY <2>3, StreamEndsWakes
      <3>2. \A i \in 1..Len(w) : w[i] \in OfKinds(Calm)
        BY <3>1 DEF OfKinds, Calm, Kinds, Starts, ChunkerStops
      <3>3. w \in Seq(OfKinds(Calm))
        BY <3>2
      <3> QED BY <3>1, <3>3
    <2> QED BY <2>1, <2>2, <2>3
  <1> QED BY <1>1, <1>2, <1>3, LoopQuiet

LEMMA HandlersTail ==
  ASSUME TypeOK, TypeOK', Ours, StartInv, LineInv,
         UNCHANGED <<captureVars, chunkerVars, spoken>>,
         \/ OnRecordingStopped \/ OnPipelineDone \/ TimerFires \/ Cancel
         \/ FinalizeStop /\ UNCHANGED orchestratorVars
  PROVE  StartInv' /\ LineInv'
  <1>1. UNCHANGED <<nrec, spoken, recording>>
    BY DEF captureVars
  <1>2. \E k \in Calm : Runs(k)
    BY DEF OnRecordingStopped, OnPipelineDone, TimerFires, Cancel, FinalizeStop,
           Calm, Kinds, Starts, ChunkerStops
  <1>3. FrontKept
    <2>1. CASE Cancel
      BY <1>1, <2>1, FrontReset DEF Cancel
    <2>2. CASE ~Cancel
      BY <1>1, <2>2, FrontSame
         DEF OnRecordingStopped, OnPipelineDone, TimerFires, streamVars,
             orchestratorVars
    <2> QED BY <2>1, <2>2
  <1>4. \E new \in Seq(OfKinds(Calm)) : Schedules(new)
    <2>1. CASE OnPipelineDone \/ TimerFires
      BY <2>1, OfKindsSeq DEF OnPipelineDone, TimerFires
    <2>2. \A n \in Nat : <<Wake(n)>> \in Seq(OfKinds(Calm))
      <3>1. "pipeline" \in Calm \ {"finalize", "stopped"}
        BY DEF Calm, Kinds, Starts, ChunkerStops
      <3> QED BY <3>1, CalmCallback DEF Wake
    <2>3. CASE OnRecordingStopped
      <3>1. Head(ready).id \in Nat
        BY <2>3, HeadTyped DEF OnRecordingStopped, TypeOK
      <3> QED BY <2>2, <2>3, <3>1 DEF OnRecordingStopped
    <2>4. CASE Cancel
      <3>1. handle \in Nat
        BY BoundsAssumption DEF TypeOK, OrchestratorTypeOK, SharedTypeOK
      <3>2. Schedules(<<>>) \/ Schedules(<<Wake(handle)>>)
        BY <2>4 DEF Cancel
      <3>3. <<>> \in Seq(OfKinds(Calm))
        BY OfKindsSeq
      <3> QED BY <2>2, <3>1, <3>2, <3>3
    <2>5. CASE FinalizeStop
      <3> DEFINE c == [kind |-> "stopped", id |-> Head(ready).id,
                       flush |-> FALSE, data |-> buffer]
      <3>1. Runs("finalize") /\ Schedules(<<c>>)
        BY <2>5 DEF FinalizeStop
      <3>2. Head(ready).id \in Pipes
        BY <3>1, HeadIsFirst, Numbers DEF Ours, Current, ForPipe, Births
      <3>3. c \in OfKinds(Calm)
        BY <3>2, StoppedTyped, Numbers DEF OfKinds, Calm, Kinds, Starts, ChunkerStops
      <3> HIDE DEF c
      <3>4. <<c>> \in Seq(OfKinds(Calm))
        BY <3>3, OfKindsSeq
      <3> QED BY <3>1, <3>4
    <2> QED BY <2>1, <2>3, <2>4, <2>5
  <1> QED BY <1>1, <1>2, <1>3, <1>4, LoopQuiet

LEMMA AdvancesTail ==
  ASSUME TypeOK, TypeOK', StartInv, LineInv, NEW p \in Pipes, Advances(p)
  PROVE  StartInv' /\ LineInv'
  <1>1. /\ UNCHANGED <<nrec, spoken, recording, chunkerVars>> /\ Runs("pipeline")
        /\ \/ UNCHANGED <<streamPc, streamGot, streamQueue, finalSeg>>
           \/ ResetStreaming
    BY DEF Advances, captureVars, userVars, historyOfUser
  <1>2. FrontKept
    BY <1>1, FrontSame, FrontReset
  <1>3. \E new : Queues(1, new) /\ \A i \in 1..Len(new) : new[i].kind = "joined"
    <2>1. CASE Works(p)
      <3>1. Queues(1, <<>>) /\ Len(<<>>) = 0
        BY <2>1 DEF Works
      <3> QED BY <3>1
    <2>2. CASE Stops(p)
      <3> DEFINE c == Callback("joined", p)
      <3>1. Queues(1, <<c>>) /\ c.kind = "joined"
        BY <2>2 DEF Stops, Callback
      <3> HIDE DEF c
      <3>2. \A i \in 1..Len(<<c>>) : <<c>>[i] = c
        OBVIOUS
      <3> QED BY <3>1, <3>2
    <2> QED BY <2>1, <2>2 DEF Advances
  <1>4. "joined" \in Calm /\ "pipeline" \notin Starts \union {"chunk"}
    BY DEF Calm, Kinds, Starts, ChunkerStops
  <1> QED BY <1>1, <1>2, <1>3, <1>4, QuietTail DEF Runs

LEMMA UserTail ==
  ASSUME TypeOK, TypeOK', Ours, StartInv, LineInv, HotkeyCancel \/ StopRecording
  PROVE  StartInv' /\ LineInv'
  <1>1. /\ UNCHANGED <<nrec, spoken, chunkerVars>>
        /\ UNCHANGED <<streamPc, streamGot, streamQueue, finalSeg>>
    BY DEF HotkeyCancel, CancelRecording, StopRecording, StopStarts, StopProceeds,
           StopTests, StopFlips, StopPosts, streamVars, orchestratorVars, userVars,
           historyOfUser
  <1>2. CASE HotkeyCancel
    <2>1. ~recording'
      BY <1>2 DEF HotkeyCancel, CancelRecording
    <2>2. PICK new : /\ Queues(0, new)
                     /\ \A i \in 1..Len(new) : new[i].kind \in {"stop_spawn", "cancel"}
      BY <1>2, CancelQueues
    <2>3. \A i \in 1..Len(new) : new[i].kind \in Calm \union ChunkerStops
      BY <2>2 DEF Calm, Kinds, Starts, ChunkerStops
    <2> QED BY <1>1, <2>1, <2>2, <2>3, FrontSame, QuietTail
  <1>3. ASSUME NEW t \in Threads, StopStarts(t) PROVE StartInv' /\ LineInv'
    <2>1. UNCHANGED <<ready, recording>>
      BY <1>3 DEF StopStarts, StopTests
    <2>2. CallSoon(<<>>) /\ <<>> \in Seq(OfKinds(Calm))
      BY <2>1, Numbers, OfKindsSeq DEF CallSoon
    <2> QED BY <1>1, <2>1, <2>2, FrontSame, SoonQuiet
  <1>4. ASSUME NEW t \in Threads, StopProceeds(t) PROVE StartInv' /\ LineInv'
    <2>1. ~recording'
      BY <1>4 DEF StopProceeds, StopFlips, StopPosts, Ours
    <2>2. PICK new : /\ Queues(0, new)
                     /\ \A i \in 1..Len(new) :
                          \/ new[i].kind = "stop_spawn"
                          \/ new[i] = Callback("finalize", nstop + 1)
      BY <1>4, StopQueues
    <2>3. \A i \in 1..Len(new) : new[i].kind \in Calm \union ChunkerStops
      BY <2>2 DEF Calm, Kinds, Starts, ChunkerStops, Callback
    <2> QED BY <1>1, <2>1, <2>2, <2>3, FrontSame, QuietTail
  <1> QED BY <1>2, <1>3, <1>4 DEF StopRecording

LEMMA ExternalTail ==
  ASSUME TypeOK, TypeOK', StartInv, LineInv, External \/ UNCHANGED vars
  PROVE  StartInv' /\ LineInv'
  <1>1. "pipeline" \in Calm /\ "stream" \in Calm /\ "error_timer" \in Calm
    BY DEF Calm, Kinds, Starts, ChunkerStops
  <1>2. ASSUME NEW p \in Pipes, CallCompletes(p) PROVE StartInv' /\ LineInv'
    <2>1. <<Wake(p)>> \in Seq(OfKinds(Calm))
      BY <1>1, CalmCallback DEF Wake, Pipes
    <2>2. /\ UNCHANGED <<chunkerVars, nrec, spoken, recording>> /\ CallSoon(<<Wake(p)>>)
          /\ UNCHANGED <<streamPc, streamGot, streamQueue, finalSeg>>
      BY <1>2 DEF CallCompletes, Completes, captureVars, userVars, historyOfUser,
                  orchestratorVars, streamVars
    <2> QED BY <2>1, <2>2, FrontSame, SoonQuiet
  <1>3. CASE PassCompletes
    <2>1. <<Callback("stream", streamGen)>> \in Seq(OfKinds(Calm))
      BY <1>1, CalmCallback DEF TypeOK, OrchestratorTypeOK, StreamTypeOK
    <2>2. /\ UNCHANGED <<chunkerVars, nrec, spoken, recording>> /\ StreamPassDone
          /\ CallSoon(<<Callback("stream", streamGen)>>)
      BY <1>3 DEF PassCompletes, StreamPassDone, captureVars, userVars, historyOfUser
    <2> QED BY <2>1, <2>2, FrontPass, SoonQuiet
  <1>4. CASE TimerExpires
    <2>1. <<Callback("error_timer", timerGen)>> \in Seq(OfKinds(Calm))
      BY <1>1, CalmCallback DEF TypeOK, OrchestratorTypeOK, TimerTypeOK
    <2>2. /\ UNCHANGED <<chunkerVars, nrec, spoken, recording>>
          /\ CallSoon(<<Callback("error_timer", timerGen)>>)
          /\ UNCHANGED <<streamPc, streamGot, streamQueue, finalSeg>>
      BY <1>4 DEF TimerExpires, TimerElapses, captureVars, userVars, historyOfUser,
                  streamVars
    <2> QED BY <2>1, <2>2, FrontSame, SoonQuiet
  <1>5. CASE UNCHANGED vars
    <2>1. /\ UNCHANGED <<chunkerVars, nrec, spoken, recording, ready>>
          /\ UNCHANGED <<streamPc, streamGot, streamQueue, finalSeg>>
      BY <1>5 DEF vars, captureVars, userVars, historyOfUser, orchestratorVars,
                  streamVars
    <2>2. CallSoon(<<>>) /\ <<>> \in Seq(OfKinds(Calm))
      BY <2>1, Numbers, OfKindsSeq DEF CallSoon
    <2> QED BY <2>1, <2>2, FrontSame, SoonQuiet
  <1> QED BY <1>2, <1>3, <1>4, <1>5, ChunkerTail DEF External, IntervalElapses

LEMMA TailInit == Init => StartInv /\ LineInv
  <1> SUFFICES ASSUME Init PROVE StartInv /\ LineInv
    OBVIOUS
  <1>1. ready = <<>> /\ Len(ready) = 0 /\ nrec = 0 /\ ~recording
        /\ \A r \in Recs : stopWaits[r] = <<>>
    BY DEF Init, CaptureInit, ChunkerInit
  <1> QED BY <1>1 DEF StartInv, LineInv, Runs

LEMMA TailStep ==
  ASSUME TypeOK, TypeOK', Ours, WholeInv, StartInv, LineInv,
         ~Hasty, StreamingASR, Streaming, [Next]_vars
  PROVE  StartInv' /\ LineInv'
  <1>1. CASE LoopStep
    <2>1. CASE ChunkerStep
      <3>1. UNCHANGED <<captureVars, orchestratorVars, userVars>>
        BY <2>1 DEF ChunkerStep
      <3>2. ASSUME NEW r \in Recs, Start(r) PROVE StartInv' /\ LineInv'
        BY <3>1, <3>2, StartTail
      <3>3. 1 \in Recs
        BY BoundsAssumption DEF Recs
      <3>4. CASE StopSpawn \/ StopBegin \/ StopFinish
        BY <3>1, <3>3, <3>4, ChunkerTail
      <3>5. ASSUME NEW r \in Recs, LoopEnds(r) \/ LoopSleeps(r)
            PROVE  StartInv' /\ LineInv'
        BY <3>1, <3>5, ChunkerTail
      <3> QED BY <2>1, <3>2, <3>4, <3>5 DEF ChunkerStep
    <2>2. CASE CaptureStep
      BY <2>2, HandlersTail
         DEF CaptureStep, FinalizeStop, captureVars, userVars, historyOfUser
    <2>3. CASE OrchestratorStep
      <3>1. ~IgnoreAudioChunk
        BY DEF IgnoreAudioChunk
      <3>2. /\ UNCHANGED <<captureVars, chunkerVars, userVars, spoken>>
            /\ \/ Prepare \/ OnAudioChunk
               \/ OnRecordingStopped \/ OnPipelineDone \/ TimerFires
               \/ StreamConsumes \/ StreamReachesEnd \/ StreamFinal \/ StreamFails
               \/ StreamUnwinds
               \/ \E p \in Pipes : PipelineStep(p) /\ Advances(p)
        BY <2>3, <3>1, PipelineStepAdvances DEF OrchestratorStep, userVars, historyOfUser
      <3> QED
        BY <3>2, PrepareTail, OnAudioChunkTail, HandlersTail, StreamTail, AdvancesTail
    <2>4. CASE LoopCancel
      BY <2>4, HandlersTail DEF LoopCancel
    <2> QED BY <1>1, <2>1, <2>2, <2>3, <2>4 DEF LoopStep
  <1> QED
    BY <1>1, HotkeyStartTail, UserTail, SpeakTail, ExternalTail DEF Next

\* Where the final segment is read, it is a tail of the recording.
LEMMA SegmentOfLine ==
  ASSUME TypeOK, StartInv, LineInv
  PROVE  SegmentIsPart
  <1> SUFFICES ASSUME StreamingASR, Runs("pipeline"), finalSeg # <<>>, nrec # 0
               PROVE  IsPart(finalSeg[1])
    BY DEF SegmentIsPart
  <1>1. ~Starting
    BY HeadStarts DEF Runs
  <1>2. Closed
    BY <1>1 DEF LineInv, Fronted, Front
  <1> QED BY <1>2 DEF Closed, IsPart, PartOf, Heard

TailInv == StreamingASR => StartInv /\ LineInv

\* No insertion spans two recordings or has a gap: the text of a pipeline is a
\* tail of what its recording's microphone heard (in streaming mode the first
\* blocks may come before the chunker has started; the chunker, its flush, the
\* stream task's queue and the final pass lose or reorder nothing after it).
\* The two flags of the model come from one: main.py creates the chunker when
\* asr.streaming is set, and the same setting is what supports_streaming() of
\* the provider returns.
THEOREM InsertedTailAlways ==
  ASSUME ~Hasty, "asr" \notin Outcomes, StreamingASR => Streaming
  PROVE  Spec => []InsertedTail
  <1>1. ASSUME TypeOK, TypeOK', Ours, WholeInv, TailInv, [Next]_vars
        PROVE  Ours' /\ WholeInv' /\ TailInv'
    <2>1. SegmentIsPart
      BY <1>1, SegmentOfLine DEF TailInv, SegmentIsPart
    <2> QED BY <1>1, <2>1, OursStep, WholeStep, TailStep DEF TailInv
  <1>2. WholeInv => InsertedTail
    BY DEF WholeInv, Right, PartOf, Spoilt, InsertedTail
  <1>3. Init => TailInv
    BY TailInit DEF TailInv
  <1> QED BY <1>1, <1>2, <1>3, OursInit, WholeInvInit, TypeCorrect, PTL DEF Spec

-----------------------------------------------------------------------------
(***************************************************************************)
(* Cancelling.  When only the hotkey stops a recording (~AutoStop) each    *)
(* recording has one pipeline, and _pipeline_task names whichever one is   *)
(* in flight (OneEach): cancel() reaches it, and nothing brings it back    *)
(* (CutInv).                                                               *)
(***************************************************************************)

OneEach ==
  /\ \A p, q \in 1..nstop : origin[p] = origin[q] => p = q
  /\ stopper["audio"] = "out"
  /\ stopper["hotkey"] # "out" => \A p \in 1..nstop : origin[p] # nrec
  /\ stopper["hotkey"] = "tested" => recording
  /\ \A p \in Pipes : pc[p] \in InFlight => handle = p

\* Pipelines that will insert nothing, or nothing more.
Idles == {"killed", "cancelled", "ended", "gone"}

CutInv ==
  /\ \A p \in cut : pc[p] \in Idles
  /\ \A i \in Insertions : out[i].pipe \notin cut

CancelInv == OneEach /\ CutInv

LEMMA OneEachInit == ~AutoStop /\ Init => OneEach
  <1> SUFFICES ASSUME Init PROVE OneEach
    OBVIOUS
  <1> QED
    BY DEF Init, CaptureInit, OrchestratorInit, OneEach, Threads, InFlight

LEMMA CutInit == Init => CutInv
  <1> SUFFICES ASSUME Init PROVE CutInv
    OBVIOUS
  <1>1. Len(out) = 0 /\ cut = {}
    BY DEF Init, OrchestratorInit
  <1> QED BY <1>1 DEF CutInv, Insertions

\* A step that starts no pipeline and stops no recording.
LEMMA OneEachKept ==
  ASSUME OneEach, UNCHANGED <<nrec, nstop, origin, stopper, handle>>,
         recording' = recording \/ stopper["hotkey"] = "out",
         \A p \in Pipes : pc'[p] \in InFlight => pc[p] \in InFlight
  PROVE  OneEach'
  BY DEF OneEach

LEMMA CutKept ==
  ASSUME TypeOK, CutInv, UNCHANGED cut,
         \A p \in Pipes : pc[p] \in Idles => pc'[p] \in Idles,
         \/ UNCHANGED out
         \/ \E p \in Pipes : /\ pc[p] \notin Idles
                             /\ out' = Append(out, [pipe |-> p, text |-> text[p]])
  PROVE  CutInv'
  <1>0. out \in Seq([pipe : Pipes, text : Audio]) /\ cut \subseteq Pipes
        /\ text \in [Pipes -> Audio]
    BY Numbers DEF TypeOK, OrchestratorTypeOK, HistoryTypeOK
  <1>1. CASE UNCHANGED out
    BY <1>0, <1>1 DEF CutInv, Insertions
  <1>2. ASSUME NEW p \in Pipes, pc[p] \notin Idles,
               out' = Append(out, [pipe |-> p, text |-> text[p]])
        PROVE  CutInv'
    <2> DEFINE o == [pipe |-> p, text |-> text[p]]
    <2>1. o \in [pipe : Pipes, text : Audio] /\ o.pipe = p
      BY <1>0
    <2>2. p \notin cut
      BY <1>2 DEF CutInv
    <2> HIDE DEF o
    <2>3. \A i \in 1..Len(out') : (i \in 1..Len(out) /\ out'[i] = out[i]) \/ out'[i] = o
      BY <1>0, <1>2, <2>1 DEF o
    <2>4. \A i \in 1..Len(out') : out'[i].pipe \notin cut
      BY <2>1, <2>2, <2>3 DEF CutInv, Insertions
    <2> QED BY <1>0, <2>4 DEF CutInv, Insertions
  <1> QED BY <1>1, <1>2

LEMMA AsideCancel ==
  ASSUME TypeOK, CancelInv, Aside
  PROVE  CancelInv'
  <1>1. /\ UNCHANGED <<nrec, nstop, origin, stopper, handle, recording, out, cut>>
        /\ \A p \in Pipes : /\ pc'[p] \in InFlight => pc[p] \in InFlight
                            /\ pc[p] \in Idles => pc'[p] \in Idles
    BY DEF Aside, captureVars, userVars, historyOfUser, InFlight, PipePcs, Idles
  <1> QED BY <1>1, OneEachKept, CutKept DEF CancelInv

LEMMA AdvancesCancel ==
  ASSUME TypeOK, CancelInv, NEW p \in Pipes, Advances(p)
  PROVE  CancelInv'
  <1>0. UNCHANGED <<nrec, nstop, origin, stopper, handle, recording, cut>>
    BY DEF Advances, captureVars, userVars, historyOfUser
  <1>1. /\ \A q \in Pipes : /\ pc'[q] \in InFlight => pc[q] \in InFlight
                            /\ pc[q] \in Idles => pc'[q] \in Idles
        /\ \/ UNCHANGED out
           \/ /\ pc[p] \notin Idles
              /\ out' = Append(out, [pipe |-> p, text |-> text[p]])
    <2>1. CASE Works(p)
      <3>1. PICK x \in {"stream"} \union Holding : pc' = [pc EXCEPT ![p] = x]
        BY <2>1 DEF Works
      <3>2. /\ pc[p] \in InFlight /\ pc[p] \notin Idles /\ UNCHANGED out
        BY <2>1 DEF Works, Holding, Inserting, InFlight, PipePcs, Idles
      <3> QED BY <3>1, <3>2, Numbers
    <2>2. CASE Stops(p)
      <3>1. /\ pc' = [pc EXCEPT ![p] = "ended"]
            /\ \/ UNCHANGED out
               \/ /\ pc[p] \in {"insert", "clip"}
                  /\ out' = Append(out, [pipe |-> p, text |-> text[p]])
        BY <2>2 DEF Stops
      <3> QED BY <3>1, Numbers DEF InFlight, PipePcs, Idles
    <2> QED BY <2>1, <2>2 DEF Advances
  <1> QED BY <1>0, <1>1, OneEachKept, CutKept DEF CancelInv

\* The pipeline a recording is stopped for is new.
LEMMA OnRecordingStoppedCancel ==
  ASSUME TypeOK, Ours, Numbered, CancelInv, OnRecordingStopped,
         UNCHANGED <<captureVars, userVars>>
  PROVE  CancelInv'
  <1> DEFINE p == Head(ready).id
  <1>1. /\ Runs("stopped") /\ pc' = [pc EXCEPT ![p] = "new"] /\ handle' = p
        /\ UNCHANGED <<nrec, nstop, origin, stopper, recording, cut, out>>
    BY DEF OnRecordingStopped, captureVars, userVars, historyOfUser, historyVars
  <1>2. Current(p) /\ p \in Pipes /\ pc[p] = "none"
    BY <1>1, HeadIsFirst, Numbers DEF Ours, Current, ForPipe, Births, Numbered, Announces
  <1> HIDE DEF p
  <1>3. \A q \in Pipes : pc[q] \in InFlight => q = p
    BY <1>2 DEF Ours, Current, CancelInv, OneEach, InFlight
  <1>4. OneEach'
    BY <1>1, <1>3, Numbers DEF CancelInv, OneEach
  <1>5. \A q \in Pipes : pc[q] \in Idles => pc'[q] \in Idles
    BY <1>1, <1>2, Numbers DEF Idles
  <1> QED BY <1>1, <1>4, <1>5, CutKept DEF CancelInv

LEMMA OnPipelineDoneCancel ==
  ASSUME TypeOK, Ours, CancelInv, OnPipelineDone,
         UNCHANGED <<captureVars, userVars>>
  PROVE  CancelInv'
  <1> DEFINE p == Head(ready).id
  <1>1. /\ Runs("joined") /\ pc' = [pc EXCEPT ![p] = "gone"] /\ handle' = 0
        /\ UNCHANGED <<nrec, nstop, origin, stopper, recording, cut, out>>
    BY DEF OnPipelineDone, captureVars, userVars, historyOfUser, historyVars
  <1>2. Current(p) /\ p \in Pipes
    BY <1>1, HeadIsFirst, Numbers DEF Ours, Current, ForPipe
  <1> HIDE DEF p
  <1>3. \A q \in Pipes : pc[q] \in InFlight => q = p
    BY <1>2 DEF Ours, Current, CancelInv, OneEach, InFlight
  <1>4. \A q \in Pipes : pc'[q] \notin InFlight
    BY <1>1, <1>3, Numbers DEF InFlight
  <1>5. OneEach'
    BY <1>1, <1>4 DEF CancelInv, OneEach
  <1>6. \A q \in Pipes : pc[q] \in Idles => pc'[q] \in Idles
    BY <1>1, Numbers DEF Idles
  <1> QED BY <1>1, <1>5, <1>6, CutKept DEF CancelInv

LEMMA TimerFiresCancel ==
  ASSUME TypeOK, CancelInv, TimerFires, UNCHANGED <<captureVars, userVars>>
  PROVE  CancelInv'
  <1>1. UNCHANGED <<nrec, nstop, origin, stopper, handle, recording, out, cut, pc>>
    BY DEF TimerFires, captureVars, userVars, historyOfUser, historyVars, pipeVars
  <1> QED BY <1>1, OneEachKept, CutKept DEF CancelInv

\* The cancel hotkey reaches the orchestrator: what it cuts short is where it
\* will not come back from.
LEMMA LoopCancelCancel ==
  ASSUME TypeOK, Numbered, InsertedPast, CancelInv, LoopCancel
  PROVE  CancelInv'
  <1>0. /\ pc \in [Pipes -> PipePcs] /\ 1..nstop \subseteq Pipes
        /\ out \in Seq([pipe : Pipes, text : Audio])
        /\ cut \subseteq Pipes /\ cut' \subseteq Pipes /\ text \in [Pipes -> Audio]
    BY Numbers DEF LoopCancel, TypeOK, OrchestratorTypeOK, HistoryTypeOK
  <1>1. /\ Cancel /\ UNCHANGED <<nrec, nstop, origin, stopper, handle, recording>>
    BY DEF LoopCancel, Cancel, captureVars
  <1>2. \A p \in cut' : \/ p \in cut
                        \/ /\ pc[p] \in InFlight \ Inserting
                           /\ \A i \in 1..Len(out) : out[i].pipe # p
    BY <1>0 DEF LoopCancel
  <1>3. \A p \in Pipes : p \in cut' /\ p \notin cut => handle = p
    BY <1>2 DEF CancelInv, OneEach
  <1>4. CASE handle # 0 /\ pc[handle] \in InFlight
    <2>1. handle \in Pipes
      BY <1>4, BoundsAssumption DEF Pipes, TypeOK, OrchestratorTypeOK, SharedTypeOK
    <2>2. /\ pc'[handle] \in {"killed", "cancelled"}
          /\ \A q \in Pipes : q # handle => pc'[q] = pc[q]
          /\ \/ UNCHANGED out
             \/ /\ pc[handle] \in {"insert", "clip"}
                /\ out' = Append(out, [pipe |-> handle, text |-> text[handle]])
      BY <1>0, <1>1, <1>4, <2>1 DEF Cancel
    <2>3. OneEach'
      <3>1. \A q \in Pipes : pc'[q] \in InFlight => pc[q] \in InFlight
        BY <1>4, <2>2
      <3> QED BY <1>1, <3>1, OneEachKept DEF CancelInv
    <2>4. \A p \in cut' : pc'[p] \in Idles
      BY <1>0, <1>2, <1>3, <2>1, <2>2 DEF CancelInv, CutInv, Idles
    <2>5. \A i \in 1..Len(out) : out[i].pipe \notin cut'
      BY <1>2 DEF CancelInv, CutInv, Insertions
    <2>6. pc[handle] \in {"insert", "clip"} => handle \notin cut'
      BY <1>2 DEF CancelInv, CutInv, Idles, Inserting
    <2>7. \A i \in 1..Len(out') : out'[i].pipe \notin cut'
      <3>1. CASE UNCHANGED out
        BY <2>5, <3>1
      <3>2. CASE /\ pc[handle] \in {"insert", "clip"}
                 /\ out' = Append(out, [pipe |-> handle, text |-> text[handle]])
        <4> DEFINE o == [pipe |-> handle, text |-> text[handle]]
        <4>1. o \in [pipe : Pipes, text : Audio] /\ o.pipe = handle
          BY <1>0, <2>1
        <4> HIDE DEF o
        <4>2. \A i \in 1..Len(out') : (i \in 1..Len(out) /\ out'[i] = out[i]) \/ out'[i] = o
          BY <1>0, <3>2, <4>1 DEF o
        <4> QED BY <2>5, <2>6, <3>2, <4>1, <4>2
      <3> QED BY <2>2, <3>1, <3>2
    <2> QED BY <2>3, <2>4, <2>7 DEF CancelInv, CutInv, Insertions
  <1>5. CASE ~(handle # 0 /\ pc[handle] \in InFlight)
    <2>1. UNCHANGED <<pc, out>>
      BY <1>1, <1>5 DEF Cancel
    <2>2. cut' \subseteq cut
      BY <1>0, <1>2, <1>3, <1>5, BoundsAssumption DEF Pipes
    <2> QED BY <1>1, <2>1, <2>2, OneEachKept DEF CancelInv, CutInv, Insertions
  <1> QED BY <1>4, <1>5

\* Capture and the hotkeys.
LEMMA UserCancel ==
  ASSUME TypeOK, Ours, CancelInv, ~AutoStop, ~Hasty,
         \/ HotkeyStart \/ HotkeyCancel \/ StopRecording \/ Speak \/ CaptureStep
  PROVE  CancelInv'
  <1>1. UNCHANGED <<pc, out, handle, cut>>
    BY DEF HotkeyStart, HotkeyCancel, StopRecording, StopStarts, StopProceeds, Speak,
           CaptureStep, orchestratorVars, sharedVars, pipeVars, historyVars, userVars,
           historyOfUser
  <1>2. CutInv'
    BY <1>1, CutKept DEF CancelInv
  <1>3. CASE HotkeyStart
    <2>1. /\ UNCHANGED <<nstop, origin, stopper>> /\ stopper["hotkey"] = "out"
      BY <1>3 DEF HotkeyStart, HotkeyFree, StartRecording, userVars, historyOfUser
    <2> QED BY <1>1, <1>2, <2>1 DEF CancelInv, OneEach
  <1>4. CASE HotkeyCancel
    <2>1. /\ UNCHANGED <<nrec, nstop, origin, stopper>> /\ stopper["hotkey"] = "out"
      BY <1>4 DEF HotkeyCancel, HotkeyFree, CancelRecording
    <2> QED BY <1>1, <1>2, <2>1, OneEachKept DEF CancelInv
  <1>5. CASE Speak \/ CaptureStep
    <2>1. UNCHANGED <<nrec, nstop, origin, stopper, recording>>
      BY <1>5 DEF Speak, AudioBlock, CaptureStep, FinalizeStop, captureVars, userVars,
         historyOfUser
    <2> QED BY <1>1, <1>2, <2>1, OneEachKept DEF CancelInv
  <1>6. CASE StopRecording
    <2>1. PICK t \in Threads : StopStarts(t) \/ StopProceeds(t)
      BY <1>6 DEF StopRecording
    <2>2. stopper \in [Threads -> StopperPcs] /\ Threads = {"hotkey", "audio"}
      BY Numbers DEF Threads
    <2>3. CASE StopStarts(t)
      <3>1. /\ t = "hotkey" /\ recording
            /\ stopper' = [stopper EXCEPT ![t] = "tested"]
            /\ UNCHANGED <<nrec, nstop, origin, recording>>
        BY <2>2, <2>3 DEF StopStarts, StopTests, userVars, historyOfUser
      <3>2. stopper'["hotkey"] = "tested" /\ stopper'["audio"] = stopper["audio"]
        BY <2>2, <3>1
      <3>3. \A p \in 1..nstop : origin[p] # nrec
        BY <3>1 DEF Ours
      <3> QED BY <1>1, <1>2, <3>1, <3>2, <3>3 DEF CancelInv, OneEach
    <2>4. CASE StopFlips(t) /\ UNCHANGED origin
      <3>1. /\ t = "hotkey" /\ stopper["hotkey"] = "tested"
            /\ stopper' = [stopper EXCEPT ![t] = "flipped"]
            /\ UNCHANGED <<nrec, nstop, origin>>
        BY <2>2, <2>4 DEF StopFlips, CancelInv, OneEach
      <3>2. stopper'["hotkey"] = "flipped" /\ stopper'["audio"] = stopper["audio"]
        BY <2>2, <3>1
      <3> QED BY <1>1, <1>2, <3>1, <3>2 DEF CancelInv, OneEach
    <2>5. CASE StopPosts(t) /\ origin' = [origin EXCEPT ![nstop + 1] = nrec]
      <3>1. /\ t = "hotkey" /\ stopper["hotkey"] = "flipped"
            /\ stopper' = [stopper EXCEPT ![t] = "out"]
            /\ nstop' = nstop + 1 /\ nstop < MaxPipes /\ UNCHANGED nrec
        BY <2>2, <2>5 DEF StopPosts, CancelInv, OneEach
      <3>2. stopper'["hotkey"] = "out" /\ stopper'["audio"] = stopper["audio"]
        BY <2>2, <3>1
      <3>3. nstop + 1 \in Pipes
        BY <3>1, Numbers, BoundsAssumption DEF Pipes
      <3>4. /\ origin'[nstop + 1] = nrec
            /\ \A p \in 1..nstop : origin'[p] = origin[p] /\ origin[p] # nrec
        BY <2>5, <3>1, <3>3, Numbers DEF CancelInv, OneEach
      <3>5. \A p, q \in 1..nstop' : origin'[p] = origin'[q] => p = q
        <4>1. \A p \in 1..nstop' : p = nstop + 1 \/ p \in 1..nstop
          BY <3>1, Numbers
        <4>2. \A p, q \in 1..nstop : origin[p] = origin[q] => p = q
          BY DEF CancelInv, OneEach
        <4> QED BY <3>4, <4>1, <4>2
      <3> QED BY <1>1, <1>2, <3>1, <3>2, <3>5 DEF CancelInv, OneEach
    <2> QED BY <2>1, <2>3, <2>4, <2>5 DEF StopProceeds
  <1> QED BY <1>3, <1>4, <1>5, <1>6

LEMMA CancelStep ==
  ASSUME TypeOK, Ours, Numbered, InsertedPast, CancelInv, ~AutoStop, ~Hasty, [Next]_vars
  PROVE  CancelInv'
  BY EveryStep, AsideCancel, AdvancesCancel, OnRecordingStoppedCancel,
     OnPipelineDoneCancel, TimerFiresCancel, LoopCancelCancel, UserCancel

\* A dictation that was running, and had not begun to insert, when the cancel
\* hotkey reached the orchestrator inserts nothing (cancel, _run_pipeline).
THEOREM CancelledAlways ==
  ASSUME ~Hasty, ~AutoStop
  PROVE  Spec => []CancelledNotInserted
  <1>1. TypeOK /\ Ours /\ InsertedInv /\ CancelInv /\ [Next]_vars => Ours' /\ CancelInv'
    BY OursStep, CancelStep DEF InsertedInv
  <1>2. Init => CancelInv
    BY OneEachInit, CutInit DEF CancelInv
  <1>3. CancelInv => CancelledNotInserted
    BY DEF CancelInv, CutInv, CancelledNotInserted
  <1> QED
    BY <1>1, <1>2, <1>3, OursInit, InsertedInit, InsertedStep, TypeCorrect, PTL DEF Spec

-----------------------------------------------------------------------------
(***************************************************************************)
(* A dictation already stopped when it is cancelled, in batch mode: what   *)
(* is left of it in the queue is empty.  The cancel hotkey empties the     *)
(* buffer before it schedules Orchestrator.cancel, so a RecordingStopped   *)
(* that the loop publishes after that carries nothing (CancelClears), and  *)
(* its pipeline has nothing to insert (Harmless).                          *)
(***************************************************************************)

CancelClears ==
  /\ \A i \in 1..Len(ready) : ready[i].kind = "cancel" => ~recording /\ buffer = <<>>
  /\ \A i, j \in 1..Len(ready) :
       i < j /\ ready[i].kind = "cancel" /\ ready[j].kind = "stopped"
         => ready[j].data = <<>>

\* A callback that starts no pipeline with something to insert.
Empties(c) ==
  /\ c.kind = "finalize" => buffer = <<>>
  /\ c.kind = "stopped" => c.data = <<>>

Harmless(p) ==
  \/ pc[p] \in Idles
  \/ pc[p] = "none" /\ \A i \in 1..Len(ready) : ready[i].id = p => Empties(ready[i])
  \/ pc[p] = "new" /\ (audio = <<>> \/ audio[1] = <<>>)
  \/ pc[p] \in Holding /\ text[p] = <<>>

RevokedInv ==
  /\ \A p \in revoked : p <= nstop /\ Harmless(p)
  /\ \A i \in Insertions : out[i].pipe \notin revoked

\* No step but the hotkey's cancels.
LEMMA ClearsKept ==
  ASSUME TypeOK, CancelClears, NEW d \in {0, 1}, NEW new, Queues(d, new),
         recording' => recording, buffer' \in {buffer, <<>>},
         \A i \in 1..Len(new) : /\ new[i].kind # "cancel"
                                /\ new[i].kind = "stopped" => new[i].data = buffer
  PROVE  CancelClears'
  <1>0. Len(ready) \in Nat /\ Len(new) \in Nat
    BY Numbers DEF Queues
  <1>1. ASSUME NEW i \in 1..Len(ready'), ready'[i].kind = "cancel"
        PROVE  i + d \in 1..Len(ready) /\ ready'[i] = ready[i + d]
    BY <1>1 DEF Queues, Shifted
  <1>2. \A i \in 1..Len(ready') : ready'[i].kind = "cancel" => ~recording' /\ buffer' = <<>>
    BY <1>1 DEF CancelClears
  <1>3. ASSUME NEW i \in 1..Len(ready'), NEW j \in 1..Len(ready'), i < j,
               ready'[i].kind = "cancel", ready'[j].kind = "stopped"
        PROVE  ready'[j].data = <<>>
    <2>1. i + d \in 1..Len(ready) /\ ready'[i] = ready[i + d] /\ buffer = <<>>
      BY <1>1, <1>3 DEF CancelClears
    <2>2. CASE j + d \in 1..Len(ready) /\ ready'[j] = ready[j + d]
      BY <1>0, <1>3, <2>1, <2>2 DEF CancelClears
    <2>3. CASE \E n \in 1..Len(new) : ready'[j] = new[n]
      BY <1>3, <2>1, <2>3
    <2> QED BY <2>2, <2>3, OldOrNew
  <1> QED BY <1>2, <1>3 DEF CancelClears

\* What a step may do to a harmless pipeline.
Meek(p) ==
  \/ pc'[p] \in Idles
  \/ /\ pc'[p] = pc[p] /\ text'[p] = text[p]
     /\ pc[p] = "new" => audio' \in {audio, <<>>}
  \/ pc'[p] = "new" /\ audio' = <<<<>>>>
  \/ pc'[p] \in Holding /\ text'[p] = <<>>

LEMMA HarmlessKept ==
  ASSUME TypeOK, NEW p \in Pipes, Harmless(p), Meek(p), NEW d \in {0, 1}, NEW new,
         Queues(d, new),
         pc[p] = "none" =>
           /\ \A i \in 1..Len(ready) :
                ready[i].id = p /\ ready[i].kind = "finalize" => buffer' \in {buffer, <<>>}
           /\ \A i \in 1..Len(new) :
                new[i].id = p => new[i].kind # "finalize"
                                 /\ (new[i].kind = "stopped" => new[i].data = <<>>)
  PROVE  Harmless(p)'
  <1>1. CASE pc'[p] \in Idles
    BY <1>1 DEF Harmless
  <1>2. CASE pc'[p] = "new" /\ audio' = <<<<>>>>
    BY <1>2 DEF Harmless
  <1>3. CASE pc'[p] \in Holding /\ text'[p] = <<>>
    BY <1>3 DEF Harmless
  <1>4. CASE /\ pc'[p] = pc[p] /\ text'[p] = text[p]
             /\ pc[p] = "new" => audio' \in {audio, <<>>}
    <2>1. CASE pc[p] = "none"
      <3>1. \A i \in 1..Len(ready) : ready[i].id = p => Empties(ready[i])
        BY <2>1 DEF Harmless, Idles, Holding, Inserting
      <3>2. ASSUME NEW i \in 1..Len(ready'), ready'[i].id = p
            PROVE  /\ ready'[i].kind = "finalize" => buffer' = <<>>
                   /\ ready'[i].kind = "stopped" => ready'[i].data = <<>>
        <4>1. CASE \E j \in 1..Len(ready) : ready'[i] = ready[j]
          BY <2>1, <3>1, <3>2, <4>1 DEF Empties
        <4>2. CASE \E j \in 1..Len(new) : ready'[i] = new[j]
          BY <2>1, <3>2, <4>2
        <4> QED BY <4>1, <4>2, OldOrNew
      <3> QED BY <1>4, <2>1, <3>2 DEF Harmless, Empties
    <2>2. CASE pc[p] # "none"
      BY <1>4, <2>2 DEF Harmless
    <2> QED BY <2>1, <2>2
  <1> QED BY <1>1, <1>2, <1>3, <1>4 DEF Meek

LEMMA RevokedOut ==
  ASSUME TypeOK, RevokedInv, UNCHANGED revoked,
         \/ UNCHANGED out
         \/ \E p \in Pipes : /\ p \notin revoked
                             /\ out' = Append(out, [pipe |-> p, text |-> text[p]])
  PROVE  (\A i \in Insertions : out[i].pipe \notin revoked)'
  <1>0. out \in Seq([pipe : Pipes, text : Audio]) /\ text \in [Pipes -> Audio]
    BY Numbers DEF TypeOK, OrchestratorTypeOK, HistoryTypeOK
  <1>1. CASE UNCHANGED out
    BY <1>1 DEF RevokedInv, Insertions
  <1>2. ASSUME NEW p \in Pipes, p \notin revoked,
               out' = Append(out, [pipe |-> p, text |-> text[p]])
        PROVE  (\A i \in Insertions : out[i].pipe \notin revoked)'
    <2> DEFINE o == [pipe |-> p, text |-> text[p]]
    <2>1. o \in [pipe : Pipes, text : Audio] /\ o.pipe = p
      BY <1>0
    <2> HIDE DEF o
    <2>2. \A i \in 1..Len(out') : (i \in 1..Len(out) /\ out'[i] = out[i]) \/ out'[i] = o
      BY <1>0, <1>2, <2>1 DEF o
    <2>3. \A i \in 1..Len(out') : out'[i].pipe \notin revoked
      BY <1>2, <2>1, <2>2 DEF RevokedInv, Insertions
    <2> QED BY <2>3 DEF Insertions
  <1> QED BY <1>1, <1>2

\* A step that schedules no RecordingStopped and hears nothing.
LEMMA RevokedKept ==
  ASSUME TypeOK, RevokedInv, CancelClears, UNCHANGED <<revoked, nstop>>,
         buffer' \in {buffer, <<>>}, recording' => recording,
         NEW d \in {0, 1}, NEW new, Queues(d, new),
         \A i \in 1..Len(new) : new[i].kind \notin Births \union {"cancel"},
         \A p \in revoked : Meek(p),
         \/ UNCHANGED out
         \/ \E p \in Pipes : /\ p \notin revoked
                             /\ out' = Append(out, [pipe |-> p, text |-> text[p]])
  PROVE  RevokedInv' /\ CancelClears'
  <1>1. CancelClears'
    BY ClearsKept DEF Births
  <1>2. (\A i \in Insertions : out[i].pipe \notin revoked)'
    BY RevokedOut
  <1>3. ASSUME NEW p \in revoked PROVE p <= nstop' /\ Harmless(p)'
    <2>1. p \in Pipes /\ p <= nstop /\ Harmless(p) /\ Meek(p)
      BY <1>3 DEF RevokedInv, TypeOK
    <2>2. Harmless(p)'
      BY <2>1, HarmlessKept DEF Births
    <2> QED BY <2>1, <2>2
  <1>4. \A p \in revoked' : p <= nstop' /\ Harmless(p)'
    BY <1>3
  <1> QED BY <1>1, <1>2, <1>4 DEF RevokedInv

RevokeInv == RevokedInv /\ CancelClears

LEMMA RevokeInit == Init => RevokeInv
  <1> SUFFICES ASSUME Init PROVE RevokeInv
    OBVIOUS
  <1>1. Len(out) = 0 /\ revoked = {} /\ Len(ready) = 0
    BY DEF Init, OrchestratorInit
  <1> QED BY <1>1 DEF RevokeInv, RevokedInv, CancelClears, Insertions

-----------------------------------------------------------------------------

LEMMA AsideRevoked ==
  ASSUME TypeOK, WholeInv, RevokeInv, ~StreamingASR, Aside
  PROVE  RevokeInv'
  <1>1. PICK d \in {0, 1} : \E new : Queues(d, new) /\ Plain(new)
    BY DEF Aside
  <1>2. PICK new : Queues(d, new) /\ Plain(new)
    BY <1>1
  <1>3. \A i \in 1..Len(new) : new[i].kind \notin Births \union {"cancel"}
    BY <1>2 DEF Plain, Births
  <1>4. /\ UNCHANGED <<recording, buffer, nstop, audio, text, out, revoked>>
        /\ \A p \in Pipes : pc'[p] = pc[p]
    BY DEF Aside, captureVars, userVars, historyOfUser, WholeInv
  <1>5. \A p \in revoked : Meek(p)
    BY <1>4 DEF Meek, TypeOK
  <1>6. buffer' \in {buffer, <<>>} /\ (recording' => recording)
    BY <1>4
  <1> QED BY <1>2, <1>3, <1>4, <1>5, <1>6, RevokedKept DEF RevokeInv

LEMMA AdvancesRevoked ==
  ASSUME TypeOK, WholeInv, RevokeInv, ~StreamingASR, "asr" \notin Outcomes,
         NEW p \in Pipes, Advances(p)
  PROVE  RevokeInv'
  <1>1. /\ UNCHANGED <<recording, buffer, nstop, audio, revoked>>
        /\ buffer' \in {buffer, <<>>} /\ (recording' => recording)
    BY DEF Advances, captureVars, userVars, historyOfUser
  <1>2. /\ pc[p] \notin {"stream", "streamed"} /\ pc \in [Pipes -> PipePcs]
        /\ text \in [Pipes -> Audio] /\ revoked \subseteq Pipes
    BY Numbers DEF WholeInv, TypeOK
  <1>3. CASE Works(p)
    <2>1. PICK x \in Holding :
            /\ pc' = [pc EXCEPT ![p] = x]
            /\ \/ /\ pc[p] = "new" /\ audio # <<>>
                  /\ text' = [text EXCEPT ![p] = audio[1]]
               \/ pc[p] \in Holding /\ UNCHANGED text
      BY <1>2, <1>3 DEF Works
    <2>2. \A q \in Pipes : q # p => pc'[q] = pc[q] /\ text'[q] = text[q]
      BY <1>2, <2>1
    <2>3. p \in revoked => text'[p] = <<>> /\ pc'[p] = x
      <3>1. p \in revoked => Harmless(p)
        BY DEF RevokeInv, RevokedInv
      <3> QED BY <1>2, <2>1, <3>1 DEF Harmless, Idles, Holding, Inserting
    <2>4. \A q \in revoked : Meek(q)
      BY <1>1, <1>2, <2>1, <2>2, <2>3 DEF Meek
    <2>5. \A i \in 1..Len(<<>>) : <<>>[i].kind \notin Births \union {"cancel"}
      OBVIOUS
    <2>6. Queues(1, <<>>) /\ UNCHANGED out
      BY <1>3 DEF Works
    <2> QED BY <1>1, <2>4, <2>5, <2>6, RevokedKept DEF RevokeInv
  <1>4. CASE Stops(p)
    <2> DEFINE c == Callback("joined", p)
    <2>1. /\ Queues(1, <<c>>) /\ pc' = [pc EXCEPT ![p] = "ended"] /\ UNCHANGED text
          /\ \/ UNCHANGED out
             \/ /\ pc[p] \in {"insert", "clip"} /\ text[p] # <<>>
                /\ out' = Append(out, [pipe |-> p, text |-> text[p]])
      BY <1>4 DEF Stops
    <2>2. \A i \in 1..Len(<<c>>) : <<c>>[i].kind \notin Births \union {"cancel"}
      BY DEF Callback, Births
    <2> HIDE DEF c
    <2>3. pc[p] \in {"insert", "clip"} /\ text[p] # <<>> => p \notin revoked
      BY DEF RevokeInv, RevokedInv, Harmless, Idles
    <2>4. \A q \in revoked : Meek(q)
      BY <1>1, <1>2, <2>1 DEF Meek, Idles
    <2>5. \/ UNCHANGED out
          \/ \E q \in Pipes : /\ q \notin revoked
                              /\ out' = Append(out, [pipe |-> q, text |-> text[q]])
      BY <2>1, <2>3
    <2> QED BY <1>1, <2>1, <2>2, <2>4, <2>5, RevokedKept DEF RevokeInv
  <1> QED BY <1>3, <1>4 DEF Advances

LEMMA HandlersRevoked ==
  ASSUME TypeOK, Ours, Numbered, OneEach, RevokeInv,
         UNCHANGED <<captureVars, userVars>>,
         OnRecordingStopped \/ OnPipelineDone \/ TimerFires
  PROVE  RevokeInv'
  <1>0. /\ pc \in [Pipes -> PipePcs] /\ revoked \subseteq Pipes
        /\ UNCHANGED <<recording, buffer, nstop, revoked>>
        /\ buffer' \in {buffer, <<>>} /\ (recording' => recording)
    BY Numbers DEF TypeOK, captureVars, userVars, historyOfUser
  <1>1. \A i \in 1..Len(<<>>) : <<>>[i].kind \notin Births \union {"cancel"}
    OBVIOUS
  <1>2. CASE OnRecordingStopped
    <2> DEFINE p == Head(ready).id
               a == Head(ready).data
    <2>1. /\ Runs("stopped") /\ Schedules(<<Wake(p)>>) /\ pc' = [pc EXCEPT ![p] = "new"]
          /\ audio' = <<a>> /\ UNCHANGED <<text, out>>
      BY <1>2 DEF OnRecordingStopped, historyVars
    <2>2. Current(p) /\ p \in Pipes /\ pc[p] = "none"
      BY <2>1, HeadIsFirst, Numbers DEF Ours, Current, ForPipe, Births, Numbered, Announces
    <2>3. Wake(p) \in Callbacks /\ Wake(p).kind \notin Births \union {"cancel"}
      BY <2>2, WakeTyped DEF Wake, Callback, Births
    <2>4. p \in revoked => a = <<>>
      BY <2>1, <2>2, HeadIsFirst
         DEF RevokeInv, RevokedInv, Harmless, Idles, Empties, Holding, Inserting
    <2> HIDE DEF p, a
    <2>5. Queues(1, <<Wake(p)>>)
      BY <2>1, <2>3, OneQueued
    <2>6. \A i \in 1..Len(<<Wake(p)>>) : <<Wake(p)>>[i].kind \notin Births \union {"cancel"}
      BY <2>3
    <2>7. \A q \in Pipes : pc[q] = "new" => q = p
      BY <2>2 DEF Ours, Current, OneEach
    <2>8. \A q \in revoked : Meek(q)
      BY <1>0, <2>1, <2>2, <2>4, <2>7 DEF Meek
    <2> QED BY <1>0, <2>1, <2>5, <2>6, <2>8, RevokedKept DEF RevokeInv
  <1>3. CASE OnPipelineDone
    <2>1. /\ Queues(1, <<>>) /\ pc' = [pc EXCEPT ![Head(ready).id] = "gone"]
          /\ UNCHANGED <<audio, text, out>>
      BY <1>3, NoneQueued DEF OnPipelineDone, historyVars
    <2>2. \A q \in revoked : Meek(q)
      BY <1>0, <2>1 DEF Meek, Idles
    <2> QED BY <1>0, <1>1, <2>1, <2>2, RevokedKept DEF RevokeInv
  <1>4. CASE TimerFires
    <2>1. Queues(1, <<>>) /\ UNCHANGED <<pc, text, out>>
      BY <1>4, NoneQueued DEF TimerFires, pipeVars, historyVars
    <2>2. audio' \in {audio, <<>>}
      BY <1>4 DEF TimerFires
    <2>3. \A q \in revoked : Meek(q)
      BY <2>1, <2>2 DEF Meek
    <2> QED BY <1>0, <1>1, <2>1, <2>3, RevokedKept DEF RevokeInv
  <1> QED BY <1>2, <1>3, <1>4

\* _finalize_stop() of a dictation cancelled meanwhile publishes nothing.
LEMMA CaptureStepRevoked ==
  ASSUME TypeOK, Ours, Numbered, RevokeInv, CaptureStep
  PROVE  RevokeInv'
  <1> DEFINE p == Head(ready).id
             c == [kind |-> "stopped", id |-> p, flush |-> FALSE, data |-> buffer]
  <1>1. /\ Runs("finalize") /\ Schedules(<<c>>)
        /\ UNCHANGED <<recording, buffer, nstop, revoked, pc, text, audio, out>>
    BY DEF CaptureStep, FinalizeStop, captureVars, userVars, historyOfUser,
           orchestratorVars, pipeVars, sharedVars, historyVars
  <1>2. p \in Pipes /\ pc[p] = "none"
    BY <1>1, HeadIsFirst, Numbers DEF Ours, Current, ForPipe, Births, Numbered, Announces
  <1>3. c \in Callbacks /\ c.kind = "stopped" /\ c.data = buffer /\ c.id = p
    BY <1>2, StoppedTyped, Numbers
  <1>4. p \in revoked => buffer = <<>>
    BY <1>1, <1>2, HeadIsFirst
       DEF RevokeInv, RevokedInv, Harmless, Idles, Empties, Holding, Inserting
  <1> HIDE DEF p, c
  <1>5. Queues(1, <<c>>)
    BY <1>1, <1>3, OneQueued
  <1>6. \A i \in 1..Len(<<c>>) : <<c>>[i] = c
    OBVIOUS
  <1>7. CancelClears'
    BY <1>1, <1>3, <1>5, <1>6, ClearsKept DEF RevokeInv
  <1>8. (\A i \in Insertions : out[i].pipe \notin revoked)'
    BY <1>1, RevokedOut DEF RevokeInv
  <1>9. ASSUME NEW q \in revoked PROVE q <= nstop' /\ Harmless(q)'
    <2>1. q \in Pipes /\ q <= nstop /\ Harmless(q) /\ Meek(q)
      BY <1>1, <1>9 DEF RevokeInv, RevokedInv, Meek, TypeOK
    <2>2. \A i \in 1..Len(<<c>>) :
            <<c>>[i].id = q => <<c>>[i].kind # "finalize"
                               /\ (<<c>>[i].kind = "stopped" => <<c>>[i].data = <<>>)
      BY <1>3, <1>4, <1>6
    <2>3. Harmless(q)'
      BY <1>1, <1>5, <2>1, <2>2, HarmlessKept
    <2> QED BY <1>1, <2>1, <2>3
  <1> QED BY <1>1, <1>7, <1>8, <1>9 DEF RevokeInv, RevokedInv

\* Orchestrator.cancel: whatever is stopped and does not insert yet will not.
LEMMA LoopCancelRevoked ==
  ASSUME TypeOK, Ours, Numbered, OneEach, RevokeInv, LoopCancel
  PROVE  RevokeInv'
  <1>0. /\ pc \in [Pipes -> PipePcs] /\ 1..nstop \subseteq Pipes
        /\ out \in Seq([pipe : Pipes, text : Audio])
        /\ revoked \subseteq Pipes /\ text \in [Pipes -> Audio]
    BY Numbers DEF TypeOK, OrchestratorTypeOK, HistoryTypeOK
  <1>1. /\ Runs("cancel") /\ Cancel /\ audio' = <<>>
        /\ UNCHANGED <<nstop, recording, buffer, text>>
    BY DEF LoopCancel, Cancel, captureVars
  <1>2. ready[1].kind = "cancel" /\ 1 \in 1..Len(ready) /\ buffer = <<>>
    BY <1>1, HeadIsFirst DEF RevokeInv, CancelClears
  <1>3. \A p \in revoked' : \/ p \in revoked
                            \/ /\ p \in 1..nstop
                               /\ pc[p] \notin Inserting \union {"ended", "gone"}
                               /\ \A i \in 1..Len(out) : out[i].pipe # p
    BY <1>0 DEF LoopCancel
  <1>4. revoked' \subseteq Pipes
    BY <1>0, <1>3
  <1> DEFINE live == handle # 0 /\ pc[handle] \in InFlight
  <1>5. /\ handle \in 0..MaxPipes
        /\ \A p \in Pipes : pc[p] \in InFlight => live /\ p = handle
    BY BoundsAssumption DEF OneEach, Pipes, TypeOK, OrchestratorTypeOK, SharedTypeOK
  <1>6. /\ \A p \in Pipes : pc'[p] = IF pc[p] \in InFlight
                                     THEN IF pc[p] \in {"new", "killed"} THEN "killed"
                                                                        ELSE "cancelled"
                                     ELSE pc[p]
        /\ \/ UNCHANGED out
           \/ \E p \in Pipes : /\ pc[p] \in {"insert", "clip"} /\ text[p] # <<>>
                               /\ out' = Append(out, [pipe |-> p, text |-> text[p]])
    <2>1. CASE live
      <3>1. handle \in Pipes
        BY <1>5, <2>1, BoundsAssumption DEF Pipes
      <3> QED BY <1>0, <1>1, <1>5, <2>1, <3>1 DEF Cancel
    <2>2. CASE ~live
      BY <1>1, <1>5, <2>2 DEF Cancel
    <2> QED BY <2>1, <2>2
  <1>7. \A p \in Pipes : pc'[p] \in Idles \/ (pc'[p] = pc[p] /\ pc[p] = "none")
    BY <1>0, <1>6 DEF Idles, InFlight, PipePcs
  <1>8. \E new : /\ Queues(1, new)
                 /\ \A i \in 1..Len(new) : new[i].kind \notin Births \union {"cancel"}
    <2>1. CASE Schedules(<<>>)
      <3>1. \A i \in 1..Len(<<>>) : <<>>[i].kind \notin Births \union {"cancel"}
        OBVIOUS
      <3> QED BY <1>1, <2>1, <3>1, NoneQueued
    <2>2. CASE handle # 0 /\ Schedules(<<Wake(handle)>>)
      <3>1. Wake(handle) \in Callbacks /\ Wake(handle).kind \notin Births \union {"cancel"}
        BY <1>5, <2>2, BoundsAssumption, WakeTyped DEF Wake, Callback, Pipes, Births
      <3>2. Queues(1, <<Wake(handle)>>)
        BY <1>1, <2>2, <3>1, OneQueued
      <3>3. \A i \in 1..Len(<<Wake(handle)>>) :
              <<Wake(handle)>>[i].kind \notin Births \union {"cancel"}
        BY <3>1
      <3> QED BY <3>2, <3>3
    <2> QED BY <1>1, <2>1, <2>2 DEF Cancel
  <1> HIDE DEF live
  <1>9. PICK new : /\ Queues(1, new)
                   /\ \A i \in 1..Len(new) : new[i].kind \notin Births \union {"cancel"}
    BY <1>8
  <1>10. CancelClears'
    BY <1>1, <1>9, ClearsKept DEF RevokeInv, Births
  <1>11. ASSUME NEW p \in revoked' PROVE p <= nstop' /\ Harmless(p)'
    <2>1. p \in Pipes /\ p <= nstop
      BY <1>3, <1>4, <1>11, Numbers DEF RevokeInv, RevokedInv
    <2>2. CASE pc'[p] \in Idles
      BY <1>1, <2>1, <2>2 DEF Harmless
    <2>3. CASE pc'[p] = pc[p] /\ pc[p] = "none"
      \* Its RecordingStopped is behind this cancel in the queue.
      <3>1. \A i \in 1..Len(ready) : Empties(ready[i])
        <4> SUFFICES ASSUME NEW i \in 1..Len(ready) PROVE Empties(ready[i])
          OBVIOUS
        <4>1. ready[i].kind = "stopped" => i > 1
          BY <1>2, Numbers
        <4> QED BY <1>2, <4>1, Numbers DEF RevokeInv, CancelClears, Empties
      <3>2. Harmless(p)
        BY <2>3, <3>1 DEF Harmless
      <3>3. Meek(p)
        BY <1>1, <2>3 DEF Meek
      <3>4. Harmless(p)'
        BY <1>1, <1>9, <2>1, <3>2, <3>3, HarmlessKept DEF Births
      <3> QED BY <1>1, <2>1, <3>4
    <2> QED BY <1>7, <2>1, <2>2, <2>3
  <1>12. \A i \in 1..Len(out') : out'[i].pipe \notin revoked'
    <2>1. \A i \in 1..Len(out) : out[i].pipe \notin revoked'
      BY <1>3 DEF RevokeInv, RevokedInv, Insertions
    <2>2. ASSUME NEW p \in Pipes, pc[p] \in {"insert", "clip"}, text[p] # <<>>,
                 out' = Append(out, [pipe |-> p, text |-> text[p]])
          PROVE  \A i \in 1..Len(out') : out'[i].pipe \notin revoked'
      <3>1. p \notin revoked'
        BY <1>3, <2>2 DEF Inserting, RevokeInv, RevokedInv, Harmless, Idles
      <3> DEFINE o == [pipe |-> p, text |-> text[p]]
      <3>2. o \in [pipe : Pipes, text : Audio] /\ o.pipe = p
        BY <1>0
      <3> HIDE DEF o
      <3>3. \A i \in 1..Len(out') : (i \in 1..Len(out) /\ out'[i] = out[i]) \/ out'[i] = o
        BY <1>0, <2>2, <3>2 DEF o
      <3> QED BY <2>1, <3>1, <3>2, <3>3
    <2> QED BY <1>6, <2>1, <2>2
  <1> QED BY <1>10, <1>11, <1>12 DEF RevokeInv, RevokedInv, Insertions

LEMMA HotkeyStartRevoked ==
  ASSUME TypeOK, RevokeInv, ~Hasty, HotkeyStart
  PROVE  RevokeInv'
  <1>1. /\ Len(ready) = 0 /\ buffer' = <<>>
        /\ UNCHANGED <<nstop, revoked, pc, text, audio, out>>
    BY DEF HotkeyStart, Settled, StartRecording, pipeVars, historyVars, userVars,
           historyOfUser
  <1>2. PICK new : /\ Queues(0, new)
                   /\ \A i \in 1..Len(new) : new[i].kind \in {"prepare", "chunker_start"}
    BY StartQueues
  <1>3. CancelClears'
    <2>1. \A i \in 1..Len(ready') : ready'[i].kind \notin {"cancel", "stopped"}
      BY <1>1, <1>2, OldOrNew
    <2> QED BY <2>1 DEF CancelClears
  <1>4. (\A i \in Insertions : out[i].pipe \notin revoked)'
    BY <1>1, RevokedOut DEF RevokeInv
  <1>5. ASSUME NEW p \in revoked PROVE p <= nstop' /\ Harmless(p)'
    <2>1. p \in Pipes /\ p <= nstop /\ Harmless(p) /\ Meek(p)
      BY <1>1, <1>5 DEF RevokeInv, RevokedInv, Meek, TypeOK
    <2>2. Harmless(p)'
      BY <1>1, <1>2, <2>1, HarmlessKept
    <2> QED BY <1>1, <2>1, <2>2
  <1> QED BY <1>1, <1>3, <1>4, <1>5 DEF RevokeInv, RevokedInv

LEMMA HotkeyCancelRevoked ==
  ASSUME TypeOK, RevokeInv, HotkeyCancel
  PROVE  RevokeInv'
  <1>1. /\ UNCHANGED <<nstop, revoked, pc, text, audio, out>>
        /\ buffer' = <<>> /\ recording' = FALSE
    BY DEF HotkeyCancel, CancelRecording, pipeVars, historyVars
  <1>2. PICK new : /\ Queues(0, new)
                   /\ \A i \in 1..Len(new) : new[i].kind \in {"stop_spawn", "cancel"}
    BY CancelQueues
  <1>3. CancelClears'
    <2>1. Len(ready) \in Nat /\ Len(new) \in Nat
      BY <1>2, Numbers DEF Queues
    <2>2. ASSUME NEW i \in 1..Len(ready'), NEW j \in 1..Len(ready'), i < j,
                 ready'[i].kind = "cancel", ready'[j].kind = "stopped"
          PROVE  ready'[j].data = <<>>
      <3>1. j \in 1..Len(ready) /\ ready'[j] = ready[j]
        BY <1>2, <2>1, <2>2 DEF Queues, Shifted
      <3>2. i \in 1..Len(ready) /\ ready'[i] = ready[i]
        BY <1>2, <2>1, <2>2, <3>1 DEF Queues, Shifted
      <3> QED BY <2>2, <3>1, <3>2 DEF RevokeInv, CancelClears
    <2> QED BY <1>1, <2>2 DEF CancelClears
  <1>4. (\A i \in Insertions : out[i].pipe \notin revoked)'
    BY <1>1, RevokedOut DEF RevokeInv
  <1>5. ASSUME NEW p \in revoked PROVE p <= nstop' /\ Harmless(p)'
    <2>1. p \in Pipes /\ p <= nstop /\ Harmless(p) /\ Meek(p)
      BY <1>1, <1>5 DEF RevokeInv, RevokedInv, Meek, TypeOK
    <2>2. Harmless(p)'
      BY <1>1, <1>2, <2>1, HarmlessKept
    <2> QED BY <1>1, <2>1, <2>2
  <1> QED BY <1>1, <1>3, <1>4, <1>5 DEF RevokeInv, RevokedInv

LEMMA StopRevoked ==
  ASSUME TypeOK, RevokeInv, StopRecording
  PROVE  RevokeInv'
  <1>1. PICK t \in Threads : StopStarts(t) \/ StopProceeds(t)
    BY DEF StopRecording
  <1>2. /\ UNCHANGED <<buffer, revoked, pc, text, audio, out>>
        /\ buffer' \in {buffer, <<>>}
    BY <1>1 DEF StopStarts, StopProceeds, StopTests, StopFlips, StopPosts,
       orchestratorVars, pipeVars, historyVars, sharedVars, userVars, historyOfUser
  <1>3. (recording' => recording) /\ nstop <= nstop' /\ nstop' \in Nat
    BY <1>1, Numbers DEF StopStarts, StopProceeds, StopTests, StopFlips, StopPosts
  <1>4. PICK new : /\ Queues(0, new)
                   /\ \A i \in 1..Len(new) : \/ new[i].kind = "stop_spawn"
                                             \/ new[i] = Callback("finalize", nstop + 1)
    BY <1>1, StopQueues
  <1>5. \A i \in 1..Len(new) :
          /\ new[i].kind \notin {"stopped", "cancel"}
          /\ new[i].kind = "finalize" => new[i].id = nstop + 1
    BY <1>4 DEF Callback
  <1>6. CancelClears'
    BY <1>2, <1>3, <1>4, <1>5, ClearsKept DEF RevokeInv
  <1>7. (\A i \in Insertions : out[i].pipe \notin revoked)'
    BY <1>2, RevokedOut DEF RevokeInv
  <1>8. ASSUME NEW p \in revoked PROVE p <= nstop' /\ Harmless(p)'
    <2>1. p \in Pipes /\ p <= nstop /\ Harmless(p) /\ Meek(p)
      BY <1>2, <1>8 DEF RevokeInv, RevokedInv, Meek, TypeOK
    <2>2. p \in Nat /\ nstop \in Nat
      BY <2>1, Numbers DEF Pipes
    <2>3. \A i \in 1..Len(new) :
            new[i].id = p => new[i].kind # "finalize"
                             /\ (new[i].kind = "stopped" => new[i].data = <<>>)
      BY <1>5, <2>1, <2>2
    <2>4. Harmless(p)'
      BY <1>2, <1>4, <2>1, <2>3, HarmlessKept
    <2> QED BY <1>3, <2>1, <2>2, <2>4
  <1> QED BY <1>2, <1>6, <1>7, <1>8 DEF RevokeInv, RevokedInv

LEMMA SpeakRevoked ==
  ASSUME TypeOK, Ours, RevokeInv, Speak
  PROVE  RevokeInv'
  <1>1. /\ recording /\ UNCHANGED <<nstop, revoked, pc, text, audio, out, ready, recording>>
    BY DEF Speak, AudioBlock, orchestratorVars, pipeVars, historyVars, sharedVars,
           userVars, historyOfUser
  <1>2. \A i \in 1..Len(ready) : ready[i].kind \notin Births \union {"cancel"}
    BY <1>1 DEF Ours, Current, ForPipe, RevokeInv, CancelClears
  <1>3. CancelClears'
    BY <1>1, <1>2 DEF CancelClears
  <1>4. \A i \in 1..Len(ready) : Empties(ready[i]) /\ Empties(ready[i])'
    BY <1>1, <1>2 DEF Empties, Births
  <1>5. \A p : Harmless(p) => Harmless(p)'
    BY <1>1, <1>4 DEF Harmless
  <1> QED BY <1>1, <1>3, <1>5 DEF RevokeInv, RevokedInv, Insertions

LEMMA RevokeStep ==
  ASSUME TypeOK, Ours, Numbered, WholeInv, OneEach, RevokeInv,
         ~Hasty, ~StreamingASR, "asr" \notin Outcomes, [Next]_vars
  PROVE  RevokeInv'
  BY EveryStep, AsideRevoked, AdvancesRevoked, HandlersRevoked, LoopCancelRevoked,
     CaptureStepRevoked, HotkeyStartRevoked, HotkeyCancelRevoked, StopRevoked,
     SpeakRevoked

\* In batch mode the same holds of any dictation already stopped when it was
\* cancelled, its pipeline running or not (cancel_recording, _finalize_stop,
\* cancel); while the provider answers, for a pipeline whose transcription
\* failed goes on with _current_transcript.
THEOREM RevokedAlways ==
  ASSUME ~Hasty, ~AutoStop, ~StreamingASR, "asr" \notin Outcomes
  PROVE  Spec => []RevokedNotInserted
  <1>1. /\ TypeOK /\ Ours /\ WholeInv /\ InsertedInv /\ CancelInv /\ RevokeInv
        /\ [Next]_vars
        => Ours' /\ WholeInv' /\ CancelInv' /\ RevokeInv'
    BY OursStep, WholeStep, CancelStep, RevokeStep
       DEF InsertedInv, CancelInv, SegmentIsPart
  <1>2. Init => CancelInv
    BY OneEachInit, CutInit DEF CancelInv
  <1>3. RevokeInv => RevokedNotInserted
    BY DEF RevokeInv, RevokedInv, RevokedNotInserted
  <1> QED
    BY <1>1, <1>2, <1>3, OursInit, WholeInvInit, RevokeInit, InsertedInit,
       InsertedStep, TypeCorrect, PTL DEF Spec

-----------------------------------------------------------------------------
(***************************************************************************)
(* Dictation implements DictationService, in batch and in streaming mode,  *)
(* when the hotkey alone stops a recording and the provider answers.       *)
(* Every step either leaves what has become of each recording as it was,   *)
(* or moves one recording, the current one, along one of the service's     *)
(* transitions.                                                            *)
(***************************************************************************)

Phase == [r \in Recs |-> PhaseOf(r)]
Listed == [i \in Insertions |-> origin[out[i].pipe]]

\* A pipeline that reported an error is done, and one that is not started yet
\* is on its way through the queue.
PhaseInv ==
  /\ \A p \in Pipes : p > nstop => origin[p] = 0
  /\ \A p \in failed : pc[p] \in Done
  /\ \A p \in 1..nstop :
       pc[p] = "none" => \E i \in 1..Len(ready) :
                           ready[i].kind \in Births /\ ready[i].id = p

LEMMA PhaseInit == Init => PhaseInv
  <1> SUFFICES ASSUME Init PROVE PhaseInv
    OBVIOUS
  <1> QED BY DEF Init, CaptureInit, OrchestratorInit, PhaseInv

\* A step that starts no pipeline and posts no stop.
LEMMA PhaseKept ==
  ASSUME TypeOK, PhaseInv, UNCHANGED <<nstop, origin>>,
         NEW d \in {0, 1}, NEW new, Queues(d, new),
         d = 1 => Head(ready).kind \notin Births,
         \A p \in Pipes : /\ pc[p] \in Done => pc'[p] \in Done
                          /\ pc'[p] = "none" => pc[p] = "none",
         \A p \in failed' : p \in failed \/ pc'[p] \in Done
  PROVE  PhaseInv'
  <1>1. \A p \in Pipes : p > nstop' => origin'[p] = 0
    BY DEF PhaseInv
  <1>2. failed \subseteq Pipes
    BY DEF TypeOK, OrchestratorTypeOK, HistoryTypeOK
  <1>3. \A p \in failed' : pc'[p] \in Done
    BY <1>2 DEF PhaseInv
  <1>4. ASSUME NEW p \in 1..nstop', pc'[p] = "none"
        PROVE  \E i \in 1..Len(ready') : ready'[i].kind \in Births /\ ready'[i].id = p
    <2>1. p \in 1..nstop /\ pc[p] = "none"
      BY <1>4, Numbers
    <2>2. PICK i \in 1..Len(ready) : ready[i].kind \in Births /\ ready[i].id = p
      BY <2>1 DEF PhaseInv
    <2>3. i - d \in 1..Len(ready)
      <3>1. d = 1 => ready[1].kind \notin Births
        BY <2>2, Numbers, TailAt
      <3> QED BY <2>2, <3>1, Numbers
    <2>4. i - d \in 1..Len(ready') /\ ready'[i - d] = ready[i]
      BY <2>2, <2>3, Numbers DEF Queues, Shifted
    <2> QED BY <2>2, <2>4
  <1> QED BY <1>1, <1>3, <1>4 DEF PhaseInv

LEMMA AsidePhased ==
  ASSUME TypeOK, PhaseInv, Aside
  PROVE  PhaseInv'
  <1>1. PICK d \in {0, 1} : \E new :
               Queues(d, new) /\ (d = 1 => Head(ready).kind \notin Births)
    BY DEF Aside
  <1>2. /\ UNCHANGED <<nstop, origin, failed>>
        /\ \A p \in Pipes : /\ pc[p] \in Done => pc'[p] \in Done
                            /\ pc'[p] = "none" => pc[p] = "none"
    BY DEF Aside, captureVars, userVars, historyOfUser, Done
  <1> QED BY <1>1, <1>2, PhaseKept

LEMMA AdvancesPhased ==
  ASSUME TypeOK, PhaseInv, "asr" \notin Outcomes, NEW p \in Pipes, Advances(p)
  PROVE  PhaseInv'
  <1>1. /\ UNCHANGED <<nstop, origin>> /\ Head(ready).kind \notin Births
        /\ Works(p) \/ Stops(p)
    BY DEF Advances, captureVars, userVars, historyOfUser, Runs, Births
  <1>2. CASE Works(p)
    <2>1. /\ Queues(1, <<>>) /\ UNCHANGED failed
          /\ \E x \in {"stream"} \union Holding : pc' = [pc EXCEPT ![p] = x]
          /\ pc[p] \notin Done
      BY <1>2 DEF Works, Done, Holding, Inserting
    <2>2. \A q \in Pipes : /\ pc[q] \in Done => pc'[q] \in Done
                           /\ pc'[q] = "none" => pc[q] = "none"
      BY <2>1, Numbers DEF Holding, Inserting
    <2> QED BY <1>1, <2>1, <2>2, PhaseKept
  <1>3. CASE Stops(p)
    <2>1. /\ Queues(1, <<Callback("joined", p)>>) /\ failed' \subseteq failed \union {p}
          /\ pc' = [pc EXCEPT ![p] = "ended"]
      BY <1>3 DEF Stops
    <2>2. /\ \A q \in Pipes : /\ pc[q] \in Done => pc'[q] \in Done
                              /\ pc'[q] = "none" => pc[q] = "none"
          /\ pc'[p] \in Done
      BY <2>1, Numbers DEF Done
    <2> QED BY <1>1, <2>1, <2>2, PhaseKept
  <1> QED BY <1>1, <1>2, <1>3

LEMMA HandlersPhased ==
  ASSUME TypeOK, Numbered, PhaseInv, UNCHANGED <<nstop, origin>>,
         OnPipelineDone \/ TimerFires \/ Cancel
  PROVE  PhaseInv'
  <1>1. CASE OnPipelineDone
    <2> DEFINE p == Head(ready).id
    <2>1. /\ Runs("joined") /\ Queues(1, <<>>) /\ pc' = [pc EXCEPT ![p] = "gone"]
          /\ UNCHANGED failed
      BY <1>1, NoneQueued DEF OnPipelineDone, historyVars
    <2>2. p \in Pipes /\ pc[p] \in Done /\ Head(ready).kind \notin Births
      BY <2>1, HeadIsFirst DEF Numbered, Resumes, Births
    <2>3. \A q \in Pipes : /\ pc[q] \in Done => pc'[q] \in Done
                           /\ pc'[q] = "none" => pc[q] = "none"
      BY <2>1, <2>2, Numbers DEF Done
    <2> QED BY <2>1, <2>2, <2>3, PhaseKept
  <1>2. CASE TimerFires
    <2>1. Queues(1, <<>>) /\ UNCHANGED <<pc, failed>> /\ Head(ready).kind \notin Births
      BY <1>2, NoneQueued DEF TimerFires, pipeVars, historyVars, Runs, Births
    <2> QED BY <2>1, PhaseKept
  <1>3. CASE Cancel
    <2>1. /\ Runs("cancel") /\ handle \in 0..MaxPipes /\ UNCHANGED failed
          /\ Head(ready).kind \notin Births
      BY <1>3 DEF Cancel, TypeOK, OrchestratorTypeOK, SharedTypeOK, Runs, Births
    <2>2. \A q \in Pipes : /\ pc[q] \in Done => pc'[q] \in Done
                           /\ pc'[q] = "none" => pc[q] = "none"
      BY <1>3, Numbers DEF Cancel, InFlight, Done
    <2>3. CASE Schedules(<<>>)
      BY <2>1, <2>2, <2>3, NoneQueued, PhaseKept
    <2>4. CASE handle # 0 /\ Schedules(<<Wake(handle)>>)
      <3>1. Wake(handle) \in Callbacks
        BY <2>1, <2>4, BoundsAssumption, WakeTyped DEF Pipes
      <3>2. Queues(1, <<Wake(handle)>>)
        BY <2>1, <2>4, <3>1, OneQueued
      <3> QED BY <2>1, <2>2, <3>2, PhaseKept
    <2> QED BY <1>3, <2>3, <2>4 DEF Cancel
  <1> QED BY <1>1, <1>2, <1>3

\* The recording's RecordingStopped is handled: the pipeline it announced is no
\* longer "none"; those the other births announce still are on their way.
LEMMA OnRecordingStoppedPhased ==
  ASSUME TypeOK, Ours, Numbered, PhaseInv, OnRecordingStopped,
         UNCHANGED <<captureVars, userVars>>
  PROVE  PhaseInv'
  <1> DEFINE p == Head(ready).id
  <1>1. /\ Runs("stopped") /\ Schedules(<<Wake(p)>>) /\ pc' = [pc EXCEPT ![p] = "new"]
        /\ UNCHANGED <<nstop, origin, failed>>
    BY DEF OnRecordingStopped, captureVars, userVars, historyOfUser, historyVars
  <1>2. Current(p) /\ p \in Pipes /\ pc[p] = "none" /\ p = ready[1].id
    BY <1>1, HeadIsFirst, Numbers DEF Ours, Current, ForPipe, Births, Numbered, Announces
  <1>3. Wake(p) \in Callbacks
    BY <1>2, WakeTyped
  <1> HIDE DEF p
  <1>4. PICK new : Queues(1, new) /\ Len(new) = 1
    <2>1. Queues(1, <<Wake(p)>>) /\ Len(<<Wake(p)>>) = 1
      BY <1>1, <1>3, OneQueued
    <2> QED BY <2>1
  <1>5. p \notin failed
    BY <1>2 DEF PhaseInv, Done
  <1>6. \A q \in failed' : pc'[q] \in Done
    BY <1>1, <1>2, <1>5, Numbers DEF PhaseInv, TypeOK, OrchestratorTypeOK, HistoryTypeOK
  <1>7. ASSUME NEW q \in 1..nstop', pc'[q] = "none"
        PROVE  \E i \in 1..Len(ready') : ready'[i].kind \in Births /\ ready'[i].id = q
    <2>1. q \in 1..nstop /\ pc[q] = "none" /\ q # p
      BY <1>1, <1>2, <1>7, Numbers
    <2>2. PICK i \in 1..Len(ready) : ready[i].kind \in Births /\ ready[i].id = q
      BY <2>1 DEF PhaseInv
    <2>3. i # 1
      BY <1>2, <2>1, <2>2
    <2>4. i - 1 \in 1..Len(ready')
      <3>1. Len(ready') = Len(ready)
        BY <1>4, Numbers DEF Queues, Shifted
      <3> QED BY <2>2, <2>3, <3>1, Numbers
    <2>5. ready'[i - 1] = ready[i]
      <3>1. PICK j \in 1..Len(ready') : j = i - 1 /\ j + 1 = i /\ j <= Len(ready) - 1
        BY <2>2, <2>4, Numbers
      <3>2. ready'[j] = ready[j + 1]
        <4>1. Shifted(1, new) /\ Len(ready) \in Nat
          BY <1>4, Numbers DEF Queues
        <4> QED BY <3>1, <4>1 DEF Shifted
      <3> QED BY <3>1, <3>2
    <2> QED BY <2>2, <2>4, <2>5
  <1> QED BY <1>1, <1>6, <1>7 DEF PhaseInv

\* _finalize_stop: the birth changes its kind and keeps its number.
LEMMA CaptureStepPhased ==
  ASSUME TypeOK, Ours, PhaseInv, CaptureStep
  PROVE  PhaseInv'
  <1> DEFINE p == Head(ready).id
             c == [kind |-> "stopped", id |-> p, flush |-> FALSE, data |-> buffer]
  <1>1. /\ Runs("finalize") /\ Schedules(<<c>>)
        /\ UNCHANGED <<nstop, origin, failed, pc>>
    BY DEF CaptureStep, FinalizeStop, captureVars, userVars, historyOfUser,
           orchestratorVars, pipeVars, historyVars
  <1>2. p \in Pipes /\ p = ready[1].id
    BY <1>1, HeadIsFirst, Numbers DEF Ours, Current, ForPipe, Births
  <1>3. c \in Callbacks /\ c.kind \in Births /\ c.id = p
    BY <1>2, StoppedTyped, Numbers DEF Births
  <1> HIDE DEF p, c
  <1>4. Queues(1, <<c>>) /\ Len(<<c>>) = 1 /\ <<c>>[1] = c
    BY <1>1, <1>3, OneQueued
  <1>5. ready'[Len(ready')] = c /\ Len(ready') \in 1..Len(ready')
    BY <1>1, <1>4, HeadIsFirst, Numbers DEF Queues, Shifted
  <1>6. ASSUME NEW q \in 1..nstop', pc'[q] = "none"
        PROVE  \E i \in 1..Len(ready') : ready'[i].kind \in Births /\ ready'[i].id = q
    <2>1. q \in 1..nstop /\ pc[q] = "none"
      BY <1>1, <1>6
    <2>2. PICK i \in 1..Len(ready) : ready[i].kind \in Births /\ ready[i].id = q
      BY <2>1 DEF PhaseInv
    <2>3. CASE i = 1
      BY <1>2, <1>3, <1>5, <2>2, <2>3
    <2>4. CASE i # 1
      <3>1. Shifted(1, <<c>>) /\ Len(ready') = Len(ready)
        BY <1>4, Numbers DEF Queues, Shifted
      <3>2. PICK j \in 1..Len(ready') : j + 1 = i /\ j <= Len(ready) - 1
        <4>1. i - 1 \in 1..Len(ready') /\ (i - 1) + 1 = i /\ i - 1 <= Len(ready) - 1
          BY <2>2, <2>4, <3>1, Numbers
        <4> QED BY <4>1
      <3>3. ready'[j] = ready[j + 1]
        BY <3>1, <3>2, Numbers DEF Shifted
      <3> QED BY <2>2, <3>2, <3>3
    <2> QED BY <2>3, <2>4
  <1> QED BY <1>1, <1>6 DEF PhaseInv

\* stop_recording announces one pipeline more.
LEMMA StopPhased ==
  ASSUME TypeOK, PhaseInv, StopRecording
  PROVE  PhaseInv'
  <1>1. PICK t \in Threads : StopStarts(t) \/ StopProceeds(t)
    BY DEF StopRecording
  <1>2. PICK new : /\ Queues(0, new)
                   /\ \A i \in 1..Len(new) :
                        \/ new[i].kind = "stop_spawn"
                        \/ StopPosts(t) /\ new[i] = Callback("finalize", nstop + 1)
    BY <1>1, StopQueues
  <1>3. UNCHANGED <<failed, pc>>
    BY <1>1 DEF StopStarts, StopProceeds, orchestratorVars, pipeVars, historyVars
  <1>4. CASE ~StopPosts(t)
    <2>1. UNCHANGED <<nstop, origin>>
      BY <1>1, <1>4 DEF StopStarts, StopProceeds, StopTests, StopFlips, userVars,
         historyOfUser
    <2> QED BY <1>2, <1>3, <2>1, PhaseKept
  <1>5. CASE StopPosts(t)
    <2> DEFINE c == Callback("finalize", nstop + 1)
    <2>1. /\ CallSoon(<<c>>) /\ nstop' = nstop + 1 /\ nstop < MaxPipes
          /\ origin' = [origin EXCEPT ![nstop + 1] = nrec]
      BY <1>1, <1>5 DEF StopStarts, StopProceeds, StopTests, StopFlips, StopPosts
    <2>2. nstop + 1 \in Pipes
      BY <2>1, Numbers, BoundsAssumption DEF Pipes
    <2>3. c \in Callbacks /\ c.kind \in Births /\ c.id = nstop + 1
      BY <2>2, FinalizeTyped DEF Callback, Births
    <2> HIDE DEF c
    <2>4. <<c>> \in Seq(Callbacks) /\ Len(<<c>>) = 1 /\ <<c>>[1] = c
      BY <2>3
    <2>5. Shifted(0, <<c>>)
      BY <2>1, <2>4, Numbers, CallSoonShifts
    <2>6. /\ \A i \in 1..Len(ready) : i \in 1..Len(ready') /\ ready'[i] = ready[i]
          /\ Len(ready') \in 1..Len(ready') /\ ready'[Len(ready')] = c
      BY <2>4, <2>5, Numbers DEF Shifted
    <2>7. \A q \in Pipes : q > nstop' => origin'[q] = 0
      BY <2>1, <2>2, Numbers DEF PhaseInv, Pipes
    <2>8. ASSUME NEW q \in 1..nstop', pc'[q] = "none"
          PROVE  \E i \in 1..Len(ready') : ready'[i].kind \in Births /\ ready'[i].id = q
      <3>1. CASE q = nstop + 1
        BY <2>3, <2>6, <3>1
      <3>2. CASE q \in 1..nstop
        <4>1. PICK i \in 1..Len(ready) : ready[i].kind \in Births /\ ready[i].id = q
          BY <1>3, <2>8, <3>2 DEF PhaseInv
        <4> QED BY <2>6, <4>1
      <3> QED BY <2>1, <3>1, <3>2, Numbers
    <2> QED BY <1>3, <2>7, <2>8 DEF PhaseInv
  <1> QED BY <1>4, <1>5

LEMMA UserPhased ==
  ASSUME TypeOK, PhaseInv, HotkeyStart \/ HotkeyCancel \/ Speak
  PROVE  PhaseInv'
  <1>1. UNCHANGED <<nstop, origin, failed, pc>>
    BY DEF HotkeyStart, HotkeyCancel, Speak, StartRecording, CancelRecording, AudioBlock,
           orchestratorVars, pipeVars, historyVars, userVars, historyOfUser
  <1>2. \E new : Queues(0, new)
    <2>1. CASE Speak
      <3>1. <<>> \in Seq(Callbacks) /\ CallSoon(<<>>)
        BY <2>1, Numbers DEF Speak, AudioBlock, CallSoon
      <3> QED BY <3>1, Numbers, CallSoonShifts DEF Queues
    <2> QED BY <2>1, StartQueues, CancelQueues
  <1> QED BY <1>1, <1>2, PhaseKept

LEMMA PhaseStep ==
  ASSUME TypeOK, Ours, Numbered, PhaseInv, "asr" \notin Outcomes, [Next]_vars
  PROVE  PhaseInv'
  <1>1. CASE LoopCancel
    BY <1>1, HandlersPhased DEF LoopCancel, captureVars
  <1>2. CASE /\ OnPipelineDone \/ TimerFires
             /\ UNCHANGED <<captureVars, chunkerVars, userVars>>
    BY <1>2, HandlersPhased DEF captureVars, userVars, historyOfUser
  <1> QED
    BY <1>1, <1>2, EveryStep, AsidePhased, AdvancesPhased, OnRecordingStoppedPhased,
       CaptureStepPhased, StopPhased, UserPhased

-----------------------------------------------------------------------------
\* The service's step that moves r.

LEMMA ServiceStarts ==
  ASSUME NEW r \in Recs, \A q \in 1..(r - 1) : PhaseOf(q) \in {"inserted", "over"},
         PhaseOf(r) = "unused", Phase' = [Phase EXCEPT ![r] = "recording"],
         Listed' = Listed
  PROVE  Service!Next
  <1>1. r \in Service!Recordings
    BY DEF Service!Recordings, Recs
  <1>2. \A q \in 1..(r - 1) : Phase[q] \in {"inserted", "over"}
    BY BoundsAssumption DEF Phase, Recs
  <1>3. Phase[r] \in {"unused"}
    BY DEF Phase
  <1>4. Service!Start(r)
    BY <1>2, <1>3 DEF Service!Start, Service!Moves, Phase, Listed
  <1> QED BY <1>1, <1>4 DEF Service!Next

LEMMA ServiceStops ==
  ASSUME NEW r \in Recs, PhaseOf(r) = "recording",
         Phase' = [Phase EXCEPT ![r] = "pending"], Listed' = Listed
  PROVE  Service!Next
  <1>1. r \in Service!Recordings
    BY DEF Service!Recordings, Recs
  <1>2. Phase[r] \in {"recording"}
    BY DEF Phase
  <1>3. Service!Stop(r)
    BY <1>2 DEF Service!Stop, Service!Moves, Phase, Listed
  <1> QED BY <1>1, <1>3 DEF Service!Next

LEMMA ServiceGivesUp ==
  ASSUME NEW r \in Recs, PhaseOf(r) \in {"recording", "pending"},
         Phase' = [Phase EXCEPT ![r] = "over"], Listed' = Listed
  PROVE  Service!Next
  <1>1. r \in Service!Recordings
    BY DEF Service!Recordings, Recs
  <1>2. Phase[r] \in {"recording", "pending"}
    BY DEF Phase
  <1>3. Service!GiveUp(r)
    BY <1>2 DEF Service!GiveUp, Service!Moves, Phase, Listed
  <1> QED BY <1>1, <1>3 DEF Service!Next

LEMMA ServiceInserts ==
  ASSUME NEW r \in Recs, PhaseOf(r) = "pending",
         Phase' = [Phase EXCEPT ![r] = "inserted"], Listed' = Append(Listed, r)
  PROVE  Service!Next
  <1>1. r \in Service!Recordings
    BY DEF Service!Recordings, Recs
  <1>2. Phase[r] \in {"pending"}
    BY DEF Phase
  <1>3. Service!Insert(r)
    BY <1>2 DEF Service!Insert, Service!Moves, Phase, Listed
  <1> QED BY <1>1, <1>3 DEF Service!Next

LEMMA ServiceStutters ==
  ASSUME Phase' = Phase, Listed' = Listed
  PROVE  UNCHANGED Service!serviceVars
  BY DEF Service!serviceVars, Phase, Listed

-----------------------------------------------------------------------------
\* What PhaseOf says, in parts.

WasInserted(r) == \E i \in Insertions : origin[out[i].pipe] = r
Awaited(r) == \E p \in Pipes : origin[p] = r /\ Pending(p)

LEMMA SameInserted ==
  ASSUME UNCHANGED <<out, origin>>
  PROVE  /\ Listed' = Listed
         /\ \A r : WasInserted(r)' <=> WasInserted(r)
  BY DEF Listed, WasInserted, Insertions

LEMMA OneInserted ==
  ASSUME TypeOK, UNCHANGED origin, NEW p \in Pipes,
         out' = Append(out, [pipe |-> p, text |-> text[p]])
  PROVE  /\ Listed' = Append(Listed, origin[p])
         /\ \A r : WasInserted(r)' <=> WasInserted(r) \/ r = origin[p]
  <1> DEFINE o == [pipe |-> p, text |-> text[p]]
             S == [pipe : Pipes, text : Audio]
             n == Len(out)
  <1>1. out \in Seq(S) /\ o \in S /\ o.pipe = p
    BY Numbers DEF TypeOK, OrchestratorTypeOK, HistoryTypeOK
  <1> HIDE DEF S
  <1>2. /\ n \in Nat /\ Len(out') = n + 1 /\ out'[n + 1] = o
        /\ \A i \in 1..n : out'[i] = out[i]
    BY <1>1
  <1> HIDE DEF n, o
  <1>3. Insertions = 1..n /\ Insertions' = 1..(n + 1)
    BY <1>2 DEF Insertions, n
  <1>4. /\ \A i \in 1..n : out'[i].pipe = out[i].pipe
        /\ out'[n + 1].pipe = p
    BY <1>1, <1>2
  <1>5. \A i \in 1..(n + 1) : i \in 1..n \/ i = n + 1
    BY <1>2
  <1>6. 1..n \subseteq 1..(n + 1) /\ n + 1 \in 1..(n + 1)
    BY <1>2
  <1>7. ASSUME NEW r PROVE WasInserted(r)' <=> WasInserted(r) \/ r = origin[p]
    BY <1>3, <1>4, <1>5, <1>6 DEF WasInserted
  <1>8. Listed' = Append(Listed, origin[p])
    <2>1. Listed = [i \in 1..n |-> origin[out[i].pipe]]
      BY <1>3 DEF Listed
    <2>2. Listed' = [i \in 1..(n + 1) |-> origin[out'[i].pipe]]
      BY <1>3 DEF Listed
    <2>3. /\ Len(Listed) = n
          /\ Append(Listed, origin[p]) =
               [i \in 1..(n + 1) |-> IF i <= n THEN Listed[i] ELSE origin[p]]
      BY <1>2, <2>1
    <2>4. \A i \in 1..(n + 1) :
            origin[out'[i].pipe] = IF i <= n THEN Listed[i] ELSE origin[p]
      BY <1>2, <1>4, <1>5, <2>1
    <2> QED BY <2>2, <2>3, <2>4
  <1> QED BY <1>7, <1>8

\* The parts of nobody's phase change.
LEMMA AllSame ==
  ASSUME UNCHANGED <<nrec, recording, out, origin>>,
         \A p \in Pipes : Pending(p)' <=> Pending(p),
         stopper'["hotkey"] = "flipped" <=> stopper["hotkey"] = "flipped"
  PROVE  UNCHANGED Service!serviceVars
  <1>1. \A r : Awaited(r)' <=> Awaited(r)
    BY DEF Awaited
  <1>2. \A r \in Recs : PhaseOf(r)' = PhaseOf(r)
    BY <1>1, SameInserted DEF PhaseOf, WasInserted, Awaited
  <1>3. Phase' = Phase
    BY <1>2 DEF Phase
  <1> QED BY <1>3, SameInserted, ServiceStutters

\* ... or only those of r.
LEMMA OneMoves ==
  ASSUME UNCHANGED nrec, NEW r \in Recs, r = nrec,
         \A q \in Recs \ {r} : /\ WasInserted(q)' <=> WasInserted(q)
                               /\ Awaited(q)' <=> Awaited(q)
  PROVE  Phase' = [Phase EXCEPT ![r] = PhaseOf(r)']
  <1>1. \A q \in Recs \ {r} : PhaseOf(q)' = PhaseOf(q)
    BY DEF PhaseOf, WasInserted, Awaited
  <1> QED BY <1>1 DEF Phase

\* What is known of a state of Dictation.
PatientInv ==
  TypeOK /\ Ours /\ Numbered /\ InsertedPast /\ OneEach /\ PhaseInv

\* The recording of a pipeline that is in flight.
LEMMA InFlightCurrent ==
  ASSUME PatientInv, NEW p \in Pipes, pc[p] \in InFlight
  PROVE  /\ nrec \in Recs /\ origin[p] = nrec /\ ~recording
         /\ stopper["hotkey"] = "out" /\ (Pending(p) => ~WasInserted(nrec))
         /\ \A q \in Pipes : origin[q] = nrec => q = p
  <1>1. Current(p) /\ origin[p] \in 1..nrec
    BY DEF PatientInv, Ours, InFlight, Current
  <1>2. nrec \in Recs /\ origin[p] = nrec /\ ~recording
    BY <1>1, Numbers, BoundsAssumption DEF PatientInv, Ours, Current, Recs
  <1>3. stopper["hotkey"] = "out"
    BY <1>1 DEF PatientInv, OneEach, Current
  <1>4. ASSUME NEW q \in Pipes, origin[q] = nrec PROVE q = p
    <2>1. q \in 1..nstop
      BY <1>2, <1>4, Numbers, BoundsAssumption DEF PatientInv, PhaseInv, Pipes, Recs
    <2> QED BY <1>1, <1>4, <2>1 DEF PatientInv, OneEach, Current
  <1>5. Pending(p) => ~WasInserted(nrec)
    <2> SUFFICES ASSUME NEW i \in Insertions, origin[out[i].pipe] = nrec
                 PROVE  ~Pending(p)
      BY DEF WasInserted
    <2>1. out[i].pipe = p
      BY <1>4, OutTyped DEF Insertions, PatientInv
    <2> QED BY <2>1 DEF PatientInv, InsertedPast, Past, Pending
  <1> QED BY <1>2, <1>3, <1>4, <1>5

\* A pipeline in flight is settled: it inserts, or is given up.
LEMMA Settles ==
  ASSUME PatientInv, NEW p \in Pipes, pc[p] \in InFlight,
         UNCHANGED <<nrec, recording, origin, stopper>>, ~Pending(p)',
         \A q \in Pipes : q # p => (Pending(q)' <=> Pending(q)),
         \/ UNCHANGED out
         \/ /\ pc[p] \in {"insert", "clip"}
            /\ out' = Append(out, [pipe |-> p, text |-> text[p]])
  PROVE  [Service!Next]_(Service!serviceVars)
  <1>1. CASE ~Pending(p)
    <2>1. pc[p] \notin {"insert", "clip"}
      BY <1>1 DEF Pending, PatientInv, PhaseInv, Done
    <2> QED BY <1>1, <2>1, AllSame
  <1>2. CASE Pending(p)
    <2>1. PICK r \in Recs : r = nrec
      BY InFlightCurrent
    <2>2. /\ origin[p] = r /\ ~recording /\ stopper["hotkey"] = "out"
          /\ ~WasInserted(r) /\ \A q \in Pipes : origin[q] = r => q = p
      BY <1>2, <2>1, InFlightCurrent
    <2>3. PhaseOf(r) = "pending"
      BY <1>2, <2>1, <2>2, Numbers DEF PhaseOf, WasInserted, PatientInv
    <2>4. /\ \A q \in Recs \ {r} : Awaited(q)' <=> Awaited(q)
          /\ ~Awaited(r)'
      BY <2>2 DEF Awaited
    <2>5. CASE UNCHANGED out
      <3>1. \A q : WasInserted(q)' <=> WasInserted(q)
        BY <2>5, SameInserted
      <3>2. PhaseOf(r)' = "over"
        <4>1. /\ r = nrec' /\ ~(r > nrec') /\ ~recording'
              /\ ~WasInserted(r)' /\ stopper'["hotkey"] # "flipped"
          BY <2>1, <2>2, <3>1, Numbers DEF PatientInv
        <4> QED BY <2>4, <4>1 DEF PhaseOf, WasInserted, Awaited
      <3>3. Phase' = [Phase EXCEPT ![r] = "over"]
        BY <2>1, <2>4, <3>1, <3>2, OneMoves
      <3> QED BY <2>3, <2>5, <3>3, SameInserted, ServiceGivesUp
    <2>6. CASE out' = Append(out, [pipe |-> p, text |-> text[p]])
      <3>1. \A q : WasInserted(q)' <=> WasInserted(q) \/ q = r
        BY <2>2, <2>6, OneInserted DEF PatientInv
      <3>2. PhaseOf(r)' = "inserted"
        <4>1. ~(r > nrec') /\ WasInserted(r)'
          BY <2>1, <3>1, Numbers DEF PatientInv
        <4> QED BY <4>1 DEF PhaseOf, WasInserted
      <3>3. Phase' = [Phase EXCEPT ![r] = "inserted"]
        BY <2>1, <2>4, <3>1, <3>2, OneMoves
      <3>4. Listed' = Append(Listed, r)
        BY <2>2, <2>6, OneInserted DEF PatientInv
      <3> QED BY <2>3, <3>3, <3>4, ServiceInserts
    <2> QED BY <2>5, <2>6
  <1> QED BY <1>1, <1>2

-----------------------------------------------------------------------------
\* Step by step.

LEMMA AsideServes ==
  ASSUME PatientInv, Aside
  PROVE  UNCHANGED Service!serviceVars
  <1>1. UNCHANGED <<nrec, recording, out, origin, stopper, failed>>
    BY DEF Aside, captureVars, userVars, historyOfUser
  <1>2. \A p \in Pipes : Pending(p)' <=> Pending(p)
    BY <1>1 DEF Aside, Pending
  <1> QED BY <1>1, <1>2, AllSame

LEMMA AdvancesServes ==
  ASSUME PatientInv, "asr" \notin Outcomes, NEW p \in Pipes, Advances(p)
  PROVE  [Service!Next]_(Service!serviceVars)
  <1>1. /\ UNCHANGED <<nrec, recording, origin, stopper>>
        /\ Works(p) \/ Stops(p)
    BY DEF Advances, captureVars, userVars, historyOfUser
  <1>0. pc \in [Pipes -> PipePcs] /\ failed \subseteq Pipes
    BY Numbers DEF PatientInv, TypeOK, OrchestratorTypeOK, HistoryTypeOK
  <1>2. CASE Works(p)
    <2>1. /\ UNCHANGED <<out, failed>>
          /\ \E x \in {"stream"} \union Holding : pc' = [pc EXCEPT ![p] = x]
          /\ pc[p] \in {"new", "streamed"} \union Holding
      BY <1>2 DEF Works
    <2>2. \A q \in Pipes : Pending(q)' <=> Pending(q)
      BY <1>0, <2>1 DEF Pending, Holding, Inserting
    <2> QED BY <1>1, <2>1, <2>2, AllSame
  <1>3. CASE Stops(p)
    <2>1. /\ pc[p] \in InFlight
          /\ pc' = [pc EXCEPT ![p] = "ended"]
          /\ failed' \in {failed, failed \union {p}}
          /\ \/ UNCHANGED out
             \/ /\ pc[p] \in {"insert", "clip"}
                /\ out' = Append(out, [pipe |-> p, text |-> text[p]])
      BY <1>0, <1>3 DEF Stops, InFlight
    <2>2. /\ ~Pending(p)'
          /\ \A q \in Pipes : q # p => (Pending(q)' <=> Pending(q))
      BY <1>0, <2>1 DEF Pending
    <2> QED BY <1>1, <2>1, <2>2, Settles
  <1> QED BY <1>1, <1>2, <1>3

LEMMA HandlersServe ==
  ASSUME PatientInv, OnRecordingStopped \/ OnPipelineDone \/ TimerFires,
         UNCHANGED <<captureVars, userVars>>
  PROVE  UNCHANGED Service!serviceVars
  <1>1. UNCHANGED <<nrec, recording, out, origin, stopper, failed>>
    BY DEF captureVars, userVars, historyOfUser, OnRecordingStopped, OnPipelineDone,
           TimerFires, historyVars
  <1>2. CASE OnRecordingStopped
    <2> DEFINE p == Head(ready).id
    <2>1. Runs("stopped") /\ pc' = [pc EXCEPT ![p] = "new"]
      BY <1>2 DEF OnRecordingStopped
    <2>2. p \in Pipes /\ pc[p] = "none"
      BY <2>1, HeadIsFirst, Numbers
         DEF PatientInv, Ours, Current, ForPipe, Births, Numbered, Announces
    <2> HIDE DEF p
    <2>3. \A q \in Pipes : Pending(q)' <=> Pending(q)
      BY <1>1, <2>1, <2>2, Numbers DEF Pending, PatientInv
    <2> QED BY <1>1, <2>3, AllSame
  <1>3. CASE OnPipelineDone
    <2> DEFINE p == Head(ready).id
    <2>1. Runs("joined") /\ pc' = [pc EXCEPT ![p] = "gone"]
      BY <1>3 DEF OnPipelineDone
    <2>2. p \in Pipes /\ pc[p] \in Done
      BY <2>1, HeadIsFirst DEF PatientInv, Numbered, Resumes
    <2> HIDE DEF p
    <2>3. \A q \in Pipes : Pending(q)' <=> Pending(q)
      BY <1>1, <2>1, <2>2, Numbers DEF Pending, PatientInv, Done
    <2> QED BY <1>1, <2>3, AllSame
  <1>4. CASE TimerFires
    <2>1. \A q \in Pipes : Pending(q)' <=> Pending(q)
      BY <1>1, <1>4 DEF Pending, TimerFires, pipeVars
    <2> QED BY <1>1, <2>1, AllSame
  <1> QED BY <1>2, <1>3, <1>4

\* cancel() on the loop: the pipeline it reaches is given up, or has just typed
\* its text.
LEMMA LoopCancelServes ==
  ASSUME PatientInv, LoopCancel
  PROVE  [Service!Next]_(Service!serviceVars)
  <1>1. /\ Cancel /\ UNCHANGED <<nrec, recording, origin, stopper, failed, handle>>
    BY DEF LoopCancel, Cancel, captureVars
  <1>2. CASE handle # 0 /\ pc[handle] \in InFlight
    <2>1. PICK p \in Pipes : p = handle
      BY <1>2, BoundsAssumption
         DEF Pipes, PatientInv, TypeOK, OrchestratorTypeOK, SharedTypeOK
    <2>2. /\ pc'[p] \in {"killed", "cancelled"}
          /\ \A q \in Pipes : q # p => pc'[q] = pc[q]
          /\ \/ UNCHANGED out
             \/ /\ pc[p] \in {"insert", "clip"}
                /\ out' = Append(out, [pipe |-> p, text |-> text[p]])
      BY <1>1, <1>2, <2>1, Numbers DEF Cancel, PatientInv
    <2>3. /\ ~Pending(p)'
          /\ \A q \in Pipes : q # p => (Pending(q)' <=> Pending(q))
      BY <1>1, <2>2 DEF Pending
    <2> QED BY <1>1, <1>2, <2>1, <2>2, <2>3, Settles
  <1>3. CASE ~(handle # 0 /\ pc[handle] \in InFlight)
    <2>1. UNCHANGED <<pc, out>>
      BY <1>1, <1>3 DEF Cancel
    <2>2. \A q \in Pipes : Pending(q)' <=> Pending(q)
      BY <1>1, <2>1 DEF Pending
    <2> QED BY <1>1, <2>1, <2>2, AllSame
  <1> QED BY <1>2, <1>3

LEMMA PendingSame ==
  ASSUME UNCHANGED <<pc, failed>>
  PROVE  \A q \in Pipes : Pending(q)' <=> Pending(q)
  BY DEF Pending

\* Nothing of a recording in progress awaits insertion, or has been inserted.
LEMMA RecordingAlone ==
  ASSUME PatientInv, recording \/ stopper["hotkey"] # "out"
  PROVE  nrec \in Recs /\ ~Awaited(nrec) /\ ~WasInserted(nrec)
  <1>1. nrec \in Recs
    BY Numbers, BoundsAssumption DEF PatientInv, Ours, Recs, Threads
  <1>2. \A p \in 1..nstop : origin[p] # nrec
    BY DEF PatientInv, Ours, OneEach
  <1>3. ASSUME NEW p \in Pipes PROVE origin[p] # nrec
    <2>1. p > nstop => origin[p] = 0
      BY DEF PatientInv, PhaseInv
    <2>2. p > nstop \/ p \in 1..nstop
      BY Numbers DEF PatientInv, Pipes
    <2> QED BY <1>1, <1>2, <2>1, <2>2, BoundsAssumption DEF Recs
  <1>4. \A i \in Insertions : out[i].pipe \in Pipes
    BY OutTyped DEF PatientInv, Insertions
  <1> QED BY <1>1, <1>3, <1>4 DEF Awaited, WasInserted

LEMMA HotkeyCancelServes ==
  ASSUME PatientInv, HotkeyCancel
  PROVE  [Service!Next]_(Service!serviceVars)
  <1>1. /\ UNCHANGED <<nrec, origin, stopper, out, pc, failed>>
        /\ recording' = FALSE /\ stopper["hotkey"] = "out"
    BY DEF HotkeyCancel, HotkeyFree, CancelRecording, pipeVars, historyVars
  <1>2. CASE ~recording
    <2>1. recording' = recording
      BY <1>1, <1>2 DEF PatientInv, TypeOK, CaptureTypeOK
    <2> QED BY <1>1, <2>1, PendingSame, AllSame
  <1>3. CASE recording
    <2>1. PICK r \in Recs : r = nrec /\ ~Awaited(r) /\ ~WasInserted(r)
      BY <1>3, RecordingAlone
    <2>2. PhaseOf(r) = "recording"
      BY <1>3, <2>1, Numbers DEF PhaseOf, WasInserted, PatientInv
    <2>3. \A q : /\ WasInserted(q)' <=> WasInserted(q)
                 /\ Awaited(q)' <=> Awaited(q)
      BY <1>1, SameInserted, PendingSame DEF Awaited
    <2>4. PhaseOf(r)' = "over"
      <3>1. /\ r = nrec' /\ ~(r > nrec') /\ ~recording'
            /\ ~WasInserted(r)' /\ ~Awaited(r)' /\ stopper'["hotkey"] # "flipped"
        BY <1>1, <2>1, <2>3, Numbers DEF PatientInv
      <3> QED BY <3>1 DEF PhaseOf, WasInserted, Awaited
    <2>5. Phase' = [Phase EXCEPT ![r] = "over"]
      BY <1>1, <2>1, <2>3, <2>4, OneMoves
    <2> QED BY <1>1, <2>2, <2>5, SameInserted, ServiceGivesUp
  <1> QED BY <1>2, <1>3

LEMMA SpeakServes ==
  ASSUME PatientInv, Speak \/ CaptureStep
  PROVE  UNCHANGED Service!serviceVars
  <1>1. UNCHANGED <<nrec, recording, origin, stopper, out, pc, failed>>
    BY DEF Speak, AudioBlock, CaptureStep, FinalizeStop, captureVars, userVars,
           historyOfUser, orchestratorVars, pipeVars, historyVars
  <1> QED BY <1>1, PendingSame, AllSame

LEMMA StopServes ==
  ASSUME PatientInv, ~AutoStop, StopRecording
  PROVE  [Service!Next]_(Service!serviceVars)
  <1>1. PICK t \in Threads : StopStarts(t) \/ StopProceeds(t)
    BY DEF StopRecording
  <1>2. /\ UNCHANGED <<nrec, out, pc, failed>>
        /\ stopper \in [Threads -> StopperPcs] /\ Threads = {"hotkey", "audio"}
    BY <1>1, Numbers
       DEF StopStarts, StopProceeds, StopTests, StopFlips, StopPosts, Threads,
           orchestratorVars, pipeVars, historyVars, PatientInv
  <1>3. CASE StopStarts(t)
    <2>1. /\ UNCHANGED <<recording, origin>> /\ stopper[t] = "out"
          /\ stopper' = [stopper EXCEPT ![t] = "tested"]
      BY <1>3 DEF StopStarts, StopTests, userVars, historyOfUser
    <2>2. stopper'["hotkey"] = "flipped" <=> stopper["hotkey"] = "flipped"
      BY <1>2, <2>1
    <2> QED BY <1>2, <2>1, <2>2, PendingSame, AllSame
  <1>4. CASE StopFlips(t) /\ UNCHANGED origin
    <2>1. /\ t = "hotkey" /\ recording /\ recording' = FALSE
          /\ stopper' = [stopper EXCEPT ![t] = "flipped"]
      BY <1>2, <1>4 DEF StopFlips, PatientInv, OneEach
    <2>2. PICK r \in Recs : r = nrec /\ ~Awaited(r) /\ ~WasInserted(r)
      BY <2>1, RecordingAlone
    <2>3. PhaseOf(r) = "recording"
      BY <2>1, <2>2, Numbers DEF PhaseOf, WasInserted, PatientInv
    <2>4. \A q : /\ WasInserted(q)' <=> WasInserted(q)
                 /\ Awaited(q)' <=> Awaited(q)
      BY <1>2, <1>4, SameInserted, PendingSame DEF Awaited
    <2>5. PhaseOf(r)' = "pending"
      <3>1. /\ r = nrec' /\ ~(r > nrec') /\ ~recording'
            /\ ~WasInserted(r)' /\ ~Awaited(r)' /\ stopper'["hotkey"] = "flipped"
        BY <1>2, <2>1, <2>2, <2>4, Numbers DEF PatientInv
      <3> QED BY <3>1 DEF PhaseOf, WasInserted, Awaited
    <2>6. Phase' = [Phase EXCEPT ![r] = "pending"]
      BY <1>2, <2>2, <2>4, <2>5, OneMoves
    <2> QED BY <1>2, <1>4, <2>3, <2>6, SameInserted, ServiceStops
  <1>5. CASE StopPosts(t) /\ origin' = [origin EXCEPT ![nstop + 1] = nrec]
    <2>1. /\ t = "hotkey" /\ stopper["hotkey"] = "flipped"
          /\ stopper' = [stopper EXCEPT ![t] = "out"]
          /\ nstop < MaxPipes /\ UNCHANGED recording
      BY <1>2, <1>5 DEF StopPosts, PatientInv, OneEach
    <2>2. PICK r \in Recs : r = nrec /\ ~Awaited(r) /\ ~WasInserted(r)
      BY <2>1, RecordingAlone
    <2>3. ~recording /\ nrec \in Nat
      BY <2>1, Numbers DEF PatientInv, Ours, Threads
    <2>4. PICK n \in Pipes : n = nstop + 1
      BY <2>1, Numbers, BoundsAssumption DEF PatientInv, Pipes
    <2>5. origin[n] = 0 /\ pc[n] = "none" /\ n \notin failed
      BY <2>4, Numbers DEF PatientInv, PhaseInv, Numbered, Done
    <2>6. /\ origin'[n] = r
          /\ \A p \in Pipes \ {n} : origin'[p] = origin[p]
      BY <1>5, <2>2, <2>4, Numbers DEF PatientInv
    <2>7. \A q \in Pipes : Pending(q)' <=> Pending(q)
      BY <1>2, PendingSame
    <2>8. Pending(n)'
      BY <1>2, <2>5 DEF Pending
    <2>9. \A i \in Insertions : out[i].pipe \in Pipes \ {n}
      BY <2>5, OutTyped DEF PatientInv, Insertions, InsertedPast, Past
    <2>10. Insertions' = Insertions /\ out' = out
      BY <1>2 DEF Insertions
    <2>11. /\ \A q : WasInserted(q)' <=> WasInserted(q)
           /\ Listed' = Listed
      BY <2>6, <2>9, <2>10 DEF WasInserted, Listed
    <2>12. \A q \in Recs \ {r} : Awaited(q)' <=> Awaited(q)
      <3>1. 0 \notin Recs
        BY DEF Recs
      <3> QED BY <2>5, <2>6, <2>7, <3>1 DEF Awaited
    <2>13. PhaseOf(r) = "pending"
      BY <2>1, <2>2, <2>3 DEF PhaseOf, WasInserted, Awaited
    <2>14. PhaseOf(r)' = "pending"
      <3>1. /\ r = nrec' /\ ~(r > nrec') /\ ~recording'
            /\ ~WasInserted(r)' /\ Awaited(r)'
        BY <1>2, <2>1, <2>2, <2>3, <2>6, <2>8, <2>11 DEF Awaited
      <3> QED BY <3>1 DEF PhaseOf, WasInserted, Awaited
    <2>15. Phase' = [Phase EXCEPT ![r] = "pending"]
      BY <1>2, <2>2, <2>11, <2>12, <2>14, OneMoves
    <2>16. Phase' = Phase
      BY <2>13, <2>15 DEF Phase
    <2> QED BY <2>11, <2>16, ServiceStutters
  <1> QED BY <1>1, <1>3, <1>4, <1>5 DEF StopProceeds

\* A new recording: those before it have all been settled.
LEMMA HotkeyStartServes ==
  ASSUME PatientInv, ~Hasty, HotkeyStart
  PROVE  Service!Next
  <1>1. /\ Len(ready) = 0 /\ ~recording /\ stopper["hotkey"] = "out"
        /\ \A p \in Pipes : pc[p] \in {"none", "gone"}
        /\ nrec < MaxRecs /\ nrec' = nrec + 1 /\ recording' = TRUE
        /\ UNCHANGED <<origin, out, pc, failed, stopper>>
    BY DEF HotkeyStart, HotkeyFree, Settled, StartRecording, pipeVars, historyVars,
           userVars, historyOfUser
  <1>2. PICK r \in Recs : r = nrec + 1 /\ r = nrec'
    BY <1>1, Numbers, BoundsAssumption DEF PatientInv, Recs
  <1>3. \A p \in 1..nstop : pc[p] # "none"
    BY <1>1, Numbers DEF PatientInv, PhaseInv
  <1>4. ASSUME NEW p \in Pipes, origin[p] # 0 PROVE ~Pending(p) /\ origin[p] \in 1..nrec
    <2>1. p \in 1..nstop
      BY <1>4, Numbers DEF PatientInv, PhaseInv, Pipes
    <2> QED BY <1>1, <1>3, <2>1 DEF Pending, PatientInv, Ours
  <1>5. \A q \in Recs : ~Awaited(q)
    BY <1>4 DEF Awaited, Recs
  <1>6. \A q : /\ WasInserted(q)' <=> WasInserted(q)
               /\ Awaited(q)' <=> Awaited(q)
    BY <1>1, SameInserted, PendingSame DEF Awaited
  <1>7. ~WasInserted(r)
    <2>1. \A i \in Insertions : out[i].pipe \in Pipes
      BY OutTyped DEF PatientInv, Insertions
    <2>2. r # 0 /\ r \notin 1..nrec
      BY <1>2, Numbers DEF PatientInv, Recs
    <2> QED BY <1>4, <2>1, <2>2 DEF WasInserted
  <1>8. ASSUME NEW q \in Recs, q < r
        PROVE  PhaseOf(q) \in {"inserted", "over"} /\ PhaseOf(q)' = PhaseOf(q)
    <2>1. ~(q > nrec) /\ ~(q > nrec') /\ ~(q = nrec' /\ recording')
      BY <1>1, <1>2, <1>8, Numbers DEF PatientInv, Recs
    <2>2. /\ PhaseOf(q) = IF WasInserted(q) THEN "inserted" ELSE "over"
          /\ PhaseOf(q)' = IF WasInserted(q)' THEN "inserted" ELSE "over"
      <3>1. ~Awaited(q) /\ ~Awaited(q)' /\ stopper'["hotkey"] # "flipped"
        BY <1>1, <1>5, <1>6
      <3> QED BY <1>1, <2>1, <3>1 DEF PhaseOf, WasInserted, Awaited
    <2> QED BY <1>6, <2>2
  <1>9. ASSUME NEW q \in Recs, q > r
        PROVE  PhaseOf(q)' = PhaseOf(q)
    <2>1. q > nrec /\ q > nrec'
      BY <1>2, <1>9, Numbers DEF PatientInv, Recs
    <2> QED BY <2>1 DEF PhaseOf
  <1>10. PhaseOf(r) = "unused"
    <2>1. r > nrec
      BY <1>2, Numbers DEF PatientInv
    <2> QED BY <2>1 DEF PhaseOf
  <1>11. PhaseOf(r)' = "recording"
    <2>1. ~(r > nrec') /\ r = nrec' /\ recording' /\ ~WasInserted(r)'
      BY <1>1, <1>2, <1>6, <1>7, Numbers DEF PatientInv
    <2> QED BY <2>1 DEF PhaseOf, WasInserted
  <1>12. \A q \in Recs : q < r \/ q = r \/ q > r
    BY DEF Recs
  <1>13. Phase' = [Phase EXCEPT ![r] = "recording"]
    BY <1>8, <1>9, <1>11, <1>12 DEF Phase
  <1>14. \A q \in 1..(r - 1) : q \in Recs /\ q < r
    BY BoundsAssumption DEF Recs
  <1>15. \A q \in 1..(r - 1) : PhaseOf(q) \in {"inserted", "over"}
    BY <1>8, <1>14
  <1> QED BY <1>1, <1>10, <1>13, <1>15, SameInserted, ServiceStarts

LEMMA ServiceStep ==
  ASSUME PatientInv, ~Hasty, ~AutoStop, "asr" \notin Outcomes, [Next]_vars
  PROVE  [Service!Next]_(Service!serviceVars)
  BY EveryStep, AsideServes, AdvancesServes, HandlersServe, LoopCancelServes,
     HotkeyCancelServes, SpeakServes, StopServes, HotkeyStartServes DEF PatientInv

LEMMA ServiceInit == Init => Service!Init
  <1> SUFFICES ASSUME Init PROVE Service!Init
    OBVIOUS
  <1>1. nrec = 0 /\ Len(out) = 0
    BY DEF Init, CaptureInit, OrchestratorInit
  <1>2. \A r \in Recs : PhaseOf(r) = "unused"
    BY <1>1 DEF PhaseOf, Recs
  <1>3. Phase = [r \in Recs |-> "unused"] /\ Listed = <<>>
    BY <1>1, <1>2 DEF Phase, Listed, Insertions
  <1> QED BY <1>3 DEF Service!Init, Service!Recordings, Phase, Listed, Recs

\* Dictation implements DictationService: whatever the interleaving of hotkey,
\* audio and loop threads, of timers, failures and cancellations, each step of
\* the pipeline is a start, a stop, an insertion or a giving up of one dictation,
\* or nothing its user would notice.
THEOREM ServiceImplemented ==
  ASSUME ~Hasty, ~AutoStop, "asr" \notin Outcomes
  PROVE  Spec => ServiceSpec
  <1>1. /\ TypeOK /\ Ours /\ InsertedInv /\ CancelInv /\ PhaseInv /\ [Next]_vars
        => Ours' /\ CancelInv' /\ PhaseInv'
    BY OursStep, CancelStep, PhaseStep DEF InsertedInv, CancelInv
  <1>2. Init => CancelInv
    BY OneEachInit, CutInit DEF CancelInv
  <1>3. TypeOK /\ Ours /\ InsertedInv /\ CancelInv /\ PhaseInv /\ [Next]_vars
        => [Service!Next]_(Service!serviceVars)
    BY ServiceStep DEF PatientInv, InsertedInv, CancelInv
  <1> QED
    BY <1>1, <1>2, <1>3, ServiceInit, OursInit, PhaseInit, InsertedInit, InsertedStep,
       TypeCorrect, PTL DEF Spec, ServiceSpec, Service!Spec

-----------------------------------------------------------------------------
\* What is proved of the service holds of its implementation.

Order ==
  INSTANCE DictationServiceProofs
    WITH phase    <- [r \in Recs |-> PhaseOf(r)],
         inserted <- [i \in Insertions |-> origin[out[i].pipe]]

InsertedInOrder ==
  \A i, j \in Insertions : i < j => origin[out[i].pipe] < origin[out[j].pipe]

\* Dictations are inserted in the order they were spoken in, each at most once:
\* no recording has two pipelines that insert, and none overtakes another.
THEOREM SpokenOrder ==
  ASSUME ~Hasty, ~AutoStop, "asr" \notin Outcomes
  PROVE  Spec => []InsertedInOrder
  <1>1. Spec => ServiceSpec
    BY ServiceImplemented
  <1>2. Service!Init => Order!Init
    BY DEF Service!Init, Order!Init, Service!Recordings, Order!Recordings
  <1>3. [Service!Next]_(Service!serviceVars) => [Order!Next]_(Order!serviceVars)
    BY DEF Service!Next, Service!Start, Service!Stop, Service!Insert, Service!GiveUp,
           Service!Moves, Service!Recordings, Service!serviceVars,
           Order!Next, Order!Start, Order!Stop, Order!Insert, Order!GiveUp,
           Order!Moves, Order!Recordings, Order!serviceVars
  <1>4. Order!Spec => []Order!InOrder
    BY Order!ServiceInOrder
  <1>5. TypeOK /\ Order!InOrder => InsertedInOrder
    <2> SUFFICES ASSUME TypeOK, Order!InOrder PROVE InsertedInOrder
      OBVIOUS
    <2>1. Len(out) \in Nat
      BY OutTyped
    <2>2. Len([i \in Insertions |-> origin[out[i].pipe]]) = Len(out)
      BY <2>1 DEF Insertions
    <2> QED BY <2>1, <2>2 DEF Order!InOrder, InsertedInOrder, Insertions
  <1> QED
    BY <1>1, <1>2, <1>3, <1>4, <1>5, TypeCorrect, PTL
       DEF ServiceSpec, Service!Spec, Order!Spec

=============================================================================
