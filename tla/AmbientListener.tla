-------------------------- MODULE AmbientListener --------------------------
(***************************************************************************)
(* observer/audio.py: the worker that cuts the microphone's blocks into    *)
(* utterances.  A block is its time stamp; what the voice detector says of *)
(* a block is chosen when the worker processes it.  Times are in blocks.   *)
(***************************************************************************)
EXTENDS Integers, Sequences, SequencesExt

CONSTANTS Depth,    \* queue_depth
          Preroll,  \* preroll_ms
          Silence,  \* silence_timeout_ms
          Least,    \* min_utterance_ms
          Most      \* max_utterance_ms

ASSUME AmbientAssumption ==
  /\ Depth \in Nat \ {0} /\ Preroll \in Nat \ {0}
  /\ Silence \in Nat /\ Least \in Nat /\ Most \in Nat

VARIABLES
  blocks,   \* _queue
  worker,   \* the thread
  vad,      \* is_available: the model is loaded
  segment,  \* the state only the worker touches
  emitted,  \* history: utterances given to on_utterance
  said,     \* history: blocks heard as speech
  short     \* history: blocks of utterances dropped as too short

segmentVars == <<segment, emitted, said, short>>
ambientVars == <<blocks, worker, vad, segmentVars>>

Stop == 0  \* _SENTINEL_STOP; stamps are positive

Workers == {"none", "loading", "listening",
            "announcing"}  \* in on_speech_onset()

\* quiet = 0 when no silence is running, start = 0 before the first utterance.
Fresh == [speaking |-> FALSE, audio |-> {}, start |-> 0, quiet |-> 0, last |-> 0,
          preroll |-> <<>>]

AmbientTypeOK ==
  /\ blocks \in Seq(Nat) /\ Len(blocks) <= Depth
  /\ worker \in Workers
  /\ vad \in BOOLEAN
  /\ segment.speaking \in BOOLEAN
  /\ segment.audio \subseteq Nat \ {0}
  /\ segment.start \in Nat /\ segment.quiet \in Nat /\ segment.last \in Nat
  /\ segment.preroll \in Seq(Nat \ {0}) /\ Len(segment.preroll) <= Preroll
  /\ said \subseteq Nat \ {0} /\ short \subseteq Nat \ {0}

AmbientInit ==
  /\ blocks = <<>> /\ worker = "none" /\ vad = FALSE
  /\ segment = Fresh /\ emitted = <<>> /\ said = {} /\ short = {}

-----------------------------------------------------------------------------
\* The microphone, whose callback feeds blocks whether or not a session is open.

Feed(ts) ==
  /\ blocks' = IF Len(blocks) < Depth THEN Append(blocks, ts) ELSE blocks
  /\ UNCHANGED <<worker, vad, segmentVars>>

-----------------------------------------------------------------------------
\* The worker.

\* _ensure_vad_loaded(), which may fail.
Load ==
  /\ worker = "loading"
  /\ worker' = "listening"
  /\ vad' \in BOOLEAN
  /\ UNCHANGED <<blocks, segmentVars>>

TooShort(g) == g.last - g.start < Least

\* _emit_utterance()
Emit(g) ==
  /\ emitted' = IF g.audio = {} \/ TooShort(g) THEN emitted
                ELSE Append(emitted, [start |-> g.start, audio |-> g.audio])
  /\ short' = IF TooShort(g) THEN short \union g.audio ELSE short

\* Mutant: the thread just ends.
StopsAtOnce ==
  /\ worker = "listening" /\ blocks # <<>> /\ Head(blocks) = Stop
  /\ blocks' = Tail(blocks)
  /\ worker' = "none"
  /\ segment' = [segment EXCEPT !.audio = {}]
  /\ UNCHANGED <<vad, emitted, said, short>>

\* The sentinel: what was said is emitted, the state stays as it is.
Stops ==
  /\ worker = "listening" /\ blocks # <<>> /\ Head(blocks) = Stop
  /\ blocks' = Tail(blocks)
  /\ worker' = "none"
  /\ IF segment.speaking
       THEN Emit(segment) /\ segment' = [segment EXCEPT !.audio = {}]
       ELSE UNCHANGED <<segment, emitted, short>>
  /\ UNCHANGED <<vad, said>>

Takes(b) ==
  /\ worker = "listening" /\ blocks # <<>> /\ Head(blocks) = b /\ b # Stop
  /\ blocks' = Tail(blocks)
  /\ UNCHANGED vad

\* There is no model: nothing can be segmented.
Discards == \E b \in ToSet(blocks) :
  ~vad /\ Takes(b) /\ UNCHANGED <<worker, segmentVars>>

StaysIdle == \E b \in ToSet(blocks) :
  /\ vad /\ ~segment.speaking
  /\ Takes(b)
  /\ LET all == Append(segment.preroll, b)
     IN  segment' = [segment EXCEPT !.last = b,
                       !.preroll = IF Len(all) > Preroll THEN Tail(all) ELSE all]
  /\ UNCHANGED <<worker, emitted, said, short>>

\* Speech begins, with the blocks before it.
Onset == \E b \in ToSet(blocks) :
  /\ vad /\ ~segment.speaking
  /\ Takes(b)
  /\ worker' = "announcing"
  /\ said' = said \union {b}
  /\ segment' =
       [speaking |-> TRUE, audio |-> ToSet(segment.preroll) \union {b},
        start |-> Head(Append(segment.preroll, b)),
        quiet |-> 0, last |-> b, preroll |-> <<>>]
  /\ UNCHANGED <<emitted, short>>

\* The segment with one more block.
Longer(g, b, speech) ==
  [g EXCEPT !.audio = @ \union {b}, !.last = b,
            !.quiet = IF speech THEN 0 ELSE IF @ = 0 THEN b ELSE @]

Closes(g, b, speech) == ~speech /\ b - g.quiet >= Silence

\* Mutant: the second half keeps the first one's audio.
RestKeeps(g, b) == [g EXCEPT !.start = b, !.quiet = 0]

\* What stays of a segment that is split: the block belongs to both halves.
Rest(g, b) == [g EXCEPT !.audio = {b}, !.start = b, !.quiet = 0]

Speaks(speech) == \E b \in ToSet(blocks) :
  LET g == Longer(segment, b, speech)
  IN  /\ vad /\ segment.speaking
      /\ Takes(b)
      /\ said' = IF speech THEN said \union {b} ELSE said
      /\ CASE Closes(g, b, speech) ->
                Emit(g) /\ segment' = [Fresh EXCEPT !.start = g.start, !.last = b]
           [] ~Closes(g, b, speech) /\ b - g.start >= Most ->
                Emit(g) /\ segment' = Rest(g, b)
           [] OTHER -> segment' = g /\ UNCHANGED <<emitted, short>>
      /\ UNCHANGED worker

-----------------------------------------------------------------------------
\* Methods the controller calls.

StartListening ==
  /\ worker' = IF worker = "none" THEN "loading" ELSE worker
  /\ UNCHANGED <<blocks, vad, segmentVars>>

\* stop(): the sentinel, if there is room for it.
Put(b) ==
  /\ Len(blocks) < Depth
  /\ blocks' = Append(blocks, b)
  /\ UNCHANGED <<worker, vad, segmentVars>>

DrainOne ==
  /\ blocks # <<>>
  /\ blocks' = Tail(blocks)
  /\ UNCHANGED <<worker, vad, segmentVars>>

\* The thread has been joined; the model is released.
StopListening ==
  /\ worker = "none"
  /\ vad' = FALSE
  /\ UNCHANGED <<blocks, worker, segmentVars>>

-----------------------------------------------------------------------------
\* Utterances follow one another: an utterance shares audio with the next one
\* only when it was split for its length, and then just the block at which it
\* was; no other two share any, and none comes before an earlier one's audio.
UtterancesInOrder ==
  \A i, j \in DOMAIN emitted : i < j =>
    \A a \in emitted[i].audio, b \in emitted[j].audio :
      \/ a < b
      \/ a = b /\ j = i + 1 /\ a - emitted[i].start >= Most

\* What was heard as speech is in an utterance, or in the one being said, or in
\* one too short to be one: also when the session ends in mid-sentence.
SpeechKept ==
  said \subseteq (UNION {emitted[i].audio : i \in DOMAIN emitted})
                   \union short \union segment.audio
=============================================================================
