---------------------------- MODULE SessionBlocks ----------------------------
(***************************************************************************)
(* What the compilers and the exporters make of a recorded session: the    *)
(* blocks of its timeline, the markdown section and the record of a block, *)
(* and the blocks of the JSON sidecar.  Formatting is left out, and so are *)
(* window titles (found as the application is) and cut-off texts.          *)
(***************************************************************************)
EXTENDS Naturals, FiniteSets, SequencesExt

CONSTANTS
  BlockGap,  \* _BLOCK_GAP_MS
  OcrLines,  \* _OCR_LINES_PER_KEYFRAME
  LlmLines   \* _BLOCK_CHAR_BUDGET, in lines

\* The first event of a block is told: its header alone does not use the budget up.
ASSUME BlocksAssumption == BlockGap \in Nat /\ OcrLines \in Nat /\ LlmLines \in Nat \ {0}

Said  == {"utterance_ambient", "utterance_dictated"}
Kinds == Said \union {"focus_change", "selection", "keyframe", "pause_start", "pause_end", "gap"}

NoApp  == "no app"
NoText == [about |-> <<>>]  \* of a language model; otherwise what it was asked about

\* Its text is a sequence of lines without the empty ones, and for a pause or a gap
\* the reason; ocr is what came of reading a keyframe, and nothing else is read.
Events ==
  {e \in [ts : Nat, kind : Kinds, app : STRING, text : Seq(STRING),
          ocr : {"none", "pending", "ok", "failed"}] : e.ocr # "none" => e.kind = "keyframe"}

Event(ts, kind, app, text) == [ts |-> ts, kind |-> kind, app |-> app, text |-> text, ocr |-> "none"]

Of(events, kinds) == SelectSeq(events, LAMBDA e : e.kind \in kinds)
First(lines, n)   == SubSeq(lines, 1, IF Len(lines) < n THEN Len(lines) ELSE n)

-----------------------------------------------------------------------------
\* split_blocks()
Opens(e, prev) ==
  \/ e.kind = "focus_change"
  \/ e.app = prev.app /\ e.ts - prev.ts > BlockGap

\* Mutant: the event after a long gap is taken for the gap.
SplitDropping(events) ==
  LET put(blocks, e) ==
        IF blocks = <<>> THEN <<<<e>>>>
        ELSE IF Opens(e, Last(Last(blocks))) /\ e.kind # "focus_change" THEN blocks
        ELSE IF e.kind = "focus_change" THEN Append(blocks, <<e>>)
        ELSE Append(Front(blocks), Append(Last(blocks), e))
  IN  FoldLeft(put, <<>>, events)

\* The events that open a block: the first, and what Opens says of one and of the
\* one before it, which is the last of the block so far.
Openings(events) == {i \in 1..Len(events) : i = 1 \/ Opens(events[i], events[i - 1])}

SplitBlocks(events) ==
  LET number(i) == Cardinality({j \in Openings(events) : j <= i})
      block(n)  == {i \in 1..Len(events) : number(i) = n}
  IN  [n \in 1..number(Len(events)) |-> SubSeq(events, Min(block(n)), Max(block(n)))]

BlockWindow(block) == [from |-> Head(block).ts, to |-> Last(block).ts]

Apps(events) == SelectSeq([i \in 1..Len(events) |-> events[i].app], LAMBDA a : a # NoApp)
FirstApp(block) == IF Apps(block) = <<>> THEN NoApp ELSE Head(Apps(block))
LastApp(block)  == IF Apps(block) = <<>> THEN NoApp ELSE Last(Apps(block))

-----------------------------------------------------------------------------
\* _render_block(), the markdown section.

\* What is new on the screen: of each keyframe its first lines, without those that
\* an earlier one of the block has shown.
OnScreen(keyframes) ==
  LET look(acc, k) ==
        LET lines == First(k.text, OcrLines)
            new   == SelectSeq(lines, LAMBDA line : line \notin acc.shown)
        IN  [shown |-> acc.shown \union ToSet(lines),
             seen  |-> IF new = <<>> THEN acc.seen ELSE Append(acc.seen, new)]
  IN  FoldLeft(look, [shown |-> {}, seen |-> <<>>], keyframes).seen

Section(block) ==
  [window      |-> BlockWindow(block),
   app         |-> LastApp(block),
   narrative   |-> NoText,
   said        |-> SelectSeq(Of(block, Said), LAMBDA e : e.text # <<>>),
   highlighted |-> Of(block, {"selection"}),
   captures    |-> Len(Of(block, {"keyframe"})),
   onScreen    |-> OnScreen(Of(block, {"keyframe"})),
   notices     |-> Of(block, {"pause_start", "pause_end", "gap"})]

\* ... and the record: the same block without its wording, its pauses by their start.
Record(block) ==
  [window     |-> BlockWindow(block),
   app        |-> LastApp(block),
   summary    |-> NoText,
   utterances |-> Of(block, Said),
   selections |-> Of(block, {"selection"}),
   keyframes  |-> Of(block, {"keyframe"}),
   gaps       |-> Of(block, {"pause_start", "gap"})]

\* NoneCompiler: the whole timeline as one record without a name.
Dump(events) == [Record(events) EXCEPT !.app = NoApp, !.gaps = <<>>]

-----------------------------------------------------------------------------
\* JsonExporter._build_blocks(): the same boundaries, the application that comes
\* first in a block, the summaries by their index.
JsonBlocks(events, records) ==
  LET blocks == SplitBlocks(events)
  IN  [i \in 1..Len(blocks) |->
        [Record(blocks[i]) EXCEPT
           !.app     = FirstApp(blocks[i]),
           !.summary = IF i \in DOMAIN records THEN records[i].summary ELSE NoText,
           !.gaps    = Of(blocks[i], {"pause_start", "pause_end", "gap"})]]

\* _serialise_block_for_llm(): the events before the budget is used up.
Serialised(block) ==
  [about |-> [i \in 1..Len(First(block, LlmLines)) |->
                Event(block[i].ts, block[i].kind, block[i].app,
                      IF block[i].kind = "keyframe" THEN First(block[i].text, OcrLines) ELSE block[i].text)]]
=============================================================================
