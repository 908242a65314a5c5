------------------------------ MODULE Editing ------------------------------
(***************************************************************************)
(* From a transcript to the document: the pipeline's voice commands,       *)
(* corrections, vocabulary, screenshots and insertion, and the undo of the *)
(* hotkey and of the commands, which run as tasks beside it.               *)
(* Dictation models the recording and the recognition of the same          *)
(* dictations; here a transcript is chosen when recognition returns.       *)
(***************************************************************************)
EXTENDS Insertion, VoiceCommands, Screenshots

CONSTANTS
  MaxDictations, MaxUndos,  \* bounds: dictations, and presses of the undo hotkey
  Size,      \* saying -> the length of its text
  Lines,     \* sayings whose text has several lines, or is not ASCII
  Setups     \* set-ups: may the user speak before the last dictation is through
             \* (hasty), is the clean-up awaited (remote), which sayings are heard;
             \* and the bounds dictations, undos, shots and faults

Dictations == 1..MaxDictations

\* The tasks of the loop that call the insertion strategy.
Pipelines == {<<"pipeline", d>> : d \in Dictations}
Tasks     == {<<"command", d>> : d \in Dictations}
Hotkeys   == {<<"hotkey", h>> : h \in 1..MaxUndos}
Coroutines == Pipelines \union Tasks \union Hotkeys

ASSUME EditingAssumption ==
  /\ Callers = Coroutines
  /\ MaxDictations \in Nat /\ MaxUndos \in Nat /\ Shots \subseteq Nat
  /\ Size \in [Sayings -> Nat] /\ Size[""] = 0
  /\ Lines \subseteq Sayings
  /\ Setups \subseteq
       [hasty : BOOLEAN, remote : BOOLEAN, sayings : SUBSET Sayings,
        dictations : 0..MaxDictations, undos : 0..MaxUndos, shots : Nat, faults : Nat]

VARIABLES
  setup,      \* never changes
  spoken,     \* recordings begun
  recording,  \* is_recording
  stage,      \* where each task is
  text        \* the text each task inserts

flowVars == <<setup, spoken, recording>>
vars == <<insertionVars, voiceVars, shotVars, flowVars, stage, text>>

Stages ==
  {"none", "recognizing", "waiting", "extracting", "cleaning",   \* the pipeline
   "newline", "paragraph", "undo", "capitalize",                 \* a task, created
   "calling", "redoing",                                         \* and started
   "inserting", "undoing", "pasting", "over"}

TypeOK ==
  /\ InsertionTypeOK /\ VoiceTypeOK /\ ShotsTypeOK
  /\ setup \in Setups
  /\ spoken \in 0..setup.dictations /\ recording \in BOOLEAN
  /\ clears \in {spoken, spoken - 1}
  /\ \A c \in Coroutines : stage[c] \in Stages /\ text[c].words \in Sayings

Init ==
  /\ InsertionInit /\ VoiceInit /\ ShotsInit
  /\ setup \in Setups /\ spoken = 0 /\ recording = FALSE
  /\ stage = [c \in Coroutines |-> "none"]
  /\ text = [c \in Coroutines |-> Nothing]

-----------------------------------------------------------------------------
\* The user.

Quiescent == \A c \in Coroutines : stage[c] \in {"none", "over"}

\* The hotkey, which schedules prepare_for_recording() and starts to record.
StartRecording ==
  /\ ~recording /\ spoken < setup.dictations /\ clears = spoken
  /\ setup.hasty \/ Quiescent
  /\ recording' = TRUE /\ spoken' = spoken + 1
  /\ UNCHANGED <<insertionVars, voiceVars, shotVars, setup, stage, text>>

Prepare ==
  /\ clears < spoken
  /\ Clear
  /\ UNCHANGED <<insertionVars, voiceVars, flowVars, stage, text>>

StopRecording ==
  /\ recording
  /\ recording' = FALSE
  /\ stage' = [stage EXCEPT ![<<"pipeline", spoken>>] = "recognizing"]
  /\ UNCHANGED <<insertionVars, voiceVars, shotVars, setup, spoken, text>>

Screenshot(s) ==
  /\ recording /\ s <= setup.shots
  /\ Capture(s, spoken)
  /\ UNCHANGED <<insertionVars, voiceVars, flowVars, stage, text>>

SnipStep(s) ==
  /\ Overlay(s) \/ Snips(s) \/ Publishes(s)
  /\ UNCHANGED <<insertionVars, voiceVars, flowVars, stage, text>>

Selection == Selects /\ UNCHANGED <<insertionVars, voiceVars, flowVars, stage, text>>

\* The undo hotkey
Undo(h) ==
  LET c == <<"hotkey", h>>
  IN  /\ h <= setup.undos /\ stage[c] = "none"
      /\ \A k \in 1..(h - 1) : stage[<<"hotkey", k>>] # "none"
      /\ stage' = [stage EXCEPT ![c] = "calling"]
      /\ Track /\ UndoLast(c)
      /\ UNCHANGED <<shotVars, flowVars, text>>

-----------------------------------------------------------------------------
\* _run_insertion()

Inserts(c, t) ==
  Insert(c, Letters(c, Size[t.words] + Cardinality(t.images)),
         t.words \notin Lines /\ t.images = {})

Goes(c, to) == stage' = [stage EXCEPT ![c] = to]

Returned(c) == call[c].at \in {"ok", "failed"}

\* The strategy returns.  A failure is undone and tried through the clipboard.
InsertReturns(c) ==
  /\ stage[c] = "inserting" /\ Returned(c)
  /\ IF call[c].at = "ok"
     THEN /\ lastTranscript' = text[c] /\ Goes(c, "over")
          /\ UNCHANGED insertionVars
     ELSE /\ Goes(c, "undoing") /\ UndoLast(c) /\ UNCHANGED lastTranscript
  /\ UNCHANGED <<wrong, corrections, mappings, undone, shotVars, flowVars, text>>

FallsBack(c) ==
  /\ stage[c] = "undoing" /\ Returned(c)
  /\ Goes(c, "pasting")
  /\ Paste(c, Letters(c, Size[text[c].words] + Cardinality(text[c].images)))
  /\ UNCHANGED <<handle, voiceVars, shotVars, flowVars, text>>

PasteReturns(c) ==
  /\ stage[c] = "pasting" /\ Returned(c)
  /\ lastTranscript' = IF call[c].at = "ok" THEN text[c] ELSE lastTranscript
  /\ Goes(c, "over")
  /\ UNCHANGED <<insertionVars, wrong, corrections, mappings, undone, shotVars, flowVars,
                 text>>

-----------------------------------------------------------------------------
\* The pipeline, from the transcript on.

\* The task of the command, created where the pipeline is; it has run up to its
\* first await before the pipeline is resumed.
Started(d) == stage[<<"command", d>>] \notin Commands \ {"none"}

\* Clean-up is awaited when it is remote; otherwise the insertion begins at once.
\* st and tx: stage and text as this step has left them.
CleansUp(c, st, tx) ==
  /\ stage' = [st EXCEPT ![c] = IF setup.remote THEN "cleaning" ELSE "inserting"]
  /\ text' = tx
  /\ IF setup.remote THEN UNCHANGED insertionVars ELSE Inserts(c, tx[c])

\* Commands, vocabulary, snippets; then screenshots, awaited when there are any.
Understands(d, s) ==
  LET c  == <<"pipeline", d>>
      k  == TaskOf(s)
      st == [stage EXCEPT ![<<"command", d>>] = k]
      tx == [text EXCEPT
               ![c] = IF StopsPipeline(s) THEN Nothing
                      ELSE Text(Applied(mappings', Remaining(s))),
               ![<<"command", d>>] =
                 IF k # "capitalize" THEN Nothing
                 ELSE [lastTranscript EXCEPT !.words = Capital[@]]]
  IN  IF StopsPipeline(s) \/ HasPending
      THEN /\ stage' = [st EXCEPT ![c] = IF StopsPipeline(s) THEN "over" ELSE "waiting"]
           /\ text' = tx /\ UNCHANGED insertionVars
      ELSE CleansUp(c, st, tx)

\* Recognition returns: the corrections, then the commands.
Recognized(d) ==
  /\ stage[<<"pipeline", d>>] = "recognizing" /\ clears >= d
  /\ \E s \in setup.sayings : Corrects(Text(s)) /\ Understands(d, s)
  /\ UNCHANGED <<shotVars, flowVars>>

\* wait_idle(): no capture is in flight, or the grace period is over.
Collects(d) ==
  LET c == <<"pipeline", d>>
  IN  /\ stage[c] = "waiting" /\ Started(d)
      /\ Drain(d)
      /\ IF shots = <<>>
         THEN CleansUp(c, stage, text)
         ELSE /\ Goes(c, "extracting") /\ UNCHANGED insertionVars
              /\ \E failing \in SUBSET {shots[i].shot : i \in DOMAIN shots} :
                   text' = [text EXCEPT ![c].images = Extractions(shots, failing)]
      /\ UNCHANGED <<voiceVars, flowVars>>

Extracted(d) ==
  /\ stage[<<"pipeline", d>>] = "extracting" /\ Started(d)
  /\ CleansUp(<<"pipeline", d>>, stage, text)
  /\ UNCHANGED <<voiceVars, shotVars, flowVars>>

Cleaned(d) ==
  LET c == <<"pipeline", d>>
  IN  /\ stage[c] = "cleaning" /\ Started(d)
      /\ Goes(c, "inserting") /\ Inserts(c, text[c])
      /\ UNCHANGED <<voiceVars, shotVars, flowVars, text>>

-----------------------------------------------------------------------------
\* The task of a command.

StartCommand(d) ==
  LET c == <<"command", d>>
      k == stage[c]
  IN  /\ ~Started(d)
      /\ \/ /\ k \in {"newline", "paragraph"} /\ Goes(c, "calling")
            /\ Insert(c, Letters(c, IF k = "newline" THEN 1 ELSE 2), FALSE)
            /\ UNCHANGED voiceVars
         \/ /\ k \notin {"newline", "paragraph"}
            /\ Goes(c, IF k = "undo" THEN "calling" ELSE "redoing")
            /\ Track /\ UndoLast(c)
      /\ UNCHANGED <<shotVars, flowVars, text>>

\* _redo_capitalized(): inserted again when the undo has been sent.
Redoes(c) ==
  /\ stage[c] = "redoing" /\ Returned(c)
  /\ IF call[c].at = "ok" THEN Goes(c, "inserting") /\ Inserts(c, text[c])
     ELSE Goes(c, "over") /\ UNCHANGED insertionVars
  /\ UNCHANGED <<voiceVars, shotVars, flowVars, text>>

CallReturns(c) ==
  /\ stage[c] = "calling" /\ Returned(c)
  /\ Goes(c, "over")
  /\ UNCHANGED <<insertionVars, voiceVars, shotVars, flowVars, text>>

-----------------------------------------------------------------------------
Execute(i) ==
  /\ Executes(i) /\ faults' <= setup.faults
  /\ UNCHANGED <<voiceVars, shotVars, flowVars, stage, text>>

Wake(c) == (Wakes(c) \/ Forgets(c)) /\ UNCHANGED <<voiceVars, shotVars, flowVars, stage, text>>

Next ==
  \/ StartRecording \/ Prepare \/ StopRecording
  \/ Selection \/ \E s \in Shots : Screenshot(s) \/ SnipStep(s)
  \/ \E h \in 1..MaxUndos : Undo(h)
  \/ \E d \in Dictations :
       Recognized(d) \/ Collects(d) \/ Extracted(d) \/ Cleaned(d) \/ StartCommand(d)
  \/ \E c \in Coroutines : \/ InsertReturns(c) \/ FallsBack(c) \/ PasteReturns(c)
                           \/ Redoes(c) \/ CallReturns(c) \/ Wake(c)
  \/ \E i \in 1..2 : Execute(i)

Spec == Init /\ [][Next]_vars

-----------------------------------------------------------------------------
\* What a dictation types is never cut by other characters, whatever tasks insert and
\* undo at the same time: the executor finishes a job before it takes the next.
TypedInOneRun ==
  \A i, k \in DOMAIN Document :
    LET c == Document[i][1]
    IN  i < k /\ c = Document[k][1] /\ c \in Pipelines /\ faults = 0
          /\ text[c].words \notin Lines /\ text[c].images = {}
        => \A j \in i..k : Document[j][1] = c

\* As long as no two calls have overlapped and none has failed: undoing the text
\* typed last removes that text, all of it and nothing else, and what the user had
\* typed himself is still there.
UndoIsExact ==
  faults = 0 /\ ~overlapped =>
    /\ IsPrefix(<<Own>>, Document)
    /\ jobs # <<>> /\ jobs[1].do = "erasing" /\ typed # <<>> =>
         {i \in DOMAIN Document : Document[i][1] = typed}
           = (Len(Document) - Len(jobs[1].rest) + 1)..Len(Document)

\* An undo teaches one correction at most, whatever is said and undone meanwhile,
\* and a mapping that is applied has been taught often enough.
LearnedFromUndos ==
  /\ \A t \in Range(undone) \union {corrections[i].wrong : i \in DOMAIN corrections} :
       Cardinality({i \in DOMAIN corrections : corrections[i].wrong = t})
         <= Cardinality({i \in DOMAIN undone : undone[i] = t})
  /\ \A i \in DOMAIN mappings :
       Times(corrections, mappings[i].wrong, mappings[i].right) >= Threshold

\* A dictation shows an image of an earlier one only when that image was still being
\* taken when this one had been prepared: what was there by then has been dropped.
StaleShotWasInFlight ==
  \A x \in spliced : x.of < x.into => x.since >= x.into

\* "each press queues another capture" (screenshot.py): but a selection that is made
\* while two captures wait for one is taken by both.
ShownOnce == \A x, y \in spliced : x.image = y.image => x = y

\* An undo removes what AgentVoca has typed, never the user's own text.
OwnTextKept == IsPrefix(<<Own>>, Document)
=============================================================================
