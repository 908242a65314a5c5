--------------------------- MODULE VoiceCommands ---------------------------
(***************************************************************************)
(* What the words of a dictation do besides being inserted: commands       *)
(* (commands/processor.py), corrections learned from an undo followed by   *)
(* other words (vocab/adaptive.py) and the vocabulary that applies them.   *)
(* A saying is a whole utterance; a text is a saying with the images that  *)
(* have been spliced into it.  An image is spliced into one text only, so  *)
(* that no two texts differ in the order of their images: they are a set.  *)
(***************************************************************************)
EXTENDS Integers, FiniteSets, Sequences, SequencesExt

CONSTANTS Sayings,   \* utterances; "" is silence
          Command,   \* saying -> the command it begins with, or "none"
          Rest,      \* saying -> the saying that follows its command, or ""
          Capital,   \* saying -> the saying capitalized
          Expansion, \* saying -> what snippets make of it
          Threshold  \* promote_threshold

Commands == {"none", "newline", "paragraph", "undo", "capitalize"}

ASSUME VoiceAssumption ==
  /\ "" \in Sayings
  /\ Command \in [Sayings -> Commands] /\ Command[""] = "none"
  /\ Rest \in [Sayings -> Sayings] /\ Capital \in [Sayings -> Sayings]
  /\ Expansion \in [Sayings -> Sayings]
  /\ Threshold \in Nat \ {0}

VARIABLES
  lastTranscript,  \* _last_transcript; Nothing = None
  wrong,           \* _potential_wrong_term; Nothing = None
  corrections,     \* _corrections: the pairs recorded, each time they were
  mappings,        \* learned_mappings, which the vocabulary shares
  undone           \* history: _potential_wrong_term as each undo set it

voiceVars == <<lastTranscript, wrong, corrections, mappings, undone>>

Text(s) == [words |-> s, images |-> {}]
Nothing == Text("")

VoiceInit ==
  /\ lastTranscript = Nothing /\ wrong = Nothing
  /\ corrections = <<>> /\ mappings = <<>> /\ undone = <<>>

\* wrong.lower() == right.lower()
Same(t, u) == t.images = u.images /\ Capital[t.words] = Capital[u.words]

Times(pairs, w, r) == Cardinality({i \in DOMAIN pairs : Same(pairs[i].wrong, w)
                                                        /\ pairs[i].right = r})

VoiceTypeOK ==
  /\ \A t \in {lastTranscript, wrong} : t.words \in Sayings
  /\ \A i \in DOMAIN corrections : corrections[i].right.words \in Sayings
  /\ \A i \in DOMAIN mappings : ~Same(mappings[i].wrong, mappings[i].right)

-----------------------------------------------------------------------------
\* undo_last_insertion(), before it calls the strategy.
Track ==
  /\ IF lastTranscript = Nothing THEN UNCHANGED <<wrong, undone>>
     ELSE /\ wrong' = lastTranscript
          /\ undone' = Append(undone, lastTranscript)
  /\ UNCHANGED <<lastTranscript, corrections, mappings>>

\* AdaptiveVocabularyStore.record_correction(): counted unless learned already, and
\* promoted when it has been counted often enough.
Record(w, r) ==
  IF r = Nothing \/ Times(mappings, w, r) > 0
  THEN UNCHANGED <<corrections, mappings>>
  ELSE /\ corrections' = Append(corrections, [wrong |-> w, right |-> r])
       /\ mappings' = IF Times(corrections', w, r) >= Threshold
                      THEN Append(mappings, [wrong |-> w, right |-> r])
                      ELSE mappings

\* Mutant: the undone text stays, and every dictation corrects it.
CorrectsForEver(r) ==
  /\ UNCHANGED <<lastTranscript, undone>>
  /\ \/ /\ wrong = Nothing \/ Same(wrong, r)
        /\ UNCHANGED <<wrong, corrections, mappings>>
     \/ /\ wrong # Nothing /\ ~Same(wrong, r)
        /\ Record(wrong, r) /\ UNCHANGED wrong

\* _check_for_correction(): the words that follow an undo within 30 s correct the
\* text that was undone.
Corrects(r) ==
  /\ UNCHANGED <<lastTranscript, undone>>
  /\ \/ /\ wrong = Nothing \/ Same(wrong, r)
        /\ wrong' = Nothing /\ UNCHANGED <<corrections, mappings>>
     \/ /\ wrong # Nothing  \* the window has expired
        /\ wrong' = Nothing /\ UNCHANGED <<corrections, mappings>>
     \/ /\ wrong # Nothing /\ ~Same(wrong, r)
        /\ wrong' = Nothing /\ Record(wrong, r)

-----------------------------------------------------------------------------
\* VocabularyDictionary.apply() with the mappings ms, of which a later one replaces
\* an earlier one, then SnippetExpander.expand().
Applied(ms, s) ==
  LET hits == {i \in DOMAIN ms : Same(ms[i].wrong, Text(s))}
  IN  Expansion[IF hits = {} THEN s ELSE ms[Max(hits)].right.words]

\* _run_commands(): the task that is created, and the words that are left.
TaskOf(s) ==
  IF Command[s] # "capitalize" THEN Command[s]
  ELSE IF Rest[s] = "" /\ lastTranscript # Nothing THEN "capitalize" ELSE "none"

Remaining(s) ==
  CASE Command[s] = "none"       -> s
    [] Command[s] = "capitalize" -> Capital[Rest[s]]
    [] OTHER                     -> Rest[s]

\* should_stop_pipeline
StopsPipeline(s) == Command[s] # "none" /\ Rest[s] = ""
=============================================================================
