--------------------------- MODULE EditingProofs ---------------------------
(***************************************************************************)
(* What holds of the insertion, its undo and the corrections learned from  *)
(* it, for any sayings, tasks and screenshots.                             *)
(***************************************************************************)
EXTENDS Editing, FiniteSetTheorems, SequenceTheorems, WellFoundedInduction, TLAPS

-----------------------------------------------------------------------------
\* Types.

Images == {S \in SUBSET Shots : IsFiniteSet(S)}
Texts  == [words : Sayings, images : Images]
Pairs  == [wrong : Texts, right : Texts]

ShotRecords == [shot : Shots, image : Nat, of : Nat, since : Nat]

Chars == (Coroutines \union {<<"user", 1>>}) \X Nat
Docs  == Seq(Chars)

CallRecords == [at : Over \union Waiting, text : Docs, count : Nat]
JobRecords  == [by : Coroutines, do : Jobs, rest : Docs, begun : BOOLEAN]

WordsOK ==
  /\ setup \in Setups
  /\ stage \in [Coroutines -> Stages] /\ text \in [Coroutines -> Texts]
  /\ lastTranscript \in Texts /\ wrong \in Texts
  /\ corrections \in Seq(Pairs) /\ mappings \in Seq(Pairs) /\ undone \in Seq(Texts)

ShotsOK ==
  /\ clears \in Nat /\ clip \in Nat /\ shots \in Seq(ShotRecords)
  /\ spoken \in Nat
  /\ DOMAIN snip = Shots
  /\ \A s \in Shots : DOMAIN snip[s] = {"at", "during", "base"} /\ snip[s].during \in Nat

EditorOK ==
  /\ editor \in Seq(Docs) /\ editor # <<>>
  /\ clipboard \in Docs /\ lastText \in Docs
  /\ faults \in Nat /\ typed \in Coroutines \union {<<>>}

CallsOK == call \in [Coroutines -> CallRecords] /\ jobs \in Seq(JobRecords)

\* The last of a set of positions.
LEMMA LastOne ==
  ASSUME NEW n \in Nat, NEW S \in SUBSET (1..n), S # {}
  PROVE  Max(S) \in S
<1> DEFINE T == {n - i : i \in S}
<1>1. T \subseteq Nat /\ T # {}
  OBVIOUS
<1>2. PICK x \in T : \A y \in T : ~ (<<y, x>> \in OpToRel(<, Nat))
  <2> HIDE DEF T
  <2> QED BY <1>1, NatLessThanWellFounded, WFMin
<1>3. PICK i \in S : x = n - i
  OBVIOUS
<1>4. ASSUME NEW j \in S PROVE i >= j
  <2>1. n - j \in T /\ n - j \in Nat /\ x \in Nat
    BY <1>1
  <2>2. ~(n - j < x)
    BY <1>2, <2>1 DEF OpToRel
  <2> QED BY <1>3, <2>1, <2>2
<1>5. \E m \in S : \A j \in S : m >= j
  BY <1>4
<1> QED BY <1>5 DEF Max

LEMMA FiniteShots ==
  ASSUME NEW s \in Seq(ShotRecords)
  PROVE  {s[i].shot : i \in DOMAIN s} \in Images
<1> DEFINE T == {s[i].shot : i \in DOMAIN s}
           f == [i \in 1..Len(s) |-> s[i].shot]
<1>0. \A i \in 1..Len(s) : s[i] \in ShotRecords
  BY ElementOfSeq
<1>1. Len(s) \in Nat /\ DOMAIN s = 1..Len(s) /\ \A i \in 1..Len(s) : s[i].shot \in Shots
  BY <1>0 DEF ShotRecords
<1>2. f \in Surjection(1..Len(s), T)
  BY <1>1 DEF Surjection
<1>3. IsFiniteSet(1..Len(s))
  BY <1>1, FS_Interval
<1>4. IsFiniteSet(T)
  <2> HIDE DEF f, T
  <2> QED BY <1>2, <1>3, FS_Surjection
<1> QED BY <1>1, <1>4 DEF Images

LEMMA ExtractionsOK ==
  ASSUME NEW s \in Seq(ShotRecords), NEW failing
  PROVE  Extractions(s, failing) \in Images
<1> DEFINE T == {s[i].shot : i \in DOMAIN s}
<1>1. T \in Images
  BY FiniteShots
<1>2. T \ failing \in SUBSET T
  OBVIOUS
<1>3. T \ failing \in Images
  <2> HIDE DEF T
  <2> QED BY <1>1, <1>2, FS_Subset DEF Images
<1> QED BY <1>3 DEF Extractions

LEMMA TextOK == ASSUME NEW s \in Sayings PROVE Text(s) \in Texts
  BY FS_EmptySet DEF Text, Texts, Images

LEMMA NothingOK == Nothing \in Texts
  BY TextOK, VoiceAssumption DEF Nothing, VoiceAssumption

LEMMA AppliedOK ==
  ASSUME NEW ms \in Seq(Pairs), NEW s \in Sayings
  PROVE  Applied(ms, s) \in Sayings
<1> DEFINE hits == {i \in DOMAIN ms : Same(ms[i].wrong, Text(s))}
<1>1. CASE hits = {}
  BY <1>1, VoiceAssumption DEF Applied, VoiceAssumption
<1>2. CASE hits # {}
  <2>1. hits \in SUBSET (1..Len(ms)) /\ Len(ms) \in Nat
    OBVIOUS
  <2>2. Max(hits) \in hits
    <3> HIDE DEF hits
    <3> QED BY <1>2, <2>1, LastOne
  <2>3. ms[Max(hits)].right.words \in Sayings
    <3>1. Max(hits) \in 1..Len(ms)
      BY <2>1, <2>2
    <3> HIDE DEF hits
    <3>2. ms[Max(hits)] \in Pairs
      BY <3>1, ElementOfSeq
    <3> QED BY <3>2 DEF Pairs, Texts
  <2> QED BY <1>2, <2>3, VoiceAssumption DEF Applied, VoiceAssumption
<1> QED BY <1>1, <1>2

LEMMA RemainingOK ==
  ASSUME NEW s \in Sayings
  PROVE  Remaining(s) \in Sayings /\ TaskOf(s) \in Commands
  BY VoiceAssumption DEF VoiceAssumption, Remaining, TaskOf, Commands

LEMMA Lengths ==
  ASSUME NEW t \in Texts
  PROVE  Size[t.words] + Cardinality(t.images) \in Nat
<1>1. t.words \in Sayings /\ IsFiniteSet(t.images)
  BY DEF Texts, Images
<1>2. Cardinality(t.images) \in Nat
  BY <1>1, FS_CardinalityType
<1>3. Size \in [Sayings -> Nat]
  BY EditingAssumption DEF EditingAssumption
<1>4. Size[t.words] \in Nat
  BY <1>1, <1>3
<1> QED BY <1>2, <1>4

LEMMA LettersOK ==
  ASSUME NEW c \in Coroutines, NEW n \in Nat
  PROVE  /\ Letters(c, n) \in Docs /\ Len(Letters(c, n)) = n
         /\ \A i \in 1..n : Letters(c, n)[i][1] = c
  BY DEF Letters, Docs, Chars

LEMMA WordsInit == Init => WordsOK /\ ShotsOK /\ EditorOK /\ CallsOK
<1> SUFFICES ASSUME Init PROVE WordsOK /\ ShotsOK /\ EditorOK /\ CallsOK
  OBVIOUS
<1>1. WordsOK
  BY NothingOK DEF Init, VoiceInit, WordsOK, Stages
<1>2. ShotsOK
  BY DEF Init, ShotsInit, ShotsOK
<1>3. EditorOK
  <2>1. Own \in Chars
    BY DEF Own, Chars
  <2> QED BY <2>1 DEF Init, InsertionInit, EditorOK, Docs
<1>4. CallsOK
  <2>1. Idle \in CallRecords
    BY DEF Idle, CallRecords, Docs, Over
  <2>2. Callers = Coroutines
    BY EditingAssumption DEF EditingAssumption
  <2>3. call = [c \in Callers |-> Idle] /\ jobs = <<>>
    BY DEF Init, InsertionInit
  <2> QED BY <2>1, <2>2, <2>3 DEF CallsOK
<1> QED BY <1>1, <1>2, <1>3, <1>4

\* The names of the tasks.
LEMMA Named ==
  ASSUME NEW d \in Dictations
  PROVE  <<"pipeline", d>> \in Coroutines /\ <<"command", d>> \in Coroutines
         /\ <<"pipeline", d>> \in Pipelines
  BY DEF Coroutines, Pipelines, Tasks

LEMMA WordsTrack ==
  ASSUME WordsOK, Track
  PROVE  /\ lastTranscript' \in Texts /\ wrong' \in Texts
         /\ corrections' \in Seq(Pairs) /\ mappings' \in Seq(Pairs) /\ undone' \in Seq(Texts)
  BY DEF WordsOK, Track

LEMMA WordsCorrects ==
  ASSUME WordsOK, NEW r \in Texts, Corrects(r)
  PROVE  /\ lastTranscript' \in Texts /\ wrong' \in Texts
         /\ corrections' \in Seq(Pairs) /\ mappings' \in Seq(Pairs) /\ undone' \in Seq(Texts)
<1>1. /\ UNCHANGED <<lastTranscript, undone>> /\ wrong' = Nothing
      /\ UNCHANGED <<corrections, mappings>> \/ Record(wrong, r)
  BY DEF Corrects
<1>2. [wrong |-> wrong, right |-> r] \in Pairs
  BY DEF WordsOK, Pairs
<1>3. corrections' \in Seq(Pairs) /\ mappings' \in Seq(Pairs)
  <2> DEFINE p == [wrong |-> wrong, right |-> r]
  <2>1. /\ corrections' \in {corrections, Append(corrections, p)}
        /\ mappings' \in {mappings, Append(mappings, p)}
    BY <1>1 DEF Record
  <2> HIDE DEF p
  <2>2. p \in Pairs /\ corrections \in Seq(Pairs) /\ mappings \in Seq(Pairs)
    BY <1>2 DEF p, WordsOK
  <2>3. Append(corrections, p) \in Seq(Pairs) /\ Append(mappings, p) \in Seq(Pairs)
    BY <2>2
  <2> QED BY <2>1, <2>2, <2>3
<1> QED BY <1>1, <1>3, NothingOK DEF WordsOK

LEMMA WordsRecognized ==
  ASSUME WordsOK, NEW d \in Dictations, Recognized(d)
  PROVE  WordsOK'
<1> DEFINE c == <<"pipeline", d>>
           k == <<"command", d>>
<1>1. PICK s \in setup.sayings : Corrects(Text(s)) /\ Understands(d, s)
  BY DEF Recognized
<1>2. s \in Sayings
  <2>1. setup.sayings \in SUBSET Sayings
    BY EditingAssumption DEF WordsOK, EditingAssumption
  <2> QED BY <2>1
<1>3. /\ lastTranscript' \in Texts /\ wrong' \in Texts
      /\ corrections' \in Seq(Pairs) /\ mappings' \in Seq(Pairs) /\ undone' \in Seq(Texts)
  BY <1>1, <1>2, TextOK, WordsCorrects
<1> DEFINE said == IF StopsPipeline(s) THEN Nothing
                   ELSE Text(Applied(mappings', Remaining(s)))
           redo == IF TaskOf(s) # "capitalize" THEN Nothing
                   ELSE [lastTranscript EXCEPT !.words = Capital[@]]
<1>4. said \in Texts
  BY <1>2, <1>3, NothingOK, TextOK, AppliedOK, RemainingOK
<1>5. redo \in Texts
  <2>1. [lastTranscript EXCEPT !.words = Capital[@]] \in Texts
    BY VoiceAssumption DEF WordsOK, Texts, VoiceAssumption
  <2> QED BY <2>1, NothingOK
<1>6. text' = [[text EXCEPT ![c] = said] EXCEPT ![k] = redo]
  BY <1>1 DEF Understands, CleansUp
<1>7. \E z \in {"over", "waiting", "cleaning", "inserting"} :
        stage' = [[stage EXCEPT ![k] = TaskOf(s)] EXCEPT ![c] = z]
  BY <1>1 DEF Understands, CleansUp
<1>8. TaskOf(s) \in Stages
  BY <1>2, RemainingOK DEF Commands, Stages
<1> HIDE DEF c, k, said, redo
<1>9. stage' \in [Coroutines -> Stages] /\ text' \in [Coroutines -> Texts]
  BY <1>4, <1>5, <1>6, <1>7, <1>8 DEF WordsOK, Stages
<1>10. setup' = setup
  BY DEF Recognized, flowVars
<1> QED BY <1>3, <1>9, <1>10 DEF WordsOK

LEMMA WordsCollects ==
  ASSUME WordsOK, ShotsOK, NEW d \in Dictations, Collects(d)
  PROVE  WordsOK'
<1> DEFINE c == <<"pipeline", d>>
<1>1. UNCHANGED voiceVars /\ setup' = setup
  BY DEF Collects, flowVars
<1>2. \/ text' = text
      \/ \E failing : text' = [text EXCEPT ![c].images = Extractions(shots, failing)]
  BY DEF Collects, CleansUp
<1>3. \E z \in {"cleaning", "inserting", "extracting"} : stage' = [stage EXCEPT ![c] = z]
  BY DEF Collects, CleansUp, Goes
<1>4. \A failing : Extractions(shots, failing) \in Images
  BY ExtractionsOK DEF ShotsOK
<1>5. text' \in [Coroutines -> Texts]
  <2>1. ASSUME NEW failing, text' = [text EXCEPT ![c].images = Extractions(shots, failing)]
        PROVE  text' \in [Coroutines -> Texts]
    <3> DEFINE t == [text[c] EXCEPT !.images = Extractions(shots, failing)]
    <3>1. text' = [text EXCEPT ![c] = t]
      BY <2>1
    <3>2. t \in Texts
      <4>1. text[c] \in Texts
        BY Named DEF WordsOK
      <4> QED BY <1>4, <4>1 DEF Texts
    <3> HIDE DEF t, c
    <3> QED BY <3>1, <3>2 DEF WordsOK
  <2> QED BY <1>2, <2>1 DEF WordsOK
<1> HIDE DEF c
<1>6. stage' \in [Coroutines -> Stages]
  BY <1>3 DEF WordsOK, Stages
<1> QED BY <1>1, <1>5, <1>6 DEF WordsOK, voiceVars

LEMMA WordsNext == WordsOK /\ ShotsOK /\ [Next]_vars => WordsOK'
<1> SUFFICES ASSUME WordsOK, ShotsOK, [Next]_vars PROVE WordsOK'
  OBVIOUS
<1>1. ASSUME UNCHANGED <<voiceVars, setup, text>>,
             stage' = stage \/ \E c, z : z \in Stages /\ stage' = [stage EXCEPT ![c] = z]
      PROVE  WordsOK'
  <2>1. stage' \in [Coroutines -> Stages]
    BY <1>1 DEF WordsOK
  <2> QED BY <1>1, <2>1 DEF WordsOK, voiceVars
<1>2. CASE StartRecording \/ Prepare \/ StopRecording
  BY <1>1, <1>2 DEF StartRecording, Prepare, StopRecording, Stages, flowVars
<1>3. CASE Selection \/ \E s \in Shots : Screenshot(s) \/ SnipStep(s)
  BY <1>1, <1>3 DEF Selection, Screenshot, SnipStep, flowVars
<1>4. ASSUME NEW h \in 1..MaxUndos, Undo(h) PROVE WordsOK'
  <2>1. stage' = [stage EXCEPT ![<<"hotkey", h>>] = "calling"] /\ UNCHANGED <<setup, text>>
        /\ Track
    BY <1>4 DEF Undo, flowVars
  <2>2. stage' \in [Coroutines -> Stages]
    BY <2>1 DEF WordsOK, Stages
  <2> QED BY <2>1, <2>2, WordsTrack DEF WordsOK
<1>5. ASSUME NEW d \in Dictations, StartCommand(d) PROVE WordsOK'
  <2>1. /\ \E z \in {"calling", "redoing"} : stage' = [stage EXCEPT ![<<"command", d>>] = z]
        /\ UNCHANGED <<setup, text>>
        /\ UNCHANGED voiceVars \/ Track
    BY <1>5 DEF StartCommand, Goes, flowVars
  <2>2. stage' \in [Coroutines -> Stages]
    BY <2>1 DEF WordsOK, Stages
  <2> QED BY <2>1, <2>2, WordsTrack DEF WordsOK, voiceVars
<1>6. ASSUME NEW d \in Dictations, Extracted(d) \/ Cleaned(d) PROVE WordsOK'
  <2>1. /\ \E z \in {"cleaning", "inserting"} : stage' = [stage EXCEPT ![<<"pipeline", d>>] = z]
        /\ UNCHANGED <<setup, text, voiceVars>>
    BY <1>6 DEF Extracted, Cleaned, CleansUp, Goes, flowVars
  <2> QED BY <1>1, <2>1 DEF Stages
<1>7. ASSUME NEW c \in Coroutines, FallsBack(c) \/ Redoes(c) \/ CallReturns(c) \/ Wake(c)
      PROVE  WordsOK'
  <2>1. /\ \/ stage' = stage
           \/ \E z \in {"pasting", "inserting", "over"} : stage' = [stage EXCEPT ![c] = z]
        /\ UNCHANGED <<setup, text, voiceVars>>
    BY <1>7 DEF FallsBack, Redoes, CallReturns, Wake, Goes, flowVars
  <2> QED BY <1>1, <2>1 DEF Stages
<1>8. ASSUME NEW c \in Coroutines, InsertReturns(c) \/ PasteReturns(c)
      PROVE  WordsOK'
  <2>1. /\ \E z \in {"undoing", "over"} : stage' = [stage EXCEPT ![c] = z]
        /\ UNCHANGED <<setup, text, wrong, corrections, mappings, undone>>
        /\ lastTranscript' = lastTranscript \/ lastTranscript' = text[c]
    BY <1>8 DEF InsertReturns, PasteReturns, Goes, flowVars
  <2>2. stage' \in [Coroutines -> Stages] /\ text[c] \in Texts
    BY <1>8, <2>1 DEF WordsOK, Stages
  <2> QED BY <2>1, <2>2 DEF WordsOK
<1>9. CASE \E i \in 1..2 : Execute(i)
  BY <1>1, <1>9 DEF Execute, flowVars
<1>10. CASE UNCHANGED vars
  BY <1>1, <1>10 DEF vars, flowVars
<1> QED
  BY <1>2, <1>3, <1>4, <1>5, <1>6, <1>7, <1>8, <1>9, <1>10, WordsRecognized, WordsCollects
     DEF Next

\* The captures, which only the screenshot hotkey and the pipelines touch.
LEMMA ShotsStays == ShotsOK /\ UNCHANGED <<shotVars, spoken>> => ShotsOK'
  BY DEF ShotsOK, shotVars

LEMMA ShotsNext == ShotsOK /\ [Next]_vars => ShotsOK'
<1> SUFFICES ASSUME ShotsOK, [Next]_vars PROVE ShotsOK'
  OBVIOUS
<1>1. CASE StartRecording
  BY <1>1 DEF StartRecording, ShotsOK, shotVars
<1>2. CASE Prepare
  BY <1>2 DEF Prepare, Clear, ShotsOK, flowVars
<1>3. CASE Selection
  BY <1>3 DEF Selection, Selects, ShotsOK, flowVars
<1>4. ASSUME NEW s \in Shots, Screenshot(s) PROVE ShotsOK'
  BY <1>4 DEF Screenshot, Capture, ShotsOK, flowVars
<1>5. ASSUME NEW s \in Shots, SnipStep(s) PROVE ShotsOK'
  <2>1. UNCHANGED <<clip, clears, spoken>>
    BY <1>5 DEF SnipStep, Overlay, Snips, Publishes, flowVars
  <2>2. /\ DOMAIN snip' = Shots
        /\ \A r \in Shots : DOMAIN snip'[r] = {"at", "during", "base"}
                            /\ snip'[r].during \in Nat
    BY <1>5 DEF SnipStep, Overlay, Snips, Publishes, ShotsOK
  <2>3. shots' \in Seq(ShotRecords)
    <3> DEFINE r == [shot |-> s, image |-> clip, of |-> snip[s].during, since |-> clears]
    <3>1. r \in ShotRecords
      BY DEF ShotsOK, ShotRecords
    <3>2. shots' = shots \/ shots' = Append(shots, r)
      BY <1>5 DEF SnipStep, Overlay, Snips, Publishes
    <3> HIDE DEF r
    <3> QED BY <3>1, <3>2 DEF ShotsOK
  <2> QED BY <2>1, <2>2, <2>3 DEF ShotsOK
<1>6. ASSUME NEW d \in Dictations, Collects(d) PROVE ShotsOK'
  BY <1>6 DEF Collects, Drain, ShotsOK, flowVars
<1>7. CASE \/ StopRecording
           \/ \E h \in 1..MaxUndos : Undo(h)
           \/ \E d \in Dictations :
                Recognized(d) \/ Extracted(d) \/ Cleaned(d) \/ StartCommand(d)
  BY <1>7, ShotsStays
     DEF StopRecording, Undo, Recognized, Extracted, Cleaned, StartCommand, flowVars
<1>8. CASE \/ \E c \in Coroutines : \/ InsertReturns(c) \/ FallsBack(c) \/ PasteReturns(c)
                                    \/ Redoes(c) \/ CallReturns(c) \/ Wake(c)
           \/ \E i \in 1..2 : Execute(i)
  BY <1>8, ShotsStays
     DEF InsertReturns, FallsBack, PasteReturns, Redoes, CallReturns, Wake, Execute, flowVars
<1>9. CASE UNCHANGED vars
  BY <1>9, ShotsStays DEF vars, flowVars
<1> QED BY <1>1, <1>2, <1>3, <1>4, <1>5, <1>6, <1>7, <1>8, <1>9 DEF Next

-----------------------------------------------------------------------------
(***************************************************************************)
(* Screenshots.  What is queued was queued since the last preparation, and *)
(* a pipeline that waits for the captures waits since its own.             *)
(***************************************************************************)
StaleInv ==
  /\ \A i \in 1..Len(shots) : shots[i].since = clears
  /\ \A d \in Dictations : stage[<<"pipeline", d>>] = "waiting" => clears >= d
  /\ \A x \in spliced : x.since >= x.into

LEMMA StaleStays ==
  ASSUME StaleInv, UNCHANGED <<shots, clears, spliced>>,
         \A d \in Dictations :
           stage'[<<"pipeline", d>>] = "waiting" =>
             stage[<<"pipeline", d>>] = "waiting" \/ clears >= d
  PROVE  StaleInv'
  BY DEF StaleInv

\* A task that moves to a stage other than waiting.
LEMMA StaleMoves ==
  ASSUME StaleInv, WordsOK, UNCHANGED <<shots, clears, spliced>>,
         NEW c, NEW z, z # "waiting",
         stage' = [stage EXCEPT ![c] = z]
  PROVE  StaleInv'
<1>1. ASSUME NEW d \in Dictations, stage'[<<"pipeline", d>>] = "waiting"
      PROVE  stage[<<"pipeline", d>>] = "waiting"
  BY <1>1, Named DEF WordsOK
<1> QED BY <1>1, StaleStays

LEMMA StaleShots ==
  ASSUME StaleInv, ShotsOK, UNCHANGED stage,
         \/ \E s \in Shots : Screenshot(s) \/ SnipStep(s)
         \/ Selection \/ Prepare
  PROVE  StaleInv'
<1>1. CASE Selection \/ \E s \in Shots : Screenshot(s)
  BY <1>1, StaleStays DEF Selection, Selects, Screenshot, Capture
<1>2. CASE Prepare
  <2>1. shots' = <<>> /\ clears' = clears + 1 /\ spliced' = spliced /\ clears \in Nat
    BY <1>2 DEF Prepare, Clear, ShotsOK
  <2> QED BY <2>1 DEF StaleInv, Dictations
<1>3. ASSUME NEW s \in Shots, SnipStep(s) PROVE StaleInv'
  <2>1. CASE UNCHANGED shots
    BY <1>3, <2>1, StaleStays DEF SnipStep, Overlay, Snips, Publishes
  <2>2. CASE shots' # shots
    <3> DEFINE r == [shot |-> s, image |-> clip, of |-> snip[s].during, since |-> clears]
    <3>1. shots' = Append(shots, r) /\ UNCHANGED <<clears, spliced>> /\ r.since = clears
      BY <1>3, <2>2 DEF SnipStep, Overlay, Snips, Publishes
    <3> HIDE DEF r
    <3>2. /\ Len(shots') = Len(shots) + 1 /\ Len(shots) \in Nat
          /\ \A i \in 1..Len(shots) : shots'[i] = shots[i]
          /\ shots'[Len(shots) + 1] = r
      BY <3>1 DEF ShotsOK
    <3>3. \A i \in 1..Len(shots') : shots'[i].since = clears'
      BY <3>1, <3>2 DEF StaleInv
    <3> QED BY <3>1, <3>3 DEF StaleInv
  <2> QED BY <2>1, <2>2
<1> QED BY <1>1, <1>2, <1>3

LEMMA StaleRecognized ==
  ASSUME StaleInv, WordsOK, NEW d \in Dictations, Recognized(d)
  PROVE  StaleInv'
<1> DEFINE c == <<"pipeline", d>>
           k == <<"command", d>>
<1>1. /\ UNCHANGED <<shots, clears, spliced>> /\ clears >= d
  BY DEF Recognized, shotVars
<1>2. \E y, z : stage' = [[stage EXCEPT ![k] = y] EXCEPT ![c] = z]
  BY DEF Recognized, Understands, CleansUp
<1>3. ASSUME NEW e \in Dictations, stage'[<<"pipeline", e>>] = "waiting"
      PROVE  stage[<<"pipeline", e>>] = "waiting" \/ clears >= e
  <2>1. CASE e = d
    BY <1>1, <2>1
  <2>2. CASE e # d
    BY <1>2, <1>3, <2>2, Named DEF WordsOK
  <2> QED BY <2>1, <2>2
<1> QED BY <1>1, <1>3, StaleStays

LEMMA StaleCollects ==
  ASSUME StaleInv, WordsOK, NEW d \in Dictations, Collects(d)
  PROVE  StaleInv'
<1>1. /\ shots' = <<>> /\ clears' = clears /\ clears >= d
      /\ spliced' = spliced \union
           {[shot |-> shots[i].shot, image |-> shots[i].image, of |-> shots[i].of,
             since |-> shots[i].since, into |-> d] : i \in DOMAIN shots}
  BY DEF Collects, Drain, StaleInv
<1>2. \A x \in spliced' : x.since >= x.into
  BY <1>1 DEF StaleInv
<1>3. \E z \in {"cleaning", "inserting", "extracting"} :
         stage' = [stage EXCEPT ![<<"pipeline", d>>] = z]
  BY DEF Collects, CleansUp, Goes
<1>4. ASSUME NEW e \in Dictations, stage'[<<"pipeline", e>>] = "waiting"
      PROVE  stage[<<"pipeline", e>>] = "waiting"
  BY <1>3, <1>4, Named DEF WordsOK
<1> QED BY <1>1, <1>2, <1>4 DEF StaleInv

LEMMA StaleNext == WordsOK /\ ShotsOK /\ StaleInv /\ [Next]_vars => StaleInv'
<1> SUFFICES ASSUME WordsOK, ShotsOK, StaleInv, [Next]_vars PROVE StaleInv'
  OBVIOUS
<1>1. CASE \/ Selection \/ Prepare
           \/ \E s \in Shots : Screenshot(s) \/ SnipStep(s)
  <2>1. UNCHANGED stage
    BY <1>1 DEF Selection, Prepare, Screenshot, SnipStep
  <2> QED BY <1>1, <2>1, StaleShots
<1>2. ASSUME UNCHANGED shotVars,
             stage' = stage \/ \E c, z : z # "waiting" /\ stage' = [stage EXCEPT ![c] = z]
      PROVE  StaleInv'
  BY <1>2, StaleStays, StaleMoves DEF shotVars
<1>3. CASE StartRecording \/ StopRecording \/ UNCHANGED vars
  BY <1>2, <1>3 DEF StartRecording, StopRecording, vars
<1>4. ASSUME NEW h \in 1..MaxUndos, Undo(h) PROVE StaleInv'
  BY <1>2, <1>4 DEF Undo
<1>5. ASSUME NEW d \in Dictations, Extracted(d) \/ Cleaned(d) \/ StartCommand(d)
      PROVE  StaleInv'
  <2>1. UNCHANGED shotVars
    BY <1>5 DEF Extracted, Cleaned, StartCommand
  <2>2. \E c : \E z \in {"cleaning", "inserting", "calling", "redoing"} :
          stage' = [stage EXCEPT ![c] = z]
    BY <1>5 DEF Extracted, Cleaned, StartCommand, CleansUp, Goes
  <2> QED BY <1>2, <2>1, <2>2
<1>6. ASSUME NEW c \in Coroutines,
             \/ InsertReturns(c) \/ FallsBack(c) \/ PasteReturns(c)
             \/ Redoes(c) \/ CallReturns(c) \/ Wake(c)
      PROVE  StaleInv'
  <2>1. UNCHANGED shotVars
    BY <1>6 DEF InsertReturns, FallsBack, PasteReturns, Redoes, CallReturns, Wake
  <2>2. \/ stage' = stage
        \/ \E z \in {"over", "undoing", "pasting", "inserting"} :
             stage' = [stage EXCEPT ![c] = z]
    BY <1>6 DEF InsertReturns, FallsBack, PasteReturns, Redoes, CallReturns, Wake, Goes
  <2> QED BY <1>2, <2>1, <2>2
<1>7. CASE \E i \in 1..2 : Execute(i)
  BY <1>2, <1>7 DEF Execute
<1> QED
  BY <1>1, <1>3, <1>4, <1>5, <1>6, <1>7, StaleRecognized, StaleCollects DEF Next

LEMMA StaleInit == Init => StaleInv
  BY DEF Init, ShotsInit, StaleInv, Pipelines, Coroutines

\* Whichever captures are in flight when a recording is prepared, and whenever they
\* end: an image that is older than the dictation it is shown in was still being
\* taken when that one was prepared.
THEOREM StaleAlways == Spec => []StaleShotWasInFlight
<1>1. StaleInv => StaleShotWasInFlight
  BY DEF StaleInv, StaleShotWasInFlight
<1>2. WordsOK /\ ShotsOK /\ StaleInv /\ [Next]_vars => (WordsOK /\ ShotsOK /\ StaleInv)'
  BY WordsNext, ShotsNext, StaleNext
<1>3. Init => WordsOK /\ ShotsOK /\ StaleInv
  BY WordsInit, StaleInit
<1> QED BY <1>1, <1>2, <1>3, PTL DEF Spec

-----------------------------------------------------------------------------
(***************************************************************************)
(* Corrections.  An undo that has not been answered yet has taught nothing *)
(* yet: it is one more than the corrections of its text.                   *)
(***************************************************************************)
Taught(t)  == {i \in DOMAIN corrections : corrections[i].wrong = t}
Undoings(t) == {i \in DOMAIN undone : undone[i] = t}
Asked(t)   == IF wrong = t /\ wrong # Nothing THEN 1 ELSE 0

Frequent == \A i \in 1..Len(mappings) :
              Times(corrections, mappings[i].wrong, mappings[i].right) >= Threshold

LearnInv ==
  /\ \A t \in Texts : Cardinality(Taught(t)) + Asked(t) <= Cardinality(Undoings(t))
  /\ Frequent

\* One entry more at the end of a sequence.
LEMMA Appended ==
  ASSUME NEW S, NEW s \in Seq(S), NEW e \in S
  PROVE  /\ Append(s, e) \in Seq(S) /\ Len(Append(s, e)) = Len(s) + 1 /\ Len(s) \in Nat
         /\ DOMAIN s = 1..Len(s) /\ DOMAIN Append(s, e) = (1..Len(s)) \union {Len(s) + 1}
         /\ \A i \in 1..Len(s) : Append(s, e)[i] = s[i]
         /\ Append(s, e)[Len(s) + 1] = e
  OBVIOUS

\* The positions of an entry, as the sequence grows by one.
LEMMA OneMoreAt ==
  ASSUME NEW n \in Nat, NEW A \in SUBSET (1..n), NEW B, B = A \/ B = A \union {n + 1}
  PROVE  /\ IsFiniteSet(A) /\ Cardinality(A) \in Nat /\ Cardinality(B) \in Nat
         /\ B = A => Cardinality(B) = Cardinality(A)
         /\ B = A \union {n + 1} => Cardinality(B) = Cardinality(A) + 1
<1>1. IsFiniteSet(1..n)
  BY FS_Interval
<1>2. IsFiniteSet(A)
  BY <1>1, FS_Subset
<1>3. n + 1 \notin A
  OBVIOUS
<1>4. IsFiniteSet(A \union {n + 1}) /\ Cardinality(A \union {n + 1}) = Cardinality(A) + 1
  BY <1>2, <1>3, FS_AddElement
<1> QED BY <1>2, <1>4, FS_CardinalityType

LEMMA Counted ==
  ASSUME WordsOK, NEW t
  PROVE  Cardinality(Taught(t)) \in Nat /\ Cardinality(Undoings(t)) \in Nat
<1>1. Len(corrections) \in Nat /\ Taught(t) \in SUBSET (1..Len(corrections))
  BY DEF WordsOK, Taught
<1>2. Len(undone) \in Nat /\ Undoings(t) \in SUBSET (1..Len(undone))
  BY DEF WordsOK, Undoings
<1> QED BY <1>1, <1>2, OneMoreAt

LEMMA LearnStays == LearnInv /\ UNCHANGED <<wrong, corrections, mappings, undone>> => LearnInv'
  BY DEF LearnInv, Taught, Undoings, Asked, Frequent

LEMMA LearnTrack ==
  ASSUME LearnInv, WordsOK, Track
  PROVE  LearnInv'
<1>1. CASE UNCHANGED <<wrong, undone>>
  BY <1>1, LearnStays DEF Track
<1>2. CASE wrong' = lastTranscript /\ undone' = Append(undone, lastTranscript)
  <2>1. UNCHANGED <<corrections, mappings>> /\ lastTranscript \in Texts /\ undone \in Seq(Texts)
    BY DEF Track, WordsOK
  <2>2. Frequent'
    BY <2>1 DEF LearnInv, Frequent
  <2>3. ASSUME NEW t \in Texts
        PROVE  Cardinality(Taught(t)') + Asked(t)' <= Cardinality(Undoings(t)')
    <3> DEFINE n == Len(undone)
    <3>1. /\ n \in Nat /\ DOMAIN undone = 1..n /\ DOMAIN undone' = (1..n) \union {n + 1}
          /\ \A i \in 1..n : undone'[i] = undone[i]
          /\ undone'[n + 1] = lastTranscript
      BY <1>2, <2>1, Appended
    <3>2. Undoings(t) \in SUBSET (1..n)
      BY <3>1 DEF Undoings
    <3>3. Undoings(t)' = IF lastTranscript = t THEN Undoings(t) \union {n + 1}
                         ELSE Undoings(t)
      BY <3>1 DEF Undoings
    <3>4. Taught(t)' = Taught(t)
      BY <2>1 DEF Taught
    <3>5. /\ Cardinality(Taught(t)) + Asked(t) <= Cardinality(Undoings(t))
          /\ Cardinality(Taught(t)) \in Nat /\ Cardinality(Undoings(t)) \in Nat
          /\ Asked(t) \in {0, 1} /\ Asked(t)' \in {0, 1}
      BY Counted DEF LearnInv, Asked
    <3>6. Asked(t)' = 1 => lastTranscript = t
      BY <1>2 DEF Asked
    <3>7. Cardinality(Undoings(t)') =
            IF lastTranscript = t THEN Cardinality(Undoings(t)) + 1
            ELSE Cardinality(Undoings(t))
      BY <3>1, <3>2, <3>3, OneMoreAt
    <3> QED BY <3>4, <3>5, <3>6, <3>7
  <2> QED BY <2>2, <2>3 DEF LearnInv
<1> QED BY <1>1, <1>2 DEF Track

\* A pair that is recorded once more is not counted less.
LEMMA CountedOn ==
  ASSUME NEW s \in Seq(Pairs), NEW p \in Pairs, NEW w, NEW r
  PROVE  /\ Times(s, w, r) <= Times(Append(s, p), w, r)
         /\ Times(s, w, r) \in Nat /\ Times(Append(s, p), w, r) \in Nat
<1> DEFINE A == {i \in DOMAIN s : Same(s[i].wrong, w) /\ s[i].right = r}
           t == Append(s, p)
           B == {i \in DOMAIN t : Same(t[i].wrong, w) /\ t[i].right = r}
           n == Len(s)
<1>1. /\ n \in Nat /\ DOMAIN s = 1..n /\ DOMAIN t = (1..n) \union {n + 1}
      /\ \A i \in 1..n : t[i] = s[i]
  BY Appended
<1> HIDE DEF t
<1>2. A \in SUBSET (1..n) /\ (B = A \/ B = A \union {n + 1})
  BY <1>1
<1>3. Times(s, w, r) = Cardinality(A) /\ Times(t, w, r) = Cardinality(B)
  BY DEF Times
<1> HIDE DEF A, B
<1>4. /\ Cardinality(A) \in Nat /\ Cardinality(B) \in Nat
      /\ Cardinality(A) <= Cardinality(B)
  BY <1>1, <1>2, OneMoreAt
<1> QED BY <1>3, <1>4 DEF t

LEMMA LearnRecord ==
  ASSUME WordsOK, Frequent, NEW r \in Texts, wrong \in Texts,
         Record(wrong, r)
  PROVE  Frequent'
<1> DEFINE p == [wrong |-> wrong, right |-> r]
<1>1. p \in Pairs /\ corrections \in Seq(Pairs) /\ mappings \in Seq(Pairs)
  BY DEF WordsOK, Pairs
<1>2. CASE UNCHANGED <<corrections, mappings>>
  BY <1>2 DEF Frequent
<1>3. CASE /\ corrections' = Append(corrections, p)
           /\ mappings' = IF Times(corrections', wrong, r) >= Threshold
                          THEN Append(mappings, p) ELSE mappings
  <2>0. p.wrong = wrong /\ p.right = r
    OBVIOUS
  <2> HIDE DEF p
  <2>1. ASSUME NEW i \in 1..Len(mappings)
        PROVE  Times(corrections', mappings[i].wrong, mappings[i].right) >= Threshold
    <3>1. Times(corrections, mappings[i].wrong, mappings[i].right) >= Threshold
      BY DEF Frequent
    <3>2. /\ Times(corrections, mappings[i].wrong, mappings[i].right)
               <= Times(corrections', mappings[i].wrong, mappings[i].right)
          /\ Times(corrections, mappings[i].wrong, mappings[i].right) \in Nat
          /\ Times(corrections', mappings[i].wrong, mappings[i].right) \in Nat
      BY <1>1, <1>3, CountedOn
    <3>3. Threshold \in Nat
      BY VoiceAssumption DEF VoiceAssumption
    <3> QED BY <3>1, <3>2, <3>3
  <2>2. CASE mappings' = mappings
    BY <2>1, <2>2 DEF Frequent
  <2>3. CASE mappings' = Append(mappings, p) /\ Times(corrections', wrong, r) >= Threshold
    <3>1. /\ Len(mappings') = Len(mappings) + 1 /\ Len(mappings) \in Nat
          /\ \A i \in 1..Len(mappings) : mappings'[i] = mappings[i]
          /\ mappings'[Len(mappings) + 1] = p
      BY <1>1, <2>3, Appended
    <3>2. ASSUME NEW i \in 1..Len(mappings')
          PROVE  Times(corrections', mappings'[i].wrong, mappings'[i].right) >= Threshold
      <4>1. CASE i \in 1..Len(mappings)
        BY <2>1, <3>1, <4>1
      <4>2. CASE i = Len(mappings) + 1
        BY <2>0, <2>3, <3>1, <4>2
      <4> QED BY <3>1, <4>1, <4>2
    <3> QED BY <3>2 DEF Frequent
  <2> QED BY <1>3, <2>2, <2>3
<1> QED BY <1>2, <1>3 DEF Record

LEMMA LearnCorrects ==
  ASSUME LearnInv, WordsOK, NEW r \in Texts, Corrects(r)
  PROVE  LearnInv'
<1>1. UNCHANGED undone /\ wrong' = Nothing /\ wrong \in Texts /\ corrections \in Seq(Pairs)
  BY DEF Corrects, WordsOK
<1>2. UNCHANGED <<corrections, mappings>> \/ (wrong # Nothing /\ Record(wrong, r))
  BY DEF Corrects
<1>3. Frequent'
  <2>1. CASE UNCHANGED <<corrections, mappings>>
    BY <2>1 DEF LearnInv, Frequent
  <2>2. CASE Record(wrong, r)
    BY <1>1, <2>2, LearnRecord DEF LearnInv
  <2> QED BY <1>2, <2>1, <2>2
<1>4. ASSUME NEW t \in Texts
      PROVE  Cardinality(Taught(t)') + Asked(t)' <= Cardinality(Undoings(t)')
  <2>1. Undoings(t)' = Undoings(t) /\ Asked(t)' = 0
    BY <1>1 DEF Undoings, Asked
  <2>2. /\ Cardinality(Taught(t)) + Asked(t) <= Cardinality(Undoings(t))
        /\ Cardinality(Taught(t)) \in Nat /\ Cardinality(Undoings(t)) \in Nat
        /\ Asked(t) \in {0, 1}
    BY Counted DEF LearnInv, Asked
  <2>3. CASE UNCHANGED corrections
    <3>1. Taught(t)' = Taught(t)
      BY <2>3 DEF Taught
    <3> QED BY <2>1, <2>2, <3>1
  <2>4. CASE wrong # Nothing /\ corrections' = Append(corrections, [wrong |-> wrong, right |-> r])
    <3> DEFINE n == Len(corrections)
               p == [wrong |-> wrong, right |-> r]
    <3>0. p.wrong = wrong /\ p \in Pairs
      BY <1>1 DEF Pairs
    <3> HIDE DEF p
    <3>1. /\ n \in Nat /\ DOMAIN corrections = 1..n
          /\ DOMAIN corrections' = (1..n) \union {n + 1}
          /\ \A i \in 1..n : corrections'[i] = corrections[i]
          /\ corrections'[n + 1] = p
      BY <1>1, <2>4, <3>0, Appended DEF p
    <3>2. Taught(t) \in SUBSET (1..n)
      BY <3>1 DEF Taught
    <3>3. Taught(t)' = IF wrong = t THEN Taught(t) \union {n + 1} ELSE Taught(t)
      BY <3>0, <3>1 DEF Taught
    <3>4. Cardinality(Taught(t)') = IF wrong = t THEN Cardinality(Taught(t)) + 1
                                    ELSE Cardinality(Taught(t))
      BY <3>1, <3>2, <3>3, OneMoreAt
    <3>5. wrong = t => Asked(t) = 1
      BY <2>4 DEF Asked
    <3> QED BY <2>1, <2>2, <3>4, <3>5
  <2> QED BY <1>2, <2>3, <2>4 DEF Record
<1> QED BY <1>3, <1>4 DEF LearnInv

LEMMA LearnNext == WordsOK /\ LearnInv /\ [Next]_vars => LearnInv'
<1> SUFFICES ASSUME WordsOK, LearnInv, [Next]_vars PROVE LearnInv'
  OBVIOUS
<1>1. CASE UNCHANGED <<wrong, corrections, mappings, undone>>
  BY <1>1, LearnStays
<1>2. CASE \/ StartRecording \/ Prepare \/ StopRecording \/ Selection
           \/ \E s \in Shots : Screenshot(s) \/ SnipStep(s)
           \/ \E i \in 1..2 : Execute(i)
           \/ UNCHANGED vars
  BY <1>1, <1>2
     DEF StartRecording, Prepare, StopRecording, Selection, Screenshot, SnipStep, Execute,
         vars, voiceVars
<1>3. CASE \E h \in 1..MaxUndos : Undo(h)
  BY <1>3, LearnTrack DEF Undo
<1>4. ASSUME NEW d \in Dictations, Recognized(d) PROVE LearnInv'
  <2>1. PICK s \in setup.sayings : Corrects(Text(s))
    BY <1>4 DEF Recognized
  <2>2. setup.sayings \in SUBSET Sayings
    BY EditingAssumption DEF WordsOK, EditingAssumption
  <2> QED BY <2>1, <2>2, TextOK, LearnCorrects
<1>5. CASE \E d \in Dictations : Collects(d) \/ Extracted(d) \/ Cleaned(d)
  BY <1>1, <1>5 DEF Collects, Extracted, Cleaned, voiceVars
<1>6. CASE \E d \in Dictations : StartCommand(d)
  BY <1>1, <1>6, LearnTrack DEF StartCommand, voiceVars
<1>7. CASE \E c \in Coroutines : \/ InsertReturns(c) \/ FallsBack(c) \/ PasteReturns(c)
                                 \/ Redoes(c) \/ CallReturns(c) \/ Wake(c)
  BY <1>1, <1>7
     DEF InsertReturns, FallsBack, PasteReturns, Redoes, CallReturns, Wake, voiceVars
<1> QED BY <1>2, <1>3, <1>4, <1>5, <1>6, <1>7 DEF Next

LEMMA LearnInit == Init => LearnInv
<1> SUFFICES ASSUME Init PROVE LearnInv
  OBVIOUS
<1>1. wrong = Nothing /\ corrections = <<>> /\ mappings = <<>> /\ undone = <<>>
  BY DEF Init, VoiceInit
<1>2. ASSUME NEW t PROVE Taught(t) = {} /\ Undoings(t) = {} /\ Asked(t) = 0
  BY <1>1 DEF Taught, Undoings, Asked
<1>3. \A t : Cardinality(Taught(t)) + Asked(t) <= Cardinality(Undoings(t))
  BY <1>2, FS_EmptySet
<1> QED BY <1>1, <1>3 DEF LearnInv, Frequent

\* Whatever is said, undone and said again, and in whichever order the tasks run: an
\* undo teaches one correction at most, and a learned mapping has been taught as
\* often as the threshold demands.
THEOREM LearnedAlways == Spec => []LearnedFromUndos
<1>1. WordsOK /\ LearnInv => LearnedFromUndos
  <2> SUFFICES ASSUME WordsOK, LearnInv PROVE LearnedFromUndos
    OBVIOUS
  <2>1. ASSUME NEW t \in Range(undone) \union {corrections[i].wrong : i \in DOMAIN corrections}
        PROVE  t \in Texts
    <3>1. CASE t \in Range(undone)
      BY <3>1 DEF Range, WordsOK
    <3>2. ASSUME NEW i \in DOMAIN corrections, t = corrections[i].wrong PROVE t \in Texts
      <4>1. corrections[i] \in Pairs
        BY <3>2 DEF WordsOK
      <4> QED BY <3>2, <4>1 DEF Pairs
    <3> QED BY <2>1, <3>1, <3>2
  <2>2. ASSUME NEW t \in Texts
        PROVE  Cardinality({i \in DOMAIN corrections : corrections[i].wrong = t})
                 <= Cardinality({i \in DOMAIN undone : undone[i] = t})
    <3>1. /\ Cardinality(Taught(t)) + Asked(t) <= Cardinality(Undoings(t))
          /\ Cardinality(Taught(t)) \in Nat /\ Cardinality(Undoings(t)) \in Nat
          /\ Asked(t) \in {0, 1}
      BY Counted DEF LearnInv, Asked
    <3>2. Cardinality(Taught(t)) <= Cardinality(Undoings(t))
      BY <3>1
    <3> QED BY <3>2 DEF Taught, Undoings
  <2>3. \A i \in DOMAIN mappings :
          Times(corrections, mappings[i].wrong, mappings[i].right) >= Threshold
    BY DEF LearnInv, Frequent, WordsOK
  <2> QED BY <2>1, <2>2, <2>3 DEF LearnedFromUndos
<1>2. WordsOK /\ ShotsOK /\ LearnInv /\ [Next]_vars => (WordsOK /\ ShotsOK /\ LearnInv)'
  BY WordsNext, ShotsNext, LearnNext
<1>3. Init => WordsOK /\ ShotsOK /\ LearnInv
  BY WordsInit, LearnInit
<1> QED BY <1>1, <1>2, <1>3, PTL DEF Spec

-----------------------------------------------------------------------------
(***************************************************************************)
(* The queue of the executor.  A job is that of a task which awaits it, so *)
(* that no task has two; only the first one has begun.                     *)
(***************************************************************************)
Free(doc, c)  == \A i \in 1..Len(doc) : doc[i][1] # c
Whole(doc, c) == \A i \in 1..Len(doc) : doc[i][1] = c

IsQueued(i) ==
  /\ call[jobs[i].by].at = jobs[i].do
  /\ jobs[i].begun => i = 1
  /\ jobs[i].do \in {"typing", "erasing"} => jobs[i].rest # <<>>
  /\ jobs[i].do = "typing" => Whole(jobs[i].rest, jobs[i].by)

QueueInv ==
  /\ \A i \in 1..Len(jobs) : IsQueued(i)
  /\ \A i, j \in 1..Len(jobs) : jobs[i].by = jobs[j].by => i = j
  /\ \A c \in Coroutines : Whole(call[c].text, c)

Base == EditorOK /\ CallsOK /\ QueueInv

LEMMA CallerTasks == Callers = Coroutines
  BY EditingAssumption DEF EditingAssumption

LEMMA JobFields ==
  ASSUME NEW j \in JobRecords
  PROVE  j.by \in Coroutines /\ j.do \in Jobs /\ j.rest \in Docs /\ j.begun \in BOOLEAN
  BY DEF JobRecords

LEMMA NewJob ==
  ASSUME NEW c \in Coroutines, NEW do \in Jobs, NEW rest \in Docs
  PROVE  LET j == [by |-> c, do |-> do, rest |-> rest, begun |-> FALSE]
         IN  j \in JobRecords /\ j.by = c /\ j.do = do /\ j.rest = rest /\ j.begun = FALSE
  BY DEF JobRecords

LEMMA JobGoesOn ==
  ASSUME NEW j \in JobRecords, NEW rest \in Docs
  PROVE  LET k == [j EXCEPT !.rest = rest, !.begun = TRUE]
         IN  k \in JobRecords /\ k.by = j.by /\ k.do = j.do /\ k.rest = rest /\ k.begun = TRUE
  BY DEF JobRecords

LEMMA CallFields ==
  ASSUME NEW k \in CallRecords, NEW at \in Over \union Waiting
  PROVE  /\ k.at \in Over \union Waiting /\ k.text \in Docs /\ k.count \in Nat
         /\ [k EXCEPT !.at = at] \in CallRecords
         /\ [k EXCEPT !.at = at].at = at /\ [k EXCEPT !.at = at].text = k.text
         /\ [k EXCEPT !.at = at].count = k.count
  BY DEF CallRecords

\* A task goes on to a stage of its call.
Moved(c, at) ==
  /\ call' \in [Coroutines -> CallRecords]
  /\ \A d \in Coroutines \ {c} : call'[d] = call[d]
  /\ call'[c].at = at /\ Whole(call'[c].text, c)

\* It does so by submitting a job, or without one.
Submits(c, do, rest) ==
  /\ c \in Coroutines /\ do \in Jobs /\ rest \in Docs /\ call[c].at \notin Jobs
  /\ do \in {"typing", "erasing"} => rest # <<>>
  /\ do = "typing" => Whole(rest, c)
  /\ Moved(c, do)
  /\ jobs' = Append(jobs, [by |-> c, do |-> do, rest |-> rest, begun |-> FALSE])
  /\ lastText' \in Docs
  /\ UNCHANGED <<clipboard, editor, faults, typed>>

Returns(c, at) ==
  /\ c \in Coroutines /\ at \notin Jobs /\ call[c].at \notin Jobs
  /\ Moved(c, at)
  /\ lastText' \in Docs
  /\ UNCHANGED <<jobs, clipboard, editor, faults, typed>>

LEMMA BaseStays == Base /\ UNCHANGED insertionVars => Base'
<1> SUFFICES ASSUME Base, UNCHANGED insertionVars PROVE Base'
  OBVIOUS
<1>1. UNCHANGED <<call, jobs>> /\ EditorOK' /\ CallsOK'
  BY DEF Base, EditorOK, CallsOK, insertionVars
<1>2. ASSUME NEW i \in 1..Len(jobs) PROVE IsQueued(i)'
  BY <1>1 DEF Base, QueueInv, IsQueued, Whole
<1>3. ASSUME NEW c \in Coroutines PROVE Whole(call[c].text, c)'
  BY <1>1 DEF Base, QueueInv, Whole
<1> QED BY <1>1, <1>2, <1>3 DEF Base, QueueInv

LEMMA BaseReturns ==
  ASSUME Base, NEW c, NEW at, Returns(c, at)
  PROVE  Base'
<1>1. EditorOK' /\ CallsOK'
  BY DEF Base, EditorOK, CallsOK, Returns, Moved
<1>2. ASSUME NEW i \in 1..Len(jobs) PROVE IsQueued(i)' /\ jobs[i].by # c
  <2>1. jobs[i] \in JobRecords
    BY DEF Base, CallsOK
  <2>2. IsQueued(i) /\ jobs[i].by \in Coroutines /\ jobs[i].do \in Jobs
    BY <2>1, JobFields DEF Base, QueueInv
  <2>3. jobs[i].by # c
    BY <2>2 DEF Returns, IsQueued
  <2> QED BY <2>2, <2>3 DEF Returns, Moved, IsQueued, Whole
<1>3. \A d \in Coroutines : Whole(call[d].text, d)'
  BY DEF Base, QueueInv, Returns, Moved, Whole
<1>4. jobs' = jobs
  BY DEF Returns
<1> QED BY <1>1, <1>2, <1>3, <1>4 DEF Base, QueueInv

LEMMA BaseSubmits ==
  ASSUME Base, NEW c, NEW do, NEW rest, Submits(c, do, rest)
  PROVE  /\ Base' /\ Len(jobs') = Len(jobs) + 1 /\ Len(jobs) \in Nat
         /\ \A i \in 1..Len(jobs) : jobs'[i] = jobs[i] /\ jobs[i].by # c
         /\ jobs'[Len(jobs) + 1].by = c /\ jobs'[Len(jobs) + 1].do = do
         /\ jobs'[Len(jobs) + 1].rest = rest /\ jobs'[Len(jobs) + 1].begun = FALSE
<1> DEFINE j == [by |-> c, do |-> do, rest |-> rest, begun |-> FALSE]
<1> PICK n \in Nat : n = Len(jobs)
  BY DEF Base, CallsOK
<1>1. j \in JobRecords /\ j.by = c /\ j.do = do /\ j.rest = rest /\ j.begun = FALSE
  BY NewJob DEF Submits
<1>2. jobs' = Append(jobs, j) /\ jobs \in Seq(JobRecords)
  BY DEF Submits, Base, CallsOK
<1> HIDE DEF j
<1>3. /\ jobs' \in Seq(JobRecords) /\ Len(jobs') = n + 1 /\ n \in Nat
      /\ \A i \in 1..n : jobs'[i] = jobs[i]
      /\ jobs'[n + 1] = j
  BY <1>1, <1>2, Appended
<1>4. EditorOK' /\ CallsOK'
  BY <1>3 DEF Base, EditorOK, CallsOK, Submits, Moved
<1>5. ASSUME NEW i \in 1..n PROVE IsQueued(i)' /\ jobs[i].by # c
  <2>1. jobs[i] \in JobRecords
    BY DEF Base, CallsOK
  <2>2. IsQueued(i) /\ jobs[i].by \in Coroutines /\ jobs[i].do \in Jobs
    BY <2>1, JobFields DEF Base, QueueInv
  <2>3. jobs[i].by # c
    BY <2>2 DEF Submits, IsQueued
  <2> QED BY <1>3, <2>2, <2>3 DEF Submits, Moved, IsQueued, Whole
<1>6. IsQueued(n + 1)'
  <2>1. jobs'[n + 1] = j /\ j.begun = FALSE /\ call'[j.by].at = j.do
    BY <1>1, <1>3 DEF Submits, Moved
  <2>2. /\ j.do \in {"typing", "erasing"} => j.rest # <<>>
        /\ j.do = "typing" => Whole(j.rest, j.by)
    BY <1>1 DEF Submits
  <2> QED BY <2>1, <2>2 DEF IsQueued, Whole
<1>7. \A i, k \in 1..(n + 1) : jobs'[i].by = jobs'[k].by => i = k
  <2> SUFFICES ASSUME NEW i \in 1..(n + 1), NEW k \in 1..(n + 1), jobs'[i].by = jobs'[k].by
               PROVE  i = k
    OBVIOUS
  <2>1. CASE i \in 1..n /\ k \in 1..n
    BY <1>3, <2>1 DEF Base, QueueInv
  <2>2. CASE i = n + 1 /\ k \in 1..n
    BY <1>1, <1>3, <1>5, <2>2
  <2>3. CASE k = n + 1 /\ i \in 1..n
    BY <1>1, <1>3, <1>5, <2>3
  <2> QED BY <1>3, <2>1, <2>2, <2>3
<1>8. \A d \in Coroutines : Whole(call[d].text, d)'
  BY DEF Base, QueueInv, Submits, Moved, Whole
<1>9. QueueInv'
  <2>1. ASSUME NEW i \in 1..Len(jobs') PROVE IsQueued(i)'
    <3>1. i \in 1..n \/ i = n + 1
      BY <1>3
    <3> QED BY <1>5, <1>6, <3>1
  <2>2. \A i, k \in 1..Len(jobs') : jobs'[i].by = jobs'[k].by => i = k
    BY <1>3, <1>7
  <2> QED BY <1>8, <2>1, <2>2 DEF QueueInv
<1> QED BY <1>1, <1>3, <1>4, <1>5, <1>9 DEF Base

-----------------------------------------------------------------------------
\* What the strategies do, in these terms.

LEMMA PasteDoes ==
  ASSUME Base, NEW c \in Coroutines, NEW n \in Nat, call[c].at \notin Jobs,
         Paste(c, Letters(c, n))
  PROVE  Submits(c, "copying", <<>>) /\ lastText' = lastText
<1>1. Letters(c, n) \in Docs /\ Whole(Letters(c, n), c)
  BY LettersOK DEF Whole
<1>2. [at |-> "copying", text |-> Letters(c, n), count |-> 0] \in CallRecords
  BY <1>1 DEF CallRecords, Waiting
<1>3. call' = [call EXCEPT ![c] = [at |-> "copying", text |-> Letters(c, n), count |-> 0]]
  BY DEF Paste, Calls
<1>4. Moved(c, "copying")
  BY <1>1, <1>2, <1>3 DEF Moved, Base, CallsOK
<1>5. <<>> \in Docs
  BY DEF Docs
<1> QED BY <1>4, <1>5 DEF Submits, Paste, Submitted, Jobs, Base, EditorOK

LEMMA InsertDoes ==
  ASSUME Base, NEW c \in Coroutines, NEW n \in Nat, call[c].at \notin Jobs,
         NEW ascii \in BOOLEAN, Insert(c, Letters(c, n), ascii)
  PROVE  \/ Returns(c, "ok") /\ lastText' = lastText
         \/ /\ ascii /\ Submits(c, "typing", Letters(c, n))
            /\ lastText' = Letters(c, n)
         \/ ~ascii /\ Submits(c, "copying", <<>>) /\ lastText' = lastText
<1>1. Letters(c, n) \in Docs /\ Whole(Letters(c, n), c)
  BY LettersOK DEF Whole
<1>2. \A at \in Over \union Waiting :
         [at |-> at, text |-> Letters(c, n), count |-> 0] \in CallRecords
  BY <1>1 DEF CallRecords
<1>3. ASSUME NEW at \in Over \union Waiting,
             Calls(c, at, Letters(c, n), 0)
      PROVE  Moved(c, at)
  BY <1>1, <1>2, <1>3 DEF Moved, Base, CallsOK, Calls
<1>4. CASE /\ Letters(c, n) = <<>> /\ Calls(c, "ok", Letters(c, n), 0)
           /\ UNCHANGED <<jobs, lastText, handle, clipboard, editor, faults, typed>>
  BY <1>3, <1>4 DEF Returns, Over, Jobs, Base, EditorOK
<1>5. CASE /\ Letters(c, n) # <<>> /\ ascii /\ lastText' = Letters(c, n)
           /\ Calls(c, "typing", Letters(c, n), 0) /\ Submitted(c, "typing", Letters(c, n))
           /\ UNCHANGED <<clipboard, editor, faults, typed>>
  <2>1. Moved(c, "typing")
    BY <1>3, <1>5 DEF Waiting
  <2> QED BY <1>1, <1>5, <2>1 DEF Submits, Submitted, Jobs
<1>6. CASE ~ascii /\ Paste(c, Letters(c, n))
  BY <1>6, PasteDoes
<1> QED BY <1>4, <1>5, <1>6 DEF Insert

\* The keys that remove: backspaces for a text whose length is known.
RemovesBy(do, n) == (do = "erasing" /\ n > 0) \/ (do = "reverting" /\ n = 0)

LEMMA UndoDoes ==
  ASSUME Base, NEW c \in Coroutines, call[c].at \notin Jobs, UndoLast(c)
  PROVE  /\ lastText' = lastText
         /\ \/ /\ Submits(c, "focusing", <<>>)
               /\ call'[c].count = Len(lastText)
            \/ \E do \in {"erasing", "reverting"} :
                 Submits(c, do, lastText) /\ RemovesBy(do, Len(lastText))
<1> DEFINE n  == Len(lastText)
           at == IF handle THEN "focusing" ELSE Removal(n)
<1>1. n \in Nat /\ lastText \in Docs /\ (n = 0 <=> lastText = <<>>) /\ <<>> \in Docs
  BY DEF Base, EditorOK, Docs
<1>2. at \in {"focusing", "erasing", "reverting"}
  BY DEF Removal
<1>3. /\ call' = [call EXCEPT ![c] = [at |-> at, text |-> <<>>, count |-> n]]
      /\ jobs' = Append(jobs, [by |-> c, do |-> at,
                               rest |-> IF handle THEN <<>> ELSE lastText, begun |-> FALSE])
      /\ UNCHANGED <<lastText, clipboard, editor, faults, typed>>
  BY DEF UndoLast, Calls, Submitted
<1>4. [at |-> at, text |-> <<>>, count |-> n] \in CallRecords
  BY <1>1, <1>2 DEF CallRecords, Waiting
<1>5. Moved(c, at) /\ call'[c].count = n
  BY <1>3, <1>4 DEF Moved, Whole, Base, CallsOK
<1>6. CASE handle
  BY <1>1, <1>3, <1>5, <1>6 DEF Submits, Jobs
<1>7. CASE ~handle
  <2>1. RemovesBy(at, n) /\ at \in {"erasing", "reverting"}
    BY <1>1, <1>7 DEF Removal, RemovesBy
  <2>2. Submits(c, at, lastText)
    BY <1>1, <1>3, <1>5, <1>7, <2>1 DEF Submits, Jobs, RemovesBy
  <2> QED BY <1>3, <2>1, <2>2
<1> QED BY <1>6, <1>7

LEMMA WakesDoes ==
  ASSUME Base, NEW c \in Coroutines, Wakes(c)
  PROVE  /\ lastText' = lastText /\ overlapped' = overlapped
         /\ \E rest \in Docs : Len(rest) = call[c].count /\
              \/ call[c].at = "settling" /\ Submits(c, "pasting", rest)
              \/ /\ call[c].at = "pausing"
                 /\ \E do \in {"erasing", "reverting"} :
                      Submits(c, do, rest) /\ RemovesBy(do, call[c].count)
<1> DEFINE n    == call[c].count
           then == IF call[c].at = "settling" THEN "pasting" ELSE Removal(n)
<1>1. call[c] \in CallRecords /\ n \in Nat /\ Whole(call[c].text, c)
  BY DEF Base, CallsOK, CallRecords, QueueInv
<1>2. /\ Letters(c, n) \in Docs /\ Len(Letters(c, n)) = n
      /\ n = 0 <=> Letters(c, n) = <<>>
  BY <1>1, LettersOK DEF Docs
<1>3. then \in {"pasting", "erasing", "reverting"}
  BY DEF Removal
<1>4. /\ call[c].at \in {"settling", "pausing"}
      /\ call' = [call EXCEPT ![c] = [call[c] EXCEPT !.at = then]]
      /\ jobs' = Append(jobs, [by |-> c, do |-> then, rest |-> Letters(c, n), begun |-> FALSE])
      /\ UNCHANGED <<lastText, clipboard, editor, faults, typed, overlapped>>
  BY DEF Wakes, Submitted
<1>5. Moved(c, then)
  <2>1. then \in Over \union Waiting
    BY <1>3 DEF Waiting
  <2> HIDE DEF then
  <2>2. [call[c] EXCEPT !.at = then] \in CallRecords
        /\ [call[c] EXCEPT !.at = then].at = then
        /\ [call[c] EXCEPT !.at = then].text = call[c].text
    BY <1>1, <2>1, CallFields
  <2> QED BY <1>1, <1>4, <2>2 DEF Moved, Base, CallsOK
<1>6. lastText' \in Docs
  BY <1>4 DEF Base, EditorOK
<1>7. CASE call[c].at = "settling"
  BY <1>2, <1>4, <1>5, <1>6, <1>7 DEF Submits, Jobs
<1>8. CASE call[c].at = "pausing"
  <2>1. RemovesBy(then, n) /\ then \in {"erasing", "reverting"}
    BY <1>1, <1>8 DEF Removal, RemovesBy
  <2>2. Submits(c, then, Letters(c, n))
    BY <1>1, <1>2, <1>4, <1>5, <1>6, <1>8, <2>1 DEF Submits, Jobs, RemovesBy
  <2> QED BY <1>2, <1>4, <1>8, <2>1, <2>2
<1> QED BY <1>4, <1>7, <1>8

LEMMA ForgetsDoes ==
  ASSUME Base, NEW c \in Coroutines, Forgets(c)
  PROVE  /\ call[c].at = "erased" /\ Returns(c, "ok") /\ lastText' = <<>>
         /\ overlapped' = overlapped
<1>1. call[c] \in CallRecords /\ Whole(call[c].text, c)
  BY DEF Base, CallsOK, QueueInv
<1>2. call' = [call EXCEPT ![c] = [call[c] EXCEPT !.at = "ok"]]
  BY DEF Forgets
<1>3. [call[c] EXCEPT !.at = "ok"] \in CallRecords
      /\ [call[c] EXCEPT !.at = "ok"].at = "ok"
      /\ [call[c] EXCEPT !.at = "ok"].text = call[c].text
  BY <1>1, CallFields DEF Over
<1>4. Moved(c, "ok")
  BY <1>1, <1>2, <1>3 DEF Moved, Base, CallsOK
<1> QED BY <1>4 DEF Forgets, Returns, Jobs, Docs

-----------------------------------------------------------------------------
\* What the executor does, in these terms.

\* The job goes on, or ends.
KeepsAt ==
  /\ call' = call
  /\ jobs' = [jobs EXCEPT ![1] = [jobs[1] EXCEPT !.rest = Tail(jobs[1].rest), !.begun = TRUE]]

Finishes(at) ==
  call' = [call EXCEPT ![jobs[1].by] = [call[jobs[1].by] EXCEPT !.at = at]] /\ jobs' = Tail(jobs)

\* The application shows a document, on top of those it had or in place of the last.
Shows(doc) ==
  /\ editor' \in Seq(Docs) /\ editor' # <<>> /\ doc \in Docs /\ Document' = doc
  /\ \A k \in 1..Len(editor') :
       editor'[k] = doc \/ \E m \in 1..Len(editor) : editor'[k] = editor[m]

Reverts ==
  /\ editor' \in Seq(Docs) /\ editor' # <<>>
  /\ \A k \in 1..Len(editor') : \E m \in 1..Len(editor) : editor'[k] = editor[m]

LEMMA Fronts ==
  ASSUME NEW S, NEW s \in Seq(S), s # <<>>
  PROVE  /\ Len(s) \in Nat \ {0} /\ Last(s) = s[Len(s)] /\ Last(s) \in S
         /\ Front(s) \in Seq(S) /\ Len(Front(s)) = Len(s) - 1
         /\ \A i \in 1..(Len(s) - 1) : Front(s)[i] = s[i]
<1>1. Len(s) \in Nat \ {0} /\ \A i \in 1..(Len(s) - 1) : s[i] \in S
  BY EmptySeq, ElementOfSeq
<1>2. 1 \in Int /\ Len(s) - 1 \in Int
  BY <1>1
<1>3. /\ SubSeq(s, 1, Len(s) - 1) \in Seq(S)
      /\ Len(SubSeq(s, 1, Len(s) - 1)) = IF 1 <= Len(s) - 1 THEN Len(s) - 1 - 1 + 1 ELSE 0
      /\ \A i \in 1..(Len(s) - 1 - 1 + 1) : SubSeq(s, 1, Len(s) - 1)[i] = s[1 + i - 1]
  BY <1>1, <1>2, SubSeqProperties
<1>4. Last(s) = s[Len(s)] /\ Front(s) = SubSeq(s, 1, Len(s) - 1)
  BY DEF Last, Front
<1>5. Len(s) \in 1..Len(s)
  BY <1>1
<1>6. s[Len(s)] \in S
  BY <1>5, ElementOfSeq
<1> HIDE DEF Last, Front
<1> PICK n \in Nat \ {0} : n = Len(s)
  BY <1>1
<1>7. Len(Front(s)) = n - 1
  BY <1>3, <1>4
<1>8. \A i \in 1..(n - 1) : Front(s)[i] = s[i]
  BY <1>3, <1>4
<1> QED BY <1>1, <1>3, <1>4, <1>6, <1>7, <1>8

LEMMA EndsFirst ==
  ASSUME NEW S, NEW s \in Seq(S), s # <<>>
  PROVE  RemoveAt(s, 1) = Tail(s)
<1>1. SubSeq(s, 1, 0) = <<>>
  BY SubSeqEmpty
<1>2. SubSeq(s, 2, Len(s)) = Tail(s) /\ Tail(s) \in Seq(S)
  BY TailIsSubSeq, HeadTailProperties
<1>3. RemoveAt(s, 1) = <<>> \o Tail(s)
  BY <1>1, <1>2 DEF RemoveAt
<1> QED BY <1>2, <1>3, ConcatEmptySeq

LEMMA EditsShows ==
  ASSUME EditorOK, NEW doc \in Docs, Edits(1, doc)
  PROVE  Shows(doc)
<1> DEFINE base == IF jobs[1].begun THEN Front(editor) ELSE editor
<1>1. /\ Len(editor) \in Nat \ {0} /\ Front(editor) \in Seq(Docs)
      /\ Len(Front(editor)) = Len(editor) - 1
      /\ \A i \in 1..(Len(editor) - 1) : Front(editor)[i] = editor[i]
  BY Fronts DEF EditorOK
<1> PICK n \in Nat : n = Len(base)
  BY <1>1 DEF EditorOK
<1>2. /\ base \in Seq(Docs) /\ n <= Len(editor)
      /\ \A i \in 1..n : base[i] = editor[i]
  BY <1>1 DEF EditorOK
<1>3. editor' = base \o <<doc>>
  BY DEF Edits
<1> HIDE DEF base
<1>4. <<doc>> \in Seq(Docs) /\ Len(<<doc>>) = 1 /\ <<doc>>[1] = doc
  OBVIOUS
<1>5. /\ editor' \in Seq(Docs) /\ Len(editor') = n + 1
      /\ \A i \in 1..(n + 1) :
           editor'[i] = IF i <= n THEN base[i] ELSE <<doc>>[i - n]
  BY <1>2, <1>3, <1>4, ConcatProperties
<1>6. editor' # <<>>
  BY <1>5
<1>7. Document' = doc
  <2>1. Document' = editor'[n + 1]
    BY <1>5 DEF Document, Last
  <2>2. editor'[n + 1] = <<doc>>[1]
    BY <1>5
  <2> QED BY <1>4, <2>1, <2>2
<1>8. ASSUME NEW k \in 1..Len(editor')
      PROVE  editor'[k] = doc \/ \E m \in 1..Len(editor) : editor'[k] = editor[m]
  <2>1. CASE k \in 1..n
    <3>1. k \in 1..Len(editor) /\ editor'[k] = editor[k]
      BY <1>1, <1>2, <1>5, <2>1
    <3> QED BY <3>1
  <2>2. CASE k = n + 1
    BY <1>4, <1>5, <2>2
  <2> QED BY <1>2, <1>5, <2>1, <2>2
<1> QED BY <1>5, <1>6, <1>7, <1>8 DEF Shows

LEMMA DocumentOK == EditorOK => /\ Document \in Docs /\ Len(editor) \in Nat \ {0}
                                /\ Document = editor[Len(editor)]
<1> SUFFICES ASSUME EditorOK
             PROVE  Document \in Docs /\ Len(editor) \in Nat \ {0} /\ Document = editor[Len(editor)]
  OBVIOUS
<1>1. editor \in Seq(Docs) /\ editor # <<>>
  BY DEF EditorOK
<1> QED BY <1>1, Fronts DEF Document

\* The first job, and what is left of the queue without it.
LEMMA FirstJob ==
  ASSUME Base, jobs # <<>>
  PROVE  /\ 1 \in 1..Len(jobs) /\ jobs[1] \in JobRecords /\ IsQueued(1)
         /\ jobs[1].by \in Coroutines /\ jobs[1].do \in Jobs /\ jobs[1].rest \in Docs
         /\ call[jobs[1].by] \in CallRecords
<1>1. jobs \in Seq(JobRecords) /\ 1 \in 1..Len(jobs)
  BY DEF Base, CallsOK
<1>2. jobs[1] \in JobRecords
  BY <1>1, ElementOfSeq
<1>3. jobs[1].by \in Coroutines /\ jobs[1].do \in Jobs /\ jobs[1].rest \in Docs
  BY <1>2, JobFields
<1> QED BY <1>1, <1>2, <1>3 DEF Base, CallsOK, QueueInv

KeyDone(at) == Len(jobs[1].rest) = 1 /\ Finishes(at)
KeyMore     == Len(jobs[1].rest) \notin {0, 1} /\ KeepsAt

LEMMA OneOrMore ==
  /\ \A at : KeyDone(at) => Len(jobs[1].rest) = 1
  /\ KeyMore => Len(jobs[1].rest) # 1
  BY DEF KeyDone, KeyMore

LEMMA KeyDoes ==
  ASSUME Base, jobs # <<>>, NEW do, NEW doc \in Docs, NEW at, KeyBy(1, do, doc, at),
         jobs[1].rest # <<>>
  PROVE  /\ jobs[1].do = do /\ Shows(doc)
         /\ KeyDone(at) \/ KeyMore
<1>1. jobs \in Seq(JobRecords) /\ EditorOK /\ jobs[1].rest \in Docs
  BY FirstJob DEF Base, CallsOK
<1>2. RemoveAt(jobs, 1) = Tail(jobs)
  BY <1>1, EndsFirst
<1>3. Len(jobs[1].rest) # 0
  BY <1>1, EmptySeq DEF Docs
<1>4. jobs[1].do = do /\ Shows(doc)
  BY <1>1, EditsShows DEF KeyBy
<1>5. CASE Len(jobs[1].rest) = 1
  BY <1>2, <1>4, <1>5 DEF KeyBy, Ends, Becomes, KeyDone, Finishes
<1>6. CASE Len(jobs[1].rest) # 1
  <2>1. UNCHANGED call /\ jobs' = [jobs EXCEPT ![1].rest = Tail(@), ![1].begun = TRUE]
    BY <1>6 DEF KeyBy
  <2>2. [jobs EXCEPT ![1].rest = Tail(@), ![1].begun = TRUE]
          = [jobs EXCEPT ![1] = [jobs[1] EXCEPT !.rest = Tail(jobs[1].rest), !.begun = TRUE]]
    BY <1>1, FirstJob DEF JobRecords
  <2>3. KeepsAt
    BY <2>1, <2>2 DEF KeepsAt
  <2> QED BY <1>3, <1>4, <1>6, <2>3 DEF KeyMore
<1> QED BY <1>4, <1>5, <1>6

TypesOn ==
  /\ jobs[1].do = "typing" /\ Shows(Append(Document, Head(jobs[1].rest)))
  /\ (KeyDone("ok") /\ typed' = jobs[1].by) \/ (KeyMore /\ typed' = <<>>)
  /\ UNCHANGED <<clipboard, faults>>

Shorter(doc) == IF doc = <<>> THEN <<>> ELSE Front(doc)

ErasesOn ==
  /\ jobs[1].do = "erasing" /\ Shows(Shorter(Document))
  /\ (KeyDone("erased") /\ typed' = <<>>) \/ (KeyMore /\ typed' = typed)
  /\ UNCHANGED <<clipboard, faults>>

Pastes ==
  /\ jobs[1].do = "pasting" /\ Shows(Document \o clipboard)
  /\ Finishes("ok") /\ typed' = <<>>
  /\ UNCHANGED <<clipboard, faults>>

TakesBack ==
  /\ jobs[1].do = "reverting" /\ Reverts
  /\ Finishes("ok") /\ typed' = <<>>
  /\ UNCHANGED <<clipboard, faults>>

Copies ==
  /\ jobs[1].do = "copying" /\ clipboard' = call[jobs[1].by].text
  /\ Finishes("settling")
  /\ UNCHANGED <<editor, typed, faults>>

Focuses ==
  /\ jobs[1].do = "focusing" /\ Finishes("pausing")
  /\ UNCHANGED <<clipboard, editor, typed, faults>>

Fails ==
  /\ Finishes("failed") /\ faults' = faults + 1 /\ typed' = <<>>
  /\ UNCHANGED <<clipboard, editor>>

LEMMA ExecutesDoes ==
  ASSUME Base, NEW i \in 1..2, Executes(i)
  PROVE  /\ jobs # <<>> /\ lastText' = lastText /\ overlapped' = overlapped
         /\ TypesOn \/ ErasesOn \/ Pastes \/ TakesBack \/ Copies \/ Focuses \/ Fails
<1>1. i = 1 /\ 1 \in DOMAIN jobs /\ jobs # <<>> /\ UNCHANGED <<lastText, overlapped>>
  BY DEF Executes, Runs
<1>2. jobs \in Seq(JobRecords) /\ EditorOK /\ IsQueued(1) /\ jobs[1].rest \in Docs
  BY <1>1, FirstJob DEF Base, CallsOK
<1>3. RemoveAt(jobs, 1) = Tail(jobs)
  BY <1>1, <1>2, EndsFirst
<1>4. Document \in Docs
  BY <1>2, DocumentOK
<1>5. CASE TypeKey(1) /\ UNCHANGED <<clipboard, faults>>
  <2>1. jobs[1].do = "typing" /\ jobs[1].rest # <<>>
    BY <1>2, <1>5 DEF TypeKey, KeyBy, IsQueued
  <2>2. Append(Document, Head(jobs[1].rest)) \in Docs
    BY <1>2, <1>4, <2>1 DEF Docs
  <2>3. Shows(Append(Document, Head(jobs[1].rest))) /\ (KeyDone("ok") \/ KeyMore)
    BY <1>1, <1>5, <2>1, <2>2, KeyDoes DEF TypeKey
  <2>4. typed' = IF Len(jobs[1].rest) = 1 THEN jobs[1].by ELSE <<>>
    BY <1>5 DEF TypeKey
  <2>5. (KeyDone("ok") /\ typed' = jobs[1].by) \/ (KeyMore /\ typed' = <<>>)
    BY <2>3, <2>4, OneOrMore
  <2> QED BY <1>1, <1>5, <2>1, <2>3, <2>5 DEF TypesOn
<1>6. CASE EraseKey(1) /\ UNCHANGED <<clipboard, faults>>
  <2>1. jobs[1].do = "erasing" /\ jobs[1].rest # <<>>
    BY <1>2, <1>6 DEF EraseKey, KeyBy, IsQueued
  <2>2. Shorter(Document) \in Docs
    BY <1>4, Fronts DEF Docs, Shorter
  <2>3. KeyBy(1, "erasing", Shorter(Document), "erased")
    BY <1>6 DEF EraseKey, Shorter
  <2>4. Shows(Shorter(Document)) /\ (KeyDone("erased") \/ KeyMore)
    BY <1>1, <2>1, <2>2, <2>3, KeyDoes
  <2>5. typed' = IF Len(jobs[1].rest) = 1 THEN <<>> ELSE typed
    BY <1>6 DEF EraseKey
  <2>6. (KeyDone("erased") /\ typed' = <<>>) \/ (KeyMore /\ typed' = typed)
    BY <2>4, <2>5, OneOrMore
  <2> QED BY <1>1, <1>6, <2>1, <2>4, <2>6 DEF ErasesOn
<1>7. CASE PasteKey(1) /\ UNCHANGED <<clipboard, faults>>
  <2>1. Document \o clipboard \in Docs
    BY <1>2, <1>4 DEF EditorOK, Docs
  <2>2. Shows(Document \o clipboard)
    BY <1>2, <1>7, <2>1, EditsShows DEF PasteKey
  <2> QED BY <1>1, <1>3, <1>7, <2>2 DEF PasteKey, Pastes, Finishes, Ends, Becomes
<1>8. CASE RevertKey(1) /\ UNCHANGED <<clipboard, faults>>
  <2>1. Reverts
    <3>1. /\ editor \in Seq(Docs) /\ editor # <<>> /\ Front(editor) \in Seq(Docs)
          /\ Len(Front(editor)) = Len(editor) - 1 /\ Len(editor) \in Nat
          /\ \A k \in 1..(Len(editor) - 1) : Front(editor)[k] = editor[k]
      BY <1>2, Fronts DEF EditorOK
    <3>2. CASE Len(editor) > 1
      <4>1. editor' = Front(editor)
        BY <1>8, <3>2 DEF RevertKey
      <4>2. editor' # <<>>
        BY <3>1, <3>2, <4>1
      <4> QED BY <3>1, <4>1, <4>2 DEF Reverts
    <3>3. CASE ~(Len(editor) > 1)
      BY <1>8, <3>1, <3>3 DEF RevertKey, Reverts
    <3> QED BY <3>2, <3>3
  <2> QED BY <1>1, <1>3, <1>8, <2>1 DEF RevertKey, TakesBack, Finishes, Ends, Becomes
<1>9. CASE Quiet(1) /\ UNCHANGED faults
  BY <1>1, <1>3, <1>9 DEF Quiet, Copies, Focuses, Finishes, Ends, Becomes
<1>10. CASE Raises(1)
  BY <1>1, <1>3, <1>10 DEF Raises, Fails, Finishes, Ends, Becomes
<1> QED BY <1>1, <1>5, <1>6, <1>7, <1>8, <1>9, <1>10 DEF Executes

\* The queue after a step of the executor.
LEMMA BaseKeeps ==
  ASSUME Base, jobs # <<>>, KeyMore, EditorOK'
  PROVE  /\ Base' /\ call' = call /\ Len(jobs') = Len(jobs) /\ Len(jobs) \in Nat \ {0}
         /\ \A i \in 1..Len(jobs) : i # 1 => jobs'[i] = jobs[i]
         /\ jobs'[1].by = jobs[1].by /\ jobs'[1].do = jobs[1].do
         /\ jobs'[1].rest = Tail(jobs[1].rest) /\ jobs'[1].begun = TRUE
<1> DEFINE j == jobs[1]
           k == [j EXCEPT !.rest = Tail(j.rest), !.begun = TRUE]
<1>1. j \in JobRecords /\ IsQueued(1) /\ j.rest \in Docs /\ Len(j.rest) \notin {0, 1}
      /\ jobs \in Seq(JobRecords) /\ 1 \in 1..Len(jobs)
  BY FirstJob DEF Base, CallsOK, KeyMore
<1>2. /\ Tail(j.rest) \in Docs /\ Tail(j.rest) # <<>> /\ Len(Tail(j.rest)) = Len(j.rest) - 1
      /\ \A i \in 1..(Len(j.rest) - 1) : Tail(j.rest)[i] = j.rest[i + 1]
  <2>1. j.rest \in Seq(Chars) /\ j.rest # <<>> /\ Len(j.rest) \in Nat
    BY <1>1 DEF Docs
  <2>2. /\ Tail(j.rest) \in Seq(Chars) /\ Len(Tail(j.rest)) = Len(j.rest) - 1
        /\ \A i \in 1..Len(Tail(j.rest)) : Tail(j.rest)[i] = j.rest[i + 1]
    BY <2>1, HeadTailProperties
  <2>3. Tail(j.rest) # <<>>
    <3>1. PICK n \in Nat \ {0, 1} : n = Len(j.rest)
      BY <1>1, <2>1
    <3>2. Len(Tail(j.rest)) # 0 /\ Len(<<>>) = 0
      BY <2>2, <3>1
    <3> QED BY <3>2
  <2> QED BY <2>2, <2>3 DEF Docs
<1>3. /\ k \in JobRecords /\ k.by = j.by /\ k.do = j.do /\ k.rest = Tail(j.rest)
      /\ k.begun = TRUE
  BY <1>1, <1>2, JobGoesOn
<1>4. call' = call /\ jobs' = [jobs EXCEPT ![1] = k]
  BY DEF KeyMore, KeepsAt
<1> HIDE DEF k
<1>5. /\ jobs' \in Seq(JobRecords) /\ Len(jobs') = Len(jobs) /\ jobs'[1] = k
      /\ \A i \in 1..Len(jobs) : i # 1 => jobs'[i] = jobs[i]
      /\ Len(jobs) \in Nat \ {0}
  BY <1>1, <1>3, <1>4, ExceptSeq
<1>6. ASSUME NEW i \in 1..Len(jobs) PROVE IsQueued(i)' /\ jobs'[i].by = jobs[i].by
  <2>1. IsQueued(i)
    BY DEF Base, QueueInv
  <2>2. CASE i = 1
    <3>1. j.do = "typing" => Whole(Tail(j.rest), j.by)
      BY <1>1, <1>2 DEF IsQueued, Whole, Docs
    <3>2. call'[k.by].at = k.do /\ k.rest # <<>>
      BY <1>1, <1>2, <1>3, <1>4 DEF IsQueued
    <3> QED BY <1>3, <1>5, <2>2, <3>1, <3>2 DEF IsQueued, Whole
  <2>3. CASE i # 1
    BY <1>4, <1>5, <2>1, <2>3 DEF IsQueued, Whole
  <2> QED BY <2>2, <2>3
<1>7. \A c \in Coroutines : Whole(call[c].text, c)'
  BY <1>4 DEF Base, QueueInv, Whole
<1>8. QueueInv'
  BY <1>5, <1>6, <1>7 DEF QueueInv, Base
<1>9. CallsOK'
  BY <1>4, <1>5 DEF Base, CallsOK
<1> QED BY <1>3, <1>4, <1>5, <1>8, <1>9 DEF Base

LEMMA BaseFinishes ==
  ASSUME Base, jobs # <<>>, EditorOK',
         NEW at \in (Over \union Waiting) \ Jobs, Finishes(at)
  PROVE  /\ Base' /\ Len(jobs') = Len(jobs) - 1 /\ Len(jobs) \in Nat \ {0}
         /\ \A i \in 1..(Len(jobs) - 1) : /\ i + 1 \in 1..Len(jobs)
                                          /\ jobs'[i] = jobs[i + 1] /\ ~jobs'[i].begun
                                          /\ jobs'[i].by # jobs[1].by
         /\ \A c \in Coroutines : c # jobs[1].by => call'[c] = call[c]
         /\ call'[jobs[1].by].at = at /\ call'[jobs[1].by].count = call[jobs[1].by].count
<1> DEFINE b == jobs[1].by
           k == [call[b] EXCEPT !.at = at]
<1>1. /\ 1 \in 1..Len(jobs) /\ IsQueued(1) /\ b \in Coroutines /\ call[b] \in CallRecords
      /\ jobs \in Seq(JobRecords)
  BY FirstJob DEF Base, CallsOK
<1>2. k \in CallRecords /\ k.at = at /\ k.text = call[b].text /\ k.count = call[b].count
  BY <1>1, CallFields
<1>3. call' = [call EXCEPT ![b] = k] /\ jobs' = Tail(jobs)
  BY DEF Finishes
<1> HIDE DEF k
<1>4. /\ call' \in [Coroutines -> CallRecords] /\ call'[b] = k
      /\ \A c \in Coroutines : c # b => call'[c] = call[c]
  BY <1>1, <1>2, <1>3 DEF Base, CallsOK
<1>5. /\ jobs' \in Seq(JobRecords) /\ Len(jobs') = Len(jobs) - 1 /\ Len(jobs) \in Nat \ {0}
      /\ \A i \in 1..(Len(jobs) - 1) : i + 1 \in 1..Len(jobs) /\ jobs'[i] = jobs[i + 1]
  BY <1>1, <1>3
<1>6. ASSUME NEW i \in 1..(Len(jobs) - 1)
      PROVE  IsQueued(i)' /\ ~jobs'[i].begun /\ jobs'[i].by # b
  <2>1. i + 1 \in 1..Len(jobs) /\ i + 1 # 1 /\ jobs'[i] = jobs[i + 1]
    BY <1>5
  <2>2. IsQueued(i + 1) /\ jobs[i + 1] \in JobRecords
    BY <1>1, <2>1, ElementOfSeq DEF Base, QueueInv
  <2>3. jobs[i + 1].by \in Coroutines /\ jobs[i + 1].begun = FALSE
    BY <2>1, <2>2, JobFields DEF IsQueued
  <2>4. jobs[i + 1].by # b
    BY <1>1, <2>1 DEF Base, QueueInv
  <2> QED BY <1>4, <2>1, <2>2, <2>3, <2>4 DEF IsQueued, Whole
<1>7. \A i, m \in 1..(Len(jobs) - 1) : jobs'[i].by = jobs'[m].by => i = m
  <2>1. ASSUME NEW i \in 1..(Len(jobs) - 1), NEW m \in 1..(Len(jobs) - 1),
               jobs'[i].by = jobs'[m].by
        PROVE  i = m
    <3>1. /\ i + 1 \in 1..Len(jobs) /\ jobs'[i] = jobs[i + 1]
          /\ m + 1 \in 1..Len(jobs) /\ jobs'[m] = jobs[m + 1]
      BY <1>5
    <3>2. i + 1 = m + 1
      BY <2>1, <3>1 DEF Base, QueueInv
    <3> QED BY <3>2
  <2> QED BY <2>1
<1>8. \A c \in Coroutines : Whole(call[c].text, c)'
  BY <1>1, <1>2, <1>4 DEF Base, QueueInv, Whole
<1>9. QueueInv'
  BY <1>5, <1>6, <1>7, <1>8 DEF QueueInv
<1>10. CallsOK'
  BY <1>4, <1>5 DEF CallsOK
<1> QED BY <1>2, <1>4, <1>5, <1>6, <1>9, <1>10 DEF Base

LEMMA EditorExecutes ==
  ASSUME Base, NEW i \in 1..2, Executes(i)
  PROVE  EditorOK'
<1>1. /\ jobs # <<>> /\ lastText' = lastText
      /\ TypesOn \/ ErasesOn \/ Pastes \/ TakesBack \/ Copies \/ Focuses \/ Fails
  BY ExecutesDoes
<1>2. jobs[1].by \in Coroutines /\ call[jobs[1].by] \in CallRecords
  BY <1>1, FirstJob
<1>3. call[jobs[1].by].text \in Docs
  BY <1>2 DEF CallRecords
<1>4. /\ clipboard' \in Docs /\ faults' \in Nat
      /\ typed' \in Coroutines \union {<<>>}
  BY <1>1, <1>2, <1>3
     DEF TypesOn, ErasesOn, Pastes, TakesBack, Copies, Focuses, Fails, Base, EditorOK
<1>5. editor' \in Seq(Docs) /\ editor' # <<>>
  BY <1>1
     DEF TypesOn, ErasesOn, Pastes, TakesBack, Copies, Focuses, Fails, Shows, Reverts,
         Base, EditorOK
<1> QED BY <1>1, <1>4, <1>5 DEF EditorOK, Base

LEMMA BaseExecutes ==
  ASSUME Base, NEW i \in 1..2, Executes(i)
  PROVE  Base'
<1>1. jobs # <<>> /\ EditorOK'
  BY ExecutesDoes, EditorExecutes
<1>2. \/ KeyMore
      \/ \E at \in {"ok", "erased", "settling", "pausing", "failed"} : Finishes(at)
  BY ExecutesDoes
     DEF TypesOn, ErasesOn, Pastes, TakesBack, Copies, Focuses, Fails, KeyDone
<1>3. {"ok", "erased", "settling", "pausing", "failed"} \subseteq (Over \union Waiting) \ Jobs
  BY DEF Over, Waiting, Jobs
<1> QED BY <1>1, <1>2, <1>3, BaseKeeps, BaseFinishes

-----------------------------------------------------------------------------
(***************************************************************************)
(* The stages of the tasks.  A task has called the strategy only when it   *)
(* is past the stages below; a command is created once, by its pipeline.   *)
(***************************************************************************)
Before ==
  {"none", "recognizing", "waiting", "extracting", "cleaning",
   "newline", "paragraph", "undo", "capitalize", "redoing"}

Writing == {"typing", "copying", "settling", "pasting"}

StageOK(c) ==
  /\ stage[c] \in Before \ {"redoing"} => call[c].at = "none"
  /\ stage[c] = "redoing" => call[c].at \notin Writing
  /\ c \in Pipelines =>
       stage[c] \notin {"newline", "paragraph", "undo", "capitalize", "calling", "redoing"}

FlowOK ==
  \A d \in Dictations :
    /\ d > spoken \/ (d = spoken /\ recording) => stage[<<"pipeline", d>>] = "none"
    /\ stage[<<"pipeline", d>>] \in {"none", "recognizing"} =>
         stage[<<"command", d>>] = "none"

StagesInv == FlowOK /\ \A c \in Coroutines : StageOK(c)

\* The call a step of a task begins.
Called(c) ==
  /\ c \in Coroutines /\ call[c].at \in Over
  /\ overlapped' = (overlapped \/ \E d \in Coroutines \ {c} : call[d].at \notin Over)
  /\ \/ Returns(c, "ok") /\ lastText' = lastText
     \/ \E n \in Nat : Submits(c, "typing", Letters(c, n)) /\ lastText' = Letters(c, n)
     \/ Submits(c, "copying", <<>>) /\ lastText' = lastText
     \/ /\ Submits(c, "focusing", <<>>) /\ lastText' = lastText
        /\ call'[c].count = Len(lastText)
     \/ \E do \in {"erasing", "reverting"} :
          /\ Submits(c, do, lastText) /\ RemovesBy(do, Len(lastText))
          /\ lastText' = lastText

\* The other tasks while a task takes a step: it may be a pipeline which creates one.
Aside(b) ==
  \/ stage'[b] = stage[b] /\ text'[b] = text[b]
  \/ b \notin Pipelines /\ stage[b] = "none" /\ stage'[b] \in Commands

\* The steps of a task, by what they ask of the strategy.
Waits(c) ==
  /\ c \in Pipelines
  /\ stage[c] \in {"none", "recognizing", "waiting", "extracting"}
  /\ stage'[c] \in {"recognizing", "waiting", "extracting", "cleaning", "over"}
  /\ UNCHANGED insertionVars

Begins(c) ==
  /\ stage[c] \in Before /\ stage'[c] \in {"inserting", "calling"}
  /\ Called(c)
  /\ c \in Pipelines =>
       /\ stage'[c] = "inserting"
       /\ text'[c].words \notin Lines /\ text'[c].images = {} =>
            call'[c].at \in {"ok", "typing"}

Removes(c) ==
  /\ \/ c \notin Pipelines /\ stage[c] \in Before /\ stage'[c] \in {"calling", "redoing"}
     \/ /\ stage[c] = "inserting" /\ call[c].at = "failed" /\ stage'[c] = "undoing"
        /\ text'[c] = text[c]
  /\ Called(c) /\ call'[c].at \in {"focusing", "erasing", "reverting"}

Falls(c) ==
  /\ stage[c] = "undoing" /\ stage'[c] = "pasting" /\ text'[c] = text[c]
  /\ Called(c)

Closes(c) ==
  /\ stage'[c] = "over" /\ text'[c] = text[c]
  /\ stage[c] \in {"inserting", "pasting", "calling", "redoing"}
  /\ UNCHANGED insertionVars

Turns(c) ==
  /\ \A b \in Coroutines \ {c} : Aside(b)
  /\ Waits(c) \/ Begins(c) \/ Removes(c) \/ Falls(c) \/ Closes(c)

LEMMA InsertCalls ==
  ASSUME Base, NEW c \in Coroutines, NEW n \in Nat, NEW ascii \in BOOLEAN,
         call[c].at \in Over, Insert(c, Letters(c, n), ascii)
  PROVE  Called(c) /\ (ascii => call'[c].at \in {"ok", "typing"})
<1>1. call[c].at \notin Jobs
  BY DEF Over, Jobs
<1>2. overlapped' = (overlapped \/ \E d \in Coroutines \ {c} : call[d].at \notin Over)
  BY CallerTasks DEF Insert, Paste, Calls
<1>3. \/ Returns(c, "ok") /\ lastText' = lastText
      \/ ascii /\ Submits(c, "typing", Letters(c, n)) /\ lastText' = Letters(c, n)
      \/ ~ascii /\ Submits(c, "copying", <<>>) /\ lastText' = lastText
  BY <1>1, InsertDoes
<1>4. ascii => call'[c].at \in {"ok", "typing"}
  BY <1>3 DEF Returns, Submits, Moved
<1> QED BY <1>2, <1>3, <1>4 DEF Called

LEMMA UndoCalls ==
  ASSUME Base, NEW c \in Coroutines, call[c].at \in Over, UndoLast(c)
  PROVE  Called(c) /\ call'[c].at \in {"focusing", "erasing", "reverting"}
<1>1. call[c].at \notin Jobs
  BY DEF Over, Jobs
<1>2. overlapped' = (overlapped \/ \E d \in Coroutines \ {c} : call[d].at \notin Over)
  BY CallerTasks DEF UndoLast, Calls
<1>3. /\ lastText' = lastText
      /\ \/ Submits(c, "focusing", <<>>) /\ call'[c].count = Len(lastText)
         \/ \E do \in {"erasing", "reverting"} :
              Submits(c, do, lastText) /\ RemovesBy(do, Len(lastText))
  BY <1>1, UndoDoes
<1>4. call'[c].at \in {"focusing", "erasing", "reverting"}
  BY <1>3 DEF Submits, Moved
<1> QED BY <1>2, <1>3, <1>4 DEF Called

LEMMA PasteCalls ==
  ASSUME Base, NEW c \in Coroutines, NEW n \in Nat, call[c].at \in Over,
         Paste(c, Letters(c, n))
  PROVE  Called(c)
<1>1. call[c].at \notin Jobs
  BY DEF Over, Jobs
<1>2. overlapped' = (overlapped \/ \E d \in Coroutines \ {c} : call[d].at \notin Over)
  BY CallerTasks DEF Paste, Calls
<1>3. Submits(c, "copying", <<>>) /\ lastText' = lastText
  BY <1>1, PasteDoes
<1> QED BY <1>2, <1>3 DEF Called

\* The name of a task says which of the three it is.
LEMMA TaskNames ==
  /\ \A d \in Dictations :
       /\ <<"pipeline", d>> \in Pipelines /\ <<"command", d>> \in Coroutines \ Pipelines
       /\ \A e \in Dictations : <<"pipeline", d>> # <<"command", e>>
  /\ \A h \in 1..MaxUndos : <<"hotkey", h>> \in Coroutines \ Pipelines
  /\ Pipelines \subseteq Coroutines
  BY DEF Coroutines, Pipelines, Tasks, Hotkeys

LEMMA InsertsBegins ==
  ASSUME Base, WordsOK, WordsOK', NEW c \in Coroutines, call[c].at \in Over,
         Inserts(c, text'[c])
  PROVE  /\ Called(c)
         /\ text'[c].words \notin Lines /\ text'[c].images = {} =>
              call'[c].at \in {"ok", "typing"}
<1> DEFINE n == Size[text'[c].words] + Cardinality(text'[c].images)
           ascii == text'[c].words \notin Lines /\ text'[c].images = {}
<1>1. n \in Nat /\ ascii \in BOOLEAN
  BY Lengths DEF WordsOK
<1>2. Insert(c, Letters(c, n), ascii)
  BY DEF Inserts
<1> HIDE DEF n, ascii
<1>3. Called(c) /\ (ascii => call'[c].at \in {"ok", "typing"})
  BY <1>1, <1>2, InsertCalls
<1> QED BY <1>3 DEF ascii

LEMMA RecognizedTurns ==
  ASSUME Base, StagesInv, WordsOK, WordsOK', NEW d \in Dictations, Recognized(d)
  PROVE  Turns(<<"pipeline", d>>)
<1> DEFINE c == <<"pipeline", d>>
           k == <<"command", d>>
<1>1. PICK s \in setup.sayings : Understands(d, s)
  BY DEF Recognized
<1>2. stage[c] = "recognizing" /\ stage[k] = "none" /\ call[c].at = "none"
  <2>1. stage[c] = "recognizing"
    BY DEF Recognized
  <2> QED BY <2>1, TaskNames DEF StagesInv, FlowOK, StageOK, Before
<1>3. s \in Sayings
  <2>1. setup.sayings \in SUBSET Sayings
    BY EditingAssumption DEF WordsOK, EditingAssumption
  <2> QED BY <2>1
<1>4. TaskOf(s) \in Commands
  BY <1>3, RemainingOK
<1> DEFINE said == IF StopsPipeline(s) THEN Nothing
                   ELSE Text(Applied(mappings', Remaining(s)))
           redo == IF TaskOf(s) # "capitalize" THEN Nothing
                   ELSE [lastTranscript EXCEPT !.words = Capital[@]]
<1>5. text' = [[text EXCEPT ![c] = said] EXCEPT ![k] = redo]
  BY <1>1 DEF Understands, CleansUp
<1>6. PICK z \in {"over", "waiting", "cleaning", "inserting"} :
        /\ stage' = [[stage EXCEPT ![k] = TaskOf(s)] EXCEPT ![c] = z]
        /\ IF z = "inserting" THEN Inserts(c, text'[c]) ELSE UNCHANGED insertionVars
  BY <1>1 DEF Understands, CleansUp
<1>7. c \in Pipelines /\ c \in Coroutines /\ k \in Coroutines \ Pipelines /\ c # k
  BY TaskNames
<1> HIDE DEF c, k, said, redo
<1>8. stage'[c] = z /\ stage'[k] = TaskOf(s)
      /\ \A b \in Coroutines \ {c, k} : stage'[b] = stage[b] /\ text'[b] = text[b]
  BY <1>5, <1>6, <1>7 DEF WordsOK
<1>9. \A b \in Coroutines \ {c} : Aside(b)
  BY <1>2, <1>4, <1>7, <1>8 DEF Aside
<1>10. CASE z = "inserting"
  <2>1. Called(c) /\ (text'[c].words \notin Lines /\ text'[c].images = {} =>
                        call'[c].at \in {"ok", "typing"})
    BY <1>2, <1>6, <1>7, <1>10, InsertsBegins DEF Over
  <2> QED BY <1>2, <1>7, <1>8, <1>9, <1>10, <2>1 DEF Turns, Begins, Before, c
<1>11. CASE z # "inserting"
  BY <1>2, <1>6, <1>7, <1>8, <1>9, <1>11 DEF Turns, Waits, c
<1> QED BY <1>10, <1>11

\* The later steps of a pipeline.
LEMMA PipelineTurns ==
  ASSUME Base, StagesInv, WordsOK, WordsOK', NEW d \in Dictations,
         Collects(d) \/ Extracted(d) \/ Cleaned(d)
  PROVE  Turns(<<"pipeline", d>>)
<1> DEFINE c == <<"pipeline", d>>
<1>1. c \in Pipelines /\ c \in Coroutines
  BY TaskNames
<1>2. /\ stage[c] \in {"waiting", "extracting", "cleaning"}
      /\ \/ text' = text
         \/ \E t : text' = [text EXCEPT ![c] = t]
      /\ \E z \in {"cleaning", "inserting", "extracting"} :
           /\ stage' = [stage EXCEPT ![c] = z]
           /\ IF z = "inserting" THEN Inserts(c, text'[c])
              ELSE UNCHANGED insertionVars /\ stage[c] # "cleaning"
  BY DEF Collects, Extracted, Cleaned, CleansUp, Goes
<1>3. call[c].at = "none"
  BY <1>1, <1>2 DEF StagesInv, StageOK, Before
<1> HIDE DEF c
<1>4. PICK z \in {"cleaning", "inserting", "extracting"} :
        /\ stage'[c] = z /\ \A b \in Coroutines \ {c} : stage'[b] = stage[b]
        /\ IF z = "inserting" THEN Inserts(c, text'[c])
           ELSE UNCHANGED insertionVars /\ stage[c] # "cleaning"
  BY <1>1, <1>2 DEF WordsOK
<1>5. \A b \in Coroutines \ {c} : Aside(b)
  BY <1>2, <1>4 DEF Aside, WordsOK
<1>6. CASE z = "inserting"
  <2>1. Called(c) /\ (text'[c].words \notin Lines /\ text'[c].images = {} =>
                        call'[c].at \in {"ok", "typing"})
    BY <1>1, <1>3, <1>4, <1>6, InsertsBegins DEF Over
  <2> QED BY <1>1, <1>2, <1>4, <1>5, <1>6, <2>1 DEF Turns, Begins, Before, c
<1>7. CASE z # "inserting"
  BY <1>1, <1>2, <1>4, <1>5, <1>7 DEF Turns, Waits, c
<1> QED BY <1>6, <1>7

LEMMA CommandTurns ==
  ASSUME Base, StagesInv, WordsOK, WordsOK', NEW d \in Dictations, StartCommand(d)
  PROVE  Turns(<<"command", d>>)
<1> DEFINE c == <<"command", d>>
           k == stage[c]
<1>1. c \in Coroutines \ Pipelines
  BY TaskNames
<1>2. k \in {"newline", "paragraph", "undo", "capitalize"} /\ text' = text
  BY DEF StartCommand, Started, Commands
<1>3. call[c].at = "none"
  BY <1>1, <1>2 DEF StagesInv, StageOK, Before
<1>4. \E z \in {"calling", "redoing"} :
        /\ stage' = [stage EXCEPT ![c] = z]
        /\ \/ z = "calling" /\ \E n \in Nat : Insert(c, Letters(c, n), FALSE)
           \/ UndoLast(c)
  BY DEF StartCommand, Goes
<1> HIDE DEF c, k
<1>5. PICK z \in {"calling", "redoing"} :
        /\ stage'[c] = z /\ \A b \in Coroutines \ {c} : stage'[b] = stage[b]
        /\ \/ z = "calling" /\ \E n \in Nat : Insert(c, Letters(c, n), FALSE)
           \/ UndoLast(c)
  BY <1>1, <1>4 DEF WordsOK
<1>6. \A b \in Coroutines \ {c} : Aside(b)
  BY <1>2, <1>5 DEF Aside
<1>7. call[c].at \in Over
  BY <1>3 DEF Over
<1>8. ASSUME NEW n \in Nat, z = "calling", Insert(c, Letters(c, n), FALSE)
      PROVE  Begins(c)
  BY <1>1, <1>2, <1>5, <1>7, <1>8, InsertCalls DEF Begins, Before, k
<1>9. CASE UndoLast(c)
  <2>1. Called(c) /\ call'[c].at \in {"focusing", "erasing", "reverting"}
    BY <1>1, <1>7, <1>9, UndoCalls
  <2> QED BY <1>1, <1>2, <1>5, <1>6, <2>1 DEF Turns, Removes, Before, c, k
<1> QED BY <1>5, <1>6, <1>8, <1>9 DEF Turns, c

LEMMA HotkeyTurns ==
  ASSUME Base, StagesInv, WordsOK, NEW h \in 1..MaxUndos, Undo(h)
  PROVE  Turns(<<"hotkey", h>>)
<1> DEFINE c == <<"hotkey", h>>
<1>1. c \in Coroutines \ Pipelines
  BY TaskNames
<1>2. /\ stage[c] = "none" /\ text' = text /\ UndoLast(c)
      /\ stage' = [stage EXCEPT ![c] = "calling"]
  BY DEF Undo
<1> HIDE DEF c
<1>3. stage'[c] = "calling" /\ \A b \in Coroutines \ {c} : Aside(b)
  BY <1>1, <1>2 DEF WordsOK, Aside
<1>4. call[c].at \in Over
  BY <1>1, <1>2 DEF StagesInv, StageOK, Before, Over
<1>5. Called(c) /\ call'[c].at \in {"focusing", "erasing", "reverting"}
  BY <1>1, <1>2, <1>4, UndoCalls
<1> QED BY <1>1, <1>2, <1>3, <1>5 DEF Turns, Removes, Before, c

\* What a task does when its call has returned.
LEMMA ReturnTurns ==
  ASSUME Base, StagesInv, WordsOK, WordsOK', NEW c \in Coroutines,
         InsertReturns(c) \/ FallsBack(c) \/ PasteReturns(c) \/ Redoes(c) \/ CallReturns(c)
  PROVE  Turns(c)
<1>1. text' = text /\ call[c].at \in Over
  BY DEF InsertReturns, FallsBack, PasteReturns, Redoes, CallReturns, Returned, Over
<1>2. ASSUME NEW z, Goes(c, z)
      PROVE  stage'[c] = z /\ \A b \in Coroutines \ {c} : Aside(b)
  BY <1>1, <1>2 DEF Goes, WordsOK, Aside
<1>3. CASE /\ Goes(c, "over") /\ UNCHANGED insertionVars
           /\ stage[c] \in {"inserting", "pasting", "calling", "redoing"}
  BY <1>1, <1>2, <1>3 DEF Turns, Closes
<1>4. CASE InsertReturns(c) /\ call[c].at # "ok"
  <2>1. /\ stage[c] = "inserting" /\ call[c].at = "failed"
        /\ Goes(c, "undoing") /\ UndoLast(c)
    BY <1>4 DEF InsertReturns, Returned
  <2>2. Called(c) /\ call'[c].at \in {"focusing", "erasing", "reverting"}
    BY <1>1, <2>1, UndoCalls
  <2>3. stage'[c] = "undoing" /\ \A b \in Coroutines \ {c} : Aside(b)
    BY <1>2, <2>1
  <2> QED BY <1>1, <2>1, <2>2, <2>3 DEF Turns, Removes
<1>5. CASE FallsBack(c)
  <2> DEFINE n == Size[text[c].words] + Cardinality(text[c].images)
  <2>1. stage[c] = "undoing" /\ Goes(c, "pasting") /\ Paste(c, Letters(c, n))
    BY <1>5 DEF FallsBack
  <2>2. n \in Nat
    BY Lengths DEF WordsOK
  <2> HIDE DEF n
  <2>3. Called(c)
    BY <1>1, <2>1, <2>2, PasteCalls
  <2>4. stage'[c] = "pasting" /\ \A b \in Coroutines \ {c} : Aside(b)
    BY <1>2, <2>1
  <2> QED BY <1>1, <2>1, <2>3, <2>4 DEF Turns, Falls
<1>6. CASE Redoes(c) /\ call[c].at = "ok"
  <2>1. stage[c] = "redoing" /\ Goes(c, "inserting") /\ Inserts(c, text'[c])
    BY <1>1, <1>6 DEF Redoes
  <2>2. Called(c) /\ (text'[c].words \notin Lines /\ text'[c].images = {} =>
                        call'[c].at \in {"ok", "typing"})
    BY <1>1, <2>1, InsertsBegins
  <2>3. stage'[c] = "inserting" /\ \A b \in Coroutines \ {c} : Aside(b)
    BY <1>2, <2>1
  <2> QED BY <2>1, <2>2, <2>3 DEF Turns, Begins, Before
<1>7. \/ /\ Goes(c, "over") /\ UNCHANGED insertionVars
         /\ stage[c] \in {"inserting", "pasting", "calling", "redoing"}
      \/ InsertReturns(c) /\ call[c].at # "ok"
      \/ FallsBack(c)
      \/ Redoes(c) /\ call[c].at = "ok"
  BY DEF InsertReturns, PasteReturns, Redoes, CallReturns
<1> QED BY <1>3, <1>4, <1>5, <1>6, <1>7

LEMMA StopTurns ==
  ASSUME StagesInv, WordsOK, StopRecording
  PROVE  UNCHANGED <<insertionVars, stage, text>> \/ \E c \in Coroutines : Turns(c)
<1> DEFINE c == <<"pipeline", spoken>>
<1>1. /\ recording /\ text' = text /\ UNCHANGED insertionVars
      /\ stage' = [stage EXCEPT ![c] = "recognizing"]
  BY DEF StopRecording
<1>2. CASE spoken \in Dictations
  <2>1. c \in Pipelines /\ c \in Coroutines /\ stage[c] = "none"
    BY <1>1, <1>2, TaskNames DEF StagesInv, FlowOK
  <2> HIDE DEF c
  <2>2. stage'[c] = "recognizing" /\ \A b \in Coroutines \ {c} : Aside(b)
    BY <1>1, <2>1 DEF WordsOK, Aside
  <2> QED BY <1>1, <2>1, <2>2 DEF Turns, Waits
<1>3. CASE spoken \notin Dictations
  <2>1. c \notin Coroutines
    BY <1>3 DEF Coroutines, Pipelines, Tasks, Hotkeys
  <2> HIDE DEF c
  <2>2. stage' = stage
    BY <1>1, <2>1 DEF WordsOK
  <2> QED BY <1>1, <2>2
<1> QED BY <1>2, <1>3

\* Every step, for the insertion.
LEMMA StepTurns ==
  ASSUME Base, StagesInv, WordsOK, WordsOK', [Next]_vars
  PROVE  \/ UNCHANGED <<insertionVars, stage, text>>
         \/ \E c \in Coroutines : Turns(c)
         \/ UNCHANGED <<stage, text>> /\ \E c \in Coroutines : Wakes(c) \/ Forgets(c)
         \/ UNCHANGED <<stage, text>> /\ \E i \in 1..2 : Executes(i)
<1>1. CASE \/ StartRecording \/ Prepare \/ Selection \/ UNCHANGED vars
           \/ \E s \in Shots : Screenshot(s) \/ SnipStep(s)
  BY <1>1 DEF StartRecording, Prepare, Selection, Screenshot, SnipStep, vars
<1>2. CASE StopRecording
  BY <1>2, StopTurns
<1>3. ASSUME NEW h \in 1..MaxUndos, Undo(h) PROVE \E c \in Coroutines : Turns(c)
  BY <1>3, HotkeyTurns, TaskNames
<1>4. ASSUME NEW d \in Dictations,
             \/ Recognized(d) \/ Collects(d) \/ Extracted(d) \/ Cleaned(d)
             \/ StartCommand(d)
      PROVE  \E c \in Coroutines : Turns(c)
  <2>1. <<"pipeline", d>> \in Coroutines /\ <<"command", d>> \in Coroutines
    BY TaskNames
  <2>2. Turns(<<"pipeline", d>>) \/ Turns(<<"command", d>>)
    BY <1>4, RecognizedTurns, PipelineTurns, CommandTurns
  <2> QED BY <2>1, <2>2
<1>5. ASSUME NEW c \in Coroutines,
             \/ InsertReturns(c) \/ FallsBack(c) \/ PasteReturns(c) \/ Redoes(c)
             \/ CallReturns(c)
      PROVE  Turns(c)
  BY <1>5, ReturnTurns
<1>6. CASE \E c \in Coroutines : Wake(c)
  BY <1>6 DEF Wake
<1>7. CASE \E i \in 1..2 : Execute(i)
  BY <1>7 DEF Execute
<1> QED BY <1>1, <1>2, <1>3, <1>4, <1>5, <1>6, <1>7 DEF Next


LEMMA CalledBase == ASSUME Base, NEW c, Called(c) PROVE Base'
  BY BaseReturns, BaseSubmits DEF Called

\* What a call does to the other tasks: nothing.
LEMMA CalledMoves ==
  ASSUME NEW c, Called(c)
  PROVE  /\ \A d \in Coroutines \ {c} : call'[d] = call[d]
         /\ UNCHANGED <<clipboard, editor, faults, typed>>
         /\ call'[c].at \in {"ok"} \union Jobs
  BY DEF Called, Returns, Submits, Moved

LEMMA BaseNext ==
  ASSUME Base, StagesInv, WordsOK, WordsOK', [Next]_vars
  PROVE  Base'
<1>1. ASSUME NEW c \in Coroutines, Turns(c) PROVE Base'
  BY <1>1, CalledBase, BaseStays DEF Turns, Waits, Begins, Removes, Falls, Closes
<1>2. ASSUME NEW c \in Coroutines, Wakes(c) PROVE Base'
  BY <1>2, WakesDoes, BaseSubmits
<1>3. ASSUME NEW c \in Coroutines, Forgets(c) PROVE Base'
  BY <1>3, ForgetsDoes, BaseReturns
<1> QED BY <1>1, <1>2, <1>3, StepTurns, BaseStays, BaseExecutes

LEMMA FlowStays ==
  ASSUME FlowOK, UNCHANGED <<spoken, recording>>,
         \A d \in Dictations :
           LET c == <<"pipeline", d>>
               k == <<"command", d>>
           IN  /\ stage'[c] = stage[c] \/ stage[c] # "none"
               /\ stage'[c] \in {"none", "recognizing"} =>
                    stage'[c] = stage[c] /\ stage'[k] = stage[k]
  PROVE  FlowOK'
  BY DEF FlowOK

LEMMA FlowTurn ==
  ASSUME FlowOK, WordsOK, UNCHANGED <<spoken, recording>>,
         NEW c, NEW z, stage' = [stage EXCEPT ![c] = z],
         stage[c] \notin {"none", "recognizing"}, z \notin {"none", "recognizing"}
  PROVE  FlowOK'
<1>1. ASSUME NEW d \in Dictations
      PROVE  /\ stage'[<<"pipeline", d>>] = stage[<<"pipeline", d>>]
                \/ stage[<<"pipeline", d>>] # "none"
             /\ stage'[<<"pipeline", d>>] \in {"none", "recognizing"} =>
                  /\ stage'[<<"pipeline", d>>] = stage[<<"pipeline", d>>]
                  /\ stage'[<<"command", d>>] = stage[<<"command", d>>]
  <2> DEFINE p == <<"pipeline", d>>
             k == <<"command", d>>
  <2>1. p \in Coroutines /\ k \in Coroutines
    BY TaskNames
  <2>2. /\ stage'[p] = IF p = c THEN z ELSE stage[p]
        /\ stage'[k] = IF k = c THEN z ELSE stage[k]
    <3> HIDE DEF p, k
    <3> QED BY <2>1 DEF WordsOK
  <2>3. stage[p] \in {"none", "recognizing"} => stage[k] = "none"
    BY DEF FlowOK
  <2> HIDE DEF p, k
  <2>4. stage'[p] = stage[p] \/ stage[p] # "none"
    BY <2>2
  <2>5. stage'[p] \in {"none", "recognizing"} => stage'[p] = stage[p] /\ stage'[k] = stage[k]
    BY <2>2, <2>3
  <2> QED BY <2>4, <2>5 DEF p, k
<1> QED BY <1>1, FlowStays

LEMMA FlowRecognized ==
  ASSUME FlowOK, WordsOK, NEW d \in Dictations, Recognized(d)
  PROVE  FlowOK'
<1> DEFINE c == <<"pipeline", d>>
           k == <<"command", d>>
<1>1. PICK s \in setup.sayings : Understands(d, s)
  BY DEF Recognized
<1>2. stage[c] = "recognizing" /\ UNCHANGED <<spoken, recording>>
  BY DEF Recognized, flowVars
<1>3. PICK z \in {"over", "waiting", "cleaning", "inserting"} :
        stage' = [[stage EXCEPT ![k] = TaskOf(s)] EXCEPT ![c] = z]
  BY <1>1 DEF Understands, CleansUp
<1>4. ASSUME NEW e \in Dictations
      PROVE  /\ stage'[<<"pipeline", e>>] = stage[<<"pipeline", e>>]
                \/ stage[<<"pipeline", e>>] # "none"
             /\ stage'[<<"pipeline", e>>] \in {"none", "recognizing"} =>
                  /\ stage'[<<"pipeline", e>>] = stage[<<"pipeline", e>>]
                  /\ stage'[<<"command", e>>] = stage[<<"command", e>>]
  <2> DEFINE p == <<"pipeline", e>>
             q == <<"command", e>>
  <2>1. p \in Coroutines /\ q \in Coroutines /\ p # k /\ q # c /\ (e # d => p # c /\ q # k)
        /\ c \in Coroutines
    BY TaskNames
  <2>2. e = d => p = c
    OBVIOUS
  <2> HIDE DEF p, q, c, k
  <2>3. CASE e = d
    <3>1. stage'[p] = z /\ stage[p] = "recognizing"
      BY <1>2, <1>3, <2>1, <2>2, <2>3 DEF WordsOK
    <3> QED BY <3>1 DEF p, q
  <2>4. CASE e # d
    <3>1. stage'[p] = stage[p] /\ stage'[q] = stage[q]
      BY <1>3, <2>1, <2>4 DEF WordsOK
    <3> QED BY <3>1 DEF p, q
  <2> QED BY <2>3, <2>4
<1> QED BY <1>2, <1>4, FlowStays

LEMMA FlowStop ==
  ASSUME FlowOK, WordsOK, ShotsOK, StopRecording
  PROVE  FlowOK'
<1> DEFINE c == <<"pipeline", spoken>>
<1>1. /\ recording /\ recording' = FALSE /\ spoken' = spoken
      /\ stage' = [stage EXCEPT ![c] = "recognizing"]
  BY DEF StopRecording
<1>2. ASSUME NEW d \in Dictations
      PROVE  /\ d > spoken => stage'[<<"pipeline", d>>] = "none"
             /\ stage'[<<"pipeline", d>>] \in {"none", "recognizing"} =>
                  stage'[<<"command", d>>] = "none"
  <2> DEFINE p == <<"pipeline", d>>
             k == <<"command", d>>
  <2>1. p \in Coroutines /\ k \in Coroutines /\ k # c /\ (d # spoken => p # c)
    BY TaskNames
  <2>2. /\ d > spoken \/ (d = spoken /\ recording) => stage[p] = "none"
        /\ stage[p] \in {"none", "recognizing"} => stage[k] = "none"
    BY DEF FlowOK
  <2>3. d = spoken => p = c
    OBVIOUS
  <2> HIDE DEF p, c, k
  <2>4. stage'[k] = stage[k] /\ (d # spoken => stage'[p] = stage[p])
    BY <1>1, <2>1 DEF WordsOK
  <2>5. d > spoken => d # spoken
    BY DEF ShotsOK, Dictations
  <2>6. d > spoken => stage'[p] = "none"
    BY <2>2, <2>4, <2>5
  <2>7. stage'[p] \in {"none", "recognizing"} => stage'[k] = "none"
    BY <1>1, <2>2, <2>4
  <2> QED BY <2>6, <2>7 DEF p, k
<1> QED BY <1>1, <1>2 DEF FlowOK

LEMMA FlowNext ==
  ASSUME FlowOK, WordsOK, ShotsOK, [Next]_vars
  PROVE  FlowOK'
<1>1. CASE UNCHANGED <<spoken, recording, stage>>
  BY <1>1, FlowStays
<1>2. CASE StartRecording
  <2>1. ~recording /\ recording' = TRUE /\ spoken' = spoken + 1 /\ stage' = stage
    BY <1>2 DEF StartRecording
  <2>2. spoken \in Nat
    BY DEF ShotsOK
  <2>3. \A d \in Dictations : d > spoken + 1 \/ d = spoken + 1 => d > spoken
    BY <2>2 DEF Dictations
  <2> QED BY <2>1, <2>3 DEF FlowOK
<1>3. CASE \/ Prepare \/ Selection \/ UNCHANGED vars
           \/ \E s \in Shots : Screenshot(s) \/ SnipStep(s)
           \/ \E c \in Coroutines : Wake(c)
           \/ \E i \in 1..2 : Execute(i)
  BY <1>1, <1>3
     DEF Prepare, Selection, Screenshot, SnipStep, Wake, Execute, vars, flowVars
<1>4. ASSUME NEW h \in 1..MaxUndos, Undo(h) PROVE FlowOK'
  <2>1. /\ UNCHANGED <<spoken, recording>>
        /\ stage' = [stage EXCEPT ![<<"hotkey", h>>] = "calling"]
    BY <1>4 DEF Undo, flowVars
  <2>2. \A d \in Dictations : /\ stage'[<<"pipeline", d>>] = stage[<<"pipeline", d>>]
                              /\ stage'[<<"command", d>>] = stage[<<"command", d>>]
    <3>1. ASSUME NEW d \in Dictations, NEW n \in {"pipeline", "command"}
          PROVE  <<n, d>> \in Coroutines /\ <<n, d>> # <<"hotkey", h>>
      BY TaskNames
    <3>2. ASSUME NEW b \in Coroutines, b # <<"hotkey", h>> PROVE stage'[b] = stage[b]
      BY <2>1, <3>2 DEF WordsOK
    <3> QED BY <3>1, <3>2
  <2> QED BY <2>1, <2>2, FlowStays
<1>5. ASSUME NEW d \in Dictations, Collects(d) \/ Extracted(d) \/ Cleaned(d) PROVE FlowOK'
  <2>1. /\ stage[<<"pipeline", d>>] \in {"waiting", "extracting", "cleaning"}
        /\ UNCHANGED <<spoken, recording>>
        /\ \E z \in {"cleaning", "inserting", "extracting"} :
             stage' = [stage EXCEPT ![<<"pipeline", d>>] = z]
    BY <1>5 DEF Collects, Extracted, Cleaned, CleansUp, Goes, flowVars
  <2> QED BY <2>1, FlowTurn
<1>6. ASSUME NEW d \in Dictations, StartCommand(d) PROVE FlowOK'
  <2>1. /\ stage[<<"command", d>>] \in Commands \ {"none"}
        /\ UNCHANGED <<spoken, recording>>
        /\ \E z \in {"calling", "redoing"} :
             stage' = [stage EXCEPT ![<<"command", d>>] = z]
    BY <1>6 DEF StartCommand, Started, Goes, flowVars
  <2> QED BY <2>1, FlowTurn DEF Commands
<1>7. ASSUME NEW c \in Coroutines,
             \/ InsertReturns(c) \/ FallsBack(c) \/ PasteReturns(c) \/ Redoes(c)
             \/ CallReturns(c)
      PROVE  FlowOK'
  <2>1. /\ stage[c] \in {"inserting", "undoing", "pasting", "redoing", "calling"}
        /\ UNCHANGED <<spoken, recording>>
        /\ \E z \in {"over", "undoing", "pasting", "inserting"} :
             stage' = [stage EXCEPT ![c] = z]
    BY <1>7 DEF InsertReturns, FallsBack, PasteReturns, Redoes, CallReturns, Goes, flowVars
  <2> QED BY <2>1, FlowTurn
<1> QED
  BY <1>2, <1>3, <1>4, <1>5, <1>6, <1>7, FlowRecognized, FlowStop DEF Next

LEMMA StagesTurn ==
  ASSUME StagesInv, NEW c \in Coroutines, Turns(c), NEW b \in Coroutines
  PROVE  StageOK(b)'
<1>1. CASE b # c
  <2>1. Aside(b) /\ call'[b] = call[b] /\ StageOK(b)
    BY <1>1, CalledMoves
       DEF Turns, Waits, Begins, Removes, Falls, Closes, insertionVars, StagesInv
  <2>2. CASE stage'[b] = stage[b]
    BY <2>1, <2>2 DEF StageOK
  <2>3. CASE b \notin Pipelines /\ stage[b] = "none" /\ stage'[b] \in Commands
    BY <2>1, <2>3 DEF StageOK, Before, Commands
  <2> QED BY <2>1, <2>2, <2>3 DEF Aside
<1>2. CASE b = c
  <2>1. StageOK(c)
    BY DEF StagesInv
  <2>2. CASE Waits(c)
    <3>1. call' = call /\ call[c].at = "none"
      BY <2>1, <2>2 DEF Waits, StageOK, Before, insertionVars
    <3> QED BY <1>2, <2>2, <3>1 DEF Waits, StageOK, Before
  <2>3. CASE Begins(c)
    BY <1>2, <2>3 DEF Begins, StageOK, Before
  <2>4. CASE Removes(c)
    BY <1>2, <2>4, TaskNames DEF Removes, StageOK, Before, Writing
  <2>5. CASE Falls(c) \/ Closes(c)
    BY <1>2, <2>5 DEF Falls, Closes, StageOK, Before
  <2> QED BY <2>2, <2>3, <2>4, <2>5 DEF Turns
<1> QED BY <1>1, <1>2

LEMMA StagesExecutes ==
  ASSUME StagesInv, Base, UNCHANGED stage, NEW i \in 1..2, Executes(i),
         NEW c \in Coroutines
  PROVE  StageOK(c)'
<1> DEFINE b == jobs[1].by
<1>1. jobs # <<>> /\ StageOK(c)
  BY ExecutesDoes DEF StagesInv
<1>2. IsQueued(1) /\ b \in Coroutines /\ jobs[1].do \in Jobs /\ EditorOK'
  BY <1>1, FirstJob, EditorExecutes
<1>3. CASE KeyMore
  BY <1>1, <1>3 DEF KeyMore, KeepsAt, StageOK
<1>4. ASSUME NEW at, Finishes(at), at \in Writing => jobs[1].do \in Writing
      PROVE  StageOK(c)'
  <2>1. call'[c] = IF c = b THEN [call[b] EXCEPT !.at = at] ELSE call[c]
    BY <1>2, <1>4 DEF Finishes, Base, CallsOK
  <2>2. CASE c # b
    BY <1>1, <2>1, <2>2 DEF StageOK
  <2>3. CASE c = b
    <3>1. call[b] \in CallRecords /\ call[b].at = jobs[1].do /\ jobs[1].do # "none"
      BY <1>2 DEF IsQueued, Base, CallsOK, Jobs
    <3>2. call'[c].at = at
      BY <2>1, <2>3, <3>1 DEF CallRecords
    <3> QED BY <1>1, <1>4, <2>3, <3>1, <3>2 DEF StageOK
  <2> QED BY <2>2, <2>3
<1>5. \/ KeyMore
      \/ \E at \in {"ok", "erased", "pausing", "failed"} : Finishes(at)
      \/ Finishes("settling") /\ jobs[1].do = "copying"
  BY ExecutesDoes
     DEF TypesOn, ErasesOn, Pastes, TakesBack, Copies, Focuses, Fails, KeyDone
<1> QED BY <1>3, <1>4, <1>5 DEF Writing

LEMMA StagesNext ==
  ASSUME StagesInv, Base, WordsOK, WordsOK', ShotsOK, [Next]_vars
  PROVE  StagesInv'
<1>1. ASSUME NEW c \in Coroutines, Wakes(c), UNCHANGED stage, NEW b \in Coroutines
      PROVE  StageOK(b)'
  <2>1. \/ call[c].at = "settling" /\ Moved(c, "pasting")
        \/ call[c].at = "pausing" /\ \E do \in {"erasing", "reverting"} : Moved(c, do)
    BY <1>1, WakesDoes DEF Submits
  <2>2. StageOK(b)
    BY DEF StagesInv
  <2> QED BY <1>1, <2>1, <2>2 DEF StageOK, Moved, Writing
<1>2. ASSUME NEW c \in Coroutines, Forgets(c), UNCHANGED stage, NEW b \in Coroutines
      PROVE  StageOK(b)'
  <2>1. call[c].at = "erased" /\ Moved(c, "ok")
    BY <1>2, ForgetsDoes DEF Returns
  <2>2. StageOK(b)
    BY DEF StagesInv
  <2> QED BY <1>2, <2>1, <2>2 DEF StageOK, Moved, Writing
<1>3. ASSUME NEW b \in Coroutines, UNCHANGED <<insertionVars, stage, text>>
      PROVE  StageOK(b)'
  BY <1>3 DEF StagesInv, StageOK, insertionVars
<1>4. \A b \in Coroutines : StageOK(b)'
  BY <1>1, <1>2, <1>3, StepTurns, StagesTurn, StagesExecutes
<1>5. FlowOK'
  BY FlowNext DEF StagesInv
<1> QED BY <1>4, <1>5 DEF StagesInv

LEMMA StagesInit == Init => Base /\ StagesInv
<1> SUFFICES ASSUME Init PROVE Base /\ StagesInv
  OBVIOUS
<1>1. /\ stage = [c \in Coroutines |-> "none"] /\ call = [c \in Coroutines |-> Idle]
      /\ jobs = <<>>
  BY CallerTasks DEF Init, InsertionInit
<1>2. FlowOK
  BY <1>1, TaskNames DEF FlowOK
<1>3. \A c \in Coroutines : StageOK(c)
  BY <1>1 DEF StageOK, Before, Idle
<1>4. QueueInv
  BY <1>1 DEF QueueInv, Idle, Whole
<1> QED BY <1>2, <1>3, <1>4, WordsInit DEF Base, StagesInv


-----------------------------------------------------------------------------
(***************************************************************************)
(* Where the characters of a task are, as long as no call has failed: none *)
(* anywhere before it inserts, and those of a text that is typed never     *)
(* apart in any document the application shows or can go back to.          *)
(***************************************************************************)
Unseen(c) == Free(clipboard, c) /\ \A k \in 1..Len(editor) : Free(editor[k], c)

InARow(doc, c) ==
  \A i, k \in 1..Len(doc) :
    doc[i][1] = c /\ doc[k][1] = c => \A j \in i..k : doc[j][1] = c

Together(c) == Free(clipboard, c) /\ \A k \in 1..Len(editor) : InARow(editor[k], c)

\* A pipeline whose text is typed has been at the strategy.
Typist(c) ==
  /\ c \in Pipelines /\ stage[c] \notin Before
  /\ text[c].words \notin Lines /\ text[c].images = {}

TaskTraces(c) ==
  /\ call[c].at # "failed" /\ stage[c] \notin {"undoing", "pasting"}
  /\ stage[c] \in Before => Unseen(c)
  /\ Typist(c) => call[c].at \in {"none", "typing", "ok"} /\ Together(c)

EndsWith(doc, c) == doc # <<>> /\ doc[Len(doc)][1] = c

JobTraces(i) ==
  jobs[i].do = "typing" =>
    IF jobs[i].begun
    THEN Free(clipboard, jobs[i].by) /\ EndsWith(Document, jobs[i].by)
    ELSE Unseen(jobs[i].by)

TracesInv ==
  /\ \A c \in Coroutines : TaskTraces(c)
  /\ \A i \in 1..Len(jobs) : JobTraces(i)

LEMMA UnseenTogether == ASSUME NEW c, Unseen(c) PROVE Together(c)
  BY DEF Unseen, Together, Free, InARow

\* Documents that grow by a character, shrink by one, and grow by a text.
LEMMA AppendDoc ==
  ASSUME NEW doc \in Docs, NEW ch \in Chars, NEW c
  PROVE  LET d == Append(doc, ch)
         IN  /\ d \in Docs /\ EndsWith(d, ch[1])
             /\ Free(doc, c) /\ ch[1] # c => Free(d, c)
             /\ InARow(doc, c) /\ ch[1] # c => InARow(d, c)
             /\ ch[1] = c /\ (Free(doc, c) \/ (InARow(doc, c) /\ EndsWith(doc, c))) =>
                  InARow(d, c)
<1> DEFINE d == Append(doc, ch)
<1> PICK n \in Nat : n = Len(doc)
  BY DEF Docs
<1>1. /\ d \in Docs /\ Len(d) = n + 1 /\ d[n + 1] = ch
      /\ \A i \in 1..n : d[i] = doc[i]
  BY Appended DEF Docs
<1> HIDE DEF d
<1>2. d # <<>>
  BY <1>1
<1>3. EndsWith(d, ch[1])
  BY <1>1, <1>2 DEF EndsWith
<1>4. Free(doc, c) /\ ch[1] # c => Free(d, c)
  BY <1>1 DEF Free
<1>5. InARow(doc, c) /\ ch[1] # c => InARow(d, c)
  BY <1>1 DEF InARow
<1>6. ASSUME ch[1] = c, Free(doc, c) PROVE InARow(d, c)
  BY <1>1, <1>6 DEF InARow, Free
<1>7. ASSUME ch[1] = c, InARow(doc, c), EndsWith(doc, c) PROVE InARow(d, c)
  <2>1. n # 0 /\ doc[n][1] = c
    BY <1>7, EmptySeq DEF EndsWith, Docs
  <2> SUFFICES ASSUME NEW i \in 1..(n + 1), NEW k \in 1..(n + 1), d[i][1] = c, d[k][1] = c,
                      NEW j \in i..k
               PROVE  d[j][1] = c
    BY <1>1 DEF InARow
  <2>2. CASE j = n + 1
    BY <1>1, <1>7, <2>2
  <2>3. CASE j \in 1..n
    <3>1. i \in 1..n /\ doc[i][1] = c /\ n \in 1..n /\ j \in i..n
      BY <1>1, <2>1, <2>3
    <3>2. doc[j][1] = c
      BY <1>7, <2>1, <3>1 DEF InARow
    <3> QED BY <1>1, <2>3, <3>2
  <2> QED BY <2>2, <2>3
<1> QED BY <1>1, <1>3, <1>4, <1>5, <1>6, <1>7 DEF d

LEMMA ShorterDoc ==
  ASSUME NEW doc \in Docs, NEW c
  PROVE  /\ Shorter(doc) \in Docs
         /\ Free(doc, c) => Free(Shorter(doc), c)
         /\ InARow(doc, c) => InARow(Shorter(doc), c)
<1>1. CASE doc = <<>>
  BY <1>1 DEF Shorter, Docs
<1>2. CASE doc # <<>>
  <2> PICK n \in Nat \ {0} : n = Len(doc)
    BY <1>2, EmptySeq DEF Docs
  <2>1. /\ Shorter(doc) \in Docs /\ Len(Shorter(doc)) = n - 1
        /\ \A i \in 1..(n - 1) : Shorter(doc)[i] = doc[i]
    BY <1>2, Fronts DEF Shorter, Docs
  <2>2. Free(doc, c) => Free(Shorter(doc), c)
    BY <2>1 DEF Free
  <2>3. InARow(doc, c) => InARow(Shorter(doc), c)
    BY <2>1 DEF InARow
  <2> QED BY <2>1, <2>2, <2>3
<1> QED BY <1>1, <1>2

LEMMA JoinDoc ==
  ASSUME NEW doc \in Docs, NEW more \in Docs, NEW c, Free(more, c)
  PROVE  /\ Free(doc, c) => Free(doc \o more, c)
         /\ InARow(doc, c) => InARow(doc \o more, c)
<1> DEFINE d == doc \o more
<1> PICK n \in Nat, m \in Nat : n = Len(doc) /\ m = Len(more)
  BY DEF Docs
<1>1. /\ Len(d) = n + m
      /\ \A i \in 1..(n + m) : d[i] = IF i <= n THEN doc[i] ELSE more[i - n]
  BY ConcatProperties DEF Docs
<1> HIDE DEF d
<1>2. \A i \in 1..(n + m) : /\ i <= n => i \in 1..n /\ d[i] = doc[i]
                            /\ ~(i <= n) => d[i][1] # c
  <2>1. ASSUME NEW i \in 1..(n + m), ~(i <= n) PROVE d[i][1] # c
    <3>1. i - n \in 1..m /\ d[i] = more[i - n]
      BY <1>1, <2>1
    <3> QED BY <3>1 DEF Free
  <2> QED BY <1>1, <2>1
<1>3. Free(doc, c) => Free(d, c)
  BY <1>1, <1>2 DEF Free
<1>4. InARow(doc, c) => InARow(d, c)
  BY <1>1, <1>2 DEF InARow
<1> QED BY <1>3, <1>4 DEF d

LEMMA ShowsFree ==
  ASSUME NEW doc, Shows(doc), NEW c
  PROVE  /\ Free(doc, c) /\ (\A k \in 1..Len(editor) : Free(editor[k], c)) =>
              \A k \in 1..Len(editor') : Free(editor'[k], c)
         /\ InARow(doc, c) /\ (\A k \in 1..Len(editor) : InARow(editor[k], c)) =>
              \A k \in 1..Len(editor') : InARow(editor'[k], c)
<1>1. ASSUME NEW k \in 1..Len(editor')
      PROVE  editor'[k] = doc \/ \E m \in 1..Len(editor) : editor'[k] = editor[m]
  BY DEF Shows
<1>2. ASSUME NEW k \in 1..Len(editor'), Free(doc, c),
             \A m \in 1..Len(editor) : Free(editor[m], c)
      PROVE  Free(editor'[k], c)
  BY <1>1, <1>2
<1>3. ASSUME NEW k \in 1..Len(editor'), InARow(doc, c),
             \A m \in 1..Len(editor) : InARow(editor[m], c)
      PROVE  InARow(editor'[k], c)
  BY <1>1, <1>3
<1> QED BY <1>2, <1>3

LEMMA RevertsFree ==
  ASSUME Reverts, NEW c
  PROVE  /\ (\A k \in 1..Len(editor) : Free(editor[k], c)) =>
              \A k \in 1..Len(editor') : Free(editor'[k], c)
         /\ (\A k \in 1..Len(editor) : InARow(editor[k], c)) =>
              \A k \in 1..Len(editor') : InARow(editor'[k], c)
<1>1. ASSUME NEW k \in 1..Len(editor')
      PROVE  \E m \in 1..Len(editor) : editor'[k] = editor[m]
  BY DEF Reverts
<1>2. ASSUME NEW k \in 1..Len(editor'), \A m \in 1..Len(editor) : Free(editor[m], c)
      PROVE  Free(editor'[k], c)
  BY <1>1, <1>2
<1>3. ASSUME NEW k \in 1..Len(editor'), \A m \in 1..Len(editor) : InARow(editor[m], c)
      PROVE  InARow(editor'[k], c)
  BY <1>1, <1>3
<1> QED BY <1>2, <1>3

\* Characters that are nowhere, or together, stay so.
StillUnseen(c)   == Unseen(c) => Unseen(c)'
StillTogether(c) == Together(c) => Together(c)'

LEMMA TracesSame ==
  ASSUME UNCHANGED <<clipboard, editor>>, NEW c
  PROVE  StillUnseen(c) /\ StillTogether(c)
  BY DEF StillUnseen, StillTogether, Unseen, Together, Free, InARow

LEMMA TracesTurn ==
  ASSUME Base, StagesInv, TracesInv, NEW c \in Coroutines, Turns(c)
  PROVE  TracesInv'
<1>1. /\ UNCHANGED <<clipboard, editor, faults>> /\ TaskTraces(c) /\ StageOK(c)
      /\ \A b \in Coroutines \ {c} : call'[b] = call[b] /\ Aside(b)
      /\ call[c].at # "failed" /\ stage[c] \notin {"undoing", "pasting"}
  BY CalledMoves
     DEF Turns, Waits, Begins, Removes, Falls, Closes, insertionVars, TracesInv,
         TaskTraces, StagesInv
<1>2. Waits(c) \/ Begins(c) \/ Removes(c) \/ Closes(c)
  BY <1>1 DEF Turns, Falls
<1>3. ASSUME NEW b \in Coroutines \ {c} PROVE TaskTraces(b)'
  <2>1. TaskTraces(b) /\ call'[b] = call[b] /\ Aside(b)
    BY <1>1 DEF TracesInv
  <2>2. StillUnseen(b) /\ StillTogether(b)
    BY <1>1, TracesSame
  <2>3. CASE stage'[b] = stage[b] /\ text'[b] = text[b]
    BY <2>1, <2>2, <2>3 DEF TaskTraces, StillUnseen, StillTogether, Typist
  <2>4. CASE b \notin Pipelines /\ stage[b] = "none" /\ stage'[b] \in Commands
    BY <2>1, <2>2, <2>4 DEF TaskTraces, StillUnseen, Typist, Before, Commands
  <2> QED BY <2>1, <2>3, <2>4 DEF Aside
<1>4. TaskTraces(c)'
  <2>1. StillUnseen(c) /\ StillTogether(c)
    BY <1>1, TracesSame
  <2>2. stage[c] \in Before => Unseen(c)' /\ Together(c)'
    BY <1>1, <2>1, UnseenTogether DEF TaskTraces, StillUnseen, StillTogether
  <2>3. CASE Waits(c)
    <3>1. call'[c].at = "none" /\ stage[c] \in Before /\ stage'[c] \notin {"undoing", "pasting"}
      BY <1>1, <2>3 DEF Waits, insertionVars, StageOK, Before
    <3> QED BY <2>2, <3>1 DEF TaskTraces
  <2>4. CASE Begins(c)
    <3>1. /\ call'[c].at # "failed" /\ stage[c] \in Before
          /\ stage'[c] \in {"inserting", "calling"}
          /\ c \in Pipelines /\ text'[c].words \notin Lines /\ text'[c].images = {} =>
               call'[c].at \in {"ok", "typing"}
      BY <2>4, CalledMoves DEF Begins, Jobs
    <3> QED BY <2>2, <3>1 DEF TaskTraces, Typist, Before
  <2>5. CASE Removes(c)
    <3>1. /\ c \notin Pipelines /\ stage[c] \in Before /\ stage'[c] \in {"calling", "redoing"}
          /\ call'[c].at # "failed"
      BY <1>1, <2>5 DEF Removes
    <3> QED BY <2>2, <3>1 DEF TaskTraces, Typist
  <2>6. CASE Closes(c)
    <3>1. /\ stage'[c] = "over" /\ text'[c] = text[c] /\ call' = call
          /\ c \in Pipelines => stage[c] \notin Before
      BY <1>1, <2>6 DEF Closes, StageOK, insertionVars, Before
    <3> QED BY <1>1, <2>1, <3>1 DEF TaskTraces, Typist, StillTogether, Before
  <2> QED BY <1>2, <2>3, <2>4, <2>5, <2>6
<1>5. ASSUME NEW i \in 1..Len(jobs), jobs'[i] = jobs[i] PROVE JobTraces(i)'
  <2>1. JobTraces(i) /\ StillUnseen(jobs[i].by) /\ UNCHANGED <<clipboard, editor>>
    BY <1>1, TracesSame DEF TracesInv
  <2>2. Free(clipboard, jobs[i].by)' = Free(clipboard, jobs[i].by) /\ Document' = Document
    BY <1>1, <1>5 DEF Document, Free
  <2> QED BY <1>5, <2>1, <2>2 DEF JobTraces, StillUnseen, EndsWith
<1>6. CASE jobs' = jobs
  BY <1>3, <1>4, <1>5, <1>6 DEF TracesInv
<1>7. ASSUME NEW do, NEW rest, Submits(c, do, rest), do = "typing" => stage[c] \in Before
      PROVE  TracesInv'
  <2> PICK n \in Nat : n = Len(jobs)
    BY DEF Base, CallsOK
  <2>1. /\ Len(jobs') = n + 1 /\ \A i \in 1..n : jobs'[i] = jobs[i]
        /\ jobs'[n + 1].by = c /\ jobs'[n + 1].do = do /\ jobs'[n + 1].begun = FALSE
    BY <1>7, BaseSubmits
  <2>2. do = "typing" => Unseen(c)'
    BY <1>1, <1>7, TracesSame DEF TaskTraces, StillUnseen
  <2>3. JobTraces(n + 1)'
    BY <2>1, <2>2 DEF JobTraces, Unseen, Free
  <2>4. \A i \in 1..(n + 1) : JobTraces(i)'
    BY <1>5, <2>1, <2>3
  <2> QED BY <1>3, <1>4, <2>1, <2>4 DEF TracesInv
<1>8. CASE Called(c) /\ (call'[c].at = "typing" => stage[c] \in Before)
  <2>1. jobs' = jobs \/ \E do, rest : Submits(c, do, rest)
    BY <1>8 DEF Called, Returns
  <2>2. ASSUME NEW do, NEW rest, Submits(c, do, rest) PROVE TracesInv'
    <3>1. call'[c].at = do
      BY <2>2 DEF Submits, Moved
    <3> QED BY <1>7, <1>8, <2>2, <3>1
  <2> QED BY <1>6, <2>1, <2>2
<1> QED BY <1>2, <1>6, <1>8 DEF Waits, Closes, Begins, Removes, insertionVars

LEMMA TracesWakes ==
  ASSUME Base, StagesInv, TracesInv, NEW c \in Coroutines, Wakes(c) \/ Forgets(c),
         UNCHANGED <<stage, text>>
  PROVE  TracesInv'
<1>1. /\ UNCHANGED <<clipboard, editor>>
      /\ \E at \in {"ok", "pasting", "erasing", "reverting"} : Moved(c, at)
      /\ call[c].at \in {"settling", "pausing", "erased"}
      /\ jobs' = jobs \/ \E do, rest : Submits(c, do, rest) /\ do # "typing"
  BY WakesDoes, ForgetsDoes DEF Submits, Returns
<1>2. ASSUME NEW b \in Coroutines PROVE TaskTraces(b)'
  <2>1. TaskTraces(b) /\ StillUnseen(b) /\ StillTogether(b)
    BY <1>1, TracesSame DEF TracesInv
  <2>2. call'[b].at # "failed" /\ (b # c => call'[b] = call[b])
    BY <1>1, <2>1 DEF Moved, TaskTraces
  <2>3. b = c => ~Typist(b)
    BY <1>1, <2>1 DEF TaskTraces
  <2> QED BY <2>1, <2>2, <2>3 DEF TaskTraces, Typist, StillUnseen, StillTogether
<1>3. ASSUME NEW i \in 1..Len(jobs), jobs'[i] = jobs[i] PROVE JobTraces(i)'
  <2>1. JobTraces(i) /\ StillUnseen(jobs[i].by)
    BY <1>1, TracesSame DEF TracesInv
  <2>2. Free(clipboard, jobs[i].by)' = Free(clipboard, jobs[i].by) /\ Document' = Document
    BY <1>1, <1>3 DEF Document, Free
  <2> QED BY <1>3, <2>1, <2>2 DEF JobTraces, StillUnseen, EndsWith
<1>4. CASE jobs' = jobs
  BY <1>2, <1>3, <1>4 DEF TracesInv
<1>5. ASSUME NEW do, NEW rest, Submits(c, do, rest), do # "typing" PROVE TracesInv'
  <2> PICK n \in Nat : n = Len(jobs)
    BY DEF Base, CallsOK
  <2>1. /\ Len(jobs') = n + 1 /\ \A i \in 1..n : jobs'[i] = jobs[i]
        /\ jobs'[n + 1].do = do
    BY <1>5, BaseSubmits
  <2>2. JobTraces(n + 1)'
    BY <1>5, <2>1 DEF JobTraces
  <2>3. \A i \in 1..(n + 1) : JobTraces(i)'
    BY <1>3, <2>1, <2>2
  <2> QED BY <1>2, <2>1, <2>3 DEF TracesInv
<1> QED BY <1>1, <1>4, <1>5


\* What the executor has to leave as it was, for the other tasks and for the task
\* whose job it runs.
Spares(c) == StillUnseen(c) /\ StillTogether(c)

LEMMA TracesKeeps ==
  ASSUME Base, TracesInv, jobs # <<>>, KeyMore, EditorOK', UNCHANGED <<stage, text>>,
         NEW b \in Coroutines, b = jobs[1].by, \A c \in Coroutines \ {b} : Spares(c),
         TaskTraces(b)', JobTraces(1)'
  PROVE  TracesInv'
<1>1. /\ call' = call /\ Len(jobs') = Len(jobs)
      /\ \A i \in 1..Len(jobs) : i # 1 => jobs'[i] = jobs[i]
  BY BaseKeeps
<1>2. ASSUME NEW c \in Coroutines \ {b} PROVE TaskTraces(c)'
  BY <1>1 DEF TracesInv, TaskTraces, Typist, Spares, StillUnseen, StillTogether
<1>3. ASSUME NEW i \in 1..Len(jobs), i # 1 PROVE JobTraces(i)'
  <2>1. jobs[i] \in JobRecords /\ IsQueued(i) /\ 1 \in 1..Len(jobs)
    BY <1>3, FirstJob, ElementOfSeq DEF Base, CallsOK, QueueInv
  <2>2. jobs[i].by \in Coroutines \ {b} /\ ~jobs[i].begun
    BY <1>3, <2>1, JobFields DEF Base, QueueInv, IsQueued
  <2>3. JobTraces(i) /\ Spares(jobs[i].by) /\ jobs'[i] = jobs[i]
    BY <1>1, <1>3, <2>2 DEF TracesInv
  <2> QED BY <2>2, <2>3 DEF JobTraces, Spares, StillUnseen
<1>4. \A i \in 1..Len(jobs') : JobTraces(i)'
  BY <1>1, <1>3
<1>5. \A c \in Coroutines : TaskTraces(c)'
  BY <1>2
<1> QED BY <1>4, <1>5 DEF TracesInv

LEMMA TracesFinishes ==
  ASSUME Base, TracesInv, jobs # <<>>, EditorOK', UNCHANGED <<stage, text>>,
         NEW at \in (Over \union Waiting) \ Jobs, Finishes(at),
         NEW b \in Coroutines, b = jobs[1].by, \A c \in Coroutines \ {b} : Spares(c),
         TaskTraces(b)'
  PROVE  TracesInv'
<1> PICK n \in Nat \ {0} : n = Len(jobs)
  BY BaseFinishes
<1>1. /\ Len(jobs') = n - 1
      /\ \A i \in 1..(n - 1) : /\ i + 1 \in 1..n /\ jobs'[i] = jobs[i + 1]
                               /\ ~jobs'[i].begun /\ jobs'[i].by # b
      /\ \A c \in Coroutines : c # b => call'[c] = call[c]
  BY BaseFinishes
<1>2. ASSUME NEW c \in Coroutines \ {b} PROVE TaskTraces(c)'
  BY <1>1 DEF TracesInv, TaskTraces, Typist, Spares, StillUnseen, StillTogether
<1>3. ASSUME NEW i \in 1..(n - 1) PROVE JobTraces(i)'
  <2>1. jobs[i + 1] \in JobRecords /\ jobs'[i] = jobs[i + 1]
    BY <1>1, ElementOfSeq DEF Base, CallsOK
  <2>2. jobs[i + 1].by \in Coroutines \ {b} /\ ~jobs[i + 1].begun
    BY <1>1, <2>1, JobFields
  <2>3. JobTraces(i + 1) /\ Spares(jobs[i + 1].by)
    BY <1>1, <2>2 DEF TracesInv
  <2> QED BY <2>1, <2>2, <2>3 DEF JobTraces, Spares, StillUnseen
<1>4. \A c \in Coroutines : TaskTraces(c)'
  BY <1>2
<1> QED BY <1>1, <1>3, <1>4 DEF TracesInv

\* A step of a job that ends it with at, or goes on.
LEMMA TracesEither ==
  ASSUME Base, TracesInv, jobs # <<>>, EditorOK', UNCHANGED <<stage, text>>,
         NEW at \in (Over \union Waiting) \ Jobs,
         Finishes(at) \/ (KeyMore /\ JobTraces(1)'),
         NEW b \in Coroutines, b = jobs[1].by, \A c \in Coroutines \ {b} : Spares(c),
         TaskTraces(b)'
  PROVE  TracesInv'
  BY TracesKeeps, TracesFinishes

LEMMA TracesTypes ==
  ASSUME Base, StagesInv, TracesInv, jobs # <<>>, EditorOK', UNCHANGED <<stage, text>>,
         TypesOn
  PROVE  TracesInv'
<1> PICK b \in Coroutines : b = jobs[1].by
  BY FirstJob
<1> PICK ch : ch = Head(jobs[1].rest)
  OBVIOUS
<1> PICK d : d = Append(Document, ch)
  OBVIOUS
<1>1. /\ IsQueued(1) /\ jobs[1].rest \in Docs /\ 1 \in 1..Len(jobs)
      /\ jobs[1].do = "typing"
  BY FirstJob DEF TypesOn
<1>2. ch \in Chars /\ ch[1] = b
  <2>1. jobs[1].rest # <<>> /\ Whole(jobs[1].rest, b)
    BY <1>1 DEF IsQueued
  <2>2. jobs[1].rest \in Seq(Chars) /\ 1 \in 1..Len(jobs[1].rest)
    BY <1>1, <2>1, EmptySeq DEF Docs
  <2>3. ch = jobs[1].rest[1] /\ jobs[1].rest[1] \in Chars
    BY <2>1, <2>2, ElementOfSeq
  <2> QED BY <2>1, <2>2, <2>3 DEF Whole
<1>3. /\ Document \in Docs /\ Len(editor) \in 1..Len(editor)
      /\ Document = editor[Len(editor)]
  <2>1. EditorOK
    BY DEF Base
  <2> QED BY <2>1, DocumentOK
<1>4. Shows(d) /\ UNCHANGED clipboard
  BY DEF TypesOn
<1>5. ASSUME NEW c
      PROVE  /\ Free(Document, c) /\ b # c => Free(d, c)
             /\ InARow(Document, c) /\ b # c => InARow(d, c)
             /\ b = c /\ (Free(Document, c) \/ (InARow(Document, c) /\ EndsWith(Document, c))) =>
                  InARow(d, c)
  BY <1>2, <1>3, AppendDoc
<1>6. EndsWith(d, b)
  <2>1. EndsWith(Append(Document, ch), ch[1])
    BY <1>2, <1>3, AppendDoc
  <2> QED BY <1>2, <2>1
<1>7. ASSUME NEW c, c # b PROVE Spares(c)
  <2>1. ASSUME Unseen(c) PROVE Unseen(c)'
    <3>1. Free(Document, c)
      BY <1>3, <2>1 DEF Unseen
    <3>2. \A k \in 1..Len(editor') : Free(editor'[k], c)
      BY <1>4, <1>5, <1>7, <2>1, <3>1, ShowsFree DEF Unseen
    <3> QED BY <1>4, <2>1, <3>2 DEF Unseen, Free
  <2>2. ASSUME Together(c) PROVE Together(c)'
    <3>1. InARow(Document, c)
      BY <1>3, <2>2 DEF Together
    <3>2. \A k \in 1..Len(editor') : InARow(editor'[k], c)
      BY <1>4, <1>5, <1>7, <2>2, <3>1, ShowsFree DEF Together
    <3> QED BY <1>4, <2>2, <3>2 DEF Together, Free, InARow
  <2> QED BY <2>1, <2>2 DEF Spares, StillUnseen, StillTogether
<1>8. Free(clipboard, b) /\ (Free(Document, b) \/ EndsWith(Document, b))
  <2>1. JobTraces(1)
    BY <1>1 DEF TracesInv
  <2> QED BY <1>1, <1>3, <2>1 DEF JobTraces, Unseen
<1>9. Free(clipboard, b)'
  BY <1>4, <1>8 DEF Free
<1>10. ASSUME Together(b)
       PROVE  \A k \in 1..Len(editor') : InARow(editor'[k], b)
  <2>1. InARow(Document, b)
    BY <1>3, <1>10 DEF Together
  <2>2. InARow(d, b)
    BY <1>5, <1>8, <2>1
  <2> QED BY <1>4, <1>10, <2>2, ShowsFree DEF Together
<1>11. call[b].at = "typing" /\ stage[b] \notin Before
  BY <1>1 DEF IsQueued, StagesInv, StageOK, Writing
<1>12. KeyMore \/ Finishes("ok")
  BY DEF TypesOn, KeyDone
<1>13. call'[b].at \in {"typing", "ok"}
  <2>1. CASE KeyMore
    BY <1>11, <2>1 DEF KeyMore, KeepsAt
  <2>2. CASE Finishes("ok")
    BY <1>1, <2>2, BaseFinishes DEF Over, Jobs
  <2> QED BY <1>12, <2>1, <2>2
<1>14. TaskTraces(b)'
  <2>1. TaskTraces(b)
    BY <1>1 DEF TracesInv
  <2>2. Typist(b) => Together(b)'
    BY <1>9, <1>10, <2>1 DEF TaskTraces, Together, Free, InARow
  <2> QED BY <1>11, <1>13, <2>1, <2>2 DEF TaskTraces, Typist
<1>15. KeyMore => JobTraces(1)'
  <2>1. Document' = d
    BY <1>4 DEF Shows
  <2>2. KeyMore => jobs'[1].by = b /\ jobs'[1].begun
    BY BaseKeeps
  <2> QED BY <1>6, <1>9, <2>1, <2>2 DEF JobTraces, Free
<1> QED BY <1>7, <1>12, <1>14, <1>15, TracesEither DEF Over, Waiting, Jobs

\* The task whose job is not a typing one.
LEMMA TracesOther ==
  ASSUME Base, StagesInv, TracesInv, jobs # <<>>, EditorOK', UNCHANGED <<stage, text>>,
         jobs[1].do # "typing",
         NEW at \in ((Over \union Waiting) \ Jobs) \ {"failed"}, Finishes(at) \/ KeyMore,
         \A c \in Coroutines \ {jobs[1].by} : Spares(c),
         jobs[1].do \notin Writing => StillUnseen(jobs[1].by)
  PROVE  TracesInv'
<1> PICK b \in Coroutines : b = jobs[1].by
  BY FirstJob
<1>1. IsQueued(1) /\ jobs[1].do \in Jobs /\ 1 \in 1..Len(jobs)
  BY FirstJob
<1>2. TaskTraces(b) /\ StageOK(b) /\ call[b].at = jobs[1].do
  BY <1>1 DEF TracesInv, StagesInv, IsQueued
<1>3. ~Typist(b)
  BY <1>1, <1>2 DEF TaskTraces, Jobs
<1>4. stage[b] \in Before => StillUnseen(b)
  BY <1>1, <1>2 DEF StageOK, Jobs
<1>5. call'[b].at # "failed"
  <2>1. CASE KeyMore
    BY <1>2, <2>1 DEF KeyMore, KeepsAt, TaskTraces
  <2>2. CASE Finishes(at)
    BY <2>2, BaseFinishes
  <2> QED BY <2>1, <2>2
<1>6. TaskTraces(b)'
  BY <1>2, <1>3, <1>4, <1>5 DEF TaskTraces, Typist, StillUnseen
<1>7. KeyMore => JobTraces(1)'
  <2>1. KeyMore => jobs'[1].do # "typing"
    BY BaseKeeps
  <2> QED BY <2>1 DEF JobTraces
<1> QED BY <1>6, <1>7, TracesEither

LEMMA TracesExecutes ==
  ASSUME Base, StagesInv, TracesInv, NEW i \in 1..2, Executes(i), UNCHANGED <<stage, text>>,
         faults = 0, faults' = 0
  PROVE  TracesInv'
<1>1. jobs # <<>> /\ EditorOK'
  BY ExecutesDoes, EditorExecutes
<1>2. /\ Document \in Docs /\ Len(editor) \in 1..Len(editor)
      /\ Document = editor[Len(editor)] /\ clipboard \in Docs
  <2>1. EditorOK
    BY DEF Base
  <2> QED BY <2>1, DocumentOK DEF EditorOK
<1>3. TaskTraces(jobs[1].by) /\ call[jobs[1].by].at = jobs[1].do /\ jobs[1].by \in Coroutines
  BY <1>1, FirstJob DEF IsQueued, TracesInv
<1>4. CASE TypesOn
  BY <1>1, <1>4, TracesTypes
<1>5. CASE ErasesOn
  <2>1. Shows(Shorter(Document)) /\ clipboard' = clipboard
    BY <1>5 DEF ErasesOn
  <2>2. ASSUME NEW c PROVE Spares(c)
    <3>1. ASSUME Unseen(c) PROVE Unseen(c)'
      <4>1. Free(Shorter(Document), c)
        BY <1>2, <3>1, ShorterDoc DEF Unseen
      <4>2. \A k \in 1..Len(editor') : Free(editor'[k], c)
        BY <2>1, <3>1, <4>1, ShowsFree DEF Unseen
      <4> QED BY <2>1, <3>1, <4>2 DEF Unseen, Free
    <3>2. ASSUME Together(c) PROVE Together(c)'
      <4>1. InARow(Shorter(Document), c)
        BY <1>2, <3>2, ShorterDoc DEF Together
      <4>2. \A k \in 1..Len(editor') : InARow(editor'[k], c)
        BY <2>1, <3>2, <4>1, ShowsFree DEF Together
      <4> QED BY <2>1, <3>2, <4>2 DEF Together, Free, InARow
    <3> QED BY <3>1, <3>2 DEF Spares, StillUnseen, StillTogether
  <2>3. jobs[1].do = "erasing" /\ (Finishes("erased") \/ KeyMore)
    BY <1>5 DEF ErasesOn, KeyDone
  <2>4. "erased" \in ((Over \union Waiting) \ Jobs) \ {"failed"}
    BY DEF Waiting, Jobs
  <2>5. \A c : StillUnseen(c)
    BY <2>2 DEF Spares
  <2> QED BY <1>1, <2>2, <2>3, <2>4, <2>5, TracesOther
<1>6. CASE Pastes
  <2>1. Shows(Document \o clipboard) /\ clipboard' = clipboard
    BY <1>6 DEF Pastes
  <2>2. ASSUME NEW c PROVE Spares(c)
    <3>1. ASSUME Unseen(c) PROVE Unseen(c)'
      <4>1. Free(Document \o clipboard, c)
        BY <1>2, <3>1, JoinDoc DEF Unseen
      <4>2. \A k \in 1..Len(editor') : Free(editor'[k], c)
        BY <2>1, <3>1, <4>1, ShowsFree DEF Unseen
      <4> QED BY <2>1, <3>1, <4>2 DEF Unseen, Free
    <3>2. ASSUME Together(c) PROVE Together(c)'
      <4>1. InARow(Document \o clipboard, c)
        BY <1>2, <3>2, JoinDoc DEF Together
      <4>2. \A k \in 1..Len(editor') : InARow(editor'[k], c)
        BY <2>1, <3>2, <4>1, ShowsFree DEF Together
      <4> QED BY <2>1, <3>2, <4>2 DEF Together, Free, InARow
    <3> QED BY <3>1, <3>2 DEF Spares, StillUnseen, StillTogether
  <2>3. jobs[1].do = "pasting" /\ Finishes("ok")
    BY <1>6 DEF Pastes
  <2>4. "ok" \in ((Over \union Waiting) \ Jobs) \ {"failed"}
    BY DEF Over, Jobs
  <2>5. \A c : StillUnseen(c)
    BY <2>2 DEF Spares
  <2> QED BY <1>1, <2>2, <2>3, <2>4, <2>5, TracesOther
<1>7. CASE TakesBack
  <2>1. Reverts /\ clipboard' = clipboard
    BY <1>7 DEF TakesBack
  <2>2. ASSUME NEW c PROVE Spares(c)
    <3>1. ASSUME Unseen(c) PROVE Unseen(c)'
      BY <2>1, <3>1, RevertsFree DEF Unseen, Free
    <3>2. ASSUME Together(c) PROVE Together(c)'
      BY <2>1, <3>2, RevertsFree DEF Together, Free, InARow
    <3> QED BY <3>1, <3>2 DEF Spares, StillUnseen, StillTogether
  <2>3. jobs[1].do = "reverting" /\ Finishes("ok")
    BY <1>7 DEF TakesBack
  <2>4. "ok" \in ((Over \union Waiting) \ Jobs) \ {"failed"}
    BY DEF Over, Jobs
  <2>5. \A c : StillUnseen(c)
    BY <2>2 DEF Spares
  <2> QED BY <1>1, <2>2, <2>3, <2>4, <2>5, TracesOther
<1>8. CASE Copies
  <2>1. Whole(clipboard', jobs[1].by) /\ editor' = editor
    BY <1>3, <1>8 DEF Copies, Base, QueueInv
  <2>2. ASSUME NEW c \in Coroutines \ {jobs[1].by} PROVE Spares(c)
    <3>1. Free(clipboard', c)
      BY <2>1 DEF Whole, Free
    <3> QED BY <2>1, <3>1
            DEF Spares, StillUnseen, StillTogether, Unseen, Together, Free, InARow
  <2>3. jobs[1].do = "copying" /\ Finishes("settling")
    BY <1>8 DEF Copies
  <2>4. "settling" \in ((Over \union Waiting) \ Jobs) \ {"failed"}
    BY DEF Waiting, Jobs
  <2> QED BY <1>1, <2>2, <2>3, <2>4, TracesOther DEF Writing
<1>9. CASE Focuses
  <2>1. jobs[1].do = "focusing" /\ Finishes("pausing") /\ UNCHANGED <<clipboard, editor>>
    BY <1>9 DEF Focuses
  <2>2. \A c : StillUnseen(c) /\ StillTogether(c)
    BY <2>1, TracesSame
  <2>3. "pausing" \in ((Over \union Waiting) \ Jobs) \ {"failed"}
    BY DEF Over, Waiting, Jobs
  <2> QED BY <1>1, <2>1, <2>2, <2>3, TracesOther DEF Spares
<1>10. ~Fails
  BY DEF Fails
<1> QED BY <1>4, <1>5, <1>6, <1>7, <1>8, <1>9, <1>10, ExecutesDoes

LEMMA TracesNext ==
  ASSUME Base, StagesInv, WordsOK, WordsOK', [Next]_vars, TracesInv,
         faults = 0, faults' = 0
  PROVE  TracesInv'
<1>1. CASE UNCHANGED <<insertionVars, stage, text>>
  <2>1. ASSUME NEW c \in Coroutines PROVE TaskTraces(c)'
    <3>1. TaskTraces(c) /\ StillUnseen(c) /\ StillTogether(c)
      BY <1>1, TracesSame DEF TracesInv, insertionVars
    <3> QED BY <1>1, <3>1
            DEF TaskTraces, Typist, StillUnseen, StillTogether, insertionVars
  <2>2. ASSUME NEW i \in 1..Len(jobs) PROVE JobTraces(i)'
    <3>1. JobTraces(i) /\ StillUnseen(jobs[i].by)
      BY <1>1, TracesSame DEF TracesInv, insertionVars
    <3> QED BY <1>1, <3>1 DEF JobTraces, StillUnseen, Free, EndsWith, Document, insertionVars
  <2> QED BY <1>1, <2>1, <2>2 DEF TracesInv, insertionVars
<1> QED BY <1>1, StepTurns, TracesTurn, TracesWakes, TracesExecutes

LEMMA TracesInit == Init => TracesInv
<1> SUFFICES ASSUME Init PROVE TracesInv
  OBVIOUS
<1>1. /\ stage = [c \in Coroutines |-> "none"] /\ call = [c \in Coroutines |-> Idle]
      /\ jobs = <<>> /\ clipboard = <<>> /\ editor = <<<<Own>>>>
  BY CallerTasks DEF Init, InsertionInit
<1>2. ASSUME NEW c \in Coroutines PROVE Unseen(c)
  <2>1. Own[1] = <<"user", 1>> /\ c # <<"user", 1>>
    BY DEF Own, Coroutines, Pipelines, Tasks, Hotkeys
  <2> HIDE DEF Own
  <2>2. Len(editor) = 1 /\ editor[1] = <<Own>> /\ Len(<<Own>>) = 1 /\ <<Own>>[1] = Own
        /\ Len(clipboard) = 0
    BY <1>1
  <2>3. ASSUME NEW i \in 1..1 PROVE <<Own>>[i][1] # c
    <3>1. i = 1
      OBVIOUS
    <3>2. <<Own>>[i] = Own
      BY <2>2, <3>1
    <3> QED BY <2>1, <3>2
  <2>4. Free(editor[1], c) /\ Free(clipboard, c)
    BY <2>2, <2>3 DEF Free
  <2> QED BY <2>2, <2>4 DEF Unseen
<1>3. \A c \in Coroutines : TaskTraces(c)
  BY <1>1, <1>2 DEF TaskTraces, Typist, Before, Idle
<1> QED BY <1>1, <1>3 DEF TracesInv

LEMMA FaultsStay ==
  ASSUME Base, StagesInv, WordsOK, WordsOK', [Next]_vars, faults' = 0
  PROVE  faults = 0
<1>1. CASE UNCHANGED faults
  BY <1>1
<1>2. ASSUME NEW c \in Coroutines, Turns(c) PROVE UNCHANGED faults
  BY <1>2, CalledMoves DEF Turns, Waits, Begins, Removes, Falls, Closes, insertionVars
<1>3. ASSUME NEW c \in Coroutines, Wakes(c) \/ Forgets(c) PROVE UNCHANGED faults
  BY <1>3 DEF Wakes, Forgets
<1>4. ASSUME NEW i \in 1..2, Executes(i) PROVE faults = 0
  <2>1. UNCHANGED faults \/ faults' = faults + 1
    BY <1>4, ExecutesDoes
       DEF TypesOn, ErasesOn, Pastes, TakesBack, Copies, Focuses, Fails
  <2>2. faults \in Nat
    BY DEF Base, EditorOK
  <2> QED BY <2>1, <2>2
<1> QED BY <1>1, <1>2, <1>3, <1>4, StepTurns DEF insertionVars

\* The invariants of this section, together.
TypingInv == WordsOK /\ ShotsOK /\ Base /\ StagesInv /\ (faults = 0 => TracesInv)

LEMMA TypingNext == TypingInv /\ [Next]_vars => TypingInv'
<1> SUFFICES ASSUME TypingInv, [Next]_vars PROVE TypingInv'
  OBVIOUS
<1>1. WordsOK /\ ShotsOK /\ Base /\ StagesInv
  BY DEF TypingInv
<1>2. WordsOK' /\ ShotsOK'
  BY <1>1, WordsNext, ShotsNext
<1>3. Base' /\ StagesInv'
  BY <1>1, <1>2, BaseNext, StagesNext
<1>4. faults' = 0 => TracesInv'
  <2> SUFFICES ASSUME faults' = 0 PROVE TracesInv'
    OBVIOUS
  <2>1. faults = 0
    BY <1>1, <1>2, FaultsStay
  <2> QED BY <1>1, <1>2, <2>1, TracesNext DEF TypingInv
<1> QED BY <1>2, <1>3, <1>4 DEF TypingInv

\* However many tasks insert and undo at once: as long as no call has raised, what a
\* dictation types is never cut by other characters.
THEOREM OneRunAlways == Spec => []TypedInOneRun
<1>1. Init => TypingInv
  BY WordsInit, StagesInit, TracesInit DEF TypingInv
<1>2. TypingInv => TypedInOneRun
  <2> SUFFICES ASSUME TypingInv, NEW i \in DOMAIN Document, NEW k \in DOMAIN Document,
                      i < k, Document[i][1] = Document[k][1], Document[i][1] \in Pipelines,
                      faults = 0, text[Document[i][1]].words \notin Lines,
                      text[Document[i][1]].images = {},
                      NEW j \in i..k
               PROVE  Document[j][1] = Document[i][1]
    BY DEF TypedInOneRun
  <2> DEFINE c == Document[i][1]
  <2>1. TracesInv /\ c \in Coroutines
    BY TaskNames DEF TypingInv
  <2>2. /\ Document \in Docs /\ Len(editor) \in 1..Len(editor)
        /\ Document = editor[Len(editor)]
    <3>1. EditorOK
      BY DEF TypingInv, Base
    <3> QED BY <3>1, DocumentOK
  <2>3. DOMAIN Document = 1..Len(Document)
    BY <2>2 DEF Docs
  <2>4. ~Free(Document, c)
    BY <2>3 DEF Free
  <2>5. Typist(c) /\ Together(c)
    BY <2>1, <2>2, <2>4 DEF TracesInv, TaskTraces, Typist, Unseen
  <2>6. InARow(Document, c)
    BY <2>2, <2>5 DEF Together
  <2> QED BY <2>3, <2>6 DEF InARow
<1>3. TypingInv /\ [Next]_vars => TypingInv'
  BY TypingNext
<1> QED BY <1>1, <1>2, <1>3, PTL DEF Spec


-----------------------------------------------------------------------------
(***************************************************************************)
(* One call at a time.  Until two calls overlap or one fails: what a call  *)
(* has typed is the end of the document, as long as the strategy remembers *)
(* that it is.                                                             *)
(***************************************************************************)
Active(c) == call[c].at \notin Over

Alone == \A c, d \in Coroutines : Active(c) /\ Active(d) => c = d

Owned(doc) == doc # <<>> /\ doc[1] = Own

\* The characters of b in doc are its last n.
LastBy(doc, b, n) == \A i \in 1..Len(doc) : doc[i][1] = b <=> i > Len(doc) - n

TypedLast(n) == typed # <<>> => LastBy(Document, typed, n)

CountOK(c) ==
  /\ call[c].at \in {"focusing", "pausing"} => call[c].count = Len(lastText)
  /\ call[c].at = "erased" => typed = <<>>
  /\ call[c].at = "reverting" => lastText = <<>>

Doing(do) == jobs # <<>> /\ jobs[1].do = do

\* What of the text has been typed.
Begun(n) ==
  /\ Len(jobs[1].rest) + n = Len(lastText) /\ Len(Document) >= 1 + n
  /\ IF jobs[1].begun THEN LastBy(Document, jobs[1].by, n) ELSE n = 0

Remembered == Len(Document) >= 1 + Len(lastText) /\ TypedLast(Len(lastText))

PhaseOK ==
  /\ Doing("erasing") => /\ Len(Document) >= 1 + Len(jobs[1].rest)
                         /\ TypedLast(Len(jobs[1].rest))
  /\ Doing("typing") => \E n \in Nat : Begun(n)
  /\ ~Doing("erasing") /\ ~Doing("typing") /\ (\A c \in Coroutines : call[c].at # "erased") =>
       Remembered

SingleInv ==
  /\ Alone
  /\ \A k \in 1..Len(editor) : Owned(editor[k])
  /\ \A c \in Coroutines : CountOK(c)
  /\ PhaseOK

LEMMA OwnedDocument ==
  ASSUME EditorOK, \A k \in 1..Len(editor) : Owned(editor[k])
  PROVE  Document \in Docs /\ Len(Document) \in Nat \ {0} /\ Owned(Document)
<1>1. Document \in Docs /\ Len(editor) \in 1..Len(editor) /\ Document = editor[Len(editor)]
  BY DocumentOK
<1>2. Owned(Document)
  BY <1>1
<1> QED BY <1>1, <1>2, EmptySeq DEF Owned, Docs

\* The same of the next state.
LEMMA OwnedNext ==
  ASSUME EditorOK', \A k \in 1..Len(editor') : Owned(editor'[k])
  PROVE  Document' \in Docs /\ Len(Document') \in Nat \ {0} /\ Owned(Document')
<1>1. editor' \in Seq(Docs) /\ editor' # <<>>
  BY DEF EditorOK
<1>2. /\ Document' = Last(editor') /\ Len(editor') \in 1..Len(editor')
      /\ Last(editor') = editor'[Len(editor')] /\ Last(editor') \in Docs
  BY <1>1, Fronts DEF Document
<1>3. Owned(Document')
  BY <1>2
<1> QED BY <1>2, <1>3, EmptySeq DEF Owned, Docs

\* A task that has a job is in a call, so that alone it has the only job.
LEMMA NoJobs ==
  ASSUME Base, \A c \in Coroutines : call[c].at \notin Jobs
  PROVE  jobs = <<>>
<1> SUFFICES ASSUME jobs # <<>> PROVE FALSE
  OBVIOUS
<1> QED BY FirstJob DEF IsQueued

LEMMA OnlyJob ==
  ASSUME Base, Alone, jobs # <<>>
  PROVE  /\ Len(jobs) = 1 /\ jobs[1].by \in Coroutines
         /\ \A c \in Coroutines \ {jobs[1].by} : call[c].at \in Over
<1>1. /\ IsQueued(1) /\ jobs[1].by \in Coroutines /\ jobs[1].do \in Jobs /\ 1 \in 1..Len(jobs)
      /\ jobs \in Seq(JobRecords)
  BY FirstJob DEF Base, CallsOK
<1>2. Active(jobs[1].by)
  BY <1>1 DEF IsQueued, Active, Over, Jobs
<1>3. ASSUME NEW i \in 1..Len(jobs) PROVE i = 1
  <2>1. jobs[i] \in JobRecords /\ IsQueued(i)
    BY <1>1, ElementOfSeq DEF Base, QueueInv
  <2>2. jobs[i].by \in Coroutines /\ jobs[i].do \in Jobs
    BY <2>1, JobFields
  <2>3. Active(jobs[i].by)
    BY <2>1, <2>2 DEF IsQueued, Active, Over, Jobs
  <2>4. jobs[i].by = jobs[1].by
    BY <1>1, <1>2, <2>2, <2>3 DEF Alone
  <2> QED BY <1>1, <2>4 DEF Base, QueueInv
<1>4. Len(jobs) \in 1..Len(jobs)
  BY <1>1
<1>5. Len(jobs) = 1
  BY <1>3, <1>4
<1> QED BY <1>1, <1>2, <1>5 DEF Alone, Active

\* Between two calls.
LEMMA Between ==
  ASSUME Base, SingleInv, \A c \in Coroutines : call[c].at \notin Jobs \union {"erased"}
  PROVE  jobs = <<>> /\ Remembered
<1>1. jobs = <<>>
  BY NoJobs
<1> QED BY <1>1 DEF SingleInv, PhaseOK, Doing

\* A call that begins, or goes on, while no other is in progress.
LEMMA SingleSubmits ==
  ASSUME Base, SingleInv, NEW c, NEW do, NEW rest, Submits(c, do, rest),
         \A d \in Coroutines \ {c} : call[d].at \in Over,
         call[c].at # "erased",
         do = "typing" => rest = lastText',
         do = "erasing" => Len(rest) = Len(lastText),
         do = "reverting" => lastText = <<>>,
         do = "focusing" => call'[c].count = Len(lastText),
         do # "typing" => lastText' = lastText
  PROVE  SingleInv'
<1>1. \A d \in Coroutines : call[d].at \notin Jobs \union {"erased"}
  BY DEF Submits, Over, Jobs
<1>2. jobs = <<>> /\ Remembered
  BY <1>1, Between
<1>3. /\ Len(jobs') = 1 /\ jobs'[1].by = c /\ jobs'[1].do = do /\ jobs'[1].rest = rest
      /\ jobs'[1].begun = FALSE
  <2> PICK n : n = Len(jobs)
    OBVIOUS
  <2>1. n = 0 /\ n + 1 = 1
    BY <1>2
  <2>2. /\ Len(jobs') = n + 1 /\ jobs'[n + 1].by = c /\ jobs'[n + 1].do = do
        /\ jobs'[n + 1].rest = rest /\ jobs'[n + 1].begun = FALSE
    BY BaseSubmits
  <2> QED BY <2>1, <2>2
<1>4. /\ \A d \in Coroutines \ {c} : call'[d].at \in Over
      /\ call'[c].at = do /\ do \in Jobs
      /\ UNCHANGED <<editor, typed>> /\ Document' = Document
  BY DEF Submits, Moved, Document
<1>5. Alone'
  BY <1>4 DEF Alone, Active
<1>6. \A k \in 1..Len(editor) : Owned(editor[k])'
  BY <1>4 DEF SingleInv, Owned
<1>7. \A d \in Coroutines : CountOK(d)'
  BY <1>4 DEF CountOK, Over, Jobs
<1>8. lastText \in Docs /\ lastText' \in Docs /\ EditorOK
  BY DEF Base, EditorOK, Submits
<1>9. Len(Document) \in Nat \ {0} /\ Len(lastText) \in Nat
  BY <1>8, OwnedDocument DEF SingleInv, Docs
<1>10. PhaseOK'
  <2>1. \A x : Doing(x)' <=> x = do
    BY <1>3 DEF Doing
  <2>2. CASE do = "erasing"
    BY <1>2, <1>3, <1>4, <2>1, <2>2 DEF PhaseOK, Remembered, TypedLast, LastBy
  <2>3. CASE do = "typing"
    <3>1. Begun(0)'
      BY <1>3, <1>4, <1>8, <1>9, <2>3 DEF Begun, Docs
    <3>2. \E n \in Nat : Begun(n)'
      BY <3>1
    <3> QED BY <2>1, <2>3, <3>2 DEF PhaseOK
  <2>4. CASE do \notin {"erasing", "typing"}
    <3>1. Remembered'
      BY <1>2, <1>4, <2>4 DEF Remembered, TypedLast, LastBy
    <3> QED BY <2>1, <2>4, <3>1 DEF PhaseOK
  <2> QED BY <2>2, <2>3, <2>4
<1> QED BY <1>4, <1>5, <1>6, <1>7, <1>10 DEF SingleInv

LEMMA SingleCalled ==
  ASSUME Base, SingleInv, NEW c, Called(c), ~overlapped'
  PROVE  SingleInv'
<1>1. \A d \in Coroutines : call[d].at \in Over
  BY DEF Called
<1>2. c \in Coroutines /\ call[c].at # "erased"
  BY <1>1 DEF Called, Over
<1>3. CASE Returns(c, "ok") /\ lastText' = lastText
  <2>1. jobs = <<>> /\ Remembered
    BY <1>1, Between DEF Over, Jobs
  <2>2. /\ \A d \in Coroutines : call'[d].at \in Over
        /\ UNCHANGED <<jobs, editor, typed, lastText>> /\ Document' = Document
    BY <1>1, <1>3 DEF Returns, Moved, Over, Document
  <2>3. Alone' /\ (\A d \in Coroutines : CountOK(d)') /\ ~Doing("erasing")' /\ ~Doing("typing")'
    BY <2>1, <2>2 DEF Alone, Active, CountOK, Over, Doing
  <2>4. Remembered'
    BY <2>1, <2>2 DEF Remembered, TypedLast, LastBy
  <2> QED BY <2>2, <2>3, <2>4 DEF SingleInv, Owned, PhaseOK
<1>4. ASSUME NEW n \in Nat, Submits(c, "typing", Letters(c, n)), lastText' = Letters(c, n)
      PROVE  SingleInv'
  BY <1>1, <1>2, <1>4, SingleSubmits
<1>5. CASE Submits(c, "copying", <<>>) /\ lastText' = lastText
  BY <1>1, <1>2, <1>5, SingleSubmits
<1>6. CASE /\ Submits(c, "focusing", <<>>) /\ lastText' = lastText
           /\ call'[c].count = Len(lastText)
  BY <1>1, <1>2, <1>6, SingleSubmits
<1>7. ASSUME NEW do \in {"erasing", "reverting"}, Submits(c, do, lastText),
             RemovesBy(do, Len(lastText)), lastText' = lastText
      PROVE  SingleInv'
  <2>1. do = "reverting" => lastText = <<>>
    <3>1. do = "reverting" => Len(lastText) = 0 /\ lastText \in Seq(Chars)
      BY <1>7 DEF RemovesBy, Base, EditorOK, Docs
    <3> QED BY <3>1, EmptySeq
  <2> QED BY <1>1, <1>2, <1>7, <2>1, SingleSubmits
<1> QED BY <1>3, <1>4, <1>5, <1>6, <1>7 DEF Called

LEMMA SingleWakes ==
  ASSUME Base, SingleInv, NEW c \in Coroutines, Wakes(c)
  PROVE  SingleInv'
<1>1. /\ lastText' = lastText /\ call[c].at \in {"settling", "pausing"}
      /\ \E rest \in Docs : Len(rest) = call[c].count /\
           \/ Submits(c, "pasting", rest)
           \/ /\ call[c].at = "pausing"
              /\ \E do \in {"erasing", "reverting"} :
                   Submits(c, do, rest) /\ RemovesBy(do, call[c].count)
  BY WakesDoes
<1>2. \A d \in Coroutines \ {c} : call[d].at \in Over
  BY <1>1 DEF SingleInv, Alone, Active, Over
<1>3. call[c].at = "pausing" => call[c].count = Len(lastText)
  BY DEF SingleInv, CountOK
<1>4. ASSUME NEW rest \in Docs, Submits(c, "pasting", rest) PROVE SingleInv'
  BY <1>1, <1>2, <1>4, SingleSubmits
<1>5. ASSUME NEW rest \in Docs, Len(rest) = call[c].count, call[c].at = "pausing",
             NEW do \in {"erasing", "reverting"}, Submits(c, do, rest),
             RemovesBy(do, call[c].count)
      PROVE  SingleInv'
  <2>1. do = "reverting" => lastText = <<>>
    <3>1. do = "reverting" => Len(lastText) = 0 /\ lastText \in Seq(Chars)
      BY <1>3, <1>5 DEF RemovesBy, Base, EditorOK, Docs
    <3> QED BY <3>1, EmptySeq
  <2> QED BY <1>1, <1>2, <1>3, <1>5, <2>1, SingleSubmits
<1> QED BY <1>1, <1>4, <1>5

LEMMA SingleForgets ==
  ASSUME Base, SingleInv, NEW c \in Coroutines, Forgets(c)
  PROVE  SingleInv'
<1>1. call[c].at = "erased" /\ Returns(c, "ok") /\ lastText' = <<>>
  BY ForgetsDoes
<1>2. typed = <<>> /\ \A d \in Coroutines \ {c} : call[d].at \in Over
  BY <1>1 DEF SingleInv, CountOK, Alone, Active, Over
<1>3. jobs = <<>>
  BY <1>1, <1>2, NoJobs DEF Over, Jobs
<1>4. /\ \A d \in Coroutines : call'[d].at \in Over
      /\ UNCHANGED <<jobs, editor, typed>> /\ Document' = Document
  BY <1>1, <1>2 DEF Returns, Moved, Over, Document
<1>5. Alone' /\ (\A d \in Coroutines : CountOK(d)')
  BY <1>4 DEF Alone, Active, CountOK, Over
<1>6. Remembered'
  <2>1. Len(Document) \in Nat \ {0} /\ Len(<<>>) = 0
    BY OwnedDocument DEF SingleInv, Base
  <2> QED BY <1>1, <1>2, <1>4, <2>1 DEF Remembered, TypedLast
<1>7. ~Doing("erasing")' /\ ~Doing("typing")'
  BY <1>3, <1>4 DEF Doing
<1> QED BY <1>4, <1>5, <1>6, <1>7 DEF SingleInv, Owned, PhaseOK


LEMMA AppendLast ==
  ASSUME NEW doc \in Docs, NEW ch \in Chars, NEW n \in Nat, LastBy(doc, ch[1], n)
  PROVE  /\ LastBy(Append(doc, ch), ch[1], n + 1) /\ Len(Append(doc, ch)) = Len(doc) + 1
         /\ Owned(doc) => Owned(Append(doc, ch))
<1> PICK d : d = Append(doc, ch)
  OBVIOUS
<1> PICK m \in Nat : m = Len(doc)
  BY DEF Docs
<1>1. /\ Len(d) = m + 1 /\ d[m + 1] = ch
      /\ \A i \in 1..m : d[i] = doc[i]
  BY Appended DEF Docs
<1>2. \A i \in 1..m : doc[i][1] = ch[1] <=> i > m - n
  BY DEF LastBy
<1>3. ASSUME NEW i \in 1..(m + 1)
      PROVE  d[i][1] = ch[1] <=> i > (m + 1) - (n + 1)
  <2>1. CASE i \in 1..m
    BY <1>1, <1>2, <2>1
  <2>2. CASE i = m + 1
    BY <1>1, <2>2
  <2> QED BY <2>1, <2>2
<1>4. LastBy(d, ch[1], n + 1)
  BY <1>1, <1>3 DEF LastBy
<1>5. Owned(doc) => Owned(d)
  <2> SUFFICES ASSUME Owned(doc) PROVE Owned(d)
    OBVIOUS
  <2>1. m # 0
    BY EmptySeq DEF Owned, Docs
  <2>2. d[1] = doc[1] /\ d # <<>>
    BY <1>1, <2>1
  <2> QED BY <2>2 DEF Owned
<1> QED BY <1>1, <1>4, <1>5

LEMMA ShorterLast ==
  ASSUME NEW doc \in Docs, NEW b, NEW n \in Nat \ {0}, Len(doc) >= 1 + n
  PROVE  /\ LastBy(doc, b, n) => LastBy(Shorter(doc), b, n - 1)
         /\ Len(Shorter(doc)) = Len(doc) - 1
         /\ Owned(doc) => Owned(Shorter(doc))
<1> PICK m \in Nat : m = Len(doc)
  BY DEF Docs
<1>1. m >= 2 /\ doc # <<>>
  <2>1. m >= 2
    OBVIOUS
  <2> QED BY <2>1
<1>2. /\ Len(Shorter(doc)) = m - 1
      /\ \A i \in 1..(m - 1) : Shorter(doc)[i] = doc[i]
  BY <1>1, Fronts DEF Shorter, Docs
<1>3. ASSUME LastBy(doc, b, n) PROVE LastBy(Shorter(doc), b, n - 1)
  <2>1. \A i \in 1..m : doc[i][1] = b <=> i > m - n
    BY <1>3 DEF LastBy
  <2>2. \A i \in 1..(m - 1) : Shorter(doc)[i][1] = b <=> i > (m - 1) - (n - 1)
    BY <1>2, <2>1
  <2> QED BY <1>2, <2>2 DEF LastBy
<1>4. ASSUME Owned(doc) PROVE Owned(Shorter(doc))
  <2>1. Shorter(doc)[1] = doc[1] /\ Len(Shorter(doc)) # 0
    BY <1>1, <1>2
  <2>2. Shorter(doc) # <<>>
    BY <2>1
  <2> QED BY <1>4, <2>1, <2>2 DEF Owned
<1> QED BY <1>2, <1>3, <1>4

LEMMA JoinOwned ==
  ASSUME NEW doc \in Docs, NEW more \in Docs, Owned(doc)
  PROVE  Owned(doc \o more) /\ Len(doc \o more) >= Len(doc) /\ doc \o more \in Docs
<1> PICK d : d = doc \o more
  OBVIOUS
<1> PICK n \in Nat, m \in Nat : n = Len(doc) /\ m = Len(more)
  BY DEF Docs
<1>1. /\ d \in Docs /\ Len(d) = n + m
      /\ \A i \in 1..(n + m) : d[i] = IF i <= n THEN doc[i] ELSE more[i - n]
  BY ConcatProperties DEF Docs
<1>2. n # 0
  BY EmptySeq DEF Owned, Docs
<1>3. d[1] = doc[1] /\ d # <<>> /\ Len(d) >= n
  <2>1. Len(d) # 0 /\ Len(d) >= n /\ 1 \in 1..(n + m) /\ 1 <= n
    BY <1>1, <1>2
  <2>2. d # <<>>
    BY <2>1
  <2>3. d[1] = doc[1]
    BY <1>1, <2>1
  <2> QED BY <2>1, <2>2, <2>3
<1> QED BY <1>1, <1>3 DEF Owned

LEMMA ShowsOwned ==
  ASSUME \A k \in 1..Len(editor) : Owned(editor[k]),
         Reverts \/ \E doc : Shows(doc) /\ Owned(doc)
  PROVE  \A k \in 1..Len(editor') : Owned(editor'[k])
<1> SUFFICES ASSUME NEW k \in 1..Len(editor') PROVE Owned(editor'[k])
  OBVIOUS
<1>1. CASE Reverts
  <2>1. PICK m \in 1..Len(editor) : editor'[k] = editor[m]
    BY <1>1 DEF Reverts
  <2> QED BY <2>1
<1>2. ASSUME NEW doc, Shows(doc), Owned(doc) PROVE Owned(editor'[k])
  <2>1. editor'[k] = doc \/ \E m \in 1..Len(editor) : editor'[k] = editor[m]
    BY <1>2 DEF Shows
  <2> QED BY <1>2, <2>1
<1> QED BY <1>1, <1>2

LEMMA SingleFinishes ==
  ASSUME Base, SingleInv, jobs # <<>>, EditorOK', lastText' = lastText,
         NEW at \in {"ok", "erased", "settling", "pausing"}, Finishes(at),
         \A k \in 1..Len(editor') : Owned(editor'[k]),
         at = "erased" => typed' = <<>>,
         at = "pausing" => jobs[1].do = "focusing",
         at # "erased" => Remembered'
  PROVE  SingleInv'
<1> PICK b \in Coroutines : b = jobs[1].by
  BY FirstJob
<1>1. Len(jobs) = 1 /\ \A c \in Coroutines \ {b} : call[c].at \in Over
  BY OnlyJob DEF SingleInv
<1>2. at \in (Over \union Waiting) \ Jobs
  BY DEF Over, Waiting, Jobs
<1>3. /\ Len(jobs') = 0 /\ jobs' \in Seq(JobRecords)
      /\ \A c \in Coroutines \ {b} : call'[c] = call[c]
      /\ call'[b].at = at /\ call'[b].count = call[b].count
  <2>1. /\ Base' /\ Len(jobs') = Len(jobs) - 1
        /\ \A c \in Coroutines : c # b => call'[c] = call[c]
        /\ call'[b].at = at /\ call'[b].count = call[b].count
    BY <1>2, BaseFinishes
  <2> QED BY <1>1, <2>1 DEF Base, CallsOK
<1>4. jobs' = <<>>
  BY <1>3, EmptySeq
<1>5. Alone'
  BY <1>1, <1>3 DEF Alone, Active
<1>6. CountOK(b)'
  <2>1. at = "pausing" => call[b].count = Len(lastText)
    BY FirstJob DEF IsQueued, SingleInv, CountOK
  <2> QED BY <1>3, <2>1 DEF CountOK
<1>7. \A c \in Coroutines \ {b} : CountOK(c)'
  BY <1>1, <1>3 DEF CountOK, Over
<1>8. ~Doing("erasing")' /\ ~Doing("typing")'
  BY <1>4 DEF Doing
<1>9. PhaseOK'
  BY <1>3, <1>8 DEF PhaseOK
<1>10. \A c \in Coroutines : CountOK(c)'
  BY <1>6, <1>7
<1> QED BY <1>5, <1>9, <1>10 DEF SingleInv

LEMMA SingleKeeps ==
  ASSUME Base, SingleInv, jobs # <<>>, EditorOK', lastText' = lastText, KeyMore,
         \A k \in 1..Len(editor') : Owned(editor'[k]),
         \/ jobs[1].do = "typing" /\ \E n \in Nat : Begun(n)'
         \/ /\ jobs[1].do = "erasing"
            /\ (Len(Document) >= 1 + Len(jobs[1].rest) /\ TypedLast(Len(jobs[1].rest)))'
  PROVE  SingleInv'
<1> PICK b \in Coroutines : b = jobs[1].by
  BY FirstJob
<1>1. /\ \A c \in Coroutines \ {b} : call[c].at \in Over
      /\ call[b].at = jobs[1].do
  BY OnlyJob, FirstJob DEF SingleInv, IsQueued
<1>2. call' = call /\ jobs'[1].do = jobs[1].do /\ Len(jobs') = Len(jobs)
      /\ Len(jobs) \in Nat \ {0}
  BY BaseKeeps
<1>3. jobs' # <<>>
  <2>1. Len(jobs') # 0
    BY <1>2
  <2> QED BY <2>1
<1>4. Alone'
  BY <1>2 DEF SingleInv, Alone, Active
<1>5. \A c \in Coroutines : CountOK(c)'
  BY <1>1, <1>2 DEF CountOK, Over
<1>6. \A x : Doing(x)' <=> x = jobs[1].do
  BY <1>2, <1>3 DEF Doing
<1>7. PhaseOK'
  BY <1>6 DEF PhaseOK
<1> QED BY <1>4, <1>5, <1>7 DEF SingleInv

LEMMA OneOn == \A r, n, t \in Int : r + n = t => (r - 1) + (n + 1) = t
  OBVIOUS

LEMMA SingleTypes ==
  ASSUME Base, SingleInv, TracesInv, jobs # <<>>, EditorOK', lastText' = lastText, TypesOn
  PROVE  SingleInv'
<1> PICK b \in Coroutines : b = jobs[1].by
  BY FirstJob
<1> PICK ch : ch = Head(jobs[1].rest)
  OBVIOUS
<1> PICK d : d = Append(Document, ch)
  OBVIOUS
<1>1. /\ IsQueued(1) /\ jobs[1].rest \in Docs /\ 1 \in 1..Len(jobs)
      /\ jobs[1].do = "typing"
  BY FirstJob DEF TypesOn
<1>2. ch \in Chars /\ ch[1] = b
  <2>1. jobs[1].rest # <<>> /\ Whole(jobs[1].rest, b)
    BY <1>1 DEF IsQueued
  <2>2. jobs[1].rest \in Seq(Chars) /\ 1 \in 1..Len(jobs[1].rest)
    BY <1>1, <2>1, EmptySeq DEF Docs
  <2>3. ch = jobs[1].rest[1] /\ jobs[1].rest[1] \in Chars
    BY <2>1, <2>2, ElementOfSeq
  <2> QED BY <2>1, <2>2, <2>3 DEF Whole
<1>3. /\ Document \in Docs /\ Owned(Document) /\ Len(editor) \in 1..Len(editor)
      /\ Document = editor[Len(editor)]
  BY OwnedDocument, DocumentOK DEF Base, SingleInv
<1>4. PICK n \in Nat : Begun(n)
  BY <1>1 DEF SingleInv, PhaseOK, Doing
<1>5. LastBy(Document, b, n)
  <2>1. CASE jobs[1].begun
    BY <1>4, <2>1 DEF Begun
  <2>2. CASE ~jobs[1].begun
    <3>1. n = 0
      BY <1>4, <2>2 DEF Begun
    <3>2. JobTraces(1)
      BY <1>1 DEF TracesInv
    <3>3. Free(Document, b)
      BY <1>1, <1>3, <2>2, <3>2 DEF JobTraces, Unseen
    <3> QED BY <1>3, <3>1, <3>3 DEF Free, LastBy, Docs
  <2> QED BY <2>1, <2>2
<1>6. LastBy(d, b, n + 1) /\ Len(d) = Len(Document) + 1 /\ Owned(d)
  <2>1. LastBy(Document, ch[1], n)
    BY <1>2, <1>5
  <2>2. /\ LastBy(Append(Document, ch), ch[1], n + 1)
        /\ Len(Append(Document, ch)) = Len(Document) + 1
        /\ Owned(Document) => Owned(Append(Document, ch))
    BY <1>2, <1>3, <2>1, AppendLast
  <2> QED BY <1>2, <1>3, <2>2
<1>7. Shows(d) /\ Document' = d
  BY DEF TypesOn, Shows
<1>8. \A k \in 1..Len(editor') : Owned(editor'[k])
  BY <1>6, <1>7, ShowsOwned DEF SingleInv
<1> PICK m \in Nat, r \in Nat, t \in Nat :
      m = Len(Document) /\ r = Len(jobs[1].rest) /\ t = Len(lastText)
  BY <1>1, <1>3 DEF Docs, Base, EditorOK
<1>9. r + n = t /\ m >= 1 + n
  BY <1>4 DEF Begun
<1>10. CASE KeyDone("ok") /\ typed' = b
  <2>1. t = n + 1 /\ Len(d) >= 1 + t /\ Finishes("ok")
    BY <1>6, <1>9, <1>10 DEF KeyDone
  <2>2. Remembered'
    BY <1>6, <1>7, <1>10, <2>1 DEF Remembered, TypedLast
  <2> QED BY <1>8, <2>1, <2>2, SingleFinishes
<1>11. CASE KeyMore
  <2>1. /\ jobs'[1].by = b /\ jobs'[1].begun = TRUE
        /\ jobs'[1].rest = Tail(jobs[1].rest)
    BY <1>11, BaseKeeps
  <2>2. Len(jobs'[1].rest) = r - 1
    <3>1. jobs[1].rest \in Seq(Chars) /\ jobs[1].rest # <<>>
      BY <1>1 DEF IsQueued, Docs
    <3> QED BY <2>1, <3>1, HeadTailProperties
  <2>3. Len(jobs'[1].rest) + (n + 1) = Len(lastText')
    <3>1. n \in Int /\ r \in Int /\ t \in Int /\ r + n = t
      BY <1>4, <1>9
    <3>2. (r - 1) + (n + 1) = t
      BY <3>1, OneOn, Zenon
    <3>3. Len(lastText') = t
      OBVIOUS
    <3> QED BY <2>2, <3>2, <3>3
  <2>4. Len(Document') >= 1 + (n + 1)
    BY <1>6, <1>7, <1>9
  <2>5. LastBy(Document', jobs'[1].by, n + 1)
    BY <1>6, <1>7, <2>1
  <2>6. PICK x \in Nat : x = n + 1
    OBVIOUS
  <2>7. Begun(x)'
    BY <2>1, <2>3, <2>4, <2>5, <2>6 DEF Begun
  <2>8. \E y \in Nat : Begun(y)'
    BY <2>7
  <2> QED BY <1>1, <1>8, <1>11, <2>8, SingleKeeps
<1> QED BY <1>10, <1>11 DEF TypesOn

LEMMA SingleErases ==
  ASSUME Base, SingleInv, jobs # <<>>, EditorOK', lastText' = lastText, ErasesOn
  PROVE  SingleInv'
<1>1. /\ IsQueued(1) /\ jobs[1].rest \in Docs /\ jobs[1].do = "erasing"
  BY FirstJob DEF ErasesOn
<1>2. Document \in Docs /\ Owned(Document)
  BY OwnedDocument DEF Base, SingleInv
<1> PICK m \in Nat, r \in Nat : m = Len(Document) /\ r = Len(jobs[1].rest)
  BY <1>1, <1>2 DEF Docs
<1>3. m >= 1 + r /\ TypedLast(r) /\ r # 0
  <2>1. jobs[1].rest # <<>>
    BY <1>1 DEF IsQueued
  <2>2. r # 0
    BY <1>1, <2>1, EmptySeq DEF Docs
  <2> QED BY <1>1, <2>2 DEF SingleInv, PhaseOK, Doing
<1> PICK d : d = Shorter(Document)
  OBVIOUS
<1>4. /\ \A b : LastBy(Document, b, r) => LastBy(d, b, r - 1)
      /\ Len(d) = m - 1 /\ Owned(d)
  BY <1>2, <1>3, ShorterLast
<1>5. Shows(d) /\ Document' = d
  BY DEF ErasesOn, Shows
<1>6. \A k \in 1..Len(editor') : Owned(editor'[k])
  BY <1>4, <1>5, ShowsOwned DEF SingleInv
<1>7. CASE KeyDone("erased") /\ typed' = <<>>
  BY <1>6, <1>7, SingleFinishes DEF KeyDone
<1>8. CASE KeyMore /\ typed' = typed
  <2>1. Len(jobs'[1].rest) = r - 1
    <3>1. jobs[1].rest \in Seq(Chars) /\ jobs[1].rest # <<>>
      BY <1>1 DEF IsQueued, Docs
    <3>2. jobs'[1].rest = Tail(jobs[1].rest)
      BY <1>8, BaseKeeps
    <3> QED BY <3>1, <3>2, HeadTailProperties
  <2>2. (Len(Document) >= 1 + Len(jobs[1].rest))'
    BY <1>3, <1>4, <1>5, <2>1
  <2>3. TypedLast(Len(jobs[1].rest))'
    BY <1>3, <1>4, <1>5, <1>8, <2>1 DEF TypedLast
  <2> QED BY <1>1, <1>6, <1>8, <2>2, <2>3, SingleKeeps
<1> QED BY <1>7, <1>8 DEF ErasesOn

LEMMA SingleExecutes ==
  ASSUME Base, SingleInv, TracesInv, NEW i \in 1..2, Executes(i), faults = 0, faults' = 0
  PROVE  SingleInv'
<1>1. jobs # <<>> /\ EditorOK' /\ lastText' = lastText
  BY ExecutesDoes, EditorExecutes
<1> PICK b \in Coroutines : b = jobs[1].by
  BY <1>1, FirstJob
<1>2. call[b].at = jobs[1].do /\ \A c \in Coroutines \ {b} : call[c].at \in Over
  BY <1>1, FirstJob, OnlyJob DEF IsQueued, SingleInv
<1>3. Document \in Docs /\ Owned(Document) /\ Len(Document) \in Nat \ {0}
  BY OwnedDocument DEF Base, SingleInv
<1>4. lastText \in Docs /\ Len(lastText) \in Nat /\ clipboard \in Docs
  BY DEF Base, EditorOK, Docs
<1>5. jobs[1].do \notin {"typing", "erasing"} => Remembered
  <2> SUFFICES ASSUME jobs[1].do \notin {"typing", "erasing"} PROVE Remembered
    OBVIOUS
  <2>1. ~Doing("erasing") /\ ~Doing("typing")
    BY DEF Doing
  <2>2. jobs[1].do # "erased"
    BY <1>1, FirstJob DEF Jobs
  <2>3. \A c \in Coroutines : call[c].at # "erased"
    BY <1>2, <2>2 DEF Over
  <2> QED BY <2>1, <2>3 DEF SingleInv, PhaseOK
<1>6. CASE TypesOn
  BY <1>1, <1>6, SingleTypes
<1>7. CASE ErasesOn
  BY <1>1, <1>7, SingleErases
<1>8. CASE Pastes
  <2>1. /\ Shows(Document \o clipboard) /\ Document' = Document \o clipboard
        /\ Finishes("ok") /\ typed' = <<>> /\ jobs[1].do = "pasting"
    BY <1>8 DEF Pastes, Shows
  <2>2. /\ Owned(Document \o clipboard) /\ Len(Document \o clipboard) >= Len(Document)
        /\ Len(Document \o clipboard) \in Nat
    BY <1>3, <1>4, JoinOwned DEF Docs
  <2>3. \A k \in 1..Len(editor') : Owned(editor'[k])
    BY <2>1, <2>2, ShowsOwned DEF SingleInv
  <2>4. Remembered'
    BY <1>1, <1>3, <1>4, <1>5, <2>1, <2>2 DEF Remembered, TypedLast
  <2> QED BY <1>1, <2>1, <2>3, <2>4, SingleFinishes
<1>9. CASE TakesBack
  <2>1. Reverts /\ Finishes("ok") /\ typed' = <<>> /\ jobs[1].do = "reverting"
    BY <1>9 DEF TakesBack
  <2>2. \A k \in 1..Len(editor') : Owned(editor'[k])
    BY <2>1, ShowsOwned DEF SingleInv
  <2>3. Len(Document') \in Nat \ {0}
    BY <1>1, <2>2, OwnedNext
  <2>4. lastText' = <<>>
    BY <1>1, <1>2, <2>1 DEF SingleInv, CountOK
  <2>5. Remembered'
    BY <2>1, <2>3, <2>4 DEF Remembered, TypedLast
  <2> QED BY <1>1, <2>1, <2>2, <2>5, SingleFinishes
<1>10. CASE Copies \/ Focuses
  <2>1. /\ \/ Finishes("settling") /\ jobs[1].do = "copying"
           \/ Finishes("pausing") /\ jobs[1].do = "focusing"
        /\ UNCHANGED <<editor, typed>> /\ Document' = Document
    BY <1>10 DEF Copies, Focuses, Document
  <2>2. \A k \in 1..Len(editor') : Owned(editor'[k])
    BY <2>1 DEF SingleInv
  <2>3. Remembered'
    BY <1>1, <1>5, <2>1 DEF Remembered, TypedLast
  <2> QED BY <1>1, <2>1, <2>2, <2>3, SingleFinishes
<1>11. ~Fails
  BY DEF Fails
<1> QED BY <1>6, <1>7, <1>8, <1>9, <1>10, <1>11, ExecutesDoes

LEMMA SingleStays ==
  ASSUME SingleInv, UNCHANGED insertionVars
  PROVE  SingleInv'
<1>1. /\ UNCHANGED <<call, jobs, lastText, editor, typed>> /\ Document' = Document
  BY DEF insertionVars, Document
<1>2. Alone' /\ \A c \in Coroutines : CountOK(c)'
  BY <1>1 DEF SingleInv, Alone, Active, CountOK
<1>3. PhaseOK'
  BY <1>1 DEF SingleInv, PhaseOK, Doing, Begun, Remembered, TypedLast, LastBy
<1> QED BY <1>1, <1>2, <1>3 DEF SingleInv, Owned

UndoingInv == faults = 0 /\ ~overlapped => SingleInv

LEMMA UndoingNext == TypingInv /\ UndoingInv /\ [Next]_vars => UndoingInv'
<1> SUFFICES ASSUME TypingInv, UndoingInv, [Next]_vars, faults' = 0, ~overlapped'
             PROVE  SingleInv'
  BY DEF UndoingInv
<1>1. WordsOK /\ Base /\ StagesInv /\ WordsOK' /\ faults = 0 /\ TracesInv
  BY TypingNext, FaultsStay DEF TypingInv
<1>2. CASE UNCHANGED insertionVars
  BY <1>1, <1>2, SingleStays DEF UndoingInv, insertionVars
<1>3. ASSUME NEW c \in Coroutines, Called(c) PROVE SingleInv'
  <2>1. ~overlapped
    BY <1>3 DEF Called
  <2> QED BY <1>1, <1>3, <2>1, SingleCalled DEF UndoingInv
<1>4. ASSUME NEW c \in Coroutines, Turns(c) PROVE SingleInv'
  BY <1>2, <1>3, <1>4 DEF Turns, Waits, Begins, Removes, Falls, Closes
<1>5. ASSUME NEW c \in Coroutines, Wakes(c) PROVE SingleInv'
  BY <1>1, <1>5, WakesDoes, SingleWakes DEF UndoingInv
<1>6. ASSUME NEW c \in Coroutines, Forgets(c) PROVE SingleInv'
  BY <1>1, <1>6, ForgetsDoes, SingleForgets DEF UndoingInv
<1>7. ASSUME NEW i \in 1..2, Executes(i) PROVE SingleInv'
  BY <1>1, <1>7, ExecutesDoes, SingleExecutes DEF UndoingInv
<1> QED BY <1>1, <1>2, <1>4, <1>5, <1>6, <1>7, StepTurns DEF insertionVars

LEMMA FirstOnly ==
  ASSUME NEW S, NEW s \in Seq(S), s # <<>>
  PROVE  SubSeq(s, 1, 1) = <<s[1]>>
<1>1. 1 \in 1..Len(s) /\ s[1] \in S
  BY EmptySeq, ElementOfSeq
<1>2. /\ SubSeq(s, 1, 1) \in Seq(S) /\ Len(SubSeq(s, 1, 1)) = 1
      /\ SubSeq(s, 1, 1)[1] = s[1]
  <2>1. \A i \in 1..1 : s[i] \in S
    BY <1>1
  <2>2. /\ SubSeq(s, 1, 1) \in Seq(S)
        /\ Len(SubSeq(s, 1, 1)) = IF 1 <= 1 THEN 1 - 1 + 1 ELSE 0
        /\ \A i \in 1..(1 - 1 + 1) : SubSeq(s, 1, 1)[i] = s[1 + i - 1]
    BY <2>1, SubSeqProperties
  <2> QED BY <2>2
<1>3. <<s[1]>> \in Seq(S) /\ Len(<<s[1]>>) = 1 /\ <<s[1]>>[1] = s[1]
  BY <1>1
<1>4. \A i \in 1..1 : SubSeq(s, 1, 1)[i] = <<s[1]>>[i]
  BY <1>2, <1>3
<1> QED BY <1>2, <1>3, <1>4, SeqEqual

LEMMA UndoingInit == Init => UndoingInv
<1> SUFFICES ASSUME Init PROVE SingleInv
  BY DEF UndoingInv
<1>1. /\ call = [c \in Coroutines |-> Idle] /\ jobs = <<>> /\ lastText = <<>>
      /\ editor = <<<<Own>>>> /\ typed = <<>>
  BY CallerTasks DEF Init, InsertionInit
<1>2. Alone /\ \A c \in Coroutines : CountOK(c)
  BY <1>1 DEF Alone, Active, CountOK, Idle, Over
<1>3. /\ Len(editor) = 1 /\ editor[1] = <<Own>> /\ Owned(<<Own>>)
  BY <1>1 DEF Owned
<1>4. \A k \in 1..Len(editor) : Owned(editor[k])
  BY <1>3
<1>5. Len(Document) \in Nat \ {0} /\ Len(<<>>) = 0
  BY <1>4, WordsInit, OwnedDocument
<1>6. Remembered
  BY <1>1, <1>5 DEF Remembered, TypedLast
<1> QED BY <1>1, <1>2, <1>4, <1>6 DEF SingleInv, PhaseOK, Doing

\* One call at a time and none that fails: an undo takes away the text typed last,
\* whole and alone, and never what the user had typed before it.
THEOREM ExactAlways == Spec => []UndoIsExact
<1>1. TypingInv /\ UndoingInv => UndoIsExact
  <2> SUFFICES ASSUME TypingInv, SingleInv
               PROVE  /\ IsPrefix(<<Own>>, Document)
                      /\ jobs # <<>> /\ jobs[1].do = "erasing" /\ typed # <<>> =>
                           {i \in DOMAIN Document : Document[i][1] = typed}
                             = (Len(Document) - Len(jobs[1].rest) + 1)..Len(Document)
    BY DEF UndoingInv, UndoIsExact
  <2>1. Base /\ Document \in Docs /\ Owned(Document)
    BY OwnedDocument DEF TypingInv, Base, SingleInv
  <2> PICK m \in Nat : m = Len(Document)
    BY <2>1 DEF Docs
  <2>2. DOMAIN Document = 1..m /\ m # 0
    BY <2>1, EmptySeq DEF Docs, Owned
  <2>3. IsPrefix(<<Own>>, Document)
    <3>1. Len(<<Own>>) = 1 /\ Document[1] = Own /\ Document \in Seq(Chars)
      BY <2>1 DEF Owned, Docs
    <3>2. SubSeq(Document, 1, 1) = <<Own>>
      BY <2>1, <3>1, FirstOnly DEF Owned
    <3>3. Own \in Chars
      BY DEF Own, Chars
    <3>4. SubSeq(<<Own>>, 1, 1) = <<Own>>
      <4>1. <<Own>> \in Seq(Chars) /\ <<Own>> # <<>> /\ <<Own>>[1] = Own
        BY <3>3
      <4> QED BY <4>1, FirstOnly
    <3> QED BY <2>2, <3>1, <3>2, <3>4 DEF IsPrefix
  <2>4. ASSUME jobs # <<>>, jobs[1].do = "erasing", typed # <<>>
        PROVE  {i \in DOMAIN Document : Document[i][1] = typed}
                 = (Len(Document) - Len(jobs[1].rest) + 1)..Len(Document)
    <3>1. jobs[1].rest \in Docs
      BY <2>1, <2>4, FirstJob
    <3> PICK r \in Nat : r = Len(jobs[1].rest)
      BY <3>1 DEF Docs
    <3>2. m >= 1 + r /\ \A i \in 1..m : Document[i][1] = typed <=> i > m - r
      BY <2>4 DEF SingleInv, PhaseOK, Doing, TypedLast, LastBy
    <3>3. ASSUME NEW i \in 1..m, Document[i][1] = typed PROVE i \in (m - r + 1)..m
      BY <3>2, <3>3
    <3>4. ASSUME NEW i \in (m - r + 1)..m PROVE i \in 1..m /\ Document[i][1] = typed
      BY <3>2
    <3>5. {i \in 1..m : Document[i][1] = typed} = (m - r + 1)..m
      BY <3>3, <3>4
    <3> QED BY <2>2, <3>5
  <2> QED BY <2>3, <2>4
<1>2. Init => TypingInv /\ UndoingInv
  BY WordsInit, StagesInit, TracesInit, UndoingInit DEF TypingInv
<1>3. TypingInv /\ UndoingInv /\ [Next]_vars => (TypingInv /\ UndoingInv)'
  BY TypingNext, UndoingNext
<1> QED BY <1>1, <1>2, <1>3, PTL DEF Spec

=============================================================================
