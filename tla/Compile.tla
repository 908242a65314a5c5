------------------------------- MODULE Compile -------------------------------
(***************************************************************************)
(* From the end of a session to its artifacts: _run_compile() loads the    *)
(* timeline, a compiler makes a document of it (one of them by asking a    *)
(* language model about all blocks at once), the coordinator exports it,   *)
(* and the news is published.  Sessions are compiled side by side in the   *)
(* event loop, in which keyframes of an ended session may still be read;   *)
(* the program may quit or be killed at any moment.                        *)
(***************************************************************************)
EXTENDS SessionBlocks, FiniteSets

CONSTANTS
  Sessions,
  Formats,   \* observer.compile.formats, in order
  Setups     \* the compiler, a timeline for each session and, a bound, the failures
             \* of the model, of the OCR engine, of the disk and of the process

Providers == {"rules", "none", "openai_compatible"}

ASSUME CompileAssumption ==
  /\ Formats \in {<<"markdown">>, <<"json">>, <<"markdown", "json">>, <<"json", "markdown">>}
  /\ Sessions \subseteq Nat \ {0}
  /\ \A x \in Setups :
       x.provider \in Providers /\ x.faults \in Nat /\ x.rows \in [Sessions -> Seq(Events)]

VARIABLES
  provider,  \* observer.compile.provider
  phase,     \* of the process
  rows,      \* the timeline of each session
  status,    \* of its row
  task,      \* _run_compile() of each session
  files,     \* its artifacts
  reports,   \* ObserverCompiledEvents published
  faults     \* how many there may still be

vars == <<provider, phase, rows, status, task, files, reports, faults>>

\* at: "none", "scheduled", "blocks" (the model is asked about each), "session" (it
\* is asked for the whole), "compiled", "over".
NoDoc   == [provider |-> "none", degraded |-> FALSE, summary |-> NoText, sections |-> <<>>, blocks |-> <<>>]
NoTask  == [at |-> "none", bundle |-> <<>>, answers |-> <<>>, doc |-> NoDoc]
NoFile  == [of |-> 0, doc |-> NoDoc]
Pending == [ok |-> "pending", body |-> NoText, summary |-> NoText]
Fell    == [Pending EXCEPT !.ok = "failed"]

Init ==
  /\ \E x \in Setups : provider = x.provider /\ rows = x.rows /\ faults = x.faults
  /\ phase = "up"
  /\ status = [s \in Sessions |-> "open"]
  /\ task = [s \in Sessions |-> NoTask]
  /\ files = [s \in Sessions |-> [f \in ToSet(Formats) |-> NoFile]]
  /\ reports = {}

Fault == faults > 0 /\ faults' = faults - 1
Runs  == phase \in {"up", "quitting"}

-----------------------------------------------------------------------------
\* The timeline.

\* _run_ocr() of a keyframe: its text, or the mark of a failure.
Extracted(s, i) ==
  /\ Runs /\ rows[s][i].ocr = "pending"
  /\ \/ rows' = [rows EXCEPT ![s][i].ocr = "ok"] /\ UNCHANGED faults
     \/ rows' = [rows EXCEPT ![s][i].ocr = "failed", ![s][i].text = <<>>] /\ Fault
  /\ UNCHANGED <<provider, phase, status, task, files, reports>>

Unread(e) == [e EXCEPT !.text = <<>>, !.ocr = "none"]

\* load_bundle(): the text of a keyframe that is not read yet is not there.
LoadBundle(s) ==
  [i \in 1..Len(rows[s]) |->
     IF rows[s][i].ocr = "pending" THEN Unread(rows[s][i]) ELSE rows[s][i]]

\* stop_session() of the session that runs, or "Compile it" for one that a crash has
\* left open (no session is started while its user keeps an older one open).
Close(s) ==
  /\ phase = "up" /\ status[s] = "open"
  /\ \A r \in Sessions : r < s => status[r] # "open"
  /\ status' = [status EXCEPT ![s] = "closed"]
  /\ task' = [task EXCEPT ![s].at = "scheduled"]
  /\ UNCHANGED <<provider, phase, rows, files, reports, faults>>

-----------------------------------------------------------------------------
\* The compilers.

\* RulesCompiler.compile(); the summary is a line of statistics.
RulesDoc(events) ==
  LET blocks == SplitBlocks(events)
  IN  [provider |-> "rules", degraded |-> FALSE, summary |-> NoText,
       sections |-> [i \in 1..Len(blocks) |-> Section(blocks[i])],
       blocks   |-> [i \in 1..Len(blocks) |-> Record(blocks[i])]]

\* NoneCompiler.compile()
DumpDoc(events) ==
  [provider |-> "none", degraded |-> FALSE, summary |-> NoText, sections |-> <<>>,
   blocks |-> IF events = <<>> THEN <<>> ELSE <<Dump(events)>>]

Begins(s) ==
  /\ Runs /\ task[s].at = "scheduled"
  /\ LET events == LoadBundle(s)
         blocks == SplitBlocks(events)
     IN  task' = [task EXCEPT ![s] =
           IF provider = "openai_compatible" /\ events # <<>>
           THEN [NoTask EXCEPT !.at = "blocks", !.bundle = events,
                               !.answers = [i \in 1..Len(blocks) |-> Pending]]
           ELSE [NoTask EXCEPT !.at = "compiled", !.bundle = events,
                               !.doc = IF provider = "none" THEN DumpDoc(events) ELSE RulesDoc(events)]]
  /\ UNCHANGED <<provider, phase, rows, status, files, reports, faults>>

\* Mutant: the results are collected as they come.
AnswersAppended(s, i) ==
  /\ Runs /\ phase = "up" /\ task[s].at = "blocks" /\ task[s].answers[i] = Pending
  /\ LET text  == Serialised(SplitBlocks(task[s].bundle)[i])
         first == CHOOSE j \in DOMAIN task[s].answers :
                    /\ task[s].answers[j] = Pending
                    /\ \A k \in 1..(j - 1) : task[s].answers[k] # Pending
     IN  task' = [task EXCEPT ![s].answers[first] = [ok |-> "answered", body |-> text, summary |-> text]]
  /\ UNCHANGED <<provider, phase, rows, status, files, reports, faults>>

\* _parse_block_response(): a paragraph and a summary, of which either may be missing.
Parsed(text) == [ok : {"answered"}, body : {NoText, text}, summary : {NoText, text}]

\* _compile_one_block(): the model answers or there is an error, as always once the
\* client is closed.
Answers(s, i) ==
  /\ Runs /\ task[s].at = "blocks" /\ task[s].answers[i] = Pending
  /\ LET text == Serialised(SplitBlocks(task[s].bundle)[i])
         put(a) == task' = [task EXCEPT ![s].answers[i] = a]
     IN  \/ /\ phase = "up"
            /\ \E a \in Parsed(text) :
                 /\ put(a)
                 /\ IF NoText \in {a.body, a.summary} THEN Fault ELSE UNCHANGED faults
         \/ phase = "up" /\ put(Fell) /\ Fault
         \/ phase = "quitting" /\ put(Fell) /\ UNCHANGED faults
  /\ UNCHANGED <<provider, phase, rows, status, files, reports>>

\* The document of the answers and of the summary of the whole.
LlmDoc(events, answers, summary) ==
  LET rules == RulesDoc(events)
  IN  [provider |-> "openai_compatible",
       degraded |-> summary = NoText \/ \E i \in DOMAIN answers : answers[i].summary = NoText,
       summary  |-> summary,
       sections |-> [i \in DOMAIN answers |->
                       [rules.sections[i] EXCEPT !.narrative = answers[i].body]],
       blocks   |-> [i \in DOMAIN answers |->
                       [rules.blocks[i] EXCEPT !.summary = answers[i].summary]]]

\* gather() has all the answers: the model is asked for a summary of their summaries,
\* if there are any.
Gathered(s) ==
  /\ Runs /\ task[s].at = "blocks"
  /\ LET answers == task[s].answers
     IN  /\ \A i \in DOMAIN answers : answers[i] # Pending
         /\ task' = [task EXCEPT ![s] =
              IF \E i \in DOMAIN answers : answers[i].summary # NoText
              THEN [task[s] EXCEPT !.at = "session"]
              ELSE [task[s] EXCEPT !.at = "compiled",
                                   !.doc = LlmDoc(task[s].bundle, answers, NoText)]]
  /\ UNCHANGED <<provider, phase, rows, status, files, reports, faults>>

Summarised(s) ==
  /\ Runs /\ task[s].at = "session"
  /\ \E m \in {NoText, [about |-> <<"session">>]} :
       /\ \/ phase = "up" /\ m # NoText /\ UNCHANGED faults
          \/ phase = "up" /\ m = NoText /\ Fault
          \/ phase = "quitting" /\ m = NoText /\ UNCHANGED faults
       /\ task' = [task EXCEPT ![s].at = "compiled",
                     ![s].doc = LlmDoc(task[s].bundle, task[s].answers, m)]
  /\ UNCHANGED <<provider, phase, rows, status, files, reports>>

-----------------------------------------------------------------------------
\* The exporters, given the bundle of their session.
Artifact(s, f) ==
  [of  |-> s,
   doc |-> IF f = "markdown" THEN task[s].doc
           ELSE [task[s].doc EXCEPT !.sections = <<>>,
                                    !.blocks = JsonBlocks(task[s].bundle, task[s].doc.blocks)]]

\* Mutant: they are written where the latest session of the store has its artifacts.
WrittenLatest(s, fs) ==
  LET latest == CHOOSE r \in Sessions : status[r] # "open" /\ \A q \in Sessions : status[q] # "open" => q <= r
  IN  [files EXCEPT ![latest] =
         [f \in ToSet(Formats) |-> IF f \in fs THEN Artifact(s, f) ELSE files[latest][f]]]

\* ExporterCoordinator.export(): the file of each format is replaced by one that is
\* complete, or not at all.
Written(s, fs) ==
  [files EXCEPT ![s] =
     [f \in ToSet(Formats) |-> IF f \in fs THEN Artifact(s, f) ELSE files[s][f]]]

\* The rest of _run_compile(): a format that fails is left out, and a session of which
\* nothing could be written is not compiled.
Exports(s) ==
  /\ Runs /\ task[s].at = "compiled"
  /\ \E fs \in SUBSET ToSet(Formats) :
       /\ IF fs = ToSet(Formats) THEN UNCHANGED faults ELSE Fault
       /\ files' = Written(s, fs)
       /\ status' = [status EXCEPT ![s] = IF fs = {} THEN @ ELSE "compiled"]
       /\ reports' = reports \union {[s |-> s, paths |-> fs, degraded |-> task[s].doc.degraded]}
  /\ task' = [task EXCEPT ![s] = [NoTask EXCEPT !.at = "over"]]
  /\ UNCHANGED <<provider, phase, rows>>

-----------------------------------------------------------------------------
\* The process.

Ended ==
  /\ phase' = "off"
  /\ task' = [s \in Sessions |-> NoTask]
  /\ rows' = [s \in Sessions |-> LoadBundle(s)]

\* shutdown() closes the client of the model; later the loop is stopped, whatever it
\* is at.
Quit == phase = "up" /\ phase' = "quitting" /\ UNCHANGED <<provider, rows, status, task, files, reports, faults>>
Stop == phase = "quitting" /\ Ended /\ UNCHANGED <<provider, status, files, reports, faults>>

Crash ==
  /\ Runs /\ Fault /\ Ended
  /\ UNCHANGED <<provider, status, files, reports>>

\* The process is killed while it writes the artifacts: some are there, and nothing
\* was told.
CrashWriting(s) ==
  /\ Runs /\ task[s].at = "compiled" /\ Fault /\ Ended
  /\ \E n \in 1..Len(Formats) : files' = Written(s, ToSet(SubSeq(Formats, 1, n)))
  /\ UNCHANGED <<provider, status, reports>>

Launch == phase = "off" /\ phase' = "up" /\ UNCHANGED <<provider, rows, status, task, files, reports, faults>>

Next ==
  \/ \E s \in Sessions :
       \/ Close(s) \/ Begins(s) \/ Gathered(s) \/ Summarised(s) \/ Exports(s) \/ CrashWriting(s)
       \/ \E i \in DOMAIN rows[s] : Extracted(s, i)
       \/ \E i \in DOMAIN task[s].answers : Answers(s, i)
  \/ Quit \/ Stop \/ Crash \/ Launch

Spec == Init /\ [][Next]_vars

-----------------------------------------------------------------------------
\* Properties.

TypeOK ==
  /\ provider \in Providers /\ phase \in {"up", "quitting", "off"} /\ faults \in Nat
  /\ rows \in [Sessions -> Seq(Events)]
  /\ status \in [Sessions -> {"open", "closed", "compiled"}]
  /\ DOMAIN task = Sessions
  /\ \A s \in Sessions :
       /\ DOMAIN task[s] = {"at", "bundle", "answers", "doc"}
       /\ task[s].at \in {"none", "scheduled", "blocks", "session", "compiled", "over"}
       /\ task[s].bundle \in Seq(Events)
  /\ DOMAIN files = Sessions
  /\ \A s \in Sessions :
       DOMAIN files[s] = ToSet(Formats) /\ \A f \in ToSet(Formats) : files[s][f].of \in {0} \union Sessions
  /\ \A x \in reports : x.s \in Sessions /\ x.paths \subseteq ToSet(Formats)

\* Whatever order the model answers in, and whichever answers fail: what a document
\* says of a block is what the model was told about that block, of that session.
SummariesOfTheirBlocks ==
  \A s \in Sessions, f \in ToSet(Formats) :
    LET doc == files[s][f].doc
    IN  /\ \A i \in DOMAIN doc.blocks :
             doc.blocks[i].summary # NoText =>
               Head(doc.blocks[i].summary.about).ts = doc.blocks[i].window.from
        /\ \A i \in DOMAIN doc.sections :
             doc.sections[i].narrative # NoText =>
               Head(doc.sections[i].narrative.about).ts = doc.sections[i].window.from

\* What was reported stands: each artifact is of the session that it was reported
\* for, a session is compiled only if it has one, and "the user is never shown a
\* partially-compiled document as if it were complete": where the news is not
\* degraded, each block and the whole have their summaries.
ReportedStands ==
  /\ \A s \in Sessions : \A f \in ToSet(Formats) : files[s][f].of \in {0, s}
  /\ \A s \in Sessions : status[s] = "compiled" => \E f \in ToSet(Formats) : files[s][f].of = s
  /\ \A x \in reports : \A f \in x.paths :
       LET doc == files[x.s][f].doc
       IN  /\ files[x.s][f].of = x.s
           /\ provider = "openai_compatible" /\ rows[x.s] # <<>> /\ ~x.degraded =>
                doc.summary # NoText /\ \A i \in DOMAIN doc.blocks : doc.blocks[i].summary # NoText

\* The sidecar has all of the timeline, in its order and once, and the document has
\* the same blocks with the same words.
TimelineKept ==
  \A s \in Sessions : "json" \in ToSet(Formats) /\ files[s]["json"].of = s =>
    LET blocks == files[s]["json"].doc.blocks
        all(field) == FlattenSeq([i \in DOMAIN blocks |-> blocks[i][field]])
        times(seq) == [i \in DOMAIN seq |-> seq[i].ts]
    IN  /\ all("utterances") = Of(rows[s], Said)
        /\ all("selections") = Of(rows[s], {"selection"})
        /\ all("gaps") = Of(rows[s], {"pause_start", "pause_end", "gap"})
        /\ times(all("keyframes")) = times(Of(rows[s], {"keyframe"}))
        /\ "markdown" \in ToSet(Formats) /\ files[s]["markdown"].of = s /\ provider # "none" =>
             LET sections == files[s]["markdown"].doc.sections
             IN  /\ DOMAIN sections = DOMAIN blocks
                 /\ \A i \in DOMAIN blocks :
                      /\ sections[i].window = blocks[i].window
                      /\ sections[i].said = SelectSeq(blocks[i].utterances, LAMBDA e : e.text # <<>>)
=============================================================================
