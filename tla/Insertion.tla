----------------------------- MODULE Insertion -----------------------------
(***************************************************************************)
(* insertion/: the keyboard and clipboard strategies, and the executor     *)
(* that runs their keystrokes one job at a time.  A job types and erases a *)
(* character per step; the application in front keeps a document and the   *)
(* documents Ctrl+Z takes it back to.  A character is <<caller, position>>.*)
(***************************************************************************)
EXTENDS Integers, FiniteSets, Sequences, SequencesExt

CONSTANTS Callers,    \* the tasks that insert or undo
          OnWindows   \* is_windows(): a window can be brought to the front

ASSUME InsertionAssumption == OnWindows \in BOOLEAN

VARIABLES
  call,        \* the call of the strategy each task awaits
  jobs,        \* the queue of the input executor
  lastText,    \* _last_text of the keyboard strategy; <<>> = None
  handle,      \* _last_hwnd is not None
  clipboard,
  editor,      \* the documents, the current one last
  faults,      \* calls of pyautogui or pyperclip that have raised
  typed,       \* history: who typed the last edit; <<>> for any other edit
  overlapped   \* history: two calls have been in progress at once

insertionVars ==
  <<call, jobs, lastText, handle, clipboard, editor, faults, typed, overlapped>>

Own      == <<<<"user", 1>>, 1>>   \* what the user has typed himself
Document == Last(editor)

Letters(c, n) == [i \in 1..n |-> <<c, i>>]

Idle     == [at |-> "none", text |-> <<>>, count |-> 0]
Over     == {"none", "ok", "failed"}
Waiting  == {"typing", "copying", "settling", "pasting", "focusing", "pausing", "erasing",
             "reverting", "erased"}
Jobs     == {"typing", "copying", "pasting", "focusing", "erasing", "reverting"}

InsertionTypeOK ==
  /\ \A c \in Callers : /\ call[c].at \in Over \union Waiting
                        /\ call[c].count \in Nat
  /\ \A i \in DOMAIN jobs : /\ jobs[i].by \in Callers /\ jobs[i].do \in Jobs
                            /\ call[jobs[i].by].at = jobs[i].do
  /\ \A c \in Callers : call[c].at \in Jobs => \E i \in DOMAIN jobs : jobs[i].by = c
  /\ handle \in BOOLEAN /\ faults \in Nat /\ overlapped \in BOOLEAN
  /\ editor # <<>>

InsertionInit ==
  /\ call = [c \in Callers |-> Idle] /\ jobs = <<>>
  /\ lastText = <<>> /\ handle = FALSE
  /\ clipboard = <<>> /\ editor = <<<<Own>>>>
  /\ faults = 0 /\ typed = <<>> /\ overlapped = FALSE

-----------------------------------------------------------------------------
\* What the coroutines of the strategies do before their first await.

Submitted(c, do, rest) ==
  jobs' = Append(jobs, [by |-> c, do |-> do, rest |-> rest, begun |-> FALSE])

Calls(c, at, text, count) ==
  /\ call' = [call EXCEPT ![c] = [at |-> at, text |-> text, count |-> count]]
  /\ overlapped' = (overlapped \/ \E d \in Callers \ {c} : call[d].at \notin Over)

\* ClipboardInsertionStrategy.insert()
Paste(c, text) ==
  /\ Calls(c, "copying", text, 0) /\ Submitted(c, "copying", <<>>)
  /\ UNCHANGED <<lastText, clipboard, editor, faults, typed>>

\* KeyboardInsertionStrategy.insert(): what is not ASCII, or has several lines, is
\* pasted, and _last_text stays what it was.
Insert(c, text, ascii) ==
  \/ /\ text = <<>> /\ Calls(c, "ok", text, 0)
     /\ UNCHANGED <<jobs, lastText, handle, clipboard, editor, faults, typed>>
  \/ /\ text # <<>> /\ handle' = OnWindows
     /\ IF ascii
        THEN /\ lastText' = text
             /\ Calls(c, "typing", text, 0) /\ Submitted(c, "typing", text)
             /\ UNCHANGED <<clipboard, editor, faults, typed>>
        ELSE Paste(c, text)

\* The keys of undo_last(): backspaces, or Ctrl+Z when the length is not known.
Removal(n) == IF n > 0 THEN "erasing" ELSE "reverting"

\* KeyboardInsertionStrategy.undo_last() reads the length of the text before the
\* window has been brought to the front.
UndoLast(c) ==
  LET n  == Len(lastText)
      at == IF handle THEN "focusing" ELSE Removal(n)
  IN  /\ Calls(c, at, <<>>, n)
      /\ Submitted(c, at, IF handle THEN <<>> ELSE lastText)
      /\ UNCHANGED <<lastText, handle, clipboard, editor, faults, typed>>

-----------------------------------------------------------------------------
\* The sleeps: the clipboard settles, the window comes to the front.
Wakes(c) ==
  LET n    == call[c].count
      then == IF call[c].at = "settling" THEN "pasting" ELSE Removal(n)
  IN  /\ call[c].at \in {"settling", "pausing"}
      /\ call' = [call EXCEPT ![c].at = then]
      /\ Submitted(c, then, Letters(c, n))
      /\ UNCHANGED <<lastText, handle, clipboard, editor, faults, typed, overlapped>>

\* Mutant: the length is kept after the backspaces.
ForgetsNothing(c) ==
  /\ call[c].at = "erased"
  /\ call' = [call EXCEPT ![c].at = "ok"]
  /\ UNCHANGED <<jobs, lastText, handle, clipboard, editor, faults, typed, overlapped>>

\* The coroutine goes on after the backspaces, and forgets the text.
Forgets(c) ==
  /\ call[c].at = "erased"
  /\ call' = [call EXCEPT ![c].at = "ok"] /\ lastText' = <<>>
  /\ UNCHANGED <<jobs, handle, clipboard, editor, faults, typed, overlapped>>

-----------------------------------------------------------------------------
\* The executor.

\* Mutant: two workers.
RunsOnTwoWorkers(i) == i \in 1..2

\* The job a worker is at: max_workers = 1.
Runs(i) == i = 1

Becomes(c, at) == call' = [call EXCEPT ![c].at = at]

Ends(i) == jobs' = RemoveAt(jobs, i)

\* An edit leaves a document to go back to, when it begins.
Edits(i, doc) == editor' = (IF jobs[i].begun THEN Front(editor) ELSE editor) \o <<doc>>

KeyBy(i, do, doc, at) ==
  /\ jobs[i].do = do
  /\ Edits(i, doc)
  /\ IF Len(jobs[i].rest) = 1
     THEN Ends(i) /\ Becomes(jobs[i].by, at)
     ELSE /\ jobs' = [jobs EXCEPT ![i].rest = Tail(@), ![i].begun = TRUE]
          /\ UNCHANGED call

\* typewrite()
TypeKey(i) ==
  /\ KeyBy(i, "typing", Append(Document, Head(jobs[i].rest)), "ok")
  /\ typed' = IF Len(jobs[i].rest) = 1 THEN jobs[i].by ELSE <<>>

\* press("backspace")
EraseKey(i) ==
  /\ KeyBy(i, "erasing", IF Document = <<>> THEN <<>> ELSE Front(Document), "erased")
  /\ typed' = IF Len(jobs[i].rest) = 1 THEN <<>> ELSE typed

PasteKey(i) ==
  /\ jobs[i].do = "pasting"
  /\ Edits(i, Document \o clipboard) /\ typed' = <<>>
  /\ Ends(i) /\ Becomes(jobs[i].by, "ok")

RevertKey(i) ==
  /\ jobs[i].do = "reverting"
  /\ editor' = (IF Len(editor) > 1 THEN Front(editor) ELSE editor) /\ typed' = <<>>
  /\ Ends(i) /\ Becomes(jobs[i].by, "ok")

\* pyperclip.copy(), focus_window()
Quiet(i) ==
  /\ \/ /\ jobs[i].do = "copying" /\ clipboard' = call[jobs[i].by].text
        /\ Becomes(jobs[i].by, "settling")
     \/ /\ jobs[i].do = "focusing" /\ Becomes(jobs[i].by, "pausing")
        /\ UNCHANGED clipboard
  /\ Ends(i) /\ UNCHANGED <<editor, typed>>

\* A call of the executor raises, having done part of its work.
Raises(i) ==
  /\ jobs[i].do # "focusing"
  /\ Ends(i) /\ Becomes(jobs[i].by, "failed")
  /\ faults' = faults + 1 /\ typed' = <<>>
  /\ UNCHANGED <<clipboard, editor>>

Executes(i) ==
  /\ i \in DOMAIN jobs /\ Runs(i)
  /\ \/ /\ TypeKey(i) \/ EraseKey(i) \/ PasteKey(i) \/ RevertKey(i)
        /\ UNCHANGED <<clipboard, faults>>
     \/ Quiet(i) /\ UNCHANGED faults
     \/ Raises(i)
  /\ UNCHANGED <<lastText, handle, overlapped>>
=============================================================================
