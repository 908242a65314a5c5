------------------------ MODULE DictationProperties ------------------------
(***************************************************************************)
(* What the dictation path promises.  Some of it is promised to any user,  *)
(* the rest to a patient one (Hasty = FALSE), who starts a dictation once  *)
(* the previous one has run its course: each run says which.               *)
(***************************************************************************)
EXTENDS Dictation

Insertions == 1..Len(out)

\* The blocks of recording r from the n-th on.
From(r, n) == [i \in 1..(spoken[r] + 1 - n) |-> <<r, n + i - 1>>]

-----------------------------------------------------------------------------
\* Safety.

\* Whenever the machine is in "error" the timer that takes it out of there is
\* running: no cancellation, later error or second pipeline loses it
\* (_schedule_error_timeout, and every transition into "error").
ErrorTimerArmed == sm = "error" => timer \in {"armed", "due"}

\* A pipeline inserts at most once: no retry, fallback to the clipboard or
\* cancellation in the middle of an insertion types its text again.
InsertedOnce ==
  \A i, j \in Insertions : out[i].pipe = out[j].pipe => i = j

\* Once every task is done and no error is on display the machine is back in
\* idle, however the pipelines' transitions interleaved.
RestsIdle == Settled /\ timer = "off" => sm = "idle"

\* In batch mode the text of a pipeline that reported no error is the whole of
\* the recording it was started for, and nothing else: no block of an earlier
\* or later recording, none lost between the capture thread and the loop.
InsertedWhole ==
  \A i \in Insertions :
    out[i].pipe \notin failed => out[i].text = From(origin[out[i].pipe], 1)

\* In streaming mode the text may lack the blocks heard before the chunker
\* started, but no later one: what is inserted is a tail of the recording, in
\* order, without gap or repetition.
InsertedTail ==
  \A i \in Insertions :
    LET r == origin[out[i].pipe]
    IN  \E n \in 1..spoken[r] : out[i].text = From(r, n)

\* A pipeline that was running, and had not begun to insert, when the cancel
\* hotkey reached the orchestrator inserts nothing.
CancelledNotInserted == \A i \in Insertions : out[i].pipe \notin cut

\* The same of any dictation already stopped then, running or not.
RevokedNotInserted == \A i \in Insertions : out[i].pipe \notin revoked

\* A pipeline that reported an error it cannot recover from inserts nothing.
FailedNotInserted == \A i \in Insertions : out[i].pipe \notin failed

-----------------------------------------------------------------------------
\* Refinement: what has become of each recording.

Pending(p) ==
  /\ p \notin failed
  /\ pc[p] \notin {"cancelled", "killed", "ended", "gone"}

PhaseOf(r) ==
  IF r > nrec THEN "unused"
  ELSE IF \E i \in Insertions : origin[out[i].pipe] = r THEN "inserted"
  ELSE IF r = nrec /\ recording THEN "recording"
  ELSE IF \E p \in Pipes : origin[p] = r /\ Pending(p) THEN "pending"
  ELSE IF r = nrec /\ stopper["hotkey"] = "flipped" THEN "pending"
  ELSE "over"

Service ==
  INSTANCE DictationService
    WITH phase    <- [r \in Recs |-> PhaseOf(r)],
         inserted <- [i \in Insertions |-> origin[out[i].pipe]]

\* Dictation implements the service (a patient user, a recording stopped by the
\* hotkey only, an ASR provider that answers).
ServiceSpec == Service!Spec

-----------------------------------------------------------------------------
\* Liveness, under FairSpec.

\* A pipeline, once created, finishes and its handler returns.
PipelinesFinish == \A p \in Pipes : pc[p] # "none" ~> pc[p] = "gone"

\* A pipeline waiting for the streamed transcript stops waiting.
StreamWaitEnds == \A p \in Pipes : pc[p] = "stream" ~> pc[p] # "stream"

\* What was said in a recording that was stopped and never cancelled is inserted,
\* or an error is reported.
Delivered ==
  \A p \in Pipes :
    origin[p] # 0 /\ origin[p] \in kept /\ spoken[origin[p]] > 0
      ~> \/ origin[p] \notin kept
         \/ p \in failed
         \/ \E i \in Insertions : out[i].pipe = p

=============================================================================
