-------------------------- MODULE AppStateMachine --------------------------
(***************************************************************************)
(* The application state machine of core/state_machine.py: the declarative *)
(* transition table and the first-match evaluation of one event.           *)
(*                                                                         *)
(* A rule of the code is guarded by a named condition over the keyword     *)
(* arguments of transition().  Here an event is named for the call that    *)
(* raises it, and carries the conditions those arguments satisfy.          *)
(***************************************************************************)

AppStates ==
  {"idle", "recording", "transcribing", "cleaning", "inserting", "error"}

\* What a caller passes to transition(), one name per (event_type, keyword
\* arguments) the table distinguishes.
AppEvents ==
  {"toggle", "push_to_talk", "insert_last", "silence", "duration", "cancel",
   "transcript", "asr_failed", "cleaned", "cleanup_failed", "inserted",
   "clipboard", "insert_failed", "timeout", "open_settings"}

\* The rows of _TRANSITIONS that name a target state.  No (state, event) pair
\* occurs twice, so the order of the list does not matter.
Rules ==
  { <<"idle", "toggle", "recording">>,
    <<"idle", "push_to_talk", "recording">>,
    <<"idle", "insert_last", "inserting">>,
    <<"recording", "toggle", "transcribing">>,
    <<"recording", "push_to_talk", "transcribing">>,
    <<"recording", "silence", "transcribing">>,
    <<"recording", "duration", "transcribing">>,
    <<"recording", "cancel", "idle">>,
    <<"transcribing", "transcript", "cleaning">>,
    <<"transcribing", "asr_failed", "error">>,
    <<"transcribing", "cancel", "idle">>,
    <<"cleaning", "cleaned", "inserting">>,
    <<"cleaning", "cleanup_failed", "inserting">>,
    <<"cleaning", "cancel", "idle">>,
    <<"inserting", "inserted", "idle">>,
    <<"inserting", "clipboard", "idle">>,
    <<"inserting", "insert_failed", "error">>,
    <<"error", "timeout", "idle">>,
    <<"error", "cancel", "idle">> }

\* Does a rule match?  (transition() reports transitioned = True.)
Matches(s, e) == \E r \in Rules : r[1] = s /\ r[2] = e

\* The state after the event: the target of the matching rule, or the state
\* unchanged when none matches.
Fire(s, e) ==
  IF Matches(s, e) THEN (CHOOSE r \in Rules : r[1] = s /\ r[2] = e)[3] ELSE s

=============================================================================
