---------------------------- MODULE TriggerGate ----------------------------
(***************************************************************************)
(* observer/triggers.py: the gate that every keyframe request passes, and  *)
(* the sources of requests.  One allowance is the product of tokens and    *)
(* the time that one token takes to come back, so that it counts in ticks: *)
(* Window ticks (a minute) restore all of it, and a capture takes Cost,    *)
(* which is Window over max_keyframes_per_min.                             *)
(***************************************************************************)
EXTENDS Integers, Sequences

CONSTANTS Window,    \* the 60 seconds of the rate
          Cost,      \* Window \div max_keyframes_per_min
          Interval,  \* min_interval_ms
          Settle     \* scroll_settle_ms

ASSUME GateAssumption ==
  /\ Window \in Nat /\ Cost \in Nat /\ Cost <= Window
  /\ Interval \in Nat /\ Settle \in Nat

VARIABLES
  enabled,   \* observer.triggers: the sources in use
  tokens,    \* _tokens, as an allowance
  refilled,  \* _last_refill_t
  accepted,  \* history: when requests were accepted; the last is _last_accepted_t
  scrolled,  \* _last_scroll_monotonic, 0 = none
  lastApp,   \* _last_app
  polling,   \* _poll_stop is not set
  caller     \* what each requesting thread is at

gateVars    == <<tokens, refilled, accepted>>
triggerVars == <<enabled, scrolled, lastApp, polling>>

Callers == {"poll", "mouse", "ambient"}
Sources == {"window_change", "scroll_settle", "click_selection", "speech_onset"}
Reasons == {"window_change", "scroll_settle", "click", "selection", "speech_onset"}

\* at: "none" the thread does not run, "idle" it has nothing to do,
\*   "looking", "settling", "resetting" the poll thread's iteration,
\*   "asking" in request(), "noting" about to record the row of an exclusion,
\*   "limiting" past the privacy tests, "submitting" accepted;
\* moves: the foreground changes there had been when the exclusion was tested.
CallerStates ==
  {"none", "idle", "looking", "settling", "resetting", "asking", "noting",
   "limiting", "submitting"}

Asks(t, why) == caller' = [caller EXCEPT ![t] = [@ EXCEPT !.at = "asking", !.why = why]]
Is(t, at)    == caller[t].at = at
Moves(t, at) == caller' = [caller EXCEPT ![t].at = at]

\* Where a thread goes on when request() returns.
After(t) ==
  IF t # "poll" THEN "idle"
  ELSE IF caller[t].why = "window_change" THEN "settling" ELSE "resetting"

GateTypeOK ==
  /\ enabled \subseteq Sources
  /\ tokens \in Nat
  /\ refilled \in Nat
  /\ accepted \in Seq(Nat)
  /\ scrolled \in Nat
  /\ polling \in BOOLEAN
  /\ caller \in [Callers -> [at : CallerStates, why : Reasons, moves : Nat,
                             pause : BOOLEAN]]

GateInit ==
  /\ tokens = Window /\ refilled = 0 /\ accepted = <<>>
  /\ scrolled = 0 /\ lastApp = "none" /\ polling = FALSE
  /\ caller = [t \in Callers |->
       [at |-> "none", why |-> "click", moves |-> 0, pause |-> FALSE]]

-----------------------------------------------------------------------------
\* request(), below its privacy tests: under the lock, the allowance is topped up
\* and the request weighed.

Least2(a, b) == IF a < b THEN a ELSE b

\* Mutant: what is saved up has no limit.
ToppedWithoutLimit(now) == tokens + (now - refilled)

Topped(now) == Least2(Window, tokens + (now - refilled))

TooSoon(now) ==
  accepted # <<>> /\ now - accepted[Len(accepted)] < Interval

Weigh(t, now) ==
  /\ Is(t, "limiting")
  /\ refilled' = now
  /\ IF TooSoon(now) \/ Topped(now) < Cost
       THEN /\ tokens' = Topped(now) /\ Moves(t, After(t))
            /\ UNCHANGED accepted
       ELSE /\ tokens' = Topped(now) - Cost /\ Moves(t, "submitting")
            /\ accepted' = Append(accepted, now)
  /\ UNCHANGED triggerVars

-----------------------------------------------------------------------------
\* The sources.

StartPolling ==
  /\ polling' = TRUE
  /\ caller' =
       [caller EXCEPT !["poll"].at = "looking", !["ambient"].at = "idle",
                      !["mouse"].at = IF enabled \intersect {"scroll_settle", "click_selection"} = {}
                                        THEN @ ELSE "idle"]
  /\ UNCHANGED <<enabled, scrolled, lastApp, gateVars>>

\* stop(), its first statement.
StopPolling ==
  polling' = FALSE /\ UNCHANGED <<enabled, scrolled, lastApp, caller, gateVars>>

\* The poll thread has been joined; the mouse listener is told to stop, and is
\* not waited for.
StopMouse ==
  /\ Is("poll", "none")
  /\ IF Is("mouse", "idle") THEN Moves("mouse", "none") ELSE UNCHANGED caller
  /\ UNCHANGED <<triggerVars, gateVars>>

\* The listener ends with the handler it was in.
MouseEnds ==
  /\ ~polling /\ Is("mouse", "idle") /\ Is("poll", "none")
  /\ Moves("mouse", "none")
  /\ UNCHANGED <<triggerVars, gateVars>>

Scroll(now) ==
  /\ Is("mouse", "idle") /\ "scroll_settle" \in enabled
  /\ scrolled' = now
  /\ UNCHANGED <<enabled, lastApp, polling, caller, gateVars>>

\* The button is released, near to where it was pressed or not.
Click ==
  /\ Is("mouse", "idle") /\ "click_selection" \in enabled
  /\ \E why \in {"click", "selection"} : Asks("mouse", why)
  /\ UNCHANGED <<triggerVars, gateVars>>

\* on_speech_onset(), on the listener's worker.
SpeechOnset ==
  /\ IF "speech_onset" \in enabled THEN Asks("ambient", "speech_onset") ELSE UNCHANGED caller
  /\ UNCHANGED <<triggerVars, gateVars>>

\* _poll_once(): another window is in the foreground.
SeesFocus(app) ==
  /\ Is("poll", "looking")
  /\ IF app # lastApp /\ "window_change" \in enabled
       THEN lastApp' = app /\ Asks("poll", "window_change")
       ELSE UNCHANGED lastApp /\ Moves("poll", "settling")
  /\ UNCHANGED <<enabled, scrolled, polling, gateVars>>

\* _poll_once(): the scrolling has come to rest.
SeesScroll(now) ==
  /\ Is("poll", "settling")
  /\ IF scrolled # 0 /\ now - scrolled >= Settle
       THEN Asks("poll", "scroll_settle") ELSE Moves("poll", "idle")
  /\ UNCHANGED <<triggerVars, gateVars>>

ForgetsScroll ==
  /\ Is("poll", "resetting")
  /\ scrolled' = 0
  /\ Moves("poll", "idle")
  /\ UNCHANGED <<enabled, lastApp, polling, gateVars>>

PollAgain ==
  /\ Is("poll", "idle")
  /\ Moves("poll", IF polling THEN "looking" ELSE "none")
  /\ UNCHANGED <<triggerVars, gateVars>>

-----------------------------------------------------------------------------
\* However many threads ask, and at whatever times: any run of accepted requests
\* is paid for by a full allowance and the time that has passed between them, and
\* two of them are never closer than the interval.
Paced ==
  /\ \A i, j \in DOMAIN accepted : i <= j =>
       (j - i + 1) * Cost <= Window + (accepted[j] - accepted[i])
  /\ \A i, j \in DOMAIN accepted : i < j =>
       accepted[j] - accepted[i] >= Interval
=============================================================================
