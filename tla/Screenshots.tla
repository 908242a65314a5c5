---------------------------- MODULE Screenshots ----------------------------
(***************************************************************************)
(* capture/screenshot.py: screenshots are taken on threads of their own    *)
(* while the user speaks, and collected when the words are known.          *)
(***************************************************************************)
EXTENDS Integers, FiniteSets, Sequences, SequencesExt

CONSTANT Shots   \* presses of the screenshot hotkey

VARIABLES
  snip,       \* the thread of each capture
  clip,       \* the image in the clipboard, numbered as they are selected
  shots,      \* _screenshots
  clears,     \* history: recordings prepared so far
  spliced     \* history: the images drained, and the dictation that took them

shotVars == <<snip, clip, shots, clears, spliced>>

\* A capture counts as in flight until its event has been published.
InFlight   == {s \in Shots : snip[s].at \in {"launched", "snipping", "publishing"}}
HasPending == shots # <<>> \/ InFlight # {}

ShotsTypeOK ==
  /\ \A s \in Shots :
       /\ snip[s].at \in {"none", "launched", "snipping", "publishing", "over"}
       /\ snip[s].during \in Nat /\ snip[s].base \in 0..clip
  /\ \A i \in DOMAIN shots : /\ shots[i].shot \in Shots
                             /\ snip[shots[i].shot].at \in {"publishing", "over"}
  /\ \A i, j \in DOMAIN shots : shots[i].shot = shots[j].shot => i = j

ShotsInit ==
  /\ snip = [s \in Shots |-> [at |-> "none", during |-> 0, base |-> 0]]
  /\ clip = 0 /\ shots = <<>> /\ clears = 0 /\ spliced = {}

\* capture(), during a recording
Capture(s, during) ==
  /\ snip[s].at = "none"
  /\ \A r \in Shots : r < s => snip[r].at # "none"
  /\ snip' = [snip EXCEPT ![s] = [at |-> "launched", during |-> during, base |-> 0]]
  /\ UNCHANGED <<clip, shots, clears, spliced>>

\* _capture_windows() notes what the clipboard holds, and shows the overlay.
Overlay(s) ==
  /\ snip[s].at = "launched"
  /\ snip' = [snip EXCEPT ![s].at = "snipping", ![s].base = clip]
  /\ UNCHANGED <<clip, shots, clears, spliced>>

\* The user selects a part of the screen, at most once for each press.
Selects ==
  /\ \E s \in Shots : snip[s].at = "snipping"
  /\ clip < Cardinality({s \in Shots : snip[s].at # "none"})
  /\ clip' = clip + 1 /\ UNCHANGED <<snip, shots, clears, spliced>>

\* The clipboard holds another image, whichever capture it was selected for, or the
\* time is up: the user has selected nothing, or something that looks the same.
Snips(s) ==
  /\ snip[s].at = "snipping"
  /\ \/ /\ clip # snip[s].base
        /\ snip' = [snip EXCEPT ![s].at = "publishing"]
        /\ shots' = Append(shots, [shot |-> s, image |-> clip, of |-> snip[s].during,
                                  since |-> clears])
     \/ snip' = [snip EXCEPT ![s].at = "over"] /\ UNCHANGED shots
  /\ UNCHANGED <<clip, clears, spliced>>

Publishes(s) ==
  /\ snip[s].at = "publishing"
  /\ snip' = [snip EXCEPT ![s].at = "over"]
  /\ UNCHANGED <<clip, shots, clears, spliced>>

\* Mutant: what is queued is left to the next dictation.
ClearKeeps ==
  clears' = clears + 1 /\ UNCHANGED <<snip, clip, shots, spliced>>

\* clear(), when a recording is prepared
Clear ==
  shots' = <<>> /\ clears' = clears + 1 /\ UNCHANGED <<snip, clip, spliced>>

\* drain(), for a dictation
Drain(into) ==
  /\ shots' = <<>>
  /\ spliced' = spliced \union
       {[shot |-> shots[i].shot, image |-> shots[i].image, of |-> shots[i].of,
         since |-> shots[i].since, into |-> into] : i \in DOMAIN shots}
  /\ UNCHANGED <<snip, clip, clears>>

\* The images of those captures whose extraction succeeds.
Extractions(taken, failing) == {taken[i].shot : i \in DOMAIN taken} \ failing
=============================================================================
