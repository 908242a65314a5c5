------------------------------ MODULE MCCompile ------------------------------
EXTENDS Compile

BothFormats == <<"markdown", "json">>

Short == 1
Long  == BlockGap + 1

\* What may come next in a recording, how long after what came before.
Recorded ==
  {[kind |-> "focus_change", app |-> "B", text |-> <<>>],
   [kind |-> "utterance_ambient", app |-> "A", text |-> <<"w">>],
   [kind |-> "utterance_dictated", app |-> NoApp, text |-> <<>>],
   [kind |-> "keyframe", app |-> "A", text |-> <<"l", "m">>],
   [kind |-> "pause_end", app |-> NoApp, text |-> <<"hotkey">>]}

Stamped(e, ts) ==
  [Event(ts, e.kind, e.app, e.text) EXCEPT !.ocr = IF e.kind = "keyframe" THEN "pending" ELSE "none"]

\* All timelines of n events from the second t on.
Timelines(t, n) ==
  {[i \in 1..n |-> Stamped(es[i], t + FoldFunctionOnSet(LAMBDA a, b : a + b, 0, ds, 1..i))] :
     es \in [1..n -> Recorded], ds \in [1..n -> {Short, Long}]}

Talk(t) == Stamped([kind |-> "utterance_ambient", app |-> "A", text |-> <<"w">>], t)
Look(t) == Stamped([kind |-> "focus_change", app |-> "B", text |-> <<>>], t)
Shot(t) == Stamped([kind |-> "keyframe", app |-> "A", text |-> <<"l", "m">>], t)

\* Every timeline of three events by itself; and two sessions at once, which a model
\* is asked about.
SomeSetups ==
  {[provider |-> p, rows |-> <<x, <<>>>>, faults |-> 1] : p \in {"rules", "none"}, x \in Timelines(0, 3)}
  \union
  {[provider |-> "openai_compatible", faults |-> 2,
    rows |-> <<<<Talk(1), Shot(2), Look(3)>>, <<Talk(11), Shot(11 + Long)>>>>]}
=============================================================================
