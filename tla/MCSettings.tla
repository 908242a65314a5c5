------------------------------ MODULE MCSettings ------------------------------
EXTENDS Settings

None == [what \in Limited |-> 0]

\* Saves that fail or are killed, and relaunches; then editing in both windows; then
\* transcripts that are cleaned up while the configuration changes.
SomeSetups ==
  {[None EXCEPT !.launches = 2, !.saves = 2, !.typed = 1, !.ticks = 1],
   [None EXCEPT !.launches = 1, !.saves = 1, !.typed = 2, !.opened = 2, !.backs = 1],
   [None EXCEPT !.launches = 1, !.saves = 2, !.typed = 1, !.opened = 1,
                !.cleanups = 1, !.faults = 1]}
=============================================================================
