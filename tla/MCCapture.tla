----------------------------- MODULE MCCapture -----------------------------
EXTENDS Capture

SomeSetups ==
  {[mic |-> TRUE, sources |-> {}, ticks |-> 6, moves |-> 0, inputs |-> 0],
   [mic |-> TRUE, sources |-> {"speech_onset"}, ticks |-> 3, moves |-> 1, inputs |-> 0],
   [mic |-> FALSE, sources |-> {"window_change"}, ticks |-> 3, moves |-> 2, inputs |-> 0],
   [mic |-> FALSE, sources |-> {"window_change"}, ticks |-> 2, moves |-> 1, inputs |-> 2],
   [mic |-> FALSE, sources |-> {"scroll_settle"}, ticks |-> 3, moves |-> 1, inputs |-> 1],
   [mic |-> FALSE, sources |-> {"click_selection"}, ticks |-> 2, moves |-> 1, inputs |-> 2]}
=============================================================================
