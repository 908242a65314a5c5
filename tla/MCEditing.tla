----------------------------- MODULE MCEditing -----------------------------
EXTENDS Editing

Coroutine ==
  {<<"pipeline", d>> : d \in 1..3} \union {<<"command", d>> : d \in 1..3}
    \union {<<"hotkey", h>> : h \in 1..2}

SomeSayings ==
  {"", "ab", "Ab", "c", "li st", "new line", "new line c", "new paragraph", "undo that",
   "capitalize that", "capitalize that ab"}

SomeCommand ==
  [s \in SomeSayings |->
     CASE s \in {"new line", "new line c"} -> "newline"
       [] s = "new paragraph" -> "paragraph"
       [] s = "undo that" -> "undo"
       [] s \in {"capitalize that", "capitalize that ab"} -> "capitalize"
       [] OTHER -> "none"]

SomeRest ==
  [s \in SomeSayings |-> CASE s = "new line c" -> "c"
                           [] s = "capitalize that ab" -> "ab"
                           [] OTHER -> ""]

SomeCapital == [s \in SomeSayings |-> IF s = "ab" THEN "Ab" ELSE s]

SomeExpansion == [s \in SomeSayings |-> IF s = "c" THEN "ab" ELSE s]

SomeSize ==
  [s \in SomeSayings |-> CASE s = "" -> 0 [] s \in {"ab", "Ab"} -> 2 [] OTHER -> 1]

Calm == [hasty |-> FALSE, remote |-> FALSE, sayings |-> {"ab"}, dictations |-> 3,
         undos |-> 0, shots |-> 0, faults |-> 0]

SomeSetups ==
  { [Calm EXCEPT !.sayings = {"", "ab", "undo that", "capitalize that"}, !.undos = 2],
    [Calm EXCEPT !.sayings = {"ab", "li st", "c", "new line"}, !.undos = 2],
    [Calm EXCEPT !.sayings = {"ab", "new line c", "new paragraph"}, !.remote = TRUE,
                 !.hasty = TRUE, !.dictations = 2, !.undos = 1],
    [Calm EXCEPT !.sayings = {"ab", "capitalize that ab"}, !.undos = 2, !.dictations = 1,
                 !.faults = 1],
    [Calm EXCEPT !.sayings = {"ab", "capitalize that"}, !.dictations = 2, !.faults = 1],
    [Calm EXCEPT !.shots = 2, !.dictations = 2, !.hasty = TRUE],
    [Calm EXCEPT !.shots = 1, !.remote = TRUE] }
=============================================================================
