SPECIFICATION Spec
CONSTANTS
  MaxDictations = 3
  MaxUndos = 2
  Shots = {1, 2}
  Callers <- Coroutine
  OnWindows = TRUE
  Sayings <- SomeSayings
  Command <- SomeCommand
  Rest <- SomeRest
  Capital <- SomeCapital
  Expansion <- SomeExpansion
  Size <- SomeSize
  Lines = {"li st"}
  Threshold = 2
  Setups <- SomeSetups
INVARIANTS
  TypedInOneRun
  UndoIsExact
  LearnedFromUndos
  StaleShotWasInFlight
CHECK_DEADLOCK FALSE
