---------------------------- MODULE MCDictation ----------------------------
(***************************************************************************)
(* Values for the constants of Dictation.                                  *)
(***************************************************************************)
EXTENDS DictationProperties

NoFault        == {}
BatchFault     == AllOutcomes \ {"stream"}
FaultButAsr    == BatchFault \ {"asr"}
StreamFault    == {"stream"}
AsrFault       == {"asr"}
LiveFault      == {"asr", "keyboard", "clipboard"}

=============================================================================
