-------------------------- MODULE DictationService --------------------------
(***************************************************************************)
(* What dictation promises its user, whatever happens inside: recordings   *)
(* are made one after the other; what was said in one is inserted at most  *)
(* once, or given up; nothing comes back from being given up.              *)
(*                                                                         *)
(* Dictation with a patient user implements this specification: see        *)
(* DictationProperties.                                                    *)
(***************************************************************************)
EXTENDS Naturals, Sequences

CONSTANT MaxRecs         \* bound: recordings

VARIABLES phase,         \* what has become of each recording
          inserted       \* the recordings inserted, in order

serviceVars == <<phase, inserted>>

Recordings == 1..MaxRecs
Phases == {"unused", "recording", "pending", "inserted", "over"}

ServiceTypeOK ==
  /\ phase \in [Recordings -> Phases]
  /\ inserted \in Seq(Recordings)

Init ==
  /\ phase = [r \in Recordings |-> "unused"]
  /\ inserted = <<>>

Moves(r, from, to) ==
  /\ phase[r] \in from
  /\ phase' = [phase EXCEPT ![r] = to]

\* A dictation starts once every earlier one has been settled.
Start(r) ==
  /\ \A q \in 1..(r - 1) : phase[q] \in {"inserted", "over"}
  /\ Moves(r, {"unused"}, "recording")
  /\ UNCHANGED inserted

Stop(r) == Moves(r, {"recording"}, "pending") /\ UNCHANGED inserted

Insert(r) ==
  /\ Moves(r, {"pending"}, "inserted")
  /\ inserted' = Append(inserted, r)

\* Cancelled, failed, or nothing was said.
GiveUp(r) == Moves(r, {"recording", "pending"}, "over") /\ UNCHANGED inserted

Next == \E r \in Recordings : Start(r) \/ Stop(r) \/ Insert(r) \/ GiveUp(r)

Spec == Init /\ [][Next]_serviceVars

\* Dictations are inserted in the order they were spoken in, each at most once.
InOrder == \A i, j \in 1..Len(inserted) : i < j => inserted[i] < inserted[j]

=============================================================================
