----------------------- MODULE DictationServiceProofs -----------------------
(***************************************************************************)
(* What DictationService promises follows from its three transitions: the  *)
(* recordings it inserts are in order, each at most once.  Dictation       *)
(* implements the service, so this theorem, read through the refinement,   *)
(* is one about Dictation: see DictationProofs, SpokenOrder.               *)
(***************************************************************************)
EXTENDS DictationService, TLAPS

Settled == {"inserted", "over"}

\* Only a recording whose predecessors are settled has been used, and only an
\* inserted one is in the list: so the one being inserted is after all of them.
OrderInv ==
  /\ ServiceTypeOK
  /\ \A r, q \in Recordings : phase[r] # "unused" /\ q < r => phase[q] \in Settled
  /\ \A i \in 1..Len(inserted) : phase[inserted[i]] = "inserted"
  /\ InOrder

LEMMA OrderInvInit == Init => OrderInv
  <1> SUFFICES ASSUME Init PROVE OrderInv
    OBVIOUS
  <1>1. Len(inserted) = 0
    BY DEF Init
  <1>2. ServiceTypeOK
    BY DEF Init, ServiceTypeOK, Phases
  <1> QED BY <1>1, <1>2 DEF Init, OrderInv, InOrder

\* The steps other than Insert: r moves, the list does not.
LEMMA OthersKeepOrder ==
  ASSUME OrderInv, NEW r \in Recordings, Start(r) \/ Stop(r) \/ GiveUp(r)
  PROVE  OrderInv'
  <1>1. PICK to \in {"recording", "pending", "over"} :
          phase' = [phase EXCEPT ![r] = to]
    BY DEF Start, Stop, GiveUp, Moves
  <1>2. inserted' = inserted /\ phase[r] \notin Settled
    BY DEF Start, Stop, GiveUp, Moves, Settled
  <1>3. ServiceTypeOK'
    BY <1>1, <1>2 DEF OrderInv, ServiceTypeOK, Phases
  <1>4. ASSUME NEW s \in Recordings, NEW q \in Recordings,
               phase'[s] # "unused", q < s
        PROVE  phase'[q] \in Settled
    <2>1. CASE s = r
      <3>1. q # r /\ phase'[q] = phase[q]
        BY <1>1, <1>4, <2>1 DEF OrderInv, ServiceTypeOK, Recordings
      <3>2. phase[q] \in Settled
        <4>1. CASE Start(r)
          <5>1. q \in 1..(r - 1)
            BY <1>4, <2>1 DEF Recordings
          <5> QED BY <4>1, <5>1 DEF Start, Settled
        <4>2. CASE Stop(r) \/ GiveUp(r)
          <5>1. phase[r] # "unused"
            BY <4>2 DEF Stop, GiveUp, Moves
          <5> QED BY <5>1, <1>4, <2>1 DEF OrderInv
        <4> QED BY <4>1, <4>2
      <3> QED BY <3>1, <3>2
    <2>2. CASE s # r
      <3>1. phase[q] \in Settled
        BY <1>1, <1>4, <2>2 DEF OrderInv, ServiceTypeOK
      <3>2. q # r
        BY <3>1, <1>2
      <3> QED BY <1>1, <3>1, <3>2 DEF OrderInv, ServiceTypeOK
    <2> QED BY <2>1, <2>2
  <1>5. ASSUME NEW i \in 1..Len(inserted)
        PROVE  phase'[inserted[i]] = "inserted"
    <2>1. phase[inserted[i]] = "inserted" /\ inserted[i] \in Recordings
      BY DEF OrderInv, ServiceTypeOK
    <2>2. inserted[i] # r
      BY <2>1, <1>2 DEF Settled
    <2> QED BY <1>1, <2>1, <2>2 DEF OrderInv, ServiceTypeOK
  <1>6. InOrder'
    BY <1>2 DEF OrderInv, InOrder
  <1> QED BY <1>2, <1>3, <1>4, <1>5, <1>6 DEF OrderInv

LEMMA InsertKeepsOrder ==
  ASSUME OrderInv, NEW r \in Recordings, Insert(r)
  PROVE  OrderInv'
  <1>1. phase[r] = "pending" /\ phase' = [phase EXCEPT ![r] = "inserted"]
    BY DEF Insert, Moves
  <1>2. inserted \in Seq(Recordings) /\ inserted' = Append(inserted, r)
    BY DEF OrderInv, ServiceTypeOK, Insert
  <1>3. Len(inserted') = Len(inserted) + 1 /\ inserted' \in Seq(Recordings)
        /\ inserted'[Len(inserted) + 1] = r
        /\ \A i \in 1..Len(inserted) : inserted'[i] = inserted[i]
    BY <1>2
  <1>4. ServiceTypeOK'
    BY <1>1, <1>3 DEF OrderInv, ServiceTypeOK, Phases
  <1>5. \A s, q \in Recordings : phase'[s] # "unused" /\ q < s => phase'[q] \in Settled
    BY <1>1 DEF OrderInv, ServiceTypeOK, Settled
  <1>6. \A i \in 1..Len(inserted) : inserted[i] \in Recordings /\ inserted[i] < r
    <2> SUFFICES ASSUME NEW i \in 1..Len(inserted)
                 PROVE  inserted[i] \in Recordings /\ inserted[i] < r
      OBVIOUS
    <2>1. inserted[i] \in Recordings /\ phase[inserted[i]] = "inserted"
      BY <1>2 DEF OrderInv
    <2>2. inserted[i] # r
      BY <1>1, <2>1
    <2>3. ~(r < inserted[i])
      BY <1>1, <2>1 DEF OrderInv, Settled
    <2> QED BY <2>1, <2>2, <2>3 DEF Recordings
  <1>7. \A i \in 1..Len(inserted') : phase'[inserted'[i]] = "inserted"
    BY <1>1, <1>2, <1>3, <1>6 DEF OrderInv, ServiceTypeOK
  <1>8. InOrder'
    BY <1>2, <1>3, <1>6 DEF OrderInv, InOrder
  <1> QED BY <1>4, <1>5, <1>7, <1>8 DEF OrderInv

\* Dictations are inserted in the order they were spoken in, each at most once.
THEOREM ServiceInOrder == Spec => []InOrder
  <1>1. OrderInv /\ [Next]_serviceVars => OrderInv'
    <2>1. ASSUME OrderInv, UNCHANGED serviceVars PROVE OrderInv'
      BY <2>1 DEF OrderInv, ServiceTypeOK, InOrder, serviceVars
    <2> QED BY <2>1, OthersKeepOrder, InsertKeepsOrder DEF Next
  <1>2. OrderInv => InOrder
    BY DEF OrderInv
  <1> QED BY <1>1, <1>2, OrderInvInit, PTL DEF Spec

=============================================================================
