--------------------------- MODULE CaptureProofs ---------------------------
(***************************************************************************)
(* What holds of capture for any windows, set-ups, rates and depths of the *)
(* queues.                                                                 *)
(***************************************************************************)
EXTENDS Capture, SequenceTheorems, TLAPS

-----------------------------------------------------------------------------
(***************************************************************************)
(* The rate.  What has been accepted since any accepted request, and what  *)
(* is left of the allowance, is covered by a full allowance and the time   *)
(* that has been credited since.                                           *)
(***************************************************************************)
Clock == now \in Nat /\ refilled \in Nat /\ refilled <= now

Log ==
  /\ accepted \in Seq(Nat)
  /\ \A i \in 1..Len(accepted) : accepted[i] <= refilled

Covered ==
  /\ tokens \in Nat /\ tokens <= Window
  /\ \A i \in 1..Len(accepted) :
       (Len(accepted) - i + 1) * Cost + tokens <= Window + (refilled - accepted[i])

RateInv == Clock /\ Log /\ Covered /\ Paced

\* Any step that leaves the gate alone, whatever the clock does.
LEMMA RateStays ==
  ASSUME RateInv, UNCHANGED gateVars, now' \in Nat, now <= now'
  PROVE  RateInv'
  BY DEF RateInv, Clock, Log, Covered, Paced, gateVars

\* An entry more: it stands at the end, and the others where they stood.
LEMMA LogGrows ==
  ASSUME NEW log \in Seq(Nat), NEW t \in Nat
  PROVE  /\ Append(log, t) \in Seq(Nat)
         /\ Len(Append(log, t)) = Len(log) + 1
         /\ DOMAIN Append(log, t) = 1..(Len(log) + 1)
         /\ \A i \in 1..Len(log) : Append(log, t)[i] = log[i]
         /\ Append(log, t)[Len(log) + 1] = t
  OBVIOUS

LEMMA OneMore ==
  ASSUME NEW k \in Nat, NEW c \in Nat
  PROVE  (k + 1) * c = k * c + c /\ k * c \in Nat
  OBVIOUS

\* What is covered stays covered when time is credited.
LEMMA Credited ==
  ASSUME NEW x \in Nat, NEW a \in Nat, NEW top \in Nat, NEW w \in Nat, NEW left \in Nat,
         NEW last \in Nat, NEW t \in Nat,
         x + left <= w + (last - a), top <= left + (t - last)
  PROVE  x + top <= w + (t - a)
  OBVIOUS

LEMMA ToppedBounds ==
  ASSUME RateInv
  PROVE  /\ Topped(now) \in Nat /\ Topped(now) <= Window
         /\ Topped(now) <= tokens + (now - refilled)
  BY GateAssumption DEF RateInv, Clock, Covered, Topped, Least2

\* A request is weighed.
LEMMA RateWeighs ==
  ASSUME RateInv, NEW t \in Callers, Weigh(t, now), now' = now
  PROVE  RateInv'
<1> DEFINE n == Len(accepted)
<1>1. /\ now \in Nat /\ refilled \in Nat /\ refilled <= now /\ accepted \in Seq(Nat)
      /\ n \in Nat /\ tokens \in Nat /\ Cost \in Nat /\ Window \in Nat
      /\ Interval \in Nat /\ Cost <= Window
  BY GateAssumption DEF RateInv, Clock, Log, Covered
<1>2. /\ Topped(now) \in Nat /\ Topped(now) <= Window
      /\ Topped(now) <= tokens + (now - refilled)
  BY ToppedBounds
<1>3. refilled' = now
  BY DEF Weigh
<1>4. Clock'
  BY <1>1, <1>3 DEF Clock
<1>5. \A i \in 1..n :
        /\ accepted[i] \in Nat /\ accepted[i] <= refilled
        /\ (n - i + 1) * Cost \in Nat
        /\ (n - i + 1) * Cost + tokens <= Window + (refilled - accepted[i])
  <2>1. ASSUME NEW i \in 1..n PROVE (n - i + 1) * Cost \in Nat
    BY <1>1, <2>1, OneMore
  <2> QED BY <1>1, <2>1 DEF RateInv, Log, Covered
<1>6. CASE UNCHANGED accepted /\ tokens' = Topped(now)
  <2>1. Log' BY <1>1, <1>3, <1>5, <1>6 DEF Log
  <2>2. Covered'
    <3>1. ASSUME NEW i \in 1..n
          PROVE (n - i + 1) * Cost + Topped(now) <= Window + (now - accepted[i])
      <4> DEFINE x == (n - i + 1) * Cost
      <4>1. x \in Nat /\ x + tokens <= Window + (refilled - accepted[i])
            /\ accepted[i] \in Nat
        BY <1>5
      <4> HIDE DEF x
      <4>2. x + Topped(now) <= Window + (now - accepted[i])
        BY <1>1, <1>2, <4>1, Credited
      <4> QED BY <4>2 DEF x
    <3> QED BY <1>2, <1>3, <1>6, <3>1 DEF Covered
  <2>3. Paced' BY <1>6 DEF RateInv, Paced
  <2> QED BY <1>4, <2>1, <2>2, <2>3 DEF RateInv
<1>7. CASE /\ ~TooSoon(now) /\ Cost <= Topped(now)
           /\ tokens' = Topped(now) - Cost
           /\ accepted' = Append(accepted, now)
  <2>1. /\ accepted' \in Seq(Nat) /\ Len(accepted') = n + 1
        /\ DOMAIN accepted' = 1..(n + 1) /\ DOMAIN accepted = 1..n
        /\ \A i \in 1..n : accepted'[i] = accepted[i]
        /\ accepted'[n + 1] = now
    BY <1>1, <1>7, LogGrows
  <2>2. Log'
    <3>1. ASSUME NEW i \in 1..(n + 1) PROVE accepted'[i] <= now
      <4>1. CASE i \in 1..n
        <5>1. accepted[i] \in Nat /\ accepted[i] <= refilled BY <1>5, <4>1
        <5> QED BY <1>1, <2>1, <4>1, <5>1
      <4>2. CASE i = n + 1 BY <1>1, <2>1, <4>2
      <4> QED BY <1>1, <4>1, <4>2
    <3> QED BY <1>3, <2>1, <3>1 DEF Log
  <2>3. tokens' \in Nat /\ tokens' <= Window
    BY <1>1, <1>2, <1>7
  <2>4. ASSUME NEW i \in 1..n
        PROVE (n + 1 - i + 1) * Cost + tokens' <= Window + (now - accepted[i])
    <3> DEFINE x == (n - i + 1) * Cost
    <3>1. x \in Nat /\ x + tokens <= Window + (refilled - accepted[i])
          /\ accepted[i] \in Nat
      BY <1>5
    <3>2. (n + 1 - i + 1) * Cost = x + Cost
      <4>1. n - i + 1 \in Nat /\ n + 1 - i + 1 = (n - i + 1) + 1
        BY <1>1
      <4> QED BY <1>1, <4>1, OneMore
    <3>3. x + Cost + tokens' = x + Topped(now)
      BY <1>1, <1>2, <1>7, <3>1
    <3>4. x + Topped(now) <= Window + (now - accepted[i])
      <4> HIDE DEF x
      <4> QED BY <1>1, <1>2, <3>1, Credited
    <3> QED BY <3>2, <3>3, <3>4
  <2>5. (n + 1 - (n + 1) + 1) * Cost + tokens' <= Window + (now - now)
    <3>1. (n + 1 - (n + 1) + 1) * Cost = Cost
      BY <1>1
    <3> QED BY <1>1, <1>2, <1>7, <3>1
  <2>6. Covered'
    <3>1. ASSUME NEW i \in 1..(n + 1)
          PROVE (n + 1 - i + 1) * Cost + tokens' <= Window + (now - accepted'[i])
      <4>1. CASE i \in 1..n BY <2>1, <2>4, <4>1
      <4>2. CASE i = n + 1 BY <2>1, <2>5, <4>2
      <4> QED BY <1>1, <4>1, <4>2
    <3> QED BY <1>3, <2>1, <2>3, <3>1 DEF Covered
  <2>7. ASSUME NEW i \in 1..(n + 1)
        PROVE (n + 1 - i + 1) * Cost <= Window + (now - accepted'[i])
    <3>1. (n + 1 - i + 1) * Cost + tokens' <= Window + (now - accepted'[i])
      BY <2>1, <2>6, <1>3 DEF Covered
    <3>2. (n + 1 - i + 1) * Cost \in Nat
      <4>1. n + 1 - i + 1 \in Nat BY <1>1
      <4> QED BY <1>1, <4>1, OneMore
    <3>3. accepted'[i] \in Nat BY <2>1
    <3> QED BY <1>1, <2>3, <3>1, <3>2, <3>3
  <2>8. ASSUME NEW i \in 1..(n + 1), NEW j \in 1..(n + 1), i <= j
        PROVE (j - i + 1) * Cost <= Window + (accepted'[j] - accepted'[i])
    <3>1. CASE j = n + 1 BY <2>1, <2>7, <3>1
    <3>2. CASE j # n + 1
      <4>1. i \in 1..n /\ j \in 1..n BY <1>1, <2>8, <3>2
      <4>2. (j - i + 1) * Cost <= Window + (accepted[j] - accepted[i])
        BY <2>1, <2>8, <4>1 DEF RateInv, Paced
      <4> QED BY <2>1, <4>1, <4>2
    <3> QED BY <3>1, <3>2
  <2>9. ASSUME NEW i \in 1..(n + 1), NEW j \in 1..(n + 1), i < j
        PROVE accepted'[j] - accepted'[i] >= Interval
    <3>1. CASE j = n + 1
      <4>1. i \in 1..n /\ n \in 1..n /\ accepted # <<>>
        BY <1>1, <2>9, <3>1
      <4>2. now - accepted[n] >= Interval /\ accepted[n] \in Nat
        <5>1. accepted[n] \in Nat BY <1>5, <4>1
        <5>2. ~(now - accepted[n] < Interval) BY <1>7, <4>1 DEF TooSoon
        <5> QED BY <1>1, <5>1, <5>2
      <4>3. CASE i = n BY <2>1, <3>1, <4>1, <4>2, <4>3
      <4>4. CASE i < n
        <5>1. accepted[n] - accepted[i] >= Interval /\ accepted[i] \in Nat
          BY <1>5, <2>1, <4>1, <4>4 DEF RateInv, Paced
        <5> QED BY <1>1, <2>1, <3>1, <4>1, <4>2, <5>1
      <4> QED BY <1>1, <4>1, <4>3, <4>4
    <3>2. CASE j # n + 1
      <4>1. i \in 1..n /\ j \in 1..n BY <1>1, <2>9, <3>2
      <4>2. accepted[j] - accepted[i] >= Interval
        BY <2>1, <2>9, <4>1 DEF RateInv, Paced
      <4> QED BY <2>1, <4>1, <4>2
    <3> QED BY <3>1, <3>2
  <2>10. Paced'
    BY <2>1, <2>8, <2>9 DEF Paced
  <2> QED BY <1>4, <2>2, <2>6, <2>10 DEF RateInv
<1> QED
  <2>1. \/ UNCHANGED accepted /\ tokens' = Topped(now)
        \/ /\ ~TooSoon(now) /\ Cost <= Topped(now)
           /\ tokens' = Topped(now) - Cost
           /\ accepted' = Append(accepted, now)
    BY <1>1, <1>2 DEF Weigh
  <2> QED BY <2>1, <1>6, <1>7

LEMMA RateInit == Init => RateInv
  BY GateAssumption
     DEF Init, GateInit, RateInv, Clock, Log, Covered, Paced

\* The steps of the threads leave the clock alone, and only one of them weighs.
LEMMA RateNext == RateInv /\ [Next]_vars => RateInv'
<1> SUFFICES ASSUME RateInv, [Next]_vars PROVE RateInv'
  OBVIOUS
<1>1. now \in Nat
  BY DEF RateInv, Clock
<1>2. CASE Tick
  BY <1>1, <1>2, RateStays DEF Tick
<1>3. CASE UNCHANGED <<gateVars, now>>
  BY <1>1, <1>3, RateStays
<1>4. ASSUME NEW t \in Callers, Requesting(t) PROVE RateInv'
  <2>1. CASE Weighs(t)
    BY <2>1, RateWeighs DEF Weighs, Asking, worldVars
  <2>2. CASE Refused(t) \/ Checks(t) \/ Notes(t) \/ Submits(t)
    BY <1>3, <2>2 DEF Refused, Checks, Notes, Submits, Asking, worldVars
  <2> QED BY <1>4, <2>1, <2>2 DEF Requesting
<1>5. CASE Focus \/ Mouse \/ Pause
  BY <1>3, <1>5 DEF Focus, Mouse, Pause, Input, Scroll, Click
<1>6. CASE StartSession \/ StopSession \/ Stopping
  <2>1. CASE StartSession
    BY <1>3, <2>1 DEF StartSession, StartPolling, worldVars
  <2>2. CASE StopSession \/ StopAmbient \/ AmbientJoined \/ CloseSession
    BY <1>3, <2>2
       DEF StopSession, StopAmbient, AmbientJoined, CloseSession, Step, Others, worldVars
  <2>3. CASE StopTriggers
    BY <1>3, <2>3 DEF StopTriggers, StopPolling, StopMouse, Step, worldVars
  <2>4. CASE StopGrabber
    BY <1>3, <2>4 DEF StopGrabber, Step, worldVars
  <2> QED BY <1>6, <2>1, <2>2, <2>3, <2>4 DEF Stopping
<1>7. CASE Listens
  BY <1>3, <1>7 DEF Listens, Listen, HearSpeech, SpeechOnset, Announced, Works, worldVars
<1>8. CASE PollStep \/ MouseStep
  BY <1>3, <1>8
     DEF PollStep, MouseStep, SeesFocus, SeesScroll, ForgetsScroll, PollAgain,
         MouseEnds, Asking, worldVars
<1>9. CASE Captures
  BY <1>3, <1>9
     DEF Captures, GrabStep, Passes, WriteBlob, StoreRow, Grabbing, worldVars
<1>10. CASE UNCHANGED vars
  BY <1>3, <1>10 DEF vars, worldVars
<1> QED
  BY <1>2, <1>4, <1>5, <1>6, <1>7, <1>8, <1>9, <1>10 DEF Next

\* Whatever asks for keyframes and whenever, and however often sessions are opened
\* and closed, the gate accepts no more than its rate and its interval allow.
THEOREM PacedAlways == Spec => []Paced
<1>1. RateInv => Paced
  BY DEF RateInv
<1> QED BY RateInit, RateNext, <1>1, PTL DEF Spec

-----------------------------------------------------------------------------
(***************************************************************************)
(* Exclusion.  A request let through was let through for a window that is  *)
(* not secret, so that as long as the foreground has not changed since, it *)
(* still is not.  This follows the request through the gate, the queue and *)
(* the capture thread.                                                     *)
(***************************************************************************)
Clean(m) == m \in Nat /\ m <= moves /\ (m = moves => window \notin Secret)

Requests == [why : Reasons, moves : Nat] \union {None}

Passed(t) ==
  \/ caller[t].at \in {"limiting", "submitting"}
  \/ caller[t].at = "noting" /\ ~caller[t].pause

CallersClean ==
  /\ caller \in [Callers -> [at : CallerStates, why : Reasons, moves : Nat,
                             pause : BOOLEAN]]
  /\ \A t \in Callers : Passed(t) => Clean(caller[t].moves)

QueueClean ==
  /\ requests \in Seq(Requests)
  /\ \A i \in 1..Len(requests) : requests[i] # None => Clean(requests[i].moves)

GrabberClean ==
  /\ grabber.at = "grabbing" => Clean(grabber.moves) /\ grabber.image = "none"
  /\ /\ grabber.at \in {"framed", "named", "storing"}
     /\ grabber.image # "none" /\ grabber.image \in Secret
     => grabber.taken.moves > grabber.moves
  /\ grabber.at = "storing" => grabber.image # "none"
  /\ grabber \in [at : GrabberStates, why : Reasons \union {"stop"}, moves : Nat,
                  image : Windows \union {"none"}, app : Windows \union {"none"},
                  taken : [moves : Nat, session : Nat], into : Nat]

SecretInv ==
  /\ moves \in Nat /\ window \in Windows /\ session \in Nat /\ opened \in Nat
  /\ CallersClean /\ QueueClean /\ GrabberClean /\ SecretOnlyIfMoved

seen == <<moves, window>>

LEMMA SecretInit == Init => SecretInv
  BY DEF Init, GateInit, GrabberInit, Idle, SecretInv, CallersClean, QueueClean,
         GrabberClean, SecretOnlyIfMoved, Passed, Requests, CallerStates, Reasons,
         GrabberStates

\* Another window in the foreground: nothing is at its last change any more.
LEMMA SecretFocus == SecretInv /\ Focus => SecretInv'
<1> SUFFICES ASSUME SecretInv, Focus PROVE SecretInv'
  OBVIOUS
<1>1. moves \in Nat /\ moves' = moves + 1 /\ window' \in Windows
      /\ UNCHANGED <<caller, requests, grabber, frames, session, opened>>
  BY DEF Focus, SecretInv, grabberVars, sessionVars, rowVars
<1>2. ASSUME NEW m, Clean(m) PROVE Clean(m)'
  BY <1>1, <1>2 DEF Clean
<1>3. CallersClean' BY <1>1, <1>2 DEF SecretInv, CallersClean, Passed
<1>4. QueueClean' BY <1>1, <1>2 DEF SecretInv, QueueClean
<1>5. GrabberClean' BY <1>1, <1>2 DEF SecretInv, GrabberClean
<1>6. SecretOnlyIfMoved' BY <1>1 DEF SecretInv, SecretOnlyIfMoved
<1> QED BY <1>1, <1>3, <1>4, <1>5, <1>6 DEF SecretInv

\* A thread asks, or goes on to where nothing has been let through.
NotPassed == CallerStates \ {"limiting", "submitting", "noting"}

LEMMA MovesClean ==
  ASSUME CallersClean, UNCHANGED seen, NEW t \in Callers, NEW at \in NotPassed,
         Moves(t, at)
  PROVE  CallersClean'
  BY DEF CallersClean, Moves, Passed, Clean, seen, NotPassed, CallerStates

LEMMA AsksClean ==
  ASSUME CallersClean, UNCHANGED seen, NEW t \in Callers, NEW why \in Reasons,
         Asks(t, why)
  PROVE  CallersClean'
  BY DEF CallersClean, Asks, Passed, Clean, seen, CallerStates

LEMMA AfterGoesOn ==
  ASSUME NEW t \in Callers
  PROVE  After(t) \in NotPassed
  BY DEF After, NotPassed, CallerStates

LEMMA StaysClean ==
  ASSUME CallersClean, UNCHANGED <<caller, seen>>
  PROVE  CallersClean'
  BY DEF CallersClean, Passed, Clean, seen

\* A step of a requesting thread: nothing but the callers changes.
LEMMA SecretCallers ==
  ASSUME SecretInv, CallersClean', UNCHANGED <<seen, requests, grabber, frames>>,
         session' \in Nat, opened' \in Nat
  PROVE  SecretInv'
  BY DEF SecretInv, QueueClean, GrabberClean, SecretOnlyIfMoved, Clean, seen

LEMMA SecretRequests ==
  ASSUME SecretInv, NEW t \in Callers, Requesting(t)
  PROVE  SecretInv'
<1>1. UNCHANGED <<seen, frames, session, opened>> /\ session \in Nat /\ opened \in Nat
      /\ CallersClean
  BY DEF Requesting, Refused, Checks, Notes, Weighs, Submits, Asking, worldVars,
         sessionVars, rowVars, seen, SecretInv
<1>2. CASE Refused(t)
  BY <1>1, <1>2, MovesClean, AfterGoesOn, SecretCallers DEF Refused, grabberVars
<1>3. CASE Checks(t)
  <2>1. moves \in Nat /\ UNCHANGED <<requests, grabber>>
    BY <1>3 DEF Checks, SecretInv, grabberVars
  <2>2. After(t) \in CallerStates /\ After(t) \notin {"limiting", "submitting", "noting"}
    BY AfterGoesOn DEF NotPassed
  <2>3. CallersClean'
    <3> DEFINE excluded == window \in Secret
               at == IF pattern # excluded THEN "noting"
                     ELSE IF excluded THEN After(t) ELSE "limiting"
               c == [caller[t] EXCEPT !.moves = moves, !.pause = excluded, !.at = at]
    <3>1. caller' = [caller EXCEPT ![t] = c]
      BY <1>3 DEF Checks
    <3>2. at \in CallerStates /\ excluded \in BOOLEAN
      BY <2>2 DEF CallerStates
    <3>3. at = "limiting" \/ at = "submitting" => ~excluded
      BY <2>2
    <3> HIDE DEF at, excluded
    <3>4. c \in [at : CallerStates, why : Reasons, moves : Nat, pause : BOOLEAN]
          /\ c.at = at /\ c.moves = moves /\ c.pause = excluded
      BY <1>1, <2>1, <3>2 DEF CallersClean
    <3> HIDE DEF c
    <3>5. ASSUME NEW u \in Callers, Passed(u)' PROVE Clean(caller[u].moves)'
      <4>1. CASE u = t
        <5>1. caller'[t] = c BY <1>1, <3>1 DEF CallersClean
        <5>2. window \notin Secret
          BY <3>3, <3>4, <3>5, <4>1, <5>1 DEF Passed, excluded
        <5> QED BY <1>1, <2>1, <3>4, <4>1, <5>1, <5>2 DEF Clean, seen
      <4>2. CASE u # t
        <5>1. caller'[u] = caller[u] BY <1>1, <3>1, <4>2 DEF CallersClean
        <5> QED BY <1>1, <3>5, <5>1 DEF CallersClean, Passed, Clean, seen
      <4> QED BY <4>1, <4>2
    <3> QED BY <1>1, <3>1, <3>4, <3>5 DEF CallersClean
  <2> QED BY <1>1, <2>1, <2>3, SecretCallers
<1>4. CASE Notes(t)
  <2>1. UNCHANGED <<requests, grabber>>
    BY <1>4 DEF Notes, grabberVars
  <2>2. CASE caller[t].pause
    BY <1>1, <1>4, <2>1, <2>2, MovesClean, AfterGoesOn, SecretCallers DEF Notes
  <2>3. CASE ~caller[t].pause
    <3>1. CallersClean'
      BY <1>1, <1>4, <2>3
         DEF Notes, Moves, Is, CallersClean, Passed, Clean, seen, CallerStates
    <3> QED BY <1>1, <2>1, <3>1, SecretCallers
  <2> QED BY <2>2, <2>3
<1>5. CASE Weighs(t)
  <2>1. UNCHANGED <<requests, grabber>>
    BY <1>5 DEF Weighs, grabberVars
  <2>2. CASE Moves(t, After(t))
    BY <1>1, <2>1, <2>2, MovesClean, AfterGoesOn, SecretCallers
  <2>3. CASE Moves(t, "submitting") /\ Is(t, "limiting")
    <3>1. CallersClean'
      BY <1>1, <2>3 DEF Moves, Is, CallersClean, Passed, Clean, seen, CallerStates
    <3> QED BY <1>1, <2>1, <3>1, SecretCallers
  <2> QED BY <1>5, <2>2, <2>3 DEF Weighs, Weigh
<1>6. CASE Submits(t)
  <2>1. CallersClean'
    BY <1>1, <1>6, MovesClean, AfterGoesOn DEF Submits
  <2>2. CASE UNCHANGED grabberVars
    BY <1>1, <2>1, <2>2, SecretCallers DEF grabberVars
  <2>3. CASE Submit([why |-> caller[t].why, moves |-> caller[t].moves])
    <3> DEFINE r == [why |-> caller[t].why, moves |-> caller[t].moves]
    <3>1. r \in Requests /\ Clean(r.moves)
      BY <1>1, <1>6 DEF Submits, Is, CallersClean, Passed, Requests
    <3>2. requests' = Append(requests, r) /\ requests \in Seq(Requests)
          /\ UNCHANGED <<grabber, recent>>
      BY <2>3 DEF Submit, SecretInv, QueueClean
    <3> HIDE DEF r
    <3>3. /\ requests' \in Seq(Requests) /\ Len(requests') = Len(requests) + 1
          /\ \A i \in 1..Len(requests) : requests'[i] = requests[i]
          /\ requests'[Len(requests) + 1] = r
      BY <3>1, <3>2
    <3>4. ASSUME NEW i \in 1..Len(requests'), requests'[i] # None
          PROVE Clean(requests'[i].moves)
      <4>1. CASE i \in 1..Len(requests)
        BY <3>3, <3>4, <4>1 DEF SecretInv, QueueClean
      <4>2. CASE i = Len(requests) + 1 BY <3>1, <3>3, <4>2
      <4> QED BY <3>2, <3>3, <4>1, <4>2
    <3>5. QueueClean'
      BY <1>1, <3>3, <3>4 DEF QueueClean, Clean, seen
    <3> QED
      BY <1>1, <2>1, <3>2, <3>5 DEF SecretInv, GrabberClean, SecretOnlyIfMoved, Clean, seen
  <2> QED BY <1>6, <2>2, <2>3 DEF Submits
<1> QED BY <1>2, <1>3, <1>4, <1>5, <1>6 DEF Requesting

\* The capture thread: it takes a request, or goes on with the one it has.
LEMMA SecretCaptures ==
  ASSUME SecretInv, Captures
  PROVE  SecretInv'
<1>1. /\ UNCHANGED <<seen, caller, session, opened>> /\ session \in Nat /\ opened \in Nat
      /\ moves \in Nat /\ window \in Windows
      /\ CallersClean /\ QueueClean /\ GrabberClean /\ SecretOnlyIfMoved
  BY DEF Captures, GrabStep, Passes, WriteBlob, StoreRow, Grabbing, worldVars,
         sessionVars, seen, SecretInv
<1>2. CallersClean'
  BY <1>1, StaysClean
<1>3. ASSUME UNCHANGED <<requests, frames>>, GrabberClean' PROVE SecretInv'
  BY <1>1, <1>2, <1>3 DEF SecretInv, QueueClean, SecretOnlyIfMoved, Clean, seen
<1>4. ASSUME UNCHANGED <<requests, frames>>, Waits PROVE SecretInv'
  <2>1. GrabberClean'
    BY <1>4 DEF Waits, Idle, GrabberClean, GrabberStates
  <2> QED BY <1>3, <1>4, <2>1
<1>5. CASE GrabStep
  <2>0. UNCHANGED frames BY <1>5 DEF GrabStep, rowVars
  <2>1. CASE TakeRequest
    <3>1. /\ requests \in Seq(Requests) /\ requests # <<>> /\ requests' = Tail(requests)
          /\ Head(requests) = requests[1] /\ 1 \in 1..Len(requests)
      BY <1>1, <2>1 DEF TakeRequest, QueueClean
    <3>2. /\ requests' \in Seq(Requests)
          /\ \A i \in 1..Len(requests') : i + 1 \in 1..Len(requests)
                                       /\ requests'[i] = requests[i + 1]
      BY <3>1
    <3>3. QueueClean'
      BY <1>1, <3>2 DEF QueueClean, Clean, seen
    <3>4. requests[1] \in Requests /\ (requests[1] # None => Clean(requests[1].moves))
      BY <1>1, <3>1 DEF QueueClean
    <3>5. GrabberClean'
      <4>1. CASE requests[1] = None
        BY <2>1, <3>1, <4>1 DEF TakeRequest, GrabberClean, Idle, GrabberStates
      <4>2. CASE requests[1] # None
        <5> DEFINE RequestSet == [why : Reasons, moves : Nat]
        <5>0. requests[1] \in RequestSet
          <6> HIDE DEF RequestSet
          <6>1. Requests = RequestSet \union {None} BY DEF Requests, RequestSet
          <6> QED BY <3>4, <4>2, <6>1
        <5>1. /\ requests[1].why \in Reasons /\ requests[1].moves \in Nat
              /\ requests[1].moves <= moves
              /\ requests[1].moves = moves => window \notin Secret
          BY <3>4, <4>2, <5>0 DEF Clean
        <5>2. grabber' = [Idle EXCEPT !.at = "grabbing", !.why = requests[1].why,
                                      !.moves = requests[1].moves]
          BY <2>1, <3>1, <4>2 DEF TakeRequest
        <5>3. /\ grabber'.at = "grabbing" /\ grabber'.image = "none"
              /\ grabber'.moves = requests[1].moves
              /\ grabber' \in [at : GrabberStates, why : Reasons \union {"stop"},
                   moves : Nat, image : Windows \union {"none"},
                   app : Windows \union {"none"},
                   taken : [moves : Nat, session : Nat], into : Nat]
          BY <5>1, <5>2 DEF Idle, GrabberStates
        <5> QED BY <1>1, <5>1, <5>3 DEF GrabberClean, Clean, seen
      <4> QED BY <4>1, <4>2
    <3> QED BY <1>1, <1>2, <2>0, <3>3, <3>5 DEF SecretInv, SecretOnlyIfMoved, seen
  <2>2. CASE GrabsNothing
    <3>1. GrabberClean'
      BY <1>1, <2>2 DEF GrabsNothing, GrabberClean, Clean, seen, GrabberStates
    <3> QED BY <1>3, <2>0, <2>2, <3>1 DEF GrabsNothing
  <2>3. CASE Grabs(window, [moves |-> moves, session |-> session])
    <3>1. /\ grabber' \in [at : GrabberStates, why : Reasons \union {"stop"}, moves : Nat,
                  image : Windows \union {"none"}, app : Windows \union {"none"},
                  taken : [moves : Nat, session : Nat], into : Nat]
          /\ grabber'.at = "framed" /\ grabber'.image = window
          /\ grabber'.taken.moves = moves /\ grabber'.moves = grabber.moves
      BY <1>1, <2>3 DEF Grabs, GrabberClean, GrabberStates
    <3>2. window \in Secret => moves > grabber.moves
      BY <1>1, <2>3 DEF Grabs, GrabberClean, Clean
    <3>3. GrabberClean'
      BY <3>1, <3>2 DEF GrabberClean
    <3> QED BY <1>3, <2>0, <2>3, <3>3 DEF Grabs
  <2>4. CASE Names(window)
    <3>1. GrabberClean'
      BY <1>1, <2>4 DEF Names, GrabberClean, Clean, seen, GrabberStates
    <3> QED BY <1>3, <2>0, <2>4, <3>1 DEF Names
  <2> QED BY <1>5, <2>1, <2>2, <2>3, <2>4 DEF GrabStep
<1>6. CASE Passes
  BY <1>4, <1>6 DEF Passes, Waits, rowVars
<1>7. CASE WriteBlob
  <2>1. UNCHANGED frames BY <1>7 DEF WriteBlob
  <2>2. CASE Waits BY <1>4, <2>1, <2>2 DEF Waits
  <2>3. CASE /\ grabber' = [grabber EXCEPT !.at = "storing", !.into = session]
             /\ UNCHANGED requests
    <3>1. GrabberClean'
      BY <1>1, <1>7, <2>3 DEF WriteBlob, GrabberClean, Clean, seen, GrabberStates
    <3> QED BY <1>3, <2>1, <2>3, <3>1
  <2> QED BY <1>7, <2>2, <2>3 DEF WriteBlob
<1>8. CASE StoreRow
  <2> DEFINE row == [image |-> grabber.image, app |-> grabber.app,
                     taken |-> grabber.taken, into |-> grabber.into,
                     asked |-> grabber.moves]
  <2>1. row.image \in Secret => row.taken.moves > row.asked
    BY <1>1, <1>8 DEF StoreRow, GrabberClean
  <2>2. frames' \subseteq frames \union {row}
    BY <1>8 DEF StoreRow
  <2>3. SecretOnlyIfMoved'
    BY <1>1, <2>1, <2>2 DEF SecretOnlyIfMoved
  <2>4. GrabberClean' /\ UNCHANGED requests
    BY <1>8 DEF StoreRow, Waits, Idle, GrabberClean, GrabberStates
  <2> QED BY <1>1, <1>2, <2>3, <2>4 DEF SecretInv, QueueClean, Clean, seen
<1> QED BY <1>5, <1>6, <1>7, <1>8 DEF Captures

\* Steps that take something from the queue or leave it, and leave the rest alone.
LEMMA SecretQueue ==
  ASSUME SecretInv, UNCHANGED <<seen, grabber, frames, session, opened>>,
         CallersClean', QueueClean'
  PROVE  SecretInv'
  BY DEF SecretInv, GrabberClean, SecretOnlyIfMoved, Clean, seen

LEMMA SentinelClean ==
  ASSUME QueueClean, UNCHANGED seen, Submit(None)
  PROVE  QueueClean'
<1>1. /\ requests \in Seq(Requests) /\ requests' = Append(requests, None)
      /\ None \in Requests
  BY DEF QueueClean, Submit, Requests
<1>2. /\ requests' \in Seq(Requests) /\ Len(requests') = Len(requests) + 1
      /\ \A i \in 1..Len(requests) : requests'[i] = requests[i]
      /\ requests'[Len(requests) + 1] = None
  BY <1>1
<1>3. ASSUME NEW i \in 1..Len(requests'), requests'[i] # None
      PROVE i \in 1..Len(requests) /\ requests'[i] = requests[i]
  BY <1>1, <1>2, <1>3
<1> QED BY <1>2, <1>3 DEF QueueClean, Clean, seen

LEMMA DropClean ==
  ASSUME QueueClean, UNCHANGED seen, DropOne
  PROVE  QueueClean'
<1>1. requests \in Seq(Requests) /\ requests # <<>> /\ requests' = Tail(requests)
  BY DEF QueueClean, DropOne
<1>2. /\ requests' \in Seq(Requests)
      /\ \A i \in 1..Len(requests') : i + 1 \in 1..Len(requests)
                                   /\ requests'[i] = requests[i + 1]
  BY <1>1
<1> QED BY <1>2 DEF QueueClean, Clean, seen

LEMMA SecretStops == SecretInv /\ (StopSession \/ Stopping) => SecretInv'
<1> SUFFICES ASSUME SecretInv, StopSession \/ Stopping PROVE SecretInv'
  OBVIOUS
<1>1. session \in Nat /\ opened \in Nat /\ CallersClean /\ QueueClean
  BY DEF SecretInv
<1>2. CASE StopSession \/ StopAmbient \/ AmbientJoined
  BY <1>1, <1>2, StaysClean, SecretCallers
     DEF StopSession, StopAmbient, AmbientJoined, Step, Others, grabberVars, rowVars,
         worldVars, seen
<1>3. CASE CloseSession
  BY <1>1, <1>3, StaysClean, SecretCallers
     DEF CloseSession, Others, grabberVars, rowVars, worldVars, seen
<1>4. CASE StopTriggers
  <2>1. UNCHANGED <<seen, requests, grabber, frames, session, opened>>
    BY <1>4 DEF StopTriggers, Step, grabberVars, rowVars, worldVars, seen
  <2>2. CASE UNCHANGED caller
    BY <1>1, <2>1, <2>2, StaysClean, SecretCallers
  <2>3. CASE Moves("mouse", "none")
    <3>1. CallersClean'
      BY <1>1, <2>1, <2>3, MovesClean DEF Callers, NotPassed, CallerStates
    <3> QED BY <1>1, <2>1, <3>1, SecretCallers
  <2> QED BY <1>4, <2>2, <2>3 DEF StopTriggers, StopPolling, StopMouse
<1>5. CASE StopGrabber
  <2>1. UNCHANGED <<seen, caller, frames, session, opened>>
    BY <1>5 DEF StopGrabber, Step, rowVars, worldVars, seen
  <2>2. CallersClean'
    BY <1>1, <2>1, StaysClean
  <2>3. CASE Submit(None)
    BY <1>1, <2>1, <2>2, <2>3, SentinelClean, SecretQueue DEF Submit
  <2>4. CASE DropOne
    BY <1>1, <2>1, <2>2, <2>4, DropClean, SecretQueue DEF DropOne
  <2>5. CASE UNCHANGED grabberVars
    BY <1>1, <2>1, <2>2, <2>5, SecretCallers DEF grabberVars
  <2> QED BY <1>5, <2>3, <2>4, <2>5 DEF StopGrabber
<1> QED BY <1>2, <1>3, <1>4, <1>5 DEF Stopping

LEMMA SecretStarts == SecretInv /\ StartSession => SecretInv'
<1> SUFFICES ASSUME SecretInv, StartSession PROVE SecretInv'
  OBVIOUS
<1>1. /\ UNCHANGED <<seen, requests, frames>> /\ session' \in Nat /\ opened' \in Nat
      /\ CallersClean /\ QueueClean /\ GrabberClean
  BY DEF StartSession, StartGrabbing, SecretInv, worldVars, seen
<1>2. CallersClean'
  <2> DEFINE mouse == IF enabled \intersect {"scroll_settle", "click_selection"} = {}
                        THEN caller["mouse"].at ELSE "idle"
  <2>1. /\ caller' = [[[caller EXCEPT !["poll"].at = "looking"]
                        EXCEPT !["ambient"].at = "idle"] EXCEPT !["mouse"].at = mouse]
    BY DEF StartSession, StartPolling, CallersClean, Callers
  <2>2. mouse \in CallerStates /\ (mouse = "idle" \/ mouse = caller["mouse"].at)
    BY <1>1 DEF CallersClean, Callers, CallerStates
  <2> HIDE DEF mouse
  <2>3. \A t \in Callers :
          /\ caller'[t] \in [at : CallerStates, why : Reasons, moves : Nat,
                             pause : BOOLEAN]
          /\ caller'[t].moves = caller[t].moves /\ caller'[t].pause = caller[t].pause
          /\ caller'[t].at \in {"looking", "idle", caller[t].at}
    BY <1>1, <2>1, <2>2 DEF CallersClean, Callers, CallerStates
  <2>4. caller' \in [Callers -> [at : CallerStates, why : Reasons, moves : Nat,
                                pause : BOOLEAN]]
    BY <1>1, <2>1, <2>2 DEF CallersClean, Callers, CallerStates
  <2> QED BY <1>1, <2>3, <2>4 DEF CallersClean, Passed, Clean, seen
<1>3. GrabberClean'
  BY <1>1 DEF StartSession, StartGrabbing, GrabberClean, Clean, seen, Idle, GrabberStates
<1> QED BY <1>1, <1>2, <1>3 DEF SecretInv, QueueClean, SecretOnlyIfMoved, Clean, seen

LEMMA SecretNext == SecretInv /\ [Next]_vars => SecretInv'
<1> SUFFICES ASSUME SecretInv, [Next]_vars PROVE SecretInv'
  OBVIOUS
<1>1. session \in Nat /\ opened \in Nat /\ CallersClean
  BY DEF SecretInv
<1>2. ASSUME UNCHANGED <<seen, requests, grabber, frames, session, opened>>,
             \/ UNCHANGED caller
             \/ \E t \in Callers, at \in NotPassed : Moves(t, at)
             \/ \E t \in Callers, why \in Reasons : Asks(t, why)
      PROVE SecretInv'
  BY <1>1, <1>2, StaysClean, MovesClean, AsksClean, SecretCallers
<1>3. CASE Tick \/ Pause \/ UNCHANGED vars
  BY <1>2, <1>3
     DEF Tick, Pause, Input, vars, grabberVars, rowVars, worldVars, sessionVars, seen
<1>4. CASE Mouse
  BY <1>2, <1>4
     DEF Mouse, Input, Scroll, Click, grabberVars, rowVars, sessionVars, seen, Callers,
         Reasons
<1>5. CASE Listens
  <2>1. UNCHANGED <<seen, requests, grabber, frames, session, opened>>
    BY <1>5 DEF Listens, Listen, HearSpeech, Announced, Works, grabberVars, rowVars,
                worldVars, sessionVars, seen
  <2>2. UNCHANGED caller \/ Asks("ambient", "speech_onset")
    BY <1>5 DEF Listens, Listen, HearSpeech, SpeechOnset, Announced
  <2> QED BY <1>2, <2>1, <2>2 DEF Callers, Reasons
<1>6. CASE PollStep \/ MouseStep
  <2>1. UNCHANGED <<seen, requests, grabber, frames, session, opened>>
    BY <1>6 DEF PollStep, MouseStep, Asking, grabberVars, rowVars, worldVars,
                sessionVars, seen
  <2>2. \/ Asks("poll", "window_change") \/ Asks("poll", "scroll_settle")
        \/ Moves("poll", "settling") \/ Moves("poll", "idle")
        \/ Moves("poll", "looking") \/ Moves("poll", "none") \/ Moves("mouse", "none")
    BY <1>6 DEF PollStep, MouseStep, SeesFocus, SeesScroll, ForgetsScroll, PollAgain,
                MouseEnds
  <2> QED BY <1>2, <2>1, <2>2 DEF Callers, Reasons, NotPassed, CallerStates
<1> QED
  BY <1>3, <1>4, <1>5, <1>6, SecretFocus, SecretStarts, SecretStops, SecretRequests,
     SecretCaptures DEF Next

\* Whatever windows there are and however the threads interleave, a window on the
\* exclusion list is captured only if it came to the foreground after the test.
THEOREM SecretAlways == Spec => []SecretOnlyIfMoved
<1>1. SecretInv => SecretOnlyIfMoved
  BY DEF SecretInv
<1> QED BY SecretInit, SecretNext, <1>1, PTL DEF Spec

-----------------------------------------------------------------------------
(***************************************************************************)
(* Speech.  A block that waits is later than all that the worker has seen, *)
(* and what the worker holds comes after all utterances, but for the block *)
(* at which the last of them was split from it.                            *)
(***************************************************************************)
Utterances == [start : Nat, audio : SUBSET Nat]

Spoken(i) == emitted[i].audio

\* May c be in the utterance that follows those emitted?
MayFollow(c) ==
  \A i \in 1..Len(emitted) : \A a \in Spoken(i) :
    a < c \/ (a = c /\ i = Len(emitted) /\ a - emitted[i].start >= Most)

\* What has been cut: emitted, or dropped as too short.
Uttered == (UNION {emitted[i].audio : i \in DOMAIN emitted}) \union short

Held == segment.audio \union ToSet(segment.preroll)

IsSegment(g) ==
  /\ DOMAIN g = {"speaking", "audio", "start", "quiet", "last", "preroll"}
  /\ g.audio \subseteq Nat /\ g.start \in Nat /\ g.last \in Nat /\ g.preroll \in Seq(Nat)

Waiting ==
  /\ now \in Nat /\ blocks \in Seq(Nat)
  /\ \A i \in 1..Len(blocks) : blocks[i] # Stop => segment.last < blocks[i] /\ blocks[i] <= now
  /\ \A i, j \in 1..Len(blocks) :
       i < j /\ blocks[i] # Stop /\ blocks[j] # Stop => blocks[i] < blocks[j]

Utters ==
  /\ emitted \in Seq(Utterances)
  /\ \A i \in 1..Len(emitted) : \A a \in Spoken(i) : a <= segment.last
  /\ UtterancesInOrder

Holds ==
  /\ IsSegment(segment) /\ segment.last <= now
  /\ ~segment.speaking => segment.audio = {}
  /\ segment.speaking => segment.preroll = <<>>
  /\ \A c \in Held : c <= segment.last /\ MayFollow(c)

HeardInv == Waiting /\ Holds /\ Utters /\ SpeechKept

LEMMA HeldSegment == Holds => /\ segment.audio \subseteq Nat /\ segment.start \in Nat
                              /\ segment.last \in Nat /\ segment.preroll \in Seq(Nat)
  BY DEF Holds, IsSegment

\* What leaves the queue and the microphone alone, and what the worker leaves alone.
LEMMA WaitingStays ==
  ASSUME Waiting, UNCHANGED <<blocks, segment>>, now' \in Nat, now <= now', Holds
  PROVE  Waiting'
  BY HeldSegment DEF Waiting

LEMMA HoldsStays ==
  ASSUME Holds, Utters, SpeechKept, UNCHANGED segmentVars, now \in Nat, now' \in Nat, now <= now'
  PROVE  Holds' /\ Utters' /\ SpeechKept'
<1>1. UNCHANGED <<segment, emitted, said, short>>
  BY DEF segmentVars
<1>2. Utters' /\ SpeechKept'
  BY <1>1 DEF Utters, Spoken, UtterancesInOrder, SpeechKept
<1>3. segment.last <= now'
  BY HeldSegment DEF Holds
<1>4. ASSUME NEW c \in Held' PROVE c <= segment'.last /\ MayFollow(c)'
  BY <1>1, <1>4 DEF Holds, Held, MayFollow, Spoken
<1> QED BY <1>1, <1>2, <1>3, <1>4 DEF Holds, IsSegment

LEMMA QueueGrows ==
  ASSUME Waiting, Holds, UNCHANGED segment, NEW b \in Nat, blocks' = Append(blocks, b),
         now' \in Nat, now <= now',
         b # Stop => now < b /\ b <= now'
  PROVE  Waiting'
<1>1. /\ now \in Nat /\ blocks \in Seq(Nat) /\ segment.last \in Nat /\ segment.last <= now
  BY HeldSegment DEF Waiting, Holds
<1>2. /\ blocks' \in Seq(Nat) /\ Len(blocks') = Len(blocks) + 1 /\ Len(blocks) \in Nat
      /\ \A i \in 1..Len(blocks) : blocks'[i] = blocks[i]
      /\ blocks'[Len(blocks) + 1] = b
  BY <1>1
<1>3. ASSUME NEW i \in 1..Len(blocks'), blocks'[i] # Stop
      PROVE  /\ segment.last < blocks'[i] /\ blocks'[i] <= now'
             /\ \/ i \in 1..Len(blocks) /\ blocks'[i] = blocks[i] /\ blocks[i] <= now
                \/ i = Len(blocks) + 1 /\ now < blocks'[i]
  <2>1. CASE i \in 1..Len(blocks)
    BY <1>1, <1>2, <1>3, <2>1 DEF Waiting
  <2>2. CASE i = Len(blocks) + 1
    BY <1>1, <1>2, <1>3, <2>2
  <2> QED BY <1>2, <2>1, <2>2
<1>4. ASSUME NEW i \in 1..Len(blocks'), NEW j \in 1..Len(blocks'), i < j,
             blocks'[i] # Stop, blocks'[j] # Stop
      PROVE  blocks'[i] < blocks'[j]
  <2>1. i \in 1..Len(blocks) /\ blocks'[i] = blocks[i] /\ blocks[i] <= now
    BY <1>2, <1>3, <1>4
  <2>2. CASE j \in 1..Len(blocks) /\ blocks'[j] = blocks[j]
    BY <1>4, <2>1, <2>2 DEF Waiting
  <2>3. CASE now < blocks'[j]
    <3>1. blocks'[i] \in Nat /\ blocks'[j] \in Nat
      BY <1>2, ElementOfSeq
    <3> QED BY <1>1, <2>1, <2>3, <3>1
  <2> QED BY <1>3, <1>4, <2>2, <2>3
<1> QED BY <1>2, <1>3, <1>4 DEF Waiting

\* The head of the queue goes, and the worker may have seen it.
LEMMA QueueShrinks ==
  ASSUME Waiting, blocks # <<>>, blocks' = Tail(blocks), now' = now,
         segment'.last = segment.last \/ (segment'.last = Head(blocks) /\ Head(blocks) # Stop)
  PROVE  Waiting'
<1>1. /\ now \in Nat /\ blocks \in Seq(Nat) /\ Len(blocks) \in Nat /\ 1 \in 1..Len(blocks)
      /\ Head(blocks) = blocks[1]
  BY DEF Waiting
<1>2. /\ blocks' \in Seq(Nat) /\ Len(blocks') = Len(blocks) - 1
      /\ \A i \in 1..Len(blocks') : /\ i + 1 \in 1..Len(blocks) /\ 1 < i + 1
                                     /\ blocks'[i] = blocks[i + 1]
  BY <1>1
<1>3. ASSUME NEW i \in 1..Len(blocks'), blocks'[i] # Stop
      PROVE  segment'.last < blocks'[i] /\ blocks'[i] <= now'
  BY <1>1, <1>2, <1>3 DEF Waiting
<1>4. ASSUME NEW i \in 1..Len(blocks'), NEW j \in 1..Len(blocks'), i < j,
             blocks'[i] # Stop, blocks'[j] # Stop
      PROVE  blocks'[i] < blocks'[j]
  BY <1>2, <1>4 DEF Waiting
<1> QED BY <1>1, <1>2, <1>3, <1>4 DEF Waiting

\* A block that is taken is later than all before it.
LEMMA Later ==
  ASSUME Waiting, Holds, Utters, NEW b, Takes(b)
  PROVE  /\ b \in Nat /\ segment.last < b /\ b <= now
         /\ \A i \in 1..Len(emitted) : \A a \in Spoken(i) : a \in Nat /\ a < b
         /\ \A c \in Held : c \in Nat /\ c < b
<1>1. blocks \in Seq(Nat) /\ blocks # <<>> /\ Head(blocks) = b /\ b # Stop /\ 1 \in 1..Len(blocks)
      /\ Head(blocks) = blocks[1]
  BY DEF Takes, Waiting
<1>2. b \in Nat /\ segment.last < b /\ b <= now /\ segment.last \in Nat
  BY <1>1, HeldSegment DEF Waiting
<1>3. ASSUME NEW i \in 1..Len(emitted), NEW a \in Spoken(i)
      PROVE  a \in Nat /\ a < b
  <2>1. emitted[i] \in Utterances
    BY ElementOfSeq DEF Utters
  <2> QED BY <1>2, <1>3, <2>1 DEF Utters, Utterances, Spoken
<1>4. ASSUME NEW c \in Held PROVE c \in Nat /\ c < b
  <2>1. c \in Nat
    BY <1>4, HeldSegment DEF Held, ToSet
  <2> QED BY <1>2, <1>4, <2>1 DEF Holds
<1> QED BY <1>2, <1>3, <1>4

\* An utterance of what may follow those emitted.
LEMMA Emits ==
  ASSUME emitted \in Seq(Utterances), UtterancesInOrder,
         NEW g, g.audio \subseteq Nat, g.start \in Nat, Emit(g),
         \A c \in g.audio : MayFollow(c)
  PROVE  /\ emitted' \in Seq(Utterances) /\ UtterancesInOrder'
         /\ \/ emitted' = emitted
            \/ /\ Len(emitted') = Len(emitted) + 1
               /\ \A i \in 1..Len(emitted) : emitted'[i] = emitted[i]
               /\ emitted'[Len(emitted')] = [start |-> g.start, audio |-> g.audio]
         /\ g.audio \subseteq Uttered' /\ Uttered \subseteq Uttered'
<1>1. CASE g.audio = {} \/ TooShort(g)
  <2>1. emitted' = emitted
    BY <1>1 DEF Emit
  <2>2. \A c \in g.audio : c \in short'
    BY <1>1 DEF Emit
  <2>4. short \subseteq short'
    BY DEF Emit
  <2>3. UtterancesInOrder'
    BY <2>1 DEF UtterancesInOrder
  <2>5. g.audio \subseteq Uttered' /\ Uttered \subseteq Uttered'
    BY <2>1, <2>2, <2>4 DEF Uttered
  <2> QED BY <2>1, <2>3, <2>5
<1>2. CASE ~(g.audio = {} \/ TooShort(g))
  <2> DEFINE u == [start |-> g.start, audio |-> g.audio]
             n == Len(emitted)
  <2>1. emitted' = Append(emitted, u) /\ u \in Utterances
    BY <1>2 DEF Emit, Utterances
  <2>2. u.start = g.start /\ u.audio = g.audio
    OBVIOUS
  <2> HIDE DEF u
  <2>3. /\ emitted' \in Seq(Utterances) /\ Len(emitted') = n + 1 /\ n \in Nat
        /\ \A i \in 1..n : emitted'[i] = emitted[i]
        /\ emitted'[n + 1] = u
        /\ DOMAIN emitted = 1..n /\ DOMAIN emitted' = 1..(n + 1)
    BY <2>1
  <2>4. UtterancesInOrder'
    <3> SUFFICES ASSUME NEW i \in 1..(n + 1), NEW j \in 1..(n + 1), i < j,
                        NEW a \in emitted'[i].audio, NEW b \in emitted'[j].audio
                 PROVE  \/ a < b
                        \/ a = b /\ j = i + 1 /\ a - emitted'[i].start >= Most
      BY <2>3 DEF UtterancesInOrder
    <3>1. i \in 1..n /\ emitted'[i] = emitted[i]
      BY <2>3
    <3>2. CASE j \in 1..n
      BY <2>3, <3>1, <3>2 DEF UtterancesInOrder
    <3>3. CASE j = n + 1
      <4>1. MayFollow(b)
        BY <2>2, <2>3, <3>3
      <4> QED BY <2>3, <3>1, <3>3, <4>1 DEF MayFollow, Spoken
    <3> QED BY <2>3, <3>2, <3>3
  <2>5. short \subseteq short'
    BY DEF Emit
  <2>6. /\ \A i \in DOMAIN emitted : i \in DOMAIN emitted' /\ emitted'[i] = emitted[i]
        /\ n + 1 \in DOMAIN emitted' /\ emitted'[n + 1].audio = g.audio
    BY <2>2, <2>3
  <2>7. g.audio \subseteq Uttered' /\ Uttered \subseteq Uttered'
    BY <2>5, <2>6 DEF Uttered
  <2> QED BY <2>3, <2>4, <2>7 DEF u
<1> QED BY <1>1, <1>2

\* A block is taken and no utterance comes of it.
LEMMA TakesIn ==
  ASSUME HeardInv, NEW b, Takes(b), now' = now, UNCHANGED emitted,
         IsSegment(segment'), segment'.last = b,
         ~segment'.speaking => segment'.audio = {},
         segment'.speaking => segment'.preroll = <<>>,
         Held' \subseteq Held \union {b}
  PROVE  Waiting' /\ Holds' /\ Utters'
<1>1. /\ b \in Nat /\ segment.last < b /\ b <= now
      /\ \A i \in 1..Len(emitted) : \A a \in Spoken(i) : a \in Nat /\ a < b
      /\ \A c \in Held : c \in Nat /\ c < b
  BY Later DEF HeardInv
<1>2. Waiting'
  BY QueueShrinks DEF HeardInv, Takes
<1>3. Utters'
  <2>1. \A i \in 1..Len(emitted') : \A a \in Spoken(i)' : a <= segment'.last
    BY <1>1 DEF Spoken
  <2>2. emitted' \in Seq(Utterances) /\ UtterancesInOrder'
    BY DEF HeardInv, Utters, UtterancesInOrder
  <2> QED BY <2>1, <2>2 DEF Utters
<1>4. ASSUME NEW c \in Held' PROVE c <= segment'.last /\ MayFollow(c)'
  <2>1. CASE c \in Held
    BY <1>1, <2>1 DEF HeardInv, Holds, MayFollow, Spoken
  <2>2. CASE c = b
    BY <1>1, <2>2 DEF MayFollow, Spoken
  <2> QED BY <1>4, <2>1, <2>2
<1> QED BY <1>1, <1>2, <1>3, <1>4 DEF Holds

\* A block is taken and ends an utterance; it may begin the next one when that
\* one is as long as they get.
LEMMA TakesOut ==
  ASSUME HeardInv, NEW b, Takes(b), now' = now,
         NEW g, g.audio = segment.audio \union {b}, g.start \in Nat, Emit(g),
         IsSegment(segment'), segment'.last = b,
         ~segment'.speaking => segment'.audio = {},
         segment'.speaking => segment'.preroll = <<>>,
         Held' = {} \/ (Held' = {b} /\ b - g.start >= Most)
  PROVE  /\ Waiting' /\ Holds' /\ Utters'
         /\ g.audio \subseteq Uttered' /\ Uttered \subseteq Uttered'
<1>1. /\ b \in Nat /\ segment.last < b /\ b <= now
      /\ \A i \in 1..Len(emitted) : \A a \in Spoken(i) : a \in Nat /\ a < b
      /\ \A c \in Held : c \in Nat /\ c < b
  BY Later DEF HeardInv
<1>2. Waiting'
  BY QueueShrinks DEF HeardInv, Takes
<1>3. \A c \in g.audio : c \in Nat /\ c <= b /\ MayFollow(c)
  <2>1. ASSUME NEW c \in segment.audio PROVE c \in Nat /\ c <= b /\ MayFollow(c)
    <3>1. c \in Held
      BY <2>1 DEF Held
    <3>2. MayFollow(c)
      BY <3>1 DEF HeardInv, Holds
    <3> QED BY <1>1, <3>1, <3>2
  <2>2. b <= b /\ MayFollow(b)
    BY <1>1 DEF MayFollow
  <2> QED BY <1>1, <2>1, <2>2
<1>4. emitted \in Seq(Utterances) /\ UtterancesInOrder
  BY DEF HeardInv, Utters
<1>5. /\ emitted' \in Seq(Utterances) /\ UtterancesInOrder'
      /\ \/ emitted' = emitted
         \/ /\ Len(emitted') = Len(emitted) + 1
            /\ \A i \in 1..Len(emitted) : emitted'[i] = emitted[i]
            /\ emitted'[Len(emitted')] = [start |-> g.start, audio |-> g.audio]
      /\ g.audio \subseteq Uttered' /\ Uttered \subseteq Uttered'
  BY <1>3, <1>4, Emits
<1>6. ASSUME NEW i \in 1..Len(emitted'), NEW a \in Spoken(i)'
      PROVE  /\ a \in Nat /\ a <= b
             /\ \/ a < b
                \/ a = b /\ i = Len(emitted') /\ emitted'[i].start = g.start
  <2>1. CASE i \in 1..Len(emitted) /\ emitted'[i] = emitted[i]
    BY <1>1, <1>6, <2>1 DEF Spoken
  <2>2. CASE i = Len(emitted') /\ emitted'[i] = [start |-> g.start, audio |-> g.audio]
    BY <1>1, <1>3, <1>6, <2>2 DEF Spoken
  <2>3. Len(emitted) \in Nat
    BY <1>4
  <2> QED BY <1>5, <2>1, <2>2, <2>3
<1>7. Utters'
  BY <1>5, <1>6 DEF Utters
<1>8. ASSUME NEW c \in Held' PROVE c <= segment'.last /\ MayFollow(c)'
  <2>1. c = b /\ b - g.start >= Most
    BY <1>8
  <2> QED BY <1>1, <1>6, <2>1 DEF MayFollow
<1> QED BY <1>1, <1>2, <1>5, <1>7, <1>8 DEF Holds

-----------------------------------------------------------------------------
\* What the worker does with a block.


LEMMA SpeechKeptIs == SpeechKept <=> said \subseteq Uttered \union segment.audio
  BY DEF SpeechKept, Uttered

LEMMA HeardStops ==
  ASSUME HeardInv, Stops, now' = now
  PROVE  HeardInv'
<1>1. /\ IsSegment(segment) /\ segment.audio \subseteq Nat /\ segment.start \in Nat
      /\ segment.last \in Nat /\ segment.preroll \in Seq(Nat) /\ segment.last <= now
  BY HeldSegment DEF HeardInv, Holds
<1>2. /\ segment' = segment \/ segment' = [segment EXCEPT !.audio = {}]
      /\ segment'.last = segment.last /\ said' = said
  BY <1>1 DEF Stops, IsSegment
<1>3. Waiting'
  BY <1>2, QueueShrinks DEF HeardInv, Stops
<1>4. CASE ~segment.speaking
  <2>1. UNCHANGED segmentVars
    BY <1>4 DEF Stops, segmentVars
  <2> QED BY <1>3, <2>1, HoldsStays DEF HeardInv, Waiting
<1>5. CASE segment.speaking
  <2>1. Emit(segment) /\ segment' = [segment EXCEPT !.audio = {}]
    BY <1>5 DEF Stops
  <2>2. /\ IsSegment(segment') /\ segment'.audio = {} /\ segment'.preroll = <<>>
        /\ segment'.speaking
    BY <1>1, <1>5, <2>1 DEF IsSegment, HeardInv, Holds
  <2>3. \A c \in segment.audio : c \in Nat /\ c <= segment.last /\ MayFollow(c)
    BY <1>1 DEF HeardInv, Holds, Held
  <2>4. emitted \in Seq(Utterances) /\ UtterancesInOrder
    BY DEF HeardInv, Utters
  <2>5. /\ emitted' \in Seq(Utterances) /\ UtterancesInOrder'
        /\ \/ emitted' = emitted
           \/ /\ Len(emitted') = Len(emitted) + 1
              /\ \A i \in 1..Len(emitted) : emitted'[i] = emitted[i]
              /\ emitted'[Len(emitted')] = [start |-> segment.start, audio |-> segment.audio]
        /\ segment.audio \subseteq Uttered' /\ Uttered \subseteq Uttered'
    BY <1>1, <2>1, <2>3, <2>4, Emits
  <2>6. \A i \in 1..Len(emitted') : \A a \in Spoken(i)' : a <= segment'.last
    <3>1. \A i \in 1..Len(emitted) : \A a \in Spoken(i) : a <= segment.last
      BY DEF HeardInv, Utters
    <3>2. Len(emitted) \in Nat
      BY <2>4
    <3> QED BY <1>2, <2>3, <2>5, <3>1, <3>2 DEF Spoken
  <2>7. Utters'
    BY <2>5, <2>6 DEF Utters
  <2>8. Holds'
    <3>1. Held' = {}
      BY <2>2 DEF Held, ToSet
    <3>2. segment'.last <= now'
      BY <1>1, <1>2
    <3> QED BY <2>2, <3>1, <3>2 DEF Holds
  <2>9. SpeechKept'
    BY <1>2, <2>5, SpeechKeptIs DEF HeardInv, SpeechKept, Uttered
  <2> QED BY <1>3, <2>7, <2>8, <2>9 DEF HeardInv
<1> QED BY <1>4, <1>5

LEMMA HeardDiscards ==
  ASSUME HeardInv, Discards, now' = now
  PROVE  HeardInv'
<1>1. UNCHANGED segmentVars /\ now \in Nat
  BY DEF Discards, HeardInv, Waiting
<1>2. segment' = segment
  BY <1>1 DEF segmentVars
<1>3. Waiting'
  BY <1>2, QueueShrinks DEF HeardInv, Discards, Takes
<1> QED BY <1>1, <1>3, HoldsStays DEF HeardInv

LEMMA HeardStaysIdle ==
  ASSUME HeardInv, StaysIdle, now' = now
  PROVE  HeardInv'
<1> PICK b \in ToSet(blocks) :
      /\ ~segment.speaking /\ Takes(b)
      /\ LET all == Append(segment.preroll, b)
         IN  segment' = [segment EXCEPT !.last = b,
                           !.preroll = IF Len(all) > Preroll THEN Tail(all) ELSE all]
      /\ UNCHANGED <<emitted, said, short>>
  BY DEF StaysIdle
<1> DEFINE all == Append(segment.preroll, b)
           pre == IF Len(all) > Preroll THEN Tail(all) ELSE all
<1>1. b \in Nat
  BY Later DEF HeardInv
<1>2. /\ IsSegment(segment) /\ segment.audio \subseteq Nat /\ segment.start \in Nat
      /\ segment.last \in Nat /\ segment.preroll \in Seq(Nat)
  BY HeldSegment DEF HeardInv, Holds
<1>3. pre \in Seq(Nat) /\ ToSet(pre) \subseteq ToSet(segment.preroll) \union {b}
  <2>1. /\ all \in Seq(Nat) /\ Len(all) = Len(segment.preroll) + 1
        /\ \A i \in 1..Len(segment.preroll) : all[i] = segment.preroll[i]
        /\ all[Len(segment.preroll) + 1] = b
        /\ DOMAIN all = 1..Len(all) /\ DOMAIN segment.preroll = 1..Len(segment.preroll)
        /\ Len(segment.preroll) \in Nat /\ all # <<>>
    BY <1>1, <1>2
  <2> HIDE DEF all
  <2>2. ToSet(all) \subseteq ToSet(segment.preroll) \union {b}
    BY <2>1 DEF ToSet
  <2>3. /\ Tail(all) \in Seq(Nat) /\ DOMAIN Tail(all) = 1..(Len(all) - 1)
        /\ \A i \in 1..(Len(all) - 1) : i + 1 \in 1..Len(all) /\ Tail(all)[i] = all[i + 1]
    BY <2>1
  <2>4. ToSet(Tail(all)) \subseteq ToSet(all)
    BY <2>1, <2>3 DEF ToSet
  <2> QED BY <2>1, <2>2, <2>3, <2>4
<1> HIDE DEF pre
<1>4. segment' = [segment EXCEPT !.last = b, !.preroll = pre]
  BY DEF pre
<1>5. /\ IsSegment(segment') /\ segment'.last = b /\ segment'.preroll = pre
      /\ segment'.speaking = segment.speaking /\ segment'.audio = segment.audio
  BY <1>1, <1>2, <1>3, <1>4 DEF IsSegment
<1>6. segment'.audio = {}
  BY <1>5 DEF HeardInv, Holds
<1>7. Held' \subseteq Held \union {b}
  BY <1>3, <1>5 DEF Held
<1>8. Waiting' /\ Holds' /\ Utters'
  <2>1. ~segment'.speaking
    BY <1>5
  <2> QED BY <1>5, <1>6, <1>7, <2>1, TakesIn
<1>9. SpeechKept'
  BY <1>5 DEF HeardInv, SpeechKept
<1> QED BY <1>8, <1>9 DEF HeardInv

LEMMA HeardOnset ==
  ASSUME HeardInv, Onset, now' = now
  PROVE  HeardInv'
<1> PICK b \in ToSet(blocks) :
      /\ ~segment.speaking /\ Takes(b)
      /\ said' = said \union {b}
      /\ segment' =
           [speaking |-> TRUE, audio |-> ToSet(segment.preroll) \union {b},
            start |-> Head(Append(segment.preroll, b)),
            quiet |-> 0, last |-> b, preroll |-> <<>>]
      /\ UNCHANGED <<emitted, short>>
  BY DEF Onset
<1>1. b \in Nat
  BY Later DEF HeardInv
<1>2. segment.preroll \in Seq(Nat) /\ segment.audio = {}
  BY HeldSegment DEF HeardInv, Holds
<1>3. ToSet(segment.preroll) \subseteq Nat
  BY <1>2 DEF ToSet
<1>4. Head(Append(segment.preroll, b)) \in Nat
  <2>1. Append(segment.preroll, b) \in Seq(Nat) /\ Append(segment.preroll, b) # <<>>
    BY <1>1, <1>2
  <2> QED BY <2>1
<1>5. /\ IsSegment(segment') /\ segment'.last = b /\ segment'.preroll = <<>>
      /\ segment'.speaking /\ segment'.audio = ToSet(segment.preroll) \union {b}
  BY <1>1, <1>3, <1>4 DEF IsSegment
<1>6. Held' \subseteq Held \union {b}
  <2>1. ToSet(<<>>) = {}
    BY DEF ToSet
  <2> QED BY <1>5, <2>1 DEF Held
<1>7. Waiting' /\ Holds' /\ Utters'
  BY <1>5, <1>6, TakesIn
<1>8. SpeechKept'
  BY <1>2, <1>5 DEF HeardInv, SpeechKept
<1> QED BY <1>7, <1>8 DEF HeardInv

LEMMA HeardSpeaks ==
  ASSUME HeardInv, NEW speech \in BOOLEAN, Speaks(speech), now' = now
  PROVE  HeardInv'
<1> PICK b \in ToSet(blocks) :
      LET g == Longer(segment, b, speech)
      IN  /\ segment.speaking
          /\ Takes(b)
          /\ said' = IF speech THEN said \union {b} ELSE said
          /\ CASE Closes(g, b, speech) ->
                    Emit(g) /\ segment' = [Fresh EXCEPT !.start = g.start, !.last = b]
               [] ~Closes(g, b, speech) /\ b - g.start >= Most ->
                    Emit(g) /\ segment' = Rest(g, b)
               [] OTHER -> segment' = g /\ UNCHANGED <<emitted, short>>
  BY DEF Speaks
<1> DEFINE g == Longer(segment, b, speech)
<1>1. b \in Nat
  BY Later DEF HeardInv
<1>2. /\ IsSegment(segment) /\ segment.audio \subseteq Nat /\ segment.start \in Nat
      /\ segment.last \in Nat /\ segment.preroll = <<>> /\ segment.speaking
  BY HeldSegment DEF HeardInv, Holds
<1>3. /\ IsSegment(g) /\ g.audio = segment.audio \union {b} /\ g.start = segment.start
      /\ g.last = b /\ g.preroll = <<>> /\ g.speaking
  BY <1>1, <1>2 DEF Longer, IsSegment
<1>4. said' \subseteq said \union {b}
  OBVIOUS
<1>5. \/ Emit(g) /\ segment' = [Fresh EXCEPT !.start = g.start, !.last = b]
      \/ b - g.start >= Most /\ Emit(g) /\ segment' = Rest(g, b)
      \/ segment' = g /\ UNCHANGED <<emitted, short>>
  OBVIOUS
<1>6. Takes(b)
  OBVIOUS
<1>7. ToSet(<<>>) = {}
  BY DEF ToSet
<1> HIDE DEF g
<1>8. CASE segment' = g /\ UNCHANGED <<emitted, short>>
  <2>1. Held' \subseteq Held \union {b}
    BY <1>3, <1>7, <1>8 DEF Held
  <2>2. Waiting' /\ Holds' /\ Utters'
    BY <1>3, <1>6, <1>8, <2>1, TakesIn
  <2>3. SpeechKept'
    BY <1>3, <1>4, <1>8 DEF HeardInv, SpeechKept
  <2> QED BY <2>2, <2>3 DEF HeardInv
<1>9. ASSUME Emit(g), IsSegment(segment'), segment'.last = b, segment'.preroll = <<>>,
             \/ segment'.audio = {} /\ ~segment'.speaking
             \/ (segment'.audio = {b} /\ segment'.speaking /\ b - g.start >= Most)
      PROVE  HeardInv'
  <2>1. Held' = segment'.audio
    BY <1>7, <1>9 DEF Held
  <2>2. g.start \in Nat
    BY <1>2, <1>3
  <2>3. /\ Waiting' /\ Holds' /\ Utters'
        /\ g.audio \subseteq Uttered' /\ Uttered \subseteq Uttered'
    <3>1. Held' = {} \/ (Held' = {b} /\ b - g.start >= Most)
      BY <1>9, <2>1
    <3> QED BY <1>3, <1>6, <1>9, <2>2, <3>1, TakesOut
  <2>4. SpeechKept'
    BY <1>3, <1>4, <2>3 DEF HeardInv, SpeechKept, Uttered
  <2> QED BY <2>3, <2>4 DEF HeardInv
<1>10. CASE Emit(g) /\ segment' = [Fresh EXCEPT !.start = g.start, !.last = b]
  <2>1. /\ IsSegment(segment') /\ segment'.last = b /\ segment'.preroll = <<>>
        /\ segment'.audio = {} /\ ~segment'.speaking
    BY <1>1, <1>2, <1>3, <1>10 DEF Fresh, IsSegment
  <2> QED BY <1>9, <1>10, <2>1
<1>11. CASE b - g.start >= Most /\ Emit(g) /\ segment' = Rest(g, b)
  <2>1. /\ IsSegment(segment') /\ segment'.last = b /\ segment'.preroll = <<>>
        /\ segment'.audio = {b} /\ segment'.speaking
    BY <1>1, <1>3, <1>11 DEF Rest, IsSegment
  <2> QED BY <1>9, <1>11, <2>1
<1> QED BY <1>5, <1>8, <1>10, <1>11

-----------------------------------------------------------------------------
\* The queue, as the microphone and the controller use it.

LEMMA HeardTick ==
  ASSUME HeardInv, Tick
  PROVE  HeardInv'
<1>1. now \in Nat /\ now' = now + 1 /\ UNCHANGED segmentVars
  BY DEF Tick, Feed, ambientVars, HeardInv, Waiting
<1>2. UNCHANGED segment /\ now' \in Nat /\ now <= now' /\ now < now + 1 /\ now + 1 \in Nat
  BY <1>1 DEF segmentVars
<1>3. UNCHANGED blocks \/ blocks' = Append(blocks, now + 1)
  BY DEF Tick, Feed, ambientVars
<1>4. Waiting'
  BY <1>1, <1>2, <1>3, WaitingStays, QueueGrows DEF HeardInv
<1> QED BY <1>1, <1>2, <1>4, HoldsStays DEF HeardInv

LEMMA HeardStays ==
  ASSUME HeardInv, UNCHANGED <<segmentVars, now>>,
         \/ UNCHANGED blocks
         \/ blocks' = Append(blocks, Stop)
         \/ blocks # <<>> /\ blocks' = Tail(blocks)
  PROVE  HeardInv'
<1>1. /\ now \in Nat /\ now' = now /\ now' \in Nat /\ now <= now'
      /\ UNCHANGED segmentVars /\ UNCHANGED segment
  BY DEF HeardInv, Waiting, segmentVars
<1>2. Waiting'
  <2>1. CASE UNCHANGED blocks
    BY <1>1, <2>1, WaitingStays DEF HeardInv
  <2>2. CASE blocks' = Append(blocks, Stop)
    BY <1>1, <2>2, QueueGrows DEF HeardInv, Stop
  <2>3. CASE blocks # <<>> /\ blocks' = Tail(blocks)
    BY <1>1, <2>3, QueueShrinks DEF HeardInv
  <2> QED BY <2>1, <2>2, <2>3
<1> QED BY <1>1, <1>2, HoldsStays DEF HeardInv

LEMMA HeardInit == Init => HeardInv
<1> SUFFICES ASSUME Init PROVE HeardInv
  OBVIOUS
<1>1. /\ now = 1 /\ blocks = <<>> /\ emitted = <<>> /\ said = {} /\ segment = Fresh
  BY DEF Init, AmbientInit
<1>2. Waiting
  BY <1>1 DEF Waiting
<1>3. Utters
  BY <1>1 DEF Utters, UtterancesInOrder
<1>4. Holds
  <2>1. Held = {}
    BY <1>1 DEF Held, ToSet, Fresh
  <2> QED BY <1>1, <2>1 DEF Holds, IsSegment, Fresh
<1> QED BY <1>1, <1>2, <1>3, <1>4 DEF HeardInv, SpeechKept

\* Only the worker cuts; the others take from the queue, add the sentinel to it, or
\* leave it alone.
LEMMA HeardNext == HeardInv /\ [Next]_vars => HeardInv'
<1> SUFFICES ASSUME HeardInv, [Next]_vars PROVE HeardInv'
  OBVIOUS
<1>1. CASE Tick
  BY <1>1, HeardTick
<1>2. CASE UNCHANGED <<blocks, segmentVars, now>>
  BY <1>2, HeardStays
<1>3. CASE Listens
  <2>1. CASE HearSpeech
    BY <2>1, HeardOnset DEF HearSpeech, Works, worldVars
  <2>2. CASE Announced
    BY <1>2, <2>2 DEF Announced, Works, worldVars
  <2>3. CASE Listen
    BY <1>2, <2>3, HeardStops, HeardDiscards, HeardStaysIdle, HeardSpeaks
       DEF Listen, Works, worldVars, Load
  <2> QED BY <1>3, <2>1, <2>2, <2>3 DEF Listens
<1>4. CASE StopAmbient
  <2>1. UNCHANGED now
    BY <1>4 DEF StopAmbient, Step, worldVars
  <2>2. UNCHANGED ambientVars \/ Put(Stop) \/ DrainOne
    BY <1>4 DEF StopAmbient
  <2> QED BY <2>1, <2>2, HeardStays DEF ambientVars, Put, DrainOne
<1>5. CASE AmbientJoined \/ StopTriggers \/ StopGrabber \/ CloseSession
  BY <1>2, <1>5
     DEF AmbientJoined, StopTriggers, StopGrabber, CloseSession, StopListening, Step,
         worldVars, ambientVars
<1>6. CASE StartSession \/ StopSession
  BY <1>2, <1>6 DEF StartSession, StopSession, StartListening, Step, worldVars, ambientVars
<1>7. CASE Focus \/ Mouse \/ Pause
  BY <1>2, <1>7 DEF Focus, Mouse, Pause, Input, ambientVars
<1>8. CASE PollStep \/ MouseStep
  BY <1>2, <1>8 DEF PollStep, MouseStep, Asking, worldVars, ambientVars
<1>9. CASE \E t \in Callers : Requesting(t)
  BY <1>2, <1>9
     DEF Requesting, Refused, Checks, Notes, Weighs, Submits, Asking, worldVars, ambientVars
<1>10. CASE Captures
  BY <1>2, <1>10
     DEF Captures, GrabStep, Passes, WriteBlob, StoreRow, Grabbing, worldVars, ambientVars
<1>11. CASE UNCHANGED vars
  BY <1>2, <1>11 DEF vars, worldVars, ambientVars
<1> QED
  BY <1>1, <1>3, <1>4, <1>5, <1>6, <1>7, <1>8, <1>9, <1>10, <1>11 DEF Next, Stopping

\* However the blocks come, whatever the detector says of them, and however often
\* listening stops in the middle of a sentence, utterances follow one another and
\* share audio only where one was split for its length.
THEOREM InOrderAlways == Spec => []UtterancesInOrder
<1>1. HeardInv => UtterancesInOrder
  BY DEF HeardInv, Utters
<1> QED BY HeardInit, HeardNext, <1>1, PTL DEF Spec

\* What the worker heard as speech is never lost between the queue and the
\* utterances, the last words of a session included.
THEOREM KeptAlways == Spec => []SpeechKept
<1>1. HeardInv => SpeechKept
  BY DEF HeardInv
<1> QED BY HeardInit, HeardNext, <1>1, PTL DEF Spec

-----------------------------------------------------------------------------
(***************************************************************************)
(* Sessions.  There is no capture thread without a session, and a session  *)
(* is only closed once the thread has ended: what the thread holds was     *)
(* taken in the session that is open.                                      *)
(***************************************************************************)
IsGrabber ==
  /\ DOMAIN grabber = {"at", "why", "moves", "image", "app", "taken", "into"}
  /\ grabber.at \in GrabberStates

Owned ==
  /\ session = 0 \/ user = "closing" => grabber.at = "none"
  /\ user # "idle" => session # 0
  /\ grabber.at = "grabbing" => grabber.image = "none"
  /\ grabber.at \in {"framed", "named", "storing"} /\ grabber.image # "none"
     => grabber.taken.session = session
  /\ grabber.at = "storing" => grabber.into = session /\ grabber.image # "none"

FramesInv == opened \in Nat /\ IsGrabber /\ Owned /\ FramesOfTheirSession

LEMMA FramesInit == Init => FramesInv
  BY DEF Init, GrabberInit, Idle, FramesInv, IsGrabber, Owned, FramesOfTheirSession,
         GrabberStates

\* The capture thread lets go of what it has.
LEMMA FramesWaits ==
  ASSUME FramesInv, grabber.at # "none", Waits, UNCHANGED sessionVars, FramesOfTheirSession'
  PROVE  FramesInv'
  BY DEF FramesInv, IsGrabber, Owned, Waits, Idle, GrabberStates, sessionVars

LEMMA FramesCaptures ==
  ASSUME FramesInv, Captures
  PROVE  FramesInv'
<1>1. UNCHANGED sessionVars /\ UNCHANGED <<user, session, opened>>
  BY DEF Captures, GrabStep, Passes, WriteBlob, StoreRow, Grabbing, sessionVars
<1>2. CASE GrabStep
  <2>1. FramesOfTheirSession'
    BY <1>2 DEF GrabStep, rowVars, FramesInv, FramesOfTheirSession
  <2>2. IsGrabber'
    BY <1>2
       DEF GrabStep, TakeRequest, GrabsNothing, Grabs, Names, FramesInv, IsGrabber, Idle,
           GrabberStates
  <2>3. Owned'
    <3>1. CASE TakeRequest
      BY <1>1, <3>1 DEF TakeRequest, FramesInv, Owned, Idle
    <3>2. CASE GrabsNothing
      BY <1>1, <3>2 DEF GrabsNothing, FramesInv, IsGrabber, Owned
    <3>3. CASE Grabs(window, [moves |-> moves, session |-> session])
      BY <1>1, <3>3 DEF Grabs, FramesInv, IsGrabber, Owned
    <3>4. CASE Names(window)
      BY <1>1, <3>4 DEF Names, FramesInv, IsGrabber, Owned
    <3> QED BY <1>2, <3>1, <3>2, <3>3, <3>4 DEF GrabStep
  <2> QED BY <1>1, <2>1, <2>2, <2>3 DEF FramesInv
<1>3. CASE Passes
  BY <1>1, <1>3, FramesWaits DEF Passes, rowVars, FramesInv, FramesOfTheirSession
<1>4. CASE WriteBlob
  <2>1. FramesOfTheirSession'
    BY <1>4 DEF WriteBlob, FramesInv, FramesOfTheirSession
  <2>2. CASE Waits
    BY <1>1, <1>4, <2>1, <2>2, FramesWaits DEF WriteBlob
  <2>3. CASE grabber' = [grabber EXCEPT !.at = "storing", !.into = session]
    BY <1>1, <1>4, <2>1, <2>3
       DEF WriteBlob, FramesInv, IsGrabber, Owned, GrabberStates
  <2> QED BY <1>4, <2>2, <2>3 DEF WriteBlob
<1>5. CASE StoreRow
  <2>1. session # 0 /\ grabber.into = session /\ grabber.taken.session = session
    BY <1>5 DEF StoreRow, FramesInv, Owned
  <2>2. FramesOfTheirSession'
    BY <1>5, <2>1 DEF StoreRow, FramesInv, FramesOfTheirSession
  <2> QED BY <1>1, <1>5, <2>2, FramesWaits DEF StoreRow
<1> QED BY <1>2, <1>3, <1>4, <1>5 DEF Captures

LEMMA FramesStays ==
  ASSUME FramesInv, UNCHANGED <<session, opened, grabber, frames>>,
         user' = user \/ (session # 0 /\ user' # "closing")
  PROVE  FramesInv'
  BY DEF FramesInv, IsGrabber, Owned, FramesOfTheirSession

LEMMA FramesStops ==
  ASSUME FramesInv, StopSession \/ Stopping
  PROVE  FramesInv'
<1>1. CASE StopSession \/ StopAmbient \/ AmbientJoined \/ StopTriggers
  BY <1>1, FramesStays
     DEF StopSession, StopAmbient, AmbientJoined, StopTriggers, Step, Goes, Others,
         grabberVars, rowVars, FramesInv, Owned
<1>2. CASE StopGrabber
  BY <1>2, FramesStays
     DEF StopGrabber, Submit, DropOne, Step, Goes, grabberVars, rowVars, FramesInv,
         IsGrabber, Owned, FramesOfTheirSession
<1>3. CASE CloseSession
  <2>1. /\ session' = 0 /\ user' = "idle" /\ grabber' = grabber /\ grabber.at = "none"
        /\ UNCHANGED <<opened, frames>>
    BY <1>3 DEF CloseSession, Goes, Others, grabberVars, rowVars, FramesInv, Owned
  <2> QED BY <2>1 DEF FramesInv, IsGrabber, Owned, FramesOfTheirSession
<1> QED BY <1>1, <1>2, <1>3 DEF Stopping

LEMMA FramesNext == FramesInv /\ [Next]_vars => FramesInv'
<1> SUFFICES ASSUME FramesInv, [Next]_vars PROVE FramesInv'
  OBVIOUS
<1>1. CASE UNCHANGED <<user, session, opened, grabber, frames>>
  BY <1>1, FramesStays
<1>2. CASE StartSession
  <2>1. /\ session = 0 /\ session' = opened + 1 /\ opened' = opened + 1 /\ user' = "idle"
        /\ grabber.at = "none" /\ grabber' = Idle /\ frames' = frames /\ opened \in Nat
    BY <1>2 DEF StartSession, StartGrabbing, Goes, FramesInv, Owned
  <2> QED BY <2>1 DEF FramesInv, IsGrabber, Owned, FramesOfTheirSession, Idle, GrabberStates
<1>3. CASE StopSession \/ Stopping
  BY <1>3, FramesStops
<1>4. CASE Captures
  BY <1>4, FramesCaptures
<1>5. CASE Tick \/ Focus \/ Mouse \/ Pause
  BY <1>1, <1>5
     DEF Tick, Focus, Mouse, Pause, Input, sessionVars, grabberVars, rowVars
<1>6. CASE Listens
  BY <1>1, <1>6
     DEF Listens, Listen, HearSpeech, Announced, Works, sessionVars, grabberVars, rowVars
<1>7. CASE PollStep \/ MouseStep
  BY <1>1, <1>7 DEF PollStep, MouseStep, Asking, sessionVars, grabberVars, rowVars
<1>8. ASSUME NEW t \in Callers, Requesting(t) PROVE FramesInv'
  BY <1>1, <1>8
     DEF Requesting, Refused, Checks, Notes, Weighs, Submits, Submit, Asking, sessionVars,
         grabberVars, rowVars
<1>9. CASE UNCHANGED vars
  BY <1>1, <1>9 DEF vars, sessionVars, grabberVars, rowVars
<1> QED BY <1>2, <1>3, <1>4, <1>5, <1>6, <1>7, <1>8, <1>9 DEF Next

\* However sessions follow one another and wherever the capture thread is when one
\* is stopped, a keyframe is stored in the session it was taken in.
THEOREM FramesAlways == Spec => []FramesOfTheirSession
<1>1. FramesInv => FramesOfTheirSession
  BY DEF FramesInv
<1> QED BY FramesInit, FramesNext, <1>1, PTL DEF Spec
=============================================================================
