--------------------------- MODULE ArbiterProofs ---------------------------
(***************************************************************************)
(* The safety of the ASR arbiter, for any number of jobs, calls and places *)
(* in the queue.                                                           *)
(*                                                                         *)
(* Jobs are numbered in the order they are submitted in, and move along    *)
(* one line: posted, queued, in hand, answered.  The invariant is that     *)
(* each part of the line holds smaller numbers than those behind it, and   *)
(* that what is evicted is smaller than all that still waits.              *)
(***************************************************************************)
EXTENDS Arbiter, FiniteSetTheorems, TLAPS

Waiting == JobsIn(queue) \union JobsIn(posted)

Before(X, Y) == \A x \in X, y \in Y : x < y

\* Like Rising, the sentinel apart.
JobsRise(s) ==
  \A i, j \in 1..Len(s) : i < j /\ s[i] # Stop /\ s[j] # Stop => s[i] < s[j]

InLine ==
  /\ JobsRise(posted) /\ JobsRise(queue) /\ JobsRise(texts)
  /\ Before(JobsIn(queue), JobsIn(posted))
  /\ Before(InHand, Waiting)
  /\ Before(JobsIn(texts), InHand \union Waiting)
  /\ Before(evicted, Waiting)
  /\ Waiting \union InHand \union JobsIn(texts) \union evicted \subseteq 1..nsub

Everywhere ==
  JobsIn(posted) \union JobsIn(queue) \union InHand \union JobsIn(texts)
    \union failed \union evicted

\* The sentinel and the cancellation of the worker come with stop() only.
Accounts ==
  stopping = "no" =>
    /\ \A i \in 1..Len(queue) : queue[i] # Stop
    /\ 1..nsub \subseteq Everywhere
    /\ IsFiniteSet(evicted) /\ dropped = Cardinality(evicted)

Inv == TypeOK /\ InLine /\ Accounts

-----------------------------------------------------------------------------
\* Sequences of jobs and the sentinel.

Entries == Jobs \union {Stop}

LEMMA AppendJobs ==
  ASSUME NEW s \in Seq(Entries), NEW x \in Entries
  PROVE  /\ Append(s, x) \in Seq(Entries)
         /\ Len(s) \in Nat /\ Len(Append(s, x)) = Len(s) + 1
         /\ JobsIn(Append(s, x)) = JobsIn(s) \union ({x} \ {Stop})
         /\ JobsRise(s) /\ Before(JobsIn(s), {x} \ {Stop}) => JobsRise(Append(s, x))
  <1>1. /\ Len(s) \in Nat /\ Len(Append(s, x)) = Len(s) + 1
        /\ \A i \in 1..Len(s) : Append(s, x)[i] = s[i]
        /\ Append(s, x)[Len(s) + 1] = x
        /\ Append(s, x) \in Seq(Entries)
    OBVIOUS
  <1>2. 1..(Len(s) + 1) = 1..Len(s) \union {Len(s) + 1}
    BY <1>1
  <1>3. JobsIn(Append(s, x)) = JobsIn(s) \union ({x} \ {Stop})
    BY <1>1, <1>2 DEF JobsIn
  <1>4. ASSUME JobsRise(s), Before(JobsIn(s), {x} \ {Stop})
        PROVE  JobsRise(Append(s, x))
    <2> SUFFICES ASSUME NEW i \in 1..(Len(s) + 1), NEW j \in 1..(Len(s) + 1), i < j,
                        Append(s, x)[i] # Stop, Append(s, x)[j] # Stop
                 PROVE  Append(s, x)[i] < Append(s, x)[j]
      BY <1>1 DEF JobsRise
    <2>1. i \in 1..Len(s)
      BY <1>1
    <2>2. CASE j \in 1..Len(s)
      BY <1>1, <1>4, <2>1, <2>2 DEF JobsRise
    <2>3. CASE j = Len(s) + 1
      BY <1>1, <1>4, <2>1, <2>3 DEF Before, JobsIn
    <2> QED BY <1>1, <1>2, <2>2, <2>3
  <1> QED BY <1>1, <1>3, <1>4

LEMMA TailJobs ==
  ASSUME NEW s \in Seq(Entries), s # <<>>
  PROVE  /\ Tail(s) \in Seq(Entries) /\ Head(s) \in Entries
         /\ Len(s) \in Nat /\ Len(Tail(s)) = Len(s) - 1
         /\ JobsIn(s) = JobsIn(Tail(s)) \union ({Head(s)} \ {Stop})
         /\ JobsRise(s) => /\ JobsRise(Tail(s))
                           /\ Before({Head(s)} \ {Stop}, JobsIn(Tail(s)))
  <1>1. /\ Len(s) \in Nat /\ Len(s) >= 1 /\ Len(Tail(s)) = Len(s) - 1
        /\ Tail(s) \in Seq(Entries)
        /\ \A i \in 1..(Len(s) - 1) : Tail(s)[i] = s[i + 1]
        /\ Head(s) = s[1] /\ Head(s) \in Entries
    OBVIOUS
  <1>2. /\ \A i \in 1..Len(Tail(s)) : i + 1 \in 1..Len(s) /\ Tail(s)[i] = s[i + 1]
        /\ \A i \in 1..Len(s) : i = 1 \/ (i - 1 \in 1..Len(Tail(s))
                                          /\ Tail(s)[i - 1] = s[i])
        /\ 1 \in 1..Len(s)
    BY <1>1
  <1>3. JobsIn(s) = JobsIn(Tail(s)) \union ({Head(s)} \ {Stop})
    <2>1. ASSUME NEW i \in 1..Len(s)
          PROVE  s[i] \in {Tail(s)[k] : k \in 1..Len(Tail(s))} \union {Head(s)}
      BY <1>1, <1>2
    <2>2. ASSUME NEW i \in 1..Len(Tail(s))
          PROVE  Tail(s)[i] \in {s[k] : k \in 1..Len(s)}
      BY <1>2
    <2>3. Head(s) \in {s[k] : k \in 1..Len(s)}
      BY <1>1, <1>2
    <2> QED BY <2>1, <2>2, <2>3 DEF JobsIn
  <1>4. ASSUME JobsRise(s) PROVE JobsRise(Tail(s))
    <2> SUFFICES ASSUME NEW i \in 1..Len(Tail(s)), NEW j \in 1..Len(Tail(s)), i < j,
                        Tail(s)[i] # Stop, Tail(s)[j] # Stop
                 PROVE  Tail(s)[i] < Tail(s)[j]
      BY DEF JobsRise
    <2>1. i + 1 \in 1..Len(s) /\ j + 1 \in 1..Len(s) /\ i + 1 < j + 1
      BY <1>2
    <2> QED BY <1>2, <1>4, <2>1 DEF JobsRise
  <1>5. ASSUME JobsRise(s) PROVE Before({Head(s)} \ {Stop}, JobsIn(Tail(s)))
    <2> SUFFICES ASSUME Head(s) # Stop, NEW i \in 1..Len(Tail(s)), Tail(s)[i] # Stop
                 PROVE  Head(s) < Tail(s)[i]
      BY DEF Before, JobsIn
    <2>1. i + 1 \in 1..Len(s) /\ 1 < i + 1
      BY <1>2
    <2> QED BY <1>1, <1>2, <1>5, <2>1 DEF JobsRise
  <1> QED BY <1>1, <1>3, <1>4, <1>5

-----------------------------------------------------------------------------
\* Types.

LEMMA TypeInit == Init => TypeOK
  BY ArbiterAssumption DEF Init, TypeOK, WorkerPcs

LEMMA PullsType ==
  ASSUME TypeOK, Pulls
  PROVE  /\ queue' \in Seq(Entries) /\ Len(queue') <= Depth
         /\ worker' \in WorkerPcs /\ job' \in Jobs \union {0}
         /\ job' # 0 <=> worker' \in {"held", "woken", "asking"}
  <1> USE DEF TypeOK, Entries
  <1>1. CASE queue = <<>> /\ worker' = "getting" /\ job' = 0 /\ UNCHANGED queue
    BY <1>1 DEF WorkerPcs
  <1>2. CASE queue # <<>> /\ queue' = Tail(queue) /\ job' = Head(queue)
             /\ worker' = IF Head(queue) = Stop THEN "done"
                          ELSE IF idle THEN "asking" ELSE "held"
    <2>1. /\ Tail(queue) \in Seq(Entries) /\ Head(queue) \in Entries
          /\ Len(Tail(queue)) = Len(queue) - 1 /\ Len(queue) \in Nat
      BY <1>2, TailJobs
    <2>2. Len(queue') <= Depth
      BY <1>2, <2>1, ArbiterAssumption
    <2>3. job' \in Jobs \union {0} /\ worker' \in WorkerPcs
      BY <1>2, <2>1 DEF WorkerPcs, Stop
    <2>4. job' # 0 <=> worker' \in {"held", "woken", "asking"}
      BY <1>2, <2>1 DEF Jobs, Stop
    <2> QED BY <1>2, <2>1, <2>2, <2>3, <2>4
  <1> QED BY <1>1, <1>2 DEF Pulls

\* Both callers of put_nowait keep the queue within its depth.
LEMMA RoomMade ==
  ASSUME TypeOK, NEW x \in Entries
  PROVE  /\ Len(queue) < Depth =>
              Append(queue, x) \in Seq(Entries) /\ Len(Append(queue, x)) <= Depth
         /\ ~(Len(queue) < Depth) =>
              /\ queue # <<>>
              /\ Append(Tail(queue), x) \in Seq(Entries)
              /\ Len(Append(Tail(queue), x)) <= Depth
              /\ Head(queue) \in Entries
  <1>1. queue \in Seq(Entries) /\ Len(queue) \in Nat /\ Len(queue) <= Depth
        /\ Depth \in Nat \ {0}
    BY ArbiterAssumption DEF TypeOK, Entries
  <1>2. ASSUME Len(queue) < Depth
        PROVE  Append(queue, x) \in Seq(Entries) /\ Len(Append(queue, x)) <= Depth
    BY <1>1, <1>2, AppendJobs
  <1>3. ASSUME ~(Len(queue) < Depth)
        PROVE  /\ queue # <<>>
               /\ Append(Tail(queue), x) \in Seq(Entries)
               /\ Len(Append(Tail(queue), x)) <= Depth
               /\ Head(queue) \in Entries
    <2>1. queue # <<>>
      BY <1>1, <1>3
    <2>2. /\ Tail(queue) \in Seq(Entries) /\ Head(queue) \in Entries
          /\ Len(Tail(queue)) = Len(queue) - 1
      BY <1>1, <2>1, TailJobs
    <2>3. Append(Tail(queue), x) \in Seq(Entries)
          /\ Len(Append(Tail(queue), x)) = Len(Tail(queue)) + 1
      BY <2>2, AppendJobs
    <2> QED BY <1>1, <2>1, <2>2, <2>3
  <1> QED BY <1>2, <1>3

LEMMA TypeStep == TypeOK /\ [Next]_vars => TypeOK'
  <1> SUFFICES ASSUME TypeOK, [Next]_vars PROVE TypeOK'
    OBVIOUS
  <1>0. MaxJobs \in Nat /\ Depth \in Nat \ {0}
    BY ArbiterAssumption
  <1>1. CASE Start
    BY <1>1 DEF Start, TypeOK, WorkerPcs
  <1>2. CASE SubmitAmbient
    <2>1. nsub + 1 \in Jobs /\ nsub + 1 \in 0..MaxJobs
      BY <1>0, <1>2 DEF SubmitAmbient, TypeOK, Jobs
    <2>2. posted' \in Seq(Jobs)
      BY <1>2, <2>1 DEF SubmitAmbient, TypeOK
    <2> QED BY <1>2, <2>1, <2>2 DEF SubmitAmbient, TypeOK
  <1>3. CASE EnqueueViaLoop
    <2>1. Head(posted) \in Jobs /\ Tail(posted) \in Seq(Jobs) /\ Head(posted) \in Entries
      BY <1>3 DEF EnqueueViaLoop, TypeOK, Entries
    <2>2. CASE Len(queue) < Depth
      <3>1. queue' \in Seq(Entries) /\ Len(queue') <= Depth
        BY <1>3, <2>1, <2>2, RoomMade DEF EnqueueViaLoop
      <3> QED BY <1>3, <2>1, <2>2, <3>1 DEF EnqueueViaLoop, TypeOK, Entries
    <2>3. CASE ~(Len(queue) < Depth)
      <3>1. queue' \in Seq(Entries) /\ Len(queue') <= Depth /\ Head(queue) \in Entries
        BY <1>3, <2>1, <2>3, RoomMade DEF EnqueueViaLoop
      <3>2. evicted' \subseteq Jobs /\ dropped' \in Nat
        BY <1>3, <2>3, <3>1 DEF EnqueueViaLoop, TypeOK, Entries
      <3> QED BY <1>3, <2>1, <2>3, <3>1, <3>2 DEF EnqueueViaLoop, TypeOK, Entries
    <2> QED BY <2>2, <2>3
  <1>4. CASE WorkerGets
    BY <1>4, PullsType DEF WorkerGets, TypeOK, Entries
  <1>5. CASE WorkerWakes
    BY <1>5 DEF WorkerWakes, TypeOK, WorkerPcs
  <1>6. CASE AmbientReturns
    <2>1. texts' \in Seq(Jobs)
      BY <1>6 DEF AmbientReturns, TypeOK
    <2> QED BY <1>6, <2>1, PullsType DEF AmbientReturns, TypeOK, Entries
  <1>7. CASE AmbientFails
    <2>1. failed' \subseteq Jobs
      BY <1>7 DEF AmbientFails, TypeOK
    <2> QED BY <1>7, <2>1, PullsType DEF AmbientFails, TypeOK, Entries
  <1>8. CASE \E d \in Calls : PriorityBegins(d)
    BY <1>8 DEF PriorityBegins, TypeOK
  <1>9. CASE \E d \in Calls : PriorityEnds(d)
    BY <1>9 DEF PriorityEnds, TypeOK, WorkerPcs
  <1>10. CASE StopBegins
    <2>0. Stop \in Entries
      BY DEF Entries
    <2>1. CASE Len(queue) < Depth
      <3>1. queue' \in Seq(Entries) /\ Len(queue') <= Depth
        BY <1>10, <2>0, <2>1, RoomMade DEF StopBegins
      <3> QED BY <1>10, <2>1, <3>1 DEF StopBegins, TypeOK, Entries
    <2>2. CASE ~(Len(queue) < Depth)
      <3>1. queue' \in Seq(Entries) /\ Len(queue') <= Depth /\ Head(queue) \in Entries
        BY <1>10, <2>0, <2>2, RoomMade DEF StopBegins
      <3>2. evicted' \subseteq Jobs
        BY <1>10, <2>2, <3>1 DEF StopBegins, TypeOK, Entries
      <3> QED BY <1>10, <2>2, <3>1, <3>2 DEF StopBegins, TypeOK, Entries
    <2> QED BY <2>1, <2>2
  <1>11. CASE StopReturns
    BY <1>11 DEF StopReturns, TypeOK
  <1>12. CASE StopTimesOut
    BY <1>12 DEF StopTimesOut, TypeOK, WorkerPcs
  <1>13. CASE UNCHANGED vars
    BY <1>13 DEF vars, TypeOK
  <1> QED
    BY <1>1, <1>2, <1>3, <1>4, <1>5, <1>6, <1>7, <1>8, <1>9, <1>10, <1>11, <1>12,
       <1>13 DEF Next

-----------------------------------------------------------------------------
\* The line.

LEMMA LineInit == Init => InLine
  BY DEF Init, InLine, JobsRise, Before, Waiting, InHand, JobsIn

\* What the worker takes is older than what it leaves.
LEMMA PullsLine ==
  ASSUME TypeOK, JobsRise(queue), Pulls
  PROVE  /\ JobsRise(queue')
         /\ InHand' \union JobsIn(queue') = JobsIn(queue)
         /\ Before(InHand', JobsIn(queue'))
  <1>1. CASE queue = <<>> /\ worker' = "getting" /\ job' = 0 /\ UNCHANGED queue
    BY <1>1 DEF InHand, Before
  <1>2. CASE queue # <<>> /\ queue' = Tail(queue) /\ job' = Head(queue)
    <2>1. InHand' = {Head(queue)} \ {Stop}
      BY <1>2 DEF InHand, Stop
    <2>2. queue \in Seq(Entries)
      BY DEF TypeOK, Entries
    <2> QED BY <1>2, <2>1, <2>2, TailJobs
  <1> QED BY <1>1, <1>2 DEF Pulls

\* What makes room is older than what stays.
LEMMA RoomLine ==
  ASSUME TypeOK, InLine, queue # <<>>, NEW x \in Entries,
         Before(JobsIn(queue), {x} \ {Stop})
  PROVE  /\ JobsRise(Append(Tail(queue), x))
         /\ JobsIn(Append(Tail(queue), x)) = JobsIn(Tail(queue)) \union ({x} \ {Stop})
         /\ JobsIn(queue) = JobsIn(Tail(queue)) \union ({Head(queue)} \ {Stop})
         /\ Before({Head(queue)} \ {Stop}, JobsIn(Tail(queue)))
  <1>1. /\ queue \in Seq(Entries) /\ JobsRise(queue)
    BY DEF TypeOK, InLine, Entries
  <1>2. /\ Tail(queue) \in Seq(Entries) /\ JobsRise(Tail(queue))
        /\ JobsIn(queue) = JobsIn(Tail(queue)) \union ({Head(queue)} \ {Stop})
        /\ Before({Head(queue)} \ {Stop}, JobsIn(Tail(queue)))
    BY <1>1, TailJobs
  <1>3. Before(JobsIn(Tail(queue)), {x} \ {Stop})
    BY <1>2 DEF Before
  <1> QED BY <1>2, <1>3, AppendJobs

\* The parts of InLine about the jobs in their places, as sets.
Places(Q, P, H, T, E, n) ==
  /\ Before(Q, P) /\ Before(H, Q \union P)
  /\ Before(T, H \union Q \union P) /\ Before(E, Q \union P)
  /\ Q \union P \union H \union T \union E \subseteq 1..n

LEMMA LinePlaces ==
  InLine <=> /\ JobsRise(posted) /\ JobsRise(queue) /\ JobsRise(texts)
             /\ Places(JobsIn(queue), JobsIn(posted), InHand, JobsIn(texts), evicted,
                       nsub)
  BY DEF InLine, Places, Waiting, Before

LEMMA LineStep == TypeOK /\ InLine /\ [Next]_vars => InLine'
  <1> SUFFICES ASSUME TypeOK, InLine, [Next]_vars PROVE InLine'
    OBVIOUS
  <1> DEFINE Q == JobsIn(queue)
             P == JobsIn(posted)
             T == JobsIn(texts)
  <1>0. /\ JobsRise(posted) /\ JobsRise(queue) /\ JobsRise(texts)
        /\ Places(Q, P, InHand, T, evicted, nsub)
        /\ queue \in Seq(Entries) /\ posted \in Seq(Entries) /\ texts \in Seq(Entries)
        /\ nsub \in Nat /\ Stop = 0 /\ Stop \in Entries
        /\ 0 \notin Jobs /\ Jobs \subseteq Nat
    <2>1. Stop = 0 /\ Stop \in Entries /\ 0 \notin Jobs /\ Jobs \subseteq Nat
      BY ArbiterAssumption DEF Entries, Stop, Jobs
    <2>2. queue \in Seq(Entries) /\ posted \in Seq(Entries) /\ texts \in Seq(Entries)
      BY DEF TypeOK, Entries
    <2>3. nsub \in Nat
      BY ArbiterAssumption DEF TypeOK
    <2> QED BY <2>1, <2>2, <2>3, LinePlaces
  <1> HIDE DEF Q, P, T
  <1>a. SUFFICES /\ JobsRise(posted)' /\ JobsRise(queue)' /\ JobsRise(texts)'
                 /\ Places(JobsIn(queue)', JobsIn(posted)', InHand', JobsIn(texts)',
                           evicted', nsub')
    BY LinePlaces DEF InLine, Places, Waiting, Before
  <1>1. CASE UNCHANGED <<posted, queue, job, texts, evicted, nsub>>
    BY <1>0, <1>1 DEF JobsRise, JobsIn, InHand, Q, P, T
  <1>2. CASE SubmitAmbient
    <2>1. nsub + 1 \in Entries /\ nsub + 1 # Stop
      BY <1>0, <1>2, ArbiterAssumption DEF SubmitAmbient, TypeOK, Entries, Jobs
    <2>2. Before(P, {nsub + 1} \ {Stop}) /\ Before(Q, {nsub + 1})
      BY <1>0 DEF Places, Before
    <2>3. JobsIn(posted') = P \union {nsub + 1} /\ JobsRise(posted')
      BY <1>0, <1>2, <2>1, <2>2, AppendJobs DEF SubmitAmbient, P
    <2>4. Places(Q, P \union {nsub + 1}, InHand, T, evicted, nsub + 1)
      BY <1>0 DEF Places, Before
    <2> QED BY <1>0, <1>2, <2>3, <2>4 DEF SubmitAmbient, Q, T, InHand
  <1>3. CASE EnqueueViaLoop
    <2> DEFINE x == Head(posted)
    <2>1. /\ x \in Jobs /\ x # Stop /\ x \in Entries /\ {x} \ {Stop} = {x}
          /\ posted' = Tail(posted) /\ UNCHANGED <<job, texts, nsub>>
      BY <1>0, <1>3 DEF EnqueueViaLoop, TypeOK, Entries
    <2>2. /\ P = JobsIn(posted') \union {x} /\ JobsRise(posted')
          /\ Before({x}, JobsIn(posted'))
      BY <1>0, <1>3, <2>1, TailJobs DEF EnqueueViaLoop, P
    <2>3. Before(Q, {x} \ {Stop})
      BY <1>0, <2>1, <2>2 DEF Places, Before
    <2> HIDE DEF x
    <2>4. CASE Len(queue) < Depth
      <3>1. queue' = Append(queue, x) /\ evicted' = evicted
        BY <1>3, <2>4 DEF EnqueueViaLoop, x
      <3>2. JobsIn(queue') = Q \union {x} /\ JobsRise(queue')
        BY <1>0, <2>1, <2>3, <3>1, AppendJobs DEF Q
      <3>3. Places(Q \union {x}, JobsIn(posted'), InHand, T, evicted, nsub)
        BY <1>0, <2>1, <2>2, <2>3 DEF Places, Before
      <3> QED BY <1>0, <2>1, <2>2, <3>1, <3>2, <3>3 DEF T, InHand
    <2>5. CASE ~(Len(queue) < Depth)
      <3> DEFINE R == JobsIn(Tail(queue))
                 h == {Head(queue)} \ {Stop}
      <3>1. /\ queue' = Append(Tail(queue), x) /\ evicted' = evicted \union h
            /\ queue # <<>>
        BY <1>3, <2>1, <2>5, RoomMade DEF EnqueueViaLoop, x
      <3>2. /\ JobsRise(queue') /\ JobsIn(queue') = R \union {x}
            /\ Q = R \union h /\ Before(h, R)
        BY <2>1, <2>3, <3>1, RoomLine DEF Q
      <3> HIDE DEF R, h
      <3>3. Places(R \union {x}, JobsIn(posted'), InHand, T, evicted \union h, nsub)
        BY <1>0, <2>1, <2>2, <2>3, <3>2 DEF Places, Before
      <3> QED BY <1>0, <2>1, <2>2, <3>1, <3>2, <3>3 DEF T, InHand
    <2> QED BY <2>4, <2>5
  <1>4. CASE Pulls /\ UNCHANGED <<posted, texts, evicted, nsub>>
    <2>1. /\ JobsRise(queue') /\ InHand' \union JobsIn(queue') = Q
          /\ Before(InHand', JobsIn(queue'))
      BY <1>0, <1>4, PullsLine DEF Q
    <2>2. Places(JobsIn(queue'), P, InHand', T, evicted, nsub)
      BY <1>0, <2>1 DEF Places, Before
    <2> QED BY <1>0, <1>4, <2>1, <2>2 DEF P, T
  <1>5. CASE AmbientReturns
    <2>1. job \in Jobs /\ InHand = {job} /\ {job} \ {Stop} = {job} /\ job \in Entries
      BY <1>0, <1>5 DEF AmbientReturns, TypeOK, InHand, Entries
    <2>2. /\ JobsRise(queue') /\ InHand' \union JobsIn(queue') = Q
          /\ Before(InHand', JobsIn(queue'))
      BY <1>0, <1>5, PullsLine DEF AmbientReturns, Q
    <2>3. Before(T, {job} \ {Stop})
      BY <1>0, <2>1 DEF Places, Before
    <2>4. JobsIn(texts') = T \union {job} /\ JobsRise(texts')
      BY <1>0, <1>5, <2>1, <2>3, AppendJobs DEF AmbientReturns, T
    <2>5. Places(JobsIn(queue'), P, InHand', T \union {job}, evicted, nsub)
      BY <1>0, <2>1, <2>2 DEF Places, Before
    <2> QED BY <1>0, <1>5, <2>2, <2>4, <2>5 DEF AmbientReturns, P
  <1>6. CASE StopBegins
    <2>1. {Stop} \ {Stop} = {} /\ \A X : Before(X, {Stop} \ {Stop}) /\ X \union {} = X
      BY DEF Before
    <2>2. CASE Len(queue) < Depth
      <3>1. queue' = Append(queue, Stop)
        BY <1>6, <2>2 DEF StopBegins
      <3>2. /\ JobsIn(queue') = JobsIn(queue) \union ({Stop} \ {Stop})
            /\ JobsRise(queue')
        BY <1>0, <2>1, <3>1, AppendJobs
      <3>3. JobsIn(queue') = Q
        BY <2>1, <3>2 DEF Q
      <3> QED BY <1>0, <1>6, <2>2, <3>2, <3>3 DEF StopBegins, P, T, InHand
    <2>3. CASE ~(Len(queue) < Depth)
      <3> DEFINE R == JobsIn(Tail(queue))
                 h == {Head(queue)} \ {Stop}
      <3>1. /\ queue' = Append(Tail(queue), Stop) /\ evicted' = evicted \union h
            /\ queue # <<>>
        BY <1>0, <1>6, <2>3, RoomMade DEF StopBegins
      <3>2. /\ JobsRise(queue') /\ JobsIn(queue') = R \union ({Stop} \ {Stop})
            /\ Q = R \union h /\ Before(h, R)
        BY <1>0, <2>1, <3>1, RoomLine DEF Q
      <3> HIDE DEF R, h
      <3>3. Places(R, P, InHand, T, evicted \union h, nsub)
        BY <1>0, <3>2 DEF Places, Before
      <3> QED BY <1>0, <1>6, <2>1, <3>1, <3>2, <3>3 DEF StopBegins, P, T, InHand
    <2> QED BY <2>2, <2>3
  <1>7. CASE StopTimesOut
    <2>1. InHand' = {}
      BY <1>7 DEF StopTimesOut, InHand
    <2>2. Places(Q, P, {}, T, evicted, nsub)
      BY <1>0 DEF Places, Before
    <2> QED BY <1>0, <1>7, <2>1, <2>2 DEF StopTimesOut, Q, P, T
  <1>8. CASE WorkerGets
    BY <1>4, <1>8 DEF WorkerGets
  <1>9. CASE AmbientFails
    BY <1>4, <1>9 DEF AmbientFails
  <1>10. CASE \/ Start \/ WorkerWakes \/ StopReturns \/ UNCHANGED vars
              \/ \E d \in Calls : PriorityBegins(d) \/ PriorityEnds(d)
    BY <1>1, <1>10 DEF Start, WorkerWakes, StopReturns, vars, PriorityBegins,
       PriorityEnds
  <1> QED
    BY <1>2, <1>3, <1>5, <1>6, <1>7, <1>8, <1>9, <1>10 DEF Next

-----------------------------------------------------------------------------
\* The count.

NoStop(s) == \A i \in 1..Len(s) : s[i] # Stop

LEMMA NoStopKept ==
  ASSUME NEW s \in Seq(Entries), NoStop(s)
  PROVE  /\ \A x \in Jobs : NoStop(Append(s, x))
         /\ s # <<>> => NoStop(Tail(s)) /\ Head(s) # Stop /\ Head(s) \in JobsIn(s)
  <1>0. Stop \notin Jobs
    BY ArbiterAssumption DEF Jobs, Stop
  <1>1. ASSUME NEW x \in Jobs PROVE NoStop(Append(s, x))
    <2>1. /\ Len(s) \in Nat /\ Len(Append(s, x)) = Len(s) + 1
          /\ \A i \in 1..Len(s) : Append(s, x)[i] = s[i]
          /\ Append(s, x)[Len(s) + 1] = x
      OBVIOUS
    <2>2. 1..(Len(s) + 1) = 1..Len(s) \union {Len(s) + 1}
      BY <2>1
    <2> QED BY <1>0, <2>1, <2>2 DEF NoStop
  <1>2. ASSUME s # <<>>
        PROVE  NoStop(Tail(s)) /\ Head(s) # Stop /\ Head(s) \in JobsIn(s)
    <2>1. /\ Len(s) \in Nat /\ Len(s) >= 1 /\ Len(Tail(s)) = Len(s) - 1
          /\ \A i \in 1..(Len(s) - 1) : Tail(s)[i] = s[i + 1]
          /\ Head(s) = s[1]
      BY <1>2
    <2>2. /\ 1 \in 1..Len(s)
          /\ \A i \in 1..Len(Tail(s)) : i + 1 \in 1..Len(s) /\ Tail(s)[i] = s[i + 1]
      BY <2>1
    <2>3. NoStop(Tail(s))
      BY <2>2 DEF NoStop
    <2> QED BY <2>1, <2>2, <2>3 DEF NoStop, JobsIn
  <1> QED BY <1>1, <1>2

LEMMA AccountsInit == Init => Accounts
  BY FS_EmptySet, ArbiterAssumption DEF Init, Accounts

LEMMA PullsAccounts ==
  ASSUME TypeOK, InLine, NoStop(queue), Pulls
  PROVE  NoStop(queue') /\ InHand' \union JobsIn(queue') = JobsIn(queue)
  <1>1. queue \in Seq(Entries)
    BY DEF TypeOK, Entries
  <1>2. NoStop(queue')
    BY <1>1, NoStopKept DEF Pulls, NoStop
  <1> QED BY <1>2, PullsLine DEF InLine

LEMMA AccountsStep == TypeOK /\ InLine /\ Accounts /\ [Next]_vars => Accounts'
  <1> SUFFICES ASSUME TypeOK, InLine, Accounts, [Next]_vars, stopping' = "no"
               PROVE  /\ NoStop(queue')
                      /\ 1..nsub' \subseteq Everywhere'
                      /\ IsFiniteSet(evicted') /\ dropped' = Cardinality(evicted')
    BY DEF Accounts, NoStop
  <1>0. stopping = "no"
    BY DEF Next, Start, SubmitAmbient, EnqueueViaLoop, WorkerGets, WorkerWakes,
       AmbientReturns, AmbientFails, PriorityBegins, PriorityEnds, StopBegins,
       StopReturns, StopTimesOut, vars
  <1>1. /\ NoStop(queue) /\ 1..nsub \subseteq Everywhere
        /\ IsFiniteSet(evicted) /\ dropped = Cardinality(evicted)
        /\ queue \in Seq(Entries) /\ posted \in Seq(Entries) /\ texts \in Seq(Entries)
    BY <1>0 DEF Accounts, NoStop, TypeOK, Entries
  <1>2. CASE UNCHANGED <<posted, queue, job, texts, failed, evicted, dropped, nsub>>
    BY <1>1, <1>2 DEF NoStop, Everywhere, JobsIn, InHand
  <1>3. CASE SubmitAmbient
    <2>1. /\ nsub + 1 \in Entries /\ nsub \in Nat
          /\ {nsub + 1} \ {Stop} = {nsub + 1}
      BY <1>3, ArbiterAssumption DEF SubmitAmbient, TypeOK, Jobs, Stop, Entries
    <2>2. JobsIn(posted') = JobsIn(posted) \union {nsub + 1}
      BY <1>1, <1>3, <2>1, AppendJobs DEF SubmitAmbient
    <2>3. 1..(nsub + 1) = 1..nsub \union {nsub + 1}
      BY <2>1
    <2> QED
      BY <1>1, <1>3, <2>2, <2>3 DEF SubmitAmbient, Everywhere, InHand, NoStop
  <1>4. CASE EnqueueViaLoop
    <2> DEFINE x == Head(posted)
    <2>1. /\ x \in Jobs /\ x # Stop /\ x \in Entries /\ {x} \ {Stop} = {x}
          /\ posted # <<>> /\ posted' = Tail(posted)
          /\ UNCHANGED <<job, texts, failed, nsub>>
      BY <1>4, ArbiterAssumption DEF EnqueueViaLoop, TypeOK, Entries, Jobs, Stop
    <2>2. JobsIn(posted) = JobsIn(posted') \union {x}
      BY <1>1, <2>1, TailJobs
    <2> HIDE DEF x
    <2>3. CASE Len(queue) < Depth
      <3>1. queue' = Append(queue, x) /\ UNCHANGED <<dropped, evicted>>
        BY <1>4, <2>3 DEF EnqueueViaLoop, x
      <3>2. JobsIn(queue') = JobsIn(queue) \union {x} /\ NoStop(queue')
        BY <1>1, <2>1, <3>1, AppendJobs, NoStopKept
      <3> QED BY <1>1, <2>1, <2>2, <3>1, <3>2 DEF Everywhere, InHand
    <2>4. CASE ~(Len(queue) < Depth)
      <3> DEFINE h == Head(queue)
      <3>1. /\ queue' = Append(Tail(queue), x) /\ dropped' = dropped + 1
            /\ evicted' = evicted \union ({h} \ {Stop}) /\ queue # <<>>
        BY <1>4, <2>1, <2>4, RoomMade DEF EnqueueViaLoop, x
      <3>2. /\ Tail(queue) \in Seq(Entries) /\ NoStop(Tail(queue))
            /\ h # Stop /\ h \in JobsIn(queue) /\ {h} \ {Stop} = {h}
            /\ JobsIn(queue) = JobsIn(Tail(queue)) \union {h}
        BY <1>1, <3>1, TailJobs, NoStopKept
      <3> HIDE DEF h
      <3>3. JobsIn(queue') = JobsIn(Tail(queue)) \union {x} /\ NoStop(queue')
        BY <2>1, <3>1, <3>2, AppendJobs, NoStopKept
      <3>4. h \notin evicted
        <4>1. h \in Nat
          BY <1>1, <3>2, ArbiterAssumption DEF JobsIn, TypeOK, Jobs, Stop
        <4> QED BY <3>2, <4>1 DEF InLine, Before, Waiting
      <3>5. /\ evicted' = evicted \union {h} /\ IsFiniteSet(evicted')
            /\ Cardinality(evicted') = Cardinality(evicted) + 1
        BY <1>1, <3>1, <3>2, <3>4, FS_AddElement
      <3> QED BY <1>1, <2>1, <2>2, <3>1, <3>2, <3>3, <3>5 DEF Everywhere, InHand
    <2> QED BY <2>3, <2>4
  <1>5. CASE WorkerGets
    <2>1. NoStop(queue') /\ InHand' \union JobsIn(queue') = JobsIn(queue)
      BY <1>1, <1>5, PullsAccounts DEF WorkerGets
    <2>2. InHand = {}
      BY <1>5 DEF WorkerGets, TypeOK, InHand
    <2> QED BY <1>1, <1>5, <2>1, <2>2 DEF WorkerGets, Everywhere
  <1>6. CASE AmbientReturns
    <2>1. NoStop(queue') /\ InHand' \union JobsIn(queue') = JobsIn(queue)
      BY <1>1, <1>6, PullsAccounts DEF AmbientReturns
    <2>2. job \in Entries /\ InHand = {job} \ {Stop}
      BY <1>6 DEF AmbientReturns, TypeOK, InHand, Entries, Stop
    <2>3. JobsIn(texts') = JobsIn(texts) \union InHand
      BY <1>1, <1>6, <2>2, AppendJobs DEF AmbientReturns
    <2> QED BY <1>1, <1>6, <2>1, <2>3 DEF AmbientReturns, Everywhere
  <1>7. CASE AmbientFails
    <2>1. NoStop(queue') /\ InHand' \union JobsIn(queue') = JobsIn(queue)
      BY <1>1, <1>7, PullsAccounts DEF AmbientFails
    <2>2. InHand \subseteq {job}
      BY DEF InHand
    <2> QED BY <1>1, <1>7, <2>1, <2>2 DEF AmbientFails, Everywhere
  <1>8. CASE \/ Start \/ WorkerWakes \/ UNCHANGED vars
             \/ \E d \in Calls : PriorityBegins(d) \/ PriorityEnds(d)
    BY <1>2, <1>8 DEF Start, WorkerWakes, vars, PriorityBegins, PriorityEnds
  <1>9. CASE StopBegins \/ StopReturns \/ StopTimesOut
    BY <1>9 DEF StopBegins, StopReturns, StopTimesOut
  <1> QED
    BY <1>3, <1>4, <1>5, <1>6, <1>7, <1>8, <1>9 DEF Next

-----------------------------------------------------------------------------
\* The theorems.

\* The inductive invariant holds: places are kept in line, and nothing is lost.
THEOREM Invariance == Spec => []Inv
  <1>1. Init => Inv
    BY TypeInit, LineInit, AccountsInit DEF Inv
  <1>2. Inv /\ [Next]_vars => Inv'
    BY TypeStep, LineStep, AccountsStep DEF Inv
  <1> QED BY <1>1, <1>2, PTL DEF Spec

\* Every reachable state is well typed; in particular the queue never exceeds
\* its depth, with jobs and the sentinel of stop() both competing for room.
THEOREM TypeCorrect == Spec => []TypeOK
  <1>1. Inv => TypeOK
    BY DEF Inv
  <1> QED BY <1>1, Invariance, PTL

\* Ambient texts come out in the order their utterances were submitted in, each
\* at most once, whatever overflows, fails, waits for a dictation or is stopped.
THEOREM InOrder == Spec => []TextsInOrder
  <1>1. Inv => TextsInOrder
    <2>1. TypeOK => \A i \in 1..Len(texts) : texts[i] # Stop
      BY ArbiterAssumption DEF TypeOK, Jobs, Stop
    <2> QED BY <2>1 DEF Inv, InLine, JobsRise, TextsInOrder, Rising
  <1> QED BY <1>1, Invariance, PTL

\* An overflow loses nothing younger than what it keeps.
THEOREM KeepsFreshest == Spec => []FreshestKept
  <1>1. Inv => FreshestKept
    BY DEF Inv, InLine, Before, Waiting, FreshestKept
  <1> QED BY <1>1, Invariance, PTL

\* Until stop() every job submitted is somewhere, and dropped_count is exactly
\* the number of those evicted.
THEOREM Accounting == Spec => []AllAccounted
  <1>1. Inv => AllAccounted
    <2>1. Everywhere \subseteq JobsIn(posted) \union JobsIn(queue) \union InHand
                                 \union JobsIn(texts) \union failed \union evicted
      BY DEF Everywhere
    <2> QED BY <2>1 DEF Inv, Accounts, AllAccounted
  <1> QED BY <1>1, Invariance, PTL

=============================================================================
