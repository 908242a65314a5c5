------------------------------ MODULE Arbiter ------------------------------
(***************************************************************************)
(* observer/arbiter.py: one ASR provider shared by dictation, which never  *)
(* waits, and ambient speech, whose jobs queue up behind an event that a   *)
(* dictation clears.  Other threads submit jobs; all else runs on the      *)
(* event loop, each action being one run up to the next await.             *)
(***************************************************************************)
EXTENDS Naturals, Sequences, FiniteSets

CONSTANTS MaxJobs,    \* bound: ambient jobs submitted
          MaxCalls,   \* bound: calls of transcribe_priority
          Depth       \* queue_depth

ASSUME ArbiterAssumption ==
  MaxJobs \in Nat /\ MaxCalls \in Nat /\ Depth \in Nat \ {0}

Jobs  == 1..MaxJobs     \* numbered in the order they are submitted in
Calls == 1..MaxCalls

VARIABLES
  posted,     \* jobs whose _enqueue_via_loop the loop has yet to run
  queue,      \* _queue: jobs, and Stop
  idle,       \* _dictation_idle.is_set()
  worker,     \* where the worker task is
  job,        \* the job it holds, 0 = none
  calls,      \* where each call of transcribe_priority is
  dropped,    \* _dropped
  stopping,   \* where stop() is
  nsub,       \* jobs submitted so far
  texts,      \* history: jobs whose text went to on_text, in order
  failed,     \* history: jobs the provider failed on
  evicted     \* history: jobs removed from the queue unheard

vars == <<posted, queue, idle, worker, job, calls, dropped, stopping, nsub,
          texts, failed, evicted>>

Stop == 0   \* None, the sentinel of stop()

WorkerPcs ==
  {"none",     \* start() not called
   "getting",  \* created, or in "await self._queue.get()"
   "held",     \* in "await self._dictation_idle.wait()"
   "woken",    \* that wait is over; its step is queued
   "asking",   \* in "await self._provider.transcribe_audio()"
   "done"}

JobsIn(s) == {s[i] : i \in 1..Len(s)} \ {Stop}
InHand == IF job = 0 THEN {} ELSE {job}

TypeOK ==
  /\ posted \in Seq(Jobs)
  /\ queue \in Seq(Jobs \union {Stop}) /\ Len(queue) <= Depth
  /\ idle \in BOOLEAN
  /\ worker \in WorkerPcs
  /\ job \in Jobs \union {0}
  /\ job # 0 <=> worker \in {"held", "woken", "asking"}
  /\ calls \in [Calls -> {"none", "asking", "over"}]
  /\ dropped \in Nat
  /\ stopping \in {"no", "waiting", "over"}
  /\ nsub \in 0..MaxJobs
  /\ texts \in Seq(Jobs)
  /\ failed \subseteq Jobs
  /\ evicted \subseteq Jobs

Init ==
  /\ posted = <<>> /\ queue = <<>> /\ idle = TRUE
  /\ worker = "none" /\ job = 0
  /\ calls = [d \in Calls |-> "none"]
  /\ dropped = 0 /\ stopping = "no" /\ nsub = 0
  /\ texts = <<>> /\ failed = {} /\ evicted = {}

-----------------------------------------------------------------------------
\* The ambient thread.

\* submit_ambient(), once start() has bound the loop: call_soon_threadsafe.
SubmitAmbient ==
  /\ worker # "none" /\ nsub < MaxJobs
  /\ nsub' = nsub + 1
  /\ posted' = Append(posted, nsub + 1)
  /\ UNCHANGED <<queue, idle, worker, job, calls, dropped, stopping, texts,
                 failed, evicted>>

\* Mutant: a full queue loses its newest job, not its oldest.
EnqueueDropsNewest ==
  LET n == Len(queue)
  IN /\ posted # <<>>
     /\ posted' = Tail(posted)
     /\ IF n < Depth
          THEN /\ queue' = Append(queue, Head(posted))
               /\ UNCHANGED <<dropped, evicted>>
          ELSE /\ queue' = [queue EXCEPT ![n] = Head(posted)]
               /\ dropped' = dropped + 1
               /\ evicted' = evicted \union ({queue[n]} \ {Stop})
     /\ UNCHANGED <<idle, worker, job, calls, stopping, nsub, texts, failed>>

\* Mutant: the new job takes the place of the oldest in a full queue.
EnqueueReplacesOldest ==
  /\ posted # <<>>
  /\ posted' = Tail(posted)
  /\ IF Len(queue) < Depth
       THEN /\ queue' = Append(queue, Head(posted))
            /\ UNCHANGED <<dropped, evicted>>
       ELSE /\ queue' = [queue EXCEPT ![1] = Head(posted)]
            /\ dropped' = dropped + 1
            /\ evicted' = evicted \union ({Head(queue)} \ {Stop})
  /\ UNCHANGED <<idle, worker, job, calls, stopping, nsub, texts, failed>>

\* Mutant: a full queue is not noticed.
EnqueueUnbounded ==
  /\ posted # <<>>
  /\ posted' = Tail(posted)
  /\ queue' = Append(queue, Head(posted))
  /\ UNCHANGED <<idle, worker, job, calls, dropped, stopping, nsub, texts,
                 failed, evicted>>

\* Mutant: the loss is not counted.
EnqueueUncounted ==
  /\ posted # <<>>
  /\ posted' = Tail(posted)
  /\ IF Len(queue) < Depth
       THEN /\ queue' = Append(queue, Head(posted))
            /\ UNCHANGED evicted
       ELSE /\ queue' = Append(Tail(queue), Head(posted))
            /\ evicted' = evicted \union ({Head(queue)} \ {Stop})
  /\ UNCHANGED <<idle, worker, job, calls, dropped, stopping, nsub, texts, failed>>

\* _enqueue_via_loop(): a full queue makes room by losing its oldest entry,
\* which may be the sentinel.
EnqueueViaLoop ==
  /\ posted # <<>>
  /\ posted' = Tail(posted)
  /\ IF Len(queue) < Depth
       THEN /\ queue' = Append(queue, Head(posted))
            /\ UNCHANGED <<dropped, evicted>>
       ELSE /\ queue' = Append(Tail(queue), Head(posted))
            /\ dropped' = dropped + 1
            /\ evicted' = evicted \union ({Head(queue)} \ {Stop})
  /\ UNCHANGED <<idle, worker, job, calls, stopping, nsub, texts, failed>>

-----------------------------------------------------------------------------
\* The worker.

\* start()
Start ==
  /\ worker = "none"
  /\ worker' = "getting"
  /\ UNCHANGED <<posted, queue, idle, job, calls, dropped, stopping, nsub, texts,
                 failed, evicted>>

\* The head of the loop: get a job and, if dictation is idle, go on to the
\* provider; neither suspends unless it must.
Pulls ==
  \/ /\ queue = <<>>
     /\ worker' = "getting" /\ job' = 0
     /\ UNCHANGED queue
  \/ /\ queue # <<>>
     /\ queue' = Tail(queue)
     /\ job' = Head(queue)
     /\ worker' = IF Head(queue) = Stop THEN "done"
                  ELSE IF idle THEN "asking" ELSE "held"

\* queue.get() has something to return.
WorkerGets ==
  /\ worker = "getting" /\ queue # <<>>
  /\ Pulls
  /\ UNCHANGED <<posted, idle, calls, dropped, stopping, nsub, texts, failed,
                 evicted>>

\* The event was set; it is not looked at again.
WorkerWakes ==
  /\ worker = "woken"
  /\ worker' = "asking"
  /\ UNCHANGED <<posted, queue, idle, job, calls, dropped, stopping, nsub, texts,
                 failed, evicted>>

AmbientReturns ==
  /\ worker = "asking"
  /\ texts' = Append(texts, job)
  /\ Pulls
  /\ UNCHANGED <<posted, idle, calls, dropped, stopping, nsub, failed, evicted>>

\* The provider raises: the job is given up and the worker goes on.
AmbientFails ==
  /\ worker = "asking"
  /\ failed' = failed \union {job}
  /\ Pulls
  /\ UNCHANGED <<posted, idle, calls, dropped, stopping, nsub, texts, evicted>>

-----------------------------------------------------------------------------
\* Dictation.

\* transcribe_priority(), up to the provider.
PriorityBegins(d) ==
  /\ calls[d] = "none"
  /\ calls' = [calls EXCEPT ![d] = "asking"]
  /\ idle' = FALSE
  /\ UNCHANGED <<posted, queue, worker, job, dropped, stopping, nsub, texts,
                 failed, evicted>>

\* Mutant: no "finally", so a provider that raises leaves the event cleared.
PriorityEndsUnset(d) ==
  /\ calls[d] = "asking"
  /\ calls' = [calls EXCEPT ![d] = "over"]
  /\ \/ UNCHANGED <<idle, worker>>
     \/ /\ idle' = TRUE
        /\ worker' = IF worker = "held" THEN "woken" ELSE worker
  /\ UNCHANGED <<posted, queue, job, dropped, stopping, nsub, texts, failed,
                 evicted>>

\* The provider returns or raises, or the dictation is cancelled: "finally"
\* sets the event, whoever else is dictating, and wakes the worker.
PriorityEnds(d) ==
  /\ calls[d] = "asking"
  /\ calls' = [calls EXCEPT ![d] = "over"]
  /\ idle' = TRUE
  /\ worker' = IF worker = "held" THEN "woken" ELSE worker
  /\ UNCHANGED <<posted, queue, job, dropped, stopping, nsub, texts, failed,
                 evicted>>

-----------------------------------------------------------------------------
\* stop()

\* It queues the sentinel, in the place of the oldest entry if it must, and
\* waits for the worker.
StopBegins ==
  /\ worker # "none" /\ stopping = "no"
  /\ stopping' = "waiting"
  /\ IF Len(queue) < Depth
       THEN /\ queue' = Append(queue, Stop)
            /\ UNCHANGED evicted
       ELSE /\ queue' = Append(Tail(queue), Stop)
            /\ evicted' = evicted \union ({Head(queue)} \ {Stop})
  /\ UNCHANGED <<posted, idle, worker, job, calls, dropped, nsub, texts, failed>>

StopReturns ==
  /\ stopping = "waiting" /\ worker = "done"
  /\ stopping' = "over"
  /\ UNCHANGED <<posted, queue, idle, worker, job, calls, dropped, nsub, texts,
                 failed, evicted>>

\* Mutant: after the timeout the worker is left to itself.
StopGivesUp ==
  /\ stopping = "waiting" /\ worker # "done"
  /\ stopping' = "over"
  /\ UNCHANGED <<posted, queue, idle, worker, job, calls, dropped, nsub, texts,
                 failed, evicted>>

\* Two seconds have passed: the worker is cancelled, with what it holds.
StopTimesOut ==
  /\ stopping = "waiting" /\ worker # "done"
  /\ stopping' = "over"
  /\ worker' = "done" /\ job' = 0
  /\ UNCHANGED <<posted, queue, idle, calls, dropped, nsub, texts, failed, evicted>>

-----------------------------------------------------------------------------

Next ==
  \/ Start \/ SubmitAmbient \/ EnqueueViaLoop
  \/ WorkerGets \/ WorkerWakes \/ AmbientReturns \/ AmbientFails
  \/ \E d \in Calls : PriorityBegins(d) \/ PriorityEnds(d)
  \/ StopBegins \/ StopReturns \/ StopTimesOut

Spec == Init /\ [][Next]_vars

\* The loop runs what is queued; providers return or raise; two seconds pass.
Fairness ==
  /\ WF_vars(EnqueueViaLoop) /\ WF_vars(WorkerGets) /\ WF_vars(WorkerWakes)
  /\ WF_vars(AmbientReturns \/ AmbientFails)
  /\ \A d \in Calls : WF_vars(PriorityEnds(d))
  /\ WF_vars(StopReturns \/ StopTimesOut)

FairSpec == Spec /\ Fairness

-----------------------------------------------------------------------------
\* Properties.

Rising(s) == \A i, j \in 1..Len(s) : i < j => s[i] < s[j]

\* Ambient texts reach on_text in the order the utterances were submitted in,
\* each at most once, whatever is dropped, fails or waits for a dictation.
TextsInOrder == Rising(texts)

\* What is evicted is older than anything still waiting: "a stale utterance is
\* worth less than a fresh one".
FreshestKept ==
  \A e \in evicted : \A j \in JobsIn(queue) \union JobsIn(posted) : e < j

\* Until stop() no job vanishes: each is waiting, in hand, answered, failed or
\* evicted, and dropped_count is the number of the latter.
AllAccounted ==
  stopping = "no" =>
    /\ 1..nsub \subseteq JobsIn(posted) \union JobsIn(queue) \union InHand
                           \union JobsIn(texts) \union failed \union evicted
    /\ dropped = Cardinality(evicted)

\* Ambient speech lags behind dictation but is not starved by it: a submitted
\* job is answered, fails or is evicted, unless the arbiter is stopped.
AmbientServed ==
  \A j \in Jobs :
    nsub >= j ~> \/ j \in JobsIn(texts) \union failed \union evicted
                 \/ stopping # "no"

\* stop() ends the worker, even when its sentinel is evicted, or the worker is
\* held by a dictation.
StopEnds == stopping # "no" ~> worker = "done"

\* An ambient transcription does not begin while a dictation is transcribed.
AmbientWaits ==
  [][worker' = "asking" /\ <<worker, job>>' # <<worker, job>>
       => \A d \in Calls : calls[d] # "asking"]_vars

=============================================================================
