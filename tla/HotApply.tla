------------------------------- MODULE HotApply -------------------------------
(***************************************************************************)
(* The running pipeline under a configuration that is saved meanwhile:     *)
(* apply_config_update() in the event loop, and the clean-up of a          *)
(* transcript, which may be awaiting the provider that is replaced.        *)
(***************************************************************************)
EXTENDS ConfigController

VARIABLES
  running,  \* the configuration that the pipeline works with
  armed,    \* the key was there when the clean-up provider was built
  updates,  \* configurations for which apply_config_update() waits in the loop
  gen,      \* the clean-up provider: how many there were before it
  closing,  \* providers replaced, whose shutdown() waits in the loop
  closed,   \* providers whose shutdown() has run
  call      \* of _run_cleanup()

hotVars == <<running, armed, updates, gen, closing, closed, call>>

\* The fields that apply_config_update() looks at.
Rebuilt == {"cleanup"}
Remote  == running["cleanup"] = 1

CleanupRetries == 1
NoCall == [at |-> "none", on |-> 0, remote |-> FALSE, tries |-> 0, mishaps |-> 0]

HotTypeOK ==
  /\ running \in Configs /\ armed \in BOOLEAN /\ updates \in Seq(Configs)
  /\ gen \in Nat /\ closing \subseteq 0..gen /\ closed \subseteq 0..gen
  /\ call.at \in {"none", "awaits", "sleeps", "cleaned", "raw", "unavailable"}
  /\ call.on \in 0..gen /\ call.remote \in BOOLEAN /\ call.tries \in 0..CleanupRetries /\ call.mishaps \in Nat

HotInit ==
  /\ running = Defaults /\ armed = FALSE /\ updates = <<>> /\ gen = 0 /\ closing = {} /\ closed = {}
  /\ call = NoCall

-----------------------------------------------------------------------------
\* A pipeline built from c; the process before it left nothing.
BuiltFrom(c) ==
  /\ running' = c /\ armed' = key' /\ updates' = <<>> /\ gen' = 0 /\ closing' = {} /\ closed' = {}
  /\ call' = NoCall

\* _reload_hot_components()
Submits(c) ==
  /\ updates' = Append(updates, c)
  /\ UNCHANGED <<running, armed, gen, closing, closed, call>>

\* Mutant: what is applied is the configuration that is running.
AppliesOld ==
  /\ updates # <<>> /\ updates' = Tail(updates)
  /\ gen' = gen + 1
  /\ UNCHANGED <<running, armed, closing, closed, call, left>>

\* apply_config_update(): only a provider with a client has a shutdown().
Applies ==
  /\ updates # <<>> /\ updates' = Tail(updates)
  /\ running' = [f \in Fields |-> IF f \in Rebuilt THEN Head(updates)[f] ELSE running[f]]
  /\ gen' = gen + 1 /\ armed' = key
  /\ closing' = IF Remote THEN closing \union {gen} ELSE closing
  /\ call' = IF call.at = "awaits" THEN [call EXCEPT !.mishaps = @ + 1] ELSE call
  /\ UNCHANGED <<closed, left>>

Shutdown ==
  /\ \E g \in closing : closing' = closing \ {g} /\ closed' = closed \union {g}
  /\ UNCHANGED <<running, armed, updates, gen, call, left>>

\* _run_cleanup(): built without its key a provider is not available.
CleanupBegins ==
  /\ call.at \in {"none", "cleaned", "raw", "unavailable"}
  /\ Uses("cleanups")
  /\ call' = [NoCall EXCEPT !.on = gen, !.remote = Remote,
                !.at = IF Remote /\ ~armed THEN "unavailable" ELSE "awaits"]
  /\ UNCHANGED <<running, armed, updates, gen, closing, closed>>

\* rewrite() returns, which it cannot once its client is closed ...
RewriteReturns ==
  /\ call.at = "awaits" /\ call.on \notin closed
  /\ call' = [call EXCEPT !.at = "cleaned"]
  /\ UNCHANGED <<running, armed, updates, gen, closing, closed, left>>

\* ... or raises CleanupError: there is one retry, and then the raw text is taken.
Failed(c) == [c EXCEPT !.at = IF c.tries < CleanupRetries THEN "sleeps" ELSE "raw"]
RewriteFails ==
  /\ call.at = "awaits"
  /\ \/ call.on \in closed /\ call' = Failed(call) /\ UNCHANGED left
     \/ /\ call.remote /\ call.on \notin closed /\ Uses("faults")
        /\ call' = Failed([call EXCEPT !.mishaps = @ + 1])
  /\ UNCHANGED <<running, armed, updates, gen, closing, closed>>

\* Mutant: the provider is looked up once, before the loop over the attempts.
RetriesOnTheSame ==
  /\ call.at = "sleeps"
  /\ call' = [call EXCEPT !.at = "awaits", !.tries = @ + 1]
  /\ UNCHANGED <<running, armed, updates, gen, closing, closed, left>>

\* The next attempt, on the provider of that moment.
Retries ==
  /\ call.at = "sleeps"
  /\ call' = [call EXCEPT !.at = "awaits", !.tries = @ + 1, !.on = gen, !.remote = Remote]
  /\ UNCHANGED <<running, armed, updates, gen, closing, closed, left>>

LoopStep ==
  Applies \/ Shutdown \/ CleanupBegins \/ RewriteReturns \/ RewriteFails \/ Retries
=============================================================================
