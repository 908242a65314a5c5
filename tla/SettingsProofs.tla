---------------------------- MODULE SettingsProofs ----------------------------
(***************************************************************************)
(* What holds of the configuration on disk and of the pipeline that runs   *)
(* under it, however often the program is launched, killed, configured and *)
(* used.                                                                   *)
(***************************************************************************)
EXTENDS Settings, FiniteSetTheorems, SequenceTheorems, WellFoundedInduction, TLAPS

LEMMA Clocks == MaxClock \in Nat
  BY ConfigAssumption DEF ConfigAssumption

-----------------------------------------------------------------------------
\* What the Qt thread does to the disk: it begins a save, or refuses to, opens the
\* file, gives up, or leaves all of it alone.
Begins ==
  /\ save = Idle
  /\ \/ UNCHANGED <<save, backups, hurried>>
     \/ /\ save'.at = "backed up"
        /\ backups' = IF file.kind = "none" THEN backups ELSE [backups EXCEPT ![clock] = file]
        /\ hurried' = (hurried \/ (file = Torn /\ backups[clock] # NoFile))
  /\ UNCHANGED <<clock, file, last, original>>

Still == UNCHANGED <<clock, diskVars, original, save>>

LEMMA SavesBegin ==
  ASSUME NEW by, NEW pages, NEW ui, SaveBegins(by, pages, ui)
  PROVE  Begins
<1> DEFINE pushed == Pushed(draft, pages, ui)
<1>1. /\ save = Idle /\ UNCHANGED <<clock, file, last, original>>
      /\ \/ UNCHANGED <<save, backups, hurried>>
         \/ /\ save' = [at |-> "backed up", by |-> by]
            /\ backups' = IF file.kind = "none" THEN backups
                          ELSE [backups EXCEPT ![clock] = file]
            /\ hurried' = (hurried \/ (file = Torn /\ backups[clock] # NoFile))
  BY Zenon DEF SaveBegins
<1>2. ASSUME save' = [at |-> "backed up", by |-> by] PROVE save'.at = "backed up"
  BY <1>2
<1> QED BY <1>1, <1>2, Zenon DEF Begins

LEMMA UserSteps ==
  ASSUME UserStep
  PROVE  /\ (Begins /\ phase # "off") \/ Truncates \/ WriteFails \/ Still
         /\ UNCHANGED <<hotVars, mainVars>>
<1>1. CASE TurnPage
  BY <1>1 DEF TurnPage, Turn, Turned, Still, UserStep
<1>2. CASE FinishPressed
  BY <1>2, SavesBegin DEF FinishPressed, FinishWizard, Shown, UserStep
<1>3. CASE CancelPressed \/ TrayWizard \/ TrayWindow
  BY <1>3 DEF CancelPressed, CancelWizard, TrayWizard, TrayWindow, OpenWindow, Still,
              configVars, diskVars, memoryVars, UserStep
<1>4. CASE Types
  BY <1>4 DEF Types, TypeInWizard, TypeInWindow, Still, configVars, memoryVars, UserStep
<1>5. CASE WelcomePressed
  BY <1>5 DEF WelcomePressed, UseDefaults, Restore, ReplaceDraft, Still, UserStep
<1>6. CASE SavePressed
  BY <1>6, SavesBegin DEF SavePressed, PressSave, UserStep
<1>7. CASE DiscardPressed \/ KeyGiven
  BY <1>7 DEF DiscardPressed, Discard, Revert, KeyGiven, SetKey, Still, memoryVars, UserStep
<1>8. CASE WindowCloses
  BY <1>8, SavesBegin DEF WindowCloses, CloseWindow, Still, configVars, memoryVars, UserStep
<1>9. CASE SaveStarts \/ SaveFails
  BY <1>9 DEF SaveStarts, SaveFails, UserStep
<1> QED
  BY <1>1, <1>2, <1>3, <1>4, <1>5, <1>6, <1>7, <1>8, <1>9 DEF UserStep

-----------------------------------------------------------------------------
(***************************************************************************)
(* The file.  From the backup on, a copy of what the save replaces is in   *)
(* some backup, and stays there: only a save of the same second writes     *)
(* over it, and what that one finds torn is the file of the one before.    *)
(***************************************************************************)
IsFunction(f) == f = [t \in 0..MaxClock |-> f[t]]

Backed == last # NoFile /\ ~hurried => \E t \in 0..clock : backups[t] = last

DiskInv ==
  /\ clock \in 0..MaxClock
  /\ IsFunction(backups)
  /\ file # Torn => last = file
  /\ file.kind = "none" => file = NoFile
  /\ file = Torn \/ save.at = "backed up" => Backed
  /\ save.at = "writing" => file = Torn
  /\ phase = "off" => save = Idle
  /\ phase # "off" /\ file.kind = "full" => original = file.cfg

LEMMA Kinds ==
  /\ Torn # NoFile /\ Torn.kind = "torn" /\ NoFile.kind = "none"
  /\ Idle.at = "no"
  BY DEF Torn, NoFile, Idle

LEMMA DiskInit == Init => DiskInv
<1> SUFFICES ASSUME Init PROVE DiskInv
  OBVIOUS
<1>1. phase = "off" /\ save = Idle /\ last = file /\ clock = 0
      /\ backups = [t \in 0..MaxClock |-> NoFile]
  BY DEF Init, ConfigInit
<1>2. file # Torn /\ (file.kind = "none" => file = NoFile)
  BY Kinds DEF Init, ConfigInit, Full
<1>3. IsFunction(backups) /\ clock \in 0..MaxClock
  BY <1>1, Clocks DEF IsFunction
<1> QED
  BY <1>1, <1>2, <1>3, Kinds DEF DiskInv

LEMMA BeginsKeeps ==
  ASSUME DiskInv, Begins, phase # "off", phase' = phase
  PROVE  DiskInv'
<1>1. save = Idle /\ clock' = clock /\ file' = file /\ last' = last /\ original' = original
  BY DEF Begins
<1>2. CASE UNCHANGED <<save, backups, hurried>>
  <2>1. save' = save /\ backups' = backups /\ hurried' = hurried
    BY <1>2
  <2> QED BY <1>1, <2>1 DEF DiskInv, Backed
<1>3. CASE save'.at = "backed up" /\ file.kind = "none" /\ backups' = backups
           /\ hurried' = (hurried \/ (file = Torn /\ backups[clock] # NoFile))
  <2>1. last = NoFile /\ file # Torn
    BY <1>3, Kinds DEF DiskInv
  <2> QED BY <1>1, <1>3, <2>1, Kinds DEF DiskInv, Backed
<1>4. CASE save'.at = "backed up" /\ file.kind # "none"
           /\ backups' = [backups EXCEPT ![clock] = file]
           /\ hurried' = (hurried \/ (file = Torn /\ backups[clock] # NoFile))
  <2>1. IsFunction(backups') /\ backups'[clock] = file
        /\ \A t \in 0..clock : t # clock => backups'[t] = backups[t]
    <3>1. /\ clock \in 0..MaxClock
          /\ backups = [t \in 0..MaxClock |-> backups[t]]
      BY DEF DiskInv, IsFunction
    <3>2. backups' = [t \in 0..MaxClock |-> IF t = clock THEN file ELSE backups[t]]
      BY <3>1, <1>4
    <3> QED BY <3>1, <3>2, Clocks DEF IsFunction
  <2>2. Backed'
    <3>1. CASE file # Torn
      <4>1. clock \in 0..MaxClock
        BY DEF DiskInv
      <4>2. MaxClock \in Nat
        BY Clocks
      <4>3. clock \in 0..clock
        BY <4>1, <4>2
      <4>4. last = file
        BY <3>1 DEF DiskInv
      <4>5. clock' \in 0..clock' /\ backups'[clock'] = last'
        BY <4>3, <4>4, <1>1, <2>1
      <4> QED BY <4>5 DEF Backed
    <3>2. CASE file = Torn
      BY <3>2, <1>1, <1>4, <2>1, Clocks DEF DiskInv, Backed
    <3> QED BY <3>1, <3>2
  <2> QED BY <1>1, <1>4, <2>1, <2>2, Kinds DEF DiskInv
<1> QED
  BY <1>2, <1>3, <1>4, Zenon DEF Begins

LEMMA DiskNext == DiskInv /\ [Next]_vars => DiskInv'
<1> SUFFICES ASSUME DiskInv, [Next]_vars PROVE DiskInv'
  OBVIOUS
<1>1. CASE Launch
  BY <1>1, Kinds DEF Launch, Load, DiskInv, Backed, diskVars
<1>2. CASE Build \/ Quit
  BY <1>2 DEF Build, Quit, configVars, diskVars, memoryVars, DiskInv, Backed
<1>3. CASE Exit \/ Crash
  BY <1>3, Kinds DEF Exit, Crash, Ends, diskVars, DiskInv, Backed
<1>4. CASE UserStep
  <2>1. UNCHANGED phase
    BY <1>4, UserSteps DEF mainVars
  <2>2. CASE Begins /\ phase # "off"
    BY <2>1, <2>2, BeginsKeeps
  <2>3. CASE Truncates
    BY <2>1, <2>3, Kinds DEF Truncates, DiskInv, Backed
  <2>4. CASE WriteFails
    BY <2>1, <2>4, Kinds DEF WriteFails, diskVars, DiskInv, Backed
  <2>5. CASE Still
    BY <2>1, <2>5 DEF Still, diskVars, DiskInv, Backed
  <2> QED BY <1>4, UserSteps, <2>2, <2>3, <2>4, <2>5
<1>5. CASE SaveEnds
  <2>1. /\ file' = Full(draft) /\ last' = file' /\ original' = draft /\ save' = Idle
        /\ UNCHANGED <<clock, backups, hurried, phase>>
    BY <1>5 DEF SaveEnds, Writes
  <2>2. file'.kind = "full" /\ file'.cfg = original' /\ file' # Torn
    BY <2>1, Kinds DEF Full
  <2> QED BY <2>1, <2>2, Kinds DEF DiskInv
<1>6. CASE Loop
  BY <1>6 DEF Loop, configVars, mainVars, diskVars, memoryVars, DiskInv, Backed
<1>7. CASE Time
  <2>1. clock \in 0..MaxClock /\ MaxClock \in Nat /\ clock < MaxClock /\ clock' = clock + 1
    BY <1>7, Clocks DEF Time, Tick, DiskInv
  <2>2. clock' \in 0..MaxClock /\ 0..clock \subseteq 0..clock'
    BY <2>1
  <2>3. UNCHANGED <<file, backups, last, hurried, original, save, phase>>
    BY <1>7 DEF Time, Tick, mainVars, diskVars, memoryVars
  <2> QED BY <2>2, <2>3 DEF DiskInv, Backed
<1>8. CASE Copy
  BY <1>8, Kinds DEF Copy, CopyBackup, mainVars, memoryVars, DiskInv, Backed
<1>9. CASE UNCHANGED vars
  BY <1>9 DEF vars, configVars, mainVars, diskVars, memoryVars, DiskInv, Backed
<1> QED
  BY <1>1, <1>2, <1>3, <1>4, <1>5, <1>6, <1>7, <1>8, <1>9 DEF Next

LEMMA DiskAlways == Spec => []DiskInv
  BY DiskInit, DiskNext, PTL DEF Spec

\* However a save is cut short, what it was to replace is in a backup, unless it is
\* the second one within the same second.
THEOREM Kept == Spec => []KeptOnDisk
<1>1. DiskInv => KeptOnDisk
  BY DEF DiskInv, Backed, KeptOnDisk
<1> QED BY <1>1, DiskAlways, PTL

\* The controller measures changes against what config.yaml holds.
THEOREM Promoted == Spec => []PromotedIsOnDisk
<1>1. DiskInv => PromotedIsOnDisk
  BY DEF DiskInv, PromotedIsOnDisk
<1> QED BY <1>1, DiskAlways, PTL

-----------------------------------------------------------------------------
(***************************************************************************)
(* The clean-up.  A provider is closed only once another has taken its     *)
(* place, and that is the mishap that the call awaiting it has counted.    *)
(***************************************************************************)
IsCall(c) ==
  /\ DOMAIN c = {"at", "on", "remote", "tries", "mishaps"}
  /\ c.on \in Nat /\ c.tries \in Nat /\ c.mishaps \in Nat

Mishaps(c) ==
  /\ c.at = "awaits" => c.tries \in {0, 1} /\ c.mishaps >= c.tries
  /\ c.at = "sleeps" => c.tries = 0 /\ c.mishaps >= 1
  /\ c.at = "raw" => c.mishaps >= 2

Outlived == call.at = "awaits" => call.on <= gen /\ (call.on < gen => call.mishaps > call.tries)

CallInv ==
  /\ gen \in Nat
  /\ \A g \in closing \union closed : g \in Nat /\ g < gen
  /\ IsCall(call) /\ Mishaps(call) /\ Outlived

Counted(c) == [c EXCEPT !.mishaps = @ + 1]

LEMMA CountsOne ==
  ASSUME NEW c, IsCall(c)
  PROVE  /\ IsCall(Counted(c)) /\ Counted(c).at = c.at /\ Counted(c).on = c.on
         /\ Counted(c).tries = c.tries /\ Counted(c).mishaps = c.mishaps + 1
  BY DEF IsCall, Counted

LEMMA Fresh ==
  ASSUME gen' = 0, closing' = {}, closed' = {}, call' = NoCall
  PROVE  CallInv'
  BY DEF CallInv, IsCall, Mishaps, Outlived, NoCall

LEMMA NoneOfTheLoop ==
  ASSUME CallInv, UNCHANGED <<gen, closing, closed, call>>
  PROVE  CallInv'
  BY DEF CallInv, Outlived

LEMMA CallLoop ==
  ASSUME CallInv, LoopStep
  PROVE  CallInv'
<1>1. CASE Applies
  <2>1. /\ gen \in Nat /\ gen' = gen + 1 /\ IsCall(call) /\ Mishaps(call) /\ Outlived
        /\ closing' \subseteq closing \union {gen} /\ closed' = closed
    BY <1>1 DEF Applies, CallInv
  <2>2. CASE call.at = "awaits"
    <3>1. call' = Counted(call)
      BY <1>1, <2>2 DEF Applies, Counted
    <3>2. /\ IsCall(call') /\ call'.at = "awaits" /\ call'.on = call.on
          /\ call'.tries = call.tries /\ call'.mishaps = call.mishaps + 1
      BY <2>1, <2>2, <3>1, CountsOne
    <3>3. /\ call.on <= gen /\ call.tries \in {0, 1} /\ call.mishaps >= call.tries
          /\ call.on \in Nat /\ call.mishaps \in Nat
      BY <2>1, <2>2 DEF IsCall, Mishaps, Outlived
    <3>4. /\ call'.on <= gen' /\ call'.mishaps > call'.tries /\ call'.tries \in {0, 1}
      BY <2>1, <3>2, <3>3
    <3>5. Mishaps(call)' /\ Outlived'
      BY <3>2, <3>3, <3>4 DEF Mishaps, Outlived
    <3>6. \A g \in closing' \union closed' : g \in Nat /\ g < gen'
      BY <2>1 DEF CallInv
    <3> QED BY <2>1, <3>2, <3>5, <3>6 DEF CallInv
  <2>3. CASE call.at # "awaits"
    <3>1. call' = call
      BY <1>1, <2>3 DEF Applies
    <3> QED BY <2>1, <2>3, <3>1 DEF CallInv, Outlived
  <2> QED BY <2>2, <2>3
<1>2. CASE Shutdown
  BY <1>2 DEF Shutdown, CallInv, Outlived
<1>3. CASE CleanupBegins
  <2>1. gen \in Nat /\ UNCHANGED <<gen, closing, closed>>
    BY <1>3 DEF CleanupBegins, CallInv
  <2>2. IsCall(call') /\ call'.on = gen /\ call'.tries = 0 /\ call'.mishaps = 0
        /\ call'.at \in {"unavailable", "awaits"}
    BY <1>3, <2>1 DEF CleanupBegins, NoCall, IsCall, Remote
  <2> QED BY <2>1, <2>2 DEF CallInv, Mishaps, Outlived
<1>4. CASE RewriteReturns
  <2>1. IsCall(call') /\ call'.at = "cleaned"
    BY <1>4 DEF RewriteReturns, CallInv, IsCall
  <2> QED BY <1>4, <2>1 DEF RewriteReturns, CallInv, Mishaps, Outlived
<1>5. CASE RewriteFails
  <2>1. /\ IsCall(call) /\ Mishaps(call) /\ call.at = "awaits"
        /\ call.on \in closed => call.mishaps > call.tries
    BY <1>5 DEF RewriteFails, CallInv, Outlived
  <2>2. \/ call' = Failed(call) /\ call.mishaps > call.tries
        \/ call' = Failed(Counted(call))
    BY <1>5, <2>1, Zenon DEF RewriteFails, Counted
  <2>3. \A c : IsCall(c) /\ c.tries \in {0, 1} /\ c.mishaps > c.tries =>
          IsCall(Failed(c)) /\ Mishaps(Failed(c)) /\ Failed(c).at # "awaits"
    BY DEF IsCall, Failed, Mishaps, CleanupRetries
  <2>4. IsCall(Counted(call)) /\ Counted(call).tries = call.tries
        /\ Counted(call).mishaps > call.tries
    BY <2>1, CountsOne DEF IsCall, Mishaps
  <2>5. call.tries \in {0, 1}
    BY <2>1 DEF Mishaps
  <2>6. IsCall(call') /\ Mishaps(call') /\ call'.at # "awaits"
    BY <2>1, <2>2, <2>3, <2>4, <2>5
  <2> QED BY <1>5, <2>6 DEF RewriteFails, CallInv, Outlived
<1>6. CASE Retries
  <2>1. /\ gen \in Nat /\ IsCall(call) /\ call.tries = 0 /\ call.mishaps >= 1
        /\ UNCHANGED <<gen, closing, closed>>
        /\ call' = [call EXCEPT !.at = "awaits", !.tries = @ + 1, !.on = gen, !.remote = Remote]
    BY <1>6 DEF Retries, CallInv, Mishaps
  <2>2. /\ IsCall(call') /\ call'.at = "awaits" /\ call'.on = gen
        /\ call'.tries = call.tries + 1 /\ call'.mishaps = call.mishaps
    BY <2>1 DEF IsCall
  <2> QED BY <2>1, <2>2 DEF CallInv, Mishaps, Outlived
<1> QED
  BY <1>1, <1>2, <1>3, <1>4, <1>5, <1>6 DEF LoopStep

LEMMA CallNext == CallInv /\ [Next]_vars => CallInv'
<1> SUFFICES ASSUME CallInv, [Next]_vars PROVE CallInv'
  OBVIOUS
<1>1. CASE Launch \/ Build \/ Exit \/ Crash
  <2>1. UNCHANGED hotVars \/ (gen' = 0 /\ closing' = {} /\ closed' = {} /\ call' = NoCall)
    BY <1>1 DEF Launch, Build, Exit, Crash, Ends, BuiltFrom
  <2> QED BY <2>1, Fresh, NoneOfTheLoop DEF hotVars
<1>2. CASE Quit \/ UserStep \/ SaveEnds \/ Time \/ Copy \/ UNCHANGED vars
  <2>1. UNCHANGED <<gen, closing, closed, call>>
    BY <1>2 DEF Quit, UserStep, SaveEnds, Submits, Time, Copy, vars, hotVars
  <2> QED BY <2>1, NoneOfTheLoop
<1>3. CASE Loop
  BY <1>3, CallLoop DEF Loop
<1> QED
  BY <1>1, <1>2, <1>3 DEF Next

\* Saving closes the provider that a clean-up may be awaiting, and still it takes two
\* mishaps to lose the clean-up of a transcript.
THEOREM TwoMishaps == Spec => []RawAfterTwoMishaps
<1>1. Init => CallInv
  BY DEF Init, HotInit, CallInv, IsCall, Mishaps, Outlived, NoCall
<1>2. CallInv => RawAfterTwoMishaps
  BY DEF CallInv, Mishaps, RawAfterTwoMishaps
<1> QED BY <1>1, <1>2, CallNext, PTL DEF Spec

-----------------------------------------------------------------------------
(***************************************************************************)
(* What is applied.  The last update that waits is the configuration saved *)
(* last; when none waits, it is the one that runs.                         *)
(***************************************************************************)
AppliedInv ==
  /\ phase \in Phases
  /\ \E S : updates \in Seq(S)
  /\ phase \in {"off", "gate"} => updates = <<>>
  /\ updates # <<>> => updates[Len(updates)]["cleanup"] = original["cleanup"]
  /\ phase \in {"up", "quitting"} /\ saved /\ updates = <<>> =>
       running["cleanup"] = original["cleanup"]

LEMMA Appended ==
  ASSUME NEW S, NEW u \in Seq(S), NEW c
  PROVE  /\ Append(u, c) \in Seq(S \union {c}) /\ Append(u, c) # <<>>
         /\ Append(u, c)[Len(Append(u, c))] = c
<1>1. u \in Seq(S \union {c})
  BY SeqDef
<1> QED BY <1>1, AppendProperties

LEMMA TailLast ==
  ASSUME NEW S, NEW u \in Seq(S), u # <<>>
  PROVE  /\ Tail(u) \in Seq(S)
         /\ Tail(u) = <<>> => Head(u) = u[Len(u)]
         /\ Tail(u) # <<>> => Tail(u)[Len(Tail(u))] = u[Len(u)]
<1>1. Tail(u) \in Seq(S) /\ Len(Tail(u)) = Len(u) - 1 /\ Len(u) \in Nat /\ Len(u) > 0
      /\ \A i \in 1..Len(Tail(u)) : Tail(u)[i] = u[i + 1]
  BY HeadTailProperties, EmptySeq
<1>2. CASE Tail(u) = <<>>
  BY <1>1, <1>2, EmptySeq
<1>3. CASE Tail(u) # <<>>
  <2>1. Len(Tail(u)) \in 1..Len(Tail(u))
    BY <1>1, <1>3, EmptySeq
  <2> QED BY <1>1, <1>3, <2>1
<1> QED BY <1>1, <1>2, <1>3

LEMMA AppliedLoop ==
  ASSUME AppliedInv, Loop
  PROVE  AppliedInv'
<1>1. UNCHANGED <<phase, saved, original>>
  BY DEF Loop, configVars, memoryVars, mainVars
<1>2. CASE Applies
  <2>1. PICK S : updates \in Seq(S)
    BY DEF AppliedInv
  <2>2. updates # <<>> /\ updates' = Tail(updates) /\ running'["cleanup"] = Head(updates)["cleanup"]
    BY <1>2 DEF Applies, Rebuilt, Fields, Restart, Hot
  <2>3. /\ Tail(updates) \in Seq(S)
        /\ Tail(updates) = <<>> => Head(updates) = updates[Len(updates)]
        /\ Tail(updates) # <<>> => Tail(updates)[Len(Tail(updates))] = updates[Len(updates)]
    BY <2>1, <2>2, TailLast
  <2> QED BY <1>1, <2>2, <2>3 DEF AppliedInv
<1>3. CASE ~Applies
  <2>1. UNCHANGED <<updates, running>>
    BY <1>3 DEF Loop, LoopStep, Shutdown, CleanupBegins, RewriteReturns, RewriteFails, Retries
  <2> QED BY <1>1, <2>1 DEF AppliedInv
<1> QED BY <1>2, <1>3

LEMMA AppliedNext == DiskInv /\ AppliedInv /\ [Next]_vars => AppliedInv'
<1> SUFFICES ASSUME DiskInv, AppliedInv, [Next]_vars PROVE AppliedInv'
  OBVIOUS
<1>0. <<>> \in Seq({})
  OBVIOUS
<1>1. CASE Launch
  BY <1>1, <1>0 DEF Launch, BuiltFrom, hotVars, AppliedInv, Phases
<1>2. CASE Build \/ Exit \/ Crash
  BY <1>2, <1>0 DEF Build, Exit, Crash, Ends, BuiltFrom, AppliedInv, Phases
<1>3. CASE Quit
  BY <1>3 DEF Quit, configVars, memoryVars, hotVars, AppliedInv, Phases
<1>4. CASE UserStep
  <2>1. UNCHANGED <<original, hotVars, mainVars>>
    BY <1>4, UserSteps DEF Begins, Truncates, WriteFails, Still
  <2> QED BY <2>1 DEF hotVars, mainVars, AppliedInv
<1>5. CASE SaveEnds
  <2>1. original' = draft /\ UNCHANGED phase /\ phase # "off"
    BY <1>5, Kinds DEF SaveEnds, Writes, DiskInv
  <2>2. CASE phase = "gate"
    BY <1>5, <2>1, <2>2 DEF SaveEnds, hotVars, AppliedInv
  <2>3. CASE phase # "gate"
    <3>1. PICK S : updates \in Seq(S)
      BY DEF AppliedInv
    <3>2. updates' = Append(updates, draft)
      BY <1>5, <2>3 DEF SaveEnds, Submits
    <3>3. updates' \in Seq(S \union {draft}) /\ updates' # <<>>
          /\ updates'[Len(updates')] = draft
      BY <3>1, <3>2, Appended
    <3>4. phase' \in Phases /\ phase' \notin {"off", "gate"}
      BY <2>1, <2>3 DEF AppliedInv
    <3> QED BY <2>1, <3>3, <3>4 DEF AppliedInv
  <2> QED BY <2>2, <2>3
<1>6. CASE Loop
  BY <1>6, AppliedLoop
<1>7. CASE Time \/ Copy \/ UNCHANGED vars
  BY <1>7 DEF Time, Tick, Copy, CopyBackup, vars, configVars, memoryVars, hotVars, mainVars, AppliedInv
<1> QED
  BY <1>1, <1>2, <1>3, <1>4, <1>5, <1>6, <1>7 DEF Next

\* Once the event loop is through with what was saved, the pipeline runs under the
\* configuration saved last, whichever window saved it.
THEOREM LastSavedRuns == Spec => []RunsLastSaved
<1>1. Init => AppliedInv
  <2>1. <<>> \in Seq({})
    OBVIOUS
  <2> QED BY <2>1 DEF Init, HotInit, ConfigInit, AppliedInv, Phases
<1>2. AppliedInv => RunsLastSaved
  BY DEF AppliedInv, RunsLastSaved, Rebuilt
<1> QED BY <1>1, <1>2, AppliedNext, DiskAlways, PTL DEF Spec

-----------------------------------------------------------------------------
(***************************************************************************)
(* What pushing pages makes of a draft: what the pages that passed make of *)
(* it, which is valid unless nothing was changed.                          *)
(***************************************************************************)
LEMMA LastOne ==
  ASSUME NEW n \in Nat, NEW S \in SUBSET (0..n), S # {}
  PROVE  Max(S) \in S /\ \A j \in S : Max(S) >= j
<1> DEFINE T == {k \in Nat : \E i \in S : k = n - i}
<1>1. \A i \in S : i \in Nat /\ n - i \in T
  OBVIOUS
<1>2. PICK x \in T : \A y \in T : ~ (<<y, x>> \in OpToRel(<, Nat))
  <2>1. T \subseteq Nat /\ T # {}
    BY <1>1
  <2> HIDE DEF T
  <2> QED BY <2>1, NatLessThanWellFounded, WFMin
<1>3. PICK m \in S : x = n - m
  OBVIOUS
<1>4. ASSUME NEW j \in S PROVE m >= j
  <2>1. n - j \in T /\ n - j \in Nat /\ x \in Nat
    BY <1>1
  <2>2. ~(n - j < x)
    BY <1>2, <2>1 DEF OpToRel
  <2> HIDE DEF T
  <2> QED BY <1>1, <1>3, <2>1, <2>2
<1>5. \E i \in S : \A j \in S : i >= j
  BY <1>4
<1> QED BY <1>5 DEF Max

LEMMA SectionTyped ==
  ASSUME NEW c \in Configs, NEW page, NEW ui \in Configs
  PROVE  UpdateSection(c, page, ui) \in Configs
  BY DEF UpdateSection, Configs, Defaults, Values

LEMMA PushedTyped ==
  ASSUME NEW c \in Configs, NEW pages, NEW ui \in Configs
  PROVE  Pushed(c, pages, ui).cfg \in Configs
  BY SectionTyped DEF Pushed, After

LEMMA NoPages ==
  ASSUME NEW c \in Configs, NEW pages, NEW ui
  PROVE  After(c, pages, 0, ui) = c
<1>1. 1..0 = {}
  OBVIOUS
<1>2. UNION {pages[k].shows : k \in 1..0} = {} /\ UNION {pages[k].drops : k \in 1..0} = {}
  BY <1>1
<1> QED BY <1>2 DEF After, UpdateSection, Configs

\* How many of the pages pass.
LEMMA PushedIs ==
  ASSUME NEW c \in Configs, NEW pages, NEW ui, Len(pages) \in Nat
  PROVE  \E n \in 0..Len(pages) :
           /\ Pushed(c, pages, ui) = [cfg |-> After(c, pages, n, ui), ok |-> n = Len(pages)]
           /\ \A k \in 1..n : Valid(After(c, pages, k, ui))
           /\ \A m \in 0..Len(pages) :
                (\A k \in 1..m : Valid(After(c, pages, k, ui))) => n >= m
<1> DEFINE passed == {n \in 0..Len(pages) : \A k \in 1..n : Valid(After(c, pages, k, ui))}
<1>1. 0 \in passed /\ passed \in SUBSET (0..Len(pages))
  OBVIOUS
<1>2. Max(passed) \in passed /\ \A m \in passed : Max(passed) >= m
  <2> HIDE DEF passed
  <2> QED BY <1>1, LastOne
<1>3. Pushed(c, pages, ui) = [cfg |-> After(c, pages, Max(passed), ui), ok |-> Max(passed) = Len(pages)]
  BY DEF Pushed
<1> QED BY <1>2, <1>3

LEMMA PushedValid ==
  ASSUME NEW c \in Configs, NEW pages, NEW ui, Len(pages) \in Nat
  PROVE  Pushed(c, pages, ui).cfg = c \/ Valid(Pushed(c, pages, ui).cfg)
<1>1. PICK n \in 0..Len(pages) :
        /\ Pushed(c, pages, ui) = [cfg |-> After(c, pages, n, ui), ok |-> n = Len(pages)]
        /\ \A k \in 1..n : Valid(After(c, pages, k, ui))
  BY PushedIs
<1>2. CASE n = 0
  BY <1>1, <1>2, NoPages
<1>3. CASE n # 0
  <2>1. n \in 1..n
    BY <1>3
  <2> QED BY <1>1, <2>1
<1> QED BY <1>2, <1>3

\* All of them, where each leaves the draft valid.
LEMMA PushedOk ==
  ASSUME NEW c \in Configs, NEW pages, NEW ui, Len(pages) \in Nat,
         \A k \in 1..Len(pages) : Valid(After(c, pages, k, ui))
  PROVE  Pushed(c, pages, ui) = [cfg |-> After(c, pages, Len(pages), ui), ok |-> TRUE]
<1>1. PICK n \in 0..Len(pages) :
        /\ Pushed(c, pages, ui) = [cfg |-> After(c, pages, n, ui), ok |-> n = Len(pages)]
        /\ \A m \in 0..Len(pages) :
             (\A k \in 1..m : Valid(After(c, pages, k, ui))) => n >= m
  BY PushedIs
<1>2. n >= Len(pages)
  BY <1>1
<1>3. n = Len(pages)
  BY <1>2
<1> QED BY <1>1, <1>3

\* One page: it is written, or the draft stays as it is.
LEMMA PushedOne ==
  ASSUME NEW c \in Configs, NEW page, NEW ui
  PROVE  LET new == UpdateSection(c, page, ui)
         IN  Pushed(c, <<page>>, ui).cfg = IF Valid(new) THEN new ELSE c
<1> DEFINE new == UpdateSection(c, page, ui)
<1>1. PICK pages : pages = <<page>>
  OBVIOUS
<1>2. Len(pages) = 1 /\ Len(pages) \in Nat /\ pages[1] = page
  BY <1>1
<1>3. After(c, pages, 1, ui) = new
  <2>1. 1..1 = {1}
    OBVIOUS
  <2>2. UNION {pages[k].shows : k \in 1..1} = page.shows
    BY <1>2, <2>1
  <2>3. UNION {pages[k].drops : k \in 1..1} = page.drops
    BY <1>2, <2>1
  <2> QED BY <2>2, <2>3 DEF After, UpdateSection
<1>4. CASE Valid(new)
  <2>1. \A k \in 1..Len(pages) : Valid(After(c, pages, k, ui))
    BY <1>2, <1>3, <1>4
  <2>2. Pushed(c, pages, ui) = [cfg |-> After(c, pages, Len(pages), ui), ok |-> TRUE]
    BY <1>2, <2>1, PushedOk
  <2> QED BY <1>1, <1>2, <1>3, <1>4, <2>2
<1>5. CASE ~Valid(new)
  <2>1. PICK n \in 0..Len(pages) :
          /\ Pushed(c, pages, ui) = [cfg |-> After(c, pages, n, ui), ok |-> n = Len(pages)]
          /\ \A k \in 1..n : Valid(After(c, pages, k, ui))
    BY <1>2, PushedIs
  <2>2. n # 1
    BY <1>3, <1>5, <2>1
  <2>3. n = 0
    BY <1>2, <2>2
  <2> QED BY <1>1, <1>5, <2>1, <2>3, NoPages
<1> QED BY <1>4, <1>5

-----------------------------------------------------------------------------
\* Types.

FormsOK == ConfigTypeOK /\ UITypeOK

LEMMA Shown2 ==
  /\ Len(Shows) = 2 /\ Finish = 4 /\ Shows[1] = AsrPage /\ Shows[2] = CleanupPage
  BY DEF Shows, Finish

LEMMA ConfigFacts ==
  /\ Defaults \in Configs /\ NoFile \in Files /\ Torn \in Files
  /\ \A c \in Configs : Full(c) \in Files /\ Full(c) # Torn /\ Full(c).cfg = c
  /\ \A x \in Files : x.cfg \in Configs
  /\ NoFile # Torn
<1>1. Defaults \in Configs
  BY DEF Defaults, Configs, Values
<1>2. NoFile.cfg = Defaults /\ Torn.cfg = Defaults /\ NoFile # Torn
  BY DEF NoFile, Torn
<1>3. \A c : Full(c).cfg = c /\ Full(c) # Torn
  BY DEF Full, Torn
<1> QED BY <1>1, <1>2, <1>3 DEF Files

LEMMA UsesTyped ==
  ASSUME left \in [Limited -> Nat], NEW what \in Limited, Uses(what) \/ UNCHANGED left
  PROVE  left' \in [Limited -> Nat]
<1>1. CASE Uses(what)
  <2>1. left[what] \in Nat /\ left[what] > 0
    BY <1>1 DEF Uses
  <2>2. left[what] - 1 \in Nat
    BY <2>1
  <2> QED BY <1>1, <2>2 DEF Uses
<1> QED BY <1>1

LEMMA SaveBeginsTyped ==
  ASSUME ConfigTypeOK, NEW by \in Savers, NEW pages, NEW ui \in Configs,
         SaveBegins(by, pages, ui), left' \in [Limited -> Nat]
  PROVE  ConfigTypeOK'
<1>1. draft' = Pushed(draft, pages, ui).cfg
  BY DEF SaveBegins
<1>2. draft' \in Configs
  BY <1>1, PushedTyped DEF ConfigTypeOK
<1>3. UNCHANGED <<key, clock, file, last, original>>
  BY DEF SaveBegins
<1>4. \/ /\ save' = [at |-> "backed up", by |-> by]
         /\ backups' = IF file.kind = "none" THEN backups ELSE [backups EXCEPT ![clock] = file]
         /\ hurried' = (hurried \/ (file = Torn /\ backups[clock] # NoFile))
      \/ UNCHANGED <<save, backups, hurried>>
  BY Zenon DEF SaveBegins
<1>5. hurried' \in BOOLEAN
  BY <1>4 DEF ConfigTypeOK
<1>6. backups' \in [0..MaxClock -> Files]
  BY <1>4 DEF ConfigTypeOK
<1>7. save' \in {Idle} \union [at : {"backed up", "writing"}, by : Savers]
  <2>1. [at |-> "backed up", by |-> by] \in [at : {"backed up", "writing"}, by : Savers]
    OBVIOUS
  <2> QED BY <1>4, <2>1, Zenon DEF ConfigTypeOK
<1> QED BY <1>2, <1>3, <1>5, <1>6, <1>7 DEF ConfigTypeOK

\* Only the disk, or nothing, is touched.
LEMMA SaveTyped ==
  ASSUME ConfigTypeOK, Truncates \/ WriteFails, UNCHANGED left
  PROVE  ConfigTypeOK'
<1>1. save' \in {Idle} \union [at : {"backed up", "writing"}, by : Savers]
  <2>1. CASE Truncates
    <3>1. save # Idle
      BY <2>1, Kinds DEF Truncates
    <3>2. save \in [at : {"backed up", "writing"}, by : Savers]
      BY <3>1 DEF ConfigTypeOK
    <3> QED BY <2>1, <3>2 DEF Truncates
  <2>2. CASE WriteFails
    BY <2>2 DEF WriteFails
  <2> QED BY <2>1, <2>2
<1>2. file' \in Files
  BY ConfigFacts DEF Truncates, WriteFails, diskVars, ConfigTypeOK
<1>3. UNCHANGED <<key, clock, backups, last, hurried, draft, original>>
  BY DEF Truncates, WriteFails, diskVars
<1> QED BY <1>1, <1>2, <1>3 DEF ConfigTypeOK

LEMMA ArrivesTyped ==
  ASSUME UITypeOK, NEW n \in 0..Finish, NEW d \in Configs, Arrives(n, d)
  PROVE  wizard' \in [page : 0..Finish, ui : Configs]
<1>1. [f \in Fields |-> IF f \in PageAt(n).shows THEN d[f] ELSE wizard.ui[f]] \in Configs
  BY DEF UITypeOK, Configs
<1> QED BY <1>1 DEF Arrives

LEMMA RefreshedTyped ==
  ASSUME NEW d \in Configs, NEW o
  PROVE  Refreshed(d, o) \in [open : BOOLEAN, ui : Configs, enabled : BOOLEAN, banner : SUBSET Fields]
  BY DEF Refreshed, Fields

LEMMA WindowClosed ==
  /\ Closed \in [page : 0..Finish, ui : Configs] /\ Closed.page = 0
  /\ NoWindow \in [open : BOOLEAN, ui : Configs, enabled : BOOLEAN, banner : SUBSET Fields]
  /\ ~NoWindow.open
<1>1. 0 \in 0..Finish
  BY Shown2
<1> QED BY <1>1, ConfigFacts DEF Closed, NoWindow

LEMMA OpenWizardTyped ==
  ASSUME OpenWizard
  PROVE  wizard' \in [page : 0..Finish, ui : Configs] /\ wizard'.page = 1
<1>1. 1 \in 0..Finish
  BY Shown2
<1> QED BY <1>1, ConfigFacts DEF OpenWizard, Welcome

LEMMA Flipped ==
  ASSUME NEW c \in Configs, NEW f \in Fields
  PROVE  [c EXCEPT ![f] = 1 - @] \in Configs
<1>1. c[f] \in {0, 1}
  BY DEF Configs, Values
<1>2. 1 - c[f] \in {0, 1}
  BY <1>1
<1> QED BY <1>2 DEF Configs, Values

LEMMA UserTyped ==
  ASSUME FormsOK, UserStep
  PROVE  FormsOK'
<1> USE DEF FormsOK
<1>1. CASE TurnPage
  <2>1. PICK n \in Welcome..Finish : Turn(n)
    BY <1>1 DEF TurnPage
  <2>2. left' \in [Limited -> Nat]
    BY <2>1, UsesTyped DEF Turn, Turned, ConfigTypeOK, Limited
  <2>3. draft' \in Configs
    BY <2>1, PushedTyped DEF Turn, ConfigTypeOK, UITypeOK
  <2>4. n \in 0..Finish
    BY Shown2 DEF Welcome
  <2>5. wizard' \in [page : 0..Finish, ui : Configs]
    <3>1. PICK d : d = draft'
      OBVIOUS
    <3>2. Arrives(n, d)
      BY <2>1, <3>1 DEF Turn, Arrives
    <3> QED BY <2>3, <2>4, <3>1, <3>2, ArrivesTyped
  <2>6. UNCHANGED <<key, clock, diskVars, original, save, window>>
    BY <2>1 DEF Turn, Turned
  <2> QED BY <2>2, <2>3, <2>5, <2>6 DEF ConfigTypeOK, UITypeOK, diskVars
<1>2. CASE FinishPressed \/ SavePressed \/ (WindowCloses /\ save' # save)
  <2>1. left' \in [Limited -> Nat]
    BY <1>2, UsesTyped DEF FinishPressed, SavePressed, WindowCloses, Counts, ConfigTypeOK, Limited
  <2>2. \E by \in Savers, ui \in Configs : \E pages :
          SaveBegins(by, pages, ui) /\ UNCHANGED uiVars
    <3>1. CASE FinishPressed
      BY <3>1 DEF FinishPressed, FinishWizard, Savers, UITypeOK
    <3>2. CASE SavePressed
      BY <3>2 DEF SavePressed, PressSave, Savers, UITypeOK
    <3>3. CASE WindowCloses /\ save' # save
      BY <3>3 DEF WindowCloses, CloseWindow, configVars, memoryVars, Savers, UITypeOK, uiVars
    <3> QED BY <1>2, <3>1, <3>2, <3>3
  <2> QED BY <2>1, <2>2, SaveBeginsTyped DEF UITypeOK, uiVars
<1>3. CASE WindowCloses /\ save' = save
  <2>1. left' \in [Limited -> Nat]
    BY <1>3, UsesTyped DEF WindowCloses, Counts, ConfigTypeOK, Limited
  <2>2. CASE \E by \in Savers, ui \in Configs : \E pages :
          SaveBegins(by, pages, ui) /\ UNCHANGED uiVars
    BY <2>1, <2>2, SaveBeginsTyped DEF UITypeOK, uiVars
  <2>3. CASE window' = NoWindow /\ UNCHANGED <<configVars, wizard>>
    BY <2>1, <2>3, WindowClosed DEF configVars, diskVars, memoryVars, ConfigTypeOK, UITypeOK
  <2> QED BY <1>3, <2>2, <2>3 DEF WindowCloses, CloseWindow, Savers, UITypeOK, uiVars
<1>4. CASE CancelPressed
  BY <1>4, WindowClosed DEF CancelPressed, CancelWizard, configVars, diskVars, memoryVars, ConfigTypeOK, UITypeOK
<1>5. CASE TrayWizard
  <2>1. left' \in [Limited -> Nat]
    BY <1>5, UsesTyped DEF TrayWizard, ConfigTypeOK, Limited
  <2>2. OpenWizard /\ UNCHANGED <<configVars, window>>
    BY <1>5 DEF TrayWizard
  <2> QED BY <2>1, <2>2, OpenWizardTyped DEF configVars, diskVars, memoryVars, ConfigTypeOK, UITypeOK
<1>6. CASE TrayWindow
  <2>1. left' \in [Limited -> Nat]
    BY <1>6, UsesTyped DEF TrayWindow, ConfigTypeOK, Limited
  <2>2. window' = Refreshed(draft, original) /\ UNCHANGED <<configVars, wizard>>
    BY <1>6 DEF TrayWindow, OpenWindow
  <2>3. draft \in Configs
    BY DEF ConfigTypeOK
  <2> QED BY <2>1, <2>2, <2>3, RefreshedTyped DEF configVars, diskVars, memoryVars, ConfigTypeOK, UITypeOK
<1>7. CASE Types
  <2>1. PICK f \in Fields : TypeInWizard(f) \/ TypeInWindow(f)
    BY <1>7 DEF Types
  <2>2. left' \in [Limited -> Nat]
    BY <2>1, UsesTyped DEF TypeInWizard, TypeInWindow, ConfigTypeOK, Limited
  <2>3. /\ [wizard.ui EXCEPT ![f] = 1 - @] \in Configs
        /\ [window.ui EXCEPT ![f] = 1 - @] \in Configs
    BY Flipped DEF UITypeOK
  <2>4. UITypeOK'
    <3>1. CASE TypeInWizard(f)
      BY <2>3, <3>1 DEF TypeInWizard, UITypeOK
    <3>2. CASE TypeInWindow(f)
      BY <2>3, <3>2 DEF TypeInWindow, UITypeOK
    <3> QED BY <2>1, <3>1, <3>2
  <2>5. UNCHANGED configVars
    BY <2>1 DEF TypeInWizard, TypeInWindow
  <2> QED BY <2>2, <2>4, <2>5 DEF configVars, diskVars, memoryVars, ConfigTypeOK
<1>8. CASE WelcomePressed
  <2>1. \E c \in Configs : ReplaceDraft(c)
    BY <1>8, ConfigFacts DEF WelcomePressed, UseDefaults, Restore, Restorable
  <2>2. ConfigTypeOK'
    BY <1>8, <2>1 DEF WelcomePressed, ReplaceDraft, diskVars, ConfigTypeOK
  <2>3. wizard' \in [page : 0..Finish, ui : Configs] /\ UNCHANGED window
    <3>1. 2 \in 0..Finish /\ Welcome + 1 = 2
      BY Shown2 DEF Welcome
    <3>2. UNCHANGED <<wizard, window>> \/ (Arrives(2, Defaults) /\ UNCHANGED window)
      BY <1>8, <3>1 DEF WelcomePressed, UseDefaults, Restore, uiVars
    <3> QED BY <3>1, <3>2, ArrivesTyped, ConfigFacts DEF UITypeOK
  <2> QED BY <2>2, <2>3 DEF UITypeOK
<1>9. CASE DiscardPressed
  <2>1. original \in Configs
    BY DEF ConfigTypeOK
  <2> QED
    BY <1>9, <2>1, RefreshedTyped
       DEF DiscardPressed, Discard, Revert, diskVars, ConfigTypeOK, UITypeOK
<1>10. CASE KeyGiven
  BY <1>10 DEF KeyGiven, SetKey, diskVars, memoryVars, uiVars, ConfigTypeOK, UITypeOK
<1>11. CASE SaveStarts \/ SaveFails
  BY <1>11, SaveTyped DEF SaveStarts, SaveFails, uiVars, UITypeOK
<1> QED
  BY <1>1, <1>2, <1>3, <1>4, <1>5, <1>6, <1>7, <1>8, <1>9, <1>10, <1>11 DEF UserStep

LEMMA BuiltTyped ==
  ASSUME NEW c \in Configs, BuiltFrom(c), key' \in BOOLEAN
  PROVE  HotTypeOK'
<1>1. <<>> \in Seq(Configs) /\ 0 \in 0..0
  OBVIOUS
<1> QED BY <1>1 DEF BuiltFrom, HotTypeOK, NoCall, CleanupRetries

LEMMA HotLoopTyped ==
  ASSUME HotTypeOK, CallInv, key \in BOOLEAN, LoopStep, left \in [Limited -> Nat]
  PROVE  HotTypeOK' /\ left' \in [Limited -> Nat]
<1>1. left' \in [Limited -> Nat]
  BY UsesTyped
     DEF LoopStep, Applies, Shutdown, CleanupBegins, RewriteReturns, RewriteFails, Retries, Limited
<1>2. /\ gen \in Nat /\ gen' \in {gen, gen + 1} /\ IsCall(call)
      /\ closing \subseteq 0..gen /\ closed \subseteq 0..gen
      /\ closing' \subseteq closing \union {gen} /\ closed' \subseteq closed \union closing
  BY DEF LoopStep, Applies, Shutdown, CleanupBegins, RewriteReturns, RewriteFails, Retries,
         HotTypeOK, CallInv
<1>3. closing' \subseteq 0..gen' /\ closed' \subseteq 0..gen' /\ gen' \in Nat
  BY <1>2
<1>4. /\ running' \in Configs /\ armed' \in BOOLEAN /\ updates' \in Seq(Configs)
  <2>1. CASE Applies
    <3>1. Head(updates) \in Configs /\ Tail(updates) \in Seq(Configs)
      BY <2>1, HeadTailProperties DEF Applies, HotTypeOK
    <3>2. [f \in Fields |-> IF f \in Rebuilt THEN Head(updates)[f] ELSE running[f]] \in Configs
      BY <3>1 DEF HotTypeOK, Configs
    <3> QED BY <2>1, <3>1, <3>2 DEF Applies
  <2>2. CASE ~Applies
    BY <2>2 DEF LoopStep, Shutdown, CleanupBegins, RewriteReturns, RewriteFails, Retries, HotTypeOK
  <2> QED BY <2>1, <2>2
<1> DEFINE Typed(c) == /\ c.at \in {"none", "awaits", "sleeps", "cleaned", "raw", "unavailable"}
                       /\ c.on \in 0..gen' /\ c.remote \in BOOLEAN
                       /\ c.tries \in 0..CleanupRetries /\ c.mishaps \in Nat
<1>5. IsCall(call) /\ Typed(call) /\ Mishaps(call)
  <2>1. call.on \in 0..gen'
    BY <1>2 DEF HotTypeOK
  <2> QED BY <1>2, <2>1 DEF HotTypeOK, CallInv
<1>6. Typed(call')
  <2>1. CASE call' = call
    BY <1>5, <2>1
  <2>2. CASE call' = Counted(call)
    BY <1>5, <2>2 DEF Counted, IsCall
  <2>3. CASE CleanupBegins
    <3>1. gen \in 0..gen'
      BY <1>2
    <3>2. Remote \in BOOLEAN
      BY DEF Remote
    <3>3. /\ call'.at \in {"unavailable", "awaits"} /\ call'.on = gen /\ call'.remote = Remote
          /\ call'.tries = 0 /\ call'.mishaps = 0
      BY <2>3, Zenon DEF CleanupBegins, NoCall
    <3> QED BY <3>1, <3>2, <3>3 DEF CleanupRetries
  <2>4. CASE RewriteReturns
    BY <1>5, <2>4 DEF RewriteReturns, IsCall
  <2>5. CASE RewriteFails
    <3>1. \A c : IsCall(c) /\ Typed(c) => Typed(Failed(c))
      BY DEF Failed, IsCall
    <3>2. IsCall(Counted(call)) /\ Typed(Counted(call))
      BY <1>5 DEF IsCall, Counted
    <3>3. call' = Failed(call) \/ call' = Failed(Counted(call))
      BY <2>5, Zenon DEF RewriteFails, Counted
    <3> HIDE DEF Typed
    <3> QED BY <1>5, <3>1, <3>2, <3>3
  <2>6. CASE Retries
    <3>1. call.tries = 0 /\ gen \in 0..gen'
      BY <1>2, <1>5, <2>6 DEF Retries, Mishaps
    <3>2. Remote \in BOOLEAN
      BY DEF Remote
    <3>3. /\ call'.at = "awaits" /\ call'.on = gen /\ call'.remote = Remote
          /\ call'.tries = call.tries + 1 /\ call'.mishaps = call.mishaps
      BY <1>5, <2>6 DEF Retries, IsCall, HotTypeOK
    <3> QED BY <1>5, <3>1, <3>2, <3>3 DEF CleanupRetries
  <2>7. Applies \/ Shutdown => call' \in {call, Counted(call)}
    BY DEF Applies, Shutdown, Counted
  <2> QED BY <2>1, <2>2, <2>3, <2>4, <2>5, <2>6, <2>7 DEF LoopStep
<1> HIDE DEF Typed
<1> QED BY <1>1, <1>3, <1>4, <1>6 DEF Typed, HotTypeOK

LEMMA TypesNext == TypeOK /\ CallInv /\ [Next]_vars => TypeOK'
<1> SUFFICES ASSUME TypeOK, CallInv, [Next]_vars PROVE TypeOK'
  OBVIOUS
<1> USE DEF FormsOK
<1>1. CASE Launch
  <2>1. left' \in [Limited -> Nat]
    BY <1>1, UsesTyped DEF Launch, TypeOK, ConfigTypeOK, Limited
  <2>2. file.cfg \in Configs
    BY ConfigFacts DEF TypeOK, ConfigTypeOK
  <2>3. ConfigTypeOK'
    BY <1>1, <2>1, <2>2 DEF Launch, Load, diskVars, TypeOK, ConfigTypeOK
  <2>4. UITypeOK'
    BY <1>1, OpenWizardTyped DEF Launch, TypeOK, UITypeOK
  <2>5. HotTypeOK'
    <3>1. CASE UNCHANGED hotVars
      BY <3>1 DEF hotVars, TypeOK, HotTypeOK
    <3>2. CASE BuiltFrom(file.cfg)
      BY <2>2, <2>3, <3>2, BuiltTyped DEF ConfigTypeOK
    <3> QED BY <1>1, <3>1, <3>2 DEF Launch
  <2>6. phase' \in Phases /\ saved' \in BOOLEAN
    BY <1>1 DEF Launch, Phases
  <2> QED BY <2>3, <2>4, <2>5, <2>6 DEF TypeOK
<1>2. CASE Build
  <2>1. UNCHANGED <<left, configVars, uiVars>> /\ phase' = "up" /\ BuiltFrom(draft) /\ saved' = FALSE
    BY <1>2 DEF Build
  <2>2. draft \in Configs /\ key' \in BOOLEAN
    BY <2>1 DEF configVars, TypeOK, ConfigTypeOK
  <2>3. HotTypeOK'
    BY <2>1, <2>2, BuiltTyped
  <2> QED
    BY <2>1, <2>3 DEF TypeOK, configVars, diskVars, memoryVars, uiVars, ConfigTypeOK, UITypeOK, Phases
<1>3. CASE Quit
  BY <1>3, WindowClosed
     DEF Quit, TypeOK, configVars, diskVars, memoryVars, hotVars, ConfigTypeOK, UITypeOK, HotTypeOK, Phases
<1>4. CASE Exit \/ Crash
  <2>1. Ends
    BY <1>4 DEF Exit, Crash
  <2>2. HotTypeOK'
    <3>1. key' \in BOOLEAN /\ BuiltFrom(Defaults)
      BY <2>1 DEF Ends
    <3> QED BY <3>1, BuiltTyped, ConfigFacts
  <2>3. ConfigTypeOK'
    BY <2>1, ConfigFacts DEF Ends, diskVars, TypeOK, ConfigTypeOK
  <2>4. UITypeOK'
    BY <2>1, WindowClosed DEF Ends, UITypeOK
  <2> QED BY <2>1, <2>2, <2>3, <2>4 DEF Ends, TypeOK, Phases
<1>5. CASE UserStep
  <2>1. ConfigTypeOK' /\ UITypeOK'
    BY <1>5, UserTyped DEF TypeOK
  <2>2. UNCHANGED <<hotVars, mainVars>>
    BY <1>5 DEF UserStep
  <2> QED BY <2>1, <2>2 DEF TypeOK, hotVars, mainVars, HotTypeOK
<1>6. CASE SaveEnds
  <2>1. draft \in Configs
    BY DEF TypeOK, ConfigTypeOK
  <2>2. ConfigTypeOK'
    <3>1. /\ file' = Full(draft) /\ last' = file' /\ original' = draft /\ save' = Idle
          /\ UNCHANGED <<left, key, clock, backups, hurried, draft>>
      BY <1>6 DEF SaveEnds, Writes
    <3>2. file' \in Files /\ file' # Torn
      BY <2>1, <3>1, ConfigFacts
    <3> QED BY <2>1, <3>1, <3>2 DEF TypeOK, ConfigTypeOK
  <2>3. UITypeOK'
    <3>1. wizard' \in {Closed, wizard} /\ window' \in {Refreshed(draft, draft), NoWindow, window}
      BY <1>6 DEF SaveEnds, Settles
    <3> QED BY <2>1, <3>1, WindowClosed, RefreshedTyped DEF TypeOK, UITypeOK
  <2>4. HotTypeOK'
    <3>1. CASE UNCHANGED hotVars
      BY <3>1 DEF hotVars, TypeOK, HotTypeOK
    <3>2. CASE Submits(draft)
      <4>1. updates' \in Seq(Configs)
        BY <2>1, <3>2, AppendProperties DEF Submits, TypeOK, HotTypeOK
      <4> QED BY <3>2, <4>1 DEF Submits, TypeOK, HotTypeOK
    <3> QED BY <1>6, <3>1, <3>2 DEF SaveEnds
  <2>5. phase' = phase /\ saved' = TRUE
    BY <1>6 DEF SaveEnds
  <2> QED BY <2>2, <2>3, <2>4, <2>5 DEF TypeOK
<1>7. CASE Loop
  <2>1. LoopStep /\ UNCHANGED <<configVars, uiVars, mainVars>>
    BY <1>7 DEF Loop
  <2>2. HotTypeOK' /\ left' \in [Limited -> Nat]
    BY <2>1, HotLoopTyped DEF TypeOK, ConfigTypeOK
  <2> QED
    BY <2>1, <2>2 DEF TypeOK, configVars, diskVars, memoryVars, uiVars, mainVars, ConfigTypeOK, UITypeOK
<1>8. CASE Time
  <2>1. left' \in [Limited -> Nat]
    BY <1>8, UsesTyped DEF Time, TypeOK, ConfigTypeOK, Limited
  <2>2. clock' \in 0..MaxClock
    <3>1. clock \in 0..MaxClock /\ MaxClock \in Nat /\ clock < MaxClock /\ clock' = clock + 1
      BY <1>8, Clocks DEF Time, Tick, TypeOK, ConfigTypeOK
    <3> QED BY <3>1
  <2>3. UNCHANGED <<key, diskVars, memoryVars, uiVars, hotVars, mainVars>>
    BY <1>8 DEF Time, Tick
  <2> QED
    BY <2>1, <2>2, <2>3
       DEF TypeOK, diskVars, memoryVars, uiVars, hotVars, mainVars, ConfigTypeOK, UITypeOK, HotTypeOK
<1>9. CASE Copy
  <2>1. PICK t \in 0..clock : CopyBackup(t)
    BY <1>9 DEF Copy
  <2>2. backups[t] \in Files /\ backups[t] # Torn
    <3>1. t \in 0..MaxClock
      <4>1. clock \in 0..MaxClock /\ MaxClock \in Nat
        BY Clocks DEF TypeOK, ConfigTypeOK
      <4> QED BY <4>1
    <3>2. backups[t].kind = "full"
      BY <2>1 DEF CopyBackup
    <3> QED BY <3>1, <3>2, Kinds DEF TypeOK, ConfigTypeOK
  <2>3. /\ file' = backups[t] /\ last' = backups[t]
        /\ UNCHANGED <<left, key, clock, backups, hurried, memoryVars, uiVars, hotVars, mainVars>>
    BY <1>9, <2>1 DEF Copy, CopyBackup
  <2> QED
    BY <2>2, <2>3
       DEF TypeOK, memoryVars, uiVars, hotVars, mainVars, ConfigTypeOK, UITypeOK, HotTypeOK
<1>10. CASE UNCHANGED vars
  BY <1>10
     DEF vars, TypeOK, configVars, diskVars, memoryVars, uiVars, hotVars, mainVars,
         ConfigTypeOK, UITypeOK, HotTypeOK
<1> QED
  BY <1>1, <1>2, <1>3, <1>4, <1>5, <1>6, <1>7, <1>8, <1>9, <1>10 DEF Next

\* The types of the running clean-up rest on how many attempts it makes.
LEMMA TypedAlways == Spec => [](TypeOK /\ CallInv)
<1>1. Init => TypeOK
  <2> SUFFICES ASSUME Init PROVE TypeOK
    OBVIOUS
  <2>1. ConfigTypeOK
    <3>1. file \in {NoFile} \union {Full(c) : c \in Configs} /\ last = file
      BY DEF Init, ConfigInit
    <3>2. file \in Files /\ file # Torn
      BY <3>1, ConfigFacts DEF Files
    <3>3. left \in [Limited -> Nat] /\ 0 \in 0..MaxClock
      BY ConfigAssumption DEF Init, ConfigInit
    <3>4. /\ key = FALSE /\ hurried = FALSE /\ clock = 0 /\ save = Idle
          /\ draft = Defaults /\ original = Defaults
          /\ backups = [t \in 0..MaxClock |-> NoFile]
      BY DEF Init, ConfigInit
    <3> QED BY <3>1, <3>2, <3>3, <3>4, ConfigFacts DEF ConfigTypeOK
  <2>2. UITypeOK
    BY WindowClosed DEF Init, UIInit, UITypeOK
  <2>3. HotTypeOK
    <3>1. <<>> \in Seq(Configs) /\ 0 \in 0..0
      OBVIOUS
    <3>2. /\ running = Defaults /\ armed = FALSE /\ updates = <<>> /\ gen = 0
          /\ closing = {} /\ closed = {} /\ call = NoCall
      BY DEF Init, HotInit
    <3>3. /\ NoCall.at = "none" /\ NoCall.on = 0 /\ NoCall.remote = FALSE
          /\ NoCall.tries = 0 /\ NoCall.mishaps = 0
      BY DEF NoCall
    <3>4. running \in Configs /\ updates \in Seq(Configs) /\ armed \in BOOLEAN
      BY <3>1, <3>2, ConfigFacts
    <3>5. gen \in Nat /\ closing \subseteq 0..gen /\ closed \subseteq 0..gen
      BY <3>2
    <3>6. /\ call.at \in {"none", "awaits", "sleeps", "cleaned", "raw", "unavailable"}
          /\ call.on \in 0..gen /\ call.remote \in BOOLEAN
      BY <3>1, <3>2, <3>3
    <3>7. call.tries \in 0..CleanupRetries /\ call.mishaps \in Nat
      BY <3>2, <3>3 DEF CleanupRetries
    <3> QED BY <3>4, <3>5, <3>6, <3>7 DEF HotTypeOK
  <2> QED BY <2>1, <2>2, <2>3 DEF Init, TypeOK, Phases
<1>2. Init => CallInv
  BY DEF Init, HotInit, CallInv, IsCall, Mishaps, Outlived, NoCall
<1> QED BY <1>1, <1>2, TypesNext, CallNext, PTL DEF Spec

\* Everything the windows, the disk and the running pipeline keep has its type.
THEOREM SettingsTyped == Spec => []TypeOK
  BY TypedAlways, PTL

-----------------------------------------------------------------------------
(***************************************************************************)
(* The wizard of the gate.  Without the key it can only clear provider     *)
(* fields: what is set in the draft was set in the file.  A page that was  *)
(* left with its field cleared has cleared it in the draft, unless another *)
(* field is set: which, if one at most was set in the file, is not so.     *)
(***************************************************************************)
PageOf(f) == IF f = "asr" THEN 2 ELSE 3

Single == \A f, g \in Keyed : original[f] = 1 /\ original[g] = 1 => f = g

Clears(d, o, w) ==
  /\ \A f \in Keyed : d[f] = 1 => o[f] = 1
  /\ (\A f, g \in Keyed : o[f] = 1 /\ o[g] = 1 => f = g) =>
       \A f \in Keyed : PageOf(f) < w.page /\ w.ui[f] = 0 => d[f] = 0

GateInv ==
  /\ phase \in {"off", "gate"} => ~window.open
  /\ phase = "gate" /\ save # Idle => save.by = "wizard"
  /\ phase = "gate" /\ ~key /\ wizard.page # 0 => Clears(draft, original, wizard)

LEMMA PagesShow ==
  ASSUME NEW n \in 1..Finish, NEW f \in Fields
  PROVE  /\ f \in PageAt(n).shows <=> f \in Keyed /\ PageOf(f) = n
         /\ PageAt(n).drops = {}
<1>1. n \in {1, 2, 3, 4} /\ Finish = 4
  BY Shown2
<1>2. n = 1 \/ n = 4 => PageAt(n) = Blank
  BY <1>1 DEF PageAt
<1>3. n = 2 => PageAt(n) = AsrPage
  BY Shown2 DEF PageAt
<1>4. n = 3 => PageAt(n) = CleanupPage
  BY Shown2 DEF PageAt
<1> QED BY <1>1, <1>2, <1>3, <1>4
        DEF Blank, AsrPage, CleanupPage, Keyed, PageOf, Fields, Restart, Hot

LEMMA KeyedFields == Keyed \subseteq Fields
  BY DEF Keyed, Fields, Restart, Hot

LEMMA ValidClears ==
  ASSUME NEW c, Valid(c), ~key, NEW o, NEW w
  PROVE  Clears(c, o, w)
<1>1. \A f \in Keyed : c[f] = 0
  BY DEF Valid
<1> QED BY <1>1 DEF Clears

LEMMA TurnClears ==
  ASSUME FormsOK, ~key, Clears(draft, original, wizard), NEW n \in Welcome..Finish, Turn(n)
  PROVE  Clears(draft', original', wizard')
<1> DEFINE p == wizard.page
           new == UpdateSection(draft, PageAt(p), wizard.ui)
<1>1. /\ p \in 1..Finish /\ n \in 1..Finish /\ n \in {p - 1, p + 1} /\ original' = original
  <2>1. p \in 0..Finish /\ p # 0 /\ Finish = 4
    BY Shown2 DEF Turn, Turned, FormsOK, UITypeOK
  <2>2. n \in {p - 1, p + 1} /\ original' = original
    BY DEF Turn, Turned
  <2> QED BY <2>1, <2>2 DEF Welcome
<1>2. draft' = IF Valid(new) THEN new ELSE draft
  <2>1. draft \in Configs
    BY DEF FormsOK, ConfigTypeOK
  <2> QED BY <2>1, PushedOne DEF Turn
<1>3. CASE Valid(new)
  BY <1>2, <1>3, ValidClears
<1>4. CASE ~Valid(new)
  <2>1. draft' = draft
    BY <1>2, <1>4
  <2>2. /\ wizard'.page = n
        /\ \A f \in Fields : wizard'.ui[f] = IF f \in PageAt(n).shows THEN draft'[f] ELSE wizard.ui[f]
    BY DEF Turn, Arrives
  <2>3. \A f \in Keyed : draft[f] \in {0, 1} /\ (draft[f] = 1 => original[f] = 1)
    BY KeyedFields DEF Clears, FormsOK, ConfigTypeOK, Configs, Values
  <2>4. ASSUME \A f, g \in Keyed : original[f] = 1 /\ original[g] = 1 => f = g,
               NEW f \in Keyed, PageOf(f) < n, wizard'.ui[f] = 0
        PROVE  draft[f] = 0
    <3>1. PageOf(f) \in Nat /\ p \in Nat /\ n \in Nat
      BY <1>1, Shown2 DEF PageOf
    <3>2. f \notin PageAt(n).shows
      BY <1>1, <2>4, <3>1, KeyedFields, PagesShow
    <3>3. wizard.ui[f] = 0
      BY <2>2, <2>4, <3>2, KeyedFields
    <3>4. CASE PageOf(f) < p
      BY <2>4, <3>3, <3>4 DEF Clears
    <3>5. CASE PageOf(f) = p
      <4>1. f \in PageAt(p).shows
        BY <1>1, <3>5, KeyedFields, PagesShow
      <4>2. new[f] = 0
        BY <3>3, <4>1, KeyedFields DEF UpdateSection
      <4>3. PICK g \in Keyed : new[g] # 0
        BY <1>4 DEF Valid
      <4>4. g # f /\ PageOf(g) # p
        BY <3>5, <4>2, <4>3 DEF Keyed, PageOf
      <4>5. g \notin PageAt(p).shows /\ PageAt(p).drops = {}
        BY <1>1, <4>4, KeyedFields, PagesShow
      <4>6. new[g] = draft[g]
        BY <4>5, KeyedFields DEF UpdateSection
      <4> QED BY <2>3, <2>4, <4>3, <4>4, <4>6
    <3> QED BY <1>1, <2>4, <3>1, <3>4, <3>5
  <2> QED BY <1>1, <2>1, <2>2, <2>3, <2>4 DEF Clears
<1> QED BY <1>3, <1>4

\* In the gate the wizard is the only window.
LEMMA GateUser ==
  ASSUME FormsOK, GateInv, phase = "gate", UserStep
  PROVE  GateInv'
<1>0. /\ UNCHANGED phase /\ ~window.open
      /\ save # Idle => save.by = "wizard"
      /\ ~key /\ wizard.page # 0 => Clears(draft, original, wizard)
  BY DEF UserStep, mainVars, GateInv
<1> DEFINE Rest == UNCHANGED <<key, save, window>>
<1>1. ASSUME Rest, ~key /\ wizard'.page # 0 => Clears(draft', original', wizard')
      PROVE  GateInv'
  BY <1>0, <1>1 DEF GateInv
<1>2. CASE TurnPage
  <2>1. PICK n \in Welcome..Finish : Turn(n)
    BY <1>2 DEF TurnPage
  <2>2. Rest /\ wizard.page # 0
    BY <2>1 DEF Turn, Turned
  <2>3. ~key => Clears(draft', original', wizard')
    BY <1>0, <2>1, <2>2, TurnClears
  <2> HIDE DEF Rest
  <2> QED BY <1>1, <2>2, <2>3
<1>3. CASE FinishPressed
  <2>1. SaveBegins("wizard", WizardPages, wizard.ui) /\ UNCHANGED uiVars /\ wizard.page # 0
    BY <1>3, Shown2 DEF FinishPressed, FinishWizard
  <2>2. draft \in Configs /\ Len(WizardPages) \in Nat
    BY DEF FormsOK, ConfigTypeOK, WizardPages
  <2>3. draft' = draft \/ Valid(draft')
    <3>1. draft' = Pushed(draft, WizardPages, wizard.ui).cfg
      BY <2>1 DEF SaveBegins
    <3>2. PICK c : c = Pushed(draft, WizardPages, wizard.ui).cfg
      OBVIOUS
    <3>3. c = draft \/ Valid(c)
      BY <2>2, <3>2, PushedValid
    <3>4. Valid(c) => Valid(draft')
      BY <2>1, <3>1, <3>2 DEF SaveBegins, Valid
    <3> QED BY <3>1, <3>2, <3>3, <3>4
  <2>4. UNCHANGED <<key, original, wizard, window>>
    BY <2>1 DEF SaveBegins, uiVars
  <2>5. ~key => Clears(draft', original', wizard')
    <3>1. ASSUME ~key PROVE Clears(draft', original', wizard')
      <4>1. CASE draft' = draft
        BY <1>0, <2>1, <2>4, <3>1, <4>1
      <4>2. CASE Valid(draft')
        BY <2>4, <3>1, <4>2 DEF Valid, Clears
      <4> QED BY <2>3, <4>1, <4>2
    <3> QED BY <3>1
  <2>6. save' # Idle => save'.by = "wizard"
    <3>1. save' = [at |-> "backed up", by |-> "wizard"] \/ save' = save
      BY <2>1, Zenon DEF SaveBegins
    <3>2. CASE save' = [at |-> "backed up", by |-> "wizard"]
      BY <3>2
    <3>3. CASE save' = save
      <4>1. save # Idle => save.by = "wizard"
        BY <1>0
      <4> QED BY <3>3, <4>1, Zenon
    <3> QED BY <3>1, <3>2, <3>3, Zenon
  <2> QED BY <1>0, <2>4, <2>5, <2>6 DEF GateInv
<1>4. CASE CancelPressed
  <2>1. Rest /\ wizard'.page = 0
    BY <1>4, WindowClosed DEF CancelPressed, CancelWizard, configVars, memoryVars
  <2> HIDE DEF Rest
  <2> QED BY <1>1, <2>1
<1>5. CASE Types
  <2>1. PICK f \in Fields : TypeInWizard(f)
    BY <1>0, <1>5 DEF Types, TypeInWindow
  <2>2. /\ Rest /\ UNCHANGED <<draft, original>> /\ f \in PageAt(wizard.page).shows
        /\ wizard' = [wizard EXCEPT !.ui[f] = 1 - @]
    BY <2>1 DEF TypeInWizard, configVars, memoryVars
  <2>3. wizard.page \in 1..Finish \/ wizard.page = 0
    BY Shown2 DEF FormsOK, UITypeOK
  <2>4. /\ wizard'.page = wizard.page
        /\ \A g \in Fields : g # f => wizard'.ui[g] = wizard.ui[g]
    BY <2>2 DEF FormsOK, UITypeOK, Configs
  <2>5. ASSUME ~key, wizard.page # 0 PROVE Clears(draft', original', wizard')
    <3>1. PageOf(f) = wizard.page
      BY <2>2, <2>3, <2>5, PagesShow
    <3>2. \A g \in Keyed : PageOf(g) < wizard.page => wizard'.ui[g] = wizard.ui[g]
      <4>1. \A g \in Keyed : PageOf(g) \in Nat
        BY DEF PageOf
      <4> QED BY <2>4, <3>1, <4>1, KeyedFields
    <3> QED BY <1>0, <2>2, <2>4, <2>5, <3>2 DEF Clears
  <2> HIDE DEF Rest
  <2> QED BY <1>1, <2>2, <2>4, <2>5
<1>6. CASE WelcomePressed
  <2>1. \E c : ReplaceDraft(c) /\ Valid(c)
    <3>1. Valid(Defaults)
      BY DEF Valid, Defaults, Keyed, Fields, Restart, Hot
    <3> QED BY <1>6, <3>1 DEF WelcomePressed, UseDefaults, Restore, Restorable
  <2>2. Valid(draft)' /\ Rest
    BY <1>6, <2>1 DEF WelcomePressed, UseDefaults, Restore, ReplaceDraft, Valid, uiVars
  <2>3. ~key => Clears(draft', original', wizard')
    BY <2>2 DEF Valid, Clears
  <2> HIDE DEF Rest
  <2> QED BY <1>1, <2>2, <2>3
<1>7. CASE KeyGiven
  <2>1. key' = TRUE /\ UNCHANGED <<save, window>>
    BY <1>7 DEF KeyGiven, SetKey, memoryVars, uiVars
  <2> QED BY <1>0, <2>1 DEF GateInv
<1>8. CASE SaveStarts \/ SaveFails
  <2>1. UNCHANGED <<key, draft, original, wizard, window>>
    BY <1>8 DEF SaveStarts, SaveFails, Truncates, WriteFails, uiVars
  <2>2. save' # Idle => save'.by = "wizard"
    <3>1. CASE SaveFails
      BY <3>1 DEF SaveFails, WriteFails
    <3>2. CASE SaveStarts
      <4>1. save # Idle /\ save' = [save EXCEPT !.at = "writing"]
        BY <3>2, Kinds DEF SaveStarts, Truncates
      <4>2. save \in [at : {"backed up", "writing"}, by : Savers]
        BY <4>1 DEF FormsOK, ConfigTypeOK
      <4> QED BY <1>0, <4>1, <4>2
    <3> QED BY <1>8, <3>1, <3>2
  <2> QED BY <1>0, <2>1, <2>2 DEF GateInv
<1>9. ~TrayWizard /\ ~TrayWindow /\ ~SavePressed /\ ~DiscardPressed /\ ~WindowCloses
  BY DEF TrayWizard, TrayWindow, SavePressed, DiscardPressed, WindowCloses
<1> QED
  BY <1>2, <1>3, <1>4, <1>5, <1>6, <1>7, <1>8, <1>9 DEF UserStep

LEMMA GateNext == TypeOK /\ DiskInv /\ GateInv /\ [Next]_vars => GateInv'
<1> SUFFICES ASSUME TypeOK, DiskInv, GateInv, [Next]_vars PROVE GateInv'
  OBVIOUS
<1>1. CASE Launch
  <2>1. draft' = original' /\ save' = Idle /\ phase = "off" /\ UNCHANGED window
    BY <1>1 DEF Launch, Load
  <2>2. phase' = "gate" => wizard'.page = 1
    BY <1>1, OpenWizardTyped DEF Launch
  <2>3. phase' = "gate" => Clears(draft', original', wizard')
    BY <2>1, <2>2 DEF Clears, PageOf
  <2> QED BY <2>1, <2>3 DEF GateInv
<1>2. CASE Build \/ Quit
  BY <1>2 DEF Build, Quit, GateInv
<1>3. CASE Exit \/ Crash
  BY <1>3, WindowClosed DEF Exit, Crash, Ends, GateInv
<1>4. CASE UserStep
  <2>1. UNCHANGED phase
    BY <1>4 DEF UserStep, mainVars
  <2>2. CASE phase = "gate"
    BY <1>4, <2>2, GateUser DEF TypeOK, FormsOK
  <2>3. CASE phase = "off"
    <3>1. save = Idle /\ ~window.open
      BY <2>3 DEF DiskInv, GateInv
    <3>2. UNCHANGED window
      BY <1>4, <2>3, <3>1, Kinds
         DEF UserStep, TurnPage, FinishPressed, CancelPressed, TrayWizard, TrayWindow, Types,
             WelcomePressed, SavePressed, DiscardPressed, WindowCloses, KeyGiven, SaveStarts,
             SaveFails, Shown, uiVars
    <3> QED BY <2>1, <2>3, <3>1, <3>2 DEF GateInv
  <2>4. CASE phase \notin {"off", "gate"}
    BY <2>1, <2>4 DEF GateInv
  <2> QED BY <2>2, <2>3, <2>4
<1>5. CASE SaveEnds
  <2>1. save # Idle /\ save' = Idle /\ UNCHANGED phase /\ phase # "off"
    BY <1>5, Kinds DEF SaveEnds, Writes, DiskInv
  <2>2. CASE phase = "gate"
    <3>1. save.by = "wizard"
      BY <2>1, <2>2 DEF GateInv
    <3>2. wizard'.page = 0 /\ UNCHANGED window
      BY <1>5, <3>1, WindowClosed DEF SaveEnds, Settles
    <3> QED BY <2>1, <2>2, <3>2 DEF GateInv
  <2> QED BY <2>1, <2>2 DEF GateInv
<1>6. CASE Loop
  BY <1>6 DEF Loop, mainVars, GateInv
<1>7. CASE Time \/ Copy \/ UNCHANGED vars
  <2>1. UNCHANGED <<key, draft, original, save, wizard, window, phase>>
    BY <1>7 DEF Time, Tick, Copy, CopyBackup, vars, configVars, memoryVars, uiVars, mainVars
  <2> QED BY <2>1 DEF GateInv
<1> QED
  BY <1>1, <1>2, <1>3, <1>4, <1>5, <1>6, <1>7 DEF Next

LEMMA AtMostOne ==
  ASSUME Cardinality({f \in Keyed : original[f] = 1}) < 2
  PROVE  Single
<1> DEFINE S == {f \in Keyed : original[f] = 1}
<1>1. ASSUME NEW f \in S, NEW g \in S, f # g PROVE FALSE
  <2>1. IsFiniteSet({f}) /\ Cardinality({f}) = 1
    BY FS_Singleton
  <2>2. IsFiniteSet({f} \union {g}) /\ Cardinality({f} \union {g}) = 2
    BY <1>1, <2>1, FS_AddElement
  <2>3. IsFiniteSet({}) /\ IsFiniteSet({"asr"}) /\ IsFiniteSet({"asr"} \union {"cleanup"})
    BY FS_EmptySet, FS_Singleton, FS_AddElement
  <2>4. S \subseteq {"asr"} \union {"cleanup"} /\ {f} \union {g} \subseteq S
    BY DEF Keyed
  <2>5. IsFiniteSet(S)
    <3> HIDE DEF S
    <3> QED BY <2>3, <2>4, FS_Subset
  <2>6. Cardinality({f} \union {g}) <= Cardinality(S) /\ Cardinality(S) \in Nat
    <3> HIDE DEF S
    <3> QED BY <2>4, <2>5, FS_Subset, FS_CardinalityType
  <2>7. Cardinality(S) < 2
    OBVIOUS
  <2> HIDE DEF S
  <2> QED BY <2>2, <2>6, <2>7
<1> QED BY <1>1 DEF Single

\* Whatever is typed, and however the pages are walked: a start with one provider that
\* lacks its key can be repaired in the wizard it opens.
THEOREM OneFixAlways == Spec => []OneFixIsEnough
<1>1. Init => GateInv
  BY WindowClosed DEF Init, ConfigInit, UIInit, GateInv
<1>2. TypeOK /\ GateInv => OneFixIsEnough
  <2> SUFFICES ASSUME TypeOK, GateInv, phase = "gate", wizard.page = Finish, Valid(wizard.ui),
                      Cardinality({f \in Keyed : original[f] = 1}) < 2
               PROVE  Pushed(draft, WizardPages, wizard.ui).ok
    BY DEF OneFixIsEnough
  <2>1. \A k \in 1..Len(WizardPages) : Valid(After(draft, WizardPages, k, wizard.ui))
    <3>1. CASE key
      BY <3>1 DEF Valid
    <3>2. CASE ~key
      <4>1. \A f \in Keyed : wizard.ui[f] = 0
        BY <3>2 DEF Valid
      <4>2. \A f \in Keyed : PageOf(f) < Finish
        BY Shown2 DEF PageOf
      <4>3. Clears(draft, original, wizard) /\ Single
        BY <3>2, Shown2, AtMostOne DEF GateInv
      <4>4. \A f \in Keyed : draft[f] = 0
        BY <4>1, <4>2, <4>3 DEF Clears, Single
      <4>5. \A page, f : f \in Keyed => UpdateSection(draft, page, wizard.ui)[f] = 0
        BY <4>1, <4>4, KeyedFields DEF UpdateSection, Defaults
      <4> QED BY <4>5 DEF Valid, After
    <3> QED BY <3>1, <3>2
  <2>2. draft \in Configs /\ Len(WizardPages) \in Nat
    BY DEF TypeOK, ConfigTypeOK, WizardPages
  <2>3. Pushed(draft, WizardPages, wizard.ui) =
          [cfg |-> After(draft, WizardPages, Len(WizardPages), wizard.ui), ok |-> TRUE]
    BY <2>1, <2>2, PushedOk
  <2> QED BY <2>3
<1> QED BY <1>1, <1>2, GateNext, TypedAlways, DiskAlways, PTL DEF Spec
=============================================================================
