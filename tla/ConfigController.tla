--------------------------- MODULE ConfigController ---------------------------
(***************************************************************************)
(* The configuration: config.yaml and its backups on disk, and the copy of *)
(* it that the wizard and the settings window share and edit.  A           *)
(* configuration is cut down to one field of each kind that the code       *)
(* treats differently; a field has its default value 0, or 1.              *)
(***************************************************************************)
EXTENDS Naturals, SequencesExt

CONSTANTS
  MaxClock,  \* bound: seconds, as backups are stamped with them
  Setups     \* bounds: how often each of these may happen

Limited == {"launches", "saves", "typed", "opened", "backs", "ticks",
            "cleanups", "faults"}

ASSUME ConfigAssumption == MaxClock \in Nat /\ Setups \subseteq [Limited -> Nat]

\* The restart policy.
Restart  == {"asr", "dir"}  \* asr.provider, observer.storage.dir
Hot      == {"cleanup"}     \* cleanup.provider
Fields   == Restart \union Hot
Values   == {0, 1}
Configs  == [Fields -> Values]
Defaults == [f \in Fields |-> 0]

\* Provider fields: 1 is a provider that needs an API key.
Keyed == {"asr", "cleanup"}

VARIABLES
  left,      \* of the bounds of the set-up
  key,       \* the API key is in the environment
  file,      \* config.yaml
  backups,   \* second -> config.yaml.bak.<second>
  clock,
  draft, original,
  save,      \* how far the Qt thread is in save(), and who called it
  last,      \* history: what the last completed write left in config.yaml
  hurried    \* history: a torn file was backed up over an earlier backup

diskVars   == <<file, backups, last, hurried>>
memoryVars == <<draft, original, save>>
configVars == <<key, clock, diskVars, memoryVars>>

NoFile  == [kind |-> "none", cfg |-> Defaults]
Torn    == [kind |-> "torn", cfg |-> Defaults]  \* opened for writing, and empty
Full(c) == [kind |-> "full", cfg |-> c]
Files   == {NoFile, Torn} \union {Full(c) : c \in Configs}

Idle   == [at |-> "no", by |-> "nobody"]
Savers == {"wizard", "apply", "save"}  \* Finish, and the buttons of the window

ConfigTypeOK ==
  /\ left \in [Limited -> Nat]
  /\ key \in BOOLEAN /\ hurried \in BOOLEAN
  /\ file \in Files /\ backups \in [0..MaxClock -> Files] /\ clock \in 0..MaxClock
  /\ draft \in Configs /\ original \in Configs /\ last \in Files \ {Torn}
  /\ save \in {Idle} \union [at : {"backed up", "writing"}, by : Savers]

\* Launches before the first one: none, or what they saved.
ConfigInit ==
  /\ left \in Setups
  /\ file \in {NoFile} \union {Full(c) : c \in Configs}
  /\ last = file
  /\ backups = [t \in 0..MaxClock |-> NoFile] /\ clock = 0
  /\ key = FALSE /\ hurried = FALSE
  /\ draft = Defaults /\ original = Defaults /\ save = Idle

Uses(what) == left[what] > 0 /\ left' = [left EXCEPT ![what] = @ - 1]

-----------------------------------------------------------------------------
\* _validate_api_key_env()
Valid(c) == key \/ \A f \in Keyed : c[f] = 0

IsDirty == draft # original
ChangedPaths == {f \in Fields : draft[f] # original[f]}
RestartPaths == ChangedPaths \intersect Restart

\* What save_to_controller() of a page does: it writes the fields that it shows,
\* and update_section() merges sections only, so that a nested model comes back
\* without the fields that the page does not know of.
Blank        == [shows |-> {}, drops |-> {}]
AsrPage      == [shows |-> {"asr"}, drops |-> {}]
CleanupPage  == [shows |-> {"cleanup"}, drops |-> {}]
ObserverPage == [shows |-> {}, drops |-> {"dir"}]
WizardPages  == <<Blank, AsrPage, CleanupPage>>
WindowPages  == Append(WizardPages, ObserverPage)

UpdateSection(c, page, ui) ==
  [f \in Fields |-> IF f \in page.shows THEN ui[f]
                    ELSE IF f \in page.drops THEN Defaults[f] ELSE c[f]]

\* What the first n pages make of c (none drops what another one shows).
After(c, pages, n, ui) ==
  UpdateSection(c, [shows |-> UNION {pages[k].shows : k \in 1..n},
                    drops |-> UNION {pages[k].drops : k \in 1..n}], ui)

\* update_section() validates the whole draft before it assigns it: the first page
\* that leaves it invalid raises, and the rest are not asked.
Pushed(c, pages, ui) ==
  LET passes(k) == Valid(After(c, pages, k, ui))
      passed    == {n \in 0..Len(pages) : \A k \in 1..n : passes(k)}
  IN  [cfg |-> After(c, pages, Max(passed), ui), ok |-> Max(passed) = Len(pages)]

-----------------------------------------------------------------------------
\* save(), after the caller has pushed its pages: validation, then the backup.
SaveBegins(by, pages, ui) ==
  /\ save = Idle
  /\ LET pushed == Pushed(draft, pages, ui)
     IN  /\ draft' = pushed.cfg
         /\ IF pushed.ok /\ Valid(pushed.cfg)
            THEN /\ save' = [at |-> "backed up", by |-> by]
                 /\ backups' = IF file.kind = "none" THEN backups
                               ELSE [backups EXCEPT ![clock] = file]
                 /\ hurried' = (hurried \/ (file = Torn /\ backups[clock] # NoFile))
            ELSE UNCHANGED <<save, backups, hurried>>
  /\ UNCHANGED <<key, clock, file, last, original>>

\* Mutant: the file is replaced first, and its backup is a copy of what is left.
BackupComesLate ==
  /\ save.at = "backed up"
  /\ file' = Torn /\ save' = [save EXCEPT !.at = "writing"]
  /\ backups' = [backups EXCEPT ![clock] = Torn]
  /\ UNCHANGED <<key, clock, last, hurried, draft, original>>

\* write_text() opens the file, which empties it ...
Truncates ==
  /\ save.at = "backed up"
  /\ file' = Torn /\ save' = [save EXCEPT !.at = "writing"]
  /\ UNCHANGED <<key, clock, backups, last, hurried, draft, original>>

\* Mutant: what is promoted is forgotten.
WritesOnly ==
  /\ save.at = "writing"
  /\ file' = Full(draft) /\ last' = file' /\ save' = Idle
  /\ UNCHANGED <<key, clock, backups, hurried, draft, original>>

\* ... and writes it, and the draft is promoted ...
Writes ==
  /\ save.at = "writing"
  /\ file' = Full(draft) /\ last' = file' /\ original' = draft /\ save' = Idle
  /\ UNCHANGED <<key, clock, backups, hurried, draft>>

\* ... or fails, before the file is open or after: the caller shows a message.
WriteFails ==
  /\ save # Idle /\ save' = Idle
  /\ UNCHANGED <<key, clock, diskVars, draft, original>>

\* revert()
Revert ==
  /\ draft' = original
  /\ UNCHANGED <<key, clock, diskVars, original, save>>

\* replace_draft(), with the defaults or with a backup that load_from_disk() accepts.
Restorable == {c \in Configs : Valid(c) /\ \E t \in 0..clock : backups[t] = Full(c)}
ReplaceDraft(c) ==
  /\ draft' = c
  /\ UNCHANGED <<key, clock, diskVars, original, save>>

\* A launch: load_config_lenient() keeps the fields of a file that is not valid
\* here, and the controller starts from them.
Load ==
  /\ file # Torn
  /\ key' \in BOOLEAN
  /\ draft' = file.cfg /\ original' = file.cfg /\ save' = Idle
  /\ UNCHANGED <<clock, diskVars>>

Tick == clock < MaxClock /\ clock' = clock + 1 /\ UNCHANGED <<key, diskVars, memoryVars>>

\* EnvHelperDialog
SetKey == ~key /\ key' = TRUE /\ UNCHANGED <<clock, diskVars, memoryVars>>

\* The user copies a backup over a torn config.yaml.
CopyBackup(t) ==
  /\ file = Torn /\ backups[t].kind = "full"
  /\ file' = backups[t] /\ last' = backups[t]
  /\ UNCHANGED <<key, clock, backups, hurried, memoryVars>>
=============================================================================
