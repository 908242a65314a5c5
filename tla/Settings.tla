------------------------------- MODULE Settings -------------------------------
(***************************************************************************)
(* Launching, configuring and running the program: main() loads            *)
(* config.yaml, may gate the pipeline behind a modal wizard, builds it     *)
(* from the controller's draft, and applies to it what is saved later.     *)
(* The process may be killed at any moment, in the middle of a save too.   *)
(***************************************************************************)
EXTENDS SettingsUI, HotApply, FiniteSets

VARIABLES
  phase,    \* of the process
  saved     \* history: something has been saved since the pipeline was built

mainVars == <<phase, saved>>
vars == <<left, configVars, uiVars, hotVars, mainVars>>

Phases == {"off", "gate",   \* a modal wizard is open, the pipeline is not built
           "up", "quitting"}

TypeOK ==
  /\ ConfigTypeOK /\ UITypeOK /\ HotTypeOK
  /\ phase \in Phases /\ saved \in BOOLEAN

Init ==
  /\ ConfigInit /\ UIInit /\ HotInit
  /\ phase = "off" /\ saved = FALSE

-----------------------------------------------------------------------------
\* The process.

\* A first run, or a configuration that is not valid, opens the wizard first; a
\* torn file ends main() with "Configuration error".
Launch ==
  /\ phase = "off" /\ Uses("launches") /\ Load
  /\ IF file.kind = "none" \/ (~key' /\ \E f \in Keyed : file.cfg[f] = 1)
     THEN phase' = "gate" /\ OpenWizard /\ UNCHANGED hotVars
     ELSE phase' = "up" /\ BuiltFrom(file.cfg)
          /\ (OpenWizard \/ UNCHANGED wizard)  \* state.wizard_auto_open
  /\ saved' = FALSE
  /\ UNCHANGED window

\* exec() of the modal wizard has returned.
Build ==
  /\ phase = "gate" /\ wizard.page = 0 /\ save = Idle
  /\ UNCHANGED <<left, configVars, uiVars>>
  /\ phase' = "up" /\ BuiltFrom(draft) /\ saved' = FALSE

\* The event loop of Qt ends.  Closing the settings window may still save, and the
\* program ends whether it closes or not.
Quit ==
  /\ phase = "up" /\ save = Idle /\ phase' = "quitting" /\ wizard' = Closed
  /\ UNCHANGED <<left, configVars, window, hotVars, saved>>

Ends ==
  /\ phase' = "off" /\ save' = Idle /\ wizard' = Closed /\ window' = NoWindow
  /\ draft' = Defaults /\ original' = Defaults /\ key' = FALSE
  /\ BuiltFrom(Defaults) /\ saved' = FALSE
  /\ UNCHANGED <<left, clock, diskVars>>

Exit  == phase = "quitting" /\ save = Idle /\ Ends
Crash == phase # "off" /\ Ends

-----------------------------------------------------------------------------
\* The Qt thread.

\* The modal wizard of the gate is the only window; closing the settings window is
\* the last thing that a quitting program does.
Shown == phase \in {"gate", "up"}

TurnPage       == Shown /\ \E n \in Welcome..Finish : Turn(n)
CancelPressed  == Shown /\ CancelWizard /\ UNCHANGED left
TrayWizard     == phase = "up" /\ save = Idle /\ OpenWizard
                  /\ Uses("opened") /\ UNCHANGED <<configVars, window>>
TrayWindow     == phase = "up" /\ OpenWindow /\ Uses("opened")
Types          == Shown /\ \E f \in Fields : TypeInWizard(f) \/ TypeInWindow(f)
WelcomePressed == Shown /\ (UseDefaults \/ Restore) /\ UNCHANGED left
DiscardPressed == phase = "up" /\ Discard /\ UNCHANGED left
KeyGiven       == Shown /\ save = Idle /\ wizard.page # 0 /\ SetKey /\ UNCHANGED <<left, uiVars>>

Counts == IF save' # save THEN Uses("saves") ELSE UNCHANGED left

FinishPressed == Shown /\ FinishWizard /\ Counts
SavePressed   == phase = "up" /\ (\E by \in {"apply", "save"} : PressSave(by)) /\ Counts
WindowCloses  == phase \in {"up", "quitting"} /\ CloseWindow /\ Counts

SaveStarts == Truncates /\ UNCHANGED <<left, uiVars>>
SaveFails  == WriteFails /\ UNCHANGED <<left, uiVars>>

UserStep ==
  /\ \/ TurnPage \/ FinishPressed \/ CancelPressed \/ TrayWizard \/ TrayWindow \/ Types
     \/ WelcomePressed \/ SavePressed \/ DiscardPressed \/ WindowCloses \/ KeyGiven
     \/ SaveStarts \/ SaveFails
  /\ UNCHANGED <<hotVars, mainVars>>

\* The save succeeds and config_saved carries the draft to _reload_hot_components().
SaveEnds ==
  /\ Writes /\ Settles
  /\ IF phase = "gate" THEN UNCHANGED hotVars ELSE Submits(draft)
  /\ saved' = TRUE
  /\ UNCHANGED <<left, phase>>

-----------------------------------------------------------------------------
Loop == phase \in {"up", "quitting"} /\ LoopStep /\ UNCHANGED <<configVars, uiVars, mainVars>>
Time == Uses("ticks") /\ Tick /\ UNCHANGED <<uiVars, hotVars, mainVars>>
Copy == /\ phase = "off" /\ \E t \in 0..clock : CopyBackup(t)
        /\ UNCHANGED <<left, uiVars, hotVars, mainVars>>

Next ==
  \/ Launch \/ Build \/ Quit \/ Exit \/ Crash
  \/ UserStep \/ SaveEnds
  \/ Loop \/ Time \/ Copy

Spec == Init /\ [][Next]_vars

-----------------------------------------------------------------------------
\* Properties.

\* When a write is cut short, by a crash or an error, the configuration that it
\* was to replace is in a backup: backups are taken before the file is opened.
\* (But a save that is repeated within the second of one that failed writes the
\* torn file over that backup.)
KeptOnDisk ==
  file = Torn /\ last # NoFile /\ ~hurried => \E t \in 0..clock : backups[t] = last

\* What the controller measures changes against is what config.yaml holds,
\* whatever the wizard and the window saved, discarded or failed to save.
PromotedIsOnDisk ==
  phase # "off" /\ save = Idle /\ file.kind = "full" => original = file.cfg

\* Once the loop is through with what was saved, the rebuilt parts of the pipeline
\* are those of the configuration saved last, whoever saved it.
RunsLastSaved ==
  phase \in {"up", "quitting"} /\ saved /\ updates = <<>> =>
    \A f \in Rebuilt : running[f] = original[f]

\* Saving closes the provider that a clean-up may be awaiting; the retry is made
\* on the new one, so that it takes two mishaps to lose the clean-up.
RawAfterTwoMishaps == call.at = "raw" => call.mishaps >= 2

\* When the program starts with one provider that lacks its key, the wizard that
\* it opens can put that right: at its end, what its pages show can be saved.
OneFixIsEnough ==
  /\ phase = "gate" /\ wizard.page = Finish /\ Valid(wizard.ui)
  /\ Cardinality({f \in Keyed : original[f] = 1}) < 2
  => Pushed(draft, WizardPages, wizard.ui).ok

\* "so the user can fix or replace the config first" (main.py): but a page that
\* is put right is refused as long as another one is not.
FixCanBeSaved ==
  wizard.page = Finish /\ Valid(wizard.ui) => Pushed(draft, WizardPages, wizard.ui).ok

\* "The settings window surfaces a banner listing every field that needs a
\* relaunch."
BannerListsPending ==
  phase = "up" /\ window.open /\ save = Idle =>
    {f \in Restart : running[f] # original[f]} \subseteq window.banner
=============================================================================
