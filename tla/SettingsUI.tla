------------------------------ MODULE SettingsUI ------------------------------
(***************************************************************************)
(* The setup wizard and the settings window: widgets that are loaded from  *)
(* the controller's draft and pushed back into it, page by page.           *)
(***************************************************************************)
EXTENDS ConfigController

VARIABLES
  wizard,  \* its page, 0 when it is closed, and its widgets
  window  \* is it open, are its buttons enabled, the fields that the banner lists

uiVars == <<wizard, window>>

\* The wizard's pages: Welcome, those that show a field, and Finish.  The others push
\* what they were loaded with: no more than a validation.
Shows   == <<AsrPage, CleanupPage>>
Welcome == 1
Finish  == Len(Shows) + 2

Closed   == [page |-> 0, ui |-> Defaults]
NoWindow == [open |-> FALSE, ui |-> Defaults, enabled |-> FALSE, banner |-> {}]

UITypeOK ==
  /\ wizard \in [page : 0..Finish, ui : Configs]
  /\ window \in [open : BOOLEAN, ui : Configs, enabled : BOOLEAN, banner : SUBSET Fields]

UIInit == wizard = Closed /\ window = NoWindow

-----------------------------------------------------------------------------
\* The wizard.

OpenWizard == wizard' = [page |-> Welcome, ui |-> Defaults]

\* Welcome and Finish have nothing to save.
PageAt(n) == IF n \in 2..(Finish - 1) THEN Shows[n - 1] ELSE Blank

\* A page is loaded from the draft d when the wizard arrives at it.
Arrives(n, d) ==
  wizard' = [page |-> n, ui |-> [f \in Fields |-> IF f \in PageAt(n).shows THEN d[f]
                                                 ELSE wizard.ui[f]]]

Turned(n) ==
  /\ wizard.page # 0 /\ save = Idle
  /\ n \in {wizard.page - 1, wizard.page + 1} \intersect (Welcome..Finish)
  /\ IF n < wizard.page THEN Uses("backs") ELSE UNCHANGED left
  /\ UNCHANGED <<key, clock, diskVars, original, save, window>>

\* Mutant: every page is loaded from the draft on arrival, and none is saved.
TurnForgets(n) == Turned(n) /\ draft' = draft /\ Arrives(n, draft)

\* _on_current_changed(): the page that is left is pushed into the draft, unless
\* that raises; the page arrived at is loaded from it.
Turn(n) ==
  /\ Turned(n)
  /\ draft' = Pushed(draft, <<PageAt(wizard.page)>>, wizard.ui).cfg
  /\ Arrives(n, draft')

TypeInWizard(f) ==
  /\ Uses("typed") /\ f \in PageAt(wizard.page).shows /\ save = Idle
  /\ wizard' = [wizard EXCEPT !.ui[f] = 1 - @]
  /\ UNCHANGED <<configVars, window>>

\* done(): a page that raises leaves the wizard as it is.
FinishWizard ==
  /\ wizard.page = Finish
  /\ SaveBegins("wizard", WizardPages, wizard.ui)
  /\ UNCHANGED uiVars

CancelWizard ==
  /\ wizard.page # 0 /\ save = Idle
  /\ wizard' = Closed
  /\ UNCHANGED <<configVars, window>>

\* Use defaults, of the page Welcome of either, and Restore from backup: the wizard
\* moves on after the first, the widgets of the window stay as they are.
UseDefaults ==
  /\ save = Idle /\ ReplaceDraft(Defaults)
  /\ \/ wizard.page = Welcome /\ Arrives(Welcome + 1, Defaults)
     \/ window.open /\ UNCHANGED wizard
  /\ UNCHANGED window

Restore ==
  /\ wizard.page = Welcome \/ window.open
  /\ save = Idle /\ \E c \in Restorable : ReplaceDraft(c)
  /\ UNCHANGED uiVars

-----------------------------------------------------------------------------
\* The settings window.

\* _refresh(), which is what constructing the window ends with: the widgets, the
\* banner and the buttons follow the draft, and only here.
Refreshed(d, o) ==
  [open |-> TRUE, ui |-> d, enabled |-> d # o,
   banner |-> {f \in Restart : d[f] # o[f]}]

OpenWindow ==
  /\ save = Idle
  /\ window' = Refreshed(draft, original)
  /\ UNCHANGED <<configVars, wizard>>

TypeInWindow(f) ==
  /\ Uses("typed") /\ window.open /\ save = Idle
  /\ \E i \in 1..Len(WindowPages) : f \in WindowPages[i].shows
  /\ window' = [window EXCEPT !.ui[f] = 1 - @]
  /\ UNCHANGED <<configVars, wizard>>

\* The buttons Apply and Save.
PressSave(by) ==
  /\ window.open /\ window.enabled
  /\ SaveBegins(by, WindowPages, window.ui)
  /\ UNCHANGED uiVars

Discard ==
  /\ window.open /\ window.enabled /\ save = Idle
  /\ Revert
  /\ window' = Refreshed(original, original)
  /\ UNCHANGED wizard

\* closeEvent(): only a dirty draft is asked about, and "Discard" keeps it.
CloseWindow ==
  /\ window.open /\ save = Idle
  /\ \/ window' = NoWindow /\ UNCHANGED configVars
     \/ IsDirty /\ SaveBegins("save", WindowPages, window.ui) /\ UNCHANGED window
  /\ UNCHANGED wizard

\* A save that succeeded: the wizard and a window that is saved close; a window
\* whose changes are applied is refreshed.  Writes has promoted the draft.
Settles ==
  /\ wizard' = IF save.by = "wizard" THEN Closed ELSE wizard
  /\ window' = CASE save.by = "apply" -> Refreshed(draft, draft)
                 [] save.by = "save" -> NoWindow
                 [] OTHER -> window
=============================================================================
