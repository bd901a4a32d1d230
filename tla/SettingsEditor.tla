--------------------------- MODULE SettingsEditor ---------------------------
(***************************************************************************)
(* The settings page of the window (agentdictate-ui: settings.rs and       *)
(* desktop/settings_form.rs, settings_actions.rs, settings_page.rs,        *)
(* settings_shell.rs).  Each setting has a control that keeps a value of   *)
(* its own; what a save sends is read from the controls (snapshot), over a *)
(* draft that the toggles and the shortcut change, and is compared with    *)
(* the settings the window last knew to be the daemon's (baseline).  Model *)
(* catalogs arrive while the user edits and replace a control's options.   *)
(*                                                                         *)
(* Of each kind of setting there is one: the model is the selection whose  *)
(* options a catalog gives, custom the text that is trimmed and sometimes  *)
(* required, limit the number, streaming the toggle, mode the selection    *)
(* that does not show every stored value.  rest stands for what the page   *)
(* does not show.                                                          *)
(***************************************************************************)
EXTENDS Naturals

CONSTANTS Offered,      \* the models of each catalog, a set of sets
          MaxLimit,     \* the number's maximum
          MaxGestures, MaxCatalogs, MaxTroubles

VARIABLES
  daemon,      \* the settings that the daemon keeps
  baseline,    \* SettingsEditState.baseline and .current
  draft,       \* SettingsFormState.draft
  controls,    \* the values of the controls; a selection can show none
  options,     \* of the model's control
  catalogs,    \* .arrived: the workspace's, .applied: the editor's
  dirty,       \* SettingsEditState.dirty
  capture,     \* shortcut_capture_active and its error
  page, feedback, \* active_route and what the settings page says
  key,         \* the API key: .has, .text of its input, .said
  wanted,      \* ghost: the draft as the user's gestures made it
  stale,       \* ghost: a number was stepped and the form not told
  unsure,      \* ghost: the daemon may have saved what the window thinks failed
  counts

vars == <<daemon, baseline, draft, controls, options, catalogs, dirty, capture,
          page, feedback, key, wanted, stale, unsure, counts>>

shown == <<draft, controls>>

-----------------------------------------------------------------------------
(* Settings and drafts (settings.rs)                                        *)

Models == UNION Offered \cup {"Custom", "retired"}
Sources == {"openai_api", "chatgpt_subscription"}
Unselected == "none"
Blank == 0                              \* of a text; a number is one more
Texts == [core : {Blank, 1}, padded : BOOLEAN]
Plain(core) == [core |-> core, padded |-> FALSE]

\* What a number's input lets be typed: digits up to the maximum, zeros before
\* them, or nothing.
Numbers == [core : 1..MaxLimit + 1, padded : BOOLEAN] \cup {Plain(Blank)}

Stored ==
  [provider : Sources, model : Models, custom : {Blank, 1}, limit : 1..MaxLimit + 1,
   streaming : BOOLEAN, hotkey : {"ctrl+space", "ctrl+alt+d"},
   mode : {"Dictate", "Literal", "Organize"}, cleanup : BOOLEAN, rest : {1}]

\* SettingsDraft::from: numbers and texts as they would be typed; supported_mode
\* shows every mode but Literal as Dictate.
Draft(settings) ==
  [provider |-> settings.provider, model |-> settings.model,
   custom |-> Plain(settings.custom), limit |-> Plain(settings.limit),
   streaming |-> settings.streaming, hotkey |-> settings.hotkey,
   mode |-> IF settings.mode = "Literal" THEN "Literal" ELSE "Dictate"]

\* A draft after trimming and parsing.
Normal(d) == [d EXCEPT !.custom.padded = FALSE, !.limit.padded = FALSE]

\* required, parse_number: the custom model is required where it is what is used.
Valid(d) ==
  /\ d.limit.core # Blank
  /\ (d.provider = "openai_api" /\ d.model = "Custom") => d.custom.core # Blank

\* SettingsDraft::apply_to, of a draft that is valid.
AppliedTo(d, settings) ==
  [settings EXCEPT
     !.provider = d.provider, !.model = d.model, !.custom = d.custom.core,
     !.limit = d.limit.core, !.streaming = d.streaming, !.hotkey = d.hotkey,
     !.mode = d.mode, !.cleanup = FALSE]

Selections == {"provider", "model", "mode"}
Inputs == {"custom", "limit"}

\* selected_setting, snapshot: what a control shows goes before the draft.
Read(d, c) ==
  [d EXCEPT
     !.provider = IF c.provider = Unselected THEN @ ELSE c.provider,
     !.model = IF c.model = Unselected THEN @ ELSE c.model,
     !.mode = IF c.mode = Unselected THEN @ ELSE c.mode,
     !.custom = c.custom, !.limit = c.limit]
Snapshot == Read(draft, controls)

Controls(d) ==
  [provider |-> d.provider, model |-> d.model, mode |-> d.mode,
   custom |-> d.custom, limit |-> d.limit]

\* transcription_model_options; the value selected now is always offered.
Options(catalog, selected) == catalog \cup {"Custom", selected}

Init ==
  /\ daemon \in {s \in Stored :
       /\ s.streaming = FALSE /\ s.hotkey = "ctrl+space" /\ s.limit = 1
       /\ s.cleanup = (s.mode = "Organize")
       /\ s.model \in {"Custom", "retired"} /\ (s.custom = Blank) = (s.model # "Custom")}
  /\ baseline = daemon
  /\ draft = Draft(daemon) /\ controls = Controls(draft)
  /\ \E first \in Offered :
       /\ options = Options(first, daemon.model)
       /\ catalogs = [arrived |-> first, applied |-> first]
  /\ dirty = FALSE /\ capture = "off"
  /\ page = "settings"
  /\ key \in [has : BOOLEAN, text : {"none"}, said : {"none"}]
  /\ feedback \in {"none", "could not refresh"} /\ (feedback = "none" \/ key.has)
  /\ wanted = draft /\ stale = FALSE /\ unsure = FALSE
  /\ counts = [gestures |-> 0, catalogs |-> 0, troubles |-> 0]

Gesture == counts.gestures < MaxGestures /\ counts' = [counts EXCEPT !.gestures = @ + 1]
GestureMayFail(failed) ==
  /\ counts.gestures < MaxGestures
  /\ failed => counts.troubles < MaxTroubles
  /\ counts' = [counts EXCEPT !.gestures = @ + 1,
                              !.troubles = IF failed THEN @ + 1 ELSE @]
onPage == page = "settings"
saveBar == onPage /\ dirty

\* recompute_settings_dirty: is_dirty_against compares with the draft of baseline.
Recomputed == /\ dirty' = (Read(draft', controls') # Draft(baseline))
              /\ stale' = FALSE

-----------------------------------------------------------------------------
(* Editing                                                                  *)

\* The rows that surface shows: the model and its custom name only for the API.
Shows(field) ==
  CASE field = "model" -> Snapshot.provider = "openai_api"
    [] field = "custom" -> Snapshot.provider = "openai_api" /\ Snapshot.model = "Custom"
    [] OTHER -> TRUE

Choose(field, value) ==
  /\ Gesture /\ onPage /\ Shows(field)
  /\ controls' = [controls EXCEPT ![field] = value]
  /\ wanted' = [wanted EXCEPT ![field] = value]
  /\ UNCHANGED draft /\ Recomputed
  /\ feedback' = "none"
  /\ UNCHANGED <<daemon, baseline, options, catalogs, capture, page, key, unsure>>

Type(field, text) ==
  /\ Gesture /\ onPage /\ Shows(field)
  /\ controls' = [controls EXCEPT ![field] = text]
  /\ wanted' = [wanted EXCEPT ![field] = text]
  /\ UNCHANGED draft /\ Recomputed
  /\ UNCHANGED <<daemon, baseline, options, catalogs, capture, page, feedback, key, unsure>>

\* A step starts from zero where nothing is typed and stops at both ends.  Whether
\* the input then reports a change, which recomputes dirty, is gpui-component's.
Stepped(text, up) ==
  LET number == IF text.core = Blank THEN 0 ELSE text.core - 1 IN
  Plain(1 + IF up THEN (IF number < MaxLimit THEN number + 1 ELSE MaxLimit)
                  ELSE (IF number > 0 THEN number - 1 ELSE 0))

Step(up, told) ==
  /\ Gesture /\ onPage
  /\ controls' = [controls EXCEPT !.limit = Stepped(@, up)]
  /\ wanted' = [wanted EXCEPT !.limit = Stepped(@, up)]
  /\ UNCHANGED draft
  /\ IF told THEN Recomputed ELSE stale' = TRUE /\ UNCHANGED dirty
  /\ UNCHANGED <<daemon, baseline, options, catalogs, capture, page, feedback, key, unsure>>

\* update_settings_draft
Toggle ==
  /\ Gesture /\ onPage
  /\ draft' = [draft EXCEPT !.streaming = ~@]
  /\ wanted' = [wanted EXCEPT !.streaming = ~@]
  /\ UNCHANGED controls /\ Recomputed
  /\ feedback' = "none"
  /\ UNCHANGED <<daemon, baseline, options, catalogs, capture, page, key, unsure>>

BeginCapture ==
  /\ Gesture /\ onPage /\ capture = "off"
  /\ capture' = "on"
  /\ UNCHANGED <<daemon, baseline, shown, options, catalogs, dirty, page, feedback,
                 key, wanted, stale, unsure>>

CancelCapture ==
  /\ Gesture /\ onPage /\ capture # "off"
  /\ capture' = "off"
  /\ UNCHANGED <<daemon, baseline, shown, options, catalogs, dirty, page, feedback,
                 key, wanted, stale, unsure>>

\* captured_shortcut has no name for a key without a modifier.
Refused == {"bare key"}

\* capture_shortcut, of any keystroke of the window while a capture lasts: Escape
\* ends it, what is refused does not.
Keystroke(pressed) ==
  /\ Gesture /\ capture # "off"
  /\ capture' = IF pressed \in Refused THEN "refused" ELSE "off"
  /\ IF pressed \in {"escape"} \cup Refused THEN UNCHANGED <<shown, dirty, wanted, stale>>
     ELSE /\ draft' = [draft EXCEPT !.hotkey = pressed]
          /\ wanted' = [wanted EXCEPT !.hotkey = pressed]
          /\ UNCHANGED controls /\ Recomputed
  /\ UNCHANGED <<daemon, baseline, options, catalogs, page, feedback, key, unsure>>

-----------------------------------------------------------------------------
(* Saving and discarding                                                    *)

\* save_settings_editor.  The answer can be lost after the daemon saved.
Save(outcome) ==
  /\ saveBar
  /\ GestureMayFail(outcome \in {"refused", "lost"})
  /\ Valid(Snapshot)
  /\ LET settings == AppliedTo(Snapshot, baseline) IN
       /\ daemon' = IF outcome = "refused" THEN daemon ELSE settings
       /\ IF outcome = "saved"
          THEN /\ baseline' = settings
               /\ draft' = Draft(settings)
               /\ dirty' = FALSE /\ stale' = FALSE /\ unsure' = FALSE
               /\ feedback' = "saved"
          ELSE /\ unsure' = (unsure \/ outcome = "lost")
               /\ feedback' = "could not save"
               /\ UNCHANGED <<baseline, draft, dirty, stale>>
  /\ UNCHANGED <<controls, options, catalogs, capture, page, key, wanted>>

SaveIsInvalid ==
  /\ Gesture /\ saveBar
  /\ ~ Valid(Snapshot)
  /\ feedback' = "invalid"
  /\ UNCHANGED <<daemon, baseline, shown, options, catalogs, dirty, capture, page,
                 key, wanted, stale, unsure>>

\* discard_settings_editor; reset does not replace a selection's options, and a
\* value that is not among them leaves it showing none.
Discard ==
  /\ Gesture /\ saveBar
  /\ draft' = Draft(baseline)
  /\ controls' = [Controls(draft') EXCEPT
                    !.model = IF @ \in options THEN @ ELSE Unselected]
  /\ wanted' = Draft(baseline)
  /\ dirty' = FALSE /\ stale' = FALSE
  /\ capture' = "off" /\ feedback' = "none"
  /\ UNCHANGED <<daemon, baseline, options, catalogs, page, key, unsure>>

-----------------------------------------------------------------------------
(* Catalogs, pages and the API key                                          *)

\* apply_workspace_update
CatalogArrives(models) ==
  /\ counts.catalogs < MaxCatalogs
  /\ counts' = [counts EXCEPT !.catalogs = @ + 1]
  /\ catalogs' = [catalogs EXCEPT !.arrived = models]
  /\ UNCHANGED <<daemon, baseline, shown, options, dirty, capture, page, feedback,
                 key, wanted, stale, unsure>>

\* sync_model_catalog_editor, at the next frame: what is selected stays selected.
SyncCatalog ==
  /\ catalogs.arrived # catalogs.applied
  /\ catalogs' = [catalogs EXCEPT !.applied = catalogs.arrived]
  /\ options' = Options(catalogs.arrived, Snapshot.model)
  /\ controls' = [controls EXCEPT !.model = Snapshot.model]
  /\ UNCHANGED <<daemon, baseline, draft, dirty, capture, page, feedback, key,
                 wanted, stale, unsure, counts>>

\* select_route: entering asks for the catalog, with a key; what the page said is
\* cleared by choosing any from it.  A capture goes on.
Go(route, failed) ==
  /\ GestureMayFail(failed)
  /\ failed => page = "other" /\ route = "settings" /\ key.has
  /\ page' = route
  /\ feedback' = IF failed THEN "could not refresh"
                 ELSE IF page = "settings" THEN "none" ELSE feedback
  /\ key' = [key EXCEPT !.said = "none"]
  /\ UNCHANGED <<daemon, baseline, shown, options, catalogs, dirty, capture,
                 wanted, stale, unsure>>

TypeKey(text) ==
  /\ Gesture /\ onPage
  /\ key' = [key EXCEPT !.text = text, !.said = "none"]
  /\ UNCHANGED <<daemon, baseline, shown, options, catalogs, dirty, capture, page,
                 feedback, wanted, stale, unsure>>

\* save_api_key: the key's input is cleared once it is saved; if it reports that as
\* a change (told, see Step), what was said is cleared as well.
SaveKey(failed, told) ==
  /\ onPage /\ GestureMayFail(failed)
  /\ failed => key.text = "key"
  /\ key' = IF key.text # "key" THEN [key EXCEPT !.said = "paste a key"]
            ELSE IF failed THEN [key EXCEPT !.said = "could not save"]
            ELSE [has |-> TRUE, text |-> "none", said |-> IF told THEN "none" ELSE "saved"]
  /\ UNCHANGED <<daemon, baseline, shown, options, catalogs, dirty, capture, page,
                 feedback, wanted, stale, unsure>>

Values(field) ==
  CASE field = "provider" -> Sources
    [] field = "model" -> options
    [] field = "mode" -> {"Dictate", "Literal"}

Next ==
  \/ \E field \in Selections : \E value \in Values(field) : Choose(field, value)
  \/ \E text \in Texts : Type("custom", text)
  \/ \E text \in Numbers : Type("limit", text)
  \/ \E up, told \in BOOLEAN : Step(up, told)
  \/ Toggle
  \/ BeginCapture \/ CancelCapture
  \/ \E pressed \in {"escape", "bare key", "ctrl+space", "ctrl+alt+d"} : Keystroke(pressed)
  \/ \E outcome \in {"saved", "refused", "lost"} : Save(outcome)
  \/ SaveIsInvalid \/ Discard
  \/ \E models \in Offered : CatalogArrives(models)
  \/ SyncCatalog
  \/ \E route \in {"settings", "other"}, failed \in BOOLEAN : Go(route, failed)
  \/ \E text \in {"blank", "key"} : TypeKey(text)
  \/ \E failed, told \in BOOLEAN : SaveKey(failed, told)

Spec == Init /\ [][Next]_vars

-----------------------------------------------------------------------------
(* Properties                                                               *)

\* Types of the variables.
TypeOK ==
  /\ daemon \in Stored /\ baseline \in Stored
  /\ options \subseteq Models
  /\ dirty \in BOOLEAN /\ stale \in BOOLEAN /\ unsure \in BOOLEAN
  /\ capture \in {"off", "on", "refused"} /\ page \in {"settings", "other"}

\* The form shows what the user chose, typed, toggled and pressed since the last
\* save or discard: no arriving catalog, failed save or visit to another page takes
\* an edit back or selects something else (sync_model_catalog, replace_select_options,
\* snapshot, accept_saved_settings).
EditsSurvive == Snapshot = wanted

\* While the window does not say that there are unsaved changes there are none: what
\* a save would send is what was saved (recompute_settings_dirty,
\* accept_saved_settings); and the settings that a form without changes shows are the
\* daemon's, but for an answer that was lost.
NoHiddenChanges ==
  ~dirty /\ ~stale =>
    /\ Normal(Snapshot) = Draft(baseline)
    /\ unsure \/ Normal(Snapshot) = Draft(daemon)

\* What is saved is what the form shows, read as it is written there, and nothing
\* that the form does not show is lost (apply_to).
SavesAsShown ==
  daemon' # daemon =>
    /\ Draft(daemon') = Normal(Snapshot)
    /\ daemon'.rest = daemon.rest
SavedAsShown == [][SavesAsShown]_vars

\* Without changes of its own the page shows the daemon's settings.  Not so after an
\* answer was lost: discarding shows the baseline from before the save that the daemon
\* made (save_settings_editor, discard_settings_editor).
CleanFormIsTheDaemons ==
  ~dirty /\ ~stale => Normal(Snapshot) = Draft(daemon)
=============================================================================
