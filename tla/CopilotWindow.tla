----------------------------- MODULE CopilotWindow -----------------------------
(***************************************************************************)
(* The copilot's window on the desktop: the view that decides what is      *)
(* shown and where the keys go, and the native window behind it, which     *)
(* never takes the keyboard unless the user types.  Source: crates/        *)
(* agentdictate-ui/src/desktop/copilot_view.rs and copilot.rs, crates/     *)
(* agentdictate-app/src/copilot/win/host.rs.                               *)
(*                                                                         *)
(* Calls to the native window run on a later turn of the event loop, in    *)
(* order; meanwhile events arrive, and the user goes on.  Of the settings, *)
(* hide stands for the switches and text for what is written into fields.  *)
(* The region of the window that takes clicks (ShapeTracker) and where it  *)
(* stands on the screen are left out.                                      *)
(***************************************************************************)
EXTENDS Naturals, Sequences

CONSTANTS
  Apps,      \* the other applications
  MaxMoves,  \* bound on what the user, the engine and the applications do
  MaxCalls   \* bound on the calls to the native window on their way

VARIABLES
  ui,         \* CopilotWindow, and the host calls it has deferred
  host,       \* Win32CopilotHost and the window's styles
  foreground, \* the window that has the keyboard
  running,    \* the applications that run
  inactive,   \* notices of a lost activation that the view has yet to get
  settings,   \* the view's CopilotSettings
  fields,     \* the text in the settings sheet's inputs
  echoes,     \* settings sent to the engine whose Settings event has not come
  engine,     \* how far the session is, as its events tell
  moves,
  lastApp,    \* the application that had the keyboard last
  refused,    \* what the system refused when it was last asked: the keyboard, which
              \* a click may bring all the same, or a place outside screen captures
  wanted      \* the settings as the user chose them last

vars == <<ui, host, foreground, running, inactive, settings, fields, echoes, engine,
          moves, lastApp, refused, wanted>>

Copilot == "copilot"
NoApp == "none"

Init ==
  /\ \E hide \in BOOLEAN : \E hidden \in {FALSE, hide} :
       /\ settings = [hide |-> hide, text |-> 0] /\ wanted = settings
       /\ refused = IF hidden = hide THEN {} ELSE {"share"}
       /\ host = [noActivate |-> TRUE, previous |-> NoApp, shown |-> TRUE,
                  hidden |-> hidden, panel |-> TRUE]
       /\ ui = [visible |-> TRUE, panel |-> FALSE, collapsed |-> FALSE, sheet |-> FALSE,
                tab |-> "live", typing |-> FALSE, naming |-> FALSE,
                size |-> FALSE, excluded |-> hide, calls |-> <<[call |-> "resize", to |-> FALSE]>>]
  /\ running = Apps /\ foreground \in Apps /\ lastApp = foreground
  /\ inactive = 0 /\ fields = 0 /\ echoes = <<>> /\ engine = "listens"
  /\ moves = 0

-----------------------------------------------------------------------------
(* The view's helpers, on the view v.                                      *)

WithHost(v, call, to) == [v EXCEPT !.calls = Append(@, [call |-> call, to |-> to])]

StopTyping(v, restore) ==
  IF v.typing THEN WithHost([v EXCEPT !.typing = FALSE], "end typing", restore) ELSE v

\* start_settings_typing, for the settings' and the name's fields.
BeginTyping(v) ==
  IF v.typing THEN v ELSE WithHost([v EXCEPT !.typing = TRUE], "begin typing", TRUE)

SetVisible(v, visible) ==
  LET quiet == IF visible THEN v ELSE StopTyping(v, TRUE)
  IN IF v.visible = visible THEN v
     ELSE WithHost([quiet EXCEPT !.visible = visible], "show", visible)

StartTyping(v) == BeginTyping(SetVisible(v, TRUE))

Becomes(v) == Len(v.calls) <= MaxCalls /\ ui' = v
Move == moves < MaxMoves /\ engine # "over" /\ moves' = moves + 1

\* Every handler has the view drawn again, and drawing brings the native window's
\* size and its place in screen captures up to date (sync_host).
Render ==
  /\ engine # "over"
  /\ ui.size # ui.panel \/ ui.excluded # settings.hide
  /\ LET sized == IF ui.size = ui.panel THEN ui
                  ELSE WithHost([ui EXCEPT !.size = ui.panel], "resize", ui.panel)
     IN Becomes(IF ui.excluded = settings.hide THEN sized
                ELSE WithHost([sized EXCEPT !.excluded = settings.hide], "exclude", settings.hide))
  /\ UNCHANGED <<host, foreground, running, inactive, settings, fields, echoes, engine,
                 moves, lastApp, refused, wanted>>

-----------------------------------------------------------------------------
(* The native window.                                                      *)

\* The keyboard goes to a window; the view is told when it loses it.
Focus(window) ==
  /\ foreground' = window
  /\ inactive' = IF foreground = Copilot /\ window # Copilot THEN inactive + 1 ELSE inactive
  /\ lastApp' = IF window \in Apps THEN window ELSE lastApp

Unfocused == UNCHANGED <<foreground, inactive, lastApp>>

\* force_foreground, which Windows may refuse.
Force(window) ==
  \/ Focus(window) /\ refused' = refused \ {"focus"}
  \/ foreground # window /\ Unfocused /\ refused' = refused \cup {"focus"}

Called(call) == ui.calls # <<>> /\ Head(ui.calls).call = call /\ ui' = [ui EXCEPT !.calls = Tail(@)]
To == Head(ui.calls).to
HostOnly == UNCHANGED <<running, settings, fields, echoes, engine, moves, wanted>>

BeginTypingCall ==
  /\ Called("begin typing")
  /\ host' = [host EXCEPT !.noActivate = FALSE,
                          !.previous = IF foreground \in Apps THEN foreground ELSE @]
  /\ Force(Copilot)
  /\ HostOnly

\* The keyboard goes back to where it was, unless the user has moved on.
EndTypingCall ==
  /\ Called("end typing")
  /\ host' = [host EXCEPT !.noActivate = TRUE, !.previous = NoApp]
  /\ IF To /\ host.previous \in running /\ foreground = Copilot
       THEN Force(host.previous)
       ELSE Unfocused /\ UNCHANGED refused
  /\ HostOnly

ResizeCall ==
  /\ Called("resize") /\ host' = [host EXCEPT !.panel = To]
  /\ Unfocused /\ UNCHANGED refused /\ HostOnly

\* Hiding the window that has the keyboard leaves it to another one.
ShowCall ==
  /\ Called("show") /\ host' = [host EXCEPT !.shown = To]
  /\ IF ~To /\ foreground = Copilot
       THEN \E app \in running \cup {NoApp} : Focus(app)
       ELSE Unfocused
  /\ UNCHANGED refused /\ HostOnly

ExcludeCall ==
  /\ Called("exclude")
  /\ \/ host' = [host EXCEPT !.hidden = To] /\ refused' = refused \ {"share"}
     \/ host' = host /\ refused' = refused \cup {"share"}
  /\ Unfocused /\ HostOnly

\* The user goes to another application, or one ends.
Switch(app) ==
  /\ Move /\ app \in running \ {foreground} /\ Focus(app)
  /\ UNCHANGED <<ui, host, running, settings, fields, echoes, engine, refused, wanted>>

Quit(app) ==
  /\ Move /\ app \in running
  /\ running' = running \ {app}
  /\ IF foreground = app THEN \E next \in running' \cup {NoApp} : Focus(next) ELSE Unfocused
  /\ UNCHANGED <<ui, host, settings, fields, echoes, engine, refused, wanted>>

\* observe_window_activation.
Deactivated ==
  /\ inactive > 0 /\ inactive' = inactive - 1
  /\ Becomes(StopTyping(ui, FALSE))
  /\ UNCHANGED <<host, foreground, running, settings, fields, echoes, engine, moves,
                 lastApp, refused, wanted>>

-----------------------------------------------------------------------------
(* The session's events.                                                   *)

Event(v) ==
  /\ Move /\ Becomes(v)
  /\ Unfocused /\ UNCHANGED <<host, running, settings, fields, refused, wanted>>

Running == engine = "listens" /\ UNCHANGED <<echoes, engine>>

ToggleVisibility == Running /\ Event(SetVisible(ui, ~ui.visible))

\* The assist shortcut, a second start, and any shortcut once the notes are there.
Show == engine \in {"listens", "wrap-up"} /\ Event(SetVisible(ui, TRUE))
        /\ UNCHANGED <<echoes, engine>>

FocusAsk ==
  Running /\ Event(StartTyping([SetVisible(ui, TRUE) EXCEPT !.panel = TRUE, !.sheet = FALSE]))

AnswerStarted ==
  Running /\ Event([ui EXCEPT !.panel = TRUE, !.sheet = FALSE, !.tab = "live"])

Insights == Running /\ ~ui.panel /\ ~ui.collapsed /\ Event([ui EXCEPT !.panel = TRUE])

\* The Settings event; the fields are left alone while they are being edited.
Echo ==
  /\ echoes # <<>>
  /\ echoes' = Tail(echoes)
  /\ settings' = Head(echoes)
  /\ fields' = IF ui.sheet THEN fields ELSE Head(echoes).text
  /\ UNCHANGED <<ui, host, foreground, running, inactive, engine, moves, lastApp, refused, wanted>>

\* finish: settings that reach the engine from now on are dropped.
Finish ==
  /\ engine = "listens" /\ engine' = "finishes"
  /\ \E n \in 0..Len(echoes) : echoes' = SubSeq(echoes, 1, n)
  /\ UNCHANGED <<ui, host, foreground, running, inactive, settings, fields, moves,
                 lastApp, refused, wanted>>

\* The wrap-up is shown even if the copilot was hidden or collapsed.
WrapUp(v) ==
  SetVisible(StopTyping([v EXCEPT !.panel = TRUE, !.sheet = FALSE, !.tab = "live"], FALSE), TRUE)

Ending ==
  /\ engine = "finishes" /\ echoes = <<>> /\ engine' = "writes"
  /\ Event(WrapUp(ui)) /\ UNCHANGED echoes

NotesSaved ==
  /\ engine = "writes" /\ engine' = "wrap-up"
  /\ Event(WrapUp(ui)) /\ UNCHANGED echoes

\* Without notes the window goes at once. The process ends with its calls.
Exit ==
  /\ engine \in {"finishes", "writes", "wrap-up"} /\ echoes = <<>> /\ engine' = "over"
  /\ UNCHANGED <<ui, host, foreground, running, inactive, settings, fields, echoes,
                 moves, lastApp, refused, wanted>>

-----------------------------------------------------------------------------
(* The user. A click on the window gives it the keyboard only while the     *)
(* style that forbids it is away; a notice comes before the next click.     *)

Click(v) ==
  /\ Move /\ inactive = 0 /\ ui.visible /\ Becomes(v)
  /\ IF host.noActivate \/ foreground = Copilot
       THEN Unfocused /\ UNCHANGED refused
       ELSE Focus(Copilot) /\ refused' = refused \cup {"focus"}
  /\ UNCHANGED <<host, running, engine>>

Kept == UNCHANGED <<settings, fields, echoes, wanted>>
Panel == ui.visible /\ ui.panel
NamesShown == Panel /\ ~ui.sheet /\ ui.tab = "transcript"
FooterShown == Panel /\ ~ui.sheet /\ engine \in {"listens", "finishes"}

AskAi == Click([ui EXCEPT !.panel = TRUE]) /\ Kept
Hide == Click(SetVisible(ui, FALSE)) /\ Kept
ClickEnd == Click(StopTyping(ui, TRUE)) /\ Kept

ClickPanel ==
  /\ Click(IF ui.panel THEN StopTyping([ui EXCEPT !.panel = FALSE, !.collapsed = TRUE], TRUE)
           ELSE [ui EXCEPT !.panel = TRUE, !.collapsed = FALSE])
  /\ Kept

\* The sheet is opened from the bar and from the first page.
OpenSheet ==
  /\ ~ui.sheet /\ Click([ui EXCEPT !.sheet = TRUE, !.panel = TRUE])
  /\ fields' = settings.text /\ UNCHANGED <<settings, echoes, wanted>>

CloseSheet ==
  /\ ui.sheet /\ Click(StopTyping([ui EXCEPT !.sheet = FALSE, !.panel = TRUE], TRUE)) /\ Kept

ClickTab(tab) ==
  Panel /\ ~ui.sheet /\ ui.tab # tab /\ Click([ui EXCEPT !.tab = tab]) /\ Kept

ClickAsk == FooterShown /\ Click(StartTyping(ui)) /\ Kept

\* The button lies in the field, so pressing it has already asked for the keyboard.
Sent(v) == StopTyping([v EXCEPT !.tab = "live"], TRUE)
Send == FooterShown /\ Click(Sent(StartTyping(ui))) /\ Kept

BeginNaming == NamesShown /\ Click(BeginTyping([ui EXCEPT !.naming = TRUE])) /\ Kept
NameVoice ==
  NamesShown /\ ui.naming /\ Click(StopTyping([ui EXCEPT !.naming = FALSE], TRUE)) /\ Kept

ClickText == Panel /\ ui.sheet /\ Click(BeginTyping(ui)) /\ Kept

\* update_settings: at once in the view, and to the engine.
Update(new) ==
  /\ settings' = new
  /\ wanted' = [wanted EXCEPT !.hide = IF new.hide # settings.hide THEN new.hide ELSE @,
                              !.text = IF new.text # settings.text THEN new.text ELSE @]
  /\ echoes' = IF engine = "listens" THEN Append(echoes, new) ELSE echoes
  /\ UNCHANGED fields

ToggleHide ==
  Panel /\ ui.sheet /\ Click(ui) /\ Update([settings EXCEPT !.hide = ~@])
SaveText ==
  Panel /\ ui.sheet /\ Click(StopTyping(ui, TRUE)) /\ Update([settings EXCEPT !.text = fields])

\* Keys, for the window that has the keyboard.
Key(v) ==
  /\ Move /\ inactive = 0 /\ foreground = Copilot /\ Becomes(v)
  /\ Unfocused /\ UNCHANGED <<host, running, engine, refused>>

TypeText ==
  /\ Panel /\ ui.sheet /\ Key(ui)
  /\ fields' = 1 - fields /\ UNCHANGED <<settings, echoes, wanted>>

SendByEnter == FooterShown /\ Key(Sent(ui)) /\ Kept

Escape ==
  Key(StopTyping([ui EXCEPT !.sheet = FALSE, !.naming = FALSE], TRUE)) /\ Kept

Next ==
  \/ Render \/ BeginTypingCall \/ EndTypingCall \/ ResizeCall \/ ShowCall \/ ExcludeCall
  \/ \E app \in Apps : Switch(app) \/ Quit(app)
  \/ Deactivated
  \/ ToggleVisibility \/ Show \/ FocusAsk \/ AnswerStarted \/ Insights \/ Echo
  \/ Finish \/ Ending \/ NotesSaved \/ Exit
  \/ AskAi \/ Hide \/ ClickEnd \/ ClickPanel \/ OpenSheet \/ CloseSheet
  \/ \E tab \in {"live", "transcript"} : ClickTab(tab)
  \/ ClickAsk \/ Send \/ BeginNaming \/ NameVoice \/ ClickText \/ ToggleHide \/ SaveText
  \/ TypeText \/ SendByEnter \/ Escape

Spec == Init /\ [][Next]_vars

-----------------------------------------------------------------------------
\* Nothing is on its way between the view and the native window.
Quiet ==
  /\ ui.calls = <<>> /\ inactive = 0 /\ engine # "over"
  /\ ui.size = ui.panel /\ ui.excluded = settings.hide

\* However clicks, events and lost activations fall between the deferred calls, the
\* native window ends up as the view has it: shown or not, as large as its content,
\* out of screen captures if the settings say so, and closed to the keyboard unless
\* the user types (with_host, sync_host).
HostFollowsView ==
  Quiet =>
    /\ host.shown = ui.visible /\ host.panel = ui.panel
    /\ host.noActivate = ~ui.typing
    /\ "share" \notin refused => host.hidden = settings.hide

\* What the user types goes into something that can be seen: the view takes keys only
\* while its panel is shown, and takes them for typed only while it has the keyboard
\* (set_visible, the panel's button, observe_window_activation).
KeysHaveAPlace ==
  /\ ui.typing => ui.visible /\ ui.panel
  /\ Quiet /\ ui.typing /\ "focus" \notin refused => foreground = Copilot

\* The native window takes the keyboard only to be typed into, gives it back only if
\* it still has it, and, unless it got it by a click instead, only to the application
\* that had it before (host.rs, begin_typing and end_typing; "never stealing focus
\* unless the user is typing").
GivesBack ==
  foreground' # foreground /\ ui'.calls # ui.calls /\ moves' = moves =>
    \/ Head(ui.calls).call = "begin typing" /\ foreground' = Copilot
    \/ foreground = Copilot /\ ("focus" \in refused \/ foreground' = lastApp)
    \/ foreground = Copilot /\ ~host'.shown
FocusGoesBack == [][GivesBack]_vars

\* The inductive invariant, about a view v that a handler may still be drawing up.  A
\* call that is no longer what the view wants is followed by one that is, and so is the
\* native window itself; the calls that begin and end typing come in turn; and while the
\* user types, the copilot has the keyboard or is about to ask for it.
Calls == [call : {"begin typing", "end typing", "resize", "show", "exclude"}, to : BOOLEAN]
Views ==
  [visible : BOOLEAN, panel : BOOLEAN, collapsed : BOOLEAN, sheet : BOOLEAN,
   tab : {"live", "transcript"}, typing : BOOLEAN, naming : BOOLEAN, size : BOOLEAN,
   excluded : BOOLEAN, calls : Seq(Calls)]
Choices == [hide : BOOLEAN, text : {0, 1}]
Later(v, i, kind) == \E j \in DOMAIN v.calls : j > i /\ v.calls[j].call = kind
LaterTo(v, i, kind, to) ==
  \E j \in DOMAIN v.calls : j > i /\ v.calls[j].call = kind /\ v.calls[j].to = to
Settles(v, kind, now, to) ==
  /\ now # to => LaterTo(v, 0, kind, to)
  /\ \A i \in DOMAIN v.calls :
       v.calls[i].call = kind /\ v.calls[i].to # to => LaterTo(v, i, kind, to)
Turns == {"begin typing", "end typing"}
Turn(typing) == IF typing THEN "begin typing" ELSE "end typing"
TakesTurns(v, first, last) ==
  /\ first # last => Later(v, 0, last)
  /\ \A i \in DOMAIN v.calls : v.calls[i].call \in Turns \ {last} => Later(v, i, last)
  /\ \A i \in DOMAIN v.calls : v.calls[i].call = first =>
       \E k \in DOMAIN v.calls : k < i /\ v.calls[k].call \in Turns \ {first}
  /\ \A i, j \in DOMAIN v.calls :
       i < j /\ v.calls[i].call \in Turns /\ v.calls[j].call = v.calls[i].call =>
         \E k \in DOMAIN v.calls :
           i < k /\ k < j /\ v.calls[k].call \in Turns \ {v.calls[i].call}
Away == foreground # Copilot /\ inactive = 0 /\ "focus" \notin refused
Lined(v) ==
  /\ v \in Views
  /\ Settles(v, "show", host.shown, v.visible)
  /\ Settles(v, "resize", host.panel, v.size)
  /\ Settles(v, "exclude", IF "share" \in refused THEN v.excluded ELSE host.hidden, v.excluded)
  /\ TakesTurns(v, Turn(~host.noActivate), Turn(v.typing))
  /\ v.typing /\ Away => Later(v, 0, "begin typing")
Placed(v) == v.typing => v.visible /\ v.panel
Owned ==
  /\ host \in [noActivate : BOOLEAN, previous : Apps \cup {NoApp}, shown : BOOLEAN,
               hidden : BOOLEAN, panel : BOOLEAN]
  /\ settings \in Choices /\ echoes \in Seq(Choices) /\ fields \in {0, 1}
  /\ running \subseteq Apps /\ foreground \in Apps \cup {Copilot, NoApp} /\ inactive \in Nat
  /\ foreground \in Apps => lastApp = foreground
  /\ moves \in Nat
  /\ host.noActivate => host.previous = NoApp
  /\ foreground = Copilot /\ host.previous # NoApp /\ "focus" \notin refused =>
       lastApp = host.previous
Following == Lined(ui) /\ Placed(ui) /\ Owned

\* Without typing, another application has the keyboard. (Not so when the meeting ends
\* while the user types: stop_typing(false) forgets to whom it belongs.)
KeyboardIsGivenBack ==
  Quiet /\ ~ui.typing /\ refused = {} /\ host.shown /\ running = Apps => foreground # Copilot

\* A name that is being asked for can be typed. (Not so once the window has lost the
\* keyboard: the field, unlike the settings' ones, does not ask for it again.)
NameCanBeTyped == Quiet /\ NamesShown /\ ui.naming => ui.typing

\* The settings are those the user chose last. (Not so when a choice is made before the
\* one before it has come back: update_settings starts from what came back.)
NoChoiceIsLost == engine = "listens" /\ echoes = <<>> => settings = wanted
=============================================================================
