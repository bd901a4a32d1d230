---------------------------- MODULE CopilotSession ----------------------------
(***************************************************************************)
(* A session of the meeting copilot from its start to the closed window:   *)
(* what it listens to, what its window says of that, how it ends by itself *)
(* or by the user, and what becomes of the notes.  Source:                 *)
(* crates/agentdictate-app/src/copilot/engine.rs and mod.rs, and           *)
(* crates/agentdictate-ui/src/copilot.rs and desktop/copilot_view.rs.      *)
(*                                                                         *)
(* The window, the tray and the capture threads put their messages in one  *)
(* queue, up; the engine handles one at a time and then does its periodic  *)
(* work.  A unit of time is a minute's quiet for a meeting that is over.   *)
(***************************************************************************)
EXTENDS Naturals, Sequences, SequencesExt

CONSTANTS
  OverQuiet, IdleEnd, \* MEETING_OVER_QUIET and IDLE_END in units of time
  MaxChanges,         \* bound on the changes of settings
  MaxToggles,         \* bound on pausing, resuming and asking to end
  MaxUp, MaxDown      \* bounds on the messages under way to the engine and back

VARIABLES
  phase,    \* "run", "drain", "notes", "wrap_up" or "over": where run and finish are
  settings, \* the engine's settings
  audio,    \* the sources captured, or {}: Engine::audio
  paused,   \* Engine::paused
  clock,    \* how long it is quiet and the meeting gone; whether this tick is done
  call,     \* the meeting app holds a call
  notes,    \* what became of them
  lines,    \* something was transcribed
  window,   \* CopilotViewModel, while it is open
  up, down, \* messages to the engine and events to the window
  gestures  \* what the user may still do

vars == <<phase, settings, audio, paused, clock, call, notes, lines, window,
          up, down, gestures>>

Sources == {"microphone", "system"}
Settings == [sources : SUBSET Sources, save_notes : BOOLEAN]
Init ==
  /\ settings \in {[sources |-> Sources, save_notes |-> TRUE], [sources |-> {}, save_notes |-> TRUE]}
  /\ phase = "starting" /\ audio = {} /\ paused = FALSE
  /\ clock = [quiet |-> 0, meeting |-> "not seen", gone |-> 0, ticked |-> TRUE]
  /\ call = FALSE /\ notes = "none" /\ lines = FALSE
  /\ window = [open |-> TRUE, listen |-> "starting", settings |-> settings, ending |-> "no"]
  /\ up = <<>> /\ down = <<>>
  /\ gestures = [changes |-> MaxChanges, toggles |-> MaxToggles]

Listen(state) == [kind |-> "listen", state |-> state]
Told(events) ==
  IF ~window.open THEN down' = <<>>
  ELSE Len(down) + Len(events) <= MaxDown /\ down' = down \o events
Sent(message) == Len(up) < MaxUp /\ up' = Append(up, message)

-----------------------------------------------------------------------------
(* The engine's audio.  Each is the new audio and pause, and what the      *)
(* window is told.                                                         *)

Unchanged == [audio |-> audio, paused |-> paused, says |-> <<>>]

\* start_audio; starts is whether the devices answer.  That it says "starting"
\* meanwhile is left out.
StartAudio(sources, starts) ==
  IF sources # {} /\ starts
  THEN [audio |-> sources, paused |-> FALSE, says |-> <<Listen("listening")>>]
  ELSE [audio |-> {}, paused |-> paused, says |-> <<Listen("unavailable")>>]

\* ToggleListening.
ToggleListening(starts) ==
  IF audio = {} THEN StartAudio(settings.sources, starts)
  ELSE [audio |-> audio, paused |-> ~paused,
        says |-> <<Listen(IF paused THEN "listening" ELSE "paused")>>]

\* update_settings stops and starts the audio when its sources change.
Restarted(new, starts) ==
  IF new.sources = settings.sources THEN Unchanged ELSE StartAudio(new.sources, starts)

\* run, up to its loop.
Start(starts) ==
  /\ phase = "starting" /\ phase' = "run"
  /\ LET now == StartAudio(settings.sources, starts)
     IN audio' = now.audio /\ paused' = now.paused /\ Told(now.says)
  /\ UNCHANGED <<settings, clock, call, notes, lines, window, up, gestures>>

-----------------------------------------------------------------------------
(* One turn of the engine: a message or its timeout, then tick.            *)

\* The meeting as session_over finds it, when a look is due.
Looked ==
  IF call THEN [clock EXCEPT !.meeting = "here", !.gone = 0]
  ELSE IF clock.meeting = "here" THEN [clock EXCEPT !.meeting = "gone", !.gone = 0]
  ELSE clock

\* session_over.
Over(now, paused_) ==
  \/ now.quiet >= OverQuiet /\ now.meeting = "gone" /\ now.gone >= OverQuiet
  \/ now.quiet >= IdleEnd /\ ~paused_

\* tick ends the session, or not.
Tick(quiet, looks) ==
  /\ clock' = [IF looks THEN Looked ELSE clock EXCEPT !.quiet = quiet, !.ticked = TRUE]
  /\ phase' = IF Over(clock', paused') THEN "ending" ELSE "run"

\* The tick after handling, with the audio that came of it.
Turn(now, quiet, looks) ==
  /\ audio' = now.audio /\ paused' = now.paused
  /\ Tick(quiet, looks)

Timeout(looks) ==
  /\ phase = "run" /\ up = <<>> /\ ~clock.ticked
  /\ Turn(Unchanged, clock.quiet, looks)
  /\ UNCHANGED <<settings, call, notes, lines, window, up, down, gestures>>

HandleToggle(starts, looks) ==
  /\ phase = "run" /\ up # <<>> /\ Head(up).kind = "toggle" /\ up' = Tail(up)
  /\ LET now == ToggleListening(starts)
     IN Turn(now, clock.quiet, looks) /\ Told(now.says)
  /\ UNCHANGED <<settings, call, notes, lines, window, gestures>>

\* update_settings; what copilot.json refuses is in use all the same.
HandleSettings(starts, looks) ==
  /\ phase = "run" /\ up # <<>> /\ Head(up).kind = "settings" /\ up' = Tail(up)
  /\ LET new == Head(up).settings
         now == Restarted(new, starts)
     IN /\ settings' = new
        /\ Told(<<[kind |-> "settings", settings |-> new]>> \o now.says)
        /\ Turn(now, clock.quiet, looks)
  /\ UNCHANGED <<call, notes, lines, window, gestures>>

\* handle_audio: someone starts to speak.
HandleSpeaking(looks) ==
  /\ phase = "run" /\ up # <<>> /\ Head(up).kind = "speaking" /\ up' = Tail(up)
  /\ Turn(Unchanged, 0, looks)
  /\ UNCHANGED <<settings, call, notes, lines, window, down, gestures>>

HandleEnd ==
  /\ phase = "run" /\ up # <<>> /\ Head(up).kind = "end" /\ up' = Tail(up)
  /\ phase' = "ending"
  /\ UNCHANGED <<settings, audio, paused, clock, call, notes, lines, window,
                 down, gestures>>

\* handle_transcribed, in the loop and while what was said last is drained.
Transcribed ==
  /\ phase \in {"run", "drain"} /\ ~lines /\ lines' = TRUE
  /\ UNCHANGED <<phase, settings, audio, paused, clock, call, notes, window,
                 up, down, gestures>>

-----------------------------------------------------------------------------
(* finish.                                                                 *)

\* The audio stops, whose capture has by then sent all that it heard.
StopAudio ==
  /\ phase = "ending" /\ phase' = "drain" /\ audio' = {}
  /\ UNCHANGED <<settings, paused, clock, call, notes, lines, window, up, down, gestures>>

\* Until nothing is being transcribed or six seconds passed; of what is asked
\* meanwhile only a second End counts, for the wrap-up.
Drain ==
  /\ phase = "drain" /\ up # <<>> /\ up' = Tail(up)
  /\ notes' = IF Head(up).kind = "end" THEN "not to be shown" ELSE notes
  /\ UNCHANGED <<phase, settings, audio, paused, clock, call, lines, window,
                 down, gestures>>

Drained ==
  /\ phase = "drain"
  /\ IF settings.save_notes /\ lines
     THEN phase' = "notes" /\ Told(<<[kind |-> "ending"]>>)
     ELSE phase' = "over" /\ Told(<<[kind |-> "exit"]>>)
  /\ UNCHANGED <<settings, audio, paused, clock, call, notes, lines, window, up, gestures>>

\* summarize and write_notes: the summary may fail, the file may be refused.
WriteNotes(writes) ==
  /\ phase = "notes"
  /\ IF ~writes THEN phase' = "over" /\ notes' = "refused" /\ Told(<<[kind |-> "exit"]>>)
     ELSE /\ notes' = "written"
          /\ IF notes = "not to be shown"
             THEN phase' = "over" /\ Told(<<[kind |-> "notes"], [kind |-> "exit"]>>)
             ELSE phase' = "wrap_up" /\ Told(<<[kind |-> "notes"]>>)
  /\ UNCHANGED <<settings, audio, paused, clock, call, lines, window, up, gestures>>

\* wrap_up: everything but End is answered or let go of; it ends by itself too.
WrapUp ==
  /\ phase = "wrap_up" /\ up # <<>> /\ up' = Tail(up)
  /\ IF Head(up).kind = "end" THEN phase' = "over" /\ Told(<<[kind |-> "exit"]>>)
     ELSE UNCHANGED <<phase, down>>
  /\ UNCHANGED <<settings, audio, paused, clock, call, notes, lines, window, gestures>>

WrapUpTimesOut ==
  /\ phase = "wrap_up" /\ phase' = "over" /\ Told(<<[kind |-> "exit"]>>)
  /\ UNCHANGED <<settings, audio, paused, clock, call, notes, lines, window, up, gestures>>

-----------------------------------------------------------------------------
(* The window, the call, and time.                                         *)

\* update_settings in the window: it shows the change at once.
ChangeSettings(new) ==
  /\ window.open /\ window.ending = "no" /\ gestures.changes > 0
  /\ new # window.settings
  /\ new.sources = window.settings.sources \/ new.save_notes = window.settings.save_notes
  /\ window' = [window EXCEPT !.settings = new]
  /\ Sent([kind |-> "settings", settings |-> new])
  /\ gestures' = [gestures EXCEPT !.changes = @ - 1]
  /\ UNCHANGED <<phase, settings, audio, paused, clock, call, notes, lines, down>>

Toggle ==
  /\ window.open /\ window.ending = "no" /\ gestures.toggles > 0
  /\ Sent([kind |-> "toggle"])
  /\ gestures' = [gestures EXCEPT !.toggles = @ - 1]
  /\ UNCHANGED <<phase, settings, audio, paused, clock, call, notes, lines, window, down>>

\* The window's or the tray's End.
AskToEnd ==
  /\ gestures.toggles > 0
  /\ Sent([kind |-> "end"])
  /\ gestures' = [gestures EXCEPT !.toggles = @ - 1]
  /\ UNCHANGED <<phase, settings, audio, paused, clock, call, notes, lines, window, down>>

\* Closing the window ends its process's loop, which asks the session to end.
CloseWindow ==
  /\ window.open /\ gestures.toggles > 0
  /\ window' = [window EXCEPT !.open = FALSE] /\ down' = <<>>
  /\ up' = Append(up, [kind |-> "end"])
  /\ gestures' = [gestures EXCEPT !.toggles = @ - 1]
  /\ UNCHANGED <<phase, settings, audio, paused, clock, call, notes, lines>>

\* CopilotViewModel::apply.
Apply ==
  /\ down # <<>> /\ down' = Tail(down)
  /\ LET event == Head(down)
     IN window' = CASE event.kind = "listen" -> [window EXCEPT !.listen = event.state]
                    [] event.kind = "settings" -> [window EXCEPT !.settings = event.settings]
                    [] event.kind = "ending" -> [window EXCEPT !.ending = "writing"]
                    [] event.kind = "notes" -> [window EXCEPT !.ending = "saved"]
                    [] event.kind = "exit" -> [window EXCEPT !.open = FALSE]
  /\ UNCHANGED <<phase, settings, audio, paused, clock, call, notes, lines, up, gestures>>

\* A capture thread hears speech, unless it is paused.
Speaks ==
  /\ audio # {} /\ ~paused /\ clock.quiet > 0
  /\ \A i \in DOMAIN up : up[i].kind # "speaking"
  /\ Sent([kind |-> "speaking"])
  /\ UNCHANGED <<phase, settings, audio, paused, clock, call, notes, lines, window,
                 down, gestures>>

CallChanges ==
  /\ phase = "run" /\ call' = ~call
  /\ UNCHANGED <<phase, settings, audio, paused, clock, notes, lines, window, up, down,
                 gestures>>

\* The engine wakes many times in a unit of time; ages past the limits are alike.
TimePasses ==
  /\ phase = "run" /\ clock.ticked /\ up = <<>>
  /\ clock' = [clock EXCEPT
       !.quiet = IF @ < IdleEnd THEN @ + 1 ELSE @,
       !.gone = IF clock.meeting = "gone" /\ @ < OverQuiet THEN @ + 1 ELSE @,
       !.ticked = FALSE]
  /\ UNCHANGED <<phase, settings, audio, paused, call, notes, lines, window, up, down,
                 gestures>>

Next ==
  \/ \E starts \in BOOLEAN : Start(starts)
  \/ \E looks \in BOOLEAN : Timeout(looks) \/ HandleSpeaking(looks)
  \/ \E starts, looks \in BOOLEAN : HandleToggle(starts, looks) \/ HandleSettings(starts, looks)
  \/ HandleEnd \/ Transcribed
  \/ StopAudio \/ Drain \/ Drained \/ WrapUp \/ WrapUpTimesOut
  \/ \E writes \in BOOLEAN : WriteNotes(writes)
  \/ \E new \in Settings : ChangeSettings(new)
  \/ Toggle \/ AskToEnd \/ CloseWindow \/ Apply \/ Speaks \/ CallChanges \/ TimePasses

Spec == Init /\ [][Next]_vars

-----------------------------------------------------------------------------
OnTheWay(kind) == \E i \in DOMAIN down : down[i].kind = kind

\* What the window says of listening is so, and what is captured was switched on
\* in the settings; nothing is captured any more once the session ends
\* (engine.rs, start_audio, update_settings and finish; copilot.rs, apply).
ListenIsTrue ==
  /\ audio # {} => phase \in {"run", "ending"} /\ audio = settings.sources
  /\ phase = "run" /\ window.open /\ ~OnTheWay("listen") =>
       window.listen = IF audio = {} THEN "unavailable"
                       ELSE IF paused THEN "paused" ELSE "listening"

\* Once nothing is on its way the window shows the settings the session works with.
SettingsAgree ==
  phase = "run" /\ up = <<>> /\ window.open /\ ~OnTheWay("settings") =>
    window.settings = settings

\* "A forgotten session never keeps listening": one that is not paused is over by
\* the first turn of the engine after nobody spoke for IdleEnd (engine.rs, session_over).
ForgottenSessionEnds ==
  phase = "run" /\ clock.quiet = IdleEnd /\ ~paused => ~clock.ticked

\* Unless the user closed it, the window stays until the notes are written or
\* refused, and then shows them until the user asked to end a second time; and
\* the notes are not lost however often the end is asked for (engine.rs, finish).
NotesBeforeExit ==
  /\ phase = "over" /\ lines /\ settings.save_notes => notes \in {"written", "refused"}
  /\ window.open /\ phase = "over" => OnTheWay("exit")
  /\ window.open /\ phase = "wrap_up" /\ ~OnTheWay("notes") => window.ending = "saved"

\* "A session also ends on its own ... after 15 minutes in which no one speaks":
\* not at the moment the user resumes listening after a long pause, in which
\* people may have spoken (docs/COPILOT.md; engine.rs, session_over).
ResumingKeepsTheSession ==
  [][paused /\ ~paused' /\ phase = "run" => phase' = "run"]_vars

\* The session is over when its window was closed and nothing is left to ask: no
\* wrap-up waits for a window that is gone (engine.rs, wrap_up; mod.rs, run_copilot).
NoHiddenWrapUp == ~(phase = "wrap_up" /\ ~window.open /\ up = <<>>)

\* Again and again: a session that ends is over, and its window closed, whatever is
\* asked while the notes are written (engine.rs, finish and wrap_up).
EndIsReached == phase \in {"starting", "run"} \/ (phase = "over" /\ ~window.open)
=============================================================================
