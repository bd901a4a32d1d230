---------------------------- MODULE SettingsUpdate ----------------------------
(***************************************************************************)
(* Changing settings in the running daemon: one command at a time, under   *)
(* the process mutex, changes the live shortcut, then the file, then what  *)
(* the daemon works with, and takes the shortcut back when the file cannot *)
(* be written.  Meanwhile the listener may close and come back, and its    *)
(* status messages wait for the mutex.  Source: crates/agentdictate-app/   *)
(* src/process.rs and hotkey_dispatch.rs, crates/agentdictate-runtime/src/ *)
(* fs.rs and settings_store.rs, the settings window's command sink.        *)
(*                                                                         *)
(* Of the settings three parts are kept: the shortcut, the API key and all *)
(* the others, which are handled alike.                                    *)
(***************************************************************************)
EXTENDS Naturals, Sequences

CONSTANTS MaxCommands,  \* bound on the settings commands sent
          MaxTroubles   \* bound on closed listeners and restarts of the daemon

VARIABLES
  file,       \* the settings on disk
  memory,     \* the daemon's settings, also its transcriber's and recorder's
  listener,   \* the shortcut the live listener waits for, or "none"
  wanted,     \* current_spec of the dispatch loop
  statuses,   \* readiness messages waiting for the process mutex
  readiness,  \* what the daemon reports of the shortcut
  command,    \* the command in progress
  undone,     \* history: no rollback of the shortcut has failed since the start
  committed,  \* history: since the last accepted command one replaced the file
  sent, troubles

vars == <<file, memory, listener, wanted, statuses, readiness, command, undone,
          committed, sent, troubles>>

Hotkeys == {"ctrl-space", "f9"}
Unparsable == "nonsense"
Settings == [hotkey : Hotkeys \cup {Unparsable}, key : {"none", "k"}, rest : {"r1", "r2"}]
NoCommand == [kind |-> "none", new |-> "none", step |-> "idle", answer |-> "none"]

\* Starting: the file is read; a shortcut that cannot be parsed or opened leaves
\* the daemon without a listener.
Starts(settings) ==
  /\ memory' = settings
  /\ \/ /\ settings.hotkey \in Hotkeys
        /\ listener' = settings.hotkey /\ statuses' = <<"ready">>
     \/ listener' = "none" /\ statuses' = <<"unavailable">>
  /\ wanted' = IF settings.hotkey \in Hotkeys THEN settings.hotkey ELSE "none"
  /\ readiness' = "starting" /\ command' = NoCommand
  /\ undone' = TRUE /\ committed' = FALSE

Init ==
  /\ file \in {s \in Settings : s.rest = "r1" /\ s.key = "k"}
  /\ memory = file
  /\ \/ file.hotkey \in Hotkeys /\ listener = file.hotkey /\ statuses = <<"ready">>
     \/ listener = "none" /\ statuses = <<"unavailable">>
  /\ wanted = IF file.hotkey \in Hotkeys THEN file.hotkey ELSE "none"
  /\ readiness = "starting" /\ command = NoCommand
  /\ undone = TRUE /\ committed = FALSE /\ sent = 0 /\ troubles = 0

-----------------------------------------------------------------------------
(* The daemon's handlers.                                                  *)

\* The key stays with the daemon: update_settings keeps the one it has.
ChangedSettings(settings) == [settings EXCEPT !.key = memory.key]

HotkeyChanges(settings) == settings.hotkey # memory.hotkey

Answer(text) == command' = [command EXCEPT !.step = "idle", !.answer = text]

\* UpdateSettings arrives: a shortcut that cannot be parsed is refused.
UpdateSettings(settings) ==
  /\ command.step = "idle" /\ sent < MaxCommands
  /\ sent' = sent + 1
  /\ command' = [kind |-> "update", new |-> ChangedSettings(settings),
                 step |-> IF ~HotkeyChanges(settings) THEN "save"
                          ELSE IF settings.hotkey \in Hotkeys THEN "reconfigure" ELSE "idle",
                 answer |-> IF HotkeyChanges(settings) /\ settings.hotkey = Unparsable
                            THEN "rejected" ELSE "none"]
  /\ UNCHANGED <<file, memory, listener, wanted, statuses, readiness, undone, committed,
                 troubles>>

\* SetApiKey saves a copy of the daemon's settings with the new key.
SetApiKey(key) ==
  /\ command.step = "idle" /\ sent < MaxCommands
  /\ sent' = sent + 1
  /\ command' = [kind |-> "key", new |-> [memory EXCEPT !.key = key], answer |-> "none",
                 step |-> "save"]
  /\ UNCHANGED <<file, memory, listener, wanted, statuses, readiness, undone, committed,
                 troubles>>

\* The dispatch loop asks the live listener for a shortcut: it has none, or the
\* listener refuses and reports the shortcut it keeps, or it changes over.
Refused ==
  /\ \/ listener = "none" /\ UNCHANGED statuses
     \/ listener # "none" /\ statuses' = Append(statuses, "ready")
  /\ UNCHANGED <<listener, wanted>>

ChangesTo(hotkey) ==
  /\ listener # "none"
  /\ listener' = hotkey /\ wanted' = hotkey
  /\ statuses' = Append(statuses, "ready")

Reconfigure ==
  /\ command.step = "reconfigure"
  /\ \/ Refused /\ Answer("rejected")
     \/ /\ ChangesTo(command.new.hotkey)
        /\ command' = [command EXCEPT !.step = "save"]
  /\ UNCHANGED <<file, memory, readiness, undone, committed, sent, troubles>>

\* save_settings through write_atomic.  The new file may be in place although
\* the call fails: its directory is synced after the rename.
FailsPlainly == Answer("rejected")

SaveFails ==
  IF command.kind = "update" /\ HotkeyChanges(command.new)
  THEN command' = [command EXCEPT !.step = "rollback"]
  ELSE Answer("rejected")

Save ==
  /\ command.step = "save"
  /\ \/ /\ file' = command.new /\ committed' = TRUE
        /\ command' = [command EXCEPT !.step = "apply"]
     \/ UNCHANGED <<file, committed>> /\ SaveFails
     \/ file' = command.new /\ committed' = TRUE /\ SaveFails
  /\ UNCHANGED <<memory, listener, wanted, statuses, readiness, undone, sent, troubles>>

\* The old shortcut is asked back; when that fails too the daemon says so.
Rollback ==
  /\ command.step = "rollback"
  /\ Answer("rejected")
  /\ \/ Refused /\ readiness' = "unavailable" /\ undone' = FALSE
     \/ ChangesTo(memory.hotkey) /\ UNCHANGED <<readiness, undone>>
  /\ UNCHANGED <<file, memory, committed, sent, troubles>>

\* Everything that works with the settings gets them; for a key the models are
\* asked for again, on a thread that may not start.
UpdatesOnly == IF command.kind = "update" THEN command.new ELSE memory
Applied == command.new

Apply ==
  /\ command.step = "apply"
  /\ memory' = Applied
  /\ \/ Answer("accepted") /\ committed' = FALSE
     \/ command.kind = "key" /\ Answer("rejected") /\ UNCHANGED committed
  /\ UNCHANGED <<file, listener, wanted, statuses, readiness, undone, sent, troubles>>

\* HotkeyStatusChanged, once the publisher gets the mutex.
StatusArrives ==
  /\ command.step = "idle" /\ statuses # <<>>
  /\ readiness' = Head(statuses) /\ statuses' = Tail(statuses)
  /\ UNCHANGED <<file, memory, listener, wanted, command, undone, committed, sent, troubles>>

-----------------------------------------------------------------------------
(* What happens around a command.                                          *)

ListenerCloses ==
  /\ listener # "none" /\ troubles < MaxTroubles
  /\ listener' = "none" /\ statuses' = Append(statuses, "unavailable")
  /\ troubles' = troubles + 1
  /\ UNCHANGED <<file, memory, wanted, readiness, command, undone, committed, sent>>

\* The input environment changed: the dispatch loop starts the shortcut it had.
ListenerReturns ==
  /\ listener = "none" /\ wanted # "none"
  /\ listener' = wanted
  /\ statuses' = statuses \o <<"starting", "ready">>
  /\ UNCHANGED <<file, memory, wanted, readiness, command, undone, committed, sent, troubles>>

\* The daemon stops at any moment and is started again.
Restart ==
  /\ troubles < MaxTroubles /\ troubles' = troubles + 1
  /\ Starts(file)
  /\ UNCHANGED <<file, sent>>

Next ==
  \/ \E s \in Settings : UpdateSettings(s)
  \/ \E k \in {"none", "k"} : SetApiKey(k)
  \/ Reconfigure \/ Save \/ Rollback \/ Apply \/ StatusArrives
  \/ ListenerCloses \/ ListenerReturns \/ Restart

Spec == Init /\ [][Next]_vars

-----------------------------------------------------------------------------
\* Between two commands the live shortcut is the one in the daemon's settings,
\* whatever was refused, failed, closed or restarted, unless a rollback failed
\* and was reported (process.rs, update_settings).
ShortcutFollowsSettings ==
  command.step = "idle" /\ undone => listener \in {"none", memory.hotkey}

\* Between two commands the daemon works with the settings the next start will
\* read, unless a save was reported as failed after it had replaced the file.
DaemonRunsSavedSettings ==
  command.step = "idle" /\ ~committed => memory = file

\* "Do not report a failed save after it committed" (process.rs).
CommittedSaveIsAccepted == command.step = "idle" => ~committed

-----------------------------------------------------------------------------
(* Their invariant: how far the command in progress has come.              *)

Typed ==
  /\ file \in Settings /\ memory \in Settings
  /\ command = [kind |-> command.kind, new |-> command.new, step |-> command.step,
                 answer |-> command.answer]
  /\ command.kind \in {"none", "update", "key"}
  /\ command.step \in {"idle", "reconfigure", "save", "apply", "rollback"}
  /\ command.step # "idle" => command.new \in Settings /\ command.kind # "none"
  /\ undone \in BOOLEAN /\ committed \in BOOLEAN

\* The listener waits for what is wanted: the shortcut of the daemon's settings, or,
\* once the listener has changed over, that of the command.
WantedIsSet ==
  /\ listener \in {"none", wanted}
  /\ undone =>
       wanted \in {"none", IF command.step \in {"idle", "reconfigure"} THEN memory.hotkey
                                                                  ELSE command.new.hotkey}
  /\ command.step # "idle" /\ command.kind = "key" => command.new.hotkey = memory.hotkey
  /\ command.step = "rollback" => command.kind = "update"

\* What is saved is what will be applied.
SavedIsApplied ==
  /\ ~committed => memory = file
  /\ command.step = "apply" => file = command.new /\ committed

Settled == Typed /\ WantedIsSet /\ SavedIsApplied

=============================================================================
