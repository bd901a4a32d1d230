----------------------------- MODULE MCPlatform -----------------------------
(***************************************************************************)
(* The recorders, deliverers and shortcut listeners of the two platforms,  *)
(* and the copilot's window, in one run: part says whose behaviours these  *)
(* are, and each keeps its variables in the slots s1, s2, ...              *)
(***************************************************************************)
EXTENDS Naturals

CONSTANTS Sinks, MaxJobs, MaxTroubles, MaxChanges,  \* the recorders
          Devices, Settings, RestartAfter, CheckAfter, MaxStarts,
          Shortcuts,                                \* the hotkey listener
          Windows, MaxDeliveries, MaxMoves,         \* the deliverers
          MaxGestures, MaxCalls                     \* the copilot window

\* "none" stands for no output or device, and the bound on the recordings is a
\* number.  The copilot's settings turn its two kinds of sources on, and it does
\* wait between two attempts and between two looks.
ASSUME RecordersAssumption == "none" \notin Sinks /\ MaxJobs \in Nat
ASSUME CaptureAssumption ==
  /\ "none" \notin Devices /\ Settings \subseteq SUBSET {"microphone", "system_audio"}
  /\ RestartAfter \in Nat \ {0} /\ CheckAfter \in Nat \ {0}

VARIABLES
  part,   \* the part that runs
  s1, s2, s3, s4, s5, s6, s7, s8, s9, s10, s11, s12, s13, s14, s15, s16, s17,
  outcome, typed, held

vars == <<part, s1, s2, s3, s4, s5, s6, s7, s8, s9, s10, s11, s12, s13, s14, s15, s16,
          s17, outcome, typed, held>>

Linux == INSTANCE LinuxRecorder WITH
  caller <- s1, job <- s2, active <- s3, child <- s4, audio <- s5,
  observers <- s6, exits <- s7, out <- s8, sink <- s9, enabled <- s10,
  changes <- s11, stray <- s12
Win == INSTANCE WindowsRecorder WITH
  caller <- s1, job <- s2, commands <- s3, reply <- s4, opening <- s5,
  active <- s6, samples <- s7, ready <- s8, failure <- s9, errors <- s10,
  duckings <- s11, ducking <- s12, restoring <- s13, session <- s14,
  volume <- s15, enabled <- s16, changes <- s17
Copilot == INSTANCE CopilotCapture WITH
  MaxMoves <- MaxDeliveries, devices <- s1, caller <- s2, ctl <- s3,
  orphan <- s4, moved <- s5, troubles <- s6, moves <- s7
X11 == INSTANCE LinuxDelivery WITH
  wayland <- s1, focus <- s2, moves <- s3, calls <- s4, late <- s5,
  action <- s6, target <- s7, protocol <- s8, ready <- s9, copied <- s10,
  seen <- s11, keyboard <- s12
Send == INSTANCE WindowsDelivery WITH
  foreground <- s1, modifiers <- s2, moves <- s3, asking <- s4, calls <- s5,
  step <- s6, target <- s7, aim <- s8, strayed <- s9
Keys == INSTANCE NativeHotkey WITH
  Keyboards <- Devices, MaxPlugs <- MaxMoves, MaxFailures <- MaxTroubles,
  MaxRequests <- MaxStarts, os <- s1, node <- s2, directory <- s3,
  notified <- s4, listener <- s5, loop <- s6, channel <- s7, spec <- s8,
  active <- s9, gen <- s10, watch <- s11, request <- s12, published <- s13,
  shown <- s14, history <- s15, counts <- s16
View == INSTANCE CopilotWindow WITH
  Apps <- Windows, MaxMoves <- MaxGestures, ui <- s1, host <- s2,
  foreground <- s3, running <- s4, inactive <- s5, settings <- s6,
  fields <- s7, echoes <- s8, engine <- s9, moves <- s10, lastApp <- s11,
  refused <- s12, wanted <- s13

\* "none" is no window, and "copilot" the copilot's own.
ASSUME WindowsAssumption == "none" \notin Windows /\ "copilot" \notin Windows

\* A shortcut is told by the keyboards that have it; no valid one is the invalid one.
ASSUME ShortcutsAssumption ==
  Shortcuts \subseteq SUBSET Devices /\ Keys!NoSpec \notin Shortcuts

Init ==
  \/ part = "linux recorder" /\ Linux!Init
     /\ s13 = 0 /\ s14 = 0 /\ s15 = 0 /\ s16 = 0 /\ s17 = 0 /\
        outcome = "error" /\ typed = "none" /\ held = FALSE
  \/ part = "windows recorder" /\ Win!Init
     /\ outcome = "error" /\ typed = "none" /\ held = FALSE
  \/ part = "copilot capture" /\ Copilot!Init
     /\ s8 = 0 /\ s9 = 0 /\ s10 = 0 /\ s11 = 0 /\ s12 = 0 /\ s13 = 0 /\
        s14 = 0 /\ s15 = 0 /\ s16 = 0 /\ s17 = 0 /\ outcome = "error" /\
        typed = "none" /\ held = FALSE
  \/ part = "linux delivery" /\ X11!Init
     /\ s13 = 0 /\ s14 = 0 /\ s15 = 0 /\ s16 = 0 /\ s17 = 0
  \/ part = "windows delivery" /\ Send!Init
     /\ s10 = 0 /\ s11 = 0 /\ s12 = 0 /\ s13 = 0 /\ s14 = 0 /\ s15 = 0 /\
        s16 = 0 /\ s17 = 0
  \/ part = "hotkey listener" /\ Keys!Init
     /\ s17 = 0 /\ outcome = "error" /\ typed = "none" /\ held = FALSE
  \/ part = "copilot window" /\ View!Init
     /\ s14 = 0 /\ s15 = 0 /\ s16 = 0 /\ s17 = 0 /\ outcome = "error" /\
        typed = "none" /\ held = FALSE

Next ==
  \/ part = "linux recorder" /\ Linux!Next
     /\ UNCHANGED <<part, s13, s14, s15, s16, s17, outcome, typed, held>>
  \/ part = "windows recorder" /\ Win!Next
     /\ UNCHANGED <<part, outcome, typed, held>>
  \/ part = "copilot capture" /\ Copilot!Next
     /\ UNCHANGED <<part, s8, s9, s10, s11, s12, s13, s14, s15, s16, s17,
        outcome, typed, held>>
  \/ part = "linux delivery" /\ X11!Next
     /\ UNCHANGED <<part, s13, s14, s15, s16, s17>>
  \/ part = "windows delivery" /\ Send!Next
     /\ UNCHANGED <<part, s10, s11, s12, s13, s14, s15, s16, s17>>
  \/ part = "hotkey listener" /\ Keys!Next
     /\ UNCHANGED <<part, s17, outcome, typed, held>>
  \/ part = "copilot window" /\ View!Next
     /\ UNCHANGED <<part, s14, s15, s16, s17, outcome, typed, held>>

Spec == Init /\ [][Next]_vars

-----------------------------------------------------------------------------
(* Properties: those of the parts, each while its part runs.               *)

\* No microphone stays open after its dictation or meeting, and nothing is reported
\* of a recorder that still runs: RecorderIsOwned (recorder.rs), CaptureFollowsDaemon
\* (windows/system.rs), CaptureIsWanted and SourcesFollowDevices (win/audio.rs).
\* What ducking lowered can be, and in the end is, raised again unless that write
\* itself is refused: OutputIsRestorable (audio_ducking.rs) and PlaybackIsRestored
\* (ducking.rs).  The daemon is one that ends each recording it was told has begun;
\* the one start it loses sight of is in DictationDaemon (MicIsOwned).
AudioIsGivenBack ==
  /\ part = "linux recorder" => Linux!RecorderIsOwned /\ Linux!OutputIsRestorable
  /\ part = "windows recorder" => Win!CaptureFollowsDaemon /\ Win!PlaybackIsRestored
  /\ part = "copilot capture" =>
       Copilot!CaptureIsWanted /\ Copilot!SourcesFollowDevices

\* The shortcut that was agreed on is listened to on every keyboard that has it,
\* and the daemon knows whether it is: NoKeyboardIsMissed (native_hotkey/),
\* StatusIsTrue, ShortcutIsAsAgreed and RecoveryIsArmed (hotkey_dispatch.rs).
ShortcutIsHeard ==
  part = "hotkey listener" =>
    /\ Keys!NoKeyboardIsMissed /\ Keys!StatusIsTrue
    /\ Keys!ShortcutIsAsAgreed /\ Keys!RecoveryIsArmed

\* The paste chord and the keys go where they were meant for: FocusIsStable
\* (paste.rs), AimIsTarget (windows/system.rs), and KeysHaveAPlace (copilot_view.rs);
\* on Linux none stays down (KeysAreReleased, injection.rs);
\* HostFollowsView: what the window does is carried out; and it gives the keyboard
\* back where it was: FocusGoesBack (win/host.rs).
KeysGoWhereMeant ==
  /\ [](part = "linux delivery" => X11!FocusIsStable /\ X11!KeysAreReleased)
  /\ [](part = "windows delivery" => Send!AimIsTarget)
  /\ [](part = "copilot window" => View!KeysHaveAPlace /\ View!HostFollowsView)
  /\ [][part = "copilot window" => View!GivesBack]_vars

Contract == INSTANCE DeliveryContract

\* Either deliverer keeps the promise that the daemon's exactly-once delivery
\* rests on (runtime/src/ports.rs, Deliverer).
ImplementsDelivery == Contract!Spec

=============================================================================
