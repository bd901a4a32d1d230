---------------------------- MODULE HotkeyDispatch ----------------------------
(***************************************************************************)
(* The hotkey path of the daemon, from the keys to its workflow:           *)
(*   - the listener thread turns key events into signals (HotkeyTracker);  *)
(*   - the dispatch loop lets one action run at a time, drops presses that *)
(*     come meanwhile and keeps one terminal signal (HotkeyDispatchGate);  *)
(*   - an action thread connects to the daemon as any client does, reads   *)
(*     its snapshot and sends the command the phase calls for;             *)
(*   - a recording the hotkey started gets a thread that stops it when the *)
(*     maximum duration has passed.                                        *)
(* Source: crates/agentdictate-app/src/hotkey_dispatch.rs, process.rs      *)
(* (command_for_hotkey), crates/agentdictate-linux/src/native_hotkey.      *)
(*                                                                         *)
(* The daemon takes one client request at a time, under its mutex, so a    *)
(* snapshot and a command are each one step, and the visible phase is      *)
(* which recording is open, if any.                                        *)
(***************************************************************************)
EXTENDS HotkeyTracker, Sequences

CONSTANTS MaxKeys,       \* bound on the key events
          MaxOthers,     \* bound on the requests of other clients
          MaxTroubles    \* bound on listener, connection and mode troubles

ASSUME BoundsAssumption ==
  MaxKeys \in Nat /\ MaxOthers \in Nat /\ MaxTroubles \in Nat

VARIABLES
  held,       \* the keys that are physically down on each keyboard
  tracker,    \* the listener's HotkeyTracker
  listening,  \* active_listener is Some
  channel,    \* DispatchLoopEvents the loop has not taken
  mode,       \* recording_mode
  gate,       \* HotkeyDispatchGate
  workers,    \* the hotkey action threads
  stoppers,   \* the maximum-duration threads
  recording,  \* the daemon's open recording, 0 for none
  started,    \* recordings started so far
  arms,       \* toggle starts acknowledged so far
  passed,     \* of these, those whose TOGGLE_REARM_DELAY is over
  keysSeen, others, troubles,   \* counters for the bounds
  byHotkey,   \* history: recordings a hotkey action started
  armOf,      \* history: the toggle start that acknowledged each recording
  doomed,     \* history: the newest recording that Escape was pressed in
  ended,      \* history: the newest recording ended, and the maximum-duration
              \* thread that ended it (its recording, or 0)
  disturbed   \* history: trouble since the system was last at rest

inputVars == <<held, tracker, listening, keysSeen>>
daemonVars == <<recording, started, byHotkey, ended>>
armVars == <<arms, passed, armOf>>
bounds == <<others, troubles>>
vars == <<held, tracker, listening, channel, mode, gate, workers, stoppers,
          recording, started, arms, passed, keysSeen, others, troubles,
          byHotkey, armOf, doomed, ended, disturbed>>

Modes == {"toggle", "hold"}
NoSignal == [signal |-> "none", seen |-> 0, at |-> 0]
NoEscape == [job |-> 0, at |-> 0]

Init ==
  /\ held = [d \in Devices |-> {}] /\ tracker = NewTracker /\ listening = TRUE
  /\ channel = <<>> /\ mode \in Modes
  /\ gate = [inFlight |-> FALSE, pending |-> NoSignal, rearm |-> 0]
  /\ workers = {} /\ stoppers = {}
  /\ recording = 0 /\ started = 0 /\ arms = 0 /\ passed = 0
  /\ keysSeen = 0 /\ others = 0 /\ troubles = 0
  /\ byHotkey = {} /\ armOf = {} /\ doomed = NoEscape
  /\ ended = [job |-> 0, limit |-> 0] /\ disturbed = FALSE

\* Nothing is under way between the keys and the daemon.
Quiet == channel = <<>> /\ workers = {} /\ ~gate.inFlight
AtRest == Quiet /\ recording = 0 /\ \A d \in Devices : held[d] = {} /\ tracker.pressed[d] = {}

-----------------------------------------------------------------------------
(* Keys.                                                                   *)

\* The listener sends what the tracker emits.  Escape dooms the recording
\* that is open and the one a running action is about to open.
Emit(result) ==
  /\ tracker' = result.tracker
  /\ channel' = IF result.signal = "none" THEN channel
                ELSE Append(channel, [kind |-> "signal", signal |-> result.signal,
                                      seen |-> passed, at |-> keysSeen'])
  /\ IF result.signal = "Cancelled"
     THEN /\ workers' = {[w EXCEPT !.escaped = keysSeen'] : w \in workers}
          /\ doomed' = IF recording = 0 THEN doomed
                       ELSE [job |-> recording, at |-> keysSeen']
     ELSE UNCHANGED <<workers, doomed>>

KeyEvent(d, key, down, fresh) ==
  /\ keysSeen < MaxKeys /\ keysSeen' = keysSeen + 1
  /\ held' = [held EXCEPT ![d] = IF down THEN @ \cup {key} ELSE @ \ {key}]
  /\ IF listening THEN Emit(KeyInput(tracker, d, key, down, fresh))
     ELSE UNCHANGED <<tracker, channel, workers, doomed>>
  /\ disturbed' = (disturbed /\ ~AtRest)
  /\ UNCHANGED <<listening, mode, gate, stoppers, daemonVars, armVars, bounds>>

Press(d, key) == key \notin held[d] /\ KeyEvent(d, key, TRUE, TRUE)
Release(d, key) == key \in held[d] /\ KeyEvent(d, key, FALSE, FALSE)
\* evdev reports Repeated; the Windows hook reports one more Pressed.
Repeat(d, key) == key \in held[d] /\ \E fresh \in BOOLEAN : KeyEvent(d, key, TRUE, fresh)

\* A keyboard is unplugged (disconnect_path).
Unplug(d) ==
  /\ listening /\ keysSeen < MaxKeys /\ keysSeen' = keysSeen + 1
  /\ held[d] # {} /\ held' = [held EXCEPT ![d] = {}]
  /\ Emit(RemoveDevice(tracker, d))
  /\ UNCHANGED <<listening, mode, gate, stoppers, daemonVars, armVars, bounds,
                 disturbed>>

\* TOGGLE_REARM_DELAY has passed since the newest acknowledged toggle start.
RearmPasses ==
  /\ passed < arms /\ passed' = arms
  /\ UNCHANGED <<inputVars, channel, mode, gate, workers, stoppers, daemonVars,
                 arms, armOf, bounds, doomed, disturbed>>

Input ==
  \/ \E d \in Devices, key \in Keys : Press(d, key) \/ Release(d, key) \/ Repeat(d, key)
  \/ \E d \in Devices : Unplug(d)
  \/ RearmPasses

-----------------------------------------------------------------------------
(* The dispatch loop and its gate.                                         *)

\* Mutant: presses within the rearm delay are accepted.
NeverRearming(event) == FALSE

Rearming(event) ==
  mode # "hold" /\ event.signal = "Pressed" /\ event.seen < gate.rearm

\* HotkeyDispatchGate::accept: Ok.
Accepts(event) ==
  /\ ~(mode # "hold" /\ event.signal = "Released")
  /\ ~Rearming(event)
  /\ ~gate.inFlight

\* Mutant: a press is queued as well.
QueuesPresses(event) ==
  /\ ~(mode # "hold" /\ event.signal = "Released")
  /\ gate.inFlight
  /\ event.signal = "Cancelled" \/ gate.pending.signal # "Cancelled"

\* Mutant: only a cancellation is queued.
QueuesCancelOnly(event) == gate.inFlight /\ event.signal = "Cancelled"

\* Mutant: the newest terminal signal is kept.
QueuesNewest(event) ==
  /\ ~(mode # "hold" /\ event.signal = "Released")
  /\ gate.inFlight
  /\ event.signal \in {"Cancelled", "Released"}

\* HotkeyDispatchGate::accept: TerminalQueued.
Queues(event) ==
  /\ ~(mode # "hold" /\ event.signal = "Released")
  /\ gate.inFlight
  /\ \/ event.signal = "Cancelled"
     \/ event.signal = "Released" /\ gate.pending.signal # "Cancelled"

Worker(event) ==
  [signal |-> event.signal, seen |-> event.seen, at |-> event.at, mode |-> mode,
   command |-> "connect", target |-> 0, escaped |-> 0]

TakeSignal ==
  /\ channel # <<>> /\ Head(channel).kind = "signal"
  /\ channel' = Tail(channel)
  /\ LET event == [signal |-> Head(channel).signal, seen |-> Head(channel).seen,
                   at |-> Head(channel).at]
     IN \/ /\ Accepts(event)
           /\ gate' = [gate EXCEPT !.inFlight = TRUE]
           /\ workers' = workers \cup {Worker(event)}
        \/ /\ Queues(event)
           /\ gate' = [gate EXCEPT !.pending = event]
           /\ UNCHANGED workers
        \/ /\ ~Accepts(event) /\ ~Queues(event)
           /\ UNCHANGED <<gate, workers>>
  /\ UNCHANGED <<inputVars, mode, stoppers, daemonVars, armVars, bounds, doomed,
                 disturbed>>

\* Mutant: complete leaves the gate open while the queued signal runs.
CompleteReopens ==
  /\ channel # <<>> /\ Head(channel).kind = "finished"
  /\ channel' = Tail(channel)
  /\ gate' = [inFlight |-> FALSE,
              pending  |-> NoSignal,
              rearm    |-> IF Head(channel).arm = 0 THEN gate.rearm ELSE Head(channel).arm]
  /\ workers' = IF gate.pending = NoSignal THEN workers
                ELSE workers \cup {Worker(gate.pending)}
  /\ UNCHANGED <<inputVars, mode, stoppers, daemonVars, armVars, bounds, doomed,
                 disturbed>>

\* ActionFinished: HotkeyDispatchGate::complete, and the queued signal runs.
TakeFinished ==
  /\ channel # <<>> /\ Head(channel).kind = "finished"
  /\ channel' = Tail(channel)
  /\ gate' = [inFlight |-> gate.pending # NoSignal,
              pending  |-> NoSignal,
              rearm    |-> IF Head(channel).arm = 0 THEN gate.rearm ELSE Head(channel).arm]
  /\ workers' = IF gate.pending = NoSignal THEN workers
                ELSE workers \cup {Worker(gate.pending)}
  /\ UNCHANGED <<inputVars, mode, stoppers, daemonVars, armVars, bounds, doomed,
                 disturbed>>

Dispatch == TakeSignal \/ TakeFinished

-----------------------------------------------------------------------------
(* The action threads (dispatch_hotkey).                                   *)

CommandForHotkey(inMode, signal, isRecording) ==
  IF signal = "Cancelled" THEN IF isRecording THEN "cancel" ELSE "none"
  ELSE IF inMode = "hold"
       THEN IF signal = "Pressed"
            THEN IF isRecording THEN "none" ELSE "start"
            ELSE IF isRecording THEN "stop" ELSE "none"
       ELSE IF signal = "Released" THEN "none"
            ELSE IF isRecording THEN "stop" ELSE "start"

Replace(w, new) == workers' = (workers \ {w}) \cup {new}

\* The initial snapshot decides the command.  On Windows a press in a detected
\* meeting opens the copilot instead.
Connect(w) ==
  /\ w.command = "connect"
  /\ \/ Replace(w, [w EXCEPT !.command =
                      CommandForHotkey(w.mode, w.signal, recording # 0),
                             !.target = recording])
     \/ /\ w.signal = "Pressed" /\ recording = 0
        /\ Replace(w, [w EXCEPT !.command = "none"])
  /\ UNCHANGED <<inputVars, channel, mode, gate, stoppers, daemonVars, armVars,
                 bounds, doomed, disturbed>>

\* StartRecording runs in the daemon: it opens a recording or is rejected.
SendStart(w) ==
  /\ w.command = "start"
  /\ \/ /\ recording = 0
        /\ started' = started + 1 /\ recording' = started'
        /\ byHotkey' = byHotkey \cup {started'}
        /\ stoppers' = stoppers \cup {[job |-> started', step |-> "parked"]}
        /\ doomed' = IF w.escaped = 0 THEN doomed
                     ELSE [job |-> started', at |-> w.escaped]
        /\ Replace(w, [w EXCEPT !.command = "started", !.target = started'])
     \/ /\ Replace(w, [w EXCEPT !.command = "none"])
        /\ UNCHANGED <<started, recording, byHotkey, stoppers, doomed>>
  /\ UNCHANGED <<inputVars, channel, mode, gate, ended, armVars, bounds,
                 disturbed>>

\* StopRecording and Cancel name no recording: they end whichever is open.
SendEnd(w) ==
  /\ w.command \in {"stop", "cancel"}
  /\ recording' = 0
  /\ ended' = IF recording = 0 THEN ended ELSE [job |-> recording, limit |-> 0]
  /\ Replace(w, [w EXCEPT !.command = "none"])
  /\ UNCHANGED <<inputVars, channel, mode, gate, stoppers, started, byHotkey,
                 armVars, bounds, doomed, disturbed>>

Finished(arm) == Append(channel, [kind |-> "finished", arm |-> arm])

\* Mutant: an action without a command ends without a completion.
FinishSilently(w) ==
  /\ w.command \in {"none", "started"}
  /\ workers' = workers \ {w}
  /\ IF w.command = "started"
     THEN /\ arms' = arms + 1
          /\ armOf' = armOf \cup {[job |-> w.target, arm |-> arms']}
          /\ channel' = Finished(arms')
     ELSE UNCHANGED <<channel, arms, armOf>>
  /\ UNCHANGED <<inputVars, mode, gate, stoppers, daemonVars, passed, bounds,
                 doomed, disturbed>>

\* ActionFinished: a toggle start that opened a recording arms the delay.
Finish(w) ==
  /\ w.command \in {"none", "started"}
  /\ workers' = workers \ {w}
  /\ IF w.command = "started" /\ w.mode # "hold"
     THEN /\ arms' = arms + 1
          /\ armOf' = armOf \cup {[job |-> w.target, arm |-> arms']}
          /\ channel' = Finished(arms')
     ELSE channel' = Finished(0) /\ UNCHANGED <<arms, armOf>>
  /\ UNCHANGED <<inputVars, mode, gate, stoppers, daemonVars, passed, bounds,
                 doomed, disturbed>>

Work(w) == Connect(w) \/ SendStart(w) \/ SendEnd(w) \/ Finish(w)

-----------------------------------------------------------------------------
(* The maximum-duration threads (spawn_maximum_duration_stop).             *)

\* The duration passes; the snapshot tells whether the recording is still open.
StopperWakes(s) ==
  /\ s.step = "parked"
  /\ stoppers' = (stoppers \ {s})
                   \cup (IF recording = s.job THEN {[s EXCEPT !.step = "sending"]} ELSE {})
  /\ UNCHANGED <<inputVars, channel, mode, gate, workers, daemonVars, armVars,
                 bounds, doomed, disturbed>>

StopperSends(s) ==
  /\ s.step = "sending"
  /\ stoppers' = stoppers \ {s}
  /\ recording' = 0
  /\ ended' = IF recording = 0 THEN ended ELSE [job |-> recording, limit |-> s.job]
  /\ UNCHANGED <<inputVars, channel, mode, gate, workers, started, byHotkey,
                 armVars, bounds, doomed, disturbed>>

-----------------------------------------------------------------------------
(* Other clients, and troubles.                                            *)

\* The tray or a window starts or ends a recording, or the recorder dies.
OtherClient ==
  /\ others < MaxOthers /\ others' = others + 1
  /\ IF recording = 0
     THEN started' = started + 1 /\ recording' = started' /\ UNCHANGED ended
     ELSE recording' = 0 /\ ended' = [job |-> recording, limit |-> 0] /\ UNCHANGED started
  /\ UNCHANGED <<inputVars, channel, mode, gate, workers, stoppers, byHotkey,
                 armVars, troubles, doomed, disturbed>>

Trouble == troubles < MaxTroubles /\ troubles' = troubles + 1 /\ UNCHANGED others

\* The connection or the request of an action fails.
WorkerFails(w) ==
  /\ Trouble
  /\ w.command \in {"connect", "start", "stop", "cancel"}
  /\ Replace(w, [w EXCEPT !.command = "none"])
  /\ disturbed' = TRUE
  /\ UNCHANGED <<inputVars, channel, mode, gate, stoppers, daemonVars, armVars,
                 doomed>>

StopperFails(s) ==
  /\ Trouble
  /\ stoppers' = stoppers \ {s}
  /\ disturbed' = TRUE
  /\ UNCHANGED <<inputVars, channel, mode, gate, workers, daemonVars, armVars,
                 doomed>>

\* The settings change the hotkey: the listener starts from a clean tracker.
Reconfigure ==
  /\ Trouble /\ listening
  /\ tracker' = NewTracker
  /\ disturbed' = (disturbed \/ tracker.matched)
  /\ UNCHANGED <<held, listening, keysSeen, channel, mode, gate, workers,
                 stoppers, daemonVars, armVars, doomed>>

\* The settings change the recording mode.
SetMode ==
  /\ Trouble
  /\ mode' \in Modes \ {mode}
  /\ disturbed' = (disturbed \/ ~AtRest)
  /\ UNCHANGED <<inputVars, channel, gate, workers, stoppers, daemonVars,
                 armVars, doomed>>

\* The listener thread ends: ListenerClosed, and later EnvironmentChanged.
ListenerCloses ==
  /\ Trouble /\ listening
  /\ listening' = FALSE
  /\ disturbed' = (disturbed \/ tracker.matched)
  /\ UNCHANGED <<held, tracker, keysSeen, channel, mode, gate, workers, stoppers,
                 daemonVars, armVars, doomed>>

ListenerRecovers ==
  /\ ~listening /\ listening' = TRUE
  /\ tracker' = NewTracker
  /\ UNCHANGED <<held, keysSeen, channel, mode, gate, workers, stoppers,
                 daemonVars, armVars, bounds, doomed, disturbed>>

Environment ==
  \/ OtherClient \/ Reconfigure \/ SetMode \/ ListenerCloses \/ ListenerRecovers
  \/ \E w \in workers : WorkerFails(w)
  \/ \E s \in stoppers : StopperFails(s)

Next ==
  \/ Input \/ Dispatch \/ Environment
  \/ \E w \in workers : Work(w)
  \/ \E s \in stoppers : StopperWakes(s) \/ StopperSends(s)

Spec == Init /\ [][Next]_vars

-----------------------------------------------------------------------------
(* Properties.                                                             *)

Held(d) == Matches(held[d])

Messages ==
  [kind : {"signal"}, signal : Signals, seen : Nat, at : Nat]
    \cup [kind : {"finished"}, arm : Nat]
Terminals == [signal : {"Released", "Cancelled"}, seen : Nat, at : Nat]
Commands == {"connect", "none", "start", "started", "stop", "cancel"}
ActionThreads ==
  [signal : Signals, seen : Nat, at : Nat, mode : Modes, command : Commands,
   target : Nat, escaped : Nat]

\* The range of every variable; only a terminal signal is ever kept by the gate.
TypeOK ==
  /\ held \in [Devices -> SUBSET Keys] /\ tracker \in Trackers
  /\ listening \in BOOLEAN /\ mode \in Modes
  /\ channel \in Seq(Messages)
  /\ gate \in [inFlight : BOOLEAN, pending : {NoSignal} \cup Terminals, rearm : Nat]
  /\ workers \subseteq ActionThreads
  /\ stoppers \subseteq [job : byHotkey, step : {"parked", "sending"}]
  /\ started \in Nat /\ recording \in 0..started /\ byHotkey \subseteq 1..started
  /\ doomed \in [job : 0..started, at : Nat]
  /\ ended \in [job : Nat, limit : Nat]
  /\ arms \in Nat /\ passed \in Nat /\ armOf \subseteq [job : Nat, arm : 0..arms]
  /\ keysSeen \in Nat /\ others \in Nat /\ troubles \in Nat
  /\ disturbed \in BOOLEAN

\* The gate is closed exactly while one action runs or its completion waits in
\* the channel: a completion is never lost, which would silence the hotkey for
\* good, and two actions never read the phase at the same time.
GateIsHonest ==
  LET done == {i \in DOMAIN channel : channel[i].kind = "finished"}
  IN /\ gate.inFlight <=> workers # {} \/ done # {}
     /\ workers = {} \/ done = {}
     /\ \A v, w \in workers : v = w
     /\ \A i, j \in done : i = j
     /\ gate.pending # NoSignal => gate.inFlight

\* Hold mode: when nothing is under way and the hotkey is not held, no
\* recording that the hotkey started is left open, whatever was dropped or
\* queued while actions ran; unless there was trouble since the last rest.
HoldEndsWithRelease ==
  Quiet /\ ~disturbed /\ mode = "hold" /\ (\A d \in Devices : ~Held(d))
    => recording \notin byHotkey

\* Escape pressed in a recording, or while the hotkey was starting it, ends it
\* whatever is running, and no key seen after Escape makes it a stop, which
\* would transcribe and paste what the user cancelled.
CancelIsHonoured ==
  ~disturbed =>
    /\ Quiet => recording = 0 \/ recording # doomed.job
    /\ \A w \in workers :
         w.command = "stop" /\ recording = w.target /\ w.target = doomed.job
           => w.at < doomed.at

\* Toggle mode: a press seen before the start it belongs to was acknowledged,
\* or within the rearm delay after it, never becomes the stop of that recording.
BounceNeverStops ==
  \A w \in workers :
    w.mode = "toggle" /\ w.signal = "Pressed" /\ w.command = "stop" /\ w.target \in byHotkey
      => \A a \in armOf : a.job = w.target => w.seen >= a.arm

\* Again and again (MCProgress): a recording the hotkey started ends after the
\* maximum duration, whatever the keys do, unless a connection failed.
NoneRunsOn == recording \notin byHotkey \/ disturbed

\* Again and again: the hotkey is available, with no action under way.
GateIsOpen == ~gate.inFlight

\* hotkey_dispatch.rs:954, the name of a test: the maximum-duration stop never
\* targets a later recording.  The thread reads the phase in one request and
\* sends a stop that names no recording in the next.
StopIsPrecise == ended.limit \in {0, ended.job}
=============================================================================
