-------------------------- MODULE HotkeyDispatchProofs --------------------------
(***************************************************************************)
(* The inductive invariant behind the safety properties of HotkeyDispatch, *)
(* and its proof, for any keyboards, keys and bounds.  The properties say  *)
(* what holds once the channel and the gate are empty; the invariant says  *)
(* where the signal that will bring it about still waits: in the channel,  *)
(* in the gate or with the action thread, and in which order.              *)
(***************************************************************************)
EXTENDS HotkeyDispatch, TLAPS

IsSignal(i) == channel[i].kind = "signal"
IsDone(i) == channel[i].kind = "finished"
IsPress(i) == IsSignal(i) /\ channel[i].signal = "Pressed"
IsTerminal(i) == IsSignal(i) /\ channel[i].signal \in {"Released", "Cancelled"}
IsCancel(i) == IsSignal(i) /\ channel[i].signal = "Cancelled"

\* At most one action runs or has its completion in the channel, and the gate
\* is closed exactly then.
OneAction ==
  /\ gate.inFlight <=> workers # {} \/ \E i \in DOMAIN channel : IsDone(i)
  /\ workers = {} \/ \A i \in DOMAIN channel : ~IsDone(i)
  /\ \A v, w \in workers : v = w
  /\ \A i, j \in DOMAIN channel : IsDone(i) /\ IsDone(j) => i = j
  /\ gate.pending # NoSignal => gate.inFlight

\* What an action thread may send follows from the signal it runs for.
Obedient ==
  \A w \in workers :
    /\ w.signal = "Cancelled" => w.command \in {"connect", "cancel", "none"}
    /\ w.command = "stop" => w.target # 0

\* Signals are served in the order of their keys.
InOrder ==
  /\ \A i, j \in DOMAIN channel :
       i < j /\ IsSignal(i) /\ IsSignal(j) => channel[i].at < channel[j].at
  /\ \A i \in DOMAIN channel : IsSignal(i) => channel[i].at <= keysSeen
  /\ \A w \in workers :
       w.at <= keysSeen /\ \A i \in DOMAIN channel : IsSignal(i) => w.at < channel[i].at
  /\ gate.pending # NoSignal =>
       /\ gate.pending.at <= keysSeen
       /\ \A i \in DOMAIN channel : IsSignal(i) => gate.pending.at < channel[i].at
       /\ \A w \in workers : w.at < gate.pending.at

\* The gate knows the newest acknowledged start, or is about to be told.
Rearmed ==
  /\ \A i \in DOMAIN channel : IsDone(i) => channel[i].arm \in {0, arms}
  /\ gate.rearm = arms \/ \E i \in DOMAIN channel : IsDone(i) /\ channel[i].arm # 0
  /\ \A w \in workers : w.mode # "hold" /\ w.signal = "Pressed" => w.seen >= gate.rearm

\* The tracker takes the hotkey for held only while the keys it knows of, which
\* are held indeed, match; a listener that is gone left it let go.
Faithful(t) == t.matched => AnyMatches(t.pressed) /\ ~t.cancelled
Tracking ==
  /\ Faithful(tracker)
  /\ listening => \A d \in Devices : tracker.pressed[d] \subseteq held[d]
  /\ ~disturbed /\ ~listening => ~tracker.matched

\* In hold mode, once the hotkey is let go, a signal that ends the recording is
\* on its way, behind any press that might still open one.
EndComes ==
  \/ \E i \in DOMAIN channel : IsTerminal(i)
  \/ gate.pending # NoSignal
  \/ \E w \in workers : w.signal # "Pressed" /\ w.command \in {"connect", "stop", "cancel"}
NothingToEnd ==
  /\ recording \notin byHotkey
  /\ \A w \in workers :
       w.command # "start" /\ (w.signal = "Pressed" => w.command # "connect")
Presses == \A i \in DOMAIN channel :
             IsPress(i) => \E j \in DOMAIN channel : i < j /\ IsTerminal(j)
Ending ==
  /\ \A w \in workers : w.mode = mode
  /\ ~tracker.matched => Presses /\ (mode = "hold" => EndComes \/ NothingToEnd)
Holding == ~disturbed => Ending

\* A recording that Escape was pressed in, or while it was being started, has a
\* cancellation on its way, and none newer than the Escape that is recorded.
CancelWaits == (\E i \in DOMAIN channel : IsCancel(i)) \/ gate.pending.signal = "Cancelled"
NoneAfter(at) ==
  /\ \A i \in DOMAIN channel : IsCancel(i) => channel[i].at <= at
  /\ gate.pending.signal = "Cancelled" => gate.pending.at <= at
Opening(w) == w.escaped # 0 /\ w.command \in {"connect", "start"}
Cancelling ==
  /\ \A w \in workers : Opening(w) => CancelWaits /\ NoneAfter(w.escaped)
  /\ recording # 0 /\ recording = doomed.job =>
       /\ NoneAfter(doomed.at)
       /\ ~disturbed =>
            \/ CancelWaits
            \/ \E w \in workers : w.signal = "Cancelled" /\ w.command \in {"connect", "cancel"}

Inductive ==
  /\ TypeOK /\ OneAction /\ Obedient /\ InOrder /\ Rearmed
  /\ Tracking /\ Holding /\ Cancelling

-----------------------------------------------------------------------------
(* The channel: a sequence that grows at its end and is taken from its     *)
(* front.                                                                  *)

\* A message sent to the channel comes last and leaves the others where they are.
LEMMA Grows ==
  ASSUME channel \in Seq(Messages), NEW m \in Messages, channel' = Append(channel, m)
  PROVE  /\ channel' \in Seq(Messages)
         /\ \E n \in Nat :
              /\ DOMAIN channel' = DOMAIN channel \cup {n}
              /\ \A i \in DOMAIN channel : i \in Nat /\ i < n /\ channel'[i] = channel[i]
              /\ channel'[n] = m
<1>1. channel' \in Seq(Messages)
  OBVIOUS
<1>2. PICK n \in Nat : n = Len(channel) + 1
  OBVIOUS
<1>3. DOMAIN channel' = DOMAIN channel \cup {n}
  BY <1>2
<1>4. \A i \in DOMAIN channel : i \in Nat /\ i < n /\ channel'[i] = channel[i]
  BY <1>2
<1>5. channel'[n] = m
  BY <1>2
<1>6. QED
  BY <1>1, <1>3, <1>4, <1>5

\* Taking the first message moves every other one place forward.
LEMMA Shrinks ==
  ASSUME channel \in Seq(Messages), channel # <<>>, channel' = Tail(channel)
  PROVE  /\ channel' \in Seq(Messages)
         /\ 1 \in DOMAIN channel /\ channel[1] = Head(channel) /\ Head(channel) \in Messages
         /\ \A i \in DOMAIN channel' :
              i \in Nat /\ i + 1 \in DOMAIN channel /\ i + 1 > 1 /\ channel'[i] = channel[i + 1]
         /\ \A i \in DOMAIN channel : i # 1 => \E k \in DOMAIN channel' : i = k + 1
<1>1. /\ Len(channel) \in Nat /\ Len(channel) >= 1 /\ DOMAIN channel = 1..Len(channel)
      /\ Head(channel) = channel[1] /\ Head(channel) \in Messages /\ channel' \in Seq(Messages)
  OBVIOUS
<1>2. /\ DOMAIN channel' = 1..Len(channel) - 1
      /\ \A i \in DOMAIN channel' : channel'[i] = channel[i + 1]
  OBVIOUS
<1>3. \A i \in DOMAIN channel : i # 1 => i - 1 \in DOMAIN channel' /\ i = (i - 1) + 1
  BY <1>1, <1>2
<1>4. QED
  BY <1>1, <1>2, <1>3

-----------------------------------------------------------------------------
(* What a key event makes of the tracker.                                  *)

Result(r) ==
  /\ r.tracker \in Trackers /\ r.signal \in Signals \cup {"none"}
  /\ Faithful(r.tracker)
  /\ r.signal = "none" => r.tracker.matched = tracker.matched
  /\ r.signal = "Pressed" => r.tracker.matched
  /\ r.signal \in {"Released", "Cancelled"} => ~r.tracker.matched

\* A change of the pressed keys gives a well-formed tracker with at most one signal.
LEMMA TransitionResult ==
  ASSUME tracker \in Trackers, Faithful(tracker),
         NEW pressed \in [Devices -> SUBSET Keys]
  PROVE  /\ Result(Transition(tracker, pressed))
         /\ Transition(tracker, pressed).tracker.pressed = pressed
<1> DEFINE matches == AnyMatches(pressed)
<1>1. matches \in BOOLEAN
  BY DEF AnyMatches
<1> HIDE DEF matches
<1>2. CASE tracker.cancelled
  BY <1>1, <1>2 DEF Transition, Result, Faithful, Trackers, Signals, matches
<1>3. CASE ~tracker.cancelled
  BY <1>1, <1>3 DEF Transition, Result, Faithful, Trackers, Signals, matches
<1>4. QED
  BY <1>2, <1>3

\* A key event gives one, for the keys with that key pressed or released.
LEMMA KeyResult ==
  ASSUME tracker \in Trackers, Faithful(tracker),
         NEW d \in Devices, NEW key \in Keys, NEW down \in BOOLEAN, NEW fresh \in BOOLEAN
  PROVE  /\ Result(KeyInput(tracker, d, key, down, fresh))
         /\ KeyInput(tracker, d, key, down, fresh).tracker.pressed =
              [tracker.pressed EXCEPT ![d] = IF down THEN @ \cup {key} ELSE @ \ {key}]
<1> DEFINE pressed == [tracker.pressed EXCEPT ![d] = IF down THEN @ \cup {key} ELSE @ \ {key}]
<1>1. pressed \in [Devices -> SUBSET Keys]
  BY DEF Trackers
<1>2. CASE key = Escape /\ fresh
  BY <1>1, <1>2 DEF KeyInput, Result, Faithful, Trackers, Signals
<1>3. CASE ~(key = Escape /\ fresh)
  BY <1>1, <1>3, TransitionResult DEF KeyInput
<1>4. QED
  BY <1>2, <1>3

\* A removed keyboard gives one, for the keys without those of that keyboard.
LEMMA RemoveResult ==
  ASSUME tracker \in Trackers, Faithful(tracker), NEW d \in Devices
  PROVE  /\ Result(RemoveDevice(tracker, d))
         /\ RemoveDevice(tracker, d).tracker.pressed = [tracker.pressed EXCEPT ![d] = {}]
  BY TransitionResult DEF RemoveDevice, Trackers

-----------------------------------------------------------------------------
(* What the listener does to everything but the keys: at most one signal,  *)
(* at the end of the channel.                                              *)

Silent == UNCHANGED <<channel, workers, doomed>> /\ tracker'.matched = tracker.matched

Sends(m) ==
  /\ m.kind = "signal" /\ m.at = keysSeen'
  /\ channel' = Append(channel, m)
  /\ tracker'.matched = (m.signal = "Pressed")
  /\ m.signal # "Cancelled" => workers' = workers /\ doomed' = doomed
  /\ m.signal = "Cancelled" =>
       /\ workers' = {[w EXCEPT !.escaped = keysSeen'] : w \in workers}
       /\ doomed' = IF recording = 0 THEN doomed ELSE [job |-> recording, at |-> keysSeen']

Heard ==
  /\ keysSeen' = keysSeen + 1
  /\ UNCHANGED <<listening, mode, gate, stoppers, daemonVars, armVars, bounds>>
  /\ disturbed' \in BOOLEAN /\ (~disturbed' => ~disturbed \/ AtRest)
  /\ Silent \/ \E m \in Messages : Sends(m)

\* The signal of such a result, if there is one, is sent once.
LEMMA EmitHeard ==
  ASSUME NEW r, TypeOK, Result(r), keysSeen' = keysSeen + 1, Emit(r)
  PROVE  /\ tracker' = r.tracker
         /\ Silent \/ \E m \in Messages : Sends(m)
<1>1. tracker' = r.tracker
  BY DEF Emit
<1>2. CASE r.signal = "none"
  BY <1>2 DEF Emit, Silent, Result
<1>3. CASE r.signal # "none"
  <2> DEFINE m == [kind |-> "signal", signal |-> r.signal, seen |-> passed, at |-> keysSeen']
  <2>1. m \in Messages
    BY <1>3 DEF TypeOK, Result, Messages
  <2>2. channel' = Append(channel, m)
    BY <1>3 DEF Emit
  <2>3. tracker'.matched = (m.signal = "Pressed")
    BY <1>1, <1>3 DEF Result, Signals, Trackers
  <2>4. Sends(m)
    BY <2>2, <2>3 DEF Sends, Emit
  <2> HIDE DEF m
  <2>5. QED
    BY <1>1, <2>1, <2>4
<1>4. QED
  BY <1>1, <1>2, <1>3

\* A key event is heard, and keeps the tracker and the real keys in agreement.
LEMMA KeyHeard ==
  ASSUME TypeOK, Tracking, NEW d \in Devices, NEW key \in Keys,
         NEW down \in BOOLEAN, NEW fresh \in BOOLEAN, KeyEvent(d, key, down, fresh)
  PROVE  Heard /\ tracker' \in Trackers /\ held' \in [Devices -> SUBSET Keys] /\ Tracking'
<1> DEFINE r == KeyInput(tracker, d, key, down, fresh)
<1>1. /\ keysSeen' = keysSeen + 1
      /\ held' = [held EXCEPT ![d] = IF down THEN @ \cup {key} ELSE @ \ {key}]
      /\ listening' = listening /\ disturbed' = (disturbed /\ ~AtRest)
      /\ UNCHANGED <<mode, gate, stoppers, daemonVars, armVars, bounds>>
  BY DEF KeyEvent
<1>2. held' \in [Devices -> SUBSET Keys]
  BY <1>1 DEF TypeOK
<1>0. disturbed' \in BOOLEAN /\ (~disturbed' => ~disturbed \/ AtRest)
  BY <1>1
<1>3. CASE listening
  <2>1. Result(r) /\ r.tracker.pressed =
              [tracker.pressed EXCEPT ![d] = IF down THEN @ \cup {key} ELSE @ \ {key}]
    BY KeyResult DEF TypeOK, Tracking
  <2>2. Emit(r)
    BY <1>3 DEF KeyEvent
  <2>3. tracker' = r.tracker /\ (Silent \/ \E m \in Messages : Sends(m))
    BY <1>1, <2>1, <2>2, EmitHeard
  <2>4. \A e \in Devices : tracker'.pressed[e] \subseteq held'[e]
    BY <1>1, <1>3, <2>1, <2>3 DEF TypeOK, Tracking, Trackers
  <2>5. QED
    BY <1>0, <1>1, <1>2, <1>3, <2>1, <2>3, <2>4 DEF Heard, Result, Tracking
<1>4. CASE ~listening
  <2>1. UNCHANGED <<tracker, channel, workers, doomed>>
    BY <1>4 DEF KeyEvent
  <2>2. AtRest => ~AnyMatches(tracker.pressed)
    BY KeysAssumption DEF AtRest, AnyMatches, Matches
  <2>3. AnyMatches(tracker.pressed)' = AnyMatches(tracker.pressed)
    BY <2>1 DEF AnyMatches, Matches
  <2>4. Tracking'
    BY <1>0, <1>1, <1>4, <2>1, <2>2, <2>3 DEF Tracking, Faithful
  <2>5. QED
    BY <1>0, <1>1, <1>2, <2>1, <2>4 DEF Heard, Silent, TypeOK
<1>5. QED
  BY <1>3, <1>4 DEF TypeOK

\* So is a keyboard that is pulled out.
LEMMA UnplugHeard ==
  ASSUME TypeOK, Tracking, NEW d \in Devices, Unplug(d)
  PROVE  Heard /\ tracker' \in Trackers /\ held' \in [Devices -> SUBSET Keys] /\ Tracking'
<1> DEFINE r == RemoveDevice(tracker, d)
<1>1. /\ keysSeen' = keysSeen + 1 /\ listening
      /\ held' = [held EXCEPT ![d] = {}]
      /\ listening' = listening /\ disturbed' = disturbed
      /\ UNCHANGED <<mode, gate, stoppers, daemonVars, armVars, bounds>>
  BY DEF Unplug
<1>2. Result(r) /\ r.tracker.pressed = [tracker.pressed EXCEPT ![d] = {}]
  BY RemoveResult DEF TypeOK, Tracking
<1>3. tracker' = r.tracker /\ (Silent \/ \E m \in Messages : Sends(m))
  BY <1>1, <1>2, EmitHeard DEF Unplug
<1>4. \A e \in Devices : tracker'.pressed[e] \subseteq held'[e]
  BY <1>1, <1>2, <1>3 DEF TypeOK, Tracking, Trackers
<1>5. held' \in [Devices -> SUBSET Keys]
  BY <1>1 DEF TypeOK
<1>6. QED
  BY <1>1, <1>2, <1>3, <1>4, <1>5 DEF Heard, Result, Tracking, TypeOK

\* Whatever the keyboards do is heard, or lets the rearm time pass.
LEMMA InputHeard ==
  ASSUME TypeOK, Tracking, Input
  PROVE  \/ Heard /\ tracker' \in Trackers /\ held' \in [Devices -> SUBSET Keys] /\ Tracking'
         \/ RearmPasses
  BY KeyHeard, UnplugHeard DEF Input, Press, Release, Repeat

-----------------------------------------------------------------------------
(* The steps keep the types.                                               *)

\* The thread that takes the place of another is well typed.
LEMMA ReplaceTyped ==
  ASSUME TypeOK, NEW w \in workers, NEW new \in ActionThreads, Replace(w, new)
  PROVE  workers' \subseteq ActionThreads
  BY DEF Replace, TypeOK

\* The channel stays well typed when an action finishes.
LEMMA FinishedTyped ==
  ASSUME TypeOK, NEW arm \in Nat
  PROVE  Finished(arm) \in Seq(Messages)
  BY DEF Finished, TypeOK, Messages

\* The thread started for a signal is well typed.
LEMMA WorkerTyped ==
  ASSUME TypeOK, NEW event \in [signal : Signals, seen : Nat, at : Nat]
  PROVE  Worker(event) \in ActionThreads
  BY DEF Worker, TypeOK, ActionThreads, Commands

\* Every step of the dispatch keeps the types.
LEMMA TypedStep == TypeOK /\ Tracking /\ [Next]_vars => TypeOK'
<1> SUFFICES ASSUME TypeOK, Tracking, [Next]_vars PROVE TypeOK'
  OBVIOUS
<1> USE DEF inputVars, daemonVars, armVars, bounds
<1>1. CASE Heard /\ tracker' \in Trackers /\ held' \in [Devices -> SUBSET Keys]
  <2>1. CASE Silent
    BY <1>1, <2>1 DEF Heard, Silent, TypeOK
  <2>2. ASSUME NEW m \in Messages, Sends(m) PROVE TypeOK'
    <3>1. channel' \in Seq(Messages)
      BY <2>2, Grows DEF Sends, TypeOK
    <3>2. keysSeen' \in Nat /\ disturbed' \in BOOLEAN
      BY <1>1 DEF Heard, TypeOK
    <3>3. \A w \in ActionThreads : [w EXCEPT !.escaped = keysSeen'] \in ActionThreads
      BY <3>2 DEF ActionThreads
    <3>4. workers' \subseteq ActionThreads
      BY <2>2, <3>3 DEF Sends, TypeOK
    <3>5. doomed' \in [job : 0..started, at : Nat]
      BY <2>2, <3>2 DEF Sends, TypeOK
    <3>6. QED
      BY <1>1, <3>1, <3>2, <3>4, <3>5 DEF Heard, TypeOK
  <2>3. QED
    BY <1>1, <2>1, <2>2 DEF Heard
<1>2. CASE RearmPasses
  BY <1>2 DEF RearmPasses, TypeOK
<1>3. CASE TakeSignal
  <2> DEFINE event == [signal |-> Head(channel).signal, seen |-> Head(channel).seen,
                       at |-> Head(channel).at]
  <2>1. Head(channel) \in Messages /\ Head(channel).kind = "signal" /\ Tail(channel) \in Seq(Messages)
    BY <1>3, Shrinks DEF TakeSignal, TypeOK
  <2>2. event \in [signal : Signals, seen : Nat, at : Nat]
    BY <2>1 DEF Messages
  <2>3. Queues(event) => event \in Terminals
    BY <2>2 DEF Queues, Terminals
  <2>4. workers' \subseteq workers \cup {Worker(event)}
        /\ gate' \in [inFlight : BOOLEAN, pending : {NoSignal} \cup Terminals, rearm : Nat]
    BY <1>3, <2>3 DEF TakeSignal, TypeOK
  <2>5. QED
    BY <1>3, <2>1, <2>2, <2>4, WorkerTyped DEF TakeSignal, TypeOK
<1>4. CASE TakeFinished
  <2>1. Head(channel) \in Messages /\ Head(channel).kind = "finished" /\ Tail(channel) \in Seq(Messages)
    BY <1>4, Shrinks DEF TakeFinished, TypeOK
  <2>2. Head(channel).arm \in Nat
    BY <2>1 DEF Messages
  <2>3. gate.pending # NoSignal => Worker(gate.pending) \in ActionThreads
    BY WorkerTyped DEF TypeOK, Terminals, Signals
  <2>4. workers' \subseteq ActionThreads
    BY <1>4, <2>3 DEF TakeFinished, TypeOK
  <2>5. gate' \in [inFlight : BOOLEAN, pending : {NoSignal} \cup Terminals, rearm : Nat]
    BY <1>4, <2>2 DEF TakeFinished, TypeOK
  <2>6. QED
    BY <1>4, <2>1, <2>4, <2>5 DEF TakeFinished, TypeOK
<1>5. ASSUME NEW w \in workers, Connect(w) PROVE TypeOK'
  <2>1. /\ \A c \in Commands, t \in Nat : [w EXCEPT !.command = c, !.target = t] \in ActionThreads
        /\ \A c \in Commands : [w EXCEPT !.command = c] \in ActionThreads
    BY DEF TypeOK, ActionThreads
  <2>2. CommandForHotkey(w.mode, w.signal, recording # 0) \in Commands
    BY DEF CommandForHotkey, Commands
  <2>3. recording \in Nat /\ "none" \in Commands
    BY DEF TypeOK, Commands
  <2>4. workers' \subseteq ActionThreads
    BY <1>5, <2>1, <2>2, <2>3, ReplaceTyped DEF Connect
  <2>5. QED
    BY <1>5, <2>4 DEF Connect, TypeOK
<1>6. ASSUME NEW w \in workers, SendStart(w) PROVE TypeOK'
  <2>0. w \in ActionThreads /\ started + 1 \in Nat
    BY DEF TypeOK
  <2>1. /\ \A t \in Nat : [w EXCEPT !.command = "started", !.target = t] \in ActionThreads
        /\ [w EXCEPT !.command = "none"] \in ActionThreads
    BY <2>0 DEF ActionThreads, Commands
  <2>2. workers' \subseteq ActionThreads
    BY <1>6, <2>0, <2>1, ReplaceTyped DEF SendStart
  <2>3. w.escaped \in Nat
    BY DEF TypeOK, ActionThreads
  <2>4. CASE UNCHANGED <<started, recording, byHotkey, stoppers, doomed>>
    BY <1>6, <2>2, <2>4 DEF SendStart, TypeOK
  <2>5. CASE /\ recording = 0
             /\ started' = started + 1 /\ recording' = started'
             /\ byHotkey' = byHotkey \cup {started'}
             /\ stoppers' = stoppers \cup {[job |-> started', step |-> "parked"]}
             /\ doomed' = IF w.escaped = 0 THEN doomed
                          ELSE [job |-> started', at |-> w.escaped]
    <3>1. started' \in Nat /\ recording' \in 0..started' /\ byHotkey' \subseteq 1..started'
      BY <2>5 DEF TypeOK
    <3>2. stoppers' \subseteq [job : byHotkey', step : {"parked", "sending"}]
      BY <2>5 DEF TypeOK
    <3>3. doomed' \in [job : 0..started', at : Nat]
      BY <2>3, <2>5 DEF TypeOK
    <3>4. QED
      BY <1>6, <2>2, <3>1, <3>2, <3>3 DEF SendStart, TypeOK
  <2>6. QED
    BY <1>6, <2>4, <2>5 DEF SendStart
<1>7. ASSUME NEW w \in workers, SendEnd(w) PROVE TypeOK'
  <2>1. [w EXCEPT !.command = "none"] \in ActionThreads
    BY DEF TypeOK, ActionThreads, Commands
  <2>2. workers' \subseteq ActionThreads
    BY <1>7, <2>1, ReplaceTyped DEF SendEnd
  <2>3. QED
    BY <1>7, <2>2 DEF SendEnd, TypeOK
<1>8. ASSUME NEW w \in workers, Finish(w) PROVE TypeOK'
  <2>1. w.target \in Nat
    BY DEF TypeOK, ActionThreads
  <2>2. CASE w.command = "started" /\ w.mode # "hold"
    <3>1. channel' \in Seq(Messages)
      BY <1>8, <2>2, FinishedTyped DEF Finish, TypeOK
    <3>2. arms' \in Nat /\ armOf' \subseteq [job : Nat, arm : 0..arms']
      BY <1>8, <2>1, <2>2 DEF Finish, TypeOK
    <3>3. QED
      BY <1>8, <3>1, <3>2 DEF Finish, TypeOK
  <2>3. CASE ~(w.command = "started" /\ w.mode # "hold")
    <3>1. channel' \in Seq(Messages)
      BY <1>8, <2>3, FinishedTyped DEF Finish
    <3>2. QED
      BY <1>8, <2>3, <3>1 DEF Finish, TypeOK
  <2>4. QED
    BY <2>2, <2>3
<1>9. ASSUME NEW t \in stoppers, StopperWakes(t) \/ StopperSends(t) \/ StopperFails(t)
      PROVE  TypeOK'
  <2>1. PICK j \in byHotkey, s \in {"parked", "sending"} : t = [job |-> j, step |-> s]
    BY DEF TypeOK
  <2>0. /\ [t EXCEPT !.step = "sending"] \in [job : byHotkey, step : {"parked", "sending"}]
        /\ t.job \in byHotkey
    BY <2>1
  <2>2. QED
    <3>1. CASE StopperWakes(t)
      <4>1. stoppers' \subseteq [job : byHotkey, step : {"parked", "sending"}]
        BY <2>0, <3>1 DEF StopperWakes, TypeOK
      <4>2. UNCHANGED <<inputVars, channel, mode, gate, workers, daemonVars, armVars,
                        bounds, doomed, disturbed>>
        BY <3>1 DEF StopperWakes
      <4>3. QED
        BY <4>1, <4>2 DEF TypeOK
    <3>2. CASE StopperSends(t)
      <4>1. /\ recording' \in 0..started' /\ started' = started
            /\ stoppers' \subseteq stoppers /\ byHotkey' = byHotkey
        BY <3>2 DEF StopperSends, daemonVars, TypeOK
      <4>2. ended' \in [job : Nat, limit : Nat]
        <5>1. recording \in Nat /\ t.job \in Nat /\ ended \in [job : Nat, limit : Nat]
          BY <2>0 DEF TypeOK
        <5>2. ended' = ended \/ ended' = [job |-> recording, limit |-> t.job]
          BY <3>2 DEF StopperSends
        <5>3. QED
          BY <5>1, <5>2
      <4>3. UNCHANGED <<inputVars, channel, mode, gate, workers, armVars, bounds,
                        doomed, disturbed>>
        BY <3>2 DEF StopperSends
      <4>4. QED
        BY <4>1, <4>2, <4>3 DEF TypeOK
    <3>3. CASE StopperFails(t)
      BY <3>3 DEF StopperFails, Trouble, TypeOK
    <3>4. QED
      BY <1>9, <3>1, <3>2, <3>3
<1>10. CASE OtherClient
  BY <1>10 DEF OtherClient, TypeOK
<1>11. CASE Reconfigure \/ SetMode \/ ListenerCloses \/ ListenerRecovers
  <2>1. NewTracker \in Trackers
    BY DEF NewTracker, Trackers
  <2>2. QED
    <3>1. CASE Reconfigure
      <4>1. disturbed' \in BOOLEAN
        BY <3>1 DEF Reconfigure
      <4>2. QED
        BY <2>1, <3>1, <4>1 DEF Reconfigure, Trouble, TypeOK
    <3>2. CASE SetMode
      <4>1. disturbed' \in BOOLEAN
        BY <3>2 DEF SetMode
      <4>2. QED
        BY <3>2, <4>1 DEF SetMode, Trouble, TypeOK
    <3>3. CASE ListenerCloses
      <4>1. disturbed' \in BOOLEAN /\ listening' \in BOOLEAN
        BY <3>3 DEF ListenerCloses
      <4>2. others' \in Nat /\ troubles' \in Nat
        BY <3>3 DEF ListenerCloses, Trouble, TypeOK
      <4>3. QED
        BY <3>3, <4>1, <4>2 DEF ListenerCloses, TypeOK
    <3>4. CASE ListenerRecovers
      BY <2>1, <3>4 DEF ListenerRecovers, TypeOK
    <3>5. QED
      BY <1>11, <3>1, <3>2, <3>3, <3>4
<1>12. ASSUME NEW w \in workers, WorkerFails(w) PROVE TypeOK'
  <2>1. [w EXCEPT !.command = "none"] \in ActionThreads
    BY DEF TypeOK, ActionThreads, Commands
  <2>2. workers' \subseteq ActionThreads
    BY <1>12, <2>1, ReplaceTyped DEF WorkerFails
  <2>3. /\ troubles' = troubles + 1 /\ others' = others /\ disturbed' = TRUE
        /\ UNCHANGED <<inputVars, channel, mode, gate, stoppers, daemonVars, armVars, doomed>>
    BY <1>12 DEF WorkerFails, Trouble
  <2>4. troubles' \in Nat
    BY <2>3 DEF TypeOK
  <2>5. QED
    BY <2>2, <2>3, <2>4 DEF TypeOK, inputVars, daemonVars, armVars
<1>13. CASE UNCHANGED vars
  BY <1>13 DEF vars, TypeOK
<1>14. QED
  BY <1>1, <1>2, <1>3, <1>4, <1>5, <1>6, <1>7, <1>8, <1>9, <1>10, <1>11, <1>12, <1>13,
     InputHeard DEF Next, Dispatch, Environment, Work

-----------------------------------------------------------------------------
(* One action at a time.                                                   *)

\* The steps that change nothing of what is between the keys and the daemon.
Idle == UNCHANGED <<channel, gate, workers>>

\* While an action runs it is the only one, and none has reported its end.
LEMMA OnlyAction ==
  ASSUME OneAction, NEW w \in workers
  PROVE  /\ workers = {w} /\ gate.inFlight
         /\ \A i \in DOMAIN channel : ~IsDone(i)
  BY DEF OneAction

\* Replacing the action thread leaves it the only one.
LEMMA Replaced ==
  ASSUME OneAction, NEW w \in workers, NEW new, Replace(w, new),
         channel' = channel, gate' = gate
  PROVE  OneAction' /\ workers' = {new}
<1>1. workers' = {new}
  BY OnlyAction DEF Replace
<1>2. QED
  BY <1>1, OnlyAction DEF OneAction, IsDone

\* An action that finishes sends its one completion, which tells of the start it had
\* acknowledged.
LEMMA FinishGrows ==
  ASSUME TypeOK, OneAction, NEW w \in workers, Finish(w)
  PROVE  /\ workers' = {} /\ gate' = gate
         /\ \A i \in DOMAIN channel : ~IsDone(i)
         /\ \E n \in Nat :
              /\ DOMAIN channel' = DOMAIN channel \cup {n}
              /\ \A i \in DOMAIN channel : i \in Nat /\ i < n /\ channel'[i] = channel[i]
              /\ channel'[n].kind = "finished"
              /\ \/ channel'[n].arm = 0 /\ arms' = arms
                 \/ channel'[n].arm = arms' /\ arms' = arms + 1
<1>1. PICK arm \in Nat :
        /\ channel' = Append(channel, [kind |-> "finished", arm |-> arm])
        /\ \/ arm = 0 /\ arms' = arms
           \/ arm = arms' /\ arms' = arms + 1
  <2>1. arms \in Nat /\ arms + 1 \in Nat /\ 0 \in Nat
    BY DEF TypeOK
  <2>2. CASE w.command = "started" /\ w.mode # "hold"
    BY <2>1, <2>2 DEF Finish, Finished
  <2>3. CASE ~(w.command = "started" /\ w.mode # "hold")
    BY <2>1, <2>3 DEF Finish, Finished
  <2>4. QED
    BY <2>2, <2>3
<1>2. [kind |-> "finished", arm |-> arm] \in Messages
  BY DEF Messages
<1>3. PICK n \in Nat :
        /\ DOMAIN channel' = DOMAIN channel \cup {n}
        /\ \A i \in DOMAIN channel : i \in Nat /\ i < n /\ channel'[i] = channel[i]
        /\ channel'[n] = [kind |-> "finished", arm |-> arm]
  <2>1. channel \in Seq(Messages)
    BY DEF TypeOK
  <2>2. QED
    BY <1>1, <1>2, <2>1, Grows
<1>4. workers' = {} /\ gate' = gate /\ \A i \in DOMAIN channel : ~IsDone(i)
  BY OnlyAction DEF Finish
<1>5. QED
  BY <1>1, <1>3, <1>4

\* Every step keeps the gate closed exactly while one action is under way.
LEMMA OneActionStep == TypeOK /\ Tracking /\ OneAction /\ [Next]_vars => OneAction'
<1> SUFFICES ASSUME TypeOK, Tracking, OneAction, [Next]_vars PROVE OneAction'
  OBVIOUS
<1> USE DEF inputVars, daemonVars, armVars, bounds
<1>1. CASE Heard
  <2>1. CASE Silent
    BY <1>1, <2>1 DEF Heard, Silent, OneAction, IsDone
  <2>2. ASSUME NEW m \in Messages, Sends(m) PROVE OneAction'
    <3>1. PICK n \in Nat :
            /\ DOMAIN channel' = DOMAIN channel \cup {n}
            /\ \A i \in DOMAIN channel : i \in Nat /\ i < n /\ channel'[i] = channel[i]
            /\ channel'[n] = m
      BY <2>2, Grows DEF Sends, TypeOK
    <3>2. /\ \A i \in DOMAIN channel : i \in DOMAIN channel' /\ (IsDone(i)' <=> IsDone(i))
          /\ \A i \in DOMAIN channel' : IsDone(i)' => i \in DOMAIN channel
      BY <2>2, <3>1 DEF IsDone, Sends
    <3>3. /\ workers = {} <=> workers' = {}
          /\ (\A v, w \in workers : v = w) => \A v, w \in workers' : v = w
      BY <2>2 DEF Sends
    <3>4. gate' = gate
      BY <1>1 DEF Heard
    <3>5. QED
      BY <3>2, <3>3, <3>4 DEF OneAction
  <2>3. QED
    BY <1>1, <2>1, <2>2 DEF Heard
<1>2. CASE TakeSignal
  <2> DEFINE event == [signal |-> Head(channel).signal, seen |-> Head(channel).seen,
                       at |-> Head(channel).at]
  <2>1. /\ 1 \in DOMAIN channel /\ ~IsDone(1)
        /\ \A i \in DOMAIN channel' :
             i \in Nat /\ i + 1 \in DOMAIN channel /\ (IsDone(i)' <=> IsDone(i + 1))
        /\ \A i \in DOMAIN channel : i # 1 => \E k \in DOMAIN channel' : i = k + 1
    BY <1>2, Shrinks DEF TakeSignal, TypeOK, IsDone
  <2>2. (\E i \in DOMAIN channel' : IsDone(i)') <=> \E i \in DOMAIN channel : IsDone(i)
    BY <2>1
  <2>3. \A i, j \in DOMAIN channel' : IsDone(i)' /\ IsDone(j)' => i = j
    <3>1. \A i, j \in DOMAIN channel' : i + 1 = j + 1 => i = j
      BY <2>1
    <3>2. QED
      BY <2>1, <3>1 DEF OneAction
  <2>4. CASE /\ Accepts(event)
             /\ gate' = [gate EXCEPT !.inFlight = TRUE]
             /\ workers' = workers \cup {Worker(event)}
    <3>1. workers = {} /\ (\A i \in DOMAIN channel : ~IsDone(i))
      BY <2>4 DEF Accepts, OneAction
    <3>2. gate'.inFlight
      BY <2>4 DEF TypeOK
    <3>3. QED
      BY <2>2, <2>3, <2>4, <3>1, <3>2 DEF OneAction
  <2>5. CASE Queues(event) /\ gate' = [gate EXCEPT !.pending = event] /\ UNCHANGED workers
    <3>1. gate'.inFlight /\ gate.inFlight
      BY <2>5 DEF TypeOK, Queues
    <3>2. QED
      BY <2>2, <2>3, <2>5, <3>1 DEF OneAction
  <2>6. CASE UNCHANGED <<gate, workers>>
    BY <2>2, <2>3, <2>6 DEF OneAction
  <2>7. QED
    BY <1>2, <2>4, <2>5, <2>6 DEF TakeSignal
<1>3. CASE TakeFinished
  <2>1. /\ 1 \in DOMAIN channel /\ IsDone(1)
        /\ \A i \in DOMAIN channel' :
             /\ i \in Nat /\ i + 1 \in DOMAIN channel /\ i + 1 # 1
             /\ channel'[i] = channel[i + 1]
    BY <1>3, Shrinks DEF TakeFinished, TypeOK, IsDone
  <2>2. workers = {} /\ \A i \in DOMAIN channel' : ~IsDone(i)'
    BY <2>1 DEF OneAction, IsDone
  <2>3. /\ gate'.inFlight = (gate.pending # NoSignal) /\ gate'.pending = NoSignal
        /\ workers' = IF gate.pending = NoSignal THEN {} ELSE {Worker(gate.pending)}
    BY <1>3, <2>2 DEF TakeFinished
  <2>4. QED
    BY <2>2, <2>3 DEF OneAction
<1>4. ASSUME NEW w \in workers, Connect(w) \/ SendStart(w) \/ SendEnd(w) \/ WorkerFails(w)
      PROVE  OneAction'
  <2>1. channel' = channel /\ gate' = gate /\ \E new : Replace(w, new)
    BY <1>4 DEF Connect, SendStart, SendEnd, WorkerFails
  <2>2. QED
    BY <2>1, Replaced
<1>5. ASSUME NEW w \in workers, Finish(w) PROVE OneAction'
  <2>1. PICK n \in Nat :
          /\ DOMAIN channel' = DOMAIN channel \cup {n}
          /\ \A i \in DOMAIN channel : i \in Nat /\ i < n /\ channel'[i] = channel[i]
          /\ channel'[n].kind = "finished"
    BY <1>5, FinishGrows
  <2>2. workers' = {} /\ gate' = gate /\ gate.inFlight /\ \A i \in DOMAIN channel : ~IsDone(i)
    BY <1>5, FinishGrows, OnlyAction
  <2>3. n \in DOMAIN channel' /\ IsDone(n)' /\ \A i \in DOMAIN channel' : IsDone(i)' => i = n
    BY <2>1, <2>2 DEF IsDone
  <2>4. QED
    BY <2>2, <2>3 DEF OneAction
<1>6. CASE Idle
  BY <1>6 DEF Idle, OneAction, IsDone
<1>7. QED
  BY <1>1, <1>2, <1>3, <1>4, <1>5, <1>6, InputHeard
     DEF Next, Dispatch, Environment, Work, Idle, RearmPasses, StopperWakes, StopperSends,
         StopperFails, OtherClient, Reconfigure, SetMode, ListenerCloses, ListenerRecovers, vars

\* What TakeSignal does with the signal at the front.
LEMMA SignalTaken ==
  ASSUME TypeOK, OneAction, TakeSignal
  PROVE  \E event \in [signal : Signals, seen : Nat, at : Nat] :
           /\ event.signal = channel[1].signal /\ event.at = channel[1].at
           /\ event.seen = channel[1].seen /\ IsSignal(1)
           /\ \/ /\ Accepts(event) /\ workers = {} /\ workers' = {Worker(event)}
                 /\ gate' = [gate EXCEPT !.inFlight = TRUE]
                 /\ gate.pending = NoSignal /\ \A i \in DOMAIN channel : ~IsDone(i)
              \/ /\ Queues(event) /\ event \in Terminals /\ workers' = workers
                 /\ gate' = [gate EXCEPT !.pending = event]
              \/ ~Accepts(event) /\ ~Queues(event) /\ UNCHANGED <<gate, workers>>
<1> DEFINE event == [signal |-> Head(channel).signal, seen |-> Head(channel).seen,
                     at |-> Head(channel).at]
<1>1. /\ Head(channel) = channel[1] /\ Head(channel) \in Messages
      /\ Head(channel).kind = "signal"
  BY Shrinks DEF TakeSignal, TypeOK
<1>2. event \in [signal : Signals, seen : Nat, at : Nat]
  BY <1>1 DEF Messages
<1>3. Accepts(event) =>
        workers = {} /\ gate.pending = NoSignal /\ \A i \in DOMAIN channel : ~IsDone(i)
  BY DEF Accepts, OneAction
<1>4. Queues(event) => event \in Terminals
  BY <1>2 DEF Queues, Terminals
<1>5. QED
  <2>1. event.signal = channel[1].signal /\ event.at = channel[1].at
        /\ event.seen = channel[1].seen /\ IsSignal(1)
    BY <1>1 DEF IsSignal
  <2>2. \/ Accepts(event) /\ gate' = [gate EXCEPT !.inFlight = TRUE]
             /\ workers' = workers \cup {Worker(event)}
        \/ Queues(event) /\ gate' = [gate EXCEPT !.pending = event] /\ UNCHANGED workers
        \/ ~Accepts(event) /\ ~Queues(event) /\ UNCHANGED <<gate, workers>>
    BY DEF TakeSignal
  <2> HIDE DEF event
  <2>3. QED
    BY <1>2, <1>3, <1>4, <2>1, <2>2

\* A completion opens the gate or starts the signal that waited.
LEMMA FinishedTaken ==
  ASSUME TypeOK, OneAction, TakeFinished
  PROVE  /\ workers = {} /\ IsDone(1)
         /\ \A i \in DOMAIN channel' : ~IsDone(i)'
         /\ gate'.pending = NoSignal
         /\ gate'.rearm = IF channel[1].arm = 0 THEN gate.rearm ELSE channel[1].arm
         /\ workers' = IF gate.pending = NoSignal THEN {} ELSE {Worker(gate.pending)}
<1>1. /\ 1 \in DOMAIN channel /\ IsDone(1) /\ Head(channel) = channel[1]
      /\ \A i \in DOMAIN channel' :
           /\ i \in Nat /\ i + 1 \in DOMAIN channel /\ i + 1 # 1
           /\ channel'[i] = channel[i + 1]
  BY Shrinks DEF TakeFinished, TypeOK, IsDone
<1>2. workers = {} /\ \A i \in DOMAIN channel' : ~IsDone(i)'
  BY <1>1 DEF OneAction, IsDone
<1>3. QED
  BY <1>1, <1>2 DEF TakeFinished

\* A thread that goes on keeps its signal, and touches neither channel nor gate.
Same(new, w) ==
  /\ new.signal = w.signal /\ new.seen = w.seen /\ new.at = w.at
  /\ new.mode = w.mode /\ new.escaped = w.escaped

\* A thread that moves to its next command keeps its signal, mode and time.
LEMMA GoesOn ==
  ASSUME NEW w \in ActionThreads, NEW command \in Commands
  PROVE  /\ [w EXCEPT !.command = command] \in ActionThreads
         /\ Same([w EXCEPT !.command = command], w)
         /\ [w EXCEPT !.command = command].command = command
  BY DEF ActionThreads, Same

\* The daemon's state decides the command a thread goes on with.
LEMMA ConnectGoesOn ==
  ASSUME TypeOK, OneAction, NEW w \in workers, Connect(w)
  PROVE  /\ w.command = "connect" /\ OneAction'
         /\ UNCHANGED <<inputVars, channel, mode, gate, stoppers, daemonVars, armVars, doomed, disturbed>>
         /\ \E new \in ActionThreads :
              /\ workers' = {new} /\ Same(new, w)
              /\ \/ /\ new.command = CommandForHotkey(w.mode, w.signal, recording # 0)
                    /\ new.target = recording
                 \/ new.command = "none" /\ w.signal = "Pressed" /\ recording = 0
<1>1. w \in ActionThreads /\ recording \in Nat
  BY DEF TypeOK
<1>2. CommandForHotkey(w.mode, w.signal, recording # 0) \in Commands /\ "none" \in Commands
  BY DEF CommandForHotkey, Commands
<1>0. /\ w.command = "connect" /\ channel' = channel /\ gate' = gate
      /\ UNCHANGED <<inputVars, channel, mode, gate, stoppers, daemonVars, armVars, doomed,
                     disturbed>>
  BY DEF Connect
<1>3. CASE Replace(w, [w EXCEPT !.command = CommandForHotkey(w.mode, w.signal, recording # 0),
                                !.target = recording])
  <2> DEFINE command == CommandForHotkey(w.mode, w.signal, recording # 0)
             new == [w EXCEPT !.command = command, !.target = recording]
  <2>1. new \in ActionThreads /\ Same(new, w) /\ new.command = command /\ new.target = recording
    <3>1. command \in Commands
      BY <1>2
    <3> HIDE DEF command
    <3>2. QED
      BY <1>1, <3>1 DEF ActionThreads, Same
  <2>2. OneAction' /\ workers' = {new}
    BY <1>0, <1>3, Replaced
  <2> HIDE DEF new
  <2>3. QED
    BY <1>0, <2>1, <2>2
<1>4. CASE /\ w.signal = "Pressed" /\ recording = 0
           /\ Replace(w, [w EXCEPT !.command = "none"])
  <2> DEFINE new == [w EXCEPT !.command = "none"]
  <2>1. new \in ActionThreads /\ Same(new, w) /\ new.command = "none"
    BY <1>1, <1>2, GoesOn
  <2>2. OneAction' /\ workers' = {new}
    BY <1>0, <1>4, Replaced
  <2> HIDE DEF new
  <2>3. QED
    BY <1>0, <1>4, <2>1, <2>2
<1>5. QED
  BY <1>3, <1>4 DEF Connect

\* A start begins a recording, which an Escape already pressed dooms, or is refused.
LEMMA StartGoesOn ==
  ASSUME TypeOK, OneAction, NEW w \in workers, SendStart(w)
  PROVE  /\ w.command = "start" /\ OneAction'
         /\ UNCHANGED <<inputVars, channel, mode, gate, ended, armVars, disturbed>>
         /\ \E new \in ActionThreads :
              /\ workers' = {new} /\ Same(new, w)
              /\ \/ /\ recording = 0 /\ new.command = "started" /\ new.target = started'
                    /\ started' = started + 1 /\ recording' = started'
                    /\ byHotkey' = byHotkey \cup {started'}
                    /\ doomed' = IF w.escaped = 0 THEN doomed
                                 ELSE [job |-> started', at |-> w.escaped]
                 \/ new.command = "none" /\ UNCHANGED <<started, recording, byHotkey, doomed>>
<1>1. w \in ActionThreads /\ started + 1 \in Nat /\ {"none", "started"} \subseteq Commands
  BY DEF TypeOK, Commands
<1>0. /\ w.command = "start" /\ channel' = channel /\ gate' = gate
      /\ UNCHANGED <<inputVars, channel, mode, gate, ended, armVars, disturbed>>
  BY DEF SendStart
<1>2. CASE /\ recording = 0
           /\ started' = started + 1 /\ recording' = started'
           /\ byHotkey' = byHotkey \cup {started'}
           /\ doomed' = IF w.escaped = 0 THEN doomed
                        ELSE [job |-> started', at |-> w.escaped]
           /\ Replace(w, [w EXCEPT !.command = "started", !.target = started'])
  <2>1. PICK target \in Nat : target = started'
    BY <1>1, <1>2
  <2> DEFINE new == [w EXCEPT !.command = "started", !.target = target]
  <2>2. new \in ActionThreads /\ Same(new, w) /\ new.command = "started" /\ new.target = target
    BY <1>1 DEF ActionThreads, Same
  <2>3. OneAction' /\ workers' = {new}
    BY <1>0, <1>2, <2>1, Replaced
  <2> HIDE DEF new
  <2>4. QED
    BY <1>0, <1>2, <2>1, <2>2, <2>3
<1>3. CASE Replace(w, [w EXCEPT !.command = "none"])
           /\ UNCHANGED <<started, recording, byHotkey, stoppers, doomed>>
  <2> DEFINE new == [w EXCEPT !.command = "none"]
  <2>1. new \in ActionThreads /\ Same(new, w) /\ new.command = "none"
    BY <1>1, GoesOn
  <2>2. OneAction' /\ workers' = {new}
    BY <1>0, <1>3, Replaced
  <2> HIDE DEF new
  <2>3. QED
    BY <1>0, <1>3, <2>1, <2>2
<1>4. QED
  BY <1>2, <1>3 DEF SendStart

\* A stop or a cancel ends the recording, unless the daemon was disturbed.
LEMMA EndGoesOn ==
  ASSUME TypeOK, OneAction, NEW w \in workers, SendEnd(w) \/ WorkerFails(w)
  PROVE  /\ OneAction'
         /\ UNCHANGED <<inputVars, channel, mode, gate, stoppers, started, byHotkey, armVars, doomed>>
         /\ \/ recording' = 0 /\ disturbed' = disturbed
            \/ recording' = recording /\ disturbed'
         /\ \E new \in ActionThreads :
              workers' = {new} /\ Same(new, w) /\ new.command = "none"
<1>1. w \in ActionThreads /\ "none" \in Commands
  BY DEF TypeOK, Commands
<1>2. /\ channel' = channel /\ gate' = gate /\ Replace(w, [w EXCEPT !.command = "none"])
      /\ UNCHANGED <<inputVars, channel, mode, gate, stoppers, started, byHotkey, armVars, doomed>>
      /\ \/ recording' = 0 /\ disturbed' = disturbed
         \/ recording' = recording /\ disturbed'
  BY DEF SendEnd, WorkerFails, daemonVars
<1> DEFINE new == [w EXCEPT !.command = "none"]
<1>3. new \in ActionThreads /\ Same(new, w) /\ new.command = "none"
  BY <1>1, GoesOn
<1>4. OneAction' /\ workers' = {new}
  BY <1>2, Replaced
<1> HIDE DEF new
<1>5. QED
  BY <1>2, <1>3, <1>4

-----------------------------------------------------------------------------
(* Signals are served in order.                                            *)

\* Every step serves the signals in the order of their keys.
LEMMA InOrderStep == TypeOK /\ Tracking /\ OneAction /\ InOrder /\ [Next]_vars => InOrder'
<1> SUFFICES ASSUME TypeOK, Tracking, OneAction, InOrder, [Next]_vars PROVE InOrder'
  OBVIOUS
<1> USE DEF inputVars, daemonVars, armVars, bounds
<1>0. /\ keysSeen \in Nat
      /\ \A i \in DOMAIN channel : i \in Nat /\ (IsSignal(i) => channel[i].at \in Nat)
      /\ \A w \in workers : w.at \in Nat
      /\ gate.pending # NoSignal => gate.pending.at \in Nat
  BY DEF TypeOK, Messages, ActionThreads, Terminals, IsSignal
<1>1. CASE Heard
  <2>1. CASE Silent
    BY <1>0, <1>1, <2>1 DEF Heard, Silent, InOrder, IsSignal
  <2>2. ASSUME NEW m \in Messages, Sends(m) PROVE InOrder'
    <3>1. PICK n \in Nat :
            /\ DOMAIN channel' = DOMAIN channel \cup {n}
            /\ \A i \in DOMAIN channel : i \in Nat /\ i < n /\ channel'[i] = channel[i]
            /\ channel'[n] = m
      BY <2>2, Grows DEF Sends, TypeOK
    <3>2. gate' = gate /\ keysSeen' = keysSeen + 1 /\ m.at = keysSeen'
      BY <1>1, <2>2 DEF Heard, Sends
    <3>3. \A v \in workers' : \E w \in workers : v.at = w.at
      <4>1. CASE m.signal # "Cancelled"
        BY <2>2, <4>1 DEF Sends
      <4>2. CASE m.signal = "Cancelled"
        <5>1. ASSUME NEW w \in workers PROVE [w EXCEPT !.escaped = keysSeen'].at = w.at
          BY DEF TypeOK, ActionThreads
        <5>2. workers' = {[w EXCEPT !.escaped = keysSeen'] : w \in workers}
          BY <2>2, <4>2 DEF Sends
        <5>3. QED
          BY <5>1, <5>2
      <4>3. QED
        BY <4>1, <4>2
    <3>4. \A i \in DOMAIN channel :
            i # n /\ (IsSignal(i)' <=> IsSignal(i)) /\ (IsSignal(i) => channel'[i].at <= keysSeen)
      BY <3>1 DEF IsSignal, InOrder
    <3>5. \A i, j \in DOMAIN channel' :
            i < j /\ IsSignal(i)' /\ IsSignal(j)' => channel'[i].at < channel'[j].at
      BY <1>0, <3>1, <3>2, <3>4 DEF InOrder
    <3>6. \A i \in DOMAIN channel' : IsSignal(i)' => channel'[i].at <= keysSeen'
      BY <1>0, <3>1, <3>2, <3>4
    <3>7. \A at \in Nat :
            at <= keysSeen /\ (\A i \in DOMAIN channel : IsSignal(i) => at < channel[i].at) =>
              /\ at <= keysSeen'
              /\ \A i \in DOMAIN channel' : IsSignal(i)' => at < channel'[i].at
      BY <1>0, <3>1, <3>2, <3>4
    <3>8. QED
      BY <1>0, <3>2, <3>3, <3>5, <3>6, <3>7 DEF InOrder
  <2>3. QED
    BY <1>1, <2>1, <2>2 DEF Heard
<1>2. CASE TakeSignal \/ TakeFinished
  <2>1. /\ 1 \in DOMAIN channel /\ keysSeen' = keysSeen
        /\ \A i \in DOMAIN channel' :
             /\ i \in Nat /\ i + 1 \in DOMAIN channel /\ i + 1 > 1
             /\ channel'[i] = channel[i + 1]
             /\ IsSignal(i)' <=> IsSignal(i + 1)
    BY <1>2, Shrinks DEF TakeSignal, TakeFinished, TypeOK, IsSignal
  <2>2. /\ \A i, j \in DOMAIN channel' :
             i < j /\ IsSignal(i)' /\ IsSignal(j)' => channel'[i].at < channel'[j].at
        /\ \A i \in DOMAIN channel' : IsSignal(i)' => channel'[i].at <= keysSeen'
    <3>1. \A i, j \in DOMAIN channel' : i < j => i + 1 < j + 1
      BY <2>1
    <3>2. QED
      BY <2>1, <3>1 DEF InOrder
  <2>3. \A at : (\A i \in DOMAIN channel : IsSignal(i) => at < channel[i].at)
          => \A i \in DOMAIN channel' : IsSignal(i)' => at < channel'[i].at
    BY <2>1
  <2>4. IsSignal(1) => /\ channel[1].at <= keysSeen
                       /\ \A i \in DOMAIN channel' : IsSignal(i)' => channel[1].at < channel'[i].at
    BY <2>1 DEF InOrder
  <2>5. CASE TakeSignal
    <3>1. PICK event \in [signal : Signals, seen : Nat, at : Nat] :
           /\ event.signal = channel[1].signal /\ event.at = channel[1].at
           /\ event.seen = channel[1].seen /\ IsSignal(1)
           /\ \/ /\ Accepts(event) /\ workers = {} /\ workers' = {Worker(event)}
                 /\ gate' = [gate EXCEPT !.inFlight = TRUE]
                 /\ gate.pending = NoSignal /\ \A i \in DOMAIN channel : ~IsDone(i)
              \/ /\ Queues(event) /\ event \in Terminals /\ workers' = workers
                 /\ gate' = [gate EXCEPT !.pending = event]
              \/ ~Accepts(event) /\ ~Queues(event) /\ UNCHANGED <<gate, workers>>
      BY <2>5, SignalTaken
    <3>2. CASE workers' = {Worker(event)} /\ gate' = [gate EXCEPT !.inFlight = TRUE]
               /\ gate.pending = NoSignal
      <4>1. Worker(event).at = event.at /\ gate'.pending = NoSignal
        BY <3>2 DEF Worker, TypeOK
      <4>2. QED
        BY <2>1, <2>2, <2>4, <3>1, <3>2, <4>1 DEF InOrder
    <3>3. CASE workers' = workers /\ gate' = [gate EXCEPT !.pending = event]
      <4>1. gate'.pending.at = event.at /\ \A w \in workers : w.at < event.at
        BY <2>1, <3>1, <3>3 DEF InOrder, TypeOK
      <4>2. QED
        BY <2>1, <2>2, <2>3, <2>4, <3>1, <3>3, <4>1 DEF InOrder
    <3>4. CASE UNCHANGED <<gate, workers>>
      BY <2>1, <2>2, <2>3, <3>4 DEF InOrder
    <3>5. QED
      BY <3>1, <3>2, <3>3, <3>4
  <2>6. CASE TakeFinished
    <3>1. gate'.pending = NoSignal
          /\ workers' = IF gate.pending = NoSignal THEN {} ELSE {Worker(gate.pending)}
      BY <2>6, FinishedTaken
    <3>2. Worker(gate.pending).at = gate.pending.at
      BY DEF Worker
    <3>3. QED
      BY <2>1, <2>2, <2>3, <3>1, <3>2 DEF InOrder
  <2>7. QED
    BY <1>2, <2>5, <2>6
<1>3. ASSUME NEW w \in workers, Connect(w) \/ SendStart(w) \/ SendEnd(w) \/ WorkerFails(w)
      PROVE  InOrder'
  <2>1. PICK new \in ActionThreads : workers' = {new} /\ Same(new, w)
    BY <1>3, ConnectGoesOn, StartGoesOn, EndGoesOn
  <2>2. channel' = channel /\ gate' = gate /\ keysSeen' = keysSeen
    BY <1>3 DEF Connect, SendStart, SendEnd, WorkerFails
  <2>3. QED
    BY <2>1, <2>2 DEF InOrder, IsSignal, Same
<1>4. ASSUME NEW w \in workers, Finish(w) PROVE InOrder'
  <2>1. keysSeen' = keysSeen
    BY <1>4 DEF Finish
  <2>2. PICK n \in Nat :
          /\ DOMAIN channel' = DOMAIN channel \cup {n}
          /\ \A i \in DOMAIN channel : i \in Nat /\ i < n /\ channel'[i] = channel[i]
          /\ channel'[n].kind = "finished"
    BY <1>4, FinishGrows
  <2>3. \A i \in DOMAIN channel' : IsSignal(i)' => i \in DOMAIN channel /\ IsSignal(i)
    BY <2>2 DEF IsSignal
  <2>4. workers' = {} /\ gate' = gate
    BY <1>4, FinishGrows
  <2>5. QED
    BY <2>1, <2>2, <2>3, <2>4 DEF InOrder
<1>5. CASE Idle /\ keysSeen' = keysSeen
  BY <1>5 DEF Idle, InOrder, IsSignal
<1>6. QED
  BY <1>1, <1>2, <1>3, <1>4, <1>5, InputHeard
     DEF Next, Dispatch, Environment, Work, Idle, RearmPasses, StopperWakes, StopperSends,
         StopperFails, OtherClient, Reconfigure, SetMode, ListenerCloses, ListenerRecovers,
         vars, Trouble

\* What the listener hears changes nothing of a thread but the Escape it knows of.
LEMMA HeardThreads ==
  ASSUME TypeOK, Heard
  PROVE  \A v \in workers' :
           \E w \in workers :
             /\ v.signal = w.signal /\ v.seen = w.seen /\ v.at = w.at /\ v.mode = w.mode
             /\ v.command = w.command /\ v.target = w.target
<1>1. CASE workers' = workers
  BY <1>1
<1>2. CASE workers' = {[w EXCEPT !.escaped = keysSeen'] : w \in workers}
  <2> SUFFICES ASSUME NEW v \in workers'
               PROVE  \E w \in workers :
                        /\ v.signal = w.signal /\ v.seen = w.seen /\ v.at = w.at
                        /\ v.mode = w.mode /\ v.command = w.command /\ v.target = w.target
    OBVIOUS
  <2>1. PICK w \in workers : v = [w EXCEPT !.escaped = keysSeen']
    BY <1>2
  <2>2. w \in ActionThreads
    BY DEF TypeOK
  <2>3. QED
    BY <2>1, <2>2 DEF ActionThreads
<1>3. QED
  BY <1>1, <1>2 DEF Heard, Silent, Sends

-----------------------------------------------------------------------------
(* What an action thread may send.                                         *)

\* Every step keeps a thread to the commands of its signal.
LEMMA ObedientStep == TypeOK /\ Tracking /\ OneAction /\ Obedient /\ [Next]_vars => Obedient'
<1> SUFFICES ASSUME TypeOK, Tracking, OneAction, Obedient, [Next]_vars PROVE Obedient'
  OBVIOUS
<1> USE DEF Obedient
<1>1. CASE Heard
  BY <1>1, HeardThreads
<1>2. CASE TakeSignal \/ TakeFinished
  <2>1. \A event : Worker(event).command = "connect"
    BY DEF Worker
  <2>2. \A v \in workers' : v \in workers \/ v.command = "connect"
    BY <1>2, <2>1 DEF TakeSignal, TakeFinished
  <2>3. QED
    BY <2>2
<1>3. ASSUME NEW w \in workers, Connect(w) PROVE Obedient'
  <2>1. PICK new \in ActionThreads :
          /\ workers' = {new} /\ Same(new, w)
          /\ \/ /\ new.command = CommandForHotkey(w.mode, w.signal, recording # 0)
                /\ new.target = recording
             \/ new.command = "none" /\ w.signal = "Pressed" /\ recording = 0
    BY <1>3, ConnectGoesOn
  <2>2. QED
    BY <2>1 DEF Same, CommandForHotkey
<1>4. ASSUME NEW w \in workers, SendStart(w) PROVE Obedient'
  <2>1. PICK new : workers' = {new} /\ new.signal = w.signal /\ new.command \in {"started", "none"}
                   /\ w.command = "start"
    BY <1>4, StartGoesOn DEF Same
  <2>2. QED
    BY <2>1
<1>5. ASSUME NEW w \in workers, SendEnd(w) \/ WorkerFails(w) PROVE Obedient'
  BY <1>5, EndGoesOn
<1>6. ASSUME NEW w \in workers, Finish(w) PROVE Obedient'
  BY <1>6, FinishGrows
<1>7. CASE workers' = workers
  BY <1>7
<1>8. QED
  BY <1>1, <1>2, <1>3, <1>4, <1>5, <1>6, <1>7, InputHeard
     DEF Next, Dispatch, Environment, Work, RearmPasses, StopperWakes, StopperSends,
         StopperFails, OtherClient, Reconfigure, SetMode, ListenerCloses, ListenerRecovers, vars

-----------------------------------------------------------------------------
(* The gate and the acknowledged starts.                                   *)

\* Every step keeps the gate informed of the newest acknowledged start.
LEMMA RearmedStep == TypeOK /\ Tracking /\ OneAction /\ Rearmed /\ [Next]_vars => Rearmed'
<1> SUFFICES ASSUME TypeOK, Tracking, OneAction, Rearmed, [Next]_vars PROVE Rearmed'
  OBVIOUS
<1> USE DEF inputVars, daemonVars, armVars, bounds
<1>0. /\ arms \in Nat /\ gate.rearm \in Nat
      /\ \A i \in DOMAIN channel : i \in Nat /\ (IsDone(i) => channel[i].arm \in Nat)
      /\ \A w \in workers : w.seen \in Nat
  BY DEF TypeOK, Messages, ActionThreads, IsDone
<1>1. CASE Heard
  <2>1. gate' = gate /\ arms' = arms
    BY <1>1 DEF Heard
  <2>2. CASE Silent
    BY <2>1, <2>2 DEF Silent, Rearmed, IsDone
  <2>3. ASSUME NEW m \in Messages, Sends(m) PROVE Rearmed'
    <3>1. /\ DOMAIN channel \subseteq DOMAIN channel'
          /\ \A i \in DOMAIN channel : channel'[i] = channel[i]
      BY <2>3, Grows DEF Sends, TypeOK
    <3>2. \A v \in workers' :
            \E w \in workers : v.signal = w.signal /\ v.mode = w.mode /\ v.seen = w.seen
      BY <1>1, HeardThreads
    <3>3. /\ \A i \in DOMAIN channel : IsDone(i)' <=> IsDone(i)
          /\ \A i \in DOMAIN channel' : IsDone(i)' => i \in DOMAIN channel
      <4>1. PICK n \in Nat :
              /\ DOMAIN channel' = DOMAIN channel \cup {n}
              /\ channel'[n] = m
        BY <2>3, Grows DEF Sends, TypeOK
      <4>2. m.kind = "signal"
        BY <2>3 DEF Sends
      <4>3. QED
        BY <3>1, <4>1, <4>2 DEF IsDone
    <3>4. QED
      BY <2>1, <3>1, <3>2, <3>3 DEF Rearmed
  <2>4. QED
    BY <1>1, <2>2, <2>3 DEF Heard
<1>2. CASE TakeSignal
  <2>1. PICK event \in [signal : Signals, seen : Nat, at : Nat] :
           /\ event.signal = channel[1].signal /\ event.at = channel[1].at
           /\ event.seen = channel[1].seen /\ IsSignal(1)
           /\ \/ /\ Accepts(event) /\ workers = {} /\ workers' = {Worker(event)}
                 /\ gate' = [gate EXCEPT !.inFlight = TRUE]
                 /\ gate.pending = NoSignal /\ \A i \in DOMAIN channel : ~IsDone(i)
              \/ /\ Queues(event) /\ event \in Terminals /\ workers' = workers
                 /\ gate' = [gate EXCEPT !.pending = event]
              \/ ~Accepts(event) /\ ~Queues(event) /\ UNCHANGED <<gate, workers>>
    BY <1>2, SignalTaken
  <2>2. gate'.rearm = gate.rearm /\ arms' = arms
    BY <1>2, <2>1 DEF TakeSignal, TypeOK
  <2>3. /\ \A i \in DOMAIN channel : IsDone(i) =>
             \E k \in DOMAIN channel' : IsDone(k)' /\ channel'[k] = channel[i]
        /\ \A k \in DOMAIN channel' :
             \E i \in DOMAIN channel : (IsDone(k)' <=> IsDone(i)) /\ channel'[k] = channel[i]
    <3>1. /\ \A k \in DOMAIN channel' :
               k + 1 \in DOMAIN channel /\ channel'[k] = channel[k + 1]
          /\ \A i \in DOMAIN channel : i # 1 => \E k \in DOMAIN channel' : i = k + 1
      BY <1>2, Shrinks DEF TakeSignal, TypeOK
    <3>2. ~IsDone(1)
      BY <2>1 DEF IsDone, IsSignal
    <3>3. QED
      BY <3>1, <3>2 DEF IsDone
  <2>4. \A v \in workers' : v.mode # "hold" /\ v.signal = "Pressed" => v.seen >= gate.rearm
    <3>1. CASE Accepts(event) /\ workers' = {Worker(event)}
      <4>1. Worker(event).mode = mode /\ Worker(event).signal = event.signal
            /\ Worker(event).seen = event.seen
        BY DEF Worker
      <4>2. QED
        BY <1>0, <3>1, <4>1 DEF Accepts, Rearming
    <3>2. CASE workers' = workers
      BY <3>2 DEF Rearmed
    <3>3. QED
      BY <2>1, <3>1, <3>2
  <2>5. QED
    BY <2>2, <2>3, <2>4 DEF Rearmed
<1>3. CASE TakeFinished
  <2>1. /\ workers = {} /\ IsDone(1)
        /\ gate'.rearm = IF channel[1].arm = 0 THEN gate.rearm ELSE channel[1].arm
        /\ workers' = IF gate.pending = NoSignal THEN {} ELSE {Worker(gate.pending)}
    BY <1>3, FinishedTaken
  <2>0. \A i \in DOMAIN channel' : ~IsDone(i)'
    BY <1>3, FinishedTaken
  <2>2. 1 \in DOMAIN channel /\ arms' = arms
    BY <1>3, Shrinks DEF TakeFinished, TypeOK
  <2>3. \A i \in DOMAIN channel : IsDone(i) => i = 1
    BY <2>1, <2>2 DEF OneAction
  <2>4. gate'.rearm = arms
    BY <1>0, <2>1, <2>2, <2>3 DEF Rearmed
  <2>5. gate.pending # NoSignal => Worker(gate.pending).signal # "Pressed"
    BY DEF Worker, TypeOK, Terminals
  <2>6. QED
    BY <2>0, <2>1, <2>2, <2>4, <2>5 DEF Rearmed
<1>4. ASSUME NEW w \in workers, Connect(w) \/ SendStart(w) \/ SendEnd(w) \/ WorkerFails(w)
      PROVE  Rearmed'
  <2>1. PICK new \in ActionThreads : workers' = {new} /\ Same(new, w)
    BY <1>4, ConnectGoesOn, StartGoesOn, EndGoesOn
  <2>2. channel' = channel /\ gate' = gate /\ arms' = arms
    BY <1>4 DEF Connect, SendStart, SendEnd, WorkerFails
  <2>3. QED
    BY <2>1, <2>2 DEF Rearmed, IsDone, Same
<1>5. ASSUME NEW w \in workers, Finish(w) PROVE Rearmed'
  <2>1. PICK n \in Nat :
          /\ DOMAIN channel' = DOMAIN channel \cup {n}
          /\ \A i \in DOMAIN channel : i \in Nat /\ i < n /\ channel'[i] = channel[i]
          /\ channel'[n].kind = "finished"
          /\ \/ channel'[n].arm = 0 /\ arms' = arms
             \/ channel'[n].arm = arms' /\ arms' = arms + 1
    BY <1>5, FinishGrows
  <2>2. workers' = {} /\ gate' = gate /\ \A i \in DOMAIN channel : ~IsDone(i)
    BY <1>5, FinishGrows
  <2>3. gate.rearm = arms
    BY <2>2 DEF Rearmed
  <2>4. /\ n \in DOMAIN channel' /\ IsDone(n)' /\ arms + 1 # 0
        /\ \A i \in DOMAIN channel' : IsDone(i)' => i = n
    BY <1>0, <2>1, <2>2 DEF IsDone
  <2>5. QED
    BY <2>1, <2>2, <2>3, <2>4 DEF Rearmed
<1>6. CASE Idle /\ arms' = arms
  BY <1>6 DEF Idle, Rearmed, IsDone
<1>7. QED
  BY <1>1, <1>2, <1>3, <1>4, <1>5, <1>6, InputHeard
     DEF Next, Dispatch, Environment, Work, Idle, RearmPasses, StopperWakes, StopperSends,
         StopperFails, OtherClient, Reconfigure, SetMode, ListenerCloses, ListenerRecovers,
         vars, Trouble

-----------------------------------------------------------------------------
(* The tracker and the keys.                                               *)

\* Every step keeps the tracker in agreement with the keys.
LEMMA TrackingStep == TypeOK /\ Tracking /\ [Next]_vars => Tracking'
<1> SUFFICES ASSUME TypeOK, Tracking, [Next]_vars PROVE Tracking'
  OBVIOUS
<1> USE DEF inputVars, daemonVars, armVars, bounds
<1>1. CASE tracker' = NewTracker /\ held' = held
  <2>1. ~NewTracker.matched /\ \A d \in Devices : NewTracker.pressed[d] = {}
    BY DEF NewTracker
  <2>2. tracker'.pressed = NewTracker.pressed /\ tracker'.matched = NewTracker.matched
    BY <1>1
  <2>3. QED
    BY <1>1, <2>1, <2>2 DEF Tracking, Faithful
<1>2. CASE ListenerCloses
  <2>1. UNCHANGED <<tracker, held>> /\ listening' = FALSE /\ disturbed' = (disturbed \/ tracker.matched)
    BY <1>2 DEF ListenerCloses
  <2>2. AnyMatches(tracker.pressed)' = AnyMatches(tracker.pressed)
    BY <2>1 DEF AnyMatches, Matches
  <2>3. ~disturbed' => ~tracker.matched
    BY <2>1
  <2>4. QED
    BY <2>1, <2>2, <2>3 DEF Tracking, Faithful
<1>3. CASE UNCHANGED inputVars /\ (~disturbed' => ~disturbed)
  <2>1. AnyMatches(tracker.pressed)' = AnyMatches(tracker.pressed)
    BY <1>3 DEF AnyMatches, Matches
  <2>2. QED
    BY <1>3, <2>1 DEF Tracking, Faithful
<1>4. ASSUME NEW w \in workers, Work(w) \/ WorkerFails(w)
      PROVE  UNCHANGED inputVars /\ (~disturbed' => ~disturbed)
  BY <1>4 DEF Work, Connect, SendStart, SendEnd, Finish, WorkerFails
<1>5. CASE Dispatch \/ OtherClient \/ SetMode \/ RearmPasses
  <2>1. UNCHANGED inputVars
    BY <1>5 DEF Dispatch, TakeSignal, TakeFinished, OtherClient, SetMode, RearmPasses
  <2>2. ~disturbed' => ~disturbed
    BY <1>5 DEF Dispatch, TakeSignal, TakeFinished, OtherClient, SetMode, RearmPasses
  <2>3. QED
    BY <1>3, <2>1, <2>2
<1>6. ASSUME NEW t \in stoppers, StopperWakes(t) \/ StopperSends(t) \/ StopperFails(t)
      PROVE  UNCHANGED inputVars /\ (~disturbed' => ~disturbed)
  BY <1>6 DEF StopperWakes, StopperSends, StopperFails
<1>7. CASE UNCHANGED vars
  BY <1>3, <1>7 DEF vars
<1>8. QED
  BY <1>1, <1>2, <1>3, <1>4, <1>5, <1>6, <1>7, InputHeard
     DEF Next, Environment, Reconfigure, ListenerRecovers

-----------------------------------------------------------------------------
(* In hold mode the end of the recording is on its way.                    *)

\* At rest there is nothing left to end.
LEMMA RestEnds == TypeOK /\ AtRest => Ending
<1> SUFFICES ASSUME TypeOK, AtRest PROVE Ending
  OBVIOUS
<1>1. DOMAIN channel = {} /\ workers = {} /\ recording \notin byHotkey
  BY DEF AtRest, Quiet, TypeOK
<1>2. QED
  BY <1>1 DEF Ending, Presses, NothingToEnd

\* Whatever the listener hears, a released hold still has its end to come.
LEMMA HeardEnds ==
  ASSUME TypeOK, Ending, Heard
  PROVE  Ending'
<1>0. UNCHANGED <<mode, gate, recording, byHotkey>>
  BY DEF Heard, daemonVars
<1>1. CASE Silent
  BY <1>0, <1>1 DEF Silent, Ending, Presses, EndComes, NothingToEnd, IsPress, IsTerminal, IsSignal
<1>2. ASSUME NEW m \in Messages, Sends(m) PROVE Ending'
  <2>1. PICK n \in Nat :
          /\ DOMAIN channel' = DOMAIN channel \cup {n}
          /\ \A i \in DOMAIN channel : i \in Nat /\ i < n /\ channel'[i] = channel[i]
          /\ channel'[n] = m
    BY <1>2, Grows DEF Sends, TypeOK
  <2>2. \A w \in workers' : w.mode = mode'
    BY <1>0, HeardThreads DEF Ending
  <2>3. ASSUME ~tracker'.matched PROVE Presses' /\ EndComes'
    <3>1. m.kind = "signal" /\ m.signal \in {"Released", "Cancelled"}
      BY <1>2, <2>3 DEF Sends, Messages, Signals
    <3>2. n \in DOMAIN channel' /\ IsTerminal(n)'
      BY <2>1, <3>1 DEF IsTerminal, IsSignal
    <3>3. \A i \in DOMAIN channel' : IsPress(i)' => i < n
      BY <2>1, <3>1 DEF IsPress
    <3>4. QED
      BY <3>2, <3>3 DEF Presses, EndComes
  <2>4. QED
    BY <2>2, <2>3 DEF Ending
<1>3. QED
  BY <1>1, <1>2 DEF Heard

\* Taking a message from the channel does not lose that end,
LEMMA TakeEnds ==
  ASSUME TypeOK, OneAction, Ending, TakeSignal \/ TakeFinished
  PROVE  Ending'
<1>1. /\ 1 \in DOMAIN channel
      /\ \A k \in DOMAIN channel' :
           /\ k \in Nat /\ k + 1 \in DOMAIN channel
           /\ IsPress(k)' <=> IsPress(k + 1)
           /\ IsTerminal(k)' <=> IsTerminal(k + 1)
      /\ \A i \in DOMAIN channel : i \in Nat /\ (i # 1 => \E k \in DOMAIN channel' : i = k + 1)
  <2>1. /\ 1 \in DOMAIN channel
        /\ \A k \in DOMAIN channel' :
             k \in Nat /\ k + 1 \in DOMAIN channel /\ channel'[k] = channel[k + 1]
        /\ \A i \in DOMAIN channel : i # 1 => \E k \in DOMAIN channel' : i = k + 1
    BY Shrinks DEF TakeSignal, TakeFinished, TypeOK
  <2>2. \A i \in DOMAIN channel : i \in Nat
    BY DEF TypeOK
  <2>3. QED
    BY <2>1, <2>2 DEF IsPress, IsTerminal, IsSignal
<1>2. UNCHANGED <<tracker, mode, recording, byHotkey>>
  BY DEF TakeSignal, TakeFinished, inputVars, daemonVars
<1>3. Presses => Presses'
  <2> SUFFICES ASSUME Presses, NEW k \in DOMAIN channel', IsPress(k)'
               PROVE  \E l \in DOMAIN channel' : k < l /\ IsTerminal(l)'
    BY DEF Presses
  <2>1. PICK j \in DOMAIN channel : k + 1 < j /\ IsTerminal(j)
    BY <1>1 DEF Presses
  <2>2. PICK l \in DOMAIN channel' : j = l + 1
    BY <1>1, <2>1
  <2>3. QED
    BY <1>1, <2>1, <2>2
<1>4. \A event : /\ Worker(event).mode = mode /\ Worker(event).command = "connect"
                 /\ Worker(event).signal = event.signal
  BY DEF Worker
<1>5. \A v \in workers' : v.mode = mode'
  BY <1>2, <1>4 DEF Ending, TakeSignal, TakeFinished
<1>6. ASSUME ~tracker.matched, mode = "hold", TakeSignal PROVE EndComes'
  <2>1. PICK event \in [signal : Signals, seen : Nat, at : Nat] :
           /\ event.signal = channel[1].signal /\ event.at = channel[1].at
           /\ event.seen = channel[1].seen /\ IsSignal(1)
           /\ \/ /\ Accepts(event) /\ workers = {} /\ workers' = {Worker(event)}
                 /\ gate' = [gate EXCEPT !.inFlight = TRUE]
                 /\ gate.pending = NoSignal /\ \A i \in DOMAIN channel : ~IsDone(i)
              \/ /\ Queues(event) /\ event \in Terminals /\ workers' = workers
                 /\ gate' = [gate EXCEPT !.pending = event]
              \/ ~Accepts(event) /\ ~Queues(event) /\ UNCHANGED <<gate, workers>>
    BY <1>6, SignalTaken
  <2>2. CASE event.signal = "Pressed"
    <3>1. PICK j \in DOMAIN channel : 1 < j /\ IsTerminal(j)
      BY <1>1, <1>6, <2>1, <2>2 DEF Ending, Presses, IsPress
    <3>2. PICK k \in DOMAIN channel' : j = k + 1
      BY <1>1, <3>1
    <3>3. QED
      BY <1>1, <3>1, <3>2 DEF EndComes
  <2>3. CASE event.signal # "Pressed" /\ workers' = {Worker(event)}
    BY <1>4, <2>3 DEF EndComes
  <2>4. CASE gate' = [gate EXCEPT !.pending = event] /\ event \in Terminals
    BY <2>4 DEF EndComes, TypeOK, Terminals, NoSignal
  <2>5. CASE event.signal # "Pressed" /\ ~Accepts(event) /\ ~Queues(event)
             /\ UNCHANGED <<gate, workers>>
    <3>1. gate.pending.signal = "Cancelled"
      BY <1>6, <2>5 DEF Accepts, Queues, Rearming, Signals
    <3>2. QED
      BY <2>5, <3>1 DEF EndComes, NoSignal
  <2>6. QED
    BY <2>1, <2>2, <2>3, <2>4, <2>5
<1>7. ASSUME EndComes \/ NothingToEnd, TakeFinished PROVE EndComes' \/ NothingToEnd'
  <2>1. /\ workers = {} /\ IsDone(1)
        /\ workers' = IF gate.pending = NoSignal THEN {} ELSE {Worker(gate.pending)}
    BY <1>7, FinishedTaken
  <2>2. CASE gate.pending # NoSignal
    <3>1. Worker(gate.pending).signal # "Pressed"
      BY <1>4, <2>2 DEF TypeOK, Terminals
    <3>2. QED
      BY <1>4, <2>1, <2>2, <3>1 DEF EndComes
  <2>3. ASSUME NEW i \in DOMAIN channel, IsTerminal(i) PROVE EndComes'
    <3>1. PICK k \in DOMAIN channel' : i = k + 1
      BY <1>1, <2>1, <2>3 DEF IsTerminal, IsSignal, IsDone
    <3>2. QED
      BY <1>1, <2>3, <3>1 DEF EndComes
  <2>4. CASE gate.pending = NoSignal /\ NothingToEnd
    BY <1>2, <2>1, <2>4 DEF NothingToEnd
  <2>5. QED
    BY <1>7, <2>1, <2>2, <2>3, <2>4 DEF EndComes
<1>8. QED
  BY <1>2, <1>3, <1>5, <1>6, <1>7 DEF Ending

\* nor does a step of the action thread.
LEMMA WorkEnds ==
  ASSUME TypeOK, OneAction, Ending, NEW w \in workers, Work(w)
  PROVE  Ending'
<1>0. workers = {w} /\ recording \in Nat
  BY OnlyAction DEF TypeOK
<1>1. tracker' = tracker /\ mode' = mode
  BY DEF Work, Connect, SendStart, SendEnd, Finish, inputVars
<1>2. ASSUME Connect(w) \/ SendStart(w) \/ SendEnd(w)
      PROVE  /\ \A i : (IsPress(i)' <=> IsPress(i)) /\ (IsTerminal(i)' <=> IsTerminal(i))
             /\ channel' = channel /\ gate' = gate
  BY <1>2 DEF Connect, SendStart, SendEnd, IsPress, IsTerminal, IsSignal
<1>3. CASE Connect(w)
  <2>1. PICK new \in ActionThreads :
          /\ workers' = {new} /\ Same(new, w)
          /\ \/ /\ new.command = CommandForHotkey(w.mode, w.signal, recording # 0)
                /\ new.target = recording
             \/ new.command = "none" /\ w.signal = "Pressed" /\ recording = 0
    BY <1>3, ConnectGoesOn
  <2>2. UNCHANGED <<recording, byHotkey>> /\ w.command = "connect"
    BY <1>3 DEF Connect, daemonVars
  <2>3. ASSUME mode = "hold", w.signal # "Pressed" PROVE EndComes' \/ NothingToEnd'
    <3>1. w.mode = "hold"
      BY <2>3 DEF Ending
    <3>2. CASE recording = 0
      BY <2>1, <2>2, <2>3, <3>1, <3>2 DEF NothingToEnd, Same, CommandForHotkey, TypeOK
    <3>3. CASE recording # 0
      BY <2>1, <2>2, <2>3, <3>1, <3>3 DEF EndComes, Same, CommandForHotkey
    <3>4. QED
      BY <3>2, <3>3
  <2>4. ASSUME w.signal = "Pressed", EndComes \/ NothingToEnd PROVE EndComes'
    BY <1>0, <1>2, <1>3, <2>2, <2>4 DEF EndComes, NothingToEnd
  <2>5. Presses => Presses'
    BY <1>2, <1>3 DEF Presses
  <2>6. QED
    BY <1>1, <2>1, <2>3, <2>4, <2>5 DEF Ending, Same
<1>4. CASE SendStart(w)
  <2>1. PICK new : workers' = {new} /\ Same(new, w) /\ w.command = "start"
    BY <1>4, StartGoesOn
  <2>2. EndComes \/ NothingToEnd => EndComes'
    BY <1>0, <1>2, <1>4, <2>1 DEF EndComes, NothingToEnd
  <2>3. Presses => Presses'
    BY <1>2, <1>4 DEF Presses
  <2>4. QED
    BY <1>1, <2>1, <2>2, <2>3 DEF Ending, Same
<1>5. CASE SendEnd(w)
  <2>1. PICK new : workers' = {new} /\ Same(new, w) /\ new.command = "none"
    BY <1>5, EndGoesOn
  <2>2. recording' \notin byHotkey'
    BY <1>5 DEF SendEnd, TypeOK
  <2>3. NothingToEnd'
    BY <2>1, <2>2 DEF NothingToEnd
  <2>4. Presses => Presses'
    BY <1>2, <1>5 DEF Presses
  <2>5. QED
    BY <1>1, <2>1, <2>3, <2>4 DEF Ending, Same
<1>6. CASE Finish(w)
  <2>1. PICK n \in Nat :
          /\ DOMAIN channel' = DOMAIN channel \cup {n}
          /\ \A i \in DOMAIN channel : i \in Nat /\ i < n /\ channel'[i] = channel[i]
          /\ channel'[n].kind = "finished"
    BY <1>6, FinishGrows
  <2>2. workers' = {} /\ gate' = gate /\ UNCHANGED <<recording, byHotkey>>
        /\ w.command \in {"none", "started"}
    BY <1>6, FinishGrows DEF Finish, daemonVars
  <2>3. /\ \A i \in DOMAIN channel :
             i \in DOMAIN channel' /\ (IsTerminal(i)' <=> IsTerminal(i))
        /\ \A i \in DOMAIN channel' : IsPress(i)' => i \in DOMAIN channel /\ IsPress(i)
    BY <2>1 DEF IsPress, IsTerminal, IsSignal
  <2>4. Presses => Presses'
    BY <2>3 DEF Presses
  <2>5. EndComes => EndComes'
    BY <1>0, <2>2, <2>3 DEF EndComes
  <2>6. NothingToEnd => NothingToEnd'
    BY <2>2 DEF NothingToEnd
  <2>7. QED
    BY <1>1, <2>2, <2>4, <2>5, <2>6 DEF Ending
<1>7. QED
  BY <1>3, <1>4, <1>5, <1>6 DEF Work

\* So every step of an undisturbed session keeps the end of a released hold.
LEMMA HoldingStep ==
  TypeOK /\ Tracking /\ OneAction /\ Holding /\ [Next]_vars => Holding'
<1> SUFFICES ASSUME TypeOK, Tracking, OneAction, Holding, [Next]_vars, ~disturbed'
             PROVE  Ending'
  BY DEF Holding
<1> USE DEF inputVars, daemonVars, armVars, bounds
<1>1. CASE Heard
  <2>1. Ending
    BY <1>1, RestEnds DEF Heard, Holding
  <2>2. QED
    BY <1>1, <2>1, HeardEnds
<1>2. CASE Dispatch
  <2>1. Ending
    BY <1>2 DEF Dispatch, TakeSignal, TakeFinished, Holding
  <2>2. QED
    BY <1>2, <2>1, TakeEnds DEF Dispatch
<1>3. ASSUME NEW w \in workers, Work(w) PROVE Ending'
  <2>1. Ending
    BY <1>3 DEF Work, Connect, SendStart, SendEnd, Finish, Holding
  <2>2. QED
    BY <1>3, <2>1, WorkEnds
<1>4. CASE SetMode
  <2>1. AtRest
    BY <1>4 DEF SetMode
  <2>2. workers' = {} /\ DOMAIN channel' = {} /\ recording' \notin byHotkey'
    BY <1>4, <2>1 DEF SetMode, AtRest, Quiet, TypeOK
  <2>3. QED
    BY <2>2 DEF Ending, Presses, NothingToEnd
<1>5. CASE /\ UNCHANGED <<channel, gate, workers, mode, byHotkey>> /\ ~disturbed
           /\ tracker'.matched = tracker.matched
           /\ recording' \in {recording, 0, started + 1}
  <2>1. recording' = recording \/ recording' \notin byHotkey'
    BY <1>5 DEF TypeOK
  <2>2. \A i : (IsPress(i)' <=> IsPress(i)) /\ (IsTerminal(i)' <=> IsTerminal(i))
    BY <1>5 DEF IsPress, IsTerminal, IsSignal
  <2>3. (Presses => Presses') /\ (EndComes => EndComes') /\ (NothingToEnd => NothingToEnd')
    BY <1>5, <2>1, <2>2 DEF Presses, EndComes, NothingToEnd
  <2>4. QED
    BY <1>5, <2>3 DEF Ending, Holding
<1>6. CASE Reconfigure \/ ListenerCloses \/ ListenerRecovers
  <2>1. tracker'.matched = tracker.matched /\ ~disturbed
    <3>1. CASE Reconfigure \/ ListenerRecovers
      <4>1. tracker' = NewTracker /\ ~NewTracker.matched
        BY <3>1 DEF Reconfigure, ListenerRecovers, NewTracker
      <4>2. ~disturbed /\ ~tracker.matched
        <5>1. CASE Reconfigure
          <6>1. disturbed' = (disturbed \/ tracker.matched)
            BY <5>1 DEF Reconfigure
          <6>2. QED
            BY <6>1
        <5>2. CASE ListenerRecovers
          <6>1. ~listening /\ disturbed' = disturbed
            BY <5>2 DEF ListenerRecovers
          <6>2. QED
            BY <6>1 DEF Tracking
        <5>3. QED
          BY <3>1, <5>1, <5>2
      <4>3. tracker.matched \in BOOLEAN /\ NewTracker.matched \in BOOLEAN
        BY DEF TypeOK, Trackers, NewTracker
      <4>4. QED
        BY <4>1, <4>2, <4>3
    <3>2. CASE ListenerCloses
      BY <3>2 DEF ListenerCloses
    <3>3. QED
      BY <1>6, <3>1, <3>2
  <2>2. UNCHANGED <<channel, gate, workers, mode, byHotkey, recording>>
    BY <1>6 DEF Reconfigure, ListenerCloses, ListenerRecovers
  <2>3. QED
    BY <1>5, <2>1, <2>2
<1>7. CASE OtherClient \/ RearmPasses \/ UNCHANGED vars
  BY <1>5, <1>7 DEF OtherClient, RearmPasses, vars
<1>8. ASSUME NEW t \in stoppers, StopperWakes(t) \/ StopperSends(t) \/ StopperFails(t)
      PROVE  Ending'
  BY <1>5, <1>8 DEF StopperWakes, StopperSends, StopperFails
<1>9. ASSUME NEW w \in workers, WorkerFails(w) PROVE FALSE
  BY <1>9 DEF WorkerFails
<1>10. QED
  BY <1>1, <1>2, <1>3, <1>4, <1>6, <1>7, <1>8, <1>9, InputHeard DEF Next, Environment

-----------------------------------------------------------------------------
(* Every Escape is answered by a cancellation.                             *)

Answering(w) == w.signal = "Cancelled" /\ w.command \in {"connect", "cancel"}

\* Whatever the listener hears, a doomed recording still has its cancel to come.
LEMMA HeardCancels ==
  ASSUME TypeOK, InOrder, Cancelling, Heard
  PROVE  Cancelling'
<1>0. /\ UNCHANGED <<gate, recording>> /\ keysSeen' = keysSeen + 1
      /\ (recording # 0 /\ ~disturbed' => ~disturbed)
  BY DEF Heard, daemonVars, AtRest
<1>1. CASE Silent
  BY <1>0, <1>1 DEF Silent, Cancelling, Opening, CancelWaits, NoneAfter, IsCancel, IsSignal
<1>2. ASSUME NEW m \in Messages, Sends(m) PROVE Cancelling'
  <2>1. PICK n \in Nat :
          /\ DOMAIN channel' = DOMAIN channel \cup {n}
          /\ \A i \in DOMAIN channel : i \in Nat /\ i < n /\ channel'[i] = channel[i]
          /\ channel'[n] = m
    BY <1>2, Grows DEF Sends, TypeOK
  <2>2. /\ \A i \in DOMAIN channel : i \in DOMAIN channel' /\ (IsCancel(i)' <=> IsCancel(i))
        /\ \A i \in DOMAIN channel' : IsCancel(i)' =>
             \/ i \in DOMAIN channel
             \/ i = n /\ m.signal = "Cancelled" /\ channel'[i].at = keysSeen'
    BY <1>2, <2>1 DEF IsCancel, IsSignal, Sends
  <2>3. CASE m.signal # "Cancelled"
    <3>1. \A at : NoneAfter(at) => NoneAfter(at)'
      BY <1>0, <2>1, <2>2, <2>3 DEF NoneAfter
    <3>2. CancelWaits => CancelWaits'
      BY <1>0, <2>2 DEF CancelWaits
    <3>3. workers' = workers /\ doomed' = doomed
      BY <1>2, <2>3 DEF Sends
    <3>4. \A w \in workers : (Opening(w) => NoneAfter(w.escaped)')
      BY <3>1 DEF Cancelling
    <3>5. (recording # 0 /\ recording = doomed.job => NoneAfter(doomed.at))
      BY DEF Cancelling
    <3>6. PICK at : at = doomed.at
      OBVIOUS
    <3>7. recording # 0 /\ recording = doomed.job => NoneAfter(doomed.at)'
      <4>1. recording # 0 /\ recording = doomed.job => NoneAfter(at)'
        BY <3>1, <3>5, <3>6
      <4>2. NoneAfter(at)' => NoneAfter(doomed.at)'
        BY <3>3, <3>6 DEF NoneAfter
      <4>3. QED
        BY <4>1, <4>2
    <3>8. QED
      BY <1>0, <3>2, <3>3, <3>4, <3>7 DEF Cancelling
  <2>4. CASE m.signal = "Cancelled"
    <3>1. PICK at \in Nat : at = keysSeen'
      BY <1>0 DEF TypeOK
    <3>2. NoneAfter(at)' /\ CancelWaits'
      <4>1. m.kind = "signal" /\ n \in DOMAIN channel' /\ IsCancel(n)'
        BY <1>2, <2>1, <2>4 DEF Sends, IsCancel, IsSignal
      <4>2. \A i \in DOMAIN channel : IsCancel(i) => channel[i].at \in Nat /\ channel[i].at <= keysSeen
        BY DEF InOrder, IsCancel, TypeOK, Messages, IsSignal
      <4>3. gate.pending.signal = "Cancelled" =>
              gate.pending.at \in Nat /\ gate.pending.at <= keysSeen
        BY DEF InOrder, TypeOK, Terminals, NoSignal
      <4>4. keysSeen \in Nat
        BY DEF TypeOK
      <4>5. QED
        BY <1>0, <2>1, <2>2, <3>1, <4>1, <4>2, <4>3, <4>4 DEF NoneAfter, CancelWaits
    <3>3. \A v \in workers' : v.escaped = at
      BY <1>2, <2>4, <3>1 DEF Sends, TypeOK, ActionThreads
    <3>4. recording # 0 => doomed'.at = at
      BY <1>2, <2>4, <3>1 DEF Sends
    <3>5. \A v \in workers' : NoneAfter(v.escaped)'
      BY <3>2, <3>3 DEF NoneAfter
    <3>6. recording # 0 => NoneAfter(doomed.at)'
      BY <3>2, <3>4 DEF NoneAfter
    <3>7. QED
      BY <1>0, <3>2, <3>5, <3>6 DEF Cancelling
  <2>5. QED
    BY <2>3, <2>4
<1>3. QED
  BY <1>1, <1>2 DEF Heard

\* Taking a message from the channel does not lose the cancel,
LEMMA TakeCancels ==
  ASSUME TypeOK, OneAction, Cancelling, TakeSignal \/ TakeFinished
  PROVE  Cancelling'
<1>1. /\ 1 \in DOMAIN channel
      /\ \A k \in DOMAIN channel' :
           /\ k + 1 \in DOMAIN channel /\ channel'[k] = channel[k + 1]
           /\ IsCancel(k)' <=> IsCancel(k + 1)
      /\ \A i \in DOMAIN channel : i # 1 => \E k \in DOMAIN channel' : i = k + 1
  <2>1. /\ 1 \in DOMAIN channel
        /\ \A k \in DOMAIN channel' :
             k \in Nat /\ k + 1 \in DOMAIN channel /\ channel'[k] = channel[k + 1]
        /\ \A i \in DOMAIN channel : i # 1 => \E k \in DOMAIN channel' : i = k + 1
    BY Shrinks DEF TakeSignal, TakeFinished, TypeOK
  <2>2. QED
    BY <2>1 DEF IsCancel, IsSignal
<1>2. UNCHANGED <<recording, doomed, disturbed>>
  BY DEF TakeSignal, TakeFinished, daemonVars
<1>3. \A event : /\ Worker(event).command = "connect" /\ Worker(event).escaped = 0
                 /\ Worker(event).signal = event.signal
  BY DEF Worker
<1>4. \A i \in DOMAIN channel : IsCancel(i) /\ i # 1 => CancelWaits'
  BY <1>1 DEF CancelWaits
<1>5. ASSUME \A at : NoneAfter(at) => NoneAfter(at)',
             \A v \in workers' :
               v.escaped = 0 \/ (v \in workers /\ (CancelWaits => CancelWaits')),
             ~disturbed /\ CancelWaits => CancelWaits' \/ \E v \in workers' : Answering(v),
             workers \subseteq workers'
      PROVE  Cancelling'
  <2>1. PICK at : at = doomed.at
    OBVIOUS
  <2>2. recording # 0 /\ recording = doomed.job => NoneAfter(at)'
    BY <1>5, <2>1 DEF Cancelling
  <2>3. NoneAfter(at)' => NoneAfter(doomed.at)'
    BY <1>2, <2>1 DEF NoneAfter
  <2>4. \A v \in workers' : Opening(v) => CancelWaits' /\ NoneAfter(v.escaped)'
    BY <1>5 DEF Cancelling, Opening
  <2>5. QED
    BY <1>2, <1>5, <2>2, <2>3, <2>4 DEF Cancelling, Answering
<1>6. CASE TakeSignal
  <2>1. PICK event \in [signal : Signals, seen : Nat, at : Nat] :
           /\ event.signal = channel[1].signal /\ event.at = channel[1].at
           /\ event.seen = channel[1].seen /\ IsSignal(1)
           /\ \/ /\ Accepts(event) /\ workers = {} /\ workers' = {Worker(event)}
                 /\ gate' = [gate EXCEPT !.inFlight = TRUE]
                 /\ gate.pending = NoSignal /\ \A i \in DOMAIN channel : ~IsDone(i)
              \/ /\ Queues(event) /\ event \in Terminals /\ workers' = workers
                 /\ gate' = [gate EXCEPT !.pending = event]
              \/ ~Accepts(event) /\ ~Queues(event) /\ UNCHANGED <<gate, workers>>
    BY <1>6, SignalTaken
  <2>2. IsCancel(1) <=> event.signal = "Cancelled"
    BY <2>1 DEF IsCancel
  <2>3. gate'.pending \in {gate.pending, event}
    BY <2>1 DEF TypeOK
  <2>4. \A at : NoneAfter(at) => NoneAfter(at)'
    <3> SUFFICES ASSUME NEW at, NoneAfter(at) PROVE NoneAfter(at)'
      OBVIOUS
    <3>1. \A k \in DOMAIN channel' : IsCancel(k)' => channel'[k].at <= at
      BY <1>1 DEF NoneAfter
    <3>2. gate'.pending.signal = "Cancelled" => gate'.pending.at <= at
      BY <1>1, <2>1, <2>2, <2>3 DEF NoneAfter
    <3>3. QED
      BY <3>1, <3>2 DEF NoneAfter
  <2>5. CASE Accepts(event) /\ workers = {} /\ workers' = {Worker(event)} /\ gate.pending = NoSignal
    <3>1. CancelWaits => CancelWaits' \/ \E v \in workers' : Answering(v)
      BY <1>3, <1>4, <2>2, <2>5 DEF CancelWaits, Answering, NoSignal
    <3>2. QED
      BY <1>3, <1>5, <2>4, <2>5, <3>1
  <2>6. CASE Queues(event) /\ workers' = workers /\ gate' = [gate EXCEPT !.pending = event]
    <3>1. gate'.pending = event
      BY <2>6 DEF TypeOK
    <3>2. event.signal = "Cancelled" => CancelWaits'
      BY <3>1 DEF CancelWaits
    <3>3. CancelWaits => CancelWaits'
      BY <1>4, <2>2, <2>6, <3>2 DEF CancelWaits, Queues
    <3>4. QED
      BY <1>5, <2>4, <2>6, <3>3
  <2>7. CASE ~Accepts(event) /\ ~Queues(event) /\ UNCHANGED <<gate, workers>>
    <3>1. event.signal # "Cancelled"
      BY <2>7 DEF Accepts, Queues, Rearming
    <3>2. CancelWaits => CancelWaits'
      BY <1>4, <2>2, <2>7, <3>1 DEF CancelWaits
    <3>3. QED
      BY <1>5, <2>4, <2>7, <3>2
  <2>8. QED
    BY <2>1, <2>5, <2>6, <2>7
<1>7. CASE TakeFinished
  <2>1. /\ workers = {} /\ IsDone(1) /\ gate'.pending = NoSignal
        /\ workers' = IF gate.pending = NoSignal THEN {} ELSE {Worker(gate.pending)}
    BY <1>7, FinishedTaken
  <2>2. ~IsCancel(1)
    BY <2>1 DEF IsCancel, IsSignal, IsDone
  <2>3. \A at : NoneAfter(at) => NoneAfter(at)'
    BY <1>1, <2>1 DEF NoneAfter, NoSignal
  <2>4. CancelWaits => CancelWaits' \/ \E v \in workers' : Answering(v)
    BY <1>3, <1>4, <2>1, <2>2 DEF CancelWaits, Answering, NoSignal
  <2>5. QED
    BY <1>3, <1>5, <2>1, <2>3, <2>4
<1>8. QED
  BY <1>6, <1>7

\* nor does a step of the action thread.
LEMMA WorkCancels ==
  ASSUME TypeOK, OneAction, Cancelling, NEW w \in workers, Work(w)
  PROVE  Cancelling'
<1>0. workers = {w} /\ recording \in 0..started /\ started \in Nat /\ doomed.job \in 0..started
      /\ w \in ActionThreads
  BY OnlyAction DEF TypeOK
<1>1. ASSUME UNCHANGED <<channel, gate>>
      PROVE  (CancelWaits' <=> CancelWaits) /\ \A at : NoneAfter(at)' <=> NoneAfter(at)
  BY <1>1 DEF CancelWaits, NoneAfter, IsCancel, IsSignal
<1>2. CASE Connect(w)
  <2>1. PICK new \in ActionThreads :
          /\ workers' = {new} /\ Same(new, w)
          /\ \/ /\ new.command = CommandForHotkey(w.mode, w.signal, recording # 0)
                /\ new.target = recording
             \/ new.command = "none" /\ w.signal = "Pressed" /\ recording = 0
    BY <1>2, ConnectGoesOn
  <2>2. UNCHANGED <<channel, gate, recording, doomed, disturbed>> /\ w.command = "connect"
    BY <1>2 DEF Connect, daemonVars
  <2>3. Opening(new) => Opening(w)
    BY <2>1, <2>2 DEF Opening, Same
  <2>4. Answering(w) /\ recording # 0 => Answering(new)
    BY <2>1 DEF Answering, Same, CommandForHotkey
  <2>5. PICK at, doom : at = w.escaped /\ doom = doomed.at
    OBVIOUS
  <2>6. (NoneAfter(at)' => NoneAfter(new.escaped)') /\ (NoneAfter(doom)' => NoneAfter(doomed.at)')
    BY <2>1, <2>2, <2>5 DEF NoneAfter, Same
  <2>7. Opening(new) => CancelWaits' /\ NoneAfter(new.escaped)'
    BY <1>1, <2>2, <2>3, <2>5, <2>6 DEF Cancelling
  <2>8. recording # 0 /\ recording = doomed.job =>
          /\ NoneAfter(doomed.at)'
          /\ ~disturbed => CancelWaits' \/ Answering(new)
    BY <1>0, <1>1, <2>2, <2>4, <2>5, <2>6 DEF Cancelling, Answering
  <2>9. QED
    BY <2>1, <2>2, <2>7, <2>8 DEF Cancelling, Answering
<1>3. CASE SendStart(w)
  <2>1. PICK new \in ActionThreads :
          /\ workers' = {new} /\ Same(new, w)
          /\ \/ /\ recording = 0 /\ new.command = "started" /\ new.target = started'
                /\ started' = started + 1 /\ recording' = started'
                /\ byHotkey' = byHotkey \cup {started'}
                /\ doomed' = IF w.escaped = 0 THEN doomed
                             ELSE [job |-> started', at |-> w.escaped]
             \/ new.command = "none" /\ UNCHANGED <<started, recording, byHotkey, doomed>>
    BY <1>3, StartGoesOn
  <2>2. UNCHANGED <<channel, gate, disturbed>> /\ w.command = "start" /\ ~Opening(new)
    BY <1>3, <2>1 DEF SendStart, Opening
  <2>3. PICK at, doom : at = w.escaped /\ doom = doomed.at
    OBVIOUS
  <2>4. CASE recording' = started + 1 /\ w.escaped = 0 /\ doomed' = doomed
    <3>1. recording' # doomed'.job
      BY <1>0, <2>4
    <3>2. QED
      BY <2>1, <2>2, <3>1 DEF Cancelling
  <2>5. CASE w.escaped # 0 /\ doomed' = [job |-> started', at |-> w.escaped]
    <3>1. CancelWaits' /\ NoneAfter(at)'
      BY <1>1, <2>2, <2>3, <2>5 DEF Cancelling, Opening
    <3>2. NoneAfter(at)' => NoneAfter(doomed.at)'
      BY <2>3, <2>5 DEF NoneAfter
    <3>3. QED
      BY <2>1, <2>2, <3>1, <3>2 DEF Cancelling
  <2>6. CASE UNCHANGED <<recording, doomed>>
    <3>1. NoneAfter(doom)' => NoneAfter(doomed.at)'
      BY <2>3, <2>6 DEF NoneAfter
    <3>2. QED
      BY <1>0, <1>1, <2>1, <2>2, <2>3, <2>6, <3>1 DEF Cancelling
  <2>7. QED
    BY <2>1, <2>4, <2>5, <2>6
<1>4. CASE SendEnd(w)
  <2>1. PICK new : workers' = {new} /\ new.command = "none"
    BY <1>4, EndGoesOn
  <2>2. recording' = 0
    BY <1>4 DEF SendEnd
  <2>3. QED
    BY <2>1, <2>2 DEF Cancelling, Opening
<1>5. CASE Finish(w)
  <2>1. PICK n \in Nat :
          /\ DOMAIN channel' = DOMAIN channel \cup {n}
          /\ \A i \in DOMAIN channel : i \in Nat /\ i < n /\ channel'[i] = channel[i]
          /\ channel'[n].kind = "finished"
    BY <1>5, FinishGrows
  <2>2. workers' = {} /\ gate' = gate /\ UNCHANGED <<recording, doomed, disturbed>>
        /\ w.command \in {"none", "started"}
    BY <1>5, FinishGrows DEF Finish, daemonVars
  <2>3. /\ \A i \in DOMAIN channel : i \in DOMAIN channel' /\ (IsCancel(i)' <=> IsCancel(i))
        /\ \A i \in DOMAIN channel' : IsCancel(i)' => i \in DOMAIN channel
    BY <2>1 DEF IsCancel, IsSignal
  <2>4. (CancelWaits => CancelWaits') /\ (NoneAfter(doomed.at) => NoneAfter(doomed.at)')
    BY <2>1, <2>2, <2>3 DEF CancelWaits, NoneAfter
  <2>5. QED
    BY <1>0, <2>2, <2>4 DEF Cancelling
<1>6. QED
  BY <1>2, <1>3, <1>4, <1>5 DEF Work

\* So every step keeps the cancel of a doomed recording.
LEMMA CancellingStep ==
  TypeOK /\ Tracking /\ OneAction /\ InOrder /\ Cancelling /\ [Next]_vars => Cancelling'
<1> SUFFICES ASSUME TypeOK, Tracking, OneAction, InOrder, Cancelling, [Next]_vars
             PROVE  Cancelling'
  OBVIOUS
<1> USE DEF inputVars, daemonVars, armVars, bounds
<1>1. CASE UNCHANGED <<channel, gate, workers, doomed>> /\ (~disturbed' => ~disturbed)
           /\ recording' \in {recording, 0, started + 1}
  <2>1. recording' \in {recording, 0} \/ recording' # doomed'.job
    BY <1>1 DEF TypeOK
  <2>2. (CancelWaits' <=> CancelWaits) /\ (NoneAfter(doomed.at)' <=> NoneAfter(doomed.at))
    BY <1>1 DEF CancelWaits, NoneAfter, IsCancel, IsSignal
  <2>3. \A w \in workers : NoneAfter(w.escaped)' <=> NoneAfter(w.escaped)
    BY <1>1 DEF NoneAfter, IsCancel, IsSignal
  <2>4. QED
    BY <1>1, <2>1, <2>2, <2>3 DEF Cancelling
<1>2. ASSUME NEW w \in workers, WorkerFails(w) PROVE Cancelling'
  <2>1. PICK new : workers' = {new} /\ new.command = "none"
    BY <1>2, EndGoesOn
  <2>2. UNCHANGED <<channel, gate, doomed, recording>> /\ disturbed'
    BY <1>2 DEF WorkerFails
  <2>3. NoneAfter(doomed.at) => NoneAfter(doomed.at)'
    BY <2>2 DEF NoneAfter, IsCancel, IsSignal
  <2>4. QED
    BY <2>1, <2>2, <2>3 DEF Cancelling, Opening
<1>3. CASE Reconfigure \/ SetMode \/ ListenerCloses \/ ListenerRecovers
  <2>1. ~disturbed' => ~disturbed
    BY <1>3 DEF Reconfigure, SetMode, ListenerCloses, ListenerRecovers
  <2>2. QED
    BY <1>1, <1>3, <2>1 DEF Reconfigure, SetMode, ListenerCloses, ListenerRecovers
<1>4. CASE OtherClient \/ RearmPasses \/ UNCHANGED vars
  BY <1>1, <1>4 DEF OtherClient, RearmPasses, vars
<1>5. ASSUME NEW t \in stoppers, StopperWakes(t) \/ StopperSends(t) \/ StopperFails(t)
      PROVE  Cancelling'
  BY <1>1, <1>5 DEF StopperWakes, StopperSends, StopperFails
<1>6. QED
  BY <1>2, <1>3, <1>4, <1>5, HeardCancels, TakeCancels, WorkCancels, InputHeard
     DEF Next, Dispatch, Environment

-----------------------------------------------------------------------------
(* The invariant, and what it implies.                                     *)

\* The dispatch starts in the inductive invariant,
LEMMA InductiveInit == Init => Inductive
<1> SUFFICES ASSUME Init PROVE Inductive
  OBVIOUS
<1>1. DOMAIN channel = {} /\ channel \in Seq(Messages)
  BY DEF Init
<1>2. NewTracker \in Trackers /\ ~NewTracker.matched
      /\ \A d \in Devices : NewTracker.pressed[d] = {}
  BY DEF NewTracker, Trackers
<1>3. TypeOK
  <2>1. /\ held \in [Devices -> SUBSET Keys] /\ tracker \in Trackers
        /\ gate \in [inFlight : BOOLEAN, pending : {NoSignal} \cup Terminals, rearm : Nat]
    BY <1>2 DEF Init
  <2>2. doomed \in [job : 0..started, at : Nat] /\ ended \in [job : Nat, limit : Nat]
    BY DEF Init, NoEscape
  <2>3. /\ listening \in BOOLEAN /\ mode \in Modes /\ workers = {} /\ stoppers = {}
        /\ disturbed \in BOOLEAN /\ byHotkey = {} /\ armOf = {}
        /\ keysSeen = 0 /\ others = 0 /\ troubles = 0 /\ arms = 0 /\ passed = 0
        /\ recording = 0 /\ started = 0
    BY DEF Init
  <2>4. QED
    BY <1>1, <2>1, <2>2, <2>3 DEF TypeOK
<1>4. OneAction /\ Obedient /\ InOrder /\ Rearmed
  BY <1>1 DEF Init, OneAction, Obedient, InOrder, Rearmed
<1>5. Tracking
  BY <1>2 DEF Init, Tracking, Faithful
<1>6. Holding
  BY <1>1 DEF Init, Holding, Ending, Presses, NothingToEnd
<1>7. Cancelling
  BY <1>1 DEF Init, Cancelling
<1>8. QED
  BY <1>3, <1>4, <1>5, <1>6, <1>7 DEF Inductive

\* every step keeps it,
LEMMA InductiveStep == Inductive /\ [Next]_vars => Inductive'
  BY TypedStep, OneActionStep, ObedientStep, InOrderStep, RearmedStep, TrackingStep,
     HoldingStep, CancellingStep DEF Inductive

\* and so it always holds.
LEMMA Invariance == Spec => []Inductive
  BY InductiveInit, InductiveStep, PTL DEF Spec

\* Every variable keeps its range; in particular the gate never keeps a press,
\* and only recordings that exist are stopped after the maximum duration.
THEOREM TypeCorrect == Spec => []TypeOK
<1>1. Inductive => TypeOK
  BY DEF Inductive
<1>2. QED
  BY <1>1, Invariance, PTL

\* HotkeyDispatchGate: it is closed exactly while one action runs or its
\* completion waits in the channel, for any keys, clients and troubles.
THEOREM HonestGate == Spec => []GateIsHonest
<1>1. Inductive => GateIsHonest
  BY DEF Inductive, OneAction, GateIsHonest, IsDone
<1>2. QED
  BY <1>1, Invariance, PTL

\* dispatch_hotkey in hold mode: once everything is quiet and no keyboard holds
\* the hotkey, no recording that the hotkey started is left open.
THEOREM ReleaseEnds == Spec => []HoldEndsWithRelease
<1>1. Inductive => HoldEndsWithRelease
  <2> SUFFICES ASSUME Inductive, Quiet, ~disturbed, mode = "hold", \A d \in Devices : ~Held(d)
               PROVE  recording \notin byHotkey
    BY DEF HoldEndsWithRelease
  <2>1. ~tracker.matched
    BY DEF Inductive, Tracking, Faithful, AnyMatches, Matches, Held, TypeOK, Trackers
  <2>2. DOMAIN channel = {} /\ workers = {} /\ gate.pending = NoSignal
    BY DEF Inductive, Quiet, OneAction
  <2>3. ~EndComes
    BY <2>2 DEF EndComes
  <2>4. QED
    BY <2>1, <2>3 DEF Inductive, Holding, Ending, NothingToEnd
<1>2. QED
  BY <1>1, Invariance, PTL

\* Escape in a recording, or while the hotkey starts it, ends it, and no key
\* seen after Escape makes it a stop, which would transcribe what was cancelled.
THEOREM EscapeCancels == Spec => []CancelIsHonoured
<1>1. Inductive => CancelIsHonoured
  <2> SUFFICES ASSUME Inductive, ~disturbed PROVE
        /\ Quiet => recording = 0 \/ recording # doomed.job
        /\ \A w \in workers :
             w.command = "stop" /\ recording = w.target /\ w.target = doomed.job
               => w.at < doomed.at
    BY DEF CancelIsHonoured
  <2>1. Quiet => ~CancelWaits /\ workers = {}
    BY DEF Inductive, Quiet, OneAction, CancelWaits, NoSignal
  <2>2. ASSUME NEW w \in workers, w.command = "stop", recording = w.target, w.target = doomed.job
        PROVE  w.at < doomed.at
    <3>1. recording # 0
      BY <2>2 DEF Inductive, Obedient
    <3>2. NoneAfter(doomed.at) /\ CancelWaits
      BY <2>2, <3>1 DEF Inductive, Cancelling, OneAction
    <3>3. w.at \in Nat /\ doomed.at \in Nat
      BY DEF Inductive, TypeOK, ActionThreads
    <3>4. ASSUME NEW i \in DOMAIN channel, IsCancel(i) PROVE w.at < doomed.at
      <4>1. channel[i].at \in Nat
        BY <3>4 DEF Inductive, TypeOK, Messages, IsCancel, IsSignal
      <4>2. w.at < channel[i].at /\ channel[i].at <= doomed.at
        BY <3>2, <3>4 DEF Inductive, InOrder, NoneAfter, IsCancel
      <4>3. QED
        BY <3>3, <4>1, <4>2
    <3>5. ASSUME gate.pending.signal = "Cancelled" PROVE w.at < doomed.at
      <4>1. gate.pending # NoSignal /\ gate.pending.at \in Nat
        BY <3>5 DEF Inductive, TypeOK, Terminals, NoSignal
      <4>2. w.at < gate.pending.at /\ gate.pending.at <= doomed.at
        BY <3>2, <3>5, <4>1 DEF Inductive, InOrder, NoneAfter
      <4>3. QED
        BY <3>3, <4>1, <4>2
    <3>6. QED
      BY <3>2, <3>4, <3>5 DEF CancelWaits
  <2>3. QED
    BY <2>1, <2>2 DEF Inductive, Cancelling
<1>2. QED
  BY <1>1, Invariance, PTL

\* Toggle mode: a press seen before the start of a recording was acknowledged,
\* or within TOGGLE_REARM_DELAY after it, never becomes its stop.
THEOREM BouncesAreDropped == Spec => []BounceNeverStops
<1>1. Inductive => BounceNeverStops
  <2> SUFFICES ASSUME Inductive, NEW w \in workers, w.mode = "toggle", w.signal = "Pressed",
                      NEW a \in armOf
               PROVE  w.seen >= a.arm
    BY DEF BounceNeverStops
  <2>1. gate.rearm = arms /\ w.seen >= gate.rearm
    BY OnlyAction DEF Inductive, Rearmed
  <2>2. arms \in Nat /\ a.arm \in 0..arms /\ w.seen \in Nat
    BY DEF Inductive, TypeOK, ActionThreads
  <2>3. QED
    BY <2>1, <2>2
<1>2. QED
  BY <1>1, Invariance, PTL
=============================================================================
