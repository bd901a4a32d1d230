---------------------------- MODULE LinuxDelivery ----------------------------
(***************************************************************************)
(* One-shot delivery on Linux: SystemDeliverer::deliver drives the         *)
(* PasteDelivery state machine: it observes the focus, publishes the text, *)
(* observes again, publishes again when the focus moved, and types one     *)
(* chord on a uinput keyboard.  The user moves the focus at any time.      *)
(* Source: crates/agentdictate-app/src/system.rs and crates/agentdictate-  *)
(* linux/src/paste.rs, focus.rs, clipboard.rs and injection.rs.            *)
(***************************************************************************)
EXTENDS Naturals

CONSTANTS Windows,        \* the X11 windows; "wayland" stands for every other target
          MaxDeliveries,  \* bound on the calls of deliver
          MaxMoves        \* bound on the focus changes

VARIABLES
  wayland,  \* the session is a Wayland session
  focus,    \* the focused target
  moves,    \* focus changes so far
  calls,    \* calls of deliver so far
  late,     \* the five seconds of this call have passed
  action,   \* PasteDelivery::action: "observe", "publish", "inject" or "finished"
  target,   \* PasteDelivery::target
  protocol, \* clipboard_protocol
  ready,    \* clipboard_ready
  copied,   \* copied_this_attempt
  seen,     \* history: the targets observed since the clipboard was published
  keyboard, \* the uinput device exists
  outcome, typed, held   \* see DeliveryContract

delivery == <<action, target, protocol, ready, copied, seen>>
vars == <<wayland, focus, moves, calls, late, delivery, keyboard, outcome, typed, held>>
user == <<wayland, focus, moves, calls>>

Targets == Windows \cup {"wayland"}
Protocol(t) == IF t = "wayland" THEN "Wayland" ELSE "X11"

Init ==
  /\ wayland \in BOOLEAN /\ focus \in IF wayland THEN Targets ELSE Windows
  /\ moves = 0 /\ calls = 0 /\ late = FALSE
  /\ action = "finished" /\ target = "none" /\ protocol = "none"
  /\ ready = FALSE /\ copied = FALSE /\ seen = {}
  /\ keyboard \in BOOLEAN
  /\ outcome = "error" /\ typed = "none" /\ held = FALSE

Returns(o) == outcome' = o /\ UNCHANGED <<typed, held>>
Continues == UNCHANGED <<outcome, typed, held>>

\* deliver begins with a fresh PasteDelivery.
Deliver ==
  /\ outcome # "none" /\ calls < MaxDeliveries
  /\ calls' = calls + 1 /\ late' = FALSE
  /\ action' = "observe" /\ target' = "none" /\ protocol' = "none"
  /\ ready' = FALSE /\ copied' = FALSE /\ seen' = {}
  /\ outcome' = "none" /\ typed' = "none" /\ held' = FALSE
  /\ UNCHANGED <<wayland, focus, moves, keyboard>>

Running(a) == outcome = "none" /\ action = a

\* xdotool or xprop fails: fatal in an X11 session only, and ambiguous once the
\* text was published.
ObserveFails ==
  /\ Running("observe") /\ ~late /\ ~wayland
  /\ Returns(IF copied THEN "ambiguous" ELSE "error")
  /\ UNCHANGED <<user, late, delivery, keyboard>>

\* Mutant: any target of the same protocol is the same focus.
SameProtocol(t) == target # "none" /\ Protocol(target) = Protocol(t)

\* same_focus: one X11 window is not another; Wayland targets look alike.
SameFocus(t) == target = t

\* focus_observed.  In a Wayland session an unfocused or unknown X11 window
\* means a Wayland target.
Observe(t) ==
  /\ Running("observe") /\ ~late
  /\ t = focus \/ (wayland /\ t = "wayland")
  /\ seen' = seen \cup {t}
  /\ IF ready /\ protocol = Protocol(t) /\ SameFocus(t)
     THEN action' = "inject" /\ UNCHANGED <<ready, target>>
     ELSE /\ ready' = (protocol = Protocol(t) /\ ready)
          /\ target' = t
          /\ action' = IF ready' THEN "observe" ELSE "publish"
  /\ Continues
  /\ UNCHANGED <<user, late, protocol, copied, keyboard>>

\* The selections are owned and one read back, primary before clipboard.
Publish ==
  /\ Running("publish") /\ action' = "observe"
  /\ protocol' = Protocol(target) /\ ready' = TRUE /\ copied' = TRUE /\ seen' = {}
  /\ Continues
  /\ UNCHANGED <<user, late, target, keyboard>>

\* An owner or a readback fails, or the deadline passes meanwhile.
PublishFails ==
  /\ Running("publish") /\ Returns("error")
  /\ UNCHANGED <<user, late, delivery, keyboard>>

\* DeadlineReached is looked at only before an observation.
DeadlineReached ==
  /\ Running("observe") /\ late
  /\ action' = "finished"
  /\ Returns(IF ready THEN "ambiguous" ELSE "error")
  /\ UNCHANGED <<user, late, target, protocol, ready, copied, seen, keyboard>>

\* inject presses nothing: no keyboard, or no time left for a whole chord.
InjectRefused ==
  /\ Running("inject") /\ typed = "none"
  /\ action' = "finished" /\ keyboard' \in BOOLEAN
  /\ Returns("ambiguous")
  /\ UNCHANGED <<user, late, target, protocol, ready, copied, seen>>

\* emit_chord: the keys go down one after the other.
Press ==
  /\ Running("inject") /\ typed = "none"
  /\ keyboard' = TRUE
  /\ typed' = "part" /\ held' = TRUE
  /\ UNCHANGED <<user, late, delivery, outcome>>

\* ... and up again in reverse order.
Release ==
  /\ Running("inject") /\ held
  /\ typed' = "all" /\ held' = FALSE
  /\ UNCHANGED <<user, late, delivery, keyboard, outcome>>

\* An event cannot be written: PressedKeys releases what it can and the device
\* is destroyed, at which the kernel releases the rest.
EmitFails ==
  /\ Running("inject") /\ held
  /\ keyboard' = FALSE /\ held' = FALSE
  /\ UNCHANGED <<user, late, delivery, outcome, typed>>

\* InjectionFinished.
Injected ==
  /\ Running("inject") /\ typed # "none" /\ ~held
  /\ action' = "finished"
  /\ Returns(IF typed = "all" THEN "submitted" ELSE "ambiguous")
  /\ UNCHANGED <<user, late, target, protocol, ready, copied, seen, keyboard>>

TimePasses ==
  /\ outcome = "none" /\ ~late /\ late' = TRUE
  /\ UNCHANGED <<user, delivery, keyboard, outcome, typed, held>>

MoveFocus(t) ==
  /\ moves < MaxMoves /\ moves' = moves + 1
  /\ t # focus /\ focus' = t /\ (~wayland => t # "wayland")
  /\ UNCHANGED <<wayland, calls, late, delivery, keyboard, outcome, typed, held>>

Next ==
  \/ Deliver \/ ObserveFails \/ \E t \in Targets : Observe(t)
  \/ Publish \/ PublishFails \/ DeadlineReached
  \/ InjectRefused \/ Press \/ Release \/ EmitFails \/ Injected
  \/ TimePasses \/ \E t \in Targets : MoveFocus(t)

Spec == Init /\ [][Next]_vars

-----------------------------------------------------------------------------
(* Properties.                                                             *)

\* What the chord has come to, and where deliver is: the inductive invariant.
Chord ==
  /\ outcome \in {"none", "submitted", "ambiguous", "error"}
  /\ typed \in {"none", "part", "all"} /\ held \in BOOLEAN
  /\ held => outcome = "none" /\ action = "inject" /\ typed = "part"
  /\ outcome = "none" /\ action # "inject" => typed = "none"

Contract == INSTANCE DeliveryContract

\* deliver keeps the promise the daemon's exactly-once delivery rests on, with
\* moving focus, failing tools, a passed deadline and a breaking keyboard.
ImplementsDelivery == Contract!Spec

\* The chord is typed only after a target was observed again since the text was
\* last published, for that target's protocol: a window that was in focus at one
\* look only is not taken for the target (paste.rs:250-275).  Wayland targets look
\* alike, and the focus may still move between the last look and the keys.
FocusIsStable ==
  action = "inject" => seen # {} /\ target \in seen /\ ready
                        /\ protocol = Protocol(target)

\* No key stays down after a call, also when writing an event failed in the
\* middle of the chord: the keyboard goes with it (injection.rs).
KeysAreReleased == outcome # "none" => ~held

=============================================================================
