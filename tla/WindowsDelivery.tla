--------------------------- MODULE WindowsDelivery ---------------------------
(***************************************************************************)
(* One-shot delivery on Windows: wait for the user's modifiers, look at    *)
(* the foreground window, put the text on the clipboard, look again and    *)
(* send one chord with SendInput.  Before it asks for a recovered text the *)
(* application minimises its own window.                                   *)
(* Source: crates/agentdictate-app/src/windows/system.rs.                  *)
(***************************************************************************)
EXTENDS Naturals

CONSTANTS Windows,        \* the windows of other applications
          MaxDeliveries,  \* bound on the calls of deliver
          MaxMoves        \* bound on what the user does with window and keyboard

VARIABLES
  foreground, \* the foreground window: one of them, "ours" or "none"
  modifiers,  \* a modifier is down, as GetAsyncKeyState sees it
  moves,      \* what the user did so far
  asking,     \* the application: "idle", "minimised", or "asked" the daemon
  calls,      \* calls of deliver so far
  step,       \* where deliver is
  target,     \* the window deliver saw before it copied
  aim,        \* history: the window in front when the chord was sent
  strayed,    \* history: the foreground has moved since deliver looked again
  outcome, typed, held   \* see DeliveryContract

user == <<foreground, modifiers, moves, strayed>>
vars == <<foreground, modifiers, moves, strayed, asking, calls, step, target, aim,
          outcome, typed, held>>

Fronts == Windows \cup {"ours", "none"}

Init ==
  /\ foreground \in Fronts /\ modifiers \in BOOLEAN /\ moves = 0 /\ strayed = FALSE
  /\ asking = "idle" /\ calls = 0 /\ step = "returned" /\ target = "none" /\ aim = "none"
  /\ outcome = "error" /\ typed = "none" /\ held = FALSE

Goes(s) == step' = s /\ UNCHANGED <<asking, calls, outcome, held>>
Returns(o) ==
  /\ step' = "returned" /\ outcome' = o
  /\ UNCHANGED <<user, asking, calls, target, aim, typed, held>>

\* prepare_recovery_delivery: only a window of the application is minimised, which
\* may be refused.
Prepare ==
  /\ asking = "idle" /\ calls < MaxDeliveries
  /\ asking' = IF foreground = "ours" THEN "minimised" ELSE "asked"
  /\ UNCHANGED <<user, calls, step, target, aim, outcome, typed, held>>

\* wait_for_recovery_focus: another window is in front, or two seconds have passed.
Prepared ==
  /\ asking = "minimised"
  /\ asking' = IF foreground \in Windows THEN "asked" ELSE "idle"
  /\ UNCHANGED <<user, calls, step, target, aim, outcome, typed, held>>

\* The daemon delivers the recovered text, or a new one.
Deliver ==
  /\ step = "returned" /\ calls < MaxDeliveries
  /\ asking' \in {asking, IF asking = "asked" THEN "idle" ELSE asking}
  /\ calls' = calls + 1 /\ step' = "waiting" /\ target' = "none" /\ aim' = "none"
  /\ strayed' = FALSE /\ outcome' = "none" /\ typed' = "none" /\ held' = FALSE
  /\ UNCHANGED <<foreground, modifiers, moves>>

\* Held modifiers are waited for, five seconds at most.
ModifiersStay == step = "waiting" /\ modifiers /\ Returns("error")

ModifiersUp ==
  /\ step = "waiting" /\ ~modifiers /\ Goes("looking")
  /\ UNCHANGED <<user, target, aim, typed>>

\* A window of ours passes when its process cannot be asked for its name.
SeeTarget ==
  /\ step = "looking" /\ foreground # "none"
  /\ target' = foreground /\ Goes("copying") /\ UNCHANGED <<user, aim, typed>>

\* No window, or one of our own.
NoTarget == step = "looking" /\ foreground \notin Windows /\ Returns("error")

\* copy_text publishes the text and reads it back.
Copy ==
  /\ step = "copying" /\ Goes("focusing") /\ UNCHANGED <<user, target, aim, typed>>

\* The clipboard is busy for two seconds, or does not hold the text.
CopyFails == step = "copying" /\ Returns("error")

\* Mutant: the second look at the window is left out.
NoSecondLook ==
  /\ step = "focusing" /\ Goes("sensing")
  /\ UNCHANGED <<user, target, aim, typed>>

\* deliver looks again: at the window, and then at the modifiers.
LookAgain ==
  /\ step = "focusing" /\ foreground = target /\ Goes("sensing")
  /\ UNCHANGED <<user, target, aim, typed>>

FeelAgain ==
  /\ step = "sensing" /\ ~modifiers /\ Goes("sending")
  /\ UNCHANGED <<user, target, aim, typed>>

\* The focus or the keyboard moved while the clipboard was busy.
TargetMoved ==
  /\ (step = "focusing" /\ foreground # target) \/ (step = "sensing" /\ modifiers)
  /\ Returns("ambiguous")

\* SendInput queues all events, or none, or some: the first key, a modifier in
\* every chord, is down then.
SendInput ==
  /\ step = "sending" /\ aim' = foreground /\ step' = "sent"
  /\ typed' \in {"none", "part", "all"} /\ held' = (typed' = "part")
  /\ UNCHANGED <<user, asking, calls, target, outcome>>

\* An incomplete chord is released, by a second SendInput
Release ==
  /\ step = "sent" /\ held /\ held' = FALSE
  /\ UNCHANGED <<user, asking, calls, step, target, aim, outcome, typed>>

\* whose result nobody looks at: it may queue nothing, or not the last event, and
\* the modifier stays down.  The next call waits for it.
ReleaseFails ==
  /\ step = "sent" /\ held
  /\ modifiers' = TRUE
  /\ step' = "returned" /\ outcome' = "ambiguous"
  /\ UNCHANGED <<foreground, moves, strayed, asking, calls, target, aim, typed, held>>

\* Mutant: an incomplete chord counts as not sent.
PartialIsError ==
  step = "sent" /\ ~held /\ Returns(IF typed = "all" THEN "submitted" ELSE "error")

\* ... and left ambiguous.
Sent ==
  step = "sent" /\ ~held /\ Returns(IF typed = "all" THEN "submitted" ELSE "ambiguous")

\* The user, or the window that was minimised.
MoveFocus(w) ==
  /\ moves < MaxMoves /\ moves' = moves + 1
  /\ w # foreground /\ foreground' = w
  /\ strayed' = (strayed \/ step \in {"sensing", "sending"})
  /\ UNCHANGED <<modifiers, asking, calls, step, target, aim, outcome, typed, held>>

PressModifier ==
  /\ moves < MaxMoves /\ moves' = moves + 1
  /\ modifiers' = ~modifiers
  /\ UNCHANGED <<foreground, strayed, asking, calls, step, target, aim, outcome, typed, held>>

Next ==
  \/ Prepare \/ Prepared \/ Deliver
  \/ ModifiersStay \/ ModifiersUp \/ SeeTarget \/ NoTarget \/ Copy \/ CopyFails
  \/ LookAgain \/ FeelAgain \/ TargetMoved \/ SendInput \/ Release \/ ReleaseFails \/ Sent
  \/ \E w \in Fronts : MoveFocus(w)
  \/ PressModifier

Spec == Init /\ [][Next]_vars

-----------------------------------------------------------------------------
(* Properties.                                                             *)

\* What the chord has come to, where deliver is, and where the user is: the
\* inductive invariant.
Chord ==
  /\ outcome \in {"none", "submitted", "ambiguous", "error"}
  /\ typed \in {"none", "part", "all"} /\ held \in BOOLEAN
  /\ step = "returned" <=> outcome # "none"
  /\ held => typed = "part" /\ (step = "sent" \/ outcome = "ambiguous")
  /\ step \notin {"sent", "returned"} => typed = "none" /\ aim = "none"
  /\ step \in {"sensing", "sending"} => foreground = target \/ strayed

Contract == INSTANCE DeliveryContract

\* deliver keeps the promise the daemon's exactly-once delivery rests on, with
\* a moving focus, held modifiers, a busy clipboard, a partial SendInput and one
\* that does not release.
ImplementsDelivery == Contract!Spec

\* The chord goes to the window that was in front before the clipboard was taken,
\* unless the focus moved after deliver had seen that window there again: what
\* happened while it waited for modifiers or for the clipboard does not misdirect it.
AimIsTarget == aim # "none" => aim = target \/ strayed

=============================================================================
