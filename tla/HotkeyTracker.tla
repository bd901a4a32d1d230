---------------------------- MODULE HotkeyTracker ----------------------------
(***************************************************************************)
(* Key events of several keyboards become the edges of one hotkey:         *)
(* HotkeyTracker of crates/agentdictate-linux/src/hotkey.rs.  A tracker is *)
(* a record: the keys each keyboard holds down, whether the hotkey is held *)
(* and whether Escape silenced it until it is let go.  An event returns    *)
(* the new tracker and the signal it emits, or "none".                     *)
(***************************************************************************)
EXTENDS Naturals, FiniteSets

CONSTANTS Devices,  \* keyboards
          Keys,     \* key codes
          Escape,   \* KEY_ESC
          Groups    \* HotkeySpec: a set of sets of keys, one of each is needed

\* HotkeySpec::from_str refuses a hotkey of no keys.
ASSUME KeysAssumption ==
  Escape \in Keys /\ Groups \subseteq SUBSET Keys /\ Groups # {}

Signals == {"Pressed", "Released", "Cancelled"}
Trackers == [pressed : [Devices -> SUBSET Keys], matched : BOOLEAN,
             cancelled : BOOLEAN]

NewTracker ==
  [pressed |-> [d \in Devices |-> {}], matched |-> FALSE, cancelled |-> FALSE]

Matches(keys) == \A group \in Groups : group \cap keys # {}
AnyMatches(pressed) == \E d \in Devices : Matches(pressed[d])

\* transition: an edge of the hotkey, unless Escape silenced it.
Transition(t, pressed) ==
  LET matches == AnyMatches(pressed)
  IN IF t.cancelled
     THEN [tracker |-> [t EXCEPT !.pressed = pressed, !.cancelled = matches],
           signal  |-> "none"]
     ELSE [tracker |-> [t EXCEPT !.pressed = pressed, !.matched = matches],
           signal  |-> IF t.matched = matches THEN "none"
                       ELSE IF matches THEN "Pressed" ELSE "Released"]

\* input: `down` for a press or a repeat, `fresh` for a press.
KeyInput(t, d, key, down, fresh) ==
  LET pressed == [t.pressed EXCEPT ![d] = IF down THEN @ \cup {key} ELSE @ \ {key}]
  IN IF key = Escape /\ fresh
     THEN [tracker |-> [pressed |-> pressed, matched |-> FALSE, cancelled |-> TRUE],
           signal  |-> "Cancelled"]
     ELSE Transition(t, pressed)

\* remove_device: an unplugged keyboard holds nothing.
RemoveDevice(t, d) == Transition(t, [t.pressed EXCEPT ![d] = {}])
=============================================================================
