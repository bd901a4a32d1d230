--------------------------- MODULE DeliveryContract ---------------------------
(***************************************************************************)
(* What Deliverer::deliver promises the daemon on every platform: at most  *)
(* one paste is typed per call, an error means that nothing was typed, and *)
(* a submission that all of it was: only then may the daemon offer the     *)
(* text again after an error and call a submitted one delivered.  A key    *)
(* stays down only after an answer that says the outcome is ambiguous.     *)
(* Source: crates/agentdictate-runtime/src/ports.rs (Deliverer).           *)
(***************************************************************************)
VARIABLES
  outcome,  \* "none" while a call runs, else what the newest call returned
  typed,    \* the paste keys of this call that were sent: "none", "part", "all"
  held      \* a key this call pressed is down

vars == <<outcome, typed, held>>

Init == outcome = "error" /\ typed = "none" /\ held = FALSE

\* The daemon asks for a delivery.
Deliver ==
  /\ outcome # "none"
  /\ outcome' = "none" /\ typed' = "none" /\ held' = FALSE

\* The keys of one paste go down and up, once.
Type ==
  /\ outcome = "none"
  /\ \/ typed = "none" /\ typed' = "part" /\ held' = TRUE
     \/ typed = "none" /\ typed' \in {"part", "all"} /\ held' = FALSE
     \/ typed = "part" /\ typed' = "all" /\ held' = FALSE
     \/ typed = "part" /\ typed' = "part" /\ held' = FALSE
  /\ UNCHANGED outcome

Return ==
  /\ outcome = "none"
  /\ \/ outcome' = "submitted" /\ typed = "all" /\ ~held
     \/ outcome' = "ambiguous"
     \/ outcome' = "error" /\ typed = "none" /\ ~held
  /\ UNCHANGED <<typed, held>>

Next == Deliver \/ Type \/ Return

Spec == Init /\ [][Next]_vars

=============================================================================
