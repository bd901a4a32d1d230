----------------------------- MODULE JobContract -----------------------------
(***************************************************************************)
(* What the daemon promises about one dictation, whatever fails and        *)
(* whenever the process dies: it only moves forward (unborn, open,         *)
(* delivered, closed); text is pasted only while it is open, and a second  *)
(* time only while the user insists on delivering it again; it counts as   *)
(* delivered only after a paste; a delivered one is closed by recording    *)
(* it, unless the user has erased it, and what was erased stays erased.    *)
(* DictationDaemon implements this.                                        *)
(***************************************************************************)
CONSTANT Jobs

VARIABLES life,      \* [Jobs -> {"unborn", "open", "delivered", "closed"}]
          insisted,  \* jobs whose delivery the user is asking for again
          pasted,    \* jobs handed to the focused application at least once
          recorded,  \* jobs in the usage totals (and History)
          erased     \* jobs the user removed from History

contract == <<life, insisted, pasted, recorded, erased>>

Init ==
  /\ life = [j \in Jobs |-> "unborn"]
  /\ insisted = {} /\ pasted = {} /\ recorded = {} /\ erased = {}

Become(j, from, to) == life[j] = from /\ life' = [life EXCEPT ![j] = to]

Begin(j) ==
  /\ Become(j, "unborn", "open")
  /\ UNCHANGED <<insisted, pasted, recorded, erased>>

Insist(j) ==
  /\ life[j] = "open"
  /\ insisted' = {j}
  /\ UNCHANGED <<life, pasted, recorded, erased>>

\* The request was served, refused, or lost with the process.
Relent ==
  /\ insisted' = {}
  /\ UNCHANGED <<life, pasted, recorded, erased>>

Paste(j) ==
  /\ life[j] = "open"
  /\ j \in pasted => j \in insisted
  /\ pasted' = pasted \cup {j}
  /\ UNCHANGED <<life, insisted, recorded, erased>>

Deliver(j) ==
  /\ j \in pasted /\ Become(j, "open", "delivered")
  /\ UNCHANGED <<insisted, pasted, recorded, erased>>

\* No speech, discarded, or deleted from Recovery.
Drop(j) ==
  /\ Become(j, "open", "closed")
  /\ UNCHANGED <<insisted, pasted, recorded, erased>>

Record(j) ==
  /\ Become(j, "delivered", "closed")
  /\ \/ j \notin erased /\ recorded' = recorded \cup {j}
     \/ j \in erased /\ UNCHANGED recorded
  /\ UNCHANGED <<insisted, pasted, erased>>

Erase(S) ==
  /\ \A j \in S : life[j] = "delivered" \/ j \in recorded
  /\ recorded' = recorded \ S /\ erased' = erased \cup S
  /\ UNCHANGED <<life, insisted, pasted>>

Next ==
  \/ \E j \in Jobs : \/ Begin(j) \/ Insist(j) \/ Paste(j) \/ Deliver(j)
                     \/ Drop(j) \/ Record(j)
  \/ Relent
  \/ \E S \in SUBSET Jobs : Erase(S)

Spec == Init /\ [][Next]_contract
=============================================================================
