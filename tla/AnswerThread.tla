------------------------------ MODULE AnswerThread ------------------------------
(***************************************************************************)
(* How one answer of the meeting copilot is written: a fast model drafts   *)
(* it while the answer's thread waits, the researched answer continues the *)
(* draft, and both pass a gate that the engine opens, discards or stops    *)
(* meanwhile.  Each lane streams from a provider that may refuse the       *)
(* sign-in, the model or the request.  Source: crates/agentdictate-app/src/*)
(* copilot/engine.rs (answer_with, wait_for_instant), reveal.rs,           *)
(* providers.rs, and CopilotViewModel of crates/agentdictate-ui/src/       *)
(* copilot.rs.  When answers start and which is shown is CopilotAnswers'.  *)
(*                                                                         *)
(* Of a text only its number of pieces is kept.                            *)
(***************************************************************************)
EXTENDS Naturals, Sequences, SequencesExt

CONSTANTS MaxWords,   \* bound on the pieces a lane streams
          MaxTries    \* the further requests that a provider may take

VARIABLES
  thread,   \* step of the copilot-answer thread
  lane,     \* the instant draft's stream and the researched answer's
  said,     \* instant_text and text
  told,     \* the draft that the researched answer was asked to continue
  late,     \* INSTANT_WAIT is over
  cancel,   \* the answer's cancel flag
  engine,   \* the engine's answer: "active", "cancelling", "dropping" or "past"
  gate,     \* the RevealGate
  held,     \* events behind the gate
  card,     \* the answer's card in the window
  result,   \* the status that the thread is about to send
  notes     \* the text of AnswerFinished

vars == <<thread, lane, said, told, late, cancel, engine, gate, held, card, result,
          notes>>

LaneNames == {"instant", "research"}
Idle == [at |-> "none", tries |-> MaxTries, ok |-> TRUE]
NoText == [instant |-> 0, research |-> 0]
Fresh == [status |-> "thinking", instant |-> 0, research |-> 0, writing |-> FALSE]

Init ==
  /\ thread = "begin" /\ lane = [l \in LaneNames |-> Idle] /\ said = NoText /\ told = 0
  /\ late = FALSE /\ cancel = FALSE /\ engine = "active"
  /\ gate \in {"hidden", "shown"} /\ held = <<>> /\ card = Fresh
  /\ result = "none" /\ notes = NoText

-----------------------------------------------------------------------------
(* The gate and the card.                                                  *)

\* CopilotViewModel::apply.
Applied(c, event) ==
  CASE event = "instant" -> [c EXCEPT !.instant = @ + 1, !.writing = TRUE]
    [] event = "instant finished" -> [c EXCEPT !.writing = FALSE]
    [] event = "research" ->
         [c EXCEPT !.research = @ + 1,
                   !.status = IF @ \in {"thinking", "searching"} THEN "streaming" ELSE @]
    [] event = "searching" ->
         IF c.research > 0 \/ c.status = "done" THEN c ELSE [c EXCEPT !.status = event]
    [] OTHER -> [c EXCEPT !.status = event]

\* RevealGate::send.
Send(event) ==
  /\ held' = IF gate = "hidden" THEN Append(held, event) ELSE held
  /\ card' = IF gate = "shown" THEN Applied(card, event) ELSE card
  /\ UNCHANGED gate

Unsent == UNCHANGED <<gate, held, card>>

DiscardGate == gate' = "discarded" /\ held' = <<>> /\ UNCHANGED card

-----------------------------------------------------------------------------
(* A lane: AnswerProvider::stream and the sink it is given.                *)

LaneGoes(l, at) == lane' = [lane EXCEPT ![l].at = at]
LaneEnds(l, ok) == lane' = [lane EXCEPT ![l].at = "ended", ![l].ok = ok]

Rest == UNCHANGED <<thread, said, told, late, cancel, engine, result, notes>>

\* The flag is looked at before each request and before each message, not while the
\* thread waits for either.
LookAtFlag(l) ==
  /\ lane[l].at \in {"asking", "next"}
  /\ IF cancel THEN LaneEnds(l, TRUE)
     ELSE LaneGoes(l, IF lane[l].at = "asking" THEN "sent" ELSE "reading")
  /\ Rest /\ Unsent

\* Another request: a refused sign-in, for ChatGPT and once, is asked for again; for a
\* refused model, or form of the request, the next is tried.
TriesAgain(l) ==
  lane[l].tries > 0 /\ lane' = [lane EXCEPT ![l].at = "asking", ![l].tries = @ - 1]

Respond(l) ==
  /\ lane[l].at = "sent"
  /\ LaneGoes(l, "next") \/ TriesAgain(l) \/ LaneEnds(l, FALSE)
  /\ Rest /\ Unsent

\* The next message: a piece of text, nothing of interest, the end, or an error. An end
\* without the provider's own end of an answer counts as one for Claude Code.
Read(l) ==
  /\ lane[l].at = "reading"
  /\ \/ said[l] < MaxWords /\ LaneGoes(l, "read")
     \/ LaneGoes(l, "next")
     \/ \E ok \in BOOLEAN : LaneEnds(l, ok)
  /\ Rest /\ Unsent

\* The researched answer searches the web.
Search ==
  /\ lane["research"].at = "reading" /\ ~cancel /\ said.research < MaxWords
  /\ card.status # "searching" /\ "searching" \notin ToSet(held)
  /\ LaneGoes("research", "next") /\ Send("searching") /\ Rest

\* The sink looks at the flag, keeps the piece, and sends it.
Keep(l) ==
  /\ lane[l].at = "read"
  /\ IF cancel THEN LaneGoes(l, "next") /\ UNCHANGED said
     ELSE LaneGoes(l, "kept") /\ said' = [said EXCEPT ![l] = @ + 1]
  /\ UNCHANGED <<thread, told, late, cancel, engine, result, notes>> /\ Unsent

SendPiece(l) == lane[l].at = "kept" /\ LaneGoes(l, "next") /\ Send(l) /\ Rest

\* The thread of the instant draft, however its stream ended.
FinishesDraft == lane["instant"].at = "ended"

DraftEnds ==
  /\ FinishesDraft /\ LaneGoes("instant", "finished") /\ Send("instant finished")
  /\ Rest

DraftDone ==
  /\ lane["instant"].at = "finished" /\ LaneGoes("instant", "done")
  /\ Rest /\ Unsent

-----------------------------------------------------------------------------
(* The answer's thread.                                                    *)

Goes(step) == thread' = step
Stops == Goes("over") /\ notes' = NoText

\* A thread that cannot be started leaves the answer active and its card thinking; a
\* hidden draft of it is in no pending turn.
NotStarted ==
  /\ thread = "begin" /\ Goes("unstarted")
  /\ UNCHANGED <<lane, said, told, late, cancel, engine, result, notes>> /\ Unsent

\* The instant draft is wanted, and its thread can be started, or not.
Begin ==
  /\ thread = "begin"
  /\ \/ cancel /\ Stops /\ UNCHANGED lane
     \/ ~cancel /\ Goes("waiting") /\ UNCHANGED notes
        /\ (LaneGoes("instant", "asking") \/ UNCHANGED lane)
  /\ UNCHANGED <<said, told, late, cancel, engine, result>> /\ Unsent

\* wait_for_instant.
WaitedEnough == late \/ lane["instant"].at \in {"none", "done"}

TimeIsUp ==
  /\ thread = "waiting" /\ lane["instant"].at # "none" /\ ~late /\ late' = TRUE
  /\ UNCHANGED <<thread, lane, said, told, cancel, engine, result, notes>> /\ Unsent

Wait ==
  /\ thread = "waiting"
  /\ \/ cancel /\ Stops /\ UNCHANGED <<lane, told>>
     \/ ~cancel /\ WaitedEnough /\ Goes("research") /\ told' = said.instant
        /\ LaneGoes("research", "asking") /\ UNCHANGED notes
  /\ UNCHANGED <<said, late, cancel, engine, result>> /\ Unsent

\* The draft stands on its own if the follow-up fails.
Status(ok) ==
  IF told > 0 \/ (ok /\ said.research > 0) THEN "done" ELSE "failed"

Close ==
  /\ thread = "research" /\ lane["research"].at = "ended"
  /\ IF cancel THEN Goes("finishing") /\ UNCHANGED result
     ELSE Goes("status") /\ result' = Status(lane["research"].ok)
  /\ UNCHANGED <<lane, said, told, late, cancel, engine, notes>> /\ Unsent

SendStatus ==
  /\ thread = "status" /\ Goes("finishing") /\ Send(result)
  /\ UNCHANGED <<lane, said, told, late, cancel, engine, result, notes>>

\* combined_answer, kept to itself if it was discarded.
Finish ==
  /\ thread = "finishing" /\ Goes("over")
  /\ notes' = IF gate = "discarded" THEN NoText ELSE said
  /\ UNCHANGED <<lane, said, told, late, cancel, engine, result>> /\ Unsent

-----------------------------------------------------------------------------
(* The engine.                                                             *)

\* cancel_answer: the flag, then the gate.
CancelAnswer ==
  /\ engine = "active" /\ engine' = "cancelling" /\ cancel' = TRUE
  /\ UNCHANGED <<thread, lane, said, told, late, result, notes>> /\ Unsent

Cancelled ==
  /\ engine = "cancelling" /\ engine' = "past"
  /\ IF gate = "shown" THEN Send("done") ELSE DiscardGate
  /\ UNCHANGED <<thread, lane, said, told, late, cancel, result, notes>>

\* evaluate_turn: the question was confirmed.
Pending == gate = "hidden" /\ engine \in {"active", "past"} /\ thread # "unstarted"

Reveal ==
  /\ Pending
  /\ gate' = "shown" /\ card' = FoldLeft(Applied, card, held) /\ held' = <<>>
  /\ UNCHANGED <<thread, lane, said, told, late, cancel, engine, result, notes>>

\* drop_turn: the gate, and then the flag of an answer that is still active.
DropTurn ==
  /\ Pending /\ DiscardGate
  /\ engine' = IF engine = "active" THEN "dropping" ELSE "past"
  /\ UNCHANGED <<thread, lane, said, told, late, cancel, result, notes>>

Dropped ==
  /\ engine = "dropping" /\ engine' = "past" /\ cancel' = TRUE
  /\ UNCHANGED <<thread, lane, said, told, late, result, notes>> /\ Unsent

AnswerFinished ==
  /\ engine = "active" /\ thread = "over" /\ engine' = "past"
  /\ UNCHANGED <<thread, lane, said, told, late, cancel, result, notes>> /\ Unsent

Next ==
  \/ \E l \in LaneNames :
       LookAtFlag(l) \/ Respond(l) \/ Read(l) \/ Keep(l) \/ SendPiece(l)
  \/ Search \/ DraftEnds \/ DraftDone
  \/ NotStarted \/ Begin \/ TimeIsUp \/ Wait \/ Close \/ SendStatus \/ Finish
  \/ CancelAnswer \/ Cancelled \/ Reveal \/ DropTurn \/ Dropped \/ AnswerFinished

Spec == Init /\ [][Next]_vars

-----------------------------------------------------------------------------
Shown == gate = "shown" /\ engine # "cancelling"
Over == thread = "over" /\ lane["instant"].at \in {"none", "done"}

\* No card is left thinking or writing: whatever refuses, fails, is cancelled or
\* comes late, once a thread that was started and both lanes are over the card says so
\* (answer_with).
CardSettles ==
  Over /\ Shown => card.status \in {"done", "failed"} /\ ~card.writing

\* The researched answer is asked to continue the whole draft, and begins under a
\* draft that is written, unless the draft took longer than INSTANT_WAIT
\* (wait_for_instant).
ResearchContinuesTheDraft ==
  /\ lane["research"].at # "none" => told = said.instant \/ late
  /\ card.research > 0 => ~card.writing \/ late

\* What goes into the notes is what the card shows, revealed early or late; only a
\* draft that went on after INSTANT_WAIT, or a cancelled one, may be longer on the card.
NotesAreTheCard ==
  thread = "over" /\ notes # NoText /\ Shown =>
    /\ notes.research = card.research
    /\ notes.instant = card.instant \/ late \/ cancel

\* A draft the user reads is not called failed for the answer that was to follow it.
DraftStands == card.status = "failed" => card.instant = 0 \/ late

\* An answer the user stopped is done. (Not so: a failure that was found before the
\* flag was set is sent after the engine's Done.)
StoppedIsDone == engine = "past" /\ cancel /\ gate = "shown" => card.status = "done"

\* What was shown of a stopped answer is in the notes. (Not so: stopped while it waits
\* for the draft, the thread finishes with no text.)
ShownIsKept == Over /\ Shown /\ card.instant > 0 => notes.instant > 0

\* Again and again: a provider that says nothing keeps no answer back. The thread goes
\* on without the draft after INSTANT_WAIT, and what was cancelled comes to its end,
\* if each wait of a lane for its provider ends: an HTTP request has its own timeout, and
\* Claude Code is looked at every 100 ms (wait_for_instant, CANCEL_CHECK_INTERVAL).
NoneIsHeldUp ==
  thread \notin {"begin", "waiting"} /\ (cancel => Over \/ thread = "unstarted")
=============================================================================
