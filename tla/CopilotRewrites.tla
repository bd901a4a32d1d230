---------------------------- MODULE CopilotRewrites ----------------------------
(***************************************************************************)
(* Rewriting the line to say of an answer.  The window's answer cards keep *)
(* the rewrites as versions and show one; the engine rewrites one line at  *)
(* a time, in a thread that streams to the card, and remembers for the     *)
(* notes which version the user kept.  Source: crates/agentdictate-ui/src/ *)
(* copilot.rs and desktop/copilot_view.rs, crates/agentdictate-app/src/    *)
(* copilot/engine.rs.                                                      *)
(*                                                                         *)
(* Answers and rewrites are numbered as they start.  The text of a version *)
(* is the set of rewrites that wrote it.  Whatever is sent to the engine   *)
(* goes through up, in order, and to the window through down.              *)
(***************************************************************************)
EXTENDS Naturals, Sequences, FiniteSets, SequencesExt

CONSTANTS MaxAnswers, MaxRewrites,   \* bounds on the answers and the rewrites
          MaxCards,                  \* the cards the window keeps, 30 in the code
          MaxUp, MaxDown             \* bounds on what is on its way

VARIABLES
  cards,    \* CopilotViewModel::answers, newest last
  answers,  \* the answers' threads
  active,   \* active_answer, or 0
  rewrites, \* the rewrites' threads
  current,  \* the rewrite that rewrite_cancel stops, or 0
  kept,     \* Engine::kept, per answer a version's text; {} for none
  ending,   \* the session ends: no rewrite begins
  dropped,  \* the answers whose rewrite was asked for and never began
  up, down

vars == <<cards, answers, active, rewrites, current, kept, ending, dropped, up, down>>

Init ==
  /\ cards = <<>> /\ answers = <<>> /\ active = 0 /\ rewrites = <<>> /\ current = 0
  /\ kept = [id \in 1 .. MaxAnswers |-> {}]
  /\ ending = FALSE /\ dropped = {} /\ up = <<>> /\ down = <<>>

Tell(events) == Len(down) < MaxDown /\ down' = down \o events
Act(message) == Len(up) < MaxUp /\ up' = Append(up, message)

\* answer_mut, and what happens to that card; a card let go of is not missed.
CardsOf(id) == {i \in DOMAIN cards : cards[i].id = id}
Change(id, F(_)) == [i \in DOMAIN cards |-> IF cards[i].id = id THEN F(cards[i]) ELSE cards[i]]

\* The line as shown, the answer's own for 0.
Line(card) == IF card.shown = 0 THEN {} ELSE card.versions[card.shown]

-----------------------------------------------------------------------------
(* Answers.                                                                *)

\* answer: cancels the one before; the thread starts, and the window gets a card.
AnswerStarts ==
  /\ ~ending /\ Len(answers) < MaxAnswers
  /\ LET id == Len(answers) + 1
         done == IF active = 0 THEN <<>> ELSE <<[kind |-> "status", id |-> active, status |-> "Done"]>>
     IN /\ Tell(Append(done, [kind |-> "started", id |-> id]))
        /\ answers' = Append(answers, "thinking") /\ active' = id
  /\ UNCHANGED <<cards, rewrites, current, kept, ending, dropped, up>>

\* cancel_answer.
CancelAnswer ==
  /\ active # 0 /\ active' = 0
  /\ Tell(<<[kind |-> "status", id |-> active, status |-> "Done"]>>)
  /\ UNCHANGED <<cards, answers, rewrites, current, kept, ending, dropped, up>>

\* The thread reports its first text, even if it was cancelled just then.
AnswerStreams(id) ==
  /\ answers[id] = "thinking" /\ answers' = [answers EXCEPT ![id] = "streaming"]
  /\ Tell(<<[kind |-> "status", id |-> id, status |-> "Streaming"]>>)
  /\ UNCHANGED <<cards, active, rewrites, current, kept, ending, dropped, up>>

\* The thread ends; a cancelled one says nothing.
AnswerEnds(id) ==
  /\ answers[id] # "over" /\ answers' = [answers EXCEPT ![id] = "over"]
  /\ active' = IF active = id THEN 0 ELSE active
  /\ IF active = id THEN Tell(<<[kind |-> "status", id |-> id, status |-> "Done"]>>)
                    ELSE down' = down
  /\ UNCHANGED <<cards, rewrites, current, kept, ending, dropped, up>>

-----------------------------------------------------------------------------
(* The user, at the window.                                                *)

\* line_ready.
Ready(card) == card.status = "Done" /\ card.rewriting = FALSE

\* begin_rewrite.
BeginRewrite(id) ==
  /\ \E i \in CardsOf(id) : Ready(cards[i])
  /\ Len(rewrites) + Len(SelectSeq(up, LAMBDA m : m.kind = "rewrite")) < MaxRewrites
  /\ cards' = Change(id, LAMBDA card :
       [card EXCEPT !.versions = Append(@, {}), !.shown = Len(card.versions) + 1,
                    !.rewriting = TRUE])
  /\ Act([kind |-> "rewrite", id |-> id])
  /\ UNCHANGED <<answers, active, rewrites, current, kept, ending, dropped, down>>

\* step_version: the version shown is the one to keep.
StepVersion(id, forward) ==
  /\ \E i \in CardsOf(id) :
       /\ ~cards[i].rewriting
       /\ IF forward THEN cards[i].shown < Len(cards[i].versions) ELSE cards[i].shown > 0
       /\ cards' = [cards EXCEPT ![i].shown = IF forward THEN @ + 1 ELSE @ - 1]
       /\ Act([kind |-> "keep", id |-> id, text |-> Line(cards'[i])])
  /\ UNCHANGED <<answers, active, rewrites, current, kept, ending, dropped, down>>

-----------------------------------------------------------------------------
(* The engine and the rewrite's thread.                                    *)

Stop(threads, n) == IF n = 0 THEN threads ELSE [threads EXCEPT ![n].stopped = TRUE]

\* rewrite: stops the one in progress, of whichever answer; the thread may not start.
Rewrite(id, starts) ==
  IF ending
  THEN /\ dropped' = dropped \cup {id}
       /\ UNCHANGED <<rewrites, current>>
  ELSE /\ rewrites' = Append(Stop(rewrites, current),
                             [id |-> id, at |-> IF starts THEN "streaming" ELSE "failed",
                              wrote |-> FALSE, stopped |-> FALSE])
       /\ current' = Len(rewrites')
       /\ dropped' = IF starts THEN dropped ELSE dropped \cup {id}

Handle(starts) ==
  /\ up # <<>> /\ up' = Tail(up)
  /\ LET message == Head(up)
     IN CASE message.kind = "rewrite" -> Rewrite(message.id, starts) /\ kept' = kept
          [] message.kind \in {"keep", "rewritten"} ->
               /\ kept' = IF ending THEN kept ELSE [kept EXCEPT ![message.id] = message.text]
               /\ UNCHANGED <<rewrites, current, dropped>>
  /\ UNCHANGED <<cards, answers, active, ending, down>>

\* A delta goes to the card; one that was checked before the flag was set still does.
Delta(n) ==
  /\ rewrites[n].at = "streaming"
  /\ Tell(<<[kind |-> "delta", id |-> rewrites[n].id, n |-> n]>>)
  /\ rewrites' = [rewrites EXCEPT ![n].wrote = TRUE]
  /\ UNCHANGED <<cards, answers, active, current, kept, ending, dropped, up>>

\* The stream ends, whether or not with the quickest model after Claude's failed:
\* stopped, failed or empty, or with the line, which the engine is told of next.
RewriteFinished(n, fails) ==
  /\ rewrites[n].at = "streaming"
  /\ LET ok == ~rewrites[n].stopped /\ ~fails /\ rewrites[n].wrote
     IN /\ Tell(<<[kind |-> "finished", id |-> rewrites[n].id, ok |-> ok]>>)
        /\ rewrites' = [rewrites EXCEPT ![n].at = IF ok THEN "written" ELSE "failed"]
  /\ UNCHANGED <<cards, answers, active, current, kept, ending, dropped, up>>

Rewritten(n) ==
  /\ rewrites[n].at = "written"
  /\ Act([kind |-> "rewritten", id |-> rewrites[n].id, text |-> {n}])
  /\ rewrites' = [rewrites EXCEPT ![n].at = "over"]
  /\ UNCHANGED <<cards, answers, active, current, kept, ending, dropped, down>>

\* finish: what the engine is told from here on is not heard.
End ==
  /\ ~ending /\ ending' = TRUE
  /\ active' = 0
  /\ IF active = 0 THEN down' = down
     ELSE Tell(<<[kind |-> "status", id |-> active, status |-> "Done"]>>)
  /\ UNCHANGED <<cards, answers, rewrites, current, kept, dropped, up>>

-----------------------------------------------------------------------------
(* CopilotViewModel::apply.                                                *)

Started(id) ==
  LET new == Append(cards, [id |-> id, status |-> "Thinking", versions |-> <<>>,
                            shown |-> 0, rewriting |-> FALSE])
  IN IF Len(new) > MaxCards THEN Tail(new) ELSE new

\* A late report of progress does not reopen an answer that is done.
StatusOf(card, status) == IF card.status = "Done" THEN card ELSE [card EXCEPT !.status = status]

DeltaOf(card, n) ==
  IF card.rewriting THEN [card EXCEPT !.versions[Len(card.versions)] = @ \cup {n}] ELSE card

\* Whatever came of a rewrite that failed or is empty is taken back.
FinishedOf(card, ok) ==
  LET last == Len(card.versions)
      over == [card EXCEPT !.rewriting = FALSE]
  IN IF last > 0 /\ (~ok \/ card.versions[last] = {})
     THEN [over EXCEPT !.versions = Front(@), !.shown = IF @ < last THEN @ ELSE last - 1]
     ELSE over

Apply ==
  /\ down # <<>> /\ down' = Tail(down)
  /\ LET event == Head(down)
     IN cards' = CASE event.kind = "started" -> Started(event.id)
                   [] event.kind = "status" -> Change(event.id, LAMBDA c : StatusOf(c, event.status))
                   [] event.kind = "delta" -> Change(event.id, LAMBDA c : DeltaOf(c, event.n))
                   [] event.kind = "finished" -> Change(event.id, LAMBDA c : FinishedOf(c, event.ok))
  /\ UNCHANGED <<answers, active, rewrites, current, kept, ending, dropped, up>>

Next ==
  \/ AnswerStarts \/ CancelAnswer
  \/ \E id \in DOMAIN answers : AnswerStreams(id) \/ AnswerEnds(id) \/ BeginRewrite(id)
  \/ \E id \in DOMAIN answers, forward \in BOOLEAN : StepVersion(id, forward)
  \/ \E starts \in BOOLEAN : Handle(starts)
  \/ \E n \in DOMAIN rewrites, fails \in BOOLEAN : RewriteFinished(n, fails)
  \/ \E n \in DOMAIN rewrites : Delta(n) \/ Rewritten(n)
  \/ End \/ Apply

Spec == Init /\ [][Next]_vars

-----------------------------------------------------------------------------
Sent(queue, kind, id) == \E i \in DOMAIN queue : queue[i].kind = kind /\ queue[i].id = id

\* A version is the work of one rewrite, of that answer's line: one that was
\* stopped or comes late writes into no other version, of this or another card,
\* and none stays of one that failed (copilot.rs, apply; engine.rs, rewrite).
VersionsAreOneRewrite ==
  \A i \in DOMAIN cards : \A v \in DOMAIN cards[i].versions :
    LET text == cards[i].versions[v]
        writing == cards[i].rewriting /\ v = Len(cards[i].versions)
    IN /\ Cardinality(text) <= 1 /\ (text = {} => writing)
       /\ \A n \in text : /\ rewrites[n].id = cards[i].id
                          /\ ~writing => rewrites[n].at \in {"written", "over"}

\* A card that waits for a rewrite will hear of one: it is asked for, being
\* written, or its end is on its way; unless its thread never started or the
\* session ended first, which nobody tells the card (engine.rs, rewrite).
RewritesEnd ==
  \A i \in DOMAIN cards : cards[i].rewriting =>
    LET id == cards[i].id
    IN \/ Sent(up, "rewrite", id) \/ Sent(down, "finished", id) \/ id \in dropped
       \/ \E n \in DOMAIN rewrites : rewrites[n].id = id /\ rewrites[n].at = "streaming"

\* Notes follow an answer only with a whole line that its card offers or offered:
\* never with one that failed or was stopped, nor with another answer's.
KeptWasOffered ==
  \A id \in 1 .. MaxAnswers : \A n \in kept[id] :
    /\ rewrites[n].id = id /\ rewrites[n].at \in {"written", "over"}
    /\ \A i \in CardsOf(id) : \E v \in DOMAIN cards[i].versions :
         n \in cards[i].versions[v] \/ cards[i].rewriting \/ Sent(down, "delta", id)

\* "Copying and the meeting notes use the one you settle on": once nothing is on
\* its way, the version shown is the version kept (docs/COPILOT.md, Rewrites).
NotesUseTheVersionShown ==
  (/\ up = <<>> /\ down = <<>> /\ ~ending
   /\ \A n \in DOMAIN rewrites : rewrites[n].at \in {"over", "failed"})
  => \A i \in DOMAIN cards : cards[i].rewriting \/ kept[cards[i].id] = Line(cards[i])

\* Again and again: no card waits for a rewrite, unless its thread never started or
\* the session ended first (engine.rs, rewrite).
NoCardWaits == \A i \in DOMAIN cards : cards[i].rewriting => cards[i].id \in dropped
=============================================================================
