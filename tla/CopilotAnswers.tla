---------------------------- MODULE CopilotAnswers ----------------------------
(***************************************************************************)
(* The meeting copilot's answers.  The user asks for one, or the engine    *)
(* answers the other side by itself: a line worded like a question has its *)
(* answer drafted behind a RevealGate while a fast model judges whether it *)
(* is meant for the user, and the draft is shown, or discarded unseen, when*)
(* that and a pause are known.  Source: crates/agentdictate-app/src/       *)
(* copilot/engine.rs and reveal.rs.                                        *)
(*                                                                         *)
(* Answers are numbered as they start.  Of time only the moments that the  *)
(* engine compares are kept, as the age of the pending turn.               *)
(***************************************************************************)
EXTENDS Naturals, Sequences, FiniteSets, SequencesExt

CONSTANTS MaxTurns, MaxAnswers    \* bounds on the lines heard and the answers

VARIABLES
  turn,      \* pending_turn, with id 0 for none
  heard,     \* lines heard; next_turn
  judging,   \* turns whose verdict is asked for or on its way
  active,    \* active_answer, or 0
  gate,      \* per answer the state of its RevealGate
  asked,     \* the answers the user asked for
  stopped,   \* answers whose cancel flag is set
  running,   \* answers whose thread is running
  mail,      \* AnswerFinished messages not handled yet
  discarded, \* drafts kept out of the notes
  notes,     \* Engine::answers
  window,    \* the answers the window was told of, in order
  answered,  \* last_auto_question is set
  speaking,  \* them_speaking
  listening, \* auto_answer is on and the user takes part in the conversation
  ending

vars == <<turn, heard, judging, active, gate, asked, stopped, running, mail, discarded,
          notes, window, answered, speaking, listening, ending>>

Fresh == 0   Paused == 1   Overdue == 2   Expired == 3      \* ages of a turn

NoTurn == [id |-> 0, likely |-> FALSE, verdict |-> "none", draft |-> 0,
           finished |-> FALSE, resumed |-> FALSE, age |-> Fresh]

Init ==
  /\ turn = NoTurn /\ heard = 0 /\ judging = {}
  /\ active = 0 /\ gate = <<>> /\ asked = {} /\ stopped = {} /\ running = {} /\ mail = {}
  /\ discarded = {} /\ notes = <<>> /\ window = <<>>
  /\ answered = FALSE /\ speaking = FALSE /\ listening = TRUE /\ ending = FALSE

\* What the engine's functions change, as one record, so that they compose.
Now == [turn |-> turn, active |-> active, gate |-> gate, asked |-> asked,
        stopped |-> stopped, running |-> running, discarded |-> discarded,
        notes |-> notes, window |-> window, answered |-> answered,
        speaking |-> speaking, listening |-> listening, ending |-> ending]

Becomes(s) ==
  /\ Len(s.gate) <= MaxAnswers
  /\ turn' = s.turn /\ active' = s.active /\ gate' = s.gate /\ asked' = s.asked
  /\ stopped' = s.stopped /\ running' = s.running /\ discarded' = s.discarded
  /\ notes' = s.notes /\ window' = s.window /\ answered' = s.answered
  /\ speaking' = s.speaking /\ listening' = s.listening /\ ending' = s.ending

-----------------------------------------------------------------------------
(* Starting and stopping answers.                                          *)

\* RevealGate::discard: a shown answer cannot be withdrawn.
Discard(s, id) ==
  IF s.gate[id] = "shown" THEN s
  ELSE [s EXCEPT !.gate[id] = "discarded", !.discarded = @ \cup {id}]

\* cancel_answer; forgetting the thread without its flag leaves it running.
Forgotten(s) == IF s.active = 0 THEN s ELSE [Discard(s, s.active) EXCEPT !.active = 0]

Cancelled(s) ==
  IF s.active = 0 THEN s
  ELSE [Discard(s, s.active) EXCEPT !.active = 0, !.stopped = @ \cup {s.active}]

\* drop_turn; a draft of another turn may have become the active answer since.
DroppedKept(s) == [s EXCEPT !.turn = NoTurn]

Dropped(s) ==
  LET draft == s.turn.draft
      none == [s EXCEPT !.turn = NoTurn]
  IN IF draft = 0 \/ s.gate[draft] = "shown" THEN none
     ELSE IF s.active = draft
          THEN [Discard(none, draft) EXCEPT !.active = 0, !.stopped = @ \cup {draft}]
          ELSE Discard(none, draft)

\* answer_with: the thread may fail to start.
Answer(s, how, starts) ==
  LET quiet == Cancelled(s)
      id == Len(s.gate) + 1
  IN IF s.ending THEN s
     ELSE [quiet EXCEPT
             !.active = id,
             !.gate = Append(@, IF how = "draft" THEN "hidden" ELSE "shown"),
             !.asked = IF how = "asked" THEN @ \cup {id} ELSE @,
             !.window = IF how = "draft" THEN @ ELSE Append(@, id),
             !.running = IF starts THEN @ \cup {id} ELSE @]

\* May an automatic answer start: not again so soon or to the same question,
\* and not over an answer the user asked for.
MayAlways(s, repeats) == ~(s.answered /\ repeats)
MayAutoAnswer(s, repeats) == ~(s.answered /\ repeats) /\ s.active \notin s.asked

-----------------------------------------------------------------------------
(* The pending turn.                                                       *)

\* evaluate_turn, once nothing is left to wait for and the user should respond.
Confirmed(s, repeats, starts) ==
  LET draft == s.turn.draft
      taken == [s EXCEPT !.turn = NoTurn]
  IN IF draft # 0 /\ s.gate[draft] # "discarded"
     THEN [taken EXCEPT !.gate[draft] = "shown", !.answered = TRUE,
                        !.window = IF s.gate[draft] = "hidden" THEN Append(@, draft) ELSE @,
                        !.notes = IF s.turn.finished THEN Append(@, draft) ELSE @]
     ELSE IF s.listening /\ ~s.ending /\ MayAutoAnswer(s, repeats)
          THEN Answer([taken EXCEPT !.answered = TRUE], "automatic", starts)
          ELSE taken

Respond(t) == IF t.verdict = "none" THEN t.likely ELSE t.verdict = "yes"

Evaluated(s, repeats, starts) ==
  LET t == s.turn
  IN IF t.id = 0 THEN s
     ELSE IF t.resumed \/ t.age = Expired THEN Dropped(s)
     ELSE IF s.speaking \/ t.age = Fresh THEN s
     ELSE IF t.verdict = "none" /\ t.age # Overdue THEN s
     ELSE IF Respond(t) THEN Confirmed(s, repeats, starts)
     ELSE Dropped(s)

\* Every message is followed by tick, and tick evaluates the turn.
Handles(s) ==
  \E repeats, starts \in BOOLEAN : Becomes(Evaluated(s, repeats, starts))

\* consider_turn: a line of the other side worth judging.
Hear(likely) ==
  /\ ~ending /\ listening /\ heard < MaxTurns
  /\ heard' = heard + 1
  /\ judging' = judging \cup {heard'}
  /\ \E repeats, starts \in BOOLEAN :
       LET free == Dropped(Now)
           drafts == likely /\ free.active = 0 /\ MayAutoAnswer(free, repeats)
           s == IF drafts THEN Answer(free, "draft", starts) ELSE free
       IN Handles([s EXCEPT !.turn = [NoTurn EXCEPT
                     !.id = heard', !.likely = likely,
                     !.draft = IF drafts /\ starts THEN s.active ELSE 0]])
  /\ UNCHANGED mail

\* The other side starts or stops speaking; what they said since is new speech.
TheySpeak(active_) ==
  /\ ~ending /\ speaking # active_
  /\ Handles([Now EXCEPT !.speaking = active_])
  /\ UNCHANGED <<heard, judging, mail>>

TheyGoOn ==
  /\ ~ending /\ turn.id # 0 /\ ~turn.resumed
  /\ Handles([Now EXCEPT !.turn.resumed = TRUE])
  /\ UNCHANGED <<heard, judging, mail>>

TimePasses ==
  /\ ~ending /\ turn.id # 0 /\ turn.age < Expired
  /\ Handles([Now EXCEPT !.turn.age = @ + 1])
  /\ UNCHANGED <<heard, judging, mail>>

\* TurnVerdict: without a verdict the wording decides.
TurnVerdict(id, respond) ==
  /\ ~ending /\ id \in judging
  /\ judging' = judging \ {id}
  /\ LET verdict == IF respond = "none" THEN (IF turn.likely THEN "yes" ELSE "no") ELSE respond
     IN Handles(IF turn.id = id THEN [Now EXCEPT !.turn.verdict = verdict] ELSE Now)
  /\ UNCHANGED <<heard, mail>>

\* handle_insights: the user no longer takes part.  Settings only change the flag.
StopListening(situation) ==
  /\ ~ending /\ listening
  /\ LET deaf == [Now EXCEPT !.listening = FALSE]
     IN Handles(IF situation THEN Dropped(deaf) ELSE deaf)
  /\ UNCHANGED <<heard, judging, mail>>

-----------------------------------------------------------------------------
(* What the user does, and the answers' threads.                           *)

Ask ==
  /\ ~ending
  /\ \E starts \in BOOLEAN : Handles(Answer(Now, "asked", starts))
  /\ UNCHANGED <<heard, judging, mail>>

CancelAnswer ==
  /\ ~ending /\ active # 0
  /\ Handles(Cancelled(Now))
  /\ UNCHANGED <<heard, judging, mail>>

\* The thread ends, cancelled or not; of a discarded draft it reports no text.
ThreadEnds(id, text) ==
  /\ id \in running
  /\ text => gate[id] # "discarded"
  /\ running' = running \ {id}
  /\ mail' = mail \cup {[id |-> id, text |-> text]}
  /\ UNCHANGED <<turn, heard, judging, active, gate, asked, stopped, discarded, notes,
                 window, answered, speaking, listening, ending>>

\* handle_answer_finished.  A draft that finished unseen joins the notes only
\* if it is shown.
Finished(s, message) ==
  LET free == [s EXCEPT !.active = IF @ = message.id THEN 0 ELSE @]
      unseen == s.turn.draft = message.id /\ s.gate[message.id] = "hidden"
  IN IF message.id \in s.discarded \/ ~message.text
     THEN [free EXCEPT !.discarded = @ \ {message.id}]
     ELSE IF unseen THEN [free EXCEPT !.turn.finished = TRUE]
     ELSE [free EXCEPT !.notes = Append(@, message.id)]

AnswerFinished(message) ==
  /\ message \in mail
  /\ mail' = mail \ {message}
  /\ IF ending THEN Becomes(Finished(Now, message)) ELSE Handles(Finished(Now, message))
  /\ UNCHANGED <<heard, judging>>

\* finish.
End ==
  /\ ~ending
  /\ Becomes([Cancelled(Now) EXCEPT !.ending = TRUE])
  /\ UNCHANGED <<heard, judging, mail>>

Next ==
  \/ \E likely \in BOOLEAN : Hear(likely)
  \/ \E active_ \in BOOLEAN : TheySpeak(active_)
  \/ TheyGoOn \/ TimePasses
  \/ \E id \in judging, respond \in {"yes", "no", "none"} : TurnVerdict(id, respond)
  \/ \E situation \in BOOLEAN : StopListening(situation)
  \/ Ask \/ CancelAnswer
  \/ \E id \in running, text \in BOOLEAN : ThreadEnds(id, text)
  \/ \E message \in mail : AnswerFinished(message)
  \/ End

Spec == Init /\ [][Next]_vars

-----------------------------------------------------------------------------
\* The notes hold answers the window showed, each once: a draft discarded at any
\* moment of its thread is in neither (engine.rs, discarded and Draft::finished).
NotesHoldWhatWasShown ==
  /\ ToSet(notes) \subseteq ToSet(window)
  /\ IsInjective(notes)
  /\ \A id \in DOMAIN gate : gate[id] = "shown" <=> id \in ToSet(window)

\* No answer runs unattended: a thread that is not the active answer's was told
\* to stop, and a draft waits hidden only for the pending turn (engine.rs,
\* cancel_answer and drop_turn).
NothingRunsUnattended ==
  /\ running \subseteq stopped \cup {active}
  /\ \A id \in DOMAIN gate : gate[id] = "hidden" => turn.draft = id \/ (active = id /\ id \notin running)

\* An automatic answer does not replace one the user asked for: the user's ends
\* finished, cancelled by the user, or replaced by another the user asked for.
KeepsAsked == active \in asked /\ active' # active => active' \in asked' \cup {0}
AskedAnswerStays == [][KeepsAsked]_vars

\* "Whether an automatic answer may start now: not a repeat of the last one, and
\* never over an answer the user asked for."
NeverOverTheUsersAnswer ==
  [][\A id \in DOMAIN gate' :
       id \in ToSet(window') \ (ToSet(window) \cup asked') => active \notin asked]_vars
=============================================================================
