-------------------------- MODULE CopilotTranscript --------------------------
(***************************************************************************)
(* The meeting copilot, from speech to transcript: two capture threads cut *)
(* the microphone ("me") and the loopback ("them") into utterances, three  *)
(* workers transcribe them, some ahead of their end, and the engine thread *)
(* decides which microphone lines are only the speakers' sound coming      *)
(* back.  Source: crates/agentdictate-app/src/copilot/engine.rs, vad.rs    *)
(* and win/audio.rs.                                                       *)
(*                                                                         *)
(* An utterance is <<speaker, number>>.  What a microphone utterance has   *)
(* to do with the other side is all that is kept of time and of words: the *)
(* utterance it overlaps, and whether it is an echo of it.                 *)
(***************************************************************************)
EXTENDS Naturals, Sequences, FiniteSets, SequencesExt

CONSTANTS MaxUtterances,     \* bound on the utterances of both sides
          MaxSize,           \* bound on the stretches of speech in an utterance
          MaxPauses,         \* bound on the pauses of the capture
          MaxEarly,          \* MAX_EARLY_TRANSCRIPTS
          MaxSending,        \* bound on the workers about to send
          MaxInbox           \* bound on the messages captured and not yet handled

VARIABLES
  them,     \* the loopback's segmenter
  mine,     \* per microphone utterance the one it overlaps and whether it echoes
  inbox,    \* the engine's channel
  jobs,     \* TranscriptionJobs queued or running; their number is in_flight
  sending,  \* transcripts of workers that have not sent them yet
  early,    \* Engine::early
  spans,    \* them_spans: the other side's utterances to their text, if known
  waiting,  \* pending_mine
  speaking, \* them_speaking
  phase,    \* "running", "draining" (finish) or "over"
  paused,   \* capture is paused
  fate      \* history: what became of each utterance

vars == <<them, mine, inbox, jobs, sending, early, spans, waiting, speaking, phase,
          paused, fate>>
captured == <<them, mine, paused>>

Them(k) == <<"them", k>>
Mine(m) == <<"me", m>>
Utterances == {Them(k) : k \in 1..MaxUtterances} \cup {Mine(m) : m \in 1..MaxUtterances}
NoSpan == "absent"

Init ==
  /\ them = [state |-> "quiet", count |-> 0, size |-> 0, released |-> FALSE, pauses |-> 0]
  /\ mine = <<>> /\ inbox = <<>> /\ jobs = {} /\ sending = {}
  /\ early = <<>> /\ waiting = {}
  /\ spans = [k \in 1..MaxUtterances |-> NoSpan]
  /\ speaking = FALSE /\ phase = "running" /\ paused = FALSE
  /\ fate = [u \in Utterances |-> <<>>]

Say(kind, u, size) == [kind |-> kind, of |-> u, size |-> size, text |-> "none"]
Speaks(active) == [Say("speaking", Them(them.count), 0) EXCEPT !.text = active]
Sends(messages) == inbox' = inbox \o messages

-----------------------------------------------------------------------------
(* The capture threads: Segmenter and AudioMsg::from_segment.              *)

Captures == phase = "running" /\ ~paused /\ Len(inbox) < MaxInbox

SpeechStarts ==
  /\ Captures
  /\ them.state = "quiet" /\ them.count + Len(mine) < MaxUtterances
  /\ them' = [them EXCEPT !.state = "speaking", !.count = @ + 1, !.size = 1,
                          !.released = FALSE]
  /\ Sends(<<[Speaks("yes") EXCEPT !.of = Them(them.count + 1)]>>)
  /\ UNCHANGED <<mine, jobs, sending, early, spans, waiting, speaking, phase, paused,
                 fate>>

\* A pause long enough to be the end: the speech so far is released ahead.
SpeechPauses ==
  /\ Captures
  /\ them.state = "speaking" /\ ~them.released /\ them.size < MaxSize
  /\ them' = [them EXCEPT !.released = TRUE]
  /\ Sends(<<Say("provisional", Them(them.count), them.size)>>)
  /\ UNCHANGED <<mine, jobs, sending, early, spans, waiting, speaking, phase, paused,
                 fate>>

SpeechGoesOn ==
  /\ Captures
  /\ them.state = "speaking" /\ them.released /\ them.size < MaxSize
  /\ them' = [them EXCEPT !.released = FALSE, !.size = @ + 1]
  /\ UNCHANGED <<mine, inbox, jobs, sending, early, spans, waiting, speaking, phase,
                 paused, fate>>

\* A finished utterance is sent before the end of speech, or a line of the user's
\* could be judged between the two.
QuietFirst == <<Speaks("no"), Say("utterance", Them(them.count), them.size)>>
Finished == <<Say("utterance", Them(them.count), them.size), Speaks("no")>>

TooShort == ~them.released /\ them.size = 1     \* SpeechDiscarded
Discarded == fate' = [fate EXCEPT ![Them(them.count)] = <<"discarded">>]
Quiet == [them EXCEPT !.state = "quiet", !.size = 0, !.released = FALSE]

SpeechEnds ==
  /\ Captures /\ them.state = "speaking"
  /\ them' = Quiet
  /\ \/ Sends(Finished) /\ UNCHANGED fate
     \/ TooShort /\ Sends(<<Speaks("no")>>) /\ Discarded
  /\ UNCHANGED <<mine, jobs, sending, early, spans, waiting, speaking, phase, paused>>

\* flush, on a pause and when capture stops: speech too short is only dropped,
\* and nothing says that it ended.
Flush ==
  \/ them.state = "quiet" /\ UNCHANGED <<inbox, fate>>
  \/ them.state = "speaking" /\ Sends(Finished) /\ UNCHANGED fate
  \/ them.state = "speaking" /\ TooShort /\ Discarded /\ UNCHANGED inbox

PauseCapture ==
  /\ Captures /\ them.pauses < MaxPauses
  /\ paused' = TRUE /\ them' = [Quiet EXCEPT !.pauses = @ + 1]
  /\ Flush
  /\ UNCHANGED <<mine, jobs, sending, early, spans, waiting, speaking, phase>>

ResumeCapture ==
  /\ phase = "running" /\ paused
  /\ paused' = FALSE
  /\ UNCHANGED <<them, mine, inbox, jobs, sending, early, spans, waiting, speaking,
                 phase, fate>>

\* The microphone's utterance ends: while they speak, or soon after.
MicrophoneUtterance(over, echo) ==
  /\ Captures /\ them.count + Len(mine) < MaxUtterances
  /\ over \in {0, them.count} /\ (them.state = "speaking" => over = them.count)
  /\ echo => over # 0
  /\ mine' = Append(mine, [over |-> over, echo |-> echo])
  /\ Sends(<<Say("utterance", Mine(Len(mine) + 1), 1)>>)
  /\ UNCHANGED <<them, jobs, sending, early, spans, waiting, speaking, phase, paused,
                 fate>>

-----------------------------------------------------------------------------
(* The transcription workers.                                              *)

\* The job stops counting before its transcript is sent.
Transcribe(job, text) ==
  /\ job \in jobs /\ Cardinality(sending) < MaxSending
  /\ jobs' = jobs \ {job}
  /\ sending' = sending \cup {[job EXCEPT !.text = text]}
  /\ UNCHANGED <<captured, inbox, early, spans, waiting, speaking, phase, fate>>

Reply(job) ==
  /\ job \in sending /\ phase # "over"
  /\ sending' = sending \ {job}
  /\ inbox' = Append(inbox, job)
  /\ UNCHANGED <<captured, jobs, early, spans, waiting, speaking, phase, fate>>

-----------------------------------------------------------------------------
(* The engine's handlers.  A state is the record of what they change.      *)

Now == [jobs |-> jobs, early |-> early, spans |-> spans, waiting |-> waiting,
        speaking |-> speaking, fate |-> fate]

Becomes(s) ==
  /\ jobs' = s.jobs /\ early' = s.early /\ spans' = s.spans /\ waiting' = s.waiting
  /\ speaking' = s.speaking /\ fate' = s.fate

Ends(s, u, how) == [s EXCEPT !.fate[u] = Append(@, how)]

\* resolve_pending_mine: a line waits until the text it may echo is known and
\* the other side has finished, or until it has waited long enough.
Unknown(s, m) == mine[m].over # 0 /\ s.spans[mine[m].over] = "untold"
Judged(s, expired) == {m \in s.waiting : m \in expired \/ ~(Unknown(s, m) \/ s.speaking)}

Verdict(s, m, expired) ==
  IF mine[m].echo /\ s.spans[mine[m].over] = "told" THEN "echo"
  ELSE IF m \in expired THEN "expired" ELSE "published"

Resolve(s, expired) ==
  LET done == Judged(s, expired)
  IN [s EXCEPT !.waiting = @ \ done,
               !.fate = [u \in Utterances |->
                  IF \E m \in done : u = Mine(m)
                  THEN Append(@[u], Verdict(s, u[2], expired))
                  ELSE @[u]]]

\* handle_transcribed.  A failed transcription and noise are useless; a line of
\* theirs may be another device's copy.
ForgetSpan(s, k) == Resolve([s EXCEPT !.spans[k] = NoSpan], {})

ThemTranscribed(s, u, text) ==
  IF text = "useless" THEN ForgetSpan(Ends(s, u, text), u[2])
  ELSE LET told == [s EXCEPT !.spans[u[2]] = "told"]
       IN IF text = "copy" THEN Ends(told, u, "told") ELSE Resolve(Ends(told, u, "told"), {})

MineTranscribed(s, u, text) ==
  LET over == mine[u[2]].over
      nearby == over # 0 /\ s.spans[over] # NoSpan
  IN IF text = "useless" THEN Ends(s, u, text)
     ELSE IF ~nearby /\ ~s.speaking THEN Ends(s, u, "published")
     ELSE Resolve([s EXCEPT !.waiting = @ \cup {u[2]}], {})

Transcribed(s, u, text) ==
  IF u[1] = "them" THEN ThemTranscribed(s, u, text) ELSE MineTranscribed(s, u, text)

Job(u, id) == [kind |-> "transcribed", of |-> u, size |-> id, text |-> "none"]
Queued(s, u, id) == [s EXCEPT !.jobs = @ \cup {Job(u, id)}]

\* transcribe_early: the oldest kept transcript makes room for the new one.
Early(u, size) == [of |-> u, size |-> size, text |-> "none", adopted |-> FALSE]
WithRoom(list) == IF Len(list) >= MaxEarly THEN Tail(list) ELSE list

TranscribeEarly(s, u, size) ==
  LET kept == WithRoom(SelectSeq(s.early, LAMBDA e : e.of # u))
      gone == {e \in ToSet(s.early) : e.adopted /\ ~Contains(kept, e)}
      room == [s EXCEPT !.early = Append(kept, Early(u, size)),
                        !.fate = [v \in Utterances |->
                           IF \E e \in gone : e.of = v THEN Append(@[v], "evicted") ELSE @[v]]]
  IN Queued(room, u, size)

\* The transcript of an ended utterance only put away is never handled.
PutAway(e) == FALSE

Adopted(e) == e.adopted

\* handle_early_transcribed: size is the id, unique within an utterance.
At(s, u) == SelectSeq(s.early, LAMBDA e : e.of = u)
Without(s, u) == SelectSeq(s.early, LAMBDA e : e.of # u)

EarlyTranscribed(s, u, size, text) ==
  LET found == SelectSeq(s.early, LAMBDA e : e.of = u /\ e.size = size)
  IN IF found = <<>> THEN s
     ELSE IF Adopted(Head(found))
          THEN Transcribed([s EXCEPT !.early = Without(s, u)], u, text)
          ELSE [s EXCEPT !.early = [i \in DOMAIN @ |->
                  IF @[i] = Head(found) THEN [@[i] EXCEPT !.text = text] ELSE @[i]]]

\* queue_utterance: the early transcript is used if the speech ended there.
SameSpeech(e, size) == e.size = size

QueueUtterance(s, u, size) ==
  LET heard == IF u[1] = "them" THEN [s EXCEPT !.spans[u[2]] = "untold"] ELSE s
      found == At(s, u)
      rest == [heard EXCEPT !.early = Without(s, u)]
  IN IF found = <<>> THEN Queued(heard, u, 0)
     ELSE IF ~SameSpeech(Head(found), size) THEN Queued(rest, u, 0)
     ELSE IF Head(found).text # "none" THEN Transcribed(rest, u, Head(found).text)
     ELSE [rest EXCEPT !.early = Append(@, [Head(found) EXCEPT !.adopted = TRUE])]

Handled(s, message) ==
  CASE message.kind = "speaking" -> [s EXCEPT !.speaking = message.text = "yes"]
    [] message.kind = "provisional" -> TranscribeEarly(s, message.of, message.size)
    [] message.kind = "utterance" -> QueueUtterance(s, message.of, message.size)
    [] message.kind = "transcribed" ->
         IF message.size = 0 THEN Transcribed(s, message.of, message.text)
         ELSE EarlyTranscribed(s, message.of, message.size, message.text)

\* One message, then tick; a line may have waited long enough by then.
Handle ==
  /\ phase = "running" /\ inbox # <<>>
  /\ inbox' = Tail(inbox)
  /\ Becomes(Resolve(Handled(Now, Head(inbox)), {}))
  /\ UNCHANGED <<captured, sending, phase>>

WaitIsOver(m) ==
  /\ phase = "running" /\ m \in waiting
  /\ Becomes(Resolve(Now, {m}))
  /\ UNCHANGED <<captured, inbox, sending, phase>>

-----------------------------------------------------------------------------
(* finish.                                                                 *)

\* The session ends: capture stops and flushes what it has.
End ==
  /\ phase = "running"
  /\ phase' = "draining" /\ them' = Quiet
  /\ Flush
  /\ UNCHANGED <<mine, jobs, sending, early, spans, waiting, speaking, paused>>

\* Only speech and its transcripts count now; nothing in flight ends the wait.
Drained(s, message) ==
  IF message.kind \in {"utterance", "transcribed"} THEN Handled(s, message) ELSE s

Closes(s) ==
  LET over == s.jobs = {}
  IN /\ phase' = IF over THEN "over" ELSE phase
     /\ Becomes(IF over THEN Resolve(s, s.waiting) ELSE s)

Drain ==
  /\ phase = "draining"
  /\ \/ /\ inbox # <<>> /\ inbox' = Tail(inbox)
        /\ Closes(Drained(Now, Head(inbox)))
     \/ inbox = <<>> /\ UNCHANGED inbox /\ Closes(Now)
  /\ UNCHANGED <<captured, sending>>

\* The deadline of the drain.  Only afterwards is late the sign of it.
DrainTimesOut ==
  /\ phase = "draining" /\ jobs # {}
  /\ phase' = "over"
  /\ Becomes(Resolve(Now, waiting))
  /\ UNCHANGED <<captured, inbox, sending>>

Next ==
  \/ SpeechStarts \/ SpeechPauses \/ SpeechGoesOn \/ SpeechEnds
  \/ PauseCapture \/ ResumeCapture
  \/ \E over \in 0..MaxUtterances, echo \in BOOLEAN : MicrophoneUtterance(over, echo)
  \/ \E job \in jobs, text \in {"text", "useless", "copy"} :
       (text = "copy" => job.of[1] = "them") /\ Transcribe(job, text)
  \/ \E job \in sending : Reply(job)
  \/ Handle \/ \E m \in waiting : WaitIsOver(m)
  \/ End \/ Drain \/ DrainTimesOut

Spec == Init /\ [][Next]_vars

-----------------------------------------------------------------------------
\* No microphone line is in the transcript because it was judged before the
\* speech it echoes: an echo is published only when that speech has no text, or
\* when the line waited as long as it may (engine.rs, resolve_pending_mine).
EchoWaitsForItsSource ==
  \A m \in DOMAIN mine :
    mine[m].echo /\ fate[Mine(m)] = <<"published">> =>
      fate[Them(mine[m].over)] \in {<<"useless">>, <<"discarded">>}

\* Early and full transcripts of the same speech: every utterance heard ends up
\* in exactly one place, or is still on its way there (engine.rs, Engine::early).
OnItsWay(u) ==
  \/ \E job \in jobs \cup sending \cup ToSet(inbox) :
       job.of = u /\ (job.kind = "utterance" \/ (job.kind = "transcribed" /\ job.size = 0))
  \/ \E e \in ToSet(early), job \in jobs \cup sending \cup ToSet(inbox) :
       /\ e.of = u /\ e.adopted
       /\ job.kind = "transcribed" /\ job.of = u /\ job.size = e.size
  \/ u[1] = "me" /\ u[2] \in waiting

Heard(u) ==
  IF u[1] = "me" THEN u[2] <= Len(mine) ELSE spans[u[2]] # NoSpan

EveryLineOnce ==
  phase # "over" =>
    \A u \in Utterances : /\ Len(fate[u]) <= 1
                          /\ Heard(u) => fate[u] # <<>> \/ OnItsWay(u)

\* "Ends the session: drains audio and transcription, then writes notes."
LastWordsAreKept ==
  phase = "over" /\ jobs = {} =>
    \A u \in Utterances :
      \/ fate[u] # <<>>
      \/ ~Heard(u) /\ ~\E i \in DOMAIN inbox : inbox[i].kind = "utterance" /\ inbox[i].of = u

\* Again and again: every utterance heard has come to its one end, or the session to
\* its own; no worker's failure, echo or early transcript holds one up (engine.rs,
\* resolve_pending_mine and finish).
LinesAreSettled ==
  \/ phase = "over"
  \/ phase = "running" /\ \A u \in Utterances : Heard(u) => fate[u] # <<>>
=============================================================================
