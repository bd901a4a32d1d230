----------------------------- MODULE CopilotNames -----------------------------
(***************************************************************************)
(* Who is who on the other side of the call.  Utterances are told apart by *)
(* voice, and a voice gets its name from the user, from the conversation,  *)
(* or from readings of the meeting app's window taken while the voice      *)
(* speaks.  Source: crates/agentdictate-app/src/copilot/names.rs, voices.rs*)
(* and engine.rs, and the window's copy in crates/agentdictate-ui/src/     *)
(* copilot.rs.                                                             *)
(*                                                                         *)
(* A name is the sequence of its words.  Stretches of the other side's     *)
(* speech are numbered; a capture of the window belongs to the stretch it  *)
(* is taken in, which stands for its time.                                 *)
(***************************************************************************)
EXTENDS Integers, Sequences, SequencesExt

CONSTANTS
  MaxVoices,  \* MAX_VOICES: voices that can be told apart
  Names,      \* full or partial names: what is heard, seen in the window and typed
  MaxLooks,   \* MAX_LOOKS: readings spent on one voice
  MaxReadings,\* MAX_WINDOW_READINGS
  MaxMisses,  \* MISSES_BEFORE_PAUSE
  MaxSpeech,  \* bound on the stretches of speech
  MaxUp,      \* bound on the namings by the user on their way
  MaxDown     \* bound on the Speakers events on their way

VARIABLES
  roster,   \* Roster::entries
  heard,    \* how many voices the VoiceTracker told apart
  speech,   \* the other side's current stretch of speech
  spans,    \* the voice of each stretch that ended, or NoVoice
  looks,    \* WindowLooks
  allowed,  \* screen_context is on, the provider sees, and listening is not paused
  capture,  \* the stretch whose capture is under way, or 0
  reading,  \* the reading under way: [voice, speech], or NoReading
  window,   \* CopilotViewModel::speaker_names
  up,       \* NameSpeaker actions on their way to the engine
  down,     \* Speakers events on their way to the window
  said      \* per voice the name that the conversation gave it last

vars == <<roster, heard, speech, spans, looks, allowed, capture, reading, window,
          up, down, said>>

Voices == 0 .. (MaxVoices - 1)

NoName == <<>>
NoVoice == -1
NoReading == [voice |-> NoVoice, speech |-> 0]

\* same_person: equal, or one is the start of the other.
SamePerson(left, right) == IsPrefix(left, right) \/ IsPrefix(right, left)

NoEntry == [name |-> NoName, user |-> FALSE, challenger |-> NoName, seen |-> <<>>, looks |-> 0]

Init ==
  /\ roster = [v \in Voices |-> NoEntry] /\ heard = 0
  /\ speech = [n |-> 0, on |-> FALSE, captured |-> FALSE] /\ spans = <<>>
  /\ looks = [busy |-> FALSE, shots |-> {}, readings |-> 0, misses |-> 0, resting |-> FALSE]
  /\ allowed = TRUE /\ capture = 0 /\ reading = NoReading
  /\ window = [v \in Voices |-> NoName] /\ up = <<>> /\ down = <<>>
  /\ said = [v \in Voices |-> NoName]

-----------------------------------------------------------------------------
(* The roster.                                                             *)

NamesIn(r) == [v \in Voices |-> r[v].name]

\* Entry::set.
Set(e, name) == [e EXCEPT !.name = name, !.challenger = NoName, !.seen = <<>>]

\* Roster::note for what the user types; nothing forgets the voice's name.
FromUser(e, name) ==
  IF name = NoName THEN [NoEntry EXCEPT !.looks = e.looks]
  ELSE Set([e EXCEPT !.user = TRUE], name)

\* The same person as the voice already is: a fuller form of the name is taken.
Agree(e, name) ==
  IF Len(name) > Len(e.name) THEN Set(e, name) ELSE [e EXCEPT !.challenger = NoName]

\* A different name is taken from the conversation when it says so twice.
Heard(e, name) ==
  IF e.name = NoName \/ (e.challenger # NoName /\ SamePerson(e.challenger, name))
  THEN Set(e, name) ELSE [e EXCEPT !.challenger = name]

\* The window names a voice when two readings agree.
Seen(e, name) ==
  LET at == {i \in DOMAIN e.seen : SamePerson(e.seen[i], name)}
      first == CHOOSE i \in at : \A j \in at : i <= j
      fuller == IF Len(name) > Len(e.seen[first]) THEN name ELSE e.seen[first]
  IN IF e.name # NoName THEN e
     ELSE IF at = {} THEN [e EXCEPT !.seen = Append(@, name)]
     ELSE Set(e, fuller)

OnlyOther(e, name) == IF e.name # NoName THEN e ELSE Set(e, name)

Weigh(e, name, clue) ==
  IF e.user THEN e
  ELSE IF e.name # NoName /\ SamePerson(e.name, name) THEN Agree(e, name)
  ELSE IF clue = "heard" THEN Heard(e, name)
  ELSE IF clue = "seen" THEN Seen(e, name)
  ELSE OnlyOther(e, name)

Note(r, voice, name, clue) ==
  [r EXCEPT ![voice] = IF clue = "user" THEN FromUser(@, name) ELSE Weigh(@, name, clue)]

\* publish_speakers, when a clue changed a name or a person seen is new.
Publish(r, always) ==
  IF always \/ NamesIn(r) # NamesIn(roster)
  THEN Len(down) < MaxDown /\ down' = Append(down, NamesIn(r))
  ELSE down' = down

NeedsLook(voice) == roster[voice].name = NoName /\ roster[voice].looks < MaxLooks

-----------------------------------------------------------------------------
(* The other side speaks, and the window is captured meanwhile.            *)

SpeechStarts ==
  /\ ~speech.on /\ speech.n < MaxSpeech
  /\ speech' = [n |-> speech.n + 1, on |-> TRUE, captured |-> FALSE]
  /\ UNCHANGED <<roster, heard, spans, looks, allowed, capture, reading, window, up, down, said>>

\* maybe_look_at_window; the capture's thread may fail to start.
LookAtWindow(starts) ==
  /\ allowed /\ speech.on /\ ~speech.captured /\ ~looks.busy
  /\ looks.readings < MaxReadings /\ ~looks.resting
  /\ heard = 0 \/ \E v \in 0 .. (heard - 1) : NeedsLook(v)
  /\ speech' = [speech EXCEPT !.captured = TRUE]
  /\ looks' = [looks EXCEPT !.busy = starts]
  /\ capture' = IF starts THEN speech.n ELSE 0
  /\ UNCHANGED <<roster, heard, spans, allowed, reading, window, up, down, said>>

\* match_shots: pairs captures, oldest first, with the voice that spoke when they
\* were taken, and reads the first for a voice that still needs a name.  The
\* captures of speech that goes on stay, those of an old one may have expired.
Matched(shots, spans_) == {n \in shots : n <= Len(spans_)}

MatchShots(shots, spans_, l, starts) ==
  LET done == {n \in Matched(shots, spans_) : spans_[n] # NoVoice}
      wanted == {n \in done : NeedsLook(spans_[n])}
      n == CHOOSE m \in wanted : \A k \in wanted : m <= k
      kept == [l EXCEPT !.shots = shots \ Matched(shots, spans_)]
  IN IF wanted = {} \/ l.busy \/ l.readings >= MaxReadings
     THEN /\ looks' = kept
          /\ UNCHANGED <<roster, reading>>
     ELSE \* read_window
          /\ looks' = [kept EXCEPT !.busy = starts, !.readings = @ + 1]
          /\ roster' = [roster EXCEPT ![spans_[n]].looks = @ + 1]
          /\ reading' = IF starts THEN [voice |-> spans_[n], speech |-> n] ELSE NoReading

\* An utterance ends the speech: VoiceTracker::assign finds its voice among those
\* told apart, starts a new one, or finds too little voice in it.
SpeechEnds(voice, starts) ==
  /\ speech.on
  /\ voice \in 0 .. heard /\ voice \in Voices
  /\ speech' = [speech EXCEPT !.on = FALSE, !.captured = FALSE]
  /\ heard' = IF voice = heard THEN heard + 1 ELSE heard
  /\ spans' = Append(spans, voice)
  /\ MatchShots(looks.shots, spans', looks, starts)
  /\ UNCHANGED <<allowed, capture, window, up, down, said>>

SpeechEndsUnknown ==
  /\ speech.on
  /\ speech' = [speech EXCEPT !.on = FALSE, !.captured = FALSE]
  /\ spans' = Append(spans, NoVoice)
  /\ MatchShots(looks.shots, spans', looks, TRUE)
  /\ UNCHANGED <<heard, allowed, capture, window, up, down, said>>

\* WindowCaptured; taken shots past SHOT_TTL are dropped.
WindowCaptured(ok, expired, starts) ==
  /\ capture # 0 /\ expired \subseteq looks.shots
  /\ capture' = 0
  /\ LET free == [looks EXCEPT !.busy = FALSE]
     IN IF ok THEN MatchShots((looks.shots \ expired) \cup {capture}, spans, free, starts)
        ELSE looks' = free /\ UNCHANGED <<roster, reading>>
  /\ UNCHANGED <<heard, speech, spans, allowed, window, up, down, said>>

\* handle_window_read without a call in view, or with an error.
NoCallInView(missed) ==
  /\ reading # NoReading
  /\ reading' = NoReading
  /\ looks' = IF ~missed THEN [looks EXCEPT !.busy = FALSE]
              ELSE IF looks.misses + 1 < MaxMisses
              THEN [looks EXCEPT !.busy = FALSE, !.misses = @ + 1]
              ELSE [looks EXCEPT !.busy = FALSE, !.misses = 0, !.resting = TRUE]
  /\ UNCHANGED <<roster, heard, speech, spans, allowed, capture, window, up, down, said>>

\* handle_window_read with a call in view; only is its one participant, or NoName.
WindowRead(speaking, only, new) ==
  /\ reading # NoReading
  /\ reading' = NoReading
  /\ looks' = [looks EXCEPT !.busy = FALSE, !.misses = 0]
  /\ LET highlighted == IF speaking = NoName THEN roster
                        ELSE Note(roster, reading.voice, speaking, "seen")
         noted == IF only # NoName /\ heard <= 1
                  THEN Note(highlighted, reading.voice, only, "only")
                  ELSE highlighted
     IN roster' = noted /\ Publish(noted, new)
  /\ UNCHANGED <<heard, speech, spans, allowed, capture, window, up, said>>

RestIsOver ==
  /\ looks.resting
  /\ looks' = [looks EXCEPT !.resting = FALSE]
  /\ UNCHANGED <<roster, heard, speech, spans, allowed, capture, reading, window, up, down, said>>

AllowedChanges ==
  /\ allowed' = ~allowed
  /\ UNCHANGED <<roster, heard, speech, spans, looks, capture, reading, window, up, down, said>>

-----------------------------------------------------------------------------
(* The conversation and the user name a voice.                             *)

\* name_from_conversation, for one of the voices the transcript shows.
ConversationNames(voice, name) ==
  /\ voice \in ToSet(spans)
  /\ LET noted == Note(roster, voice, name, "heard")
     IN roster' = noted /\ Publish(noted, FALSE)
  /\ said' = [said EXCEPT ![voice] = name]
  /\ UNCHANGED <<heard, speech, spans, looks, allowed, capture, reading, window, up>>

\* name_voice in the window, which shows the name at once.
NameVoice(voice, name) ==
  /\ voice \in ToSet(spans) /\ Len(up) < MaxUp
  /\ window' = [window EXCEPT ![voice] = name]
  /\ up' = Append(up, [voice |-> voice, name |-> name])
  /\ UNCHANGED <<roster, heard, speech, spans, looks, allowed, capture, reading, down, said>>

\* NameSpeaker: the window is always told what became of it.
NameSpeaker ==
  /\ up # <<>>
  /\ up' = Tail(up)
  /\ LET noted == Note(roster, Head(up).voice, Head(up).name, "user")
     IN roster' = noted /\ Publish(noted, TRUE)
  /\ said' = [said EXCEPT ![Head(up).voice] = NoName]
  /\ UNCHANGED <<heard, speech, spans, looks, allowed, capture, reading, window>>

SpeakersShown ==
  /\ down # <<>>
  /\ down' = Tail(down) /\ window' = Head(down)
  /\ UNCHANGED <<roster, heard, speech, spans, looks, allowed, capture, reading, up, said>>

Next ==
  \/ SpeechStarts
  \/ \E starts \in BOOLEAN : LookAtWindow(starts)
  \/ \E voice \in Voices, starts \in BOOLEAN : SpeechEnds(voice, starts)
  \/ SpeechEndsUnknown
  \/ \E ok, starts \in BOOLEAN, expired \in SUBSET looks.shots : WindowCaptured(ok, expired, starts)
  \/ \E missed \in BOOLEAN : NoCallInView(missed)
  \/ \E speaking, only \in Names.seen \cup {NoName}, new \in BOOLEAN :
       (only = NoName \/ speaking \in {NoName, only}) /\ WindowRead(speaking, only, new)
  \/ RestIsOver \/ AllowedChanges
  \/ \E voice \in Voices, name \in Names.heard : ConversationNames(voice, name)
  \/ \E voice \in Voices, name \in Names.typed \cup {NoName} : NameVoice(voice, name)
  \/ NameSpeaker \/ SpeakersShown

Spec == Init /\ [][Next]_vars

-----------------------------------------------------------------------------
\* "A name sticks once given": a voice's name gives way to a different person's
\* only to the user's, or to one the conversation gave it twice in a row; to the
\* window never, and the user's own name only to the user (names.rs).
Sticks(voice) ==
  LET old == roster[voice]
      new == roster'[voice]
  IN old.name # NoName /\ new.name # old.name =>
       \/ up' # up
       \/ ~old.user /\ SamePerson(old.name, new.name)
       \/ ~old.user /\ new.name = said'[voice] /\ SamePerson(said[voice], new.name)

NamesStick == [][\A voice \in Voices : Sticks(voice)]_vars

\* One capture or reading of the meeting window at a time, none beyond the
\* session's and the voice's share, and every reading is of a capture taken while
\* the voice that it may name was speaking (engine.rs, WindowLooks::busy).
LooksAreBounded ==
  /\ looks.busy <=> (capture # 0 \/ reading # NoReading)
  /\ capture = 0 \/ reading = NoReading
  /\ looks.readings <= MaxReadings
  /\ \A v \in Voices : roster[v].looks <= MaxLooks
  /\ reading # NoReading => spans[reading.speech] = reading.voice

\* The window's names are the session's once nothing is on its way, although it
\* shows what the user typed before the engine heard of it (copilot.rs, name_speaker).
WindowShowsTheNames == up = <<>> /\ down = <<>> => window = NamesIn(roster)

\* "With Use my screen on, the meeting app's window is also read": none is read
\* that begins to be while the setting is off (docs/COPILOT.md, Privacy).
NoReadingUnlessAllowed == [][reading = NoReading /\ reading' # NoReading => allowed]_vars
=============================================================================
