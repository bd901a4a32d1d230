-------------------------- MODULE LiveTranscription --------------------------
(***************************************************************************)
(* Live recognition of a recording: a thread reads the WAV file while the  *)
(* recorder still writes it and streams the samples to the service.  When  *)
(* the recording has been stopped the daemon tells the thread to finish    *)
(* and waits; whatever goes wrong, it uploads the saved file instead.      *)
(* Source: crates/agentdictate-app/src/live_transcription.rs and openai.rs.*)
(*                                                                         *)
(* Audio is counted in units of a few samples.  tail counts what a         *)
(* recorder appends after the samples: a metadata chunk, which a reader    *)
(* that does not know the size of the data yet takes for samples.          *)
(***************************************************************************)
EXTENDS Naturals

CONSTANTS MaxJobs,   \* bound on the recordings
          MaxAudio   \* bound on the samples of a recording

VARIABLES
  updates,  \* the recorder rewrites the header while recording (Windows)
  capture,  \* the newest recording and what its recorder does
  wav,      \* per recording: samples, size in the header, chunk after them
  live,     \* ReqwestOpenAiTransport::live, 0 for none
  stream,   \* per recording its LiveTranscription thread
  request,  \* the transcription the daemon asked for
  answer    \* history: what it got: the job and "live", "file" or "error"

vars == <<updates, capture, wav, live, stream, request, answer>>

Jobs == 1..MaxJobs
NoSize == MaxAudio + 2

Init ==
  /\ updates \in BOOLEAN
  /\ capture = [job |-> 0, state |-> "idle"]
  /\ wav = [j \in Jobs |-> [pcm |-> 0, size |-> 0, tail |-> 0]]
  /\ live = 0
  /\ stream = [j \in Jobs |-> [state |-> "none", command |-> "running", ready |-> FALSE,
                               position |-> 0, end |-> NoSize, committed |-> FALSE]]
  /\ request = [job |-> 0, state |-> "none"] /\ answer = [job |-> 0, from |-> "none"]

\* Dropping a LiveTranscription cancels its thread.
Dropped(s, j) == IF j = 0 THEN s ELSE [s EXCEPT ![j].command = "cancel"]

-----------------------------------------------------------------------------
(* The daemon and the recorder.                                            *)

\* begin_recording; the session is optional, and its thread may not start.
BeginRecording ==
  /\ capture.state # "recording" /\ request.state = "none" /\ capture.job < MaxJobs
  /\ capture' = [job |-> capture.job + 1, state |-> "recording"]
  /\ wav' = [wav EXCEPT ![capture'.job].pcm = 1]
  /\ \/ live' = 0 /\ stream' = Dropped(stream, live)
     \/ live' = capture'.job
        /\ stream' = [Dropped(stream, live) EXCEPT ![live'].state = "running"]
  /\ UNCHANGED <<updates, request, answer>>

Write ==
  /\ capture.state = "recording" /\ wav[capture.job].pcm < MaxAudio
  /\ wav' = [wav EXCEPT ![capture.job].pcm = @ + 1]
  /\ UNCHANGED <<updates, capture, live, stream, request, answer>>

FlushHeader ==
  /\ capture.state = "recording" /\ updates
  /\ wav' = [wav EXCEPT ![capture.job].size = wav[capture.job].pcm]
  /\ UNCHANGED <<updates, capture, live, stream, request, answer>>

\* The recorder was told to stop: it may append its chunk before it fills in
\* the size, or be killed before that.
WriteTail ==
  /\ capture.state = "recording" /\ ~updates
  /\ capture' = [capture EXCEPT !.state = "closing"]
  /\ wav' = [wav EXCEPT ![capture.job].tail = 1]
  /\ UNCHANGED <<updates, live, stream, request, answer>>

StopRecording ==
  /\ capture.state \in {"recording", "closing"}
  /\ capture' = [capture EXCEPT !.state = "stopped"]
  /\ \/ wav' = [wav EXCEPT ![capture.job].size = wav[capture.job].pcm]
     \/ ~updates /\ UNCHANGED wav
  /\ UNCHANGED <<updates, live, stream, request, answer>>

\* cancel_recording: discard, shutdown, a failed checkpoint, an accidental tap.
CancelRecording ==
  /\ capture.state # "idle" /\ request.state = "none"
  /\ capture' = [capture EXCEPT !.state = "idle"]
  /\ live' = IF live = capture.job THEN 0 ELSE live
  /\ stream' = IF live = capture.job THEN Dropped(stream, live) ELSE stream
  /\ UNCHANGED <<updates, wav, request, answer>>

\* Mutant: another recording's session is left in place.
TranscribeKeeps(j) ==
  /\ request.state = "none" /\ j <= capture.job
  /\ j = capture.job => capture.state = "stopped"
  /\ request' = [job |-> j, state |-> IF live # 0 THEN "finishing" ELSE "uploading"]
  /\ live' = 0
  /\ stream' = IF live = 0 THEN stream ELSE [stream EXCEPT ![live].command = "finish"]
  /\ UNCHANGED <<updates, capture, wav, answer>>

\* transcribe_audio, for the stopped recording or one from Recovery: the live
\* session is taken and, unless it reads this very file, dropped.
Transcribe(j) ==
  /\ request.state = "none" /\ j <= capture.job
  /\ j = capture.job => capture.state = "stopped"
  /\ request' = [job |-> j, state |-> IF live = j THEN "finishing" ELSE "uploading"]
  /\ live' = 0
  /\ stream' = IF live = j THEN [stream EXCEPT ![j].command = "finish"]
               ELSE Dropped(stream, live)
  /\ UNCHANGED <<updates, capture, wav, answer>>

\* LiveTranscription::finish receives the text.
LiveFinishes ==
  /\ request.state = "finishing"
  /\ \E j \in Jobs : /\ stream[j].command = "finish" /\ stream[j].state = "ok"
                     /\ stream' = Dropped(stream, j)
  /\ answer' = [job |-> request.job, from |-> "live"]
  /\ request' = [job |-> 0, state |-> "none"]
  /\ UNCHANGED <<updates, capture, wav, live>>

\* ... or an error, or eight seconds pass; its thread is cancelled.
LiveFails ==
  /\ request.state = "finishing"
  /\ \E j \in Jobs : stream[j].command = "finish" /\ stream' = Dropped(stream, j)
  /\ request' = [request EXCEPT !.state = "uploading"]
  /\ UNCHANGED <<updates, capture, wav, live, answer>>

\* The saved file is uploaded, with any of the service's answers.
Upload ==
  /\ request.state = "uploading"
  /\ \E from \in {"file", "error"} : answer' = [job |-> request.job, from |-> from]
  /\ request' = [job |-> 0, state |-> "none"]
  /\ UNCHANGED <<updates, capture, wav, live, stream>>

-----------------------------------------------------------------------------
(* stream_audio.                                                           *)

Streams(j) == stream[j].state = "running" /\ stream[j].command # "cancel"

\* It connects, sends the session and opens the file; the service is ready.
SessionReady(j) ==
  /\ Streams(j) /\ ~stream[j].ready
  /\ stream' = [stream EXCEPT ![j].ready = TRUE]
  /\ UNCHANGED <<updates, capture, wav, live, request, answer>>

\* A cancellation, a refused connection, a deadline or any other error.
SessionFails(j) ==
  /\ stream[j].state = "running"
  /\ stream' = [stream EXCEPT ![j].state = "failed"]
  /\ UNCHANGED <<updates, capture, wav, live, request, answer>>

\* The end of the samples as the header tells it, NoSize while it does not.
ReadEnd(j) ==
  IF stream[j].end # NoSize THEN stream[j].end
  ELSE IF wav[j].size > 0 THEN wav[j].size ELSE NoSize

\* Mutant: what lies beyond the end is not noticed.
PassesEnd(j) == FALSE

\* The reader took the recorder's chunk for samples.
BeyondEnd(j) == ReadEnd(j) # NoSize /\ stream[j].position > ReadEnd(j)

\* One turn of the burst: a chunk is read and sent.
ReadChunk(j) ==
  /\ Streams(j) /\ stream[j].ready /\ ~stream[j].committed
  /\ ~BeyondEnd(j)
  /\ stream[j].command = "finish" => ReadEnd(j) # NoSize
  /\ LET available == wav[j].pcm + wav[j].tail
         limit == IF ReadEnd(j) < available THEN ReadEnd(j) ELSE available
     IN \E p \in (stream[j].position + 1)..limit :
          stream' = [stream EXCEPT ![j].position = p,
                       ![j].end = IF stream[j].command = "finish" THEN ReadEnd(j) ELSE @]
  /\ UNCHANGED <<updates, capture, wav, live, request, answer>>

\* "WAV not finalized" or "audio was read beyond finalized PCM".
ReadRefused(j) ==
  /\ Streams(j) /\ stream[j].ready /\ ~stream[j].committed
  /\ BeyondEnd(j) \/ (stream[j].command = "finish" /\ ReadEnd(j) = NoSize)
  /\ stream' = [stream EXCEPT ![j].state = "failed"]
  /\ UNCHANGED <<updates, capture, wav, live, request, answer>>

\* Nothing is left to read after the stop.
Commit(j) ==
  /\ Streams(j) /\ stream[j].ready /\ ~stream[j].committed
  /\ stream[j].command = "finish" /\ ReadEnd(j) # NoSize
  /\ ~BeyondEnd(j) /\ stream[j].position >= ReadEnd(j)
  /\ stream' = [stream EXCEPT ![j].committed = TRUE, ![j].end = ReadEnd(j)]
  /\ UNCHANGED <<updates, capture, wav, live, request, answer>>

\* The transcript of the committed item.
Completed(j) ==
  /\ Streams(j) /\ stream[j].committed
  /\ stream' = [stream EXCEPT ![j].state = "ok"]
  /\ UNCHANGED <<updates, capture, wav, live, request, answer>>

Next ==
  \/ BeginRecording \/ Write \/ FlushHeader \/ WriteTail \/ StopRecording
  \/ CancelRecording \/ LiveFinishes \/ LiveFails \/ Upload
  \/ \E j \in Jobs : \/ Transcribe(j) \/ SessionReady(j) \/ SessionFails(j)
                     \/ ReadChunk(j) \/ ReadRefused(j) \/ Commit(j) \/ Completed(j)

Spec == Init /\ [][Next]_vars

-----------------------------------------------------------------------------
(* Properties.                                                             *)

\* A text that live recognition delivered was recognised from all samples of
\* the recording it was asked for and from nothing else, however reading, the
\* recorder's last writes and the stop interleave (live_transcription.rs:225).
LiveTextIsWhole ==
  answer.from = "live" => stream[answer.job].position = wav[answer.job].pcm

\* A session that still streams belongs to the recording in progress or to the
\* request that waits for it: nobody's voice goes on being sent.
SessionsEnd ==
  \A j \in Jobs : Streams(j) =>
    live = j \/ (request.state = "finishing" /\ request.job = j)

\* The inductive invariant.  A recording whose recorder has ended is not written any
\* more.  A thread takes the end of the samples for known only when it was told to
\* finish, which is after that; it is told so while the request waits for it; and a
\* session that is neither dropped nor told to finish is that of the newest recording.
Ended(j) == j < capture.job \/ (j = capture.job /\ capture.state \in {"stopped", "idle"})
Files == [pcm : 0..MaxAudio + 1, size : 0..MaxAudio + 1, tail : {0, 1}]
Threads ==
  [state : {"none", "running", "ok", "failed"}, command : {"running", "finish", "cancel"},
   ready : BOOLEAN, position : Nat, end : Nat, committed : BOOLEAN]
Typed ==
  /\ updates \in BOOLEAN
  /\ capture \in [job : 0..MaxJobs, state : {"idle", "recording", "closing", "stopped"}]
  /\ wav \in [Jobs -> Files] /\ live \in 0..MaxJobs /\ stream \in [Jobs -> Threads]
  /\ request \in [job : 0..MaxJobs, state : {"none", "finishing", "uploading"}]
  /\ answer \in [job : 0..MaxJobs, from : {"none", "live", "file", "error"}]
Recorded ==
  /\ capture.state # "idle" => capture.job # 0
  /\ live # 0 => live = capture.job /\ capture.state # "idle" /\ request.state = "none"
  /\ capture.state = "stopped" => wav[capture.job].size \in {0, wav[capture.job].pcm}
  /\ capture.state \in {"recording", "closing"} /\ ~updates => wav[capture.job].size = 0
  /\ capture.state = "closing" => ~updates
Read(j, thread) ==
  /\ j > capture.job => /\ thread.state = "none" /\ thread.command = "running"
                        /\ wav[j].size = 0
  /\ thread.command = "running" => thread.end = NoSize
  /\ thread.command = "finish" =>
       /\ request.job = j /\ request.state = "finishing" /\ Ended(j)
       /\ wav[j].size \in {0, wav[j].pcm}
  /\ thread.end # NoSize => Ended(j) /\ thread.end = wav[j].pcm
  /\ thread.committed => thread.end # NoSize /\ thread.position = thread.end
  /\ thread.state = "ok" => thread.committed
  /\ thread.state = "running" /\ thread.command = "running" => live = j
Reading ==
  /\ Typed /\ Recorded /\ \A j \in Jobs : Read(j, stream[j])
  /\ answer.from = "live" => answer.job \in Jobs /\ stream[answer.job].state = "ok"

=============================================================================
