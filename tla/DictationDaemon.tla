--------------------------- MODULE DictationDaemon ---------------------------
(***************************************************************************)
(* The dictation daemon over its durable state: Daemon (agentdictate-app)  *)
(* calling Runtime (agentdictate-runtime), which writes one SQLite row per *)
(* dictation and moves its audio file.  A handler runs under the process   *)
(* mutex, one at a time; each database statement, file operation and call  *)
(* to the recorder, the transcriber, the overlay gate and the deliverer is *)
(* a step of its own (pc), because the process can die, and the            *)
(* maintenance thread can run, between any two of them.                    *)
(***************************************************************************)
EXTENDS Workflow, Naturals

CONSTANT MaxFaults  \* bound: crashes plus refused database and file operations

ASSUME MaxFaultsAssumption == MaxFaults \in Nat

VARIABLES
  \* durable: table dictation_jobs ("none" is the absence of a row)
  stage,      \* [Jobs -> Stages]
  status,     \* [Jobs -> Statuses], delivery_status
  raws,       \* jobs whose row holds a raw_transcript
  texts,      \* jobs whose row holds a non-blank final_text
  barred,     \* jobs whose completion_recording_allowed is 0
  \* durable: dictation_sessions with its History row, and the audio files
  sessions,   \* jobs with a usage session
  audio,      \* [Jobs -> {"none", "wav", "quarantine"}]
  \* volatile: AgentProcess, Daemon and the recorder
  boot,       \* "down", the step of startup it is in, or "up"
  wf,         \* Daemon::workflow
  active,     \* Daemon::active_job
  mic,        \* the job whose recording the recorder holds
  pc, cmd, cur,   \* step of the running handler, the handler, its job
  \* volatile: the agentdictate-maintenance thread
  mpc, todo, mjob,
  faults,     \* faults so far, to bound them
  \* history of the run, read by properties only
  born,       \* job ids issued
  heard,      \* jobs whose recorder started, so that audio exists
  quiet,      \* those that captured nothing but near-silence or a tap
  pasted,     \* jobs for which Deliverer::deliver was called
  submitted,  \* jobs that reached the delivered checkpoint
  disposed,   \* jobs whose row the user discarded or deleted
  erased      \* jobs whose History the user deleted or cleared

flags     == <<raws, texts, barred>>
rows      == <<stage, status, flags>>
disk      == <<sessions, audio>>
volatile  == <<wf, active, mic>>
control   == <<pc, cmd, cur>>
keeper    == <<mpc, todo, mjob>>
ghosts    == <<born, heard, quiet, pasted, submitted, disposed, erased>>
vars      == <<rows, disk, boot, volatile, control, keeper, faults, ghosts>>

\* JobStage values this code writes; cleaning, delivering, canceled, deleted
\* and no_speech only come from databases of older versions.
Stages   == {"none", "starting", "recording", "captured", "transcribing",
             "ready_to_deliver", "delivered", "interrupted", "failed"}
Statuses == {"not_attempted", "attempting", "submitted", "ambiguous"}
Steps    == {"idle", "open_mic", "mark_recording", "finish", "interrupt",
             "capture", "recover", "interrupt_captured", "mark_transcribing",
             "transcribe", "store", "drop_silent", "mark_failed", "gate",
             "mark_attempting", "paste", "settle_submitted",
             "settle_ambiguous", "settle_error", "complete", "sweep",
             "give_up", "quarantine", "delete_row", "delete_failed",
             "unlink", "quit"}
Commands == {"none", "start", "stop", "discard", "preserve", "shutdown",
             "retry_transcription", "retry_delivery", "delete"}

\* The range of every variable; a handler that runs, and the keeper when it
\* records a delivery, has a dictation it works on.
TypeOK ==
  /\ stage \in [Jobs -> Stages] /\ status \in [Jobs -> Statuses]
  /\ raws \subseteq Jobs /\ texts \subseteq Jobs /\ barred \subseteq Jobs
  /\ sessions \subseteq Jobs
  /\ audio \in [Jobs -> {"none", "wav", "quarantine"}]
  /\ boot \in {"down", "deliveries", "stages", "deletions", "up"}
  /\ wf \in Workflows
  /\ active \in Jobs \cup {NoJob} /\ mic \in Jobs \cup {NoJob}
  /\ pc \in Steps /\ cmd \in Commands /\ cur \in Jobs \cup {NoJob}
  /\ pc # "idle" => cur \in Jobs
  /\ mpc \in {"off", "list", "sweep", "record", "match", "remove"}
  /\ todo \subseteq Jobs /\ mjob \in Jobs \cup {NoJob}
  /\ mpc = "record" => mjob \in Jobs
  /\ faults \in 0..MaxFaults
  /\ born \subseteq Jobs /\ heard \subseteq Jobs /\ quiet \subseteq Jobs
  /\ pasted \subseteq Jobs /\ submitted \subseteq Jobs
  /\ disposed \subseteq Jobs /\ erased \subseteq Jobs

Init ==
  /\ stage = [j \in Jobs |-> "none"]
  /\ status = [j \in Jobs |-> "not_attempted"]
  /\ raws = {} /\ texts = {} /\ barred = {} /\ sessions = {}
  /\ audio = [j \in Jobs |-> "none"]
  /\ boot = "down"
  /\ wf = Ready /\ active = NoJob /\ mic = NoJob
  /\ pc = "idle" /\ cmd = "none" /\ cur = NoJob
  /\ mpc = "off" /\ todo = {} /\ mjob = NoJob
  /\ faults = 0
  /\ born = {} /\ heard = {} /\ quiet = {} /\ pasted = {}
  /\ submitted = {} /\ disposed = {} /\ erased = {}

-----------------------------------------------------------------------------
(* Helpers.  NoFault and Fault say whether this step's database or file    *)
(* operation succeeds.                                                     *)

NoFault == UNCHANGED faults
Fault   == faults < MaxFaults /\ faults' = faults + 1

At(p) == boot = "up" /\ pc = p
Goto(p) == pc' = p /\ UNCHANGED <<cmd, cur>>
Call(c, p, j) == cmd' = c /\ pc' = p /\ cur' = j
Return == Call("none", "idle", NoJob)

SetStage(j, s) == stage' = [stage EXCEPT ![j] = s]
SetStatus(j, s) == status' = [status EXCEPT ![j] = s]
SetAudio(j, a) == audio' = [audio EXCEPT ![j] = a]

\* DELETE FROM dictation_jobs: the text and the flags go with the row.
DeleteRow(j) ==
  /\ SetStage(j, "none") /\ SetStatus(j, "not_attempted")
  /\ raws' = raws \ {j} /\ texts' = texts \ {j} /\ barred' = barred \ {j}

\* The end of a handler that owns the active recording: the workflow takes
\* the signal and the recording is no longer active.  A refused signal
\* returns early (the ? operator) and leaves both as they were.
Release(signal) ==
  IF Accepts(wf, signal, cur)
    THEN /\ wf' = Apply(wf, signal, cur) /\ active' = NoJob /\ UNCHANGED mic
         /\ IF cmd = "shutdown" THEN Goto("quit") ELSE Return
    ELSE UNCHANGED volatile /\ Return

\* What every exit of the process does, wanted or not.  SQLite commits with
\* synchronous = FULL, so the durable state is what the last step left.
Stop ==
  /\ boot' = "down" /\ Return
  /\ wf' = Ready /\ active' = NoJob /\ mic' = NoJob
  /\ mpc' = "off" /\ todo' = {} /\ mjob' = NoJob

-----------------------------------------------------------------------------
(* Starting a recording: Daemon::start_recording and Runtime's.            *)

StartRecording(j) ==
  /\ At("idle") /\ active = NoJob /\ j \notin born
  /\ SetStage(j, "starting") /\ born' = born \cup {j}
  /\ Call("start", "open_mic", j)
  /\ NoFault
  /\ UNCHANGED <<status, flags, disk, boot, volatile, keeper, heard, quiet,
                 pasted, submitted, disposed, erased>>

\* The row is inserted and cannot be read back: an error before the recorder
\* is asked, and the row stays as it is until startup interrupts it.
StartUnread(j) ==
  /\ At("idle") /\ active = NoJob /\ j \notin born
  /\ SetStage(j, "starting") /\ born' = born \cup {j}
  /\ Fault
  /\ UNCHANGED <<status, flags, disk, boot, volatile, control, keeper, heard,
                 quiet, pasted, submitted, disposed, erased>>

\* StartingRecorder::start: the workflow first, then the microphone.
OpenMic ==
  /\ At("open_mic")
  /\ Accepts(wf, "StartRequested", cur) /\ mic = NoJob
  /\ wf' = Apply(wf, "StartRequested", cur) /\ mic' = cur
  /\ SetAudio(cur, "wav") /\ heard' = heard \cup {cur}
  /\ quiet' = quiet \cup {cur} \/ UNCHANGED quiet
  /\ Goto("mark_recording") /\ NoFault
  /\ UNCHANGED <<rows, sessions, boot, active, keeper, born, pasted,
                 submitted, disposed, erased>>

\* Marks a start that failed as interrupted, ignoring a refused update.
AbandonStart(w) ==
  /\ \/ SetStage(cur, "interrupted") /\ NoFault
     \/ UNCHANGED stage /\ Fault
  /\ wf' = IF Accepts(w, "Interrupted", cur) THEN Apply(w, "Interrupted", cur)
                                              ELSE w
  /\ UNCHANGED <<status, flags, sessions, boot, active, keeper, ghosts>>
  /\ Return

\* The microphone did not open; a partial file may be left behind.
OpenMicFails ==
  /\ At("open_mic")
  /\ UNCHANGED mic
  /\ \E a \in {"none", "wav"} : SetAudio(cur, a)
  /\ AbandonStart(IF Accepts(wf, "StartRequested", cur)
                    THEN Apply(wf, "StartRequested", cur) ELSE wf)

MarkRecording ==
  /\ At("mark_recording")
  /\ SetStage(cur, "recording")
  /\ wf' = Apply(wf, "FirstAudioFrameWritten", cur)
  /\ active' = cur
  /\ Return /\ NoFault
  /\ UNCHANGED <<status, flags, disk, boot, mic, keeper, ghosts>>

\* Mutant: no abort_start after the refused recording checkpoint.
KeepMicOpen ==
  /\ At("mark_recording") /\ faults < MaxFaults
  /\ \/ SetStage(cur, "interrupted") \/ UNCHANGED stage
  /\ wf' = Apply(wf, "Interrupted", cur)
  /\ faults' = faults + 1 /\ Return
  /\ UNCHANGED <<status, flags, disk, boot, active, mic, keeper, ghosts>>

\* The recording checkpoint was refused: abort_start releases the microphone.
MarkRecordingFails ==
  /\ At("mark_recording") /\ faults < MaxFaults
  /\ mic' = NoJob
  /\ \/ SetStage(cur, "interrupted") \/ UNCHANGED stage
  /\ wf' = Apply(wf, "Interrupted", cur)
  /\ faults' = faults + 1 /\ Return
  /\ UNCHANGED <<status, flags, disk, boot, active, keeper, ghosts>>

\* The recording checkpoint is committed and the row cannot be read back: the
\* error is returned without abort_start, and the daemon, which gives the
\* workflow up, never learns that this recording is active.
MarkRecordingUnread ==
  /\ At("mark_recording") /\ Fault
  /\ SetStage(cur, "recording")
  /\ wf' = Apply(wf, "Interrupted", cur)
  /\ Return
  /\ UNCHANGED <<status, flags, disk, boot, active, mic, keeper, ghosts>>

-----------------------------------------------------------------------------
(* The handlers that end a recording.  They share the recorder's finish    *)
(* and the captured checkpoint, and differ in what follows.                *)

StopRecording ==
  /\ At("idle") /\ active # NoJob /\ stage[active] # "none"
  /\ Accepts(wf, "StopRequested", wf.job)
  /\ wf' = Apply(wf, "StopRequested", wf.job)
  /\ Call("stop", "finish", active)
  /\ UNCHANGED <<rows, disk, boot, active, mic, keeper, faults, ghosts>>

\* Mutant: takes the job from the workflow instead of active_job.
EndWorkflowJob(c) ==
  /\ At("idle") /\ active # NoJob
  /\ Call(c, "finish", wf.job)
  /\ UNCHANGED <<rows, disk, boot, volatile, keeper, faults, ghosts>>

\* Cancel (Escape) discards; an exit notice of the active job's recorder and
\* Quit preserve.  The notice comes from another thread: it may be late,
\* duplicated or lost, so any job that ever recorded can send one.
EndRecording(c) ==
  /\ At("idle") /\ active # NoJob /\ stage[active] # "none"
  /\ Call(c, "finish", active)
  /\ UNCHANGED <<rows, disk, boot, volatile, keeper, faults, ghosts>>

DiscardRecording == EndRecording("discard")
RecorderExited(j) == j \in heard /\ active = j /\ EndRecording("preserve")
Shutdown == EndRecording("shutdown")

QuitIdle ==
  /\ At("idle") /\ active = NoJob
  /\ Stop
  /\ UNCHANGED <<rows, disk, faults, ghosts>>

Quit ==
  /\ At("quit")
  /\ Stop
  /\ UNCHANGED <<rows, disk, faults, ghosts>>

Finish ==
  /\ At("finish") /\ mic = cur
  /\ mic' = NoJob /\ Goto("capture")
  /\ UNCHANGED <<rows, disk, boot, wf, active, keeper, faults, ghosts>>

\* Mutant: a recorder that cannot finish is asked again.
FinishAgain ==
  /\ At("finish")
  /\ mic' = NoJob /\ Goto("finish")
  /\ UNCHANGED <<rows, disk, boot, wf, active, keeper, faults, ghosts>>

FinishFails ==
  /\ At("finish")
  /\ mic' = IF mic = cur THEN NoJob ELSE mic
  /\ Goto("interrupt")
  /\ UNCHANGED <<rows, disk, boot, wf, active, keeper, faults, ghosts>>

\* interrupt_job(id, from): the row moves only from the stage it is expected in.
InterruptFrom(from) ==
  /\ stage[cur] = from
  /\ SetStage(cur, "interrupted") /\ NoFault
  /\ Release("Interrupted")
  /\ UNCHANGED <<status, flags, disk, boot, keeper, ghosts>>

\* An interrupt_job refused, or whose row cannot be read back after it, returns
\* through ? with the recording still active.
InterruptFails(from) ==
  /\ \/ stage[cur] # from /\ UNCHANGED stage /\ NoFault
     \/ UNCHANGED stage /\ Fault
     \/ stage[cur] = from /\ SetStage(cur, "interrupted") /\ Fault
  /\ Return
  /\ UNCHANGED <<status, flags, disk, boot, volatile, keeper, ghosts>>

Interrupt == At("interrupt") /\ InterruptFrom("recording")
InterruptRefused == At("interrupt") /\ InterruptFails("recording")
PreserveCaptured == At("interrupt_captured") /\ InterruptFrom("captured")
PreserveRefused == At("interrupt_captured") /\ InterruptFails("captured")

Capture ==
  /\ At("capture") /\ stage[cur] = "recording"
  /\ SetStage(cur, "captured") /\ NoFault
  /\ \/ /\ cmd = "stop"
        /\ wf' = Apply(wf, "CaptureFinalized", cur)
        /\ Goto("mark_transcribing")
     \/ cmd = "discard" /\ UNCHANGED wf /\ Goto("quarantine")
     \/ cmd \in {"preserve", "shutdown"} /\ UNCHANGED wf
        /\ Goto("interrupt_captured")
  /\ UNCHANGED <<status, flags, disk, boot, active, mic, keeper, ghosts>>

\* The captured checkpoint is refused, or committed and not read back.
CaptureFails ==
  /\ At("capture")
  /\ \/ stage[cur] # "recording" /\ UNCHANGED stage /\ NoFault
     \/ UNCHANGED stage /\ Fault
     \/ stage[cur] = "recording" /\ SetStage(cur, "captured") /\ Fault
  /\ Goto("recover")
  /\ UNCHANGED <<status, flags, disk, boot, volatile, keeper, ghosts>>

\* recover_after_capture_checkpoint_failure.  The workflow ends in
\* NeedsAttention of this job: directly, or rebuilt from Ready.
Recover ==
  /\ At("recover")
  /\ \/ stage[cur] = "recording" /\ SetStage(cur, "interrupted") /\ NoFault
     \/ stage[cur] # "recording" /\ UNCHANGED stage /\ NoFault
     \/ UNCHANGED stage /\ Fault
  /\ wf' = [phase |-> "needs_attention", job |-> cur]
  /\ active' = NoJob /\ Return
  /\ UNCHANGED <<status, flags, disk, boot, mic, keeper, ghosts>>

-----------------------------------------------------------------------------
(* Runtime::process_captured and deliver_ready, with what stop_recording   *)
(* and the two retries do around them.                                     *)

\* Mutant: the ambiguous delivery is not refused.
RetryAmbiguous(j) ==
  /\ At("idle") /\ active = NoJob
  /\ stage[j] \in {"captured", "interrupted", "failed"}
  /\ SetStage(j, "captured") /\ SetStatus(j, "not_attempted") /\ NoFault
  /\ Call("retry_transcription", "mark_transcribing", j)
  /\ UNCHANGED <<flags, disk, boot, volatile, keeper, ghosts>>

\* A retry whose own checkpoint cannot be read back ends like one whose next
\* write is refused, or whose gate stays closed: with the row as it wrote it.
RetryTranscription(j) ==
  /\ At("idle") /\ active = NoJob
  /\ stage[j] \in {"captured", "interrupted", "failed"}
  /\ status[j] # "ambiguous"
  /\ SetStage(j, "captured") /\ SetStatus(j, "not_attempted") /\ NoFault
  /\ Call("retry_transcription", "mark_transcribing", j)
  /\ UNCHANGED <<flags, disk, boot, volatile, keeper, ghosts>>

RetryDelivery(j) ==
  /\ At("idle") /\ active = NoJob
  /\ stage[j] \in {"ready_to_deliver", "interrupted", "failed"}
  /\ j \in texts /\ status[j] # "attempting"
  /\ SetStage(j, "ready_to_deliver") /\ SetStatus(j, "not_attempted")
  /\ NoFault
  /\ Call("retry_delivery", "gate", j)
  /\ UNCHANGED <<flags, disk, boot, volatile, keeper, ghosts>>

\* A database statement of process_captured or deliver_ready is refused.
WriteFails ==
  /\ pc \in {"mark_transcribing", "store", "drop_silent", "mark_failed",
             "mark_attempting", "settle_submitted", "settle_ambiguous",
             "settle_error"}
  /\ boot = "up" /\ Fault /\ Goto("give_up")
  /\ UNCHANGED <<rows, disk, boot, volatile, keeper, ghosts>>

\* A checkpoint of process_captured or deliver_ready is committed and its row
\* cannot be read back: what it wrote stays, the handler gets an error.
WrittenUnread ==
  /\ boot = "up" /\ Fault /\ Goto("give_up")
  /\ \/ /\ pc = "mark_transcribing" /\ stage[cur] = "captured"
        /\ SetStage(cur, "transcribing") /\ UNCHANGED <<status, texts, submitted>>
     \/ /\ pc = "store"
        /\ SetStage(cur, "ready_to_deliver") /\ SetStatus(cur, "not_attempted")
        /\ texts' = texts \cup {cur} /\ UNCHANGED submitted
     \/ /\ pc = "settle_submitted"
        /\ SetStage(cur, "delivered") /\ SetStatus(cur, "submitted")
        /\ submitted' = submitted \cup {cur} /\ UNCHANGED texts
     \/ /\ pc = "settle_ambiguous"
        /\ SetStage(cur, "failed") /\ SetStatus(cur, "ambiguous")
        /\ UNCHANGED <<texts, submitted>>
  /\ UNCHANGED <<raws, barred, disk, boot, volatile, keeper, born, heard,
                 quiet, pasted, disposed, erased>>

MarkTranscribing ==
  /\ At("mark_transcribing") /\ stage[cur] = "captured"
  /\ SetStage(cur, "transcribing") /\ NoFault
  /\ Goto("transcribe")
  /\ UNCHANGED <<status, flags, disk, boot, volatile, keeper, ghosts>>

\* Text from the stored audio, checkpointed as raw_transcript before it is
\* cleaned up; a retry of a job that has one does not transcribe again.
TranscribeText ==
  /\ At("transcribe") /\ (cur \in raws \/ audio[cur] = "wav")
  /\ raws' = raws \cup {cur} /\ NoFault
  /\ Goto("store")
  /\ UNCHANGED <<stage, status, texts, barred, disk, boot, volatile, keeper,
                 ghosts>>

\* Mutant: an empty transcript is silence whatever the audio holds.
TrustEmptyTranscript ==
  /\ At("transcribe") /\ cur \notin raws /\ audio[cur] = "wav"
  /\ Goto("drop_silent")
  /\ UNCHANGED <<rows, disk, boot, volatile, keeper, faults, ghosts>>

\* ExternalError::NoSpeech: only for audio that is verifiably near-silent.
TranscribeSilence ==
  /\ At("transcribe") /\ cur \notin raws /\ cur \in quiet
  /\ audio[cur] = "wav"
  /\ Goto("drop_silent")
  /\ UNCHANGED <<rows, disk, boot, volatile, keeper, faults, ghosts>>

\* Any other answer, a refused checkpoint among them.
TranscribeFails ==
  /\ At("transcribe") /\ Goto("mark_failed")
  /\ UNCHANGED <<rows, disk, boot, volatile, keeper, faults, ghosts>>

\* A replacement rule that cannot be applied returns before any checkpoint.
ReplacementsFail ==
  /\ At("store") /\ Goto("give_up")
  /\ UNCHANGED <<rows, disk, boot, volatile, keeper, faults, ghosts>>

Store ==
  /\ At("store")
  /\ SetStage(cur, "ready_to_deliver") /\ SetStatus(cur, "not_attempted")
  /\ texts' = texts \cup {cur} /\ NoFault
  /\ Goto("gate")
  /\ UNCHANGED <<raws, barred, disk, boot, volatile, keeper, ghosts>>

DropSilent ==
  /\ At("drop_silent")
  /\ DeleteRow(cur) /\ NoFault
  /\ Goto("sweep")
  /\ UNCHANGED <<disk, boot, volatile, keeper, ghosts>>

MarkFailed ==
  /\ At("mark_failed")
  /\ SetStage(cur, "failed") /\ NoFault
  /\ Goto("give_up")
  /\ UNCHANGED <<status, flags, disk, boot, volatile, keeper, ghosts>>

\* The overlay confirms that it is gone, or delivery is blocked: the row
\* only gets an error message.
Gate ==
  /\ At("gate")
  /\ Goto("mark_attempting") \/ Goto("give_up")
  /\ UNCHANGED <<rows, disk, boot, volatile, keeper, faults, ghosts>>

MarkAttempting ==
  /\ At("mark_attempting")
  /\ SetStatus(cur, "attempting") /\ NoFault
  /\ Goto("paste")
  /\ UNCHANGED <<stage, flags, disk, boot, volatile, keeper, ghosts>>

Paste ==
  /\ At("paste")
  /\ pasted' = pasted \cup {cur}
  /\ \E p \in {"settle_submitted", "settle_ambiguous", "settle_error"} : Goto(p)
  /\ UNCHANGED <<rows, disk, boot, volatile, keeper, faults, born, heard,
                 quiet, submitted, disposed, erased>>

SettleSubmitted ==
  /\ At("settle_submitted")
  /\ SetStage(cur, "delivered") /\ SetStatus(cur, "submitted") /\ NoFault
  /\ submitted' = submitted \cup {cur}
  /\ Goto("complete")
  /\ UNCHANGED <<flags, disk, boot, volatile, keeper, born, heard, quiet,
                 pasted, disposed, erased>>

\* Mutant: the ambiguous delivery is marked failed, its status is not.
SettleFailed ==
  /\ At("settle_ambiguous")
  /\ SetStage(cur, "failed") /\ NoFault
  /\ \/ cmd = "stop" /\ Release("Interrupted")
     \/ cmd # "stop" /\ wf' = Ready /\ UNCHANGED <<active, mic>> /\ Return
  /\ UNCHANGED <<status, flags, disk, boot, keeper, ghosts>>

\* mark_delivery_ambiguous, for an ambiguous disposition and for an error.
\* stop_recording then leaves the workflow in NeedsAttention, a retry in Ready.
SettleAmbiguous ==
  /\ At("settle_ambiguous")
  /\ SetStage(cur, "failed") /\ SetStatus(cur, "ambiguous") /\ NoFault
  /\ \/ cmd = "stop" /\ Release("Interrupted")
     \/ cmd # "stop" /\ wf' = Ready /\ UNCHANGED <<active, mic>> /\ Return
  /\ UNCHANGED <<flags, disk, boot, keeper, ghosts>>

SettleError ==
  /\ At("settle_error")
  /\ SetStage(cur, "failed") /\ SetStatus(cur, "ambiguous") /\ NoFault
  /\ Goto("give_up")
  /\ UNCHANGED <<flags, disk, boot, volatile, keeper, ghosts>>

\* stop_recording reads the persisted stage and reports it to the workflow,
\* unless that read is refused; a retry just returns its error.
GiveUp ==
  /\ At("give_up")
  /\ \/ cmd = "stop" /\ Release("Interrupted") /\ NoFault
     \/ cmd = "stop" /\ Return /\ UNCHANGED volatile /\ Fault
     \/ cmd # "stop" /\ Return /\ UNCHANGED volatile /\ NoFault
  /\ UNCHANGED <<rows, disk, boot, keeper, ghosts>>

\* Mutant: the session is recorded and the row stays.
RecordOnly(j) ==
  /\ sessions' = IF stage[j] = "delivered" /\ j \notin barred
                   THEN sessions \cup {j} ELSE sessions
  /\ UNCHANGED rows

\* Runtime::complete_delivered, one transaction: the session, then the row.
Complete(j) ==
  IF stage[j] = "delivered"
    THEN /\ sessions' = IF j \in barred THEN sessions ELSE sessions \cup {j}
         /\ DeleteRow(j)
    ELSE UNCHANGED <<rows, sessions>>

\* The daemon logs a refused completion and goes on: the paste is done.
CompleteDelivered ==
  /\ At("complete")
  /\ \/ Complete(cur) /\ NoFault
     \/ UNCHANGED <<rows, sessions>> /\ Fault
  /\ Goto("sweep")
  /\ UNCHANGED <<audio, boot, volatile, keeper, ghosts>>

\* cleanup_completed_audio: kept if preserve_temp_audio is on, if it cannot
\* be removed, or if it is gone.  The workflow is Ready again either way.
Sweep ==
  /\ At("sweep")
  /\ \/ audio[cur] = "wav" /\ SetAudio(cur, "none")
     \/ UNCHANGED audio
  /\ wf' = Ready /\ active' = NoJob /\ UNCHANGED mic
  /\ Return
  /\ UNCHANGED <<rows, sessions, boot, keeper, faults, ghosts>>

-----------------------------------------------------------------------------
(* Runtime::delete_recovery: quarantine the audio, delete the row, unlink. *)
(* The daemon does not look at the active recording before it calls it.    *)

\* Mutant: a delivered row that waits for its completion can be deleted.
DeleteAnyFinished(j) ==
  /\ At("idle")
  /\ stage[j] \in {"captured", "ready_to_deliver", "interrupted", "failed",
                   "delivered"}
  /\ Call("delete", "quarantine", j)
  /\ UNCHANGED <<rows, disk, boot, volatile, keeper, faults, ghosts>>

DeleteRecovery(j) ==
  /\ At("idle")
  /\ stage[j] \in {"captured", "ready_to_deliver", "interrupted", "failed"}
  /\ Call("delete", "quarantine", j)
  /\ UNCHANGED <<rows, disk, boot, volatile, keeper, faults, ghosts>>

Quarantine ==
  /\ At("quarantine")
  /\ \/ /\ NoFault /\ Goto("delete_row")
        /\ IF audio[cur] = "wav" THEN SetAudio(cur, "quarantine")
                                 ELSE UNCHANGED audio
     \/ Fault /\ UNCHANGED audio /\ Goto("delete_failed")
  /\ UNCHANGED <<rows, sessions, boot, volatile, keeper, ghosts>>

CommitDelete ==
  /\ At("delete_row")
  /\ DeleteRow(cur) /\ NoFault /\ Goto("unlink")
  /\ disposed' = disposed \cup {cur}
  /\ UNCHANGED <<disk, boot, volatile, keeper, born, heard, quiet, pasted,
                 submitted, erased>>

\* The row survives, so its audio is moved back; that rename can fail too.
CommitDeleteFails ==
  /\ At("delete_row")
  /\ \/ audio[cur] = "quarantine" /\ SetAudio(cur, "wav")
     \/ UNCHANGED audio
  /\ Fault /\ Goto("delete_failed")
  /\ UNCHANGED <<rows, sessions, boot, volatile, keeper, ghosts>>

DeleteFailed ==
  /\ At("delete_failed")
  /\ \/ cmd = "discard" /\ Release("Interrupted")
     \/ cmd = "delete" /\ UNCHANGED volatile /\ Return
  /\ UNCHANGED <<rows, disk, boot, keeper, faults, ghosts>>

Unlink ==
  /\ At("unlink")
  /\ \/ audio[cur] = "quarantine" /\ SetAudio(cur, "none") /\ NoFault
     \/ audio[cur] # "quarantine" /\ UNCHANGED audio /\ NoFault
     \/ UNCHANGED audio /\ Fault
  /\ \/ cmd = "discard" /\ Release("DiscardCommitted")
     \/ cmd = "delete" /\ wf' = Ready /\ UNCHANGED <<active, mic>> /\ Return
  /\ UNCHANGED <<rows, sessions, boot, keeper, ghosts>>

-----------------------------------------------------------------------------
(* History.  Both are one transaction; a refused one changes nothing.      *)

DeleteHistory(j) ==
  /\ At("idle") /\ j \in sessions
  /\ sessions' = sessions \ {j} /\ erased' = erased \cup {j}
  /\ UNCHANGED <<rows, audio, boot, volatile, control, keeper, faults, born,
                 heard, quiet, pasted, submitted, disposed>>

\* Mutant: deliveries whose completion is pending are not barred.
ClearRecordedOnly ==
  /\ At("idle")
  /\ erased' = erased \cup sessions \cup {j \in Jobs : stage[j] = "delivered"}
  /\ sessions' = {}
  /\ UNCHANGED <<rows, audio, boot, volatile, control, keeper, faults, born,
                 heard, quiet, pasted, submitted, disposed>>

ClearHistory ==
  /\ At("idle")
  /\ LET pending == {j \in Jobs : stage[j] = "delivered"}
     IN  /\ barred' = barred \cup pending
         /\ erased' = erased \cup sessions \cup pending
  /\ sessions' = {}
  /\ UNCHANGED <<stage, status, raws, texts, audio, boot, volatile, control,
                 keeper, faults, born, heard, quiet, pasted, submitted,
                 disposed>>

-----------------------------------------------------------------------------
(* The maintenance thread: its own connection, after the listener is up.   *)

MaintenanceVars == <<boot, volatile, control, ghosts>>

ListFinished ==
  /\ boot = "up" /\ mpc = "list"
  /\ todo' = {j \in Jobs : stage[j] = "delivered"}
  /\ mpc' = "sweep"
  /\ UNCHANGED <<rows, disk, mjob, faults, MaintenanceVars>>

\* Mutant: a missing file counts as one that could not be removed.
SweepExisting(j) ==
  /\ boot = "up" /\ mpc = "sweep" /\ j \in todo
  /\ todo' = todo \ {j}
  /\ \/ /\ audio[j] = "wav" /\ SetAudio(j, "none")
        /\ mpc' = "record" /\ mjob' = j
     \/ audio[j] # "wav" /\ UNCHANGED <<audio, mpc, mjob>>
  /\ UNCHANGED <<rows, sessions, faults, MaintenanceVars>>

\* Audio first, unless the settings keep it; if it cannot be removed the job
\* keeps its row and the next start tries again.
SweepFinished(j) ==
  /\ boot = "up" /\ mpc = "sweep" /\ j \in todo
  /\ todo' = todo \ {j}
  /\ \/ /\ NoFault /\ mpc' = "record" /\ mjob' = j
        /\ \/ audio[j] = "wav" /\ SetAudio(j, "none")
           \/ UNCHANGED audio
     \/ Fault /\ UNCHANGED <<audio, mpc, mjob>>
  /\ UNCHANGED <<rows, sessions, MaintenanceVars>>

RecordFinished ==
  /\ boot = "up" /\ mpc = "record"
  /\ stage[mjob] \in {"none", "delivered"}
  /\ Complete(mjob) /\ NoFault
  /\ mpc' = "sweep" /\ mjob' = NoJob /\ UNCHANGED todo
  /\ UNCHANGED <<audio, MaintenanceVars>>

\* A refused transaction ends the cleanup until the next start.
RecordFinishedFails ==
  /\ boot = "up" /\ mpc = "record"
  /\ Fault /\ mpc' = "off" /\ mjob' = NoJob /\ todo' = {}
  /\ UNCHANGED <<rows, disk, MaintenanceVars>>

\* remove_orphan_recordings: the directory is read before the owners are.
ScanRecordings ==
  /\ boot = "up" /\ mpc = "sweep" /\ todo = {}
  /\ \/ mpc' = "match" /\ todo' = {j \in Jobs : audio[j] = "wav"}
     \/ mpc' = "off" /\ UNCHANGED todo      \* preserve_temp_audio is on
  /\ UNCHANGED <<rows, disk, mjob, faults, MaintenanceVars>>

MatchOwners ==
  /\ boot = "up" /\ mpc = "match"
  /\ todo' = {j \in todo : stage[j] = "none"}
  /\ mpc' = "remove"
  /\ UNCHANGED <<rows, disk, mjob, faults, MaintenanceVars>>

\* A file younger than an hour, or that cannot be removed, stays.
RemoveOrphan(j) ==
  /\ boot = "up" /\ mpc = "remove" /\ j \in todo
  /\ todo' = todo \ {j}
  /\ \/ audio[j] = "wav" /\ SetAudio(j, "none")
     \/ UNCHANGED audio
  /\ UNCHANGED <<rows, sessions, mpc, mjob, faults, MaintenanceVars>>

EndMaintenance ==
  /\ boot = "up" /\ mpc = "remove" /\ todo = {}
  /\ mpc' = "off"
  /\ UNCHANGED <<rows, disk, todo, mjob, faults, MaintenanceVars>>

-----------------------------------------------------------------------------
(* Death and startup.  Runtime::open reconciles, each statement on its own *)
(* commit; then AgentProcess::open reconciles quarantined audio.           *)

Crash ==
  /\ boot # "down" /\ Fault
  /\ Stop
  /\ UNCHANGED <<rows, disk, ghosts>>

BootVars == <<flags, sessions, volatile, control, todo, mjob, faults, ghosts>>

Open ==
  /\ boot = "down" /\ boot' = "deliveries"
  /\ UNCHANGED <<stage, status, audio, mpc, BootVars>>

ReconcileAmbiguousDeliveries ==
  /\ boot = "deliveries" /\ boot' = "stages"
  /\ stage' = [j \in Jobs |-> IF stage[j] # "none" /\ status[j] = "attempting"
                                THEN "failed" ELSE stage[j]]
  /\ status' = [j \in Jobs |-> IF stage[j] # "none" /\ status[j] = "attempting"
                                 THEN "ambiguous" ELSE status[j]]
  /\ UNCHANGED <<audio, mpc, BootVars>>

\* Mutant: every unfinished stage counts as interrupted, delivered included.
InterruptAll ==
  /\ boot = "stages" /\ boot' = "deletions"
  /\ stage' = [j \in Jobs |-> IF stage[j] \in {"none", "captured", "failed",
                                                "ready_to_deliver"}
                                THEN stage[j] ELSE "interrupted"]
  /\ UNCHANGED <<status, audio, mpc, BootVars>>

\* Mutant: transcribing is forgotten.
InterruptCapturesOnly ==
  /\ boot = "stages" /\ boot' = "deletions"
  /\ stage' = [j \in Jobs |-> IF stage[j] \in {"starting", "recording"}
                                THEN "interrupted" ELSE stage[j]]
  /\ UNCHANGED <<status, audio, mpc, BootVars>>

ReconcileInterruptedJobs ==
  /\ boot = "stages" /\ boot' = "deletions"
  /\ stage' = [j \in Jobs |->
                 IF stage[j] \in {"starting", "recording", "transcribing"}
                   THEN "interrupted" ELSE stage[j]]
  /\ UNCHANGED <<status, audio, mpc, BootVars>>

\* Mutant: a quarantined file is removed without looking for its row.
RemoveQuarantined(j) ==
  /\ boot = "deletions" /\ audio[j] = "quarantine"
  /\ SetAudio(j, "none")
  /\ UNCHANGED <<stage, status, boot, mpc, BootVars>>

ReconcileDeletion(j) ==
  /\ boot = "deletions" /\ audio[j] = "quarantine"
  /\ SetAudio(j, IF stage[j] = "none" THEN "none" ELSE "wav")
  /\ UNCHANGED <<stage, status, boot, mpc, BootVars>>

\* Mutant: the daemon serves before the deletions are reconciled.
ServeEarly ==
  /\ boot = "deletions"
  /\ boot' = "up" /\ mpc' = "list"
  /\ UNCHANGED <<stage, status, audio, BootVars>>

Serve ==
  /\ boot = "deletions" /\ \A j \in Jobs : audio[j] # "quarantine"
  /\ boot' = "up" /\ mpc' = "list"
  /\ UNCHANGED <<stage, status, audio, BootVars>>

-----------------------------------------------------------------------------
Command ==
  \/ \E j \in Jobs : \/ StartRecording(j) \/ StartUnread(j)
                     \/ RecorderExited(j)
                     \/ RetryTranscription(j) \/ RetryDelivery(j)
                     \/ DeleteRecovery(j) \/ DeleteHistory(j)
  \/ StopRecording \/ DiscardRecording \/ Shutdown \/ QuitIdle \/ ClearHistory

HandlerStep ==
  \/ OpenMic \/ OpenMicFails \/ MarkRecording \/ MarkRecordingFails
  \/ MarkRecordingUnread
  \/ Finish \/ FinishFails \/ Interrupt \/ InterruptRefused
  \/ PreserveCaptured \/ PreserveRefused \/ Capture \/ CaptureFails \/ Recover
  \/ MarkTranscribing \/ TranscribeText \/ TranscribeSilence
  \/ TranscribeFails \/ ReplacementsFail \/ Store \/ DropSilent \/ MarkFailed
  \/ Gate \/ MarkAttempting \/ Paste
  \/ SettleSubmitted \/ SettleAmbiguous \/ SettleError \/ WriteFails
  \/ WrittenUnread
  \/ GiveUp \/ CompleteDelivered \/ Sweep
  \/ Quarantine \/ CommitDelete \/ CommitDeleteFails \/ DeleteFailed \/ Unlink
  \/ Quit

Maintenance ==
  \/ ListFinished \/ RecordFinished \/ RecordFinishedFails
  \/ ScanRecordings \/ MatchOwners \/ EndMaintenance
  \/ \E j \in Jobs : SweepFinished(j) \/ RemoveOrphan(j)

Startup ==
  \/ Open \/ ReconcileAmbiguousDeliveries \/ ReconcileInterruptedJobs
  \/ Serve \/ \E j \in Jobs : ReconcileDeletion(j)

Next == Command \/ HandlerStep \/ Maintenance \/ Startup \/ Crash

Spec == Init /\ [][Next]_vars

-----------------------------------------------------------------------------
(* Fairness.  A handler that has begun runs on: every external call it     *)
(* makes is bounded by a timeout in the code (HTTP, recorder, overlay,     *)
(* paste).  The maintenance thread is scheduled.  A daemon that is down is *)
(* started again by the login item or the user, and startup runs on.       *)
FairSpec ==
  /\ Spec
  /\ WF_vars(HandlerStep) /\ WF_vars(Maintenance) /\ WF_vars(Startup)

-----------------------------------------------------------------------------
(* Safety.                                                                 *)

\* Single injection: once Deliverer::deliver has been called for a dictation,
\* its row never again looks like one that still has to be transcribed.  It is
\* on its delivery, delivered, or failed with an ambiguous delivery, which
\* retry_transcription refuses - through refused checkpoints, crashes and
\* retries.
AttemptIsRemembered ==
  \A j \in pasted :
    \/ stage[j] \in {"none", "delivered", "ready_to_deliver"}
    \/ stage[j] = "failed" /\ status[j] = "ambiguous"

\* Text that may already have reached an application is handed over again
\* only by the handler of an explicit Retry delivery.
NoBlindRepaste ==
  [][\A j \in pasted : Paste /\ cur = j => cmd = "retry_delivery"]_vars

\* While a dictation's row is neither delivered nor gone, its only audio copy
\* exists: at its path, or in the quarantine startup restores it from.
\* Deleting, discarding, crashes between rename, row and unlink, and the
\* orphan scan may not take it.
RecordingIsKept ==
  \A j \in heard : stage[j] \notin {"none", "delivered"} => audio[j] # "none"

\* Nothing vanishes by itself: a recording that made a sound and whose row is
\* gone was delivered, or the user discarded or deleted it.
NothingVanishes ==
  \A j \in heard : stage[j] = "none" => j \in submitted \cup disposed \cup quiet

\* A delivered dictation is counted, even if completing it failed or the
\* process died in between: it waits as a delivered row, or has its session,
\* or the user erased it.
DeliveredIsRecorded ==
  \A j \in submitted : stage[j] = "delivered" \/ j \in sessions \cup erased

\* Clearing History also covers deliveries whose completion is still to come
\* on either connection: nothing erased is recorded later.
ErasedStaysErased == erased \cap sessions = {}

\* One transaction moves a dictation from the job table to the totals: never
\* both, so neither a restart nor the maintenance thread counts it twice.
RowOrSession == \A j \in sessions : stage[j] = "none"

\* Between commands the microphone is open only for the recording that Stop,
\* Escape, an exit notice and Quit will end.  One path is excepted, because the
\* code loses that recording: a start whose recording checkpoint is committed
\* and cannot be read back (runtime.rs:144) leaves the microphone to nobody.
\* Then nothing else records, and the row stays at "recording", out of reach of
\* retries and deletion, so that the next startup offers its audio.
MicIsOwned ==
  boot = "up" /\ pc = "idle" /\ mic # NoJob =>
    active = mic \/ (active = NoJob /\ stage[mic] = "recording")

\* The contract of one dictation.
Life == [j \in Jobs |-> IF j \notin born THEN "unborn"
                        ELSE IF stage[j] = "none" THEN "closed"
                        ELSE IF stage[j] = "delivered" THEN "delivered"
                        ELSE "open"]

Contract == INSTANCE JobContract WITH
              life <- Life,
              insisted <- IF cmd = "retry_delivery" THEN {cur} ELSE {},
              recorded <- sessions

ImplementsContract == Contract!Spec

-----------------------------------------------------------------------------
(* Liveness, under FairSpec.                                               *)

\* Every handler returns, or the process goes down.
HandlersReturn == (pc # "idle") ~> (pc = "idle")

\* A delivery whose completion was lost is completed after the next start:
\* if no more faults come and the user lets that daemon run.
DeliveredIsCompleted ==
  <>[](boot = "up") =>
    \A j \in Jobs :
      (boot = "down" /\ faults = MaxFaults /\ stage[j] = "delivered")
        ~> (stage[j] = "none")

\* Audio parked by a delete that did not finish is put back or removed by the
\* next start, according to whether its row was deleted.
QuarantineIsResolved ==
  \A j \in Jobs :
    (boot = "down" /\ audio[j] = "quarantine")
      ~> (audio[j] = IF stage[j] = "none" THEN "none" ELSE "wav")

\* A dictation the process died with is offered for recovery after the start,
\* not left in a stage that only a running handler has.
InterruptedIsOffered ==
  \A j \in Jobs :
    (boot = "down" /\ stage[j] \in {"starting", "recording", "transcribing"})
      ~> (boot = "up" /\ stage[j] = "interrupted")

-----------------------------------------------------------------------------
(* What the repository's comments and documents say, and the code does not *)
(* do; the runs that check these report a violation.                       *)

\* "Resumes only deliveries for which no injection attempt was started": the
\* rows resume_safe_deliveries selects were never handed to an application.
ResumeSelects(j) == stage[j] = "ready_to_deliver" /\ status[j] = "not_attempted"
ResumeIsSafe ==
  boot = "up" /\ pc = "idle" => \A j \in Jobs : ResumeSelects(j) => j \notin pasted

\* "press once to start and again to stop": between commands, an active
\* recording is one the next press will stop.
PressAgainStops ==
  boot = "up" /\ pc = "idle" /\ active # NoJob =>
    Accepts(wf, "StopRequested", wf.job)

=============================================================================
