--------------------------- MODULE WindowsRecorder ---------------------------
(***************************************************************************)
(* Recording on Windows: the daemon sends commands to the audio owner and  *)
(* to the ducking worker and waits at most ten seconds for the owner, whose*)
(* capture is filled by the audio callback.  The owner may open the device *)
(* long after the daemon gave up.                                          *)
(* Source: crates/agentdictate-app/src/windows/system.rs and ducking.rs.   *)
(*                                                                         *)
(* One application plays.  Its volume is what it was ("full"), a level the *)
(* worker wrote ("low") or one the user chose ("user"); a read and the     *)
(* write that follows it are one step, and either may be refused.  "lost"  *)
(* is a level of ours that a refused restoration left and forgot.          *)
(***************************************************************************)
EXTENDS Naturals, Sequences

CONSTANTS MaxJobs,      \* bound on the recordings asked for
          MaxChanges    \* bound on what the user does to volume and settings

VARIABLES
  caller,    \* "idle", "starting", "recording", "aborting" or "finishing"
  job,       \* the newest recording
  commands,  \* what the owner has not taken
  reply,     \* the answer in the channel the caller waits on
  opening,   \* the recording start_capture is opening, 0 for none
  active,    \* the owner's capture, 0 for none
  samples,   \* AudioWriter::samples > 0
  ready,     \* AudioWriter::ready is still there
  failure,   \* AudioWriter::failure is set
  errors,    \* history: for each recording, the failures reported to the daemon
  duckings,  \* what the ducking worker has not taken
  ducking,   \* its settings are Some
  restoring, \* it is inside restore
  session,   \* its entry for the application
  volume,    \* the application's volume
  enabled,   \* settings.audio_ducking_enabled
  changes    \* what the user did so far

vars == <<caller, job, commands, reply, opening, active, samples, ready, failure,
          errors, duckings, ducking, restoring, session, volume, enabled, changes>>
callerVars == <<caller, job>>
ownerVars == <<opening, active, samples, ready, failure, errors>>
workerVars == <<ducking, restoring, session, volume>>
userVars == <<enabled, changes>>

Jobs == 1..MaxJobs
NoSession == [original |-> "none", last |-> "none", target |-> "none"]

Init ==
  /\ caller = "idle" /\ job = 0 /\ commands = <<>> /\ reply = "none"
  /\ opening = 0 /\ active = 0 /\ samples = FALSE /\ ready = FALSE /\ failure = FALSE
  /\ errors = [j \in Jobs |-> 0]
  /\ duckings = <<>> /\ ducking = FALSE /\ restoring = FALSE /\ session = NoSession
  /\ volume = "full" /\ enabled = TRUE /\ changes = 0

-----------------------------------------------------------------------------
(* The daemon, under the process mutex.                                    *)

\* Recorder::start up to its recv_timeout.
Start ==
  /\ caller = "idle" /\ job < MaxJobs
  /\ job' = job + 1 /\ caller' = "starting" /\ reply' = "none"
  /\ duckings' = Append(duckings, IF enabled THEN "duck" ELSE "stay")
  /\ commands' = Append(commands, <<"start", job'>>)
  /\ UNCHANGED <<ownerVars, workerVars, userVars>>

Started ==
  /\ caller = "starting" /\ reply = "ok" /\ caller' = "recording"
  /\ UNCHANGED <<job, commands, reply, ownerVars, duckings, workerVars, userVars>>

\* RecordingController::finish up to its recv_timeout.
Finish(next) ==
  /\ caller' = next /\ reply' = "none"
  /\ duckings' = Append(duckings, "restore")
  /\ commands' = Append(commands, <<"finish", job>>)
  /\ UNCHANGED <<job, ownerVars, workerVars, userVars>>

\* Mutant: a start that failed or came late is only reported.
ReportOnly ==
  /\ caller = "starting" /\ reply # "ok"
  /\ caller' = "idle" /\ reply' = "none"
  /\ duckings' = Append(duckings, "restore")
  /\ UNCHANGED <<job, commands, ownerVars, workerVars, userVars>>

\* The start failed, or its ten seconds passed: finish cleans up after it.
StartFails == caller = "starting" /\ reply # "ok" /\ Finish("aborting")

Stop == caller = "recording" /\ Finish("finishing")

\* finish is answered, or its ten seconds pass as well.
FinishEnds ==
  /\ caller \in {"aborting", "finishing"} /\ caller' = "idle"
  /\ UNCHANGED <<job, commands, reply, ownerVars, duckings, workerVars, userVars>>

\* update_settings.
UpdateSettings ==
  /\ caller \in {"idle", "recording"} /\ changes < MaxChanges
  /\ changes' = changes + 1 /\ enabled' = ~enabled
  /\ duckings' = IF enabled THEN Append(duckings, "restore") ELSE duckings
  /\ UNCHANGED <<callerVars, commands, reply, ownerVars, workerVars>>

-----------------------------------------------------------------------------
(* The audio owner and the audio callback.                                 *)

Awaited(kind, j) ==
  j = job /\ \/ kind = "start" /\ caller = "starting"
             \/ kind = "finish" /\ caller \in {"aborting", "finishing"}

\* An answer reaches the caller only while it waits for it.
Answers(kind, j, answer) ==
  reply' = IF Awaited(kind, j) /\ reply = "none" THEN answer ELSE reply

\* Start is refused while a capture is active, else the device is being opened.
TakeStart ==
  /\ opening = 0 /\ commands # <<>> /\ Head(commands)[1] = "start"
  /\ commands' = Tail(commands)
  /\ IF active # 0
     THEN Answers("start", Head(commands)[2], "failed") /\ UNCHANGED opening
     ELSE opening' = Head(commands)[2] /\ UNCHANGED reply
  /\ UNCHANGED <<callerVars, active, samples, ready, failure, errors, duckings,
                 workerVars, userVars>>

OpenSucceeds ==
  /\ opening # 0 /\ opening' = 0 /\ active' = opening
  /\ samples' = FALSE /\ ready' = TRUE /\ failure' = FALSE
  /\ UNCHANGED <<callerVars, commands, reply, errors, duckings, workerVars, userVars>>

OpenFails ==
  /\ opening # 0 /\ opening' = 0
  /\ Answers("start", opening, "failed")
  /\ UNCHANGED <<callerVars, commands, active, samples, ready, failure, errors,
                 duckings, workerVars, userVars>>

\* Finish closes its own capture only; audio_error may already have spoken.
TakeFinish ==
  /\ opening = 0 /\ commands # <<>> /\ Head(commands)[1] = "finish"
  /\ commands' = Tail(commands)
  /\ LET j == Head(commands)[2]
     IN /\ active' = IF active = j THEN 0 ELSE active
        /\ Answers("finish", j,
                   IF active = j /\ ~failure /\ samples THEN "ok" ELSE "failed")
  /\ UNCHANGED <<callerVars, opening, samples, ready, failure, errors, duckings,
                 workerVars, userVars>>

\* The data callback writes and flushes samples.
Samples ==
  /\ active # 0 /\ ~failure
  /\ samples' = TRUE /\ ready' = FALSE
  /\ IF ready THEN Answers("start", active, "ok") ELSE UNCHANGED reply
  /\ UNCHANGED <<callerVars, commands, opening, active, failure, errors, duckings,
                 workerVars, userVars>>

\* The data callback cannot write, or the stream reports an error.
CaptureFails ==
  /\ active # 0 /\ ~failure
  /\ failure' = TRUE /\ ready' = FALSE
  /\ errors' = [errors EXCEPT ![active] = @ + 1]
  /\ IF ready THEN Answers("start", active, "failed") ELSE UNCHANGED reply
  /\ UNCHANGED <<callerVars, commands, opening, active, samples, duckings,
                 workerVars, userVars>>

-----------------------------------------------------------------------------
(* The ducking worker and the user.                                        *)

TakeDucking ==
  /\ ~restoring /\ duckings # <<>>
  /\ duckings' = Tail(duckings)
  /\ ducking' = (Head(duckings) = "duck")
  /\ restoring' = (Head(duckings) # "duck")
  /\ UNCHANGED <<callerVars, commands, reply, ownerVars, session, volume, userVars>>

Discover ==
  /\ ~restoring /\ ducking /\ session = NoSession
  /\ session' = [original |-> volume, last |-> volume, target |-> "low"]
  /\ UNCHANGED <<callerVars, commands, reply, ownerVars, duckings, ducking, restoring,
                 volume, userVars>>

\* A step of the fade gives up when somebody else changed the volume, or when it
\* cannot be read; one whose write is refused is tried again.
Fade ==
  /\ ~restoring /\ session # NoSession /\ session.last # session.target
  /\ \/ /\ volume = session.last /\ volume' = session.target
        /\ session' = [session EXCEPT !.last = session.target]
     \/ session' = [session EXCEPT !.target = session.last] /\ UNCHANGED volume
  /\ UNCHANGED <<callerVars, commands, reply, ownerVars, duckings, ducking, restoring,
                 userVars>>

\* The last step of restore; the fade before it only approaches the original, and
\* the application keeps a volume that is not ours.
RestoreEnds ==
  /\ restoring /\ restoring' = FALSE
  /\ volume' = IF session # NoSession /\ volume = session.last
               THEN session.original ELSE volume
  /\ session' = NoSession
  /\ UNCHANGED <<callerVars, commands, reply, ownerVars, duckings, ducking, userVars>>

\* The volume cannot be read or written in that step: a level of ours stays, and
\* the original is forgotten all the same.
RestoreFails ==
  /\ restoring /\ session # NoSession /\ restoring' = FALSE
  /\ volume' = IF volume = "low" THEN "lost" ELSE volume
  /\ session' = NoSession
  /\ UNCHANGED <<callerVars, commands, reply, ownerVars, duckings, ducking, userVars>>

SetVolume ==
  /\ changes < MaxChanges /\ changes' = changes + 1
  /\ volume' = "user"
  /\ UNCHANGED <<callerVars, commands, reply, ownerVars, duckings, ducking, restoring,
                 session, enabled>>

Next ==
  \/ Start \/ Started \/ StartFails \/ Stop \/ FinishEnds \/ UpdateSettings
  \/ TakeStart \/ OpenSucceeds \/ OpenFails \/ TakeFinish \/ Samples \/ CaptureFails
  \/ TakeDucking \/ Discover \/ Fade \/ RestoreEnds \/ RestoreFails \/ SetVolume

Spec == Init /\ [][Next]_vars

-----------------------------------------------------------------------------
(* Properties.                                                             *)

\* Recorder::start fails or times out although the device may open later: the
\* capture the daemon counts on is the owner's and, once the owner has caught
\* up with an idle daemon, no capture is left open.  A capture reports at most
\* one failure, so at most one RecorderExited reaches the daemon for it.
CaptureFollowsDaemon ==
  /\ caller = "recording" => active = job
  /\ caller = "idle" /\ commands = <<>> /\ opening = 0 => active = 0
  /\ \A j \in Jobs : errors[j] <= 1

\* Every start that lowered the playback is followed by its restoration, also
\* the one that failed or came late: once the worker has caught up with an idle
\* daemon the application plays as before or as the user last chose.  One
\* exception is the code's: a restoration whose last read or write of the volume
\* is refused is not repeated, and leaves the level "lost" (ducking.rs:174-198).
PlaybackIsRestored ==
  caller = "idle" /\ duckings = <<>> /\ ~restoring => ~ducking /\ volume # "low"

\* The inductive invariant.  A recording gets one start and one finish, in order;
\* the owner has taken all but the pending ones, and it opens or holds a recording
\* exactly between taking its start and taking its finish;
Sent == 2 * job - (IF caller \in {"starting", "recording"} THEN 1 ELSE 0)
Taken == Sent - Len(commands)
Place(command) == 2 * command[2] - (IF command[1] = "start" THEN 1 ELSE 0)
Commanding ==
  /\ caller \in {"idle", "starting", "recording", "aborting", "finishing"}
  /\ job \in 0..MaxJobs /\ (caller # "idle" => job \in Jobs)
  /\ commands \in Seq({"start", "finish"} \X Jobs)
  /\ Taken >= 0 /\ \A i \in DOMAIN commands : Place(commands[i]) = Taken + i
  /\ active \in 0..MaxJobs /\ opening \in 0..MaxJobs
  /\ active # 0 => Taken = 2 * active - 1 /\ opening = 0
  /\ opening # 0 => Taken = 2 * opening - 1
  /\ caller = "starting" /\ reply = "ok" => active = job
  /\ caller = "recording" => active = job

\* a capture that has not failed has reported nothing;
Reporting ==
  /\ errors \in [Jobs -> 0..1]
  /\ \A j \in Jobs : j = opening \/ (j = active /\ ~failure) \/ 2 * j - 1 > Taken => errors[j] = 0

\* and unless a recording is on the worker's last command is no "duck"; what it
\* lowered has an entry, whose original is no level of its own.
Entries ==
  [original : {"full", "user", "lost"}, last : {"full", "user", "lost", "low"},
   target : {"full", "user", "lost", "low"}]
Ducking ==
  /\ duckings \in Seq({"duck", "stay", "restore"})
  /\ ducking \in BOOLEAN /\ restoring \in BOOLEAN
  /\ caller \in {"idle", "aborting", "finishing"} =>
       IF duckings = <<>> THEN ~ducking ELSE duckings[Len(duckings)] # "duck"
  /\ ~(ducking /\ restoring)
  /\ ~ducking /\ ~restoring => session = NoSession
  /\ volume = "low" => session # NoSession /\ session.last = "low"
  /\ session = NoSession \/ session \in Entries
  /\ volume \in {"full", "user", "lost", "low"}

=============================================================================
