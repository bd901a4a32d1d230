---------------------------- MODULE LinuxRecorder ----------------------------
(***************************************************************************)
(* Recording on Linux: the daemon (one handler at a time, under the        *)
(* process mutex) lowers the default output, asks the thread that owns     *)
(* every pw-record child to start or to finish one, and raises the output  *)
(* again.  Fades run on detached threads that a newer generation cancels.  *)
(* Source: crates/agentdictate-app/src/system.rs, crates/agentdictate-     *)
(* linux/src/recorder.rs, command.rs and audio_ducking.rs.                 *)
(*                                                                         *)
(* A volume is one of four levels: what it was, what the user made of it,  *)
(* and two that only ducking produces.  pactl calls under one lock are one *)
(* step; a call that fails changes nothing.                                *)
(***************************************************************************)
EXTENDS Naturals, FiniteSets

CONSTANTS Sinks,         \* the audio outputs
          MaxJobs,       \* bound on the recordings asked for
          MaxTroubles,   \* bound on failing pactl calls, threads and inspections
          MaxChanges     \* bound on what the user does to outputs and settings

VARIABLES
  caller,    \* the daemon's handler: "idle", "starting", "waiting", "recording",
             \* "stopping" or "undo", which has only the output left to raise
  job,       \* the newest recording
  active,    \* recorder_owner_loop's active recording, 0 for none
  child,     \* the pw-record processes: "none", "live" or "gone"
  audio,     \* the recordings whose file holds samples
  observers, \* the recordings whose exit thread waits on the pidfd
  exits,     \* history: the exits reported to the daemon, as a set of pairs
  out,       \* the outputs and PlaybackDucker::inner, see Output
  sink,      \* the default output
  enabled,   \* settings.audio_ducking_enabled
  changes,   \* what the user did so far
  stray      \* history: a child was dropped without being stopped

vars == <<caller, job, active, child, audio, observers, exits, out, sink,
          enabled, changes, stray>>
ownerVars == <<active, child, audio, observers, exits, stray>>

Jobs == 1..MaxJobs
NoOutput == [name |-> "none", original |-> "full", applied |-> "full"]
Reduced == {"mid", "low"}

Init ==
  /\ caller = "idle" /\ job = 0 /\ active = 0
  /\ child = [j \in Jobs |-> "none"] /\ audio = {}
  /\ observers = {} /\ exits = {} /\ stray = FALSE
  /\ out = [volume |-> [s \in Sinks |-> "full"], saved |-> NoOutput,
            workers |-> {}, generation |-> 0, troubles |-> 0]
  /\ sink \in Sinks /\ enabled = TRUE /\ changes = 0

-----------------------------------------------------------------------------
(* PlaybackDucker.  Each operator is the set of states a call can leave.   *)

Troubled(o) ==
  IF o.troubles < MaxTroubles THEN {[o EXCEPT !.troubles = @ + 1]} ELSE {}

\* write_volume: nothing is written once the saved output is forgotten.
Writes(o, level, restored) ==
  IF o.saved = NoOutput THEN {o}
  ELSE {[o EXCEPT !.volume[o.saved.name] = level,
                  !.saved = IF restored THEN NoOutput ELSE [@ EXCEPT !.applied = level]]}
       \cup Troubled(o)

\* ramp: at once, or by a thread of this generation; without the thread only a
\* restoration is written.
Ramps(o, target, fade, restoring) ==
  IF ~fade THEN Writes(o, target, restoring)
  ELSE {[o EXCEPT !.workers = @ \cup {[generation |-> o.generation, target |-> target,
                                        restoring |-> restoring, next |-> "mid"]}]}
       \cup UNION {IF restoring THEN Writes(p, target, TRUE) ELSE {p} : p \in Troubled(o)}

\* restore_with_fade: a level nobody here applied is the user's and is kept.
Restores(o, fade) ==
  LET p == [o EXCEPT !.generation = @ + 1]
  IN IF p.saved = NoOutput THEN {p}
     ELSE Troubled(p) \cup
          IF p.volume[p.saved.name] # p.saved.applied
          THEN {[p EXCEPT !.saved = NoOutput]}
          ELSE Ramps(p, p.saved.original, fade, TRUE)

\* duck: the default output is snapshot unless an earlier one is still lowered.
Ducks(o) ==
  UNION {IF ~enabled \/ p.saved # NoOutput THEN {p}
         ELSE Troubled(p) \cup
              UNION {Ramps([p EXCEPT !.saved = [name |-> sink, original |-> p.volume[sink],
                                                 applied |-> p.volume[sink]]],
                           "low", fade, FALSE) : fade \in BOOLEAN} : p \in Restores(o, FALSE)}

\* A fade thread wakes: it leaves when a newer generation runs or a write fails.
FadeStep(w) ==
  /\ w \in out.workers
  /\ LET o == [out EXCEPT !.workers = @ \ {w}]
         last == w.next = w.target
     IN out' \in IF w.generation # o.generation \/ o.saved = NoOutput THEN {o}
                 ELSE {[p EXCEPT !.workers =
                          IF last \/ p.troubles # o.troubles THEN @
                          ELSE @ \cup {[w EXCEPT !.next = w.target]}] :
                         p \in Writes(o, w.next, w.restoring /\ last)}
  /\ UNCHANGED <<caller, job, ownerVars, sink, enabled, changes>>

-----------------------------------------------------------------------------
(* SystemRecordingController and the owner thread it blocks on.            *)

\* Recorder::start up to the rendezvous with the owner.
StartRecording ==
  /\ caller = "idle" /\ job < MaxJobs
  /\ job' = job + 1 /\ caller' = "starting"
  /\ out' \in Ducks(out)
  /\ UNCHANGED <<ownerVars, sink, enabled, changes>>

\* The owner refuses, cannot make the directory or cannot start pw-record.
SpawnFails ==
  /\ caller = "starting" /\ caller' = "undo"
  /\ UNCHANGED <<job, ownerVars, out, sink, enabled, changes>>

Spawn ==
  /\ caller = "starting" /\ active = 0
  /\ child' = [child EXCEPT ![job] = "live"]
  /\ caller' = "waiting"
  /\ UNCHANGED <<job, active, audio, observers, exits, stray, out, sink, enabled, changes>>

\* The file grew past its header while the child lives.  pidfd_open or the exit
\* thread may fail, which is only logged.
Ready ==
  /\ caller = "waiting" /\ child[job] = "live" /\ job \in audio
  /\ active' = job /\ caller' = "recording"
  /\ observers' \in {observers, observers \cup {job}}
  /\ UNCHANGED <<job, child, audio, exits, stray, out, sink, enabled, changes>>

\* The child left before it was ready, or the deadline passed and stop_child
\* interrupted it, killed it and reaped it.
NotReady ==
  /\ caller = "waiting"
  /\ child' = [child EXCEPT ![job] = "gone"]
  /\ caller' = "undo"
  /\ UNCHANGED <<job, active, audio, observers, exits, stray, out, sink, enabled, changes>>

\* The file or the child cannot be inspected: start returns the error with ?
\* and drops the Child, which neither stops nor reaps the process.
InspectFails ==
  /\ caller = "waiting" /\ out.troubles < MaxTroubles
  /\ out' = [out EXCEPT !.troubles = @ + 1]
  /\ stray' = TRUE /\ caller' = "undo"
  /\ UNCHANGED <<job, active, child, audio, observers, exits, sink, enabled, changes>>

\* finish, or abort_start after a failed checkpoint: the daemon asks the owner.
StopRecording ==
  /\ caller = "recording" /\ caller' = "stopping"
  /\ UNCHANGED <<job, ownerVars, out, sink, enabled, changes>>

\* Recording::stop: it leaves after the interrupt, or is killed at the deadline
\* or, the interrupt having failed, when the Recording is dropped.
StopEnds ==
  /\ caller = "stopping" /\ active = job
  /\ child' = [child EXCEPT ![job] = "gone"]
  /\ active' = 0 /\ caller' = "undo"
  /\ UNCHANGED <<job, audio, observers, exits, stray, out, sink, enabled, changes>>

\* The output is raised whatever became of the recorder.
RestoreOutput ==
  /\ caller = "undo" /\ caller' = "idle"
  /\ \E fade \in BOOLEAN : out' \in Restores(out, fade)
  /\ UNCHANGED <<job, ownerVars, sink, enabled, changes>>

\* update_settings.
UpdateSettings ==
  /\ caller \in {"idle", "recording"} /\ changes < MaxChanges
  /\ changes' = changes + 1 /\ enabled' = ~enabled
  /\ IF enabled THEN \E fade \in BOOLEAN : out' \in Restores(out, fade)
     ELSE UNCHANGED out
  /\ UNCHANGED <<caller, job, ownerVars, sink>>

-----------------------------------------------------------------------------
(* The child, the exit thread and the user.                                *)

Capture(j) ==
  /\ child[j] = "live" /\ audio' = audio \cup {j} /\ audio' # audio
  /\ UNCHANGED <<caller, job, active, child, observers, exits, stray, out, sink,
                 enabled, changes>>

ChildExits(j) ==
  /\ child[j] = "live" /\ child' = [child EXCEPT ![j] = "gone"]
  /\ UNCHANGED <<caller, job, active, audio, observers, exits, stray, out, sink,
                 enabled, changes>>

\* RecordingExitObserver::wait returns and the daemon is sent RecorderExited.
NotifyExit(j) ==
  /\ j \in observers /\ child[j] = "gone"
  /\ observers' = observers \ {j} /\ exits' = exits \cup {j}
  /\ UNCHANGED <<caller, job, active, child, audio, stray, out, sink, enabled, changes>>

SetVolume(s) ==
  /\ changes < MaxChanges /\ changes' = changes + 1
  /\ out' = [out EXCEPT !.volume[s] = "user"]
  /\ UNCHANGED <<caller, job, ownerVars, sink, enabled>>

SelectSink(s) ==
  /\ changes < MaxChanges /\ changes' = changes + 1
  /\ s # sink /\ sink' = s
  /\ UNCHANGED <<caller, job, ownerVars, out, enabled>>

Next ==
  \/ StartRecording \/ SpawnFails \/ Spawn \/ Ready \/ NotReady \/ InspectFails
  \/ StopRecording \/ StopEnds \/ RestoreOutput \/ UpdateSettings
  \/ \E w \in out.workers : FadeStep(w)
  \/ \E j \in Jobs : Capture(j) \/ ChildExits(j) \/ NotifyExit(j)
  \/ \E s \in Sinks : SetVolume(s) \/ SelectSink(s)

Spec == Init /\ [][Next]_vars

-----------------------------------------------------------------------------
(* Properties.                                                             *)

\* An output that ducking lowered is the saved one, and what is saved as its
\* original is never a level that ducking produced: across failing reads and
\* writes, cancelled fades, changed defaults and volume keys there is always a
\* way back (audio_ducking.rs:130-131).
OutputIsRestorable ==
  /\ \A s \in Sinks : out.volume[s] \in Reduced => out.saved.name = s
  /\ out.saved.original \notin Reduced

\* Every running pw-record belongs to the recording being started or held, so
\* no microphone stays open after its dictation, and the exit of a recorder is
\* reported only once it has left.  A child whose inspection failed is excepted.
RecorderIsOwned ==
  /\ \A j \in Jobs : child[j] = "live" /\ ~stray =>
       active = j \/ (caller = "waiting" /\ job = j)
  /\ \A j \in exits : child[j] = "gone"

\* The inductive invariant.  The owner holds the recording the daemon is at, and a
\* recording gets its one child while it starts;
Owning ==
  /\ caller \in {"idle", "starting", "waiting", "recording", "stopping", "undo"}
  /\ job \in 0..MaxJobs /\ (caller # "idle" => job \in Jobs)
  /\ child \in [Jobs -> {"none", "live", "gone"}] /\ exits \subseteq Jobs
  /\ observers \subseteq Jobs /\ stray \in BOOLEAN /\ sink \in Sinks /\ enabled \in BOOLEAN
  /\ active = IF caller \in {"recording", "stopping"} THEN job ELSE 0
  /\ \A j \in Jobs : j > job \/ (j = job /\ caller = "starting") => child[j] = "none"
  /\ RecorderIsOwned

\* and what an output is lowered to was applied to the saved one, whose original a
\* restoring fade works its way back to.
Levels == {"full", "user", "mid", "low"}
Outputs ==
  [volume : [Sinks -> Levels],
   saved : [name : Sinks \cup {"none"}, original : Levels, applied : Levels],
   workers : SUBSET [generation : Nat, target : Levels, restoring : BOOLEAN, next : Levels],
   generation : Nat, troubles : Nat]
Restorable(o) ==
  /\ o \in Outputs
  /\ \A s \in Sinks : o.volume[s] \in Reduced =>
       o.saved.name = s /\ o.saved.applied = o.volume[s]
  /\ o.saved.original \notin Reduced
  /\ o.saved.name = "none" => o.saved = NoOutput
  /\ \A w \in o.workers : w.restoring => w.target \notin Reduced

=============================================================================
