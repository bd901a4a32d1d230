------------------------------ MODULE Workflow ------------------------------
(***************************************************************************)
(* The lifecycle machine of agentdictate-core (workflow.rs).  The daemon   *)
(* keeps one value of Workflows and feeds it signals; a signal is either   *)
(* accepted, which yields the next value, or refused, which the caller     *)
(* sees as an error.  This module is constant-level: it is the             *)
(* vocabulary of DictationDaemon.                                          *)
(***************************************************************************)
CONSTANTS Jobs,     \* the JobIds that can ever be issued
          NoJob     \* "no job": Option::None of the source

ASSUME NoJobAssumption == NoJob \notin Jobs

\* WorkflowPhase and ProcessingStage in one enumeration.  The JobStage that
\* NeedsAttention carries is only shown to the user and is left out.
Phases == {"ready", "starting", "recording", "stopping", "transcribing",
           "cleaning", "ready_to_deliver", "delivering", "needs_attention"}

Workflows == [phase : Phases, job : Jobs \cup {NoJob}]

Ready == [phase |-> "ready", job |-> NoJob]

\* Where a signal leads from a phase; "refused" is WorkflowError::InvalidSignal.
Target(phase, signal) ==
  CASE signal = "StartRequested" /\ phase \in {"ready", "needs_attention"}
         -> "starting"
    [] signal = "FirstAudioFrameWritten" /\ phase = "starting" -> "recording"
    [] signal = "StopRequested" /\ phase \in {"starting", "recording"}
         -> "stopping"
    [] signal = "DiscardCommitted"
       /\ phase \in {"starting", "recording", "stopping"} -> "ready"
    [] signal = "CaptureFinalized" /\ phase = "stopping" -> "transcribing"
    [] signal = "NoSpeechDetected" /\ phase = "transcribing" -> "ready"
    [] signal = "TranscriptStored" /\ phase = "transcribing"
         -> "ready_to_deliver"
    [] signal = "TranscriptStoredForCleanup" /\ phase = "transcribing"
         -> "cleaning"
    [] signal = "CleanupStored" /\ phase = "cleaning" -> "ready_to_deliver"
    [] signal = "DeliveryStarted" /\ phase = "ready_to_deliver" -> "delivering"
    [] signal = "DeliverySubmitted" /\ phase = "delivering" -> "ready"
    [] signal = "Interrupted" /\ phase \notin {"ready", "needs_attention"}
         -> "needs_attention"
    [] signal = "RetryDeliveryRequested" /\ phase = "needs_attention"
         -> "ready_to_deliver"
    [] OTHER -> "refused"

\* A signal must name the job the workflow is about, except the one that
\* starts another job.  StopRequested names none: its callers pass w.job.
Accepts(w, signal, job) ==
  /\ Target(w.phase, signal) # "refused"
  /\ w.job = job \/ signal = "StartRequested"

Apply(w, signal, job) ==
  IF Target(w.phase, signal) = "ready"
    THEN Ready
    ELSE [phase |-> Target(w.phase, signal), job |-> job]
=============================================================================
