------------------------ MODULE DictationDaemonProofs ------------------------
(***************************************************************************)
(* Type correctness and safety of DictationDaemon, and that it implements  *)
(* JobContract, for any set of jobs and any bound on the faults.           *)
(***************************************************************************)
EXTENDS DictationDaemon, TLAPS

(***************************************************************************)
(* Types.  The type of wf is not inductive by itself: MarkRecording and    *)
(* Capture apply a signal without asking whether it is accepted, so the    *)
(* phase they find has to be known (PhaseMatches).                         *)
(***************************************************************************)

PhaseMatches ==
  /\ pc = "mark_recording" => wf.phase = "starting"
  /\ cmd = "stop" /\ pc \in {"finish", "capture"} => wf.phase = "stopping"

Typed == TypeOK /\ PhaseMatches

\* The workflow a session starts from is one of its states.
LEMMA ReadyTyped == Ready \in Workflows
  BY DEF Ready, Workflows, Phases

\* A signal the workflow accepts leads to one of its states.
LEMMA ApplyTyped ==
  ASSUME NEW w \in Workflows, NEW signal, NEW job \in Jobs \cup {NoJob},
         Target(w.phase, signal) # "refused"
  PROVE  Apply(w, signal, job) \in Workflows
  BY ReadyTyped DEF Apply, Target, Workflows, Phases

\* Every step of the daemon keeps the types.
LEMMA TypedStep == Typed /\ [Next]_vars => Typed'
<1> USE MaxFaultsAssumption DEF Typed, TypeOK, PhaseMatches, At, Goto, Call, Return, NoFault, Fault,
        SetStage, SetStatus, SetAudio,
        flags, rows, disk, volatile, control, keeper, ghosts
<1>1. SUFFICES ASSUME Typed, Next PROVE Typed'
  BY DEF vars
<1>2. ASSUME NEW j \in Jobs, StartRecording(j) PROVE Typed'
  BY <1>1, <1>2 DEF StartRecording, Stages, Statuses, Steps, Commands
<1>3. ASSUME NEW j \in Jobs, RecorderExited(j) PROVE Typed'
  BY <1>1, <1>3 DEF RecorderExited, EndRecording, Stages, Statuses, Steps, Commands
<1>4. ASSUME NEW j \in Jobs, RetryTranscription(j) PROVE Typed'
  BY <1>1, <1>4 DEF RetryTranscription, Stages, Statuses, Steps, Commands
<1>5. ASSUME NEW j \in Jobs, RetryDelivery(j) PROVE Typed'
  BY <1>1, <1>5 DEF RetryDelivery, Stages, Statuses, Steps, Commands
<1>6. ASSUME NEW j \in Jobs, DeleteRecovery(j) PROVE Typed'
  BY <1>1, <1>6 DEF DeleteRecovery, Stages, Statuses, Steps, Commands
<1>7. ASSUME NEW j \in Jobs, DeleteHistory(j) PROVE Typed'
  BY <1>1, <1>7 DEF DeleteHistory, Stages, Statuses, Steps, Commands
<1>8. CASE StopRecording
  BY <1>1, <1>8, ApplyTyped DEF StopRecording, Accepts, Target, Apply, Workflows, Stages, Statuses, Steps, Commands
<1>9. CASE DiscardRecording
  BY <1>1, <1>9 DEF DiscardRecording, EndRecording, Stages, Statuses, Steps, Commands
<1>10. CASE Shutdown
  BY <1>1, <1>10 DEF Shutdown, EndRecording, Stages, Statuses, Steps, Commands
<1>11. CASE QuitIdle
  BY <1>1, <1>11, ReadyTyped DEF QuitIdle, Stop, Stages, Statuses, Steps, Commands
<1>12. CASE ClearHistory
  BY <1>1, <1>12 DEF ClearHistory, Stages, Statuses, Steps, Commands
<1>13. CASE OpenMic
  BY <1>1, <1>13, ApplyTyped DEF OpenMic, Accepts, Target, Apply, Stages, Statuses, Steps, Commands
<1>14. CASE OpenMicFails
  BY <1>1, <1>14, ApplyTyped DEF OpenMicFails, AbandonStart, Accepts, Target, Stages, Statuses, Steps, Commands
<1>15. CASE MarkRecording
  BY <1>1, <1>15, ApplyTyped DEF MarkRecording, Accepts, Target, Stages, Statuses, Steps, Commands
<1>16. CASE MarkRecordingFails
  BY <1>1, <1>16, ApplyTyped DEF MarkRecordingFails, Accepts, Target, Stages, Statuses, Steps, Commands
<1>17. CASE Finish
  BY <1>1, <1>17 DEF Finish, Stages, Statuses, Steps, Commands
<1>18. CASE FinishFails
  BY <1>1, <1>18 DEF FinishFails, Stages, Statuses, Steps, Commands
<1>19. CASE Interrupt
  BY <1>1, <1>19, ApplyTyped DEF Interrupt, InterruptFrom, Release, Accepts, Target, Stages, Statuses, Steps, Commands
<1>20. CASE InterruptRefused
  BY <1>1, <1>20 DEF InterruptRefused, InterruptFails, Stages, Statuses, Steps, Commands
<1>21. CASE PreserveCaptured
  BY <1>1, <1>21, ApplyTyped DEF PreserveCaptured, InterruptFrom, Release, Accepts, Target, Stages, Statuses, Steps, Commands
<1>22. CASE PreserveRefused
  BY <1>1, <1>22 DEF PreserveRefused, InterruptFails, Stages, Statuses, Steps, Commands
<1>23. CASE Capture
  BY <1>1, <1>23, ApplyTyped DEF Capture, Accepts, Target, Stages, Statuses, Steps, Commands
<1>24. CASE CaptureFails
  BY <1>1, <1>24 DEF CaptureFails, Stages, Statuses, Steps, Commands
<1>25. CASE Recover
  BY <1>1, <1>25 DEF Recover, Workflows, Phases, Stages, Statuses, Steps, Commands
<1>26. CASE MarkTranscribing
  BY <1>1, <1>26 DEF MarkTranscribing, Stages, Statuses, Steps, Commands
<1>27. CASE TranscribeText
  BY <1>1, <1>27 DEF TranscribeText, Stages, Statuses, Steps, Commands
<1>28. CASE TranscribeSilence
  BY <1>1, <1>28 DEF TranscribeSilence, Stages, Statuses, Steps, Commands
<1>29. CASE TranscribeFails
  BY <1>1, <1>29 DEF TranscribeFails, Stages, Statuses, Steps, Commands
<1>30. CASE ReplacementsFail
  BY <1>1, <1>30 DEF ReplacementsFail, Stages, Statuses, Steps, Commands
<1>31. CASE Store
  BY <1>1, <1>31 DEF Store, Stages, Statuses, Steps, Commands
<1>32. CASE DropSilent
  BY <1>1, <1>32 DEF DropSilent, DeleteRow, Stages, Statuses, Steps, Commands
<1>33. CASE MarkFailed
  BY <1>1, <1>33 DEF MarkFailed, Stages, Statuses, Steps, Commands
<1>34. CASE Gate
  BY <1>1, <1>34 DEF Gate, Stages, Statuses, Steps, Commands
<1>35. CASE MarkAttempting
  BY <1>1, <1>35 DEF MarkAttempting, Stages, Statuses, Steps, Commands
<1>36. CASE Paste
  BY <1>1, <1>36 DEF Paste, Stages, Statuses, Steps, Commands
<1>37. CASE SettleSubmitted
  BY <1>1, <1>37 DEF SettleSubmitted, Stages, Statuses, Steps, Commands
<1>38. CASE SettleAmbiguous
  BY <1>1, <1>38, ReadyTyped, ApplyTyped DEF SettleAmbiguous, Release, Accepts, Target, Stages, Statuses, Steps, Commands
<1>39. CASE SettleError
  BY <1>1, <1>39 DEF SettleError, Stages, Statuses, Steps, Commands
<1>40. CASE WriteFails
  BY <1>1, <1>40 DEF WriteFails, Stages, Statuses, Steps, Commands
<1>41. CASE GiveUp
  BY <1>1, <1>41, ApplyTyped DEF GiveUp, Release, Accepts, Target, Stages, Statuses, Steps, Commands
<1>42. CASE CompleteDelivered
  BY <1>1, <1>42 DEF CompleteDelivered, Complete, DeleteRow, Stages, Statuses, Steps, Commands
<1>43. CASE Sweep
  BY <1>1, <1>43, ReadyTyped DEF Sweep, Stages, Statuses, Steps, Commands
<1>44. CASE Quarantine
  BY <1>1, <1>44 DEF Quarantine, Stages, Statuses, Steps, Commands
<1>45. CASE CommitDelete
  BY <1>1, <1>45 DEF CommitDelete, DeleteRow, Stages, Statuses, Steps, Commands
<1>46. CASE CommitDeleteFails
  BY <1>1, <1>46 DEF CommitDeleteFails, Stages, Statuses, Steps, Commands
<1>47. CASE DeleteFailed
  BY <1>1, <1>47, ApplyTyped DEF DeleteFailed, Release, Accepts, Target, Stages, Statuses, Steps, Commands
<1>48. CASE Unlink
  BY <1>1, <1>48, ReadyTyped, ApplyTyped DEF Unlink, Release, Accepts, Target, Stages, Statuses, Steps, Commands
<1>49. CASE Quit
  BY <1>1, <1>49, ReadyTyped DEF Quit, Stop, Stages, Statuses, Steps, Commands
<1>50. CASE ListFinished
  BY <1>1, <1>50 DEF ListFinished, MaintenanceVars, Stages, Statuses, Steps, Commands
<1>51. CASE RecordFinished
  BY <1>1, <1>51 DEF RecordFinished, Complete, DeleteRow, MaintenanceVars, Stages, Statuses, Steps, Commands
<1>52. CASE RecordFinishedFails
  BY <1>1, <1>52 DEF RecordFinishedFails, MaintenanceVars, Stages, Statuses, Steps, Commands
<1>53. CASE ScanRecordings
  BY <1>1, <1>53 DEF ScanRecordings, MaintenanceVars, Stages, Statuses, Steps, Commands
<1>54. CASE MatchOwners
  BY <1>1, <1>54 DEF MatchOwners, MaintenanceVars, Stages, Statuses, Steps, Commands
<1>55. CASE EndMaintenance
  BY <1>1, <1>55 DEF EndMaintenance, MaintenanceVars, Stages, Statuses, Steps, Commands
<1>56. ASSUME NEW j \in Jobs, SweepFinished(j) PROVE Typed'
  BY <1>1, <1>56 DEF SweepFinished, MaintenanceVars, Stages, Statuses, Steps, Commands
<1>57. ASSUME NEW j \in Jobs, RemoveOrphan(j) PROVE Typed'
  BY <1>1, <1>57 DEF RemoveOrphan, MaintenanceVars, Stages, Statuses, Steps, Commands
<1>58. CASE Open
  BY <1>1, <1>58 DEF Open, BootVars, Stages, Statuses, Steps, Commands
<1>59. CASE ReconcileAmbiguousDeliveries
  BY <1>1, <1>59 DEF ReconcileAmbiguousDeliveries, BootVars, Stages, Statuses, Steps, Commands
<1>60. CASE ReconcileInterruptedJobs
  BY <1>1, <1>60 DEF ReconcileInterruptedJobs, BootVars, Stages, Statuses, Steps, Commands
<1>61. CASE Serve
  BY <1>1, <1>61 DEF Serve, BootVars, Stages, Statuses, Steps, Commands
<1>62. ASSUME NEW j \in Jobs, ReconcileDeletion(j) PROVE Typed'
  BY <1>1, <1>62 DEF ReconcileDeletion, BootVars, Stages, Statuses, Steps, Commands
<1>63. CASE Crash
  BY <1>1, <1>63, ReadyTyped DEF Crash, Stop, Stages, Statuses, Steps, Commands
<1>64. ASSUME NEW j \in Jobs, StartUnread(j) PROVE Typed'
  BY <1>1, <1>64, ApplyTyped DEF StartUnread, Accepts, Target, Stages, Statuses, Steps, Commands
<1>65. CASE MarkRecordingUnread
  BY <1>1, <1>65, ApplyTyped DEF MarkRecordingUnread, Accepts, Target, Stages, Statuses, Steps, Commands
<1>66. CASE WrittenUnread
  BY <1>1, <1>66, ApplyTyped DEF WrittenUnread, Accepts, Target, Stages, Statuses, Steps, Commands
<1>67. QED
  BY <1>1, <1>2, <1>3, <1>4, <1>5, <1>6, <1>7, <1>8, <1>9, <1>10, <1>11, <1>12, <1>13, <1>14, <1>15, <1>16, <1>17, <1>18, <1>19, <1>20, <1>21, <1>22, <1>23, <1>24, <1>25, <1>26, <1>27, <1>28, <1>29, <1>30, <1>31, <1>32, <1>33, <1>34, <1>35, <1>36, <1>37, <1>38, <1>39, <1>40, <1>41, <1>42, <1>43, <1>44, <1>45, <1>46, <1>47, <1>48, <1>49, <1>50, <1>51, <1>52, <1>53, <1>54, <1>55, <1>56, <1>57, <1>58, <1>59, <1>60, <1>61, <1>62, <1>63,
     <1>64, <1>65, <1>66
     DEF Next, Command, HandlerStep, Maintenance, Startup

\* The daemon starts well typed.
LEMMA TypedInit == Init => Typed
  BY ReadyTyped, MaxFaultsAssumption
     DEF Init, Typed, TypeOK, PhaseMatches, Stages, Statuses, Steps, Commands

\* Every variable keeps its type: in particular no signal that a handler
\* reports without looking is refused by the workflow.
THEOREM TypeCorrect == Spec => []TypeOK
<1>1. Typed => TypeOK
  BY DEF Typed
<1>2. QED
  BY TypedInit, TypedStep, <1>1, PTL DEF Spec
-----------------------------------------------------------------------------
(***************************************************************************)
(* The inductive invariant behind the safety properties of DictationDaemon *)
(* and its proof.  The properties alone are not inductive: that a row is   *)
(* not resurrected, say, depends on what the running handler knows of it   *)
(* (RowOfHandler), and that an erased delivery is not recorded depends on  *)
(* the erased rows being barred.  Four parts, each preserved with the help *)
(* of the ones before it.                                                  *)
(***************************************************************************)

\* What the running handler knows about its row.  Nobody else moves it, except
\* that the maintenance thread may complete a delivered one.
RowOfHandler ==
  /\ pc \in {"open_mic", "mark_recording"} => stage[cur] = "starting"
  /\ pc = "mark_transcribing" => stage[cur] = "captured"
  /\ pc \in {"transcribe", "store", "drop_silent", "mark_failed"}
       => stage[cur] = "transcribing"
  /\ pc \in {"gate", "mark_attempting", "paste", "settle_submitted",
             "settle_ambiguous", "settle_error"}
       => stage[cur] = "ready_to_deliver"
  /\ pc \in {"complete", "sweep"} => stage[cur] \in {"delivered", "none"}
  /\ pc \in {"quarantine", "delete_row"}
       => stage[cur] \in {"captured", "ready_to_deliver", "interrupted", "failed"}
  /\ pc = "unlink" => stage[cur] = "none"

\* Handlers and maintenance run only in a daemon that is up.
RunsWhenUp == boot # "up" => pc = "idle" /\ cmd = "none" /\ mpc = "off"

\* A job id that was never issued has left no trace.
Unborn ==
  \A j \in Jobs \ born :
    /\ stage[j] = "none" /\ audio[j] = "none"
    /\ j \notin heard \cup pasted \cup submitted \cup todo

\* While a first delivery is on its way, nothing was pasted for it yet.
FirstPaste ==
  pc \in {"gate", "mark_attempting", "paste"} /\ cur \in pasted
    => cmd = "retry_delivery"

Handling ==
  /\ RunsWhenUp /\ RowOfHandler /\ Unborn
  /\ AttemptIsRemembered /\ FirstPaste
  /\ pc \in {"settle_submitted", "settle_ambiguous", "settle_error"}
       => cur \in pasted

\* Every step keeps what is known of the command being handled.
LEMMA HandlingStep == Typed /\ Handling /\ [Next]_vars => Handling'
<1> USE DEF At, Goto, Call, Return, NoFault, Fault, SetStage, SetStatus,
        SetAudio, flags, rows, disk, volatile, control, keeper, ghosts,
        Handling, RunsWhenUp, RowOfHandler, Unborn, AttemptIsRemembered,
        FirstPaste
<1>1. SUFFICES ASSUME Typed, Handling, Next PROVE Handling'
  BY DEF vars
<1>2. /\ stage \in [Jobs -> Stages] /\ status \in [Jobs -> Statuses]
      /\ audio \in [Jobs -> {"none", "wav", "quarantine"}]
      /\ (pc # "idle" => cur \in Jobs) /\ (mpc = "record" => mjob \in Jobs)
      /\ todo \subseteq Jobs /\ pasted \subseteq Jobs
  BY <1>1 DEF Typed, TypeOK
<1>3. ASSUME NEW j \in Jobs, StartRecording(j) PROVE Handling'
  BY <1>1, <1>2, <1>3 DEF StartRecording
<1>4. ASSUME NEW j \in Jobs, RecorderExited(j) PROVE Handling'
  BY <1>1, <1>2, <1>4 DEF RecorderExited, EndRecording
<1>5. ASSUME NEW j \in Jobs, RetryTranscription(j) PROVE Handling'
  BY <1>1, <1>2, <1>5 DEF RetryTranscription
<1>6. ASSUME NEW j \in Jobs, RetryDelivery(j) PROVE Handling'
  BY <1>1, <1>2, <1>6 DEF RetryDelivery
<1>7. ASSUME NEW j \in Jobs, DeleteRecovery(j) PROVE Handling'
  BY <1>1, <1>2, <1>7 DEF DeleteRecovery
<1>8. ASSUME NEW j \in Jobs, DeleteHistory(j) PROVE Handling'
  BY <1>1, <1>2, <1>8 DEF DeleteHistory
<1>9. CASE StopRecording
  BY <1>1, <1>2, <1>9 DEF StopRecording
<1>10. CASE DiscardRecording
  BY <1>1, <1>2, <1>10 DEF DiscardRecording, EndRecording
<1>11. CASE Shutdown
  BY <1>1, <1>2, <1>11 DEF Shutdown, EndRecording
<1>12. CASE QuitIdle
  BY <1>1, <1>2, <1>12 DEF QuitIdle, Stop
<1>13. CASE ClearHistory
  BY <1>1, <1>2, <1>13 DEF ClearHistory
<1>14. CASE OpenMic
  BY <1>1, <1>2, <1>14 DEF OpenMic
<1>15. CASE OpenMicFails
  BY <1>1, <1>2, <1>15 DEF OpenMicFails, AbandonStart
<1>16. CASE MarkRecording
  BY <1>1, <1>2, <1>16 DEF MarkRecording
<1>17. CASE MarkRecordingFails
  BY <1>1, <1>2, <1>17 DEF MarkRecordingFails
<1>18. CASE Finish
  BY <1>1, <1>2, <1>18 DEF Finish
<1>19. CASE FinishFails
  BY <1>1, <1>2, <1>19 DEF FinishFails
<1>20. CASE Interrupt
  BY <1>1, <1>2, <1>20 DEF Interrupt, InterruptFrom, Release
<1>21. CASE InterruptRefused
  BY <1>1, <1>2, <1>21 DEF InterruptRefused, InterruptFails
<1>22. CASE PreserveCaptured
  BY <1>1, <1>2, <1>22 DEF PreserveCaptured, InterruptFrom, Release
<1>23. CASE PreserveRefused
  BY <1>1, <1>2, <1>23 DEF PreserveRefused, InterruptFails
<1>24. CASE Capture
  BY <1>1, <1>2, <1>24 DEF Capture
<1>25. CASE CaptureFails
  BY <1>1, <1>2, <1>25 DEF CaptureFails
<1>26. CASE Recover
  BY <1>1, <1>2, <1>26 DEF Recover
<1>27. CASE MarkTranscribing
  BY <1>1, <1>2, <1>27 DEF MarkTranscribing
<1>28. CASE TranscribeText
  BY <1>1, <1>2, <1>28 DEF TranscribeText
<1>29. CASE TranscribeSilence
  BY <1>1, <1>2, <1>29 DEF TranscribeSilence
<1>30. CASE TranscribeFails
  BY <1>1, <1>2, <1>30 DEF TranscribeFails
<1>31. CASE ReplacementsFail
  BY <1>1, <1>2, <1>31 DEF ReplacementsFail
<1>32. CASE Store
  BY <1>1, <1>2, <1>32 DEF Store
<1>33. CASE DropSilent
  BY <1>1, <1>2, <1>33 DEF DropSilent, DeleteRow
<1>34. CASE MarkFailed
  BY <1>1, <1>2, <1>34 DEF MarkFailed
<1>35. CASE Gate
  BY <1>1, <1>2, <1>35 DEF Gate
<1>36. CASE MarkAttempting
  BY <1>1, <1>2, <1>36 DEF MarkAttempting
<1>37. CASE Paste
  BY <1>1, <1>2, <1>37 DEF Paste
<1>38. CASE SettleSubmitted
  BY <1>1, <1>2, <1>38 DEF SettleSubmitted
<1>39. CASE SettleAmbiguous
  BY <1>1, <1>2, <1>39 DEF SettleAmbiguous, Release
<1>40. CASE SettleError
  BY <1>1, <1>2, <1>40 DEF SettleError
<1>41. CASE WriteFails
  BY <1>1, <1>2, <1>41 DEF WriteFails
<1>42. CASE GiveUp
  BY <1>1, <1>2, <1>42 DEF GiveUp, Release
<1>43. CASE CompleteDelivered
  BY <1>1, <1>2, <1>43 DEF CompleteDelivered, Complete, DeleteRow
<1>44. CASE Sweep
  BY <1>1, <1>2, <1>44 DEF Sweep
<1>45. CASE Quarantine
  BY <1>1, <1>2, <1>45 DEF Quarantine
<1>46. CASE CommitDelete
  BY <1>1, <1>2, <1>46 DEF CommitDelete, DeleteRow
<1>47. CASE CommitDeleteFails
  BY <1>1, <1>2, <1>47 DEF CommitDeleteFails
<1>48. CASE DeleteFailed
  BY <1>1, <1>2, <1>48 DEF DeleteFailed, Release
<1>49. CASE Unlink
  BY <1>1, <1>2, <1>49 DEF Unlink, Release
<1>50. CASE Quit
  BY <1>1, <1>2, <1>50 DEF Quit, Stop
<1>51. CASE ListFinished
  BY <1>1, <1>2, <1>51 DEF ListFinished, MaintenanceVars
<1>52. CASE RecordFinished
  BY <1>1, <1>2, <1>52 DEF RecordFinished, Complete, DeleteRow, MaintenanceVars
<1>53. CASE RecordFinishedFails
  BY <1>1, <1>2, <1>53 DEF RecordFinishedFails, MaintenanceVars
<1>54. CASE ScanRecordings
  BY <1>1, <1>2, <1>54 DEF ScanRecordings, MaintenanceVars
<1>55. CASE MatchOwners
  BY <1>1, <1>2, <1>55 DEF MatchOwners, MaintenanceVars
<1>56. CASE EndMaintenance
  BY <1>1, <1>2, <1>56 DEF EndMaintenance, MaintenanceVars
<1>57. ASSUME NEW j \in Jobs, SweepFinished(j) PROVE Handling'
  BY <1>1, <1>2, <1>57 DEF SweepFinished, MaintenanceVars
<1>58. ASSUME NEW j \in Jobs, RemoveOrphan(j) PROVE Handling'
  BY <1>1, <1>2, <1>58 DEF RemoveOrphan, MaintenanceVars
<1>59. CASE Open
  BY <1>1, <1>2, <1>59 DEF Open, BootVars
<1>60. CASE ReconcileAmbiguousDeliveries
  BY <1>1, <1>2, <1>60 DEF ReconcileAmbiguousDeliveries, BootVars
<1>61. CASE ReconcileInterruptedJobs
  BY <1>1, <1>2, <1>61 DEF ReconcileInterruptedJobs, BootVars
<1>62. CASE Serve
  BY <1>1, <1>2, <1>62 DEF Serve, BootVars
<1>63. ASSUME NEW j \in Jobs, ReconcileDeletion(j) PROVE Handling'
  BY <1>1, <1>2, <1>63 DEF ReconcileDeletion, BootVars
<1>64. CASE Crash
  BY <1>1, <1>2, <1>64 DEF Crash, Stop
<1>65. ASSUME NEW j \in Jobs, StartUnread(j) PROVE Handling'
  BY <1>1, <1>2, <1>65 DEF StartUnread
<1>66. CASE MarkRecordingUnread
  BY <1>1, <1>2, <1>66 DEF MarkRecordingUnread
<1>67. CASE WrittenUnread
  BY <1>1, <1>2, <1>67 DEF WrittenUnread
<1>68. QED
  BY <1>1, <1>3, <1>4, <1>5, <1>6, <1>7, <1>8, <1>9, <1>10, <1>11, <1>12,
     <1>13, <1>14, <1>15, <1>16, <1>17, <1>18, <1>19, <1>20, <1>21,
     <1>22, <1>23, <1>24, <1>25, <1>26, <1>27, <1>28, <1>29, <1>30,
     <1>31, <1>32, <1>33, <1>34, <1>35, <1>36, <1>37, <1>38, <1>39,
     <1>40, <1>41, <1>42, <1>43, <1>44, <1>45, <1>46, <1>47, <1>48,
     <1>49, <1>50, <1>51, <1>52, <1>53, <1>54, <1>55, <1>56, <1>57,
     <1>58, <1>59, <1>60, <1>61, <1>62, <1>63, <1>64,
     <1>65, <1>66, <1>67
     DEF Next, Command, HandlerStep, Maintenance, Startup

-----------------------------------------------------------------------------
\* What the two delivery ledgers know: a delivered row and a session are both
\* submitted, an erased delivery that still waits is barred.
Ledger ==
  /\ \A j \in Jobs : stage[j] = "delivered" => j \in submitted /\ status[j] = "submitted"
  /\ \A j \in submitted : stage[j] \in {"none", "delivered"}
  /\ \A j \in erased : stage[j] = "delivered" => j \in barred
  /\ sessions \cup erased \subseteq submitted
  /\ barred \subseteq erased
  /\ DeliveredIsRecorded /\ ErasedStaysErased /\ RowOrSession

\* Every step keeps the two delivery ledgers in agreement.
LEMMA LedgerStep == Typed /\ Handling /\ Ledger /\ [Next]_vars => Ledger'
<1> USE DEF At, Goto, Call, Return, NoFault, Fault, SetStage, SetStatus,
        SetAudio, flags, rows, disk, volatile, control, keeper, ghosts,
        Ledger, DeliveredIsRecorded, ErasedStaysErased, RowOrSession
<1>1. SUFFICES ASSUME Typed, Handling, Ledger, Next PROVE Ledger'
  BY DEF vars
<1>2. /\ stage \in [Jobs -> Stages] /\ status \in [Jobs -> Statuses]
      /\ (pc # "idle" => cur \in Jobs) /\ (mpc = "record" => mjob \in Jobs)
      /\ submitted \subseteq Jobs /\ sessions \subseteq Jobs
      /\ erased \subseteq Jobs /\ barred \subseteq Jobs
      /\ RowOfHandler /\ Unborn
  BY <1>1 DEF Typed, TypeOK, Handling
<1>3. ASSUME NEW j \in Jobs, StartRecording(j) PROVE Ledger'
  BY <1>1, <1>2, <1>3 DEF StartRecording, RowOfHandler, Unborn
<1>4. ASSUME NEW j \in Jobs, RecorderExited(j) PROVE Ledger'
  BY <1>1, <1>2, <1>4 DEF RecorderExited, EndRecording
<1>5. ASSUME NEW j \in Jobs, RetryTranscription(j) PROVE Ledger'
  BY <1>1, <1>2, <1>5 DEF RetryTranscription
<1>6. ASSUME NEW j \in Jobs, RetryDelivery(j) PROVE Ledger'
  BY <1>1, <1>2, <1>6 DEF RetryDelivery
<1>7. ASSUME NEW j \in Jobs, DeleteRecovery(j) PROVE Ledger'
  BY <1>1, <1>2, <1>7 DEF DeleteRecovery
<1>8. ASSUME NEW j \in Jobs, DeleteHistory(j) PROVE Ledger'
  BY <1>1, <1>2, <1>8 DEF DeleteHistory
<1>9. CASE StopRecording
  BY <1>1, <1>2, <1>9 DEF StopRecording
<1>10. CASE DiscardRecording
  BY <1>1, <1>2, <1>10 DEF DiscardRecording, EndRecording
<1>11. CASE Shutdown
  BY <1>1, <1>2, <1>11 DEF Shutdown, EndRecording
<1>12. CASE QuitIdle
  BY <1>1, <1>2, <1>12 DEF QuitIdle, Stop
<1>13. CASE ClearHistory
  BY <1>1, <1>2, <1>13 DEF ClearHistory
<1>14. CASE OpenMic
  BY <1>1, <1>2, <1>14 DEF OpenMic, RowOfHandler, Unborn
<1>15. CASE OpenMicFails
  <2>1. \/ stage' = stage
        \/ /\ stage[cur] \in {"starting", "recording"}
           /\ stage' = [stage EXCEPT ![cur] = "interrupted"]
    BY <1>1, <1>2, <1>15 DEF OpenMicFails, AbandonStart, RowOfHandler
  <2>2. UNCHANGED <<status, sessions, submitted, erased, barred>>
    BY <1>15 DEF OpenMicFails, AbandonStart, RowOfHandler
  <2>3. cur \in Jobs
    BY <1>2, <1>15 DEF OpenMicFails
  <2>4. QED
    BY <1>1, <1>2, <2>1, <2>2, <2>3
<1>16. CASE MarkRecording
  BY <1>1, <1>2, <1>16 DEF MarkRecording, RowOfHandler, Unborn
<1>17. CASE MarkRecordingFails
  <2>1. \/ stage' = stage
        \/ /\ stage[cur] \in {"starting", "recording"}
           /\ stage' = [stage EXCEPT ![cur] = "interrupted"]
    BY <1>1, <1>2, <1>17 DEF MarkRecordingFails, RowOfHandler
  <2>2. UNCHANGED <<status, sessions, submitted, erased, barred>>
    BY <1>17 DEF MarkRecordingFails, RowOfHandler
  <2>3. cur \in Jobs
    BY <1>2, <1>17 DEF MarkRecordingFails
  <2>4. QED
    BY <1>1, <1>2, <2>1, <2>2, <2>3
<1>18. CASE Finish
  BY <1>1, <1>2, <1>18 DEF Finish, RowOfHandler, Unborn
<1>19. CASE FinishFails
  BY <1>1, <1>2, <1>19 DEF FinishFails, RowOfHandler, Unborn
<1>20. CASE Interrupt
  BY <1>1, <1>2, <1>20 DEF Interrupt, InterruptFrom, Release, RowOfHandler, Unborn
<1>21. CASE InterruptRefused
  BY <1>1, <1>2, <1>21 DEF InterruptRefused, InterruptFails, RowOfHandler, Unborn
<1>22. CASE PreserveCaptured
  BY <1>1, <1>2, <1>22 DEF PreserveCaptured, InterruptFrom, Release, RowOfHandler, Unborn
<1>23. CASE PreserveRefused
  BY <1>1, <1>2, <1>23 DEF PreserveRefused, InterruptFails, RowOfHandler, Unborn
<1>24. CASE Capture
  BY <1>1, <1>2, <1>24 DEF Capture, RowOfHandler, Unborn
<1>25. CASE CaptureFails
  BY <1>1, <1>2, <1>25 DEF CaptureFails, RowOfHandler, Unborn
<1>26. CASE Recover
  <2>1. \/ stage' = stage
        \/ /\ stage[cur] \in {"starting", "recording"}
           /\ stage' = [stage EXCEPT ![cur] = "interrupted"]
    BY <1>1, <1>2, <1>26 DEF Recover, RowOfHandler, Unborn
  <2>2. UNCHANGED <<status, sessions, submitted, erased, barred>>
    BY <1>26 DEF Recover, RowOfHandler, Unborn
  <2>3. cur \in Jobs
    BY <1>2, <1>26 DEF Recover
  <2>4. QED
    BY <1>1, <1>2, <2>1, <2>2, <2>3
<1>27. CASE MarkTranscribing
  BY <1>1, <1>2, <1>27 DEF MarkTranscribing, RowOfHandler, Unborn
<1>28. CASE TranscribeText
  BY <1>1, <1>2, <1>28 DEF TranscribeText, RowOfHandler, Unborn
<1>29. CASE TranscribeSilence
  BY <1>1, <1>2, <1>29 DEF TranscribeSilence, RowOfHandler, Unborn
<1>30. CASE TranscribeFails
  BY <1>1, <1>2, <1>30 DEF TranscribeFails, RowOfHandler, Unborn
<1>31. CASE ReplacementsFail
  BY <1>1, <1>2, <1>31 DEF ReplacementsFail, RowOfHandler, Unborn
<1>32. CASE Store
  BY <1>1, <1>2, <1>32 DEF Store, RowOfHandler, Unborn
<1>33. CASE DropSilent
  BY <1>1, <1>2, <1>33 DEF DropSilent, DeleteRow, RowOfHandler, Unborn
<1>34. CASE MarkFailed
  BY <1>1, <1>2, <1>34 DEF MarkFailed, RowOfHandler, Unborn
<1>35. CASE Gate
  BY <1>1, <1>2, <1>35 DEF Gate, RowOfHandler, Unborn
<1>36. CASE MarkAttempting
  BY <1>1, <1>2, <1>36 DEF MarkAttempting, RowOfHandler, Unborn
<1>37. CASE Paste
  BY <1>1, <1>2, <1>37 DEF Paste, RowOfHandler, Unborn
<1>38. CASE SettleSubmitted
  BY <1>1, <1>2, <1>38 DEF SettleSubmitted, RowOfHandler, Unborn
<1>39. CASE SettleAmbiguous
  BY <1>1, <1>2, <1>39 DEF SettleAmbiguous, Release, RowOfHandler, Unborn
<1>40. CASE SettleError
  BY <1>1, <1>2, <1>40 DEF SettleError, RowOfHandler, Unborn
<1>41. CASE WriteFails
  BY <1>1, <1>2, <1>41 DEF WriteFails, RowOfHandler, Unborn
<1>42. CASE GiveUp
  BY <1>1, <1>2, <1>42 DEF GiveUp, Release, RowOfHandler, Unborn
<1>43. CASE CompleteDelivered
  <2>1. CASE Complete(cur) /\ stage[cur] = "delivered"
    <3>1. /\ \A k \in Jobs : stage'[k] = IF k = cur THEN "none" ELSE stage[k]
          /\ \A k \in Jobs : k # cur => status'[k] = status[k]
          /\ barred' = barred \ {cur}
          /\ sessions' = IF cur \in barred THEN sessions ELSE sessions \cup {cur}
      BY <1>2, <1>43, <2>1 DEF Complete, DeleteRow
    <3>2. cur \in Jobs /\ UNCHANGED <<submitted, erased>>
      BY <1>2, <1>43 DEF CompleteDelivered, Complete, DeleteRow, RowOfHandler, Unborn
    <3>3. QED
      BY <1>1, <1>2, <2>1, <3>1, <3>2
  <2>2. CASE UNCHANGED <<rows, sessions>>
    BY <1>1, <1>2, <1>43, <2>2 DEF CompleteDelivered, Complete, DeleteRow, RowOfHandler, Unborn
  <2>3. QED
    BY <1>43, <2>1, <2>2 DEF CompleteDelivered, Complete, DeleteRow, RowOfHandler, Unborn
<1>44. CASE Sweep
  BY <1>1, <1>2, <1>44 DEF Sweep, RowOfHandler, Unborn
<1>45. CASE Quarantine
  BY <1>1, <1>2, <1>45 DEF Quarantine, RowOfHandler, Unborn
<1>46. CASE CommitDelete
  BY <1>1, <1>2, <1>46 DEF CommitDelete, DeleteRow, RowOfHandler, Unborn
<1>47. CASE CommitDeleteFails
  BY <1>1, <1>2, <1>47 DEF CommitDeleteFails, RowOfHandler, Unborn
<1>48. CASE DeleteFailed
  BY <1>1, <1>2, <1>48 DEF DeleteFailed, Release, RowOfHandler, Unborn
<1>49. CASE Unlink
  BY <1>1, <1>2, <1>49 DEF Unlink, Release, RowOfHandler, Unborn
<1>50. CASE Quit
  BY <1>1, <1>2, <1>50 DEF Quit, Stop, RowOfHandler, Unborn
<1>51. CASE ListFinished
  BY <1>1, <1>2, <1>51 DEF ListFinished, MaintenanceVars
<1>52. CASE RecordFinished
  <2>1. CASE Complete(mjob) /\ stage[mjob] = "delivered"
    <3>1. /\ \A k \in Jobs : stage'[k] = IF k = mjob THEN "none" ELSE stage[k]
          /\ \A k \in Jobs : k # mjob => status'[k] = status[k]
          /\ barred' = barred \ {mjob}
          /\ sessions' = IF mjob \in barred THEN sessions ELSE sessions \cup {mjob}
      BY <1>2, <1>52, <2>1 DEF Complete, DeleteRow
    <3>2. mjob \in Jobs /\ UNCHANGED <<submitted, erased>>
      BY <1>2, <1>52 DEF RecordFinished, Complete, DeleteRow, MaintenanceVars
    <3>3. QED
      BY <1>1, <1>2, <2>1, <3>1, <3>2
  <2>2. CASE UNCHANGED <<rows, sessions>>
    BY <1>1, <1>2, <1>52, <2>2 DEF RecordFinished, Complete, DeleteRow, MaintenanceVars
  <2>3. QED
    BY <1>52, <2>1, <2>2 DEF RecordFinished, Complete, DeleteRow, MaintenanceVars
<1>53. CASE RecordFinishedFails
  BY <1>1, <1>2, <1>53 DEF RecordFinishedFails, MaintenanceVars
<1>54. CASE ScanRecordings
  BY <1>1, <1>2, <1>54 DEF ScanRecordings, MaintenanceVars
<1>55. CASE MatchOwners
  BY <1>1, <1>2, <1>55 DEF MatchOwners, MaintenanceVars
<1>56. CASE EndMaintenance
  BY <1>1, <1>2, <1>56 DEF EndMaintenance, MaintenanceVars
<1>57. ASSUME NEW j \in Jobs, SweepFinished(j) PROVE Ledger'
  BY <1>1, <1>2, <1>57 DEF SweepFinished, MaintenanceVars
<1>58. ASSUME NEW j \in Jobs, RemoveOrphan(j) PROVE Ledger'
  BY <1>1, <1>2, <1>58 DEF RemoveOrphan, MaintenanceVars
<1>59. CASE Open
  BY <1>1, <1>2, <1>59 DEF Open, BootVars
<1>60. CASE ReconcileAmbiguousDeliveries
  <2>1. \A j \in Jobs :
          stage'[j] = IF stage[j] # "none" /\ status[j] = "attempting"
                        THEN "failed" ELSE stage[j]
    BY <1>2, <1>60 DEF ReconcileAmbiguousDeliveries
  <2>2. \A j \in Jobs :
          status'[j] = IF stage[j] # "none" /\ status[j] = "attempting"
                        THEN "ambiguous" ELSE status[j]
    BY <1>2, <1>60 DEF ReconcileAmbiguousDeliveries
  <2>3. boot = "deliveries" /\ UNCHANGED <<audio, mpc, BootVars>>
    BY <1>60 DEF ReconcileAmbiguousDeliveries
  <2>4. QED
    BY <1>1, <1>2, <2>1, <2>2, <2>3 DEF BootVars
<1>61. CASE ReconcileInterruptedJobs
  <2>1. \A j \in Jobs :
          stage'[j] = IF stage[j] \in {"starting", "recording", "transcribing"}
                        THEN "interrupted" ELSE stage[j]
    BY <1>2, <1>61 DEF ReconcileInterruptedJobs
  <2>2. UNCHANGED <<status, audio, mpc, BootVars>>
    BY <1>61 DEF ReconcileInterruptedJobs
  <2>3. QED
    BY <1>1, <1>2, <2>1, <2>2 DEF BootVars
<1>62. CASE Serve
  BY <1>1, <1>2, <1>62 DEF Serve, BootVars
<1>63. ASSUME NEW j \in Jobs, ReconcileDeletion(j) PROVE Ledger'
  BY <1>1, <1>2, <1>63 DEF ReconcileDeletion, BootVars
<1>64. CASE Crash
  BY <1>1, <1>2, <1>64 DEF Crash, Stop
<1>65. ASSUME NEW j \in Jobs, StartUnread(j) PROVE Ledger'
  BY <1>1, <1>2, <1>65 DEF StartUnread, RowOfHandler, Unborn
<1>66. CASE MarkRecordingUnread
  BY <1>1, <1>2, <1>66 DEF MarkRecordingUnread, RowOfHandler, Unborn
<1>67. CASE WrittenUnread
  BY <1>1, <1>2, <1>67 DEF WrittenUnread, RowOfHandler, Unborn
<1>68. QED
  BY <1>1, <1>3, <1>4, <1>5, <1>6, <1>7, <1>8, <1>9, <1>10, <1>11, <1>12,
     <1>13, <1>14, <1>15, <1>16, <1>17, <1>18, <1>19, <1>20, <1>21,
     <1>22, <1>23, <1>24, <1>25, <1>26, <1>27, <1>28, <1>29, <1>30,
     <1>31, <1>32, <1>33, <1>34, <1>35, <1>36, <1>37, <1>38, <1>39,
     <1>40, <1>41, <1>42, <1>43, <1>44, <1>45, <1>46, <1>47, <1>48,
     <1>49, <1>50, <1>51, <1>52, <1>53, <1>54, <1>55, <1>56, <1>57,
     <1>58, <1>59, <1>60, <1>61, <1>62, <1>63, <1>64,
     <1>65, <1>66, <1>67
     DEF Next, Command, HandlerStep, Maintenance, Startup

-----------------------------------------------------------------------------
\* What the cleanup list may hold, so that it removes no audio still needed.
KeeperRows ==
  /\ mpc \in {"sweep", "record"} => \A j \in todo : stage[j] \in {"none", "delivered"}
  /\ mpc = "remove" => \A j \in todo : stage[j] = "none"

Recordings ==
  /\ KeeperRows
  /\ pc = "open_mic" => cur \notin heard
  /\ pc = "drop_silent" => cur \in quiet
  /\ RecordingIsKept /\ NothingVanishes

\* Every step keeps the audio a dictation still needs off the cleanup list.
LEMMA RecordingsStep == Typed /\ Handling /\ Ledger /\ Recordings /\ [Next]_vars => Recordings'
<1> USE DEF At, Goto, Call, Return, NoFault, Fault, SetStage, SetStatus,
        SetAudio, flags, rows, disk, volatile, control, keeper, ghosts,
        KeeperRows, Recordings, RecordingIsKept, NothingVanishes
<1>1. SUFFICES ASSUME Typed, Handling, Ledger, Recordings, Next
               PROVE  Recordings'
  BY DEF vars
<1>2. /\ stage \in [Jobs -> Stages] /\ status \in [Jobs -> Statuses]
      /\ audio \in [Jobs -> {"none", "wav", "quarantine"}]
      /\ (pc # "idle" => cur \in Jobs) /\ (mpc = "record" => mjob \in Jobs)
      /\ RunsWhenUp /\ RowOfHandler /\ Unborn
      /\ \A j \in Jobs : stage[j] = "delivered"
                         => j \in submitted /\ status[j] = "submitted"
      /\ todo \subseteq Jobs /\ heard \subseteq Jobs
  BY <1>1 DEF Typed, TypeOK, Handling, Ledger
<1>3. ASSUME NEW j \in Jobs, StartRecording(j) PROVE Recordings'
  BY <1>1, <1>2, <1>3 DEF StartRecording, RunsWhenUp, RowOfHandler, Unborn
<1>4. ASSUME NEW j \in Jobs, RecorderExited(j) PROVE Recordings'
  BY <1>1, <1>2, <1>4 DEF RecorderExited, EndRecording, RunsWhenUp, RowOfHandler, Unborn
<1>5. ASSUME NEW j \in Jobs, RetryTranscription(j) PROVE Recordings'
  BY <1>1, <1>2, <1>5 DEF RetryTranscription, RunsWhenUp, RowOfHandler, Unborn
<1>6. ASSUME NEW j \in Jobs, RetryDelivery(j) PROVE Recordings'
  BY <1>1, <1>2, <1>6 DEF RetryDelivery, RunsWhenUp, RowOfHandler, Unborn
<1>7. ASSUME NEW j \in Jobs, DeleteRecovery(j) PROVE Recordings'
  BY <1>1, <1>2, <1>7 DEF DeleteRecovery, RunsWhenUp, RowOfHandler, Unborn
<1>8. ASSUME NEW j \in Jobs, DeleteHistory(j) PROVE Recordings'
  BY <1>1, <1>2, <1>8 DEF DeleteHistory, RunsWhenUp, RowOfHandler, Unborn
<1>9. CASE StopRecording
  BY <1>1, <1>2, <1>9 DEF StopRecording, RunsWhenUp, RowOfHandler, Unborn
<1>10. CASE DiscardRecording
  BY <1>1, <1>2, <1>10 DEF DiscardRecording, EndRecording, RunsWhenUp, RowOfHandler, Unborn
<1>11. CASE Shutdown
  BY <1>1, <1>2, <1>11 DEF Shutdown, EndRecording, RunsWhenUp, RowOfHandler, Unborn
<1>12. CASE QuitIdle
  BY <1>1, <1>2, <1>12 DEF QuitIdle, Stop, RunsWhenUp, RowOfHandler, Unborn
<1>13. CASE ClearHistory
  BY <1>1, <1>2, <1>13 DEF ClearHistory, RunsWhenUp, RowOfHandler, Unborn
<1>14. CASE OpenMic
  BY <1>1, <1>2, <1>14 DEF OpenMic, RunsWhenUp, RowOfHandler, Unborn
<1>15. CASE OpenMicFails
  BY <1>1, <1>2, <1>15 DEF OpenMicFails, AbandonStart, RunsWhenUp, RowOfHandler, Unborn
<1>16. CASE MarkRecording
  BY <1>1, <1>2, <1>16 DEF MarkRecording, RunsWhenUp, RowOfHandler, Unborn
<1>17. CASE MarkRecordingFails
  BY <1>1, <1>2, <1>17 DEF MarkRecordingFails, RunsWhenUp, RowOfHandler, Unborn
<1>18. CASE Finish
  BY <1>1, <1>2, <1>18 DEF Finish, RunsWhenUp, RowOfHandler, Unborn
<1>19. CASE FinishFails
  BY <1>1, <1>2, <1>19 DEF FinishFails, RunsWhenUp, RowOfHandler, Unborn
<1>20. CASE Interrupt
  BY <1>1, <1>2, <1>20 DEF Interrupt, InterruptFrom, Release, RunsWhenUp, RowOfHandler, Unborn
<1>21. CASE InterruptRefused
  BY <1>1, <1>2, <1>21 DEF InterruptRefused, InterruptFails, RunsWhenUp, RowOfHandler, Unborn
<1>22. CASE PreserveCaptured
  BY <1>1, <1>2, <1>22 DEF PreserveCaptured, InterruptFrom, Release, RunsWhenUp, RowOfHandler, Unborn
<1>23. CASE PreserveRefused
  BY <1>1, <1>2, <1>23 DEF PreserveRefused, InterruptFails, RunsWhenUp, RowOfHandler, Unborn
<1>24. CASE Capture
  BY <1>1, <1>2, <1>24 DEF Capture, RunsWhenUp, RowOfHandler, Unborn
<1>25. CASE CaptureFails
  BY <1>1, <1>2, <1>25 DEF CaptureFails, RunsWhenUp, RowOfHandler, Unborn
<1>26. CASE Recover
  BY <1>1, <1>2, <1>26 DEF Recover, RunsWhenUp, RowOfHandler, Unborn
<1>27. CASE MarkTranscribing
  BY <1>1, <1>2, <1>27 DEF MarkTranscribing, RunsWhenUp, RowOfHandler, Unborn
<1>28. CASE TranscribeText
  BY <1>1, <1>2, <1>28 DEF TranscribeText, RunsWhenUp, RowOfHandler, Unborn
<1>29. CASE TranscribeSilence
  BY <1>1, <1>2, <1>29 DEF TranscribeSilence, RunsWhenUp, RowOfHandler, Unborn
<1>30. CASE TranscribeFails
  BY <1>1, <1>2, <1>30 DEF TranscribeFails, RunsWhenUp, RowOfHandler, Unborn
<1>31. CASE ReplacementsFail
  BY <1>1, <1>2, <1>31 DEF ReplacementsFail, RunsWhenUp, RowOfHandler, Unborn
<1>32. CASE Store
  BY <1>1, <1>2, <1>32 DEF Store, RunsWhenUp, RowOfHandler, Unborn
<1>33. CASE DropSilent
  BY <1>1, <1>2, <1>33 DEF DropSilent, DeleteRow, RunsWhenUp, RowOfHandler, Unborn
<1>34. CASE MarkFailed
  BY <1>1, <1>2, <1>34 DEF MarkFailed, RunsWhenUp, RowOfHandler, Unborn
<1>35. CASE Gate
  BY <1>1, <1>2, <1>35 DEF Gate, RunsWhenUp, RowOfHandler, Unborn
<1>36. CASE MarkAttempting
  BY <1>1, <1>2, <1>36 DEF MarkAttempting, RunsWhenUp, RowOfHandler, Unborn
<1>37. CASE Paste
  BY <1>1, <1>2, <1>37 DEF Paste, RunsWhenUp, RowOfHandler, Unborn
<1>38. CASE SettleSubmitted
  BY <1>1, <1>2, <1>38 DEF SettleSubmitted, RunsWhenUp, RowOfHandler, Unborn
<1>39. CASE SettleAmbiguous
  BY <1>1, <1>2, <1>39 DEF SettleAmbiguous, Release, RunsWhenUp, RowOfHandler, Unborn
<1>40. CASE SettleError
  BY <1>1, <1>2, <1>40 DEF SettleError, RunsWhenUp, RowOfHandler, Unborn
<1>41. CASE WriteFails
  BY <1>1, <1>2, <1>41 DEF WriteFails, RunsWhenUp, RowOfHandler, Unborn
<1>42. CASE GiveUp
  BY <1>1, <1>2, <1>42 DEF GiveUp, Release, RunsWhenUp, RowOfHandler, Unborn
<1>43. CASE CompleteDelivered
  BY <1>1, <1>2, <1>43 DEF CompleteDelivered, Complete, DeleteRow, RunsWhenUp, RowOfHandler, Unborn
<1>44. CASE Sweep
  BY <1>1, <1>2, <1>44 DEF Sweep, RunsWhenUp, RowOfHandler, Unborn
<1>45. CASE Quarantine
  BY <1>1, <1>2, <1>45 DEF Quarantine, RunsWhenUp, RowOfHandler, Unborn
<1>46. CASE CommitDelete
  BY <1>1, <1>2, <1>46 DEF CommitDelete, DeleteRow, RunsWhenUp, RowOfHandler, Unborn
<1>47. CASE CommitDeleteFails
  BY <1>1, <1>2, <1>47 DEF CommitDeleteFails, RunsWhenUp, RowOfHandler, Unborn
<1>48. CASE DeleteFailed
  BY <1>1, <1>2, <1>48 DEF DeleteFailed, Release, RunsWhenUp, RowOfHandler, Unborn
<1>49. CASE Unlink
  BY <1>1, <1>2, <1>49 DEF Unlink, Release, RunsWhenUp, RowOfHandler, Unborn
<1>50. CASE Quit
  BY <1>1, <1>2, <1>50 DEF Quit, Stop, RunsWhenUp, RowOfHandler, Unborn
<1>51. CASE ListFinished
  BY <1>1, <1>2, <1>51 DEF ListFinished, MaintenanceVars, RunsWhenUp, RowOfHandler, Unborn
<1>52. CASE RecordFinished
  <2>1. CASE Complete(mjob) /\ stage[mjob] = "delivered"
    <3>1. /\ \A k \in Jobs : stage'[k] = IF k = mjob THEN "none" ELSE stage[k]
          /\ \A k \in Jobs : k # mjob => status'[k] = status[k]
          /\ barred' = barred \ {mjob}
          /\ sessions' = IF mjob \in barred THEN sessions ELSE sessions \cup {mjob}
      BY <1>2, <1>52, <2>1 DEF Complete, DeleteRow
    <3>2. mjob \in Jobs /\ UNCHANGED <<audio, submitted, disposed, heard, quiet, pc, cur, todo>>
          /\ mpc' = "sweep" /\ mpc = "record"
      BY <1>2, <1>52 DEF RecordFinished, Complete, DeleteRow, MaintenanceVars, RunsWhenUp, RowOfHandler, Unborn
    <3>3. QED
      BY <1>1, <1>2, <2>1, <3>1, <3>2
  <2>2. CASE UNCHANGED <<rows, sessions>>
    BY <1>1, <1>2, <1>52, <2>2 DEF RecordFinished, Complete, DeleteRow, MaintenanceVars, RunsWhenUp, RowOfHandler, Unborn
  <2>3. QED
    BY <1>52, <2>1, <2>2 DEF RecordFinished, Complete, DeleteRow, MaintenanceVars, RunsWhenUp, RowOfHandler, Unborn
<1>53. CASE RecordFinishedFails
  BY <1>1, <1>2, <1>53 DEF RecordFinishedFails, MaintenanceVars, RunsWhenUp, RowOfHandler, Unborn
<1>54. CASE ScanRecordings
  BY <1>1, <1>2, <1>54 DEF ScanRecordings, MaintenanceVars, RunsWhenUp, RowOfHandler, Unborn
<1>55. CASE MatchOwners
  BY <1>1, <1>2, <1>55 DEF MatchOwners, MaintenanceVars, RunsWhenUp, RowOfHandler, Unborn
<1>56. CASE EndMaintenance
  BY <1>1, <1>2, <1>56 DEF EndMaintenance, MaintenanceVars, RunsWhenUp, RowOfHandler, Unborn
<1>57. ASSUME NEW j \in Jobs, SweepFinished(j) PROVE Recordings'
  BY <1>1, <1>2, <1>57 DEF SweepFinished, MaintenanceVars, RunsWhenUp, RowOfHandler, Unborn
<1>58. ASSUME NEW j \in Jobs, RemoveOrphan(j) PROVE Recordings'
  BY <1>1, <1>2, <1>58 DEF RemoveOrphan, MaintenanceVars, RunsWhenUp, RowOfHandler, Unborn
<1>59. CASE Open
  BY <1>1, <1>2, <1>59 DEF Open, BootVars, RunsWhenUp, RowOfHandler, Unborn
<1>60. CASE ReconcileAmbiguousDeliveries
  <2>1. \A j \in Jobs :
          stage'[j] = IF stage[j] # "none" /\ status[j] = "attempting"
                        THEN "failed" ELSE stage[j]
    BY <1>2, <1>60 DEF ReconcileAmbiguousDeliveries
  <2>2. \A j \in Jobs :
          status'[j] = IF stage[j] # "none" /\ status[j] = "attempting"
                        THEN "ambiguous" ELSE status[j]
    BY <1>2, <1>60 DEF ReconcileAmbiguousDeliveries
  <2>3. boot = "deliveries" /\ UNCHANGED <<audio, mpc, BootVars>>
    BY <1>60 DEF ReconcileAmbiguousDeliveries
  <2>4. QED
    BY <1>1, <1>2, <2>1, <2>2, <2>3 DEF BootVars, RunsWhenUp
<1>61. CASE ReconcileInterruptedJobs
  BY <1>1, <1>2, <1>61 DEF ReconcileInterruptedJobs, BootVars, RunsWhenUp, RowOfHandler, Unborn
<1>62. CASE Serve
  BY <1>1, <1>2, <1>62 DEF Serve, BootVars, RunsWhenUp, RowOfHandler, Unborn
<1>63. ASSUME NEW j \in Jobs, ReconcileDeletion(j) PROVE Recordings'
  BY <1>1, <1>2, <1>63 DEF ReconcileDeletion, BootVars, RunsWhenUp, RowOfHandler, Unborn
<1>64. CASE Crash
  BY <1>1, <1>2, <1>64 DEF Crash, Stop, RunsWhenUp, RowOfHandler, Unborn
<1>65. ASSUME NEW j \in Jobs, StartUnread(j) PROVE Recordings'
  BY <1>1, <1>2, <1>65 DEF StartUnread, RunsWhenUp, RowOfHandler, Unborn
<1>66. CASE MarkRecordingUnread
  BY <1>1, <1>2, <1>66 DEF MarkRecordingUnread, RunsWhenUp, RowOfHandler, Unborn
<1>67. CASE WrittenUnread
  BY <1>1, <1>2, <1>67 DEF WrittenUnread, RunsWhenUp, RowOfHandler, Unborn
<1>68. QED
  BY <1>1, <1>3, <1>4, <1>5, <1>6, <1>7, <1>8, <1>9, <1>10, <1>11, <1>12,
     <1>13, <1>14, <1>15, <1>16, <1>17, <1>18, <1>19, <1>20, <1>21,
     <1>22, <1>23, <1>24, <1>25, <1>26, <1>27, <1>28, <1>29, <1>30,
     <1>31, <1>32, <1>33, <1>34, <1>35, <1>36, <1>37, <1>38, <1>39,
     <1>40, <1>41, <1>42, <1>43, <1>44, <1>45, <1>46, <1>47, <1>48,
     <1>49, <1>50, <1>51, <1>52, <1>53, <1>54, <1>55, <1>56, <1>57,
     <1>58, <1>59, <1>60, <1>61, <1>62, <1>63, <1>64,
     <1>65, <1>66, <1>67
     DEF Next, Command, HandlerStep, Maintenance, Startup

-----------------------------------------------------------------------------
\* The handlers that end a recording, and who holds the recorder when.
Enders == {"stop", "discard", "preserve", "shutdown"}
Resting == {"idle", "open_mic", "mark_recording", "quit"}
Microphone ==
  /\ mic # NoJob => \/ mic = active
                    \/ pc = "mark_recording"
                    \/ active = NoJob /\ stage[mic] = "recording"
  /\ pc = "mark_recording" => mic = cur
  /\ boot # "up" => mic = NoJob
  /\ pc \in {"open_mic", "mark_recording"} => cmd = "start" /\ active = NoJob
  /\ cmd = "none" <=> pc = "idle"
  /\ cmd = "start" => pc \in {"open_mic", "mark_recording"}
  /\ pc \in {"finish", "interrupt", "capture", "recover", "interrupt_captured"}
       => cmd \in Enders
  /\ pc \in {"mark_transcribing", "transcribe", "store", "drop_silent",
             "mark_failed", "gate", "mark_attempting", "paste", "complete",
             "settle_submitted", "settle_ambiguous", "settle_error", "sweep",
             "give_up"}
       => cmd \in {"stop", "retry_transcription", "retry_delivery"}
  /\ pc \in {"quarantine", "delete_row", "delete_failed", "unlink"}
       => cmd \in {"discard", "delete"}
  /\ cmd \in {"retry_transcription", "retry_delivery"} => active = NoJob
  /\ cmd \in Enders /\ pc \notin Resting => cur = active
  /\ cmd \in Enders /\ pc \notin Resting \cup {"finish"} => mic = NoJob

\* Every step keeps the microphone with the recording that claims it.
LEMMA MicrophoneStep == Typed /\ Handling /\ Microphone /\ [Next]_vars => Microphone'
<1> USE DEF At, Goto, Call, Return, NoFault, Fault, SetStage, SetStatus,
        SetAudio, flags, rows, disk, volatile, control, keeper, ghosts,
        Microphone, Enders, Resting
<1>1. SUFFICES ASSUME Typed, Handling, Microphone, Next PROVE Microphone'
  BY DEF vars
<1>2. /\ NoJob \notin Jobs /\ (pc # "idle" => cur \in Jobs) /\ RunsWhenUp
      /\ stage \in [Jobs -> Stages]
      /\ mic \in Jobs \cup {NoJob} /\ active \in Jobs \cup {NoJob}
      /\ (mpc = "record" => mjob \in Jobs) /\ RowOfHandler
      /\ \A j \in Jobs \ born : stage[j] = "none"
  BY <1>1, NoJobAssumption DEF Typed, TypeOK, Handling, Unborn
<1>3. ASSUME NEW j \in Jobs, StartRecording(j) PROVE Microphone'
  BY <1>1, <1>2, <1>3 DEF StartRecording
<1>4. ASSUME NEW j \in Jobs, RecorderExited(j) PROVE Microphone'
  BY <1>1, <1>2, <1>4 DEF RecorderExited, EndRecording
<1>5. ASSUME NEW j \in Jobs, RetryTranscription(j) PROVE Microphone'
  BY <1>1, <1>2, <1>5 DEF RetryTranscription
<1>6. ASSUME NEW j \in Jobs, RetryDelivery(j) PROVE Microphone'
  BY <1>1, <1>2, <1>6 DEF RetryDelivery
<1>7. ASSUME NEW j \in Jobs, DeleteRecovery(j) PROVE Microphone'
  BY <1>1, <1>2, <1>7 DEF DeleteRecovery
<1>8. ASSUME NEW j \in Jobs, DeleteHistory(j) PROVE Microphone'
  BY <1>1, <1>2, <1>8 DEF DeleteHistory
<1>9. CASE StopRecording
  BY <1>1, <1>2, <1>9 DEF StopRecording
<1>10. CASE DiscardRecording
  BY <1>1, <1>2, <1>10 DEF DiscardRecording, EndRecording
<1>11. CASE Shutdown
  BY <1>1, <1>2, <1>11 DEF Shutdown, EndRecording
<1>12. CASE QuitIdle
  BY <1>1, <1>2, <1>12 DEF QuitIdle, Stop
<1>13. CASE ClearHistory
  BY <1>1, <1>2, <1>13 DEF ClearHistory
<1>14. CASE OpenMic
  BY <1>1, <1>2, <1>14 DEF OpenMic, RowOfHandler
<1>15. CASE OpenMicFails
  BY <1>1, <1>2, <1>15 DEF OpenMicFails, AbandonStart, RowOfHandler
<1>16. CASE MarkRecording
  BY <1>1, <1>2, <1>16 DEF MarkRecording, RowOfHandler
<1>17. CASE MarkRecordingFails
  BY <1>1, <1>2, <1>17 DEF MarkRecordingFails, RowOfHandler
<1>18. CASE Finish
  BY <1>1, <1>2, <1>18 DEF Finish
<1>19. CASE FinishFails
  BY <1>1, <1>2, <1>19 DEF FinishFails
<1>20. CASE Interrupt
  BY <1>1, <1>2, <1>20 DEF Interrupt, InterruptFrom, Release
<1>21. CASE InterruptRefused
  BY <1>1, <1>2, <1>21 DEF InterruptRefused, InterruptFails
<1>22. CASE PreserveCaptured
  BY <1>1, <1>2, <1>22 DEF PreserveCaptured, InterruptFrom, Release
<1>23. CASE PreserveRefused
  BY <1>1, <1>2, <1>23 DEF PreserveRefused, InterruptFails
<1>24. CASE Capture
  BY <1>1, <1>2, <1>24 DEF Capture
<1>25. CASE CaptureFails
  BY <1>1, <1>2, <1>25 DEF CaptureFails
<1>26. CASE Recover
  BY <1>1, <1>2, <1>26 DEF Recover
<1>27. CASE MarkTranscribing
  BY <1>1, <1>2, <1>27 DEF MarkTranscribing, RowOfHandler
<1>28. CASE TranscribeText
  BY <1>1, <1>2, <1>28 DEF TranscribeText
<1>29. CASE TranscribeSilence
  BY <1>1, <1>2, <1>29 DEF TranscribeSilence
<1>30. CASE TranscribeFails
  BY <1>1, <1>2, <1>30 DEF TranscribeFails
<1>31. CASE ReplacementsFail
  BY <1>1, <1>2, <1>31 DEF ReplacementsFail
<1>32. CASE Store
  BY <1>1, <1>2, <1>32 DEF Store, RowOfHandler
<1>33. CASE DropSilent
  BY <1>1, <1>2, <1>33 DEF DropSilent, DeleteRow, RowOfHandler
<1>34. CASE MarkFailed
  BY <1>1, <1>2, <1>34 DEF MarkFailed, RowOfHandler
<1>35. CASE Gate
  BY <1>1, <1>2, <1>35 DEF Gate
<1>36. CASE MarkAttempting
  BY <1>1, <1>2, <1>36 DEF MarkAttempting
<1>37. CASE Paste
  BY <1>1, <1>2, <1>37 DEF Paste
<1>38. CASE SettleSubmitted
  BY <1>1, <1>2, <1>38 DEF SettleSubmitted, RowOfHandler
<1>39. CASE SettleAmbiguous
  BY <1>1, <1>2, <1>39 DEF SettleAmbiguous, Release, RowOfHandler
<1>40. CASE SettleError
  BY <1>1, <1>2, <1>40 DEF SettleError, RowOfHandler
<1>41. CASE WriteFails
  BY <1>1, <1>2, <1>41 DEF WriteFails
<1>42. CASE GiveUp
  BY <1>1, <1>2, <1>42 DEF GiveUp, Release
<1>43. CASE CompleteDelivered
  BY <1>1, <1>2, <1>43 DEF CompleteDelivered, Complete, DeleteRow, RowOfHandler
<1>44. CASE Sweep
  BY <1>1, <1>2, <1>44 DEF Sweep
<1>45. CASE Quarantine
  BY <1>1, <1>2, <1>45 DEF Quarantine
<1>46. CASE CommitDelete
  BY <1>1, <1>2, <1>46 DEF CommitDelete, DeleteRow, RowOfHandler
<1>47. CASE CommitDeleteFails
  BY <1>1, <1>2, <1>47 DEF CommitDeleteFails
<1>48. CASE DeleteFailed
  BY <1>1, <1>2, <1>48 DEF DeleteFailed, Release
<1>49. CASE Unlink
  BY <1>1, <1>2, <1>49 DEF Unlink, Release
<1>50. CASE Quit
  BY <1>1, <1>2, <1>50 DEF Quit, Stop
<1>51. CASE ListFinished
  BY <1>1, <1>2, <1>51 DEF ListFinished, MaintenanceVars, RunsWhenUp
<1>52. CASE RecordFinished
  BY <1>1, <1>2, <1>52 DEF RecordFinished, Complete, DeleteRow, MaintenanceVars, RunsWhenUp
<1>53. CASE RecordFinishedFails
  BY <1>1, <1>2, <1>53 DEF RecordFinishedFails, MaintenanceVars, RunsWhenUp
<1>54. CASE ScanRecordings
  BY <1>1, <1>2, <1>54 DEF ScanRecordings, MaintenanceVars, RunsWhenUp
<1>55. CASE MatchOwners
  BY <1>1, <1>2, <1>55 DEF MatchOwners, MaintenanceVars, RunsWhenUp
<1>56. CASE EndMaintenance
  BY <1>1, <1>2, <1>56 DEF EndMaintenance, MaintenanceVars, RunsWhenUp
<1>57. ASSUME NEW j \in Jobs, SweepFinished(j) PROVE Microphone'
  BY <1>1, <1>2, <1>57 DEF SweepFinished, MaintenanceVars, RunsWhenUp
<1>58. ASSUME NEW j \in Jobs, RemoveOrphan(j) PROVE Microphone'
  BY <1>1, <1>2, <1>58 DEF RemoveOrphan, MaintenanceVars, RunsWhenUp
<1>59. CASE Open
  BY <1>1, <1>2, <1>59 DEF Open, BootVars, RunsWhenUp
<1>60. CASE ReconcileAmbiguousDeliveries
  BY <1>1, <1>2, <1>60 DEF ReconcileAmbiguousDeliveries, BootVars, RunsWhenUp
<1>61. CASE ReconcileInterruptedJobs
  BY <1>1, <1>2, <1>61 DEF ReconcileInterruptedJobs, BootVars, RunsWhenUp
<1>62. CASE Serve
  BY <1>1, <1>2, <1>62 DEF Serve, BootVars, RunsWhenUp
<1>63. ASSUME NEW j \in Jobs, ReconcileDeletion(j) PROVE Microphone'
  BY <1>1, <1>2, <1>63 DEF ReconcileDeletion, BootVars, RunsWhenUp
<1>64. CASE Crash
  BY <1>1, <1>2, <1>64 DEF Crash, Stop, RunsWhenUp
<1>65. ASSUME NEW j \in Jobs, StartUnread(j) PROVE Microphone'
  BY <1>1, <1>2, <1>65 DEF StartUnread
<1>66. CASE MarkRecordingUnread
  BY <1>1, <1>2, <1>66 DEF MarkRecordingUnread, RowOfHandler
<1>67. CASE WrittenUnread
  BY <1>1, <1>2, <1>67 DEF WrittenUnread, RowOfHandler
<1>68. QED
  BY <1>1, <1>3, <1>4, <1>5, <1>6, <1>7, <1>8, <1>9, <1>10, <1>11, <1>12,
     <1>13, <1>14, <1>15, <1>16, <1>17, <1>18, <1>19, <1>20, <1>21,
     <1>22, <1>23, <1>24, <1>25, <1>26, <1>27, <1>28, <1>29, <1>30,
     <1>31, <1>32, <1>33, <1>34, <1>35, <1>36, <1>37, <1>38, <1>39,
     <1>40, <1>41, <1>42, <1>43, <1>44, <1>45, <1>46, <1>47, <1>48,
     <1>49, <1>50, <1>51, <1>52, <1>53, <1>54, <1>55, <1>56, <1>57,
     <1>58, <1>59, <1>60, <1>61, <1>62, <1>63, <1>64,
     <1>65, <1>66, <1>67
     DEF Next, Command, HandlerStep, Maintenance, Startup

-----------------------------------------------------------------------------
Inductive == Typed /\ Handling /\ Ledger /\ Recordings /\ Microphone

\* The daemon starts in the inductive invariant.
LEMMA InductiveInit == Init => Inductive
<1> SUFFICES ASSUME Init PROVE Inductive
  OBVIOUS
<1>1. Typed
  BY TypedInit DEF Typed
<1>2. Handling
  BY DEF Init, Handling, RunsWhenUp, RowOfHandler, Unborn,
         AttemptIsRemembered, FirstPaste
<1>3. Ledger
  BY DEF Init, Ledger, DeliveredIsRecorded, ErasedStaysErased, RowOrSession
<1>4. Recordings
  BY DEF Init, Recordings, KeeperRows, RecordingIsKept, NothingVanishes
<1>5. Microphone
  BY DEF Init, Microphone, Enders, Resting
<1>6. QED
  BY <1>1, <1>2, <1>3, <1>4, <1>5 DEF Inductive

\* Every reachable state satisfies the inductive invariant.
THEOREM Invariance == Spec => []Inductive
<1>1. Inductive /\ [Next]_vars => Inductive'
  BY TypedStep, HandlingStep, LedgerStep, RecordingsStep, MicrophoneStep
     DEF Inductive
<1>2. QED
  BY InductiveInit, <1>1, PTL DEF Spec

\* Single injection: a dictation whose text was handed to an application never
\* again looks like one that still has to be transcribed or delivered first.
THEOREM AttemptRemembered == Spec => []AttemptIsRemembered
<1>1. Inductive => AttemptIsRemembered
  BY DEF Inductive, Handling
<1>2. QED
  BY Invariance, <1>1, PTL

\* A second paste of the same dictation happens only inside Retry delivery.
THEOREM PastesOnce == Spec => NoBlindRepaste
<1>1. Inductive /\ [Next]_vars
      => [\A j \in pasted : Paste /\ cur = j => cmd = "retry_delivery"]_vars
  BY DEF Inductive, Handling, FirstPaste, Paste, At
<1>2. QED
  BY Invariance, <1>1, PTL DEF Spec, NoBlindRepaste

\* The only audio copy of an unfinished dictation is never removed.
THEOREM RecordingKept == Spec => []RecordingIsKept
<1>1. Inductive => RecordingIsKept
  BY DEF Inductive, Recordings
<1>2. QED
  BY Invariance, <1>1, PTL

\* A recording that made a sound leaves the job table only by being delivered
\* or because the user said so.
THEOREM NoneVanishes == Spec => []NothingVanishes
<1>1. Inductive => NothingVanishes
  BY DEF Inductive, Recordings
<1>2. QED
  BY Invariance, <1>1, PTL

\* A delivered dictation is counted: its row waits for the session, or the
\* session is there, or the user erased it.
THEOREM DeliveryRecorded == Spec => []DeliveredIsRecorded
<1>1. Inductive => DeliveredIsRecorded
  BY DEF Inductive, Ledger
<1>2. QED
  BY Invariance, <1>1, PTL

\* What the user erased is not counted later, by no maintenance pass and after
\* no restart.
THEOREM ErasedForGood == Spec => []ErasedStaysErased
<1>1. Inductive => ErasedStaysErased
  BY DEF Inductive, Ledger
<1>2. QED
  BY Invariance, <1>1, PTL

\* No restart and no maintenance pass counts a dictation twice: it is never both a
\* row of the job table and a session of the totals.
THEOREM NeverBoth == Spec => []RowOrSession
<1>1. Inductive => RowOrSession
  BY DEF Inductive, Ledger
<1>2. QED
  BY Invariance, <1>1, PTL

\* Between commands an open microphone belongs to the active recording, or to
\* a start whose committed recording checkpoint could not be read back: then no
\* recording is active, and that start's row is still at "recording".
THEOREM MicOwned == Spec => []MicIsOwned
<1>1. Inductive => MicIsOwned
  BY DEF Inductive, Microphone, MicIsOwned
<1>2. QED
  BY Invariance, <1>1, PTL
-----------------------------------------------------------------------------
(***************************************************************************)
(* DictationDaemon implements JobContract: every step maps to a step of    *)
(* the contract of one dictation, or to nothing.                           *)
(***************************************************************************)

\* The steps the contract does not see, except for a Retry delivery that ends:
\* no dictation begins, is delivered or closed, and no ledger changes.
LifeKept ==
  /\ born' = born
  /\ \A j \in Jobs : /\ stage'[j] = "none" <=> stage[j] = "none"
                     /\ stage'[j] = "delivered" <=> stage[j] = "delivered"
Quiet ==
  /\ LifeKept
  /\ UNCHANGED <<pasted, sessions, erased>>
  /\ cmd' # "retry_delivery" \/ UNCHANGED <<cmd, cur>>

\* The steps it sees.
Loud ==
  \/ (\E j \in Jobs : StartRecording(j) \/ StartUnread(j))
  \/ (\E j \in Jobs : RetryDelivery(j))
  \/ Paste
  \/ SettleSubmitted
  \/ WrittenUnread
  \/ DropSilent
  \/ CommitDelete
  \/ CompleteDelivered
  \/ RecordFinished
  \/ (\E j \in Jobs : DeleteHistory(j))
  \/ ClearHistory

\* Where no dictation changes its life, the life the contract sees is the same.
LEMMA LifeUnchanged == LifeKept => Life' = Life
  BY DEF LifeKept, Life

\* A quiet step is a step of the contract or none.
LEMMA QuietRefines == Quiet => Contract!Next \/ UNCHANGED Contract!contract
<1>1. SUFFICES ASSUME Quiet PROVE Contract!Next \/ UNCHANGED Contract!contract
  OBVIOUS
<1>2. Life' = Life
  BY <1>1, LifeUnchanged DEF Quiet
<1>3. CASE cmd' # "retry_delivery"
  BY <1>1, <1>2, <1>3 DEF Quiet, Contract!Next, Contract!Relent
<1>4. CASE UNCHANGED <<cmd, cur>>
  BY <1>1, <1>2, <1>4 DEF Quiet, Contract!contract
<1>5. QED
  BY <1>1, <1>3, <1>4 DEF Quiet

\* Every step is one the contract sees or one it does not.
LEMMA QuietOrLoud == Inductive /\ Next => Quiet \/ Loud
<1> USE DEF At, Goto, Call, Return, NoFault, Fault, SetStage, SetStatus,
        SetAudio, flags, rows, disk, volatile, control, keeper, ghosts,
        Quiet, LifeKept
<1>1. SUFFICES ASSUME Inductive, Next PROVE Quiet \/ Loud
  OBVIOUS
<1>2. /\ stage \in [Jobs -> Stages] /\ (pc # "idle" => cur \in Jobs)
      /\ (pc \in {"open_mic", "mark_recording"} => stage[cur] = "starting")
      /\ (pc = "mark_transcribing" => stage[cur] = "captured")
      /\ (pc \in {"store", "mark_failed"} => stage[cur] = "transcribing")
      /\ (pc \in {"settle_ambiguous", "settle_error"}
             => stage[cur] = "ready_to_deliver")
      /\ \A j \in Jobs : stage[j] = "delivered" => status[j] = "submitted"
  BY <1>1 DEF Inductive, Typed, TypeOK, Handling, RowOfHandler, Ledger
<1>3. ASSUME NEW j \in Jobs, RecorderExited(j) PROVE Quiet
  BY <1>1, <1>2, <1>3 DEF RecorderExited, EndRecording
<1>4. ASSUME NEW j \in Jobs, RetryTranscription(j) PROVE Quiet
  BY <1>1, <1>2, <1>4 DEF RetryTranscription
<1>5. ASSUME NEW j \in Jobs, DeleteRecovery(j) PROVE Quiet
  BY <1>1, <1>2, <1>5 DEF DeleteRecovery
<1>6. CASE StopRecording
  BY <1>1, <1>2, <1>6 DEF StopRecording
<1>7. CASE DiscardRecording
  BY <1>1, <1>2, <1>7 DEF DiscardRecording, EndRecording
<1>8. CASE Shutdown
  BY <1>1, <1>2, <1>8 DEF Shutdown, EndRecording
<1>9. CASE QuitIdle
  BY <1>1, <1>2, <1>9 DEF QuitIdle, Stop
<1>10. CASE OpenMic
  BY <1>1, <1>2, <1>10 DEF OpenMic
<1>11. CASE OpenMicFails
  BY <1>1, <1>2, <1>11 DEF OpenMicFails, AbandonStart
<1>12. CASE MarkRecording
  BY <1>1, <1>2, <1>12 DEF MarkRecording
<1>13. CASE MarkRecordingFails
  BY <1>1, <1>2, <1>13 DEF MarkRecordingFails
<1>14. CASE Finish
  BY <1>1, <1>2, <1>14 DEF Finish
<1>15. CASE FinishFails
  BY <1>1, <1>2, <1>15 DEF FinishFails
<1>16. CASE Interrupt
  BY <1>1, <1>2, <1>16 DEF Interrupt, InterruptFrom, Release
<1>17. CASE InterruptRefused
  BY <1>1, <1>2, <1>17 DEF InterruptRefused, InterruptFails
<1>18. CASE PreserveCaptured
  BY <1>1, <1>2, <1>18 DEF PreserveCaptured, InterruptFrom, Release
<1>19. CASE PreserveRefused
  BY <1>1, <1>2, <1>19 DEF PreserveRefused, InterruptFails
<1>20. CASE Capture
  BY <1>1, <1>2, <1>20 DEF Capture
<1>21. CASE CaptureFails
  BY <1>1, <1>2, <1>21 DEF CaptureFails
<1>22. CASE Recover
  BY <1>1, <1>2, <1>22 DEF Recover
<1>23. CASE MarkTranscribing
  BY <1>1, <1>2, <1>23 DEF MarkTranscribing
<1>24. CASE TranscribeText
  BY <1>1, <1>2, <1>24 DEF TranscribeText
<1>25. CASE TranscribeSilence
  BY <1>1, <1>2, <1>25 DEF TranscribeSilence
<1>26. CASE TranscribeFails
  BY <1>1, <1>2, <1>26 DEF TranscribeFails
<1>27. CASE ReplacementsFail
  BY <1>1, <1>2, <1>27 DEF ReplacementsFail
<1>28. CASE Store
  BY <1>1, <1>2, <1>28 DEF Store
<1>29. CASE MarkFailed
  BY <1>1, <1>2, <1>29 DEF MarkFailed
<1>30. CASE Gate
  BY <1>1, <1>2, <1>30 DEF Gate
<1>31. CASE MarkAttempting
  BY <1>1, <1>2, <1>31 DEF MarkAttempting
<1>32. CASE SettleAmbiguous
  BY <1>1, <1>2, <1>32 DEF SettleAmbiguous, Release
<1>33. CASE SettleError
  BY <1>1, <1>2, <1>33 DEF SettleError
<1>34. CASE WriteFails
  BY <1>1, <1>2, <1>34 DEF WriteFails
<1>35. CASE GiveUp
  BY <1>1, <1>2, <1>35 DEF GiveUp, Release
<1>36. CASE Sweep
  BY <1>1, <1>2, <1>36 DEF Sweep
<1>37. CASE Quarantine
  BY <1>1, <1>2, <1>37 DEF Quarantine
<1>38. CASE CommitDeleteFails
  BY <1>1, <1>2, <1>38 DEF CommitDeleteFails
<1>39. CASE DeleteFailed
  BY <1>1, <1>2, <1>39 DEF DeleteFailed, Release
<1>40. CASE Unlink
  BY <1>1, <1>2, <1>40 DEF Unlink, Release
<1>41. CASE Quit
  BY <1>1, <1>2, <1>41 DEF Quit, Stop
<1>42. CASE ListFinished
  BY <1>1, <1>2, <1>42 DEF ListFinished, MaintenanceVars
<1>43. CASE RecordFinishedFails
  BY <1>1, <1>2, <1>43 DEF RecordFinishedFails, MaintenanceVars
<1>44. CASE ScanRecordings
  BY <1>1, <1>2, <1>44 DEF ScanRecordings, MaintenanceVars
<1>45. CASE MatchOwners
  BY <1>1, <1>2, <1>45 DEF MatchOwners, MaintenanceVars
<1>46. CASE EndMaintenance
  BY <1>1, <1>2, <1>46 DEF EndMaintenance, MaintenanceVars
<1>47. ASSUME NEW j \in Jobs, SweepFinished(j) PROVE Quiet
  BY <1>1, <1>2, <1>47 DEF SweepFinished, MaintenanceVars
<1>48. ASSUME NEW j \in Jobs, RemoveOrphan(j) PROVE Quiet
  BY <1>1, <1>2, <1>48 DEF RemoveOrphan, MaintenanceVars
<1>49. CASE Open
  BY <1>1, <1>2, <1>49 DEF Open, BootVars
<1>50. CASE ReconcileAmbiguousDeliveries
  <2>1. \A j \in Jobs : /\ stage'[j] = "none" <=> stage[j] = "none"
                        /\ stage'[j] = "delivered" <=> stage[j] = "delivered"
    BY <1>2, <1>50 DEF ReconcileAmbiguousDeliveries
  <2>2. QED
    BY <2>1, <1>50 DEF ReconcileAmbiguousDeliveries, BootVars
<1>51. CASE ReconcileInterruptedJobs
  <2>1. \A j \in Jobs : /\ stage'[j] = "none" <=> stage[j] = "none"
                        /\ stage'[j] = "delivered" <=> stage[j] = "delivered"
    BY <1>2, <1>51 DEF ReconcileInterruptedJobs
  <2>2. QED
    BY <2>1, <1>51 DEF ReconcileInterruptedJobs, BootVars
<1>52. CASE Serve
  BY <1>1, <1>2, <1>52 DEF Serve, BootVars
<1>53. ASSUME NEW j \in Jobs, ReconcileDeletion(j) PROVE Quiet
  BY <1>1, <1>2, <1>53 DEF ReconcileDeletion, BootVars
<1>54. CASE Crash
  BY <1>1, <1>2, <1>54 DEF Crash, Stop
<1>55. CASE MarkRecordingUnread
  BY <1>1, <1>2, <1>55 DEF MarkRecordingUnread
<1>56. QED
  BY <1>1, <1>3, <1>4, <1>5, <1>6, <1>7, <1>8, <1>9, <1>10, <1>11, <1>12,
     <1>13, <1>14, <1>15, <1>16, <1>17, <1>18, <1>19, <1>20, <1>21,
     <1>22, <1>23, <1>24, <1>25, <1>26, <1>27, <1>28, <1>29, <1>30,
     <1>31, <1>32, <1>33, <1>34, <1>35, <1>36, <1>37, <1>38, <1>39,
     <1>40, <1>41, <1>42, <1>43, <1>44, <1>45, <1>46, <1>47, <1>48,
     <1>49, <1>50, <1>51, <1>52, <1>53, <1>54,
     <1>55
     DEF Next, Command, HandlerStep, Maintenance, Startup, Loud

-----------------------------------------------------------------------------
\* Every step of the daemon is a step of the contract or none.
LEMMA StepRefines ==
  Inductive /\ [Next]_vars => [Contract!Next]_Contract!contract
<1> USE DEF At, Goto, Call, Return, NoFault, SetStage, SetStatus,
        flags, rows, disk, volatile, control, keeper, ghosts
<1>1. SUFFICES ASSUME Inductive, Next
               PROVE  Contract!Next \/ UNCHANGED Contract!contract
  <2>1. UNCHANGED vars => UNCHANGED Contract!contract
    BY DEF vars, Contract!contract, Life
  <2>2. QED
    BY <2>1
<1>2. /\ stage \in [Jobs -> Stages] /\ (pc # "idle" => cur \in Jobs)
      /\ (mpc = "record" => mjob \in Jobs)
      /\ sessions \subseteq Jobs /\ erased \subseteq Jobs
      /\ \A j \in Jobs \ born : stage[j] = "none"
      /\ pc = "idle" => cmd = "none"
  BY <1>1 DEF Inductive, Typed, TypeOK, Handling, Unborn, Microphone
<1>3. CASE Quiet
  BY <1>3, QuietRefines
<1>4. ASSUME NEW j \in Jobs, StartRecording(j) \/ StartUnread(j)
      PROVE  Contract!Next
  <2>1. Life' = [Life EXCEPT ![j] = "open"] /\ Life[j] = "unborn"
    BY <1>2, <1>4 DEF StartRecording, StartUnread, Life
  <2>2. Contract!Begin(j)
    BY <1>2, <1>4, <2>1 DEF StartRecording, StartUnread, Contract!Begin,
                            Contract!Become
  <2>3. QED
    BY <2>2 DEF Contract!Next
<1>5. ASSUME NEW j \in Jobs, RetryDelivery(j) PROVE Contract!Next
  <2>1. Life' = Life /\ Life[j] = "open"
    BY <1>2, <1>5 DEF RetryDelivery, Life
  <2>2. Contract!Insist(j)
    BY <1>5, <2>1 DEF RetryDelivery, Contract!Insist
  <2>3. QED
    BY <2>2 DEF Contract!Next
<1>6. CASE Paste
  <2>1. /\ Life' = Life /\ Life[cur] = "open" /\ cur \in Jobs
        /\ cur \in pasted => cmd = "retry_delivery"
    BY <1>1, <1>2, <1>6 DEF Paste, Life, Inductive, Handling, RowOfHandler,
                            FirstPaste
  <2>2. Contract!Paste(cur)
    BY <1>6, <2>1 DEF Paste, Contract!Paste
  <2>3. QED
    BY <2>1, <2>2 DEF Contract!Next
<1>7. CASE SettleSubmitted
  <2>1. cur \in Jobs /\ stage[cur] = "ready_to_deliver" /\ cur \in pasted
    BY <1>1, <1>2, <1>7 DEF SettleSubmitted, Inductive, Handling, RowOfHandler
  <2>2. Life' = [Life EXCEPT ![cur] = "delivered"] /\ Life[cur] = "open"
    BY <1>2, <1>7, <2>1 DEF SettleSubmitted, Life
  <2>3. Contract!Deliver(cur)
    BY <1>7, <2>1, <2>2 DEF SettleSubmitted, Contract!Deliver, Contract!Become
  <2>4. QED
    BY <2>1, <2>3 DEF Contract!Next
<1>8. CASE DropSilent \/ CommitDelete
  <2>1. /\ cur \in Jobs
        /\ stage[cur] \in {"transcribing", "captured", "ready_to_deliver",
                           "interrupted", "failed"}
    BY <1>1, <1>2, <1>8 DEF DropSilent, CommitDelete, Inductive, Handling,
                            RowOfHandler
  <2>2. Life' = [Life EXCEPT ![cur] = "closed"] /\ Life[cur] = "open"
    BY <1>2, <1>8, <2>1 DEF DropSilent, CommitDelete, DeleteRow, Life
  <2>3. Contract!Drop(cur)
    BY <1>8, <2>1, <2>2 DEF DropSilent, CommitDelete, Contract!Drop,
                            Contract!Become
  <2>4. QED
    BY <2>1, <2>3 DEF Contract!Next
<1>9. ASSUME NEW j \in Jobs, Complete(j), stage[j] = "delivered",
             UNCHANGED <<born, cmd, cur, pasted, erased>>
      PROVE  Contract!Next
  <2>1. j \in barred <=> j \in erased
    BY <1>1, <1>9 DEF Inductive, Ledger
  <2>2. Life' = [Life EXCEPT ![j] = "closed"] /\ Life[j] = "delivered"
    BY <1>2, <1>9 DEF Complete, DeleteRow, Life
  <2>3. Contract!Record(j)
    BY <1>9, <2>1, <2>2 DEF Complete, Contract!Record, Contract!Become
  <2>4. QED
    BY <2>3 DEF Contract!Next
<1>10. ASSUME UNCHANGED <<rows, sessions>>,
              UNCHANGED <<born, cmd, cur, pasted, erased>>
       PROVE  UNCHANGED Contract!contract
  BY <1>10 DEF Contract!contract, Life
<1>11. CASE CompleteDelivered
  <2>1. cur \in Jobs /\ UNCHANGED <<born, cmd, cur, pasted, erased>>
    BY <1>2, <1>11 DEF CompleteDelivered
  <2>2. UNCHANGED <<rows, sessions>> \/ (Complete(cur) /\ stage[cur] = "delivered")
    BY <1>11 DEF CompleteDelivered, Complete
  <2>3. QED
    BY <1>9, <1>10, <2>1, <2>2
<1>12. CASE RecordFinished
  <2>1. mjob \in Jobs /\ UNCHANGED <<born, cmd, cur, pasted, erased>>
    BY <1>2, <1>12 DEF RecordFinished, MaintenanceVars
  <2>2. UNCHANGED <<rows, sessions>> \/ (Complete(mjob) /\ stage[mjob] = "delivered")
    BY <1>12 DEF RecordFinished, Complete
  <2>3. QED
    BY <1>9, <1>10, <2>1, <2>2
<1>13. ASSUME NEW j \in Jobs, DeleteHistory(j) PROVE Contract!Next
  <2>1. Contract!Erase({j})
    BY <1>13 DEF DeleteHistory, Contract!Erase, Life
  <2>2. QED
    BY <2>1 DEF Contract!Next
<1>14. CASE ClearHistory
  <2> DEFINE gone == sessions \cup {j \in Jobs : stage[j] = "delivered"}
  <2>1. /\ erased' = erased \cup gone /\ sessions' = sessions \ gone
        /\ UNCHANGED <<stage, born, cmd, cur, pasted>>
    BY <1>14 DEF ClearHistory
  <2>2. \A j \in gone : Life[j] = "delivered" \/ j \in sessions
    BY <1>2 DEF Life
  <2>3. Life' = Life
    BY <2>1 DEF Life
  <2>4. Contract!Erase(gone)
    BY <2>1, <2>2, <2>3 DEF Contract!Erase
  <2>5. gone \in SUBSET Jobs
    BY <1>2
  <2>6. QED
    BY <2>4, <2>5 DEF Contract!Next
<1>15. CASE WrittenUnread
  <2>1. CASE pc = "settle_submitted"
    <3>1. cur \in Jobs /\ stage[cur] = "ready_to_deliver" /\ cur \in pasted
      BY <1>1, <1>2, <2>1 DEF Inductive, Handling, RowOfHandler
    <3>2. stage' = [stage EXCEPT ![cur] = "delivered"]
          /\ UNCHANGED <<born, cmd, cur, pasted, sessions, erased>>
      BY <1>15, <2>1 DEF WrittenUnread
    <3>3. Life' = [Life EXCEPT ![cur] = "delivered"] /\ Life[cur] = "open"
      BY <1>2, <3>1, <3>2 DEF Life
    <3>4. Contract!Deliver(cur)
      BY <3>1, <3>2, <3>3 DEF Contract!Deliver, Contract!Become
    <3>5. QED
      BY <3>1, <3>4 DEF Contract!Next
  <2>2. CASE pc # "settle_submitted"
    <3>1. /\ cur \in Jobs /\ UNCHANGED <<born, cmd, cur, pasted, sessions, erased>>
          /\ stage[cur] \notin {"none", "delivered"}
      BY <1>1, <1>2, <1>15, <2>2 DEF WrittenUnread, Inductive, Handling,
                                     RowOfHandler
    <3>2. \E to \in {"transcribing", "ready_to_deliver", "failed"} :
            stage' = [stage EXCEPT ![cur] = to]
      BY <1>15, <2>2 DEF WrittenUnread
    <3>3. LifeKept
      BY <1>2, <3>1, <3>2 DEF LifeKept
    <3>4. Quiet
      BY <3>1, <3>3 DEF Quiet
    <3>5. QED
      BY <3>4, QuietRefines
  <2>3. QED
    BY <2>1, <2>2
<1>16. QED
  BY <1>1, <1>3, <1>4, <1>5, <1>6, <1>7, <1>8, <1>11, <1>12, <1>13, <1>14,
     <1>15, QuietOrLoud DEF Loud

\* Whatever fails and whenever the process dies, the daemon keeps its contract
\* for each dictation: forward only, no second paste unasked, delivered only
\* after a paste, recorded once and never after being erased.
THEOREM Refinement == Spec => ImplementsContract
<1>1. Init => Contract!Init
  BY DEF Init, Contract!Init, Life
<1>2. QED
  BY Invariance, StepRefines, <1>1, PTL
     DEF Spec, ImplementsContract, Contract!Spec
=============================================================================
