-------------------------- MODULE MaintenancePriority --------------------------
(***************************************************************************)
(* HistoryIndexMaintenance (maintenance_priority.rs): a start of recording *)
(* outranks the rebuild of the History search index.  Two threads: the     *)
(* daemon's handler, which raises the priority, and the maintenance        *)
(* thread, which rebuilds in attempts.  They share one mutex and one       *)
(* condition variable, and the handler interrupts the SQLite connection of *)
(* the other thread without holding the mutex, through a closure it cloned *)
(* while it did.  A critical section is one step; the statements of a      *)
(* rebuild, the two halves of the closure and the reads around them are    *)
(* steps of their own.                                                     *)
(***************************************************************************)
EXTENDS Naturals, TLAPS

CONSTANT MaxStarts   \* bound: StartRecording commands

ASSUME MaxStartsAssumption == MaxStarts \in Nat

VARIABLES
  priorities,   \* MaintenanceState::recording_priorities
  interrupt,    \* maintenance_interrupt: the attempt it belongs to; 0 is None
  guard,        \* AgentProcess::recording_priority is Some
  recording,    \* the workflow is starting or recording
  hpc,          \* step of the handler
  seized,       \* the closure prioritize_recording cloned; 0 is None
  kpc,          \* step of the maintenance thread
  attempt,      \* number of its attempt
  cancelled,    \* attempts whose cancelled flag is set
  hit,          \* the statement it runs was interrupted
  locked,       \* its transaction holds SQLite's write lock
  ready,        \* history_search_state.ready
  result,       \* of the last attempt
  starts        \* StartRecording commands so far, to bound them

shared  == <<priorities, interrupt>>
handler == <<guard, recording, hpc, seized, starts>>
keeper  == <<kpc, attempt, locked, ready, result>>
vars    == <<shared, handler, keeper, cancelled, hit>>

Raising  == {"flag", "interrupt", "wait", "asleep"}
Statements == {"check", "insert", "rebuild", "commit"}
Working  == Statements \cup {"judge", "release"}

\* The range of the shared state: the count of priorities is a usize, so a guard
\* dropped twice would not leave it in Nat.
TypeOK ==
  /\ priorities \in Nat /\ interrupt \in Nat
  /\ guard \in BOOLEAN /\ recording \in BOOLEAN
  /\ hpc \in {"idle", "start"} \cup Raising /\ seized \in Nat
  /\ kpc \in {"begin", "asleep", "done"} \cup Working /\ attempt \in Nat
  /\ cancelled \subseteq Nat /\ hit \in BOOLEAN
  /\ locked \in BOOLEAN /\ ready \in BOOLEAN
  /\ result \in {"none", "ok", "interrupted", "failed", "retry"}
  /\ starts \in 0..MaxStarts

Init ==
  /\ priorities = 0 /\ interrupt = 0
  /\ guard = FALSE /\ recording = FALSE
  /\ hpc = "idle" /\ seized = 0 /\ starts = 0
  /\ kpc = "begin" /\ attempt = 1 /\ locked = FALSE /\ ready = FALSE
  /\ result = "none" /\ cancelled = {} /\ hit = FALSE

\* notify_all, told apart by who can be asleep.
WakeKeeper == kpc' = IF kpc = "asleep" THEN "begin" ELSE kpc
WakeHandler == hpc' = IF hpc = "asleep" THEN "wait" ELSE hpc

-----------------------------------------------------------------------------
(* The handler of a command, with begin_recording_priority before and      *)
(* synchronize_recording_priority after what the command does.             *)

StartRecording ==
  /\ hpc = "idle" /\ starts < MaxStarts /\ starts' = starts + 1
  /\ \/ guard /\ hpc' = "start" /\ UNCHANGED <<priorities, seized>>
     \/ /\ ~guard
        /\ priorities' = priorities + 1 /\ seized' = interrupt
        /\ hpc' = IF interrupt # 0 THEN "flag" ELSE "wait"
  /\ UNCHANGED <<interrupt, guard, recording, keeper, cancelled, hit>>

\* Mutant: the closure only interrupts the connection.
ForgetFlag ==
  /\ hpc = "flag" /\ hpc' = "interrupt"
  /\ UNCHANGED <<shared, guard, recording, seized, starts, keeper, cancelled,
                 hit>>

\* The closure: first the flag of its own attempt, then the connection's
\* running statement, whichever attempt that is in.
SetCancelled ==
  /\ hpc = "flag" /\ hpc' = "interrupt"
  /\ cancelled' = cancelled \cup {seized}
  /\ UNCHANGED <<shared, guard, recording, seized, starts, keeper, hit>>

\* sqlite3_interrupt stops the statement that runs, if one does just then.
InterruptStatement ==
  /\ hpc = "interrupt" /\ hpc' = "wait"
  /\ \/ kpc \in Statements /\ hit' = TRUE
     \/ UNCHANGED hit
  /\ UNCHANGED <<shared, guard, recording, seized, starts, keeper, cancelled>>

\* Mutant: it does not wait for the transaction to be released.
TakeAtOnce ==
  /\ hpc = "wait" /\ hpc' = "start" /\ guard' = TRUE
  /\ UNCHANGED <<shared, recording, seized, starts, keeper, cancelled, hit>>

AwaitRelease ==
  /\ hpc = "wait"
  /\ \/ interrupt = 0 /\ hpc' = "start" /\ guard' = TRUE
     \/ interrupt # 0 /\ hpc' = "asleep" /\ UNCHANGED guard
  /\ UNCHANGED <<shared, recording, seized, starts, keeper, cancelled, hit>>

\* saturating_sub
LessOne(count) == IF count = 0 THEN 0 ELSE count - 1

\* Mutant: the process keeps its guard.
LowerAgain ==
  /\ UNCHANGED guard /\ priorities' = LessOne(priorities)
  /\ WakeKeeper

\* Mutant: the guard goes without notify_all.
LowerSilently ==
  /\ guard' = FALSE /\ priorities' = LessOne(priorities)
  /\ UNCHANGED kpc

\* Drop for RecordingPriorityGuard.
LowerPriority ==
  /\ guard' = FALSE /\ priorities' = LessOne(priorities)
  /\ WakeKeeper

Synchronize(isRecording) ==
  IF guard /\ ~isRecording
    THEN LowerPriority
    ELSE UNCHANGED <<guard, priorities, kpc>>

\* The start succeeds or fails; a start while recording is rejected.
FinishStart ==
  /\ hpc = "start" /\ hpc' = "idle"
  /\ recording' = TRUE \/ UNCHANGED recording
  /\ Synchronize(recording')
  /\ UNCHANGED <<interrupt, seized, starts, attempt, locked, ready, result,
                 cancelled, hit>>

\* Any other command: Stop, Cancel, Quit or a recorder exit end a recording.
OtherCommand ==
  /\ hpc = "idle" /\ recording
  /\ recording' = FALSE
  /\ Synchronize(recording')
  /\ UNCHANGED <<interrupt, hpc, seized, starts, attempt, locked, ready,
                 result, cancelled, hit>>

-----------------------------------------------------------------------------
(* The maintenance thread: prepare_history_search and ensure_index.        *)

BeginMaintenance ==
  /\ kpc = "begin"
  /\ \/ /\ priorities = 0 /\ interrupt = 0
        /\ interrupt' = attempt /\ kpc' = "check"
     \/ (priorities # 0 \/ interrupt # 0) /\ kpc' = "asleep"
        /\ UNCHANGED interrupt
  /\ UNCHANGED <<priorities, handler, attempt, locked, ready, result,
                 cancelled, hit>>

\* A statement may end early once it was interrupted or the progress handler sees the
\* flag of its attempt; the transaction is rolled back before the permit goes.
Abort ==
  /\ kpc \in Statements
  /\ hit \/ attempt \in cancelled
  /\ kpc' = "judge" /\ result' = "interrupted" /\ locked' = FALSE
  /\ hit' = FALSE
  /\ UNCHANGED <<shared, handler, attempt, ready, cancelled>>

\* A statement that is nearly done ends in spite of an interrupt, which is then
\* forgotten: the next statement is not interrupted by it.
CheckReady ==
  /\ kpc = "check" /\ hit' = FALSE
  /\ \/ ready /\ kpc' = "judge" /\ result' = "ok"
     \/ ~ready /\ kpc' = "insert" /\ UNCHANGED result
  /\ UNCHANGED <<shared, handler, attempt, locked, ready, cancelled>>

\* The transaction is deferred: its first statement takes the write lock.
TakeLock ==
  /\ kpc = "insert" /\ kpc' = "rebuild" /\ locked' = TRUE
  /\ UNCHANGED <<shared, handler, attempt, ready, result, cancelled, hit>>

\* The statements that rebuild and verify, up to the last.
Rebuild ==
  /\ kpc = "rebuild" /\ kpc' \in {"rebuild", "commit"} /\ hit' = FALSE
  /\ UNCHANGED <<shared, handler, attempt, locked, ready, result, cancelled>>

Commit ==
  /\ kpc = "commit" /\ hit' = FALSE
  /\ ready' = TRUE /\ locked' = FALSE /\ result' = "ok" /\ kpc' = "judge"
  /\ UNCHANGED <<shared, handler, attempt, cancelled>>

\* A database error of another kind.
RebuildFails ==
  /\ kpc \in Statements /\ hit' = FALSE
  /\ kpc' = "judge" /\ result' = "failed" /\ locked' = FALSE
  /\ UNCHANGED <<shared, handler, attempt, ready, cancelled>>

\* was_cancelled is read while the permit is still held.
Judge ==
  /\ kpc = "judge"
  /\ kpc' = "release"
  /\ result' = IF result = "interrupted" /\ attempt \in cancelled
                 THEN "retry" ELSE result
  /\ UNCHANGED <<shared, handler, attempt, locked, ready, cancelled, hit>>

\* Mutant: the permit goes without notify_all.
ReleaseSilently ==
  /\ kpc = "release" /\ interrupt' = 0
  /\ \/ result = "retry" /\ kpc' = "begin" /\ attempt' = attempt + 1
     \/ result # "retry" /\ kpc' = "done" /\ UNCHANGED attempt
  /\ UNCHANGED <<priorities, handler, locked, ready, result, cancelled, hit>>

\* Drop for MaintenancePermit, then the next attempt or the return.
ReleasePermit ==
  /\ kpc = "release" /\ interrupt' = 0
  /\ WakeHandler
  /\ \/ result = "retry" /\ kpc' = "begin" /\ attempt' = attempt + 1
     \/ result # "retry" /\ kpc' = "done" /\ UNCHANGED attempt
  /\ UNCHANGED <<priorities, guard, recording, seized, starts, locked, ready,
                 result, cancelled, hit>>

\* A condition variable may wake without a notification.
SpuriousWakeup ==
  /\ \/ hpc = "asleep" /\ WakeHandler /\ UNCHANGED kpc
     \/ kpc = "asleep" /\ WakeKeeper /\ UNCHANGED hpc
  /\ UNCHANGED <<shared, guard, recording, seized, starts, attempt, locked,
                 ready, result, cancelled, hit>>

-----------------------------------------------------------------------------
HandlerStep ==
  SetCancelled \/ InterruptStatement \/ AwaitRelease \/ FinishStart

KeeperStep ==
  \/ BeginMaintenance \/ Abort \/ CheckReady \/ TakeLock \/ Rebuild \/ Commit
  \/ RebuildFails \/ Judge \/ ReleasePermit

Next ==
  \/ StartRecording \/ HandlerStep \/ OtherCommand
  \/ KeeperStep \/ SpuriousWakeup

Spec == Init /\ [][Next]_vars

\* Both threads are scheduled: a handler that began runs on (it waits only on
\* the condition variable), and a statement of the rebuild ends.
FairSpec == Spec /\ WF_vars(HandlerStep) /\ WF_vars(KeeperStep)

-----------------------------------------------------------------------------
\* A start "does not return until the rebuild transaction has released its
\* write lock", and none begins while the recording has priority.
NoRebuildWhileRecording == guard => ~locked

\* The priority is not leaked and not dropped early: it is raised exactly
\* while a guard is held or being obtained.
PriorityIsBalanced ==
  priorities = IF guard \/ hpc \in Raising THEN 1 ELSE 0

\* An interrupted rebuild is one the closure announced: it is retried, and
\* never ends the preparation as an error.
InterruptionIsRetried == kpc = "done" => result # "interrupted"

\* No lost wakeup: a start of recording always gets through.
StartIsServed == (hpc # "idle") ~> (hpc = "idle")

\* The rebuild is only deferred: once recordings stop coming it ends, with the
\* index ready unless SQLite failed.
IndexIsPrepared ==
  <>[](hpc = "idle" /\ ~recording)
    => <>(kpc = "done" /\ (ready \/ result = "failed"))

-----------------------------------------------------------------------------
(* The lock discipline, for any number of starts: the safety properties    *)
(* are proved.                                                             *)

\* The permit is out exactly while the maintenance thread works, its write
\* lock is held only in a statement, and a guard means that no permit is out.
Discipline ==
  /\ kpc \in {"begin", "asleep", "done"} \cup Working
  /\ attempt \in Nat \ {0}
  /\ interrupt = IF kpc \in Working THEN attempt ELSE 0
  /\ locked => kpc \in {"rebuild", "commit"}
  /\ guard => interrupt = 0
  /\ hpc = "start" => guard
  /\ hpc \in Raising => ~guard
  /\ PriorityIsBalanced

\* Nothing holds a permit, a guard or a lock at the start.
LEMMA DisciplineInit == Init => Discipline
  BY DEF Init, Discipline, PriorityIsBalanced, Raising, Working, Statements

\* Every step keeps the permits and the locks in order.
LEMMA DisciplineStep == Discipline /\ [Next]_vars => Discipline'
<1> USE DEF Discipline, PriorityIsBalanced, Raising, Working, Statements,
        shared, handler, keeper, LessOne
<1>1. SUFFICES ASSUME Discipline, Next PROVE Discipline'
  BY DEF vars
<1>2. CASE StartRecording
  BY <1>1, <1>2 DEF StartRecording
<1>3. CASE SetCancelled
  BY <1>1, <1>3 DEF SetCancelled
<1>4. CASE InterruptStatement
  BY <1>1, <1>4 DEF InterruptStatement
<1>5. CASE AwaitRelease
  BY <1>1, <1>5 DEF AwaitRelease
<1>6. CASE FinishStart
  <2>1. (guard /\ LowerPriority) \/ UNCHANGED <<guard, priorities, kpc>>
    BY <1>6 DEF FinishStart, Synchronize
  <2>2. hpc' = "idle" /\ UNCHANGED <<interrupt, attempt, locked>>
    BY <1>6 DEF FinishStart
  <2>3. CASE guard /\ LowerPriority
    BY <1>1, <2>2, <2>3 DEF LowerPriority, WakeKeeper
  <2>4. CASE UNCHANGED <<guard, priorities, kpc>>
    BY <1>1, <1>6, <2>2, <2>4 DEF FinishStart
  <2>5. QED
    BY <2>1, <2>3, <2>4
<1>7. CASE OtherCommand
  <2>1. (guard /\ LowerPriority) \/ UNCHANGED <<guard, priorities, kpc>>
    BY <1>7 DEF OtherCommand, Synchronize
  <2>2. hpc' = "idle" /\ UNCHANGED <<interrupt, attempt, locked>>
    BY <1>7 DEF OtherCommand
  <2>3. CASE guard /\ LowerPriority
    BY <1>1, <2>2, <2>3 DEF LowerPriority, WakeKeeper
  <2>4. CASE UNCHANGED <<guard, priorities, kpc>>
    BY <1>1, <1>7, <2>2, <2>4 DEF OtherCommand
  <2>5. QED
    BY <2>1, <2>3, <2>4
<1>8. CASE BeginMaintenance
  BY <1>1, <1>8 DEF BeginMaintenance
<1>9. CASE Abort
  BY <1>1, <1>9 DEF Abort
<1>10. CASE CheckReady
  BY <1>1, <1>10 DEF CheckReady
<1>11. CASE Rebuild
  BY <1>1, <1>11 DEF Rebuild
<1>12. CASE Commit
  BY <1>1, <1>12 DEF Commit
<1>13. CASE RebuildFails
  BY <1>1, <1>13 DEF RebuildFails
<1>14. CASE Judge
  BY <1>1, <1>14 DEF Judge
<1>15. CASE ReleasePermit
  BY <1>1, <1>15 DEF ReleasePermit, WakeHandler
<1>16. CASE SpuriousWakeup
  BY <1>1, <1>16 DEF SpuriousWakeup, WakeHandler, WakeKeeper
<1>17. CASE TakeLock
  BY <1>1, <1>17 DEF TakeLock
<1>18. QED
  BY <1>1, <1>2, <1>3, <1>4, <1>5, <1>6, <1>7, <1>8, <1>9, <1>10, <1>11,
     <1>12, <1>13, <1>14, <1>15, <1>16, <1>17 DEF Next, HandlerStep, KeeperStep

\* An interrupt hits the attempt it was announced to: while the closure runs no other
\* attempt can have begun, and its flag is set first. The flag of an attempt stays
\* set, and an attempt that ended interrupted is judged before it is anything else.
Announced ==
  /\ hpc \in {"flag", "interrupt"} /\ kpc \in Working => attempt = seized
  /\ hpc = "interrupt" => seized \in cancelled
  /\ hit => kpc \in Statements /\ attempt \in cancelled
  /\ result = "interrupted" => kpc = "judge" /\ attempt \in cancelled

\* No interrupt is announced at the start.
LEMMA AnnouncedInit == Init => Announced
  BY DEF Init, Announced, Working, Statements

\* Every step keeps an interrupt with the attempt it was announced to.
LEMMA AnnouncedStep == Discipline /\ Announced /\ [Next]_vars => Announced'
<1> USE DEF Announced, Working, Statements, shared, handler, keeper
<1>1. SUFFICES ASSUME Discipline, Announced, Next PROVE Announced'
  BY DEF vars
<1>2. CASE StartRecording
  BY <1>1, <1>2 DEF StartRecording, Discipline
<1>3. CASE SetCancelled
  BY <1>1, <1>3 DEF SetCancelled
<1>4. CASE InterruptStatement
  BY <1>1, <1>4 DEF InterruptStatement
<1>5. CASE AwaitRelease
  BY <1>1, <1>5 DEF AwaitRelease
<1>6. CASE FinishStart \/ OtherCommand
  <2>1. kpc' = kpc \/ (kpc = "asleep" /\ kpc' = "begin")
    BY <1>6 DEF FinishStart, OtherCommand, Synchronize, LowerPriority, WakeKeeper
  <2>2. hpc' = "idle" /\ UNCHANGED <<attempt, seized, cancelled, hit, result>>
    BY <1>6 DEF FinishStart, OtherCommand
  <2>3. QED
    BY <1>1, <2>1, <2>2
<1>7. CASE BeginMaintenance
  \* Nothing begins while the closure runs: the priority is raised meanwhile.
  <2>1. hpc \in {"flag", "interrupt"} => priorities = 1
    BY <1>1 DEF Discipline, PriorityIsBalanced, Raising
  <2>2. QED
    BY <1>1, <1>7, <2>1 DEF BeginMaintenance
<1>8. CASE Abort
  BY <1>1, <1>8 DEF Abort
<1>9. CASE CheckReady \/ TakeLock \/ Rebuild \/ Commit \/ RebuildFails
  BY <1>1, <1>9 DEF CheckReady, TakeLock, Rebuild, Commit, RebuildFails
<1>10. CASE Judge
  BY <1>1, <1>10 DEF Judge
<1>11. CASE ReleasePermit
  BY <1>1, <1>11 DEF ReleasePermit, WakeHandler
<1>12. CASE SpuriousWakeup
  BY <1>1, <1>12 DEF SpuriousWakeup, WakeHandler, WakeKeeper
<1>13. QED
  BY <1>1, <1>2, <1>3, <1>4, <1>5, <1>6, <1>7, <1>8, <1>9, <1>10, <1>11, <1>12
     DEF Next, HandlerStep, KeeperStep

\* No index rebuild holds SQLite's write lock while a recording has priority.
THEOREM RecordingIsUndisturbed == Spec => []NoRebuildWhileRecording
<1>1. Discipline => NoRebuildWhileRecording
  BY DEF Discipline, NoRebuildWhileRecording, Working, Statements
<1>2. QED
  BY DisciplineInit, DisciplineStep, <1>1, PTL DEF Spec

\* The priority count is one while a recording has or asks for it, else zero.
THEOREM PriorityBalances == Spec => []PriorityIsBalanced
<1>1. Discipline => PriorityIsBalanced
  BY DEF Discipline
<1>2. QED
  BY DisciplineInit, DisciplineStep, <1>1, PTL DEF Spec

\* The rebuild ends with an interruption error only if a start of recording announced
\* it, and is then retried: no interrupt hits the wrong attempt, however late it comes.
THEOREM RetriedWhenInterrupted == Spec => []InterruptionIsRetried
<1>1. Announced => InterruptionIsRetried
  BY DEF Announced, InterruptionIsRetried
<1>2. QED
  BY DisciplineInit, DisciplineStep, AnnouncedInit, AnnouncedStep, <1>1, PTL DEF Spec
=============================================================================
