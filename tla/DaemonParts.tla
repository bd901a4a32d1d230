----------------------------- MODULE DaemonParts -----------------------------
(***************************************************************************)
(* The parts of the daemon, each with its variables in the slots s1, s2,   *)
(* ..., and what they keep for any values of their constants: each has an  *)
(* inductive invariant, which its module defines after its properties, and *)
(* which the lemmas here show to hold at the start and after every step.   *)
(* (UsageLedger's are in its own module.) MCServices runs one of them at a *)
(* time and draws the theorems.                                            *)
(***************************************************************************)
EXTENDS Naturals, Integers, TLAPS

CONSTANTS MaxProcesses, MaxClients, PipeDaemons, PipeUsers, MaxRefused,
          MaxCommands, MaxTroubles, Receipts, MaxWrites, MaxStarts, MaxErrors,
          Dictations, MaxCrashes, MaxNew, MaxDictations, MaxDay, WeekLength,
          Window, Short, MaxPrices, MaxJobs, MaxAudio, MaxTokens, Lanes,
          MaxCalls

VARIABLES s1, s2, s3, s4, s5, s6, s7, s8, s9, s10, s11

\* Daemons are numbered.
ASSUME ProcessesAssumption == MaxProcesses \in Nat

\* Recordings are numbered, and their audio is counted in units.
ASSUME RecordingsAssumption == MaxJobs \in Nat /\ MaxAudio \in Nat

\* What the store writes where no job is, is no job.
ASSUME DictationsAssumption == "no job" \notin Dictations

\* Cleaned up by a paid model, and plain by subscription.
DictationKinds ==
  {[cleaned |-> TRUE, free |-> FALSE], [cleaned |-> FALSE, free |-> TRUE]}

Endpoint == INSTANCE DaemonEndpoint WITH
  proc <- s1, service <- s2, lock <- s3, socket <- s4, backlog <- s5,
  quit <- s6, boot <- s7, clients <- s8, failed <- s9
Pipe == INSTANCE WindowsEndpoint WITH
  MaxProcesses <- PipeDaemons, Clients <- PipeUsers, MaxTroubles <- MaxRefused,
  proc <- s1, lock <- s2, pending <- s3, handler <- s4, quit <- s5,
  client <- s6, boot <- s7, left <- s8, troubles <- s9
Settings == INSTANCE SettingsUpdate WITH
  file <- s1, memory <- s2, listener <- s3, wanted <- s4, statuses <- s5,
  readiness <- s6, command <- s7, undone <- s8, committed <- s9, sent <- s10,
  troubles <- s11
Import == INSTANCE ExternalImport WITH
  file <- s1, folders <- s2, importer <- s3, ledger <- s4, sessions <- s5,
  inserted <- s6, missed <- s7, starts <- s8, errors <- s9
Store == INSTANCE JobStore WITH
  Jobs <- Dictations, columns <- s1, rows <- s2, opening <- s3, live <- s4,
  counted <- s5, sent <- s6, before <- s7, crashes <- s8, made <- s9
Usage == INSTANCE UsageLedger WITH
  Kinds <- DictationKinds, MaxJobs <- MaxDictations, MaxTroubles <- MaxRefused,
  today <- s1, jobs <- s2, sessions <- s3, daily <- s4, settings <- s5,
  handler <- s6, keeper <- s7, usage <- s8, troubles <- s9, overtaken <- s10,
  disturbed <- s11
Live == INSTANCE LiveTranscription WITH
  updates <- s1, capture <- s2, wav <- s3, live <- s4, stream <- s5,
  request <- s6, answer <- s7
Auth == INSTANCE SubscriptionAuth WITH
  current <- s1, worn <- s2, job <- s3, open <- s4, floor <- s5,
  prepared <- s6, request <- s7, sent <- s8
Bearer == INSTANCE CopilotCredentials WITH
  codex <- s1, worn <- s2, cached <- s3, holder <- s4, lane <- s5, loads <- s6,
  calls <- s7

-----------------------------------------------------------------------------
(* The endpoint on Linux: whoever has passed the lock has it.              *)

\* No daemon has the lock, and nobody waits at a socket, at the start;
LEMMA EndpointInit == Endpoint!Init => Endpoint!Owned
  BY ProcessesAssumption
     DEF Endpoint!Init, Endpoint!Owned, Endpoint!ServerIsReachable, Endpoint!QuitIsNoticed,
       Endpoint!Locked

\* a daemon keeps the invariant with each step from the lock to its end,
LEMMA ServerKeeps ==
  ASSUME Endpoint!Owned, NEW p \in Endpoint!Processes,
         \/ Endpoint!TakeLock(p) \/ Endpoint!AlreadyRunning(p) \/ Endpoint!Probe(p) \/
            Endpoint!RemoveStale(p) \/ Endpoint!BindSocket(p)
         \/ Endpoint!OpenProcess(p) \/ Endpoint!LookAtQuit(p) \/ Endpoint!Accept(p) \/
            Endpoint!QuitCommand(p) \/ Endpoint!Unlink(p)
         \/ Endpoint!Exit(p) \/ Endpoint!Crash(p)
  PROVE  Endpoint!Owned'
<1>0. Endpoint!Processes = 1..MaxProcesses /\ MaxProcesses \in Nat
  BY ProcessesAssumption DEF Endpoint!Processes
<1> USE <1>0 DEF Endpoint!Owned, Endpoint!ServerIsReachable, Endpoint!QuitIsNoticed,
  Endpoint!Locked, Endpoint!Goes
<1>1. CASE Endpoint!TakeLock(p)
  BY <1>1 DEF Endpoint!TakeLock
<1>2. CASE Endpoint!AlreadyRunning(p)
  BY <1>2 DEF Endpoint!AlreadyRunning, Endpoint!Listening
<1>3. CASE Endpoint!Probe(p)
  BY <1>3 DEF Endpoint!Probe
<1>4. CASE Endpoint!RemoveStale(p)
  BY <1>4 DEF Endpoint!RemoveStale
<1>5. CASE Endpoint!BindSocket(p)
  BY <1>5 DEF Endpoint!BindSocket
<1>6. CASE Endpoint!OpenProcess(p)
  BY <1>6 DEF Endpoint!OpenProcess
<1>7. CASE Endpoint!LookAtQuit(p)
  BY <1>7 DEF Endpoint!LookAtQuit
<1>8. CASE Endpoint!Accept(p)
  BY <1>8 DEF Endpoint!Accept
<1>9. CASE Endpoint!QuitCommand(p)
  BY <1>9 DEF Endpoint!QuitCommand, Endpoint!QuitHandled, Endpoint!Serving, Endpoint!Listening
<1>10. CASE Endpoint!Unlink(p)
  BY <1>10 DEF Endpoint!Unlink
<1>11. CASE Endpoint!Exit(p)
  BY <1>11 DEF Endpoint!Exit
<1>12. CASE Endpoint!Crash(p)
  BY <1>12 DEF Endpoint!Crash
<1>13. QED
  BY <1>1, <1>2, <1>3, <1>4, <1>5, <1>6, <1>7, <1>8, <1>9, <1>10, <1>11, <1>12

\* and so do whoever starts, stops and calls it.
LEMMA AroundKeeps ==
  ASSUME Endpoint!Owned,
         \/ Endpoint!StartByHand \/ Endpoint!ServiceRestarts \/ Endpoint!Connect \/
            Endpoint!Inspect \/ Endpoint!LeaveIt \/ Endpoint!StopIt \/ Endpoint!Stopped
         \/ Endpoint!StartService \/ Endpoint!Waited \/ Endpoint!BootstrapFails \/
            UNCHANGED Endpoint!vars
  PROVE  Endpoint!Owned'
<1>0. Endpoint!Processes = 1..MaxProcesses /\ MaxProcesses \in Nat
  BY ProcessesAssumption DEF Endpoint!Processes
<1> USE <1>0 DEF Endpoint!Owned, Endpoint!ServerIsReachable, Endpoint!QuitIsNoticed,
  Endpoint!Locked
<1>1. ASSUME NEW isService, Endpoint!Started(isService), UNCHANGED <<s3, s4, s5,
             s6>> PROVE Endpoint!Owned'
  BY <1>1 DEF Endpoint!Started, Endpoint!Goes
<1>2. CASE Endpoint!StartByHand \/ Endpoint!ServiceRestarts
  BY <1>1, <1>2 DEF Endpoint!StartByHand, Endpoint!ServiceRestarts
<1>3. CASE Endpoint!Connect
  BY <1>3 DEF Endpoint!Connect, Endpoint!Listening
<1>4. CASE Endpoint!StopIt
  <2>1. PICK b : Endpoint!QuitHandled(b) /\ UNCHANGED <<s1, s3, s4>>
    BY <1>4 DEF Endpoint!StopIt, Endpoint!Bootstraps
  <2>2. s6' = [s6 EXCEPT ![b] = TRUE]
    BY <2>1 DEF Endpoint!QuitHandled
  <2>3. s6' \in [Endpoint!Processes -> BOOLEAN]
        /\ \A p \in Endpoint!Processes : s6'[p] => s6[p] \/ p = b
    BY <2>2
  <2>4. CASE Endpoint!Listening(s4)
    <3>1. s4 \in Endpoint!Processes
      BY <2>4 DEF Endpoint!Listening
    <3>2. s5' = [s5 EXCEPT ![s4] = @ + 1]
      BY <2>1, <2>4 DEF Endpoint!QuitHandled
    <3>3. /\ s5' \in [Endpoint!Processes -> Nat] /\ s5'[s4] > 0
          /\ \A p \in Endpoint!Processes : s5[p] > 0 => s5'[p] > 0
      BY <3>1, <3>2
    <3>4. QED
      BY <2>1, <2>3, <3>3
  <2>5. CASE ~Endpoint!Listening(s4)
    <3>1. UNCHANGED s5
      BY <2>1, <2>5 DEF Endpoint!QuitHandled
    <3>2. \A p \in Endpoint!Processes : s1[p] # "accepting"
      BY <2>5 DEF Endpoint!Listening
    <3>3. QED
      BY <2>1, <2>3, <3>1, <3>2
  <2>6. QED
    BY <2>4, <2>5
<1>5. CASE Endpoint!StartService
  BY <1>1, <1>5 DEF Endpoint!StartService, Endpoint!Bootstraps
<1>6. CASE Endpoint!Inspect \/ Endpoint!LeaveIt \/ Endpoint!Stopped \/ Endpoint!Waited \/
           Endpoint!BootstrapFails \/ UNCHANGED Endpoint!vars
  BY <1>6 DEF Endpoint!Inspect, Endpoint!LeaveIt, Endpoint!Stopped, Endpoint!Waited,
              Endpoint!BootstrapFails, Endpoint!Bootstraps, Endpoint!vars
<1>7. QED
  BY <1>2, <1>3, <1>4, <1>5, <1>6

\* Hence every step does.
LEMMA EndpointStep ==
  Endpoint!Owned /\ (Endpoint!Next \/ UNCHANGED Endpoint!vars) => Endpoint!Owned'
  BY ServerKeeps, AroundKeeps DEF Endpoint!Next

-----------------------------------------------------------------------------
(* The endpoint on Windows: one pipe, of who has the lock.                 *)

\* The invariant holds before anybody has started,
LEMMA PipeInit == Pipe!Init => Pipe!InPlace
<1> SUFFICES ASSUME Pipe!Init PROVE Pipe!InPlace
  OBVIOUS
<1>1. Pipe!Typed
  BY DEF Pipe!Init, Pipe!Typed, Pipe!Away
<1>2. Pipe!PipeIsLocked /\ Pipe!OneInTheQueue /\ Pipe!LoopIsWoken
  BY DEF Pipe!Init, Pipe!PipeIsLocked, Pipe!OneInTheQueue, Pipe!LoopIsWoken, Pipe!Away, Pipe!Bound
<1>3. QED
  BY <1>1, <1>2 DEF Pipe!InPlace

\* and every step of a daemon keeps it.
LEMMA DaemonKeeps ==
  ASSUME Pipe!InPlace, NEW p \in Pipe!Processes,
         \/ Pipe!Start(p) \/ Pipe!TakeLock(p) \/ Pipe!AlreadyRunning(p) \/ Pipe!BindPipe(p) \/
            Pipe!PipeRefused(p)
         \/ Pipe!OpenProcess(p) \/ Pipe!LookAtQuit(p) \/ Pipe!ConnectNamedPipe(p) \/
            Pipe!Accept(p) \/ Pipe!Exit(p)
         \/ Pipe!Answered(p) \/ Pipe!Wake(p)
  PROVE  Pipe!InPlace'
<1> USE DEF Pipe!InPlace
<1>0. \A q \in Pipe!Processes : q # 0
  BY DEF Pipe!Processes
<1>1. CASE Pipe!Start(p)
  <2>1. Pipe!Typed'
    BY <1>1 DEF Pipe!Start, Pipe!Started, Pipe!Goes, Pipe!Typed, Pipe!Bound
  <2>2. Pipe!PipeIsLocked'
    BY <1>0, <1>1 DEF Pipe!Start, Pipe!Started, Pipe!Goes, Pipe!Typed, Pipe!PipeIsLocked,
                      Pipe!Bound
  <2>3. Pipe!OneInTheQueue'
    BY <1>0, <1>1 DEF Pipe!Start, Pipe!Started, Pipe!Goes, Pipe!Typed, Pipe!PipeIsLocked,
                      Pipe!OneInTheQueue, Pipe!Bound
  <2>4. Pipe!LoopIsWoken'
    BY <1>0, <1>1 DEF Pipe!Start, Pipe!Started, Pipe!Goes, Pipe!Typed, Pipe!PipeIsLocked,
                      Pipe!LoopIsWoken, Pipe!Bound
  <2>5. QED
    BY <2>1, <2>2, <2>3, <2>4
<1>2. CASE Pipe!TakeLock(p)
  <2>1. Pipe!Typed'
    BY <1>2 DEF Pipe!TakeLock, Pipe!Goes, Pipe!Typed, Pipe!Bound
  <2>2. Pipe!PipeIsLocked'
    BY <1>0, <1>2 DEF Pipe!TakeLock, Pipe!Goes, Pipe!Typed, Pipe!PipeIsLocked, Pipe!Bound
  <2>3. Pipe!OneInTheQueue'
    BY <1>0, <1>2 DEF Pipe!TakeLock, Pipe!Goes, Pipe!Typed, Pipe!PipeIsLocked, Pipe!OneInTheQueue,
                      Pipe!Bound
  <2>4. Pipe!LoopIsWoken'
    BY <1>0, <1>2 DEF Pipe!TakeLock, Pipe!Goes, Pipe!Typed, Pipe!PipeIsLocked, Pipe!LoopIsWoken,
                      Pipe!Bound
  <2>5. QED
    BY <2>1, <2>2, <2>3, <2>4
<1>3. CASE Pipe!AlreadyRunning(p)
  <2>1. Pipe!Typed'
    BY <1>3 DEF Pipe!AlreadyRunning, Pipe!Goes, Pipe!Typed, Pipe!Bound
  <2>2. Pipe!PipeIsLocked'
    BY <1>0, <1>3 DEF Pipe!AlreadyRunning, Pipe!Goes, Pipe!Typed, Pipe!PipeIsLocked, Pipe!Bound
  <2>3. Pipe!OneInTheQueue'
    BY <1>0, <1>3 DEF Pipe!AlreadyRunning, Pipe!Goes, Pipe!Typed, Pipe!PipeIsLocked,
                      Pipe!OneInTheQueue, Pipe!Bound
  <2>4. Pipe!LoopIsWoken'
    BY <1>0, <1>3 DEF Pipe!AlreadyRunning, Pipe!Goes, Pipe!Typed, Pipe!PipeIsLocked,
                      Pipe!LoopIsWoken, Pipe!Bound
  <2>5. QED
    BY <2>1, <2>2, <2>3, <2>4
<1>4. CASE Pipe!BindPipe(p)
  <2>1. Pipe!Typed'
    BY <1>4 DEF Pipe!BindPipe, Pipe!Goes, Pipe!Exclusive, Pipe!HasInstance, Pipe!At, Pipe!Typed,
                Pipe!Bound
  <2>2. Pipe!PipeIsLocked'
    BY <1>0, <1>4 DEF Pipe!BindPipe, Pipe!Goes, Pipe!Exclusive, Pipe!HasInstance, Pipe!At,
                      Pipe!Typed, Pipe!PipeIsLocked, Pipe!Bound
  <2>3. Pipe!OneInTheQueue'
    BY <1>0, <1>4 DEF Pipe!BindPipe, Pipe!Goes, Pipe!Exclusive, Pipe!HasInstance, Pipe!At,
                      Pipe!Typed, Pipe!PipeIsLocked, Pipe!OneInTheQueue, Pipe!Bound
  <2>4. Pipe!LoopIsWoken'
    BY <1>0, <1>4 DEF Pipe!BindPipe, Pipe!Goes, Pipe!Exclusive, Pipe!HasInstance, Pipe!At,
                      Pipe!Typed, Pipe!PipeIsLocked, Pipe!LoopIsWoken, Pipe!Bound
  <2>5. QED
    BY <2>1, <2>2, <2>3, <2>4
<1>5. CASE Pipe!PipeRefused(p)
  <2>1. Pipe!Typed'
    BY <1>5 DEF Pipe!PipeRefused, Pipe!Goes, Pipe!Typed, Pipe!Bound
  <2>2. Pipe!PipeIsLocked'
    BY <1>0, <1>5 DEF Pipe!PipeRefused, Pipe!Goes, Pipe!Typed, Pipe!PipeIsLocked, Pipe!Bound
  <2>3. Pipe!OneInTheQueue'
    BY <1>0, <1>5 DEF Pipe!PipeRefused, Pipe!Goes, Pipe!Typed, Pipe!PipeIsLocked,
                      Pipe!OneInTheQueue, Pipe!Bound
  <2>4. Pipe!LoopIsWoken'
    BY <1>0, <1>5 DEF Pipe!PipeRefused, Pipe!Goes, Pipe!Typed, Pipe!PipeIsLocked,
                      Pipe!LoopIsWoken, Pipe!Bound
  <2>5. QED
    BY <2>1, <2>2, <2>3, <2>4
<1>6. CASE Pipe!OpenProcess(p)
  <2>1. Pipe!Typed'
    BY <1>6 DEF Pipe!OpenProcess, Pipe!Goes, Pipe!Trouble, Pipe!DropServer, Pipe!At, Pipe!Away,
                Pipe!Typed, Pipe!Bound
  <2>2. Pipe!PipeIsLocked'
    BY <1>0, <1>6 DEF Pipe!OpenProcess, Pipe!Goes, Pipe!Trouble, Pipe!DropServer, Pipe!At,
                      Pipe!Away, Pipe!Typed, Pipe!PipeIsLocked, Pipe!Bound
  <2>3. Pipe!OneInTheQueue'
    BY <1>0, <1>6 DEF Pipe!OpenProcess, Pipe!Goes, Pipe!Trouble, Pipe!DropServer, Pipe!At,
                      Pipe!Away, Pipe!Typed, Pipe!PipeIsLocked, Pipe!OneInTheQueue, Pipe!Bound
  <2>4. Pipe!LoopIsWoken'
    BY <1>0, <1>6 DEF Pipe!OpenProcess, Pipe!Goes, Pipe!Trouble, Pipe!DropServer, Pipe!At,
                      Pipe!Away, Pipe!Typed, Pipe!PipeIsLocked, Pipe!LoopIsWoken, Pipe!Bound
  <2>5. QED
    BY <2>1, <2>2, <2>3, <2>4
<1>7. CASE Pipe!LookAtQuit(p)
  <2>1. Pipe!Typed'
    BY <1>7 DEF Pipe!LookAtQuit, Pipe!Goes, Pipe!DropServer, Pipe!At, Pipe!Away, Pipe!Typed,
                Pipe!Bound
  <2>2. Pipe!PipeIsLocked'
    BY <1>0, <1>7 DEF Pipe!LookAtQuit, Pipe!Goes, Pipe!DropServer, Pipe!At, Pipe!Away, Pipe!Typed,
                      Pipe!PipeIsLocked, Pipe!Bound
  <2>3. Pipe!OneInTheQueue'
    BY <1>0, <1>7 DEF Pipe!LookAtQuit, Pipe!Goes, Pipe!DropServer, Pipe!At, Pipe!Away, Pipe!Typed,
                      Pipe!PipeIsLocked, Pipe!OneInTheQueue, Pipe!Bound
  <2>4. Pipe!LoopIsWoken'
    BY <1>0, <1>7 DEF Pipe!LookAtQuit, Pipe!Goes, Pipe!DropServer, Pipe!At, Pipe!Away, Pipe!Typed,
                      Pipe!PipeIsLocked, Pipe!LoopIsWoken, Pipe!Bound
  <2>5. QED
    BY <2>1, <2>2, <2>3, <2>4
<1>8. CASE Pipe!ConnectNamedPipe(p)
  <2>1. Pipe!Typed'
    BY <1>8 DEF Pipe!ConnectNamedPipe, Pipe!Goes, Pipe!Typed, Pipe!Bound
  <2>2. Pipe!PipeIsLocked'
    BY <1>0, <1>8 DEF Pipe!ConnectNamedPipe, Pipe!Goes, Pipe!Typed, Pipe!PipeIsLocked, Pipe!Bound
  <2>3. Pipe!OneInTheQueue'
    BY <1>0, <1>8 DEF Pipe!ConnectNamedPipe, Pipe!Goes, Pipe!Typed, Pipe!PipeIsLocked,
                      Pipe!OneInTheQueue, Pipe!Bound
  <2>4. Pipe!LoopIsWoken'
    BY <1>0, <1>8 DEF Pipe!ConnectNamedPipe, Pipe!Goes, Pipe!Typed, Pipe!PipeIsLocked,
                      Pipe!LoopIsWoken, Pipe!Bound
  <2>5. QED
    BY <2>1, <2>2, <2>3, <2>4
<1>9. CASE Pipe!Accept(p)
  <2>1. Pipe!Typed'
    BY <1>9 DEF Pipe!Accept, Pipe!Goes, Pipe!Trouble, Pipe!At, Pipe!Typed, Pipe!Bound
  <2>2. Pipe!PipeIsLocked'
    BY <1>0, <1>9 DEF Pipe!Accept, Pipe!Goes, Pipe!Trouble, Pipe!At, Pipe!Typed,
                      Pipe!PipeIsLocked, Pipe!Bound
  <2>3. Pipe!OneInTheQueue'
    BY <1>0, <1>9 DEF Pipe!Accept, Pipe!Goes, Pipe!Trouble, Pipe!At, Pipe!Typed,
                      Pipe!PipeIsLocked, Pipe!OneInTheQueue, Pipe!Bound
  <2>4. Pipe!LoopIsWoken'
    BY <1>0, <1>9 DEF Pipe!Accept, Pipe!Goes, Pipe!Trouble, Pipe!At, Pipe!Typed,
                      Pipe!PipeIsLocked, Pipe!LoopIsWoken, Pipe!Bound
  <2>5. QED
    BY <2>1, <2>2, <2>3, <2>4
<1>10. CASE Pipe!Exit(p)
  <2>1. Pipe!Typed'
    BY <1>10 DEF Pipe!Exit, Pipe!Goes, Pipe!Trouble, Pipe!Away, Pipe!Typed, Pipe!Bound
  <2>2. Pipe!PipeIsLocked'
    BY <1>0, <1>10 DEF Pipe!Exit, Pipe!Goes, Pipe!Trouble, Pipe!Away, Pipe!Typed,
                       Pipe!PipeIsLocked, Pipe!Bound
  <2>3. Pipe!OneInTheQueue'
    BY <1>0, <1>10 DEF Pipe!Exit, Pipe!Goes, Pipe!Trouble, Pipe!Away, Pipe!Typed,
                       Pipe!PipeIsLocked, Pipe!OneInTheQueue, Pipe!Bound
  <2>4. Pipe!LoopIsWoken'
    BY <1>0, <1>10 DEF Pipe!Exit, Pipe!Goes, Pipe!Trouble, Pipe!Away, Pipe!Typed,
                       Pipe!PipeIsLocked, Pipe!LoopIsWoken, Pipe!Bound
  <2>5. QED
    BY <2>1, <2>2, <2>3, <2>4
<1>11. CASE Pipe!Answered(p)
  <2>1. Pipe!Typed'
    BY <1>11 DEF Pipe!Answered, Pipe!Typed, Pipe!Bound
  <2>2. Pipe!PipeIsLocked'
    BY <1>0, <1>11 DEF Pipe!Answered, Pipe!Typed, Pipe!PipeIsLocked, Pipe!Bound
  <2>3. Pipe!OneInTheQueue'
    BY <1>0, <1>11 DEF Pipe!Answered, Pipe!Typed, Pipe!PipeIsLocked, Pipe!OneInTheQueue,
                       Pipe!Bound
  <2>4. Pipe!LoopIsWoken'
    BY <1>0, <1>11 DEF Pipe!Answered, Pipe!Typed, Pipe!PipeIsLocked, Pipe!LoopIsWoken, Pipe!Bound
  <2>5. QED
    BY <2>1, <2>2, <2>3, <2>4
<1>12. CASE Pipe!Wake(p)
  <2>1. Pipe!Typed'
    BY <1>12 DEF Pipe!Wake, Pipe!Reaches, Pipe!Goes, Pipe!Typed, Pipe!Bound
  <2>2. Pipe!PipeIsLocked'
    BY <1>0, <1>12 DEF Pipe!Wake, Pipe!Reaches, Pipe!Goes, Pipe!Typed, Pipe!PipeIsLocked,
                       Pipe!Bound
  <2>3. Pipe!OneInTheQueue'
    BY <1>0, <1>12 DEF Pipe!Wake, Pipe!Reaches, Pipe!Goes, Pipe!Typed, Pipe!PipeIsLocked,
                       Pipe!OneInTheQueue, Pipe!Bound
  <2>4. Pipe!LoopIsWoken'
    BY <1>0, <1>12 DEF Pipe!Wake, Pipe!Reaches, Pipe!Goes, Pipe!Typed, Pipe!PipeIsLocked,
                       Pipe!LoopIsWoken, Pipe!Bound
  <2>5. QED
    BY <2>1, <2>2, <2>3, <2>4
<1>13. QED
  BY <1>1, <1>2, <1>3, <1>4, <1>5, <1>6, <1>7, <1>8, <1>9, <1>10, <1>11, <1>12

\* Those of clients and of the bootstrap do.
LEMMA ClientKeeps ==
  ASSUME Pipe!InPlace, NEW c \in Pipe!Callers,
         \/ Pipe!Connect(c) \/ Pipe!Snapshot(c) \/ Pipe!Command(c) \/ Pipe!Leave(c)
  PROVE  Pipe!InPlace'
<1> USE DEF Pipe!InPlace
<1>0. \A q \in Pipe!Processes : q # 0
  BY DEF Pipe!Processes
<1>1. CASE Pipe!Connect(c)
  <2>1. Pipe!Typed'
    <3>1. PICK p \in Pipe!Processes :
            /\ Pipe!Reaches(p, "taken")
            /\ s6' = [s6 EXCEPT ![c] = [step |-> "queued", of |-> p]]
      BY <1>1 DEF Pipe!Connect, Pipe!Connected
    <3>2. /\ s1' \in [Pipe!Processes -> Pipe!Bound \cup {"none", "starting", "locked", "leaving",
             "gone"}]
          /\ s3' \in [Pipe!Processes -> {"closed", "free", "taken", "gone"}]
      BY <3>1 DEF Pipe!Reaches, Pipe!Goes, Pipe!Typed, Pipe!Bound
    <3>3. p \in Nat /\ c \in Pipe!Callers
      BY DEF Pipe!Processes
    <3>4. /\ s6' \in [Pipe!Callers -> [step : {"away", "queued", "accepted", "session"},
             of : Nat]]
          /\ \A d \in Pipe!Callers : s6'[d].step # "away" => s6'[d].of \in Pipe!Processes
      BY <3>1, <3>3 DEF Pipe!Typed
    <3>5. QED
      BY <1>1, <3>2, <3>4 DEF Pipe!Connect, Pipe!Typed
  <2>2. Pipe!PipeIsLocked'
    BY <1>0, <1>1 DEF Pipe!Connect, Pipe!Connected, Pipe!Reaches, Pipe!Goes, Pipe!Away,
                      Pipe!Typed, Pipe!PipeIsLocked, Pipe!Bound
  <2>3. Pipe!OneInTheQueue'
    BY <1>0, <1>1 DEF Pipe!Connect, Pipe!Connected, Pipe!Reaches, Pipe!Goes, Pipe!Away,
                      Pipe!Typed, Pipe!PipeIsLocked, Pipe!OneInTheQueue, Pipe!Bound
  <2>4. Pipe!LoopIsWoken'
    BY <1>0, <1>1 DEF Pipe!Connect, Pipe!Connected, Pipe!Reaches, Pipe!Goes, Pipe!Away,
                      Pipe!Typed, Pipe!PipeIsLocked, Pipe!OneInTheQueue, Pipe!LoopIsWoken,
                      Pipe!Bound
  <2>5. QED
    BY <2>1, <2>2, <2>3, <2>4
<1>2. CASE Pipe!Snapshot(c)
  <2>1. Pipe!Typed'
    BY <1>2 DEF Pipe!Snapshot, Pipe!Away, Pipe!Boot, Pipe!Callers, Pipe!Typed, Pipe!Bound
  <2>2. Pipe!PipeIsLocked'
    BY <1>0, <1>2 DEF Pipe!Snapshot, Pipe!Away, Pipe!Boot, Pipe!Callers, Pipe!Typed,
                      Pipe!PipeIsLocked, Pipe!Bound
  <2>3. Pipe!OneInTheQueue'
    BY <1>0, <1>2 DEF Pipe!Snapshot, Pipe!Away, Pipe!Boot, Pipe!Callers, Pipe!Typed,
                      Pipe!PipeIsLocked, Pipe!OneInTheQueue, Pipe!Bound
  <2>4. Pipe!LoopIsWoken'
    BY <1>0, <1>2 DEF Pipe!Snapshot, Pipe!Away, Pipe!Boot, Pipe!Callers, Pipe!Typed,
                      Pipe!PipeIsLocked, Pipe!OneInTheQueue, Pipe!LoopIsWoken, Pipe!Bound
  <2>5. QED
    BY <2>1, <2>2, <2>3, <2>4
<1>3. CASE Pipe!Command(c)
  <2>1. Pipe!Typed'
    BY <1>3 DEF Pipe!Command, Pipe!Typed, Pipe!Bound
  <2>2. Pipe!PipeIsLocked'
    BY <1>0, <1>3 DEF Pipe!Command, Pipe!Typed, Pipe!PipeIsLocked, Pipe!Bound
  <2>3. Pipe!OneInTheQueue'
    BY <1>0, <1>3 DEF Pipe!Command, Pipe!Typed, Pipe!PipeIsLocked, Pipe!OneInTheQueue, Pipe!Bound
  <2>4. Pipe!LoopIsWoken'
    BY <1>0, <1>3 DEF Pipe!Command, Pipe!Typed, Pipe!PipeIsLocked, Pipe!OneInTheQueue,
                      Pipe!LoopIsWoken, Pipe!Bound
  <2>5. QED
    BY <2>1, <2>2, <2>3, <2>4
<1>4. CASE Pipe!Leave(c)
  <2>1. Pipe!Typed'
    BY <1>4 DEF Pipe!Leave, Pipe!Away, Pipe!Typed, Pipe!Bound
  <2>2. Pipe!PipeIsLocked'
    BY <1>0, <1>4 DEF Pipe!Leave, Pipe!Away, Pipe!Typed, Pipe!PipeIsLocked, Pipe!OneInTheQueue,
                      Pipe!Bound
  <2>3. Pipe!OneInTheQueue'
    BY <1>0, <1>4 DEF Pipe!Leave, Pipe!Away, Pipe!Typed, Pipe!PipeIsLocked, Pipe!OneInTheQueue,
                      Pipe!Bound
  <2>4. Pipe!LoopIsWoken'
    BY <1>0, <1>4 DEF Pipe!Leave, Pipe!Away, Pipe!Typed, Pipe!PipeIsLocked, Pipe!OneInTheQueue,
                      Pipe!LoopIsWoken, Pipe!Bound
  <2>5. QED
    BY <2>1, <2>2, <2>3, <2>4
<1>5. QED
  BY <1>1, <1>2, <1>3, <1>4

\* The bootstrap only connects and starts.
LEMMA BootstrapKeeps ==
  ASSUME Pipe!InPlace,
         Pipe!BootConnects \/ Pipe!BootFindsNone \/ Pipe!BootSpawns \/ Pipe!BootWaits \/
           Pipe!BootFails \/ UNCHANGED Pipe!vars
  PROVE  Pipe!InPlace'
<1> USE DEF Pipe!InPlace
<1>0. \A q \in Pipe!Processes : q # 0
  BY DEF Pipe!Processes
<1>1. CASE Pipe!BootConnects
  <2>1. Pipe!Typed'
    <3>1. PICK p \in Pipe!Processes :
            /\ Pipe!Reaches(p, "taken")
            /\ s6' = [s6 EXCEPT ![Pipe!Boot] = [step |-> "queued", of |-> p]]
      BY <1>1 DEF Pipe!BootConnects, Pipe!Connected
    <3>2. /\ s1' \in [Pipe!Processes -> Pipe!Bound \cup {"none", "starting", "locked", "leaving",
             "gone"}]
          /\ s3' \in [Pipe!Processes -> {"closed", "free", "taken", "gone"}]
      BY <3>1 DEF Pipe!Reaches, Pipe!Goes, Pipe!Typed, Pipe!Bound
    <3>3. p \in Nat /\ Pipe!Boot \in Pipe!Callers
      BY DEF Pipe!Processes, Pipe!Callers
    <3>4. /\ s6' \in [Pipe!Callers -> [step : {"away", "queued", "accepted", "session"},
             of : Nat]]
          /\ \A d \in Pipe!Callers : s6'[d].step # "away" => s6'[d].of \in Pipe!Processes
      BY <3>1, <3>3 DEF Pipe!Typed
    <3>5. QED
      BY <1>1, <3>2, <3>4 DEF Pipe!BootConnects, Pipe!Typed
  <2>2. Pipe!PipeIsLocked'
    BY <1>0, <1>1 DEF Pipe!BootConnects, Pipe!Bootstraps, Pipe!Connected, Pipe!Reaches, Pipe!Goes,
                      Pipe!Away, Pipe!Boot, Pipe!Callers, Pipe!Typed, Pipe!PipeIsLocked,
                      Pipe!Bound
  <2>3. Pipe!OneInTheQueue'
    BY <1>0, <1>1 DEF Pipe!BootConnects, Pipe!Bootstraps, Pipe!Connected, Pipe!Reaches, Pipe!Goes,
                      Pipe!Away, Pipe!Boot, Pipe!Callers, Pipe!Typed, Pipe!PipeIsLocked,
                      Pipe!OneInTheQueue, Pipe!Bound
  <2>4. Pipe!LoopIsWoken'
    BY <1>0, <1>1 DEF Pipe!BootConnects, Pipe!Bootstraps, Pipe!Connected, Pipe!Reaches, Pipe!Goes,
                      Pipe!Away, Pipe!Boot, Pipe!Callers, Pipe!Typed, Pipe!PipeIsLocked,
                      Pipe!OneInTheQueue, Pipe!LoopIsWoken, Pipe!Bound
  <2>5. QED
    BY <2>1, <2>2, <2>3, <2>4
<1>2. CASE Pipe!BootFindsNone \/ Pipe!BootWaits \/ Pipe!BootFails \/ UNCHANGED Pipe!vars
  <2>1. Pipe!Typed'
    BY <1>2 DEF Pipe!BootFindsNone, Pipe!BootWaits, Pipe!BootFails, Pipe!vars, Pipe!Typed,
                Pipe!Bound
  <2>2. Pipe!PipeIsLocked'
    BY <1>0, <1>2 DEF Pipe!BootFindsNone, Pipe!BootWaits, Pipe!BootFails, Pipe!vars, Pipe!Typed,
                      Pipe!PipeIsLocked, Pipe!Bound
  <2>3. Pipe!OneInTheQueue'
    BY <1>0, <1>2 DEF Pipe!BootFindsNone, Pipe!BootWaits, Pipe!BootFails, Pipe!vars, Pipe!Typed,
                      Pipe!PipeIsLocked, Pipe!OneInTheQueue, Pipe!Bound
  <2>4. Pipe!LoopIsWoken'
    BY <1>0, <1>2 DEF Pipe!BootFindsNone, Pipe!BootWaits, Pipe!BootFails, Pipe!vars, Pipe!Typed,
                      Pipe!PipeIsLocked, Pipe!OneInTheQueue, Pipe!LoopIsWoken, Pipe!Bound
  <2>5. QED
    BY <2>1, <2>2, <2>3, <2>4
<1>3. CASE Pipe!BootSpawns
  <2>1. Pipe!Typed'
    BY <1>3 DEF Pipe!BootSpawns, Pipe!Started, Pipe!Goes, Pipe!Typed, Pipe!Bound
  <2>2. Pipe!PipeIsLocked'
    BY <1>0, <1>3 DEF Pipe!BootSpawns, Pipe!Started, Pipe!Goes, Pipe!Typed, Pipe!PipeIsLocked,
                      Pipe!Bound
  <2>3. Pipe!OneInTheQueue'
    BY <1>0, <1>3 DEF Pipe!BootSpawns, Pipe!Started, Pipe!Goes, Pipe!Typed, Pipe!PipeIsLocked,
                      Pipe!OneInTheQueue, Pipe!Bound
  <2>4. Pipe!LoopIsWoken'
    BY <1>0, <1>3 DEF Pipe!BootSpawns, Pipe!Started, Pipe!Goes, Pipe!Typed, Pipe!PipeIsLocked,
                      Pipe!OneInTheQueue, Pipe!LoopIsWoken, Pipe!Bound
  <2>5. QED
    BY <2>1, <2>2, <2>3, <2>4
<1>4. QED
  BY <1>1, <1>2, <1>3

\* Hence every step keeps it.
LEMMA PipeStep == Pipe!InPlace /\ (Pipe!Next \/ UNCHANGED Pipe!vars) => Pipe!InPlace'
<1> SUFFICES ASSUME Pipe!InPlace, (Pipe!Next \/ UNCHANGED Pipe!vars) PROVE Pipe!InPlace'
  OBVIOUS
<1>1. PipeUsers \subseteq Pipe!Callers
  BY DEF Pipe!Callers
<1>2. QED
  BY <1>1, DaemonKeeps, ClientKeeps, BootstrapKeeps DEF Pipe!Next

\* Whoever opens the pipe gets to the daemon, Quit is noticed, and the next client
\* has an instance.
LEMMA PipeFollows ==
  Pipe!InPlace => Pipe!PipeLeadsToTheDaemon /\ Pipe!QuitWakesTheLoop /\ Pipe!NextClientIsServed
<1> SUFFICES ASSUME Pipe!InPlace PROVE Pipe!PipeLeadsToTheDaemon /\ Pipe!QuitWakesTheLoop /\
  Pipe!NextClientIsServed
  OBVIOUS
<1> USE DEF Pipe!InPlace
<1>1. Pipe!PipeLeadsToTheDaemon
  BY DEF Pipe!PipeLeadsToTheDaemon, Pipe!Serving, Pipe!Typed, Pipe!PipeIsLocked,
     Pipe!OneInTheQueue, Pipe!Bound
<1>2. Pipe!QuitWakesTheLoop
  BY DEF Pipe!QuitWakesTheLoop, Pipe!LoopIsWoken
<1>3. Pipe!NextClientIsServed
  BY DEF Pipe!NextClientIsServed, Pipe!Serving, Pipe!At, Pipe!Typed, Pipe!PipeIsLocked,
     Pipe!OneInTheQueue, Pipe!LoopIsWoken, Pipe!Bound
<1>4. QED
  BY <1>1, <1>2, <1>3

-----------------------------------------------------------------------------
(* The settings commands of the daemon.                                    *)

\* No command, and the listener waits for the shortcut that is set;
LEMMA SettingsInit == Settings!Init => Settings!Settled
<1> SUFFICES ASSUME Settings!Init PROVE Settings!Settled
  OBVIOUS
<1>1. Settings!Typed
  BY DEF Settings!Init, Settings!Typed, Settings!NoCommand
<1>2. Settings!WantedIsSet /\ Settings!SavedIsApplied
  BY DEF Settings!Init, Settings!WantedIsSet, Settings!SavedIsApplied, Settings!NoCommand,
     Settings!Hotkeys
<1>3. QED
  BY <1>1, <1>2 DEF Settings!Settled

\* each step of a command keeps what was wanted, saved and applied in line,
LEMMA SettingsStep == Settings!Settled /\ (Settings!Next \/ UNCHANGED Settings!vars) =>
  Settings!Settled'
<1> SUFFICES ASSUME Settings!Settled, (Settings!Next \/
  UNCHANGED Settings!vars) PROVE Settings!Settled'
  OBVIOUS
<1> USE DEF Settings!Settled
<1>1. ASSUME NEW s \in Settings!Settings, Settings!UpdateSettings(s) PROVE Settings!Settled'
  <2>1. Settings!Typed'
    BY <1>1 DEF Settings!UpdateSettings, Settings!ChangedSettings, Settings!HotkeyChanges,
                Settings!Hotkeys, Settings!Unparsable, Settings!Typed, Settings!Settings
  <2>2. Settings!WantedIsSet'
    BY <1>1 DEF Settings!UpdateSettings, Settings!ChangedSettings, Settings!HotkeyChanges,
                Settings!Hotkeys, Settings!Unparsable, Settings!Typed, Settings!WantedIsSet,
                Settings!Settings
  <2>3. Settings!SavedIsApplied'
    BY <1>1 DEF Settings!UpdateSettings, Settings!ChangedSettings, Settings!HotkeyChanges,
                Settings!Hotkeys, Settings!Unparsable, Settings!Typed, Settings!SavedIsApplied,
                Settings!Settings
  <2>4. QED
    BY <2>1, <2>2, <2>3
<1>2. ASSUME NEW k \in {"none", "k"}, Settings!SetApiKey(k) PROVE Settings!Settled'
  <2>1. Settings!Typed'
    BY <1>2 DEF Settings!SetApiKey, Settings!Typed, Settings!Settings
  <2>2. Settings!WantedIsSet'
    BY <1>2 DEF Settings!SetApiKey, Settings!Typed, Settings!WantedIsSet, Settings!Settings
  <2>3. Settings!SavedIsApplied'
    BY <1>2 DEF Settings!SetApiKey, Settings!Typed, Settings!SavedIsApplied, Settings!Settings
  <2>4. QED
    BY <2>1, <2>2, <2>3
<1>3. CASE Settings!Reconfigure
  <2>1. Settings!Typed'
    BY <1>3 DEF Settings!Reconfigure, Settings!Refused, Settings!ChangesTo, Settings!Answer,
                Settings!Typed, Settings!Settings
  <2>2. Settings!WantedIsSet'
    BY <1>3 DEF Settings!Reconfigure, Settings!Refused, Settings!ChangesTo, Settings!Answer,
                Settings!Typed, Settings!WantedIsSet, Settings!Settings
  <2>3. Settings!SavedIsApplied'
    BY <1>3 DEF Settings!Reconfigure, Settings!Refused, Settings!ChangesTo, Settings!Answer,
                Settings!Typed, Settings!SavedIsApplied, Settings!Settings
  <2>4. QED
    BY <2>1, <2>2, <2>3
<1>4. CASE Settings!Save
  <2>1. Settings!Typed'
    BY <1>4 DEF Settings!Save, Settings!SaveFails, Settings!Answer, Settings!HotkeyChanges,
                Settings!Typed, Settings!Settings
  <2>2. Settings!WantedIsSet'
    BY <1>4 DEF Settings!Save, Settings!SaveFails, Settings!Answer, Settings!HotkeyChanges,
                Settings!Typed, Settings!WantedIsSet, Settings!Settings
  <2>3. Settings!SavedIsApplied'
    BY <1>4 DEF Settings!Save, Settings!SaveFails, Settings!Answer, Settings!HotkeyChanges,
                Settings!Typed, Settings!SavedIsApplied, Settings!Settings
  <2>4. QED
    BY <2>1, <2>2, <2>3
<1>5. CASE Settings!Rollback
  <2>1. Settings!Typed'
    BY <1>5 DEF Settings!Rollback, Settings!Refused, Settings!ChangesTo, Settings!Answer,
                Settings!Typed, Settings!Settings
  <2>2. Settings!WantedIsSet'
    BY <1>5 DEF Settings!Rollback, Settings!Refused, Settings!ChangesTo, Settings!Answer,
                Settings!Typed, Settings!WantedIsSet, Settings!Settings
  <2>3. Settings!SavedIsApplied'
    BY <1>5 DEF Settings!Rollback, Settings!Refused, Settings!ChangesTo, Settings!Answer,
                Settings!Typed, Settings!SavedIsApplied, Settings!Settings
  <2>4. QED
    BY <2>1, <2>2, <2>3
<1>6. CASE Settings!Apply
  <2>1. Settings!Typed'
    BY <1>6 DEF Settings!Apply, Settings!Applied, Settings!Answer, Settings!Typed,
                Settings!Settings
  <2>2. Settings!WantedIsSet'
    BY <1>6 DEF Settings!Apply, Settings!Applied, Settings!Answer, Settings!Typed,
                Settings!WantedIsSet, Settings!Settings
  <2>3. Settings!SavedIsApplied'
    BY <1>6 DEF Settings!Apply, Settings!Applied, Settings!Answer, Settings!Typed,
                Settings!SavedIsApplied, Settings!Settings
  <2>4. QED
    BY <2>1, <2>2, <2>3
<1>7. CASE Settings!StatusArrives \/ Settings!ListenerCloses \/ Settings!ListenerReturns \/
           UNCHANGED Settings!vars
  <2>1. Settings!Typed'
    BY <1>7 DEF Settings!StatusArrives, Settings!ListenerCloses, Settings!ListenerReturns,
                Settings!vars, Settings!Typed, Settings!Settings
  <2>2. Settings!WantedIsSet'
    BY <1>7 DEF Settings!StatusArrives, Settings!ListenerCloses, Settings!ListenerReturns,
                Settings!vars, Settings!Typed, Settings!WantedIsSet, Settings!Settings
  <2>3. Settings!SavedIsApplied'
    BY <1>7 DEF Settings!StatusArrives, Settings!ListenerCloses, Settings!ListenerReturns,
                Settings!vars, Settings!Typed, Settings!SavedIsApplied, Settings!Settings
  <2>4. QED
    BY <2>1, <2>2, <2>3
<1>8. CASE Settings!Restart
  <2>1. Settings!Typed'
    BY <1>8 DEF Settings!Restart, Settings!Starts, Settings!NoCommand, Settings!Hotkeys,
                Settings!Typed, Settings!Settings
  <2>2. Settings!WantedIsSet'
    BY <1>8 DEF Settings!Restart, Settings!Starts, Settings!NoCommand, Settings!Hotkeys,
                Settings!Typed, Settings!WantedIsSet, Settings!Settings
  <2>3. Settings!SavedIsApplied'
    BY <1>8 DEF Settings!Restart, Settings!Starts, Settings!NoCommand, Settings!Hotkeys,
                Settings!Typed, Settings!SavedIsApplied, Settings!Settings
  <2>4. QED
    BY <2>1, <2>2, <2>3
<1>9. QED
  BY <1>1, <1>2, <1>3, <1>4, <1>5, <1>6, <1>7, <1>8 DEF Settings!Next

\* from which what the user sees follows.
LEMMA SettingsFollow == Settings!Settled => Settings!ShortcutFollowsSettings /\
  Settings!DaemonRunsSavedSettings
  BY DEF Settings!Settled, Settings!Typed, Settings!WantedIsSet, Settings!SavedIsApplied,
     Settings!ShortcutFollowsSettings,
         Settings!DaemonRunsSavedSettings

-----------------------------------------------------------------------------
(* The import of external dictations.                                      *)

\* Everything the importer knows is older than the files at the start,
LEMMA ImportInit == Import!Init => Import!Kept
<1> SUFFICES ASSUME Import!Init PROVE Import!Kept
  OBVIOUS
<1>1. Import!Typed
  BY DEF Import!Init, Import!Typed, Import!Fresh, Import!Unknown, Import!Exists, Import!States
<1>2. Import!FoldersAreSeen /\ Import!FilesAreObserved /\ Import!CountedOnce
  BY DEF Import!Init, Import!FoldersAreSeen, Import!FilesAreObserved, Import!CountedOnce,
     Import!Fresh, Import!Unknown
<1>3. QED
  BY <1>1, <1>2 DEF Import!Kept

\* and stays so, whatever is written while it looks,
LEMMA ImportStep == Import!Kept /\ (Import!Next \/ UNCHANGED Import!vars) => Import!Kept'
<1> SUFFICES ASSUME Import!Kept, (Import!Next \/ UNCHANGED Import!vars) PROVE Import!Kept'
  OBVIOUS
<1> USE DEF Import!Kept, Import!others, Import!database
<1>1. ASSUME NEW r \in Receipts, Import!WriteReceipt(r) PROVE Import!Kept'
  <2>1. Import!Typed'
    BY <1>1 DEF Import!WriteReceipt, Import!Typed, Import!Exists, Import!States
  <2>2. Import!FoldersAreSeen'
    BY <1>1 DEF Import!WriteReceipt, Import!Typed, Import!FoldersAreSeen, Import!Exists
  <2>3. Import!FilesAreObserved'
    BY <1>1 DEF Import!WriteReceipt, Import!Typed, Import!FilesAreObserved, Import!Exists
  <2>4. Import!CountedOnce'
    BY <1>1 DEF Import!WriteReceipt, Import!Typed, Import!CountedOnce
  <2>5. QED
    BY <2>1, <2>2, <2>3, <2>4
<1>2. ASSUME NEW r \in Receipts, Import!StatReceipt(r) PROVE Import!Kept'
  <2>1. Import!Typed'
    BY <1>2 DEF Import!StatReceipt, Import!Typed, Import!Exists, Import!States
  <2>2. Import!FoldersAreSeen'
    BY <1>2 DEF Import!StatReceipt, Import!Typed, Import!FoldersAreSeen, Import!Exists
  <2>3. Import!FilesAreObserved'
    BY <1>2 DEF Import!StatReceipt, Import!Typed, Import!FilesAreObserved, Import!Exists
  <2>4. Import!CountedOnce'
    BY <1>2 DEF Import!StatReceipt, Import!Typed, Import!CountedOnce
  <2>5. QED
    BY <2>1, <2>2, <2>3, <2>4
<1>3. CASE Import!ClearHistory \/ UNCHANGED Import!vars
  <2>1. Import!Typed'
    BY <1>3 DEF Import!ClearHistory, Import!vars, Import!Typed, Import!Exists, Import!States
  <2>2. Import!FoldersAreSeen'
    BY <1>3 DEF Import!ClearHistory, Import!vars, Import!Typed, Import!FoldersAreSeen,
                Import!Exists
  <2>3. Import!FilesAreObserved'
    BY <1>3 DEF Import!ClearHistory, Import!vars, Import!Typed, Import!FilesAreObserved,
                Import!Exists
  <2>4. Import!CountedOnce'
    BY <1>3 DEF Import!ClearHistory, Import!vars, Import!Typed, Import!CountedOnce
  <2>5. QED
    BY <2>1, <2>2, <2>3, <2>4
<1>4. CASE Import!Restart
  <2>1. Import!Typed'
    BY <1>4 DEF Import!Restart, Import!Fresh, Import!Unknown, Import!Typed, Import!Exists,
                Import!States
  <2>2. Import!FoldersAreSeen'
    BY <1>4 DEF Import!Restart, Import!Fresh, Import!Unknown, Import!Typed, Import!FoldersAreSeen,
                Import!Exists
  <2>3. Import!FilesAreObserved'
    BY <1>4 DEF Import!Restart, Import!Fresh, Import!Unknown, Import!Typed,
                Import!FilesAreObserved, Import!Exists
  <2>4. Import!CountedOnce'
    BY <1>4 DEF Import!Restart, Import!Fresh, Import!Unknown, Import!Typed, Import!CountedOnce
  <2>5. QED
    BY <2>1, <2>2, <2>3, <2>4
<1>5. CASE Import!StatFolders
  <2>1. Import!Typed'
    BY <1>5 DEF Import!StatFolders, Import!Typed, Import!Exists, Import!States
  <2>2. Import!FoldersAreSeen'
    BY <1>5 DEF Import!StatFolders, Import!Typed, Import!FoldersAreSeen, Import!Exists
  <2>3. Import!FilesAreObserved'
    BY <1>5 DEF Import!StatFolders, Import!Typed, Import!FilesAreObserved, Import!Exists
  <2>4. Import!CountedOnce'
    BY <1>5 DEF Import!StatFolders, Import!Typed, Import!CountedOnce
  <2>5. QED
    BY <2>1, <2>2, <2>3, <2>4
<1>6. CASE Import!ListFolders
  <2>1. Import!Typed'
    <3>1. PICK entries \in SUBSET Receipts : Import!Listed(entries, s3.seen)
      BY <1>6 DEF Import!ListFolders
    <3>2. PICK observed : observed = [r \in Receipts |->
                            IF r \in entries THEN s3.observed[r] ELSE Import!Unknown]
      OBVIOUS
    <3>3. observed \in [Receipts -> Nat]
      BY <3>2 DEF Import!Typed, Import!Unknown
    <3>4. PICK pending : pending = (s3.pending \cup (entries \ s3.known)) \cap entries
      OBVIOUS
    <3>5. s3' = [s3 EXCEPT !.state = "scanning", !.folders = s3.seen,
                         !.known = entries, !.pending = pending, !.todo = pending,
                         !.observed = observed]
      BY <3>1, <3>2, <3>4 DEF Import!Listed, Import!Typed
    <3>6. pending \subseteq Receipts
      BY <3>4
    <3>7. QED
      BY <1>6, <3>3, <3>5, <3>6 DEF Import!ListFolders, Import!Typed, Import!Exists, Import!States
  <2>2. Import!FoldersAreSeen'
    <3>1. PICK unread \in SUBSET {r \in Receipts : Import!Exists(r)} :
            /\ s7' = s7 \cup unread
            /\ Import!Listed({r \in Receipts : Import!Exists(r)} \ unread, s3.seen)
            /\ UNCHANGED <<s1, s2, s4>>
      BY <1>6 DEF Import!ListFolders
    <3>2. PICK entries : entries = {r \in Receipts : Import!Exists(r)} \ unread
      OBVIOUS
    <3>3. /\ s3'.folders = s3.seen /\ s3'.known = entries
          /\ s3'.pending = (s3.pending \cup (entries \ s3.known)) \cap entries
          /\ s3'.state = "scanning"
      BY <3>1, <3>2 DEF Import!Listed, Import!Typed
    <3>4. s3.seen <= s2 /\ s3.seen \in Nat /\ s2 \in Nat
      BY <1>6 DEF Import!ListFolders, Import!FoldersAreSeen, Import!Typed
    <3>5. \A r \in Receipts : Import!Exists(r)' => r \in entries \cup s7'
      BY <3>1, <3>2 DEF Import!Exists
    <3>6. entries \ (s4' \cup s7') \subseteq s3'.pending
      BY <3>1, <3>3 DEF Import!FoldersAreSeen
    <3>7. QED
      BY <3>1, <3>3, <3>4, <3>5, <3>6 DEF Import!FoldersAreSeen
  <2>3. Import!FilesAreObserved'
    BY <1>6 DEF Import!ListFolders, Import!Listed, Import!Unknown, Import!Typed,
                Import!FilesAreObserved, Import!Exists
  <2>4. Import!CountedOnce'
    BY <1>6 DEF Import!ListFolders, Import!Listed, Import!Unknown, Import!Typed,
                Import!CountedOnce
  <2>5. QED
    BY <2>1, <2>2, <2>3, <2>4
<1>7. CASE Import!ReadIncomplete
  <2>1. Import!Typed'
    BY <1>7 DEF Import!ReadIncomplete, Import!Typed, Import!Exists, Import!States
  <2>2. Import!FoldersAreSeen'
    BY <1>7 DEF Import!ReadIncomplete, Import!Typed, Import!FoldersAreSeen, Import!Exists
  <2>3. Import!FilesAreObserved'
    BY <1>7 DEF Import!ReadIncomplete, Import!Typed, Import!FilesAreObserved, Import!Exists
  <2>4. Import!CountedOnce'
    BY <1>7 DEF Import!ReadIncomplete, Import!Typed, Import!CountedOnce
  <2>5. QED
    BY <2>1, <2>2, <2>3, <2>4
<1>8. CASE Import!ReadFails
  <2>1. Import!Typed'
    BY <1>8 DEF Import!ReadFails, Import!Typed, Import!Exists, Import!States
  <2>2. Import!FoldersAreSeen'
    BY <1>8 DEF Import!ReadFails, Import!Typed, Import!FoldersAreSeen, Import!Exists
  <2>3. Import!FilesAreObserved'
    BY <1>8 DEF Import!ReadFails, Import!Typed, Import!FilesAreObserved, Import!Exists
  <2>4. Import!CountedOnce'
    BY <1>8 DEF Import!ReadFails, Import!Typed, Import!CountedOnce
  <2>5. QED
    BY <2>1, <2>2, <2>3, <2>4
<1>9. CASE Import!Observe
  <2>1. Import!Typed'
    BY <1>9 DEF Import!Observe, Import!Observed, Import!Unknown, Import!Typed, Import!Exists,
                Import!States
  <2>2. Import!FoldersAreSeen'
    BY <1>9 DEF Import!Observe, Import!Observed, Import!Unknown, Import!Typed,
                Import!FoldersAreSeen, Import!Exists
  <2>3. Import!FilesAreObserved'
    BY <1>9 DEF Import!Observe, Import!Observed, Import!Unknown, Import!Typed,
                Import!FilesAreObserved, Import!Exists
  <2>4. Import!CountedOnce'
    BY <1>9 DEF Import!Observe, Import!Observed, Import!Unknown, Import!Typed, Import!CountedOnce
  <2>5. QED
    BY <2>1, <2>2, <2>3, <2>4
<1>10. CASE Import!Import
  <2>1. Import!Typed'
    <3>1. s6' \in [Receipts -> Nat]
      BY <1>10 DEF Import!Import, Import!Typed
    <3>2. PICK observed : observed = [s3.observed EXCEPT ![s3.at] = Import!Unknown]
      OBVIOUS
    <3>3. observed \in [Receipts -> Nat]
      BY <3>2 DEF Import!Typed, Import!Unknown
    <3>4. s3' = [s3 EXCEPT !.state = "scanning", !.observed = observed, !.at = Import!Unknown,
                         !.pending = s3.pending \ {s3.at}]
      BY <1>10, <3>2 DEF Import!Import, Import!Imported, Import!Typed
    <3>5. QED
      BY <1>10, <3>1, <3>3, <3>4 DEF Import!Import, Import!Typed, Import!Exists, Import!States
  <2>2. Import!FoldersAreSeen'
    BY <1>10 DEF Import!Import, Import!Imported, Import!Unknown, Import!Typed,
                 Import!FoldersAreSeen, Import!Exists
  <2>3. Import!FilesAreObserved'
    BY <1>10 DEF Import!Import, Import!Imported, Import!Unknown, Import!Typed,
                 Import!FilesAreObserved, Import!Exists
  <2>4. Import!CountedOnce'
    BY <1>10 DEF Import!Import, Import!Imported, Import!Unknown, Import!Typed, Import!CountedOnce
  <2>5. QED
    BY <2>1, <2>2, <2>3, <2>4
<1>11. CASE Import!ImportFails
  <2>1. Import!Typed'
    BY <1>11 DEF Import!ImportFails, Import!Unknown, Import!Typed, Import!Exists, Import!States
  <2>2. Import!FoldersAreSeen'
    BY <1>11 DEF Import!ImportFails, Import!Unknown, Import!Typed, Import!FoldersAreSeen,
                 Import!Exists
  <2>3. Import!FilesAreObserved'
    BY <1>11 DEF Import!ImportFails, Import!Unknown, Import!Typed, Import!FilesAreObserved,
                 Import!Exists
  <2>4. Import!CountedOnce'
    BY <1>11 DEF Import!ImportFails, Import!Unknown, Import!Typed, Import!CountedOnce
  <2>5. QED
    BY <2>1, <2>2, <2>3, <2>4
<1>12. CASE Import!ScanEnds
  <2>1. Import!Typed'
    BY <1>12 DEF Import!ScanEnds, Import!Typed, Import!Exists, Import!States
  <2>2. Import!FoldersAreSeen'
    BY <1>12 DEF Import!ScanEnds, Import!Typed, Import!FoldersAreSeen, Import!Exists
  <2>3. Import!FilesAreObserved'
    BY <1>12 DEF Import!ScanEnds, Import!Typed, Import!FilesAreObserved, Import!Exists
  <2>4. Import!CountedOnce'
    BY <1>12 DEF Import!ScanEnds, Import!Typed, Import!CountedOnce
  <2>5. QED
    BY <2>1, <2>2, <2>3, <2>4
<1>13. QED
  BY <1>1, <1>2, <1>3, <1>4, <1>5, <1>6, <1>7, <1>8, <1>9, <1>10, <1>11, <1>12 DEF Import!Next

\* so that what is complete is in the ledger, or will be looked at.
LEMMA ImportFollows == Import!Kept => Import!ImportedOnce /\ Import!NoneIsOverlooked
<1> SUFFICES ASSUME Import!Kept PROVE Import!ImportedOnce /\ Import!NoneIsOverlooked
  OBVIOUS
<1>1. Import!ImportedOnce
  BY DEF Import!Kept, Import!CountedOnce, Import!ImportedOnce
<1>2. Import!NoneIsOverlooked
  BY DEF Import!Kept, Import!Typed, Import!FoldersAreSeen, Import!FilesAreObserved,
     Import!NoneIsOverlooked, Import!Exists
<1>3. QED
  BY <1>1, <1>2

-----------------------------------------------------------------------------
(* Opening the database, and the daemon that opened it.                    *)

\* What an opening rewrites stays in order row by row.
LEMMA RowsKeep ==
  ASSUME Store!Opened, s2' \in [Dictations -> Store!Rows], s3 # "open", s3' \in Store!Openings,
         UNCHANGED <<s4, s5, s6, s7>>, s1 \subseteq s1',
         s3' = "open" => "allowed" \in s1',
         \A j \in Dictations : Store!Present(j)' =>
           /\ Store!Present(j) /\ Store!Coherent(s2'[j]) /\ Store!Reconciled(j)'
           /\ Store!GivenAway(s2[j]) => Store!GivenAway(s2'[j])
           /\ Store!Uncounted(j) => Store!Uncounted(j)'
  PROVE  Store!Opened'
  BY DEF Store!Opened, Store!Typed, Store!OldStaysUncounted

\* Each statement of an opening puts its rows in order, and leaves the rest.
LEMMA OpeningKeeps ==
  ASSUME Store!Opened, Store!Opening
  PROVE  Store!Opened'
<1>a. PICK states, stages, statuses :
        states = Store!States /\ stages = Store!AllStages /\ statuses = Store!Statuses
  OBVIOUS
<1>b. Store!Rows = [state : states, stage : stages, text : BOOLEAN, status : statuses,
                    id : BOOLEAN, allowed : BOOLEAN]
  BY <1>a DEF Store!Rows
<1>0. /\ s4 = Store!NoJob /\ s3 # "open" /\ s2 \in [Dictations -> Store!Rows]
      /\ \A j \in Dictations : Store!Present(j) => Store!Coherent(s2[j]) /\ Store!Reconciled(j)
  BY DEF Store!Opened, Store!Typed, Store!Opening, Store!Begin, Store!AddColumn, Store!HasColumns,
     Store!HasIds, Store!BackfillId, Store!Step,
         Store!ReconcileTranscribed, Store!ReconcileStopped, Store!ReconcileAmbiguous,
           Store!ReconcileInterrupted,
         Store!CompletionPolicy
<1>1. CASE Store!Begin \/ Store!AddColumn \/ Store!HasColumns \/ Store!HasIds
  <2>1. /\ UNCHANGED <<s2, s4, s5, s6, s7>> /\ s3' \in Store!Openings
        /\ s3' # "open" /\ s1' = s1 \cup (s1' \cap {"id", "status"})
    BY <1>1 DEF Store!Begin, Store!AddColumn, Store!HasColumns, Store!HasIds, Store!Step,
                Store!Opened, Store!Typed, Store!Openings
  <2>2. \A j \in Dictations : Store!Present(j)' =>
           /\ Store!Present(j) /\ Store!Coherent(s2'[j]) /\ Store!Reconciled(j)'
           /\ Store!GivenAway(s2[j]) => Store!GivenAway(s2'[j])
           /\ Store!Uncounted(j) => Store!Uncounted(j)'
    BY <1>0, <1>1, <2>1 DEF Store!Begin, Store!AddColumn, Store!HasColumns, Store!HasIds,
                            Store!Step, Store!Present, Store!Reconciled, Store!Uncounted
  <2>3. QED
    BY <1>0, <2>1, <2>2, RowsKeep
<1>2. ASSUME NEW i \in Dictations, Store!BackfillId(i) PROVE Store!Opened'
  <2>1. /\ s2' \in [Dictations -> Store!Rows] /\ s3' \in Store!Openings
        /\ UNCHANGED <<s4, s5, s6, s7>> /\ s1 \subseteq s1'
        /\ s3' = "open" => "allowed" \in s1'
    BY <1>0, <1>2 DEF Store!BackfillId, Store!Step, Store!Rewrite, Store!Rows, Store!Opened,
                      Store!Typed, Store!Openings
  <2>2. ASSUME NEW j \in Dictations, Store!Present(j)' PROVE Store!Present(j) /\
               Store!Coherent(s2'[j])
    BY <1>0, <1>2, <2>2 DEF Store!BackfillId, Store!Step, Store!Rewrite, Store!Rows,
                            Store!Present, Store!Coherent, Store!Stages, Store!Finished,
                            Store!Legacy, Store!Underway
  <2>3. ASSUME NEW j \in Dictations, Store!Present(j)' PROVE Store!Reconciled(j)'
    BY <1>0, <1>2, <2>2, <2>3 DEF Store!BackfillId, Store!Step, Store!Rewrite, Store!Rows,
                                  Store!Present, Store!Coherent, Store!Reconciled, Store!Stages,
                                  Store!Finished, Store!Legacy, Store!Underway
  <2>4. ASSUME NEW j \in Dictations, Store!Present(j)'
        PROVE  (Store!GivenAway(s2[j]) => Store!GivenAway(s2'[j])) /\ (Store!Uncounted(j) =>
               Store!Uncounted(j)')
    BY <1>0, <1>2, <2>2, <2>4 DEF Store!BackfillId, Store!Step, Store!Rewrite, Store!Rows,
                                  Store!Present, Store!Coherent, Store!GivenAway, Store!Uncounted,
                                  Store!Stages, Store!Legacy, Store!Underway, Store!Finished
  <2>5. QED
    BY <1>0, <2>1, <2>2, <2>3, <2>4, RowsKeep
<1>3. CASE Store!ReconcileTranscribed
  <2> DEFINE Which(row) == row.state = "transcribed" /\ row.stage = "transcribed" /\ row.text
             New(row) == [row EXCEPT !.state = "captured", !.stage = "ready_to_deliver",
                                   !.status = "not_attempted"]
  <2>1. /\ s3' = "stopped" /\ UNCHANGED <<s1, s4, s5, s6, s7>>
        /\ s2' = [j \in Dictations |-> IF Store!Present(j) /\
           Which(s2[j]) THEN New(s2[j]) ELSE s2[j]]
        /\ s3 = "legacy"
    BY <1>3 DEF Store!ReconcileTranscribed, Store!Step, Store!Rewrite
  <2>2. ASSUME NEW j \in Dictations, Store!Present(j), Which(s2[j])
        PROVE  /\ s2'[j] \in Store!Rows /\ s2'[j].state = "captured" /\
                  s2'[j].stage = "ready_to_deliver" /\ s2'[j].status = "not_attempted"
               /\ s2'[j].id = s2[j].id /\ s2'[j].allowed = s2[j].allowed
    <3>1. PICK row : row = New(s2[j])
      OBVIOUS
    <3>2. s2[j] \in Store!Rows /\ s2'[j] = row
      BY <1>0, <2>1, <2>2, <3>1
    <3>3. row = [s2[j] EXCEPT !.state = "captured", !.stage = "ready_to_deliver",
                                   !.status = "not_attempted"]
      BY <3>1
    <3>4. "captured" \in Store!States /\ "ready_to_deliver" \in Store!AllStages /\
          "not_attempted" \in Store!Statuses
      BY DEF Store!States, Store!Statuses, Store!AllStages, Store!Stages
    <3>5. row \in Store!Rows
      BY <1>a, <1>b, <3>2, <3>3, <3>4
    <3>6. /\ row.state = "captured" /\ row.stage = "ready_to_deliver"
          /\ row.status = "not_attempted"
          /\ row.id = s2[j].id /\ row.allowed = s2[j].allowed
      BY <1>b, <3>2, <3>3
    <3>7. QED
      BY <3>2, <3>5, <3>6
  <2>3. ASSUME NEW j \in Dictations, ~(Store!Present(j) /\ Which(s2[j])) PROVE s2'[j] = s2[j]
    BY <2>1, <2>3
  <2>4. \A j \in Dictations : s2'[j] \in Store!Rows
    BY <1>0, <2>2, <2>3
  <2>5. s2' \in [Dictations -> Store!Rows]
    BY <2>1, <2>4
  <2>6. ASSUME NEW j \in Dictations, Store!Present(j)'
        PROVE  /\ Store!Present(j) /\ Store!Coherent(s2'[j]) /\ Store!Reconciled(j)'
               /\ Store!GivenAway(s2[j]) => Store!GivenAway(s2'[j])
               /\ Store!Uncounted(j) => Store!Uncounted(j)'
    <3>1. Store!Present(j)
      BY <2>3, <2>6 DEF Store!Present
    <3>2. Store!Coherent(s2[j]) /\ Store!Reconciled(j)
      BY <1>0, <3>1
    <3>3. CASE Which(s2[j])
      <4>1. Store!Coherent(s2'[j]) /\ Store!Reconciled(j)'
        <5>1. Store!Coherent(s2'[j])
          BY <2>2, <3>1, <3>2, <3>3 DEF Store!Coherent, Store!Stages, Store!Finished,
                                        Store!Legacy, Store!Underway
        <5>2. s2'[j].id = s2[j].id /\ s2[j].id
          BY <2>1, <2>2, <3>1, <3>2, <3>3 DEF Store!Reconciled
        <5>3. s2'[j].stage \in Store!Stages \ (Store!Underway \cup {"delivering"})
          BY <2>2, <3>1, <3>3 DEF Store!Stages, Store!Underway
        <5>4. s2'[j].status # "attempting"
          BY <2>2, <3>1, <3>2, <3>3 DEF Store!Coherent, Store!Underway
        <5>5. QED
          BY <2>1, <5>1, <5>2, <5>3, <5>4 DEF Store!Reconciled
      <4>2. ~Store!GivenAway(s2[j]) \/ Store!GivenAway(s2'[j])
        BY <2>2, <3>1, <3>2, <3>3 DEF Store!Coherent, Store!GivenAway, Store!Underway
      <4>3. ~Store!Uncounted(j)
        BY <3>2, <3>3 DEF Store!Coherent, Store!Uncounted, Store!Underway
      <4>4. QED
        BY <3>1, <4>1, <4>2, <4>3
    <3>4. CASE ~Which(s2[j])
      <4>1. Store!Coherent(s2'[j]) /\ Store!Reconciled(j)'
        BY <1>0, <2>1, <2>3, <3>1, <3>2, <3>4 DEF Store!Coherent, Store!Reconciled, Store!Stages,
                                                  Store!Finished, Store!Legacy, Store!Underway
      <4>2. (Store!GivenAway(s2[j]) => Store!GivenAway(s2'[j])) /\ (Store!Uncounted(j) =>
            Store!Uncounted(j)')
        BY <2>1, <2>3, <3>4 DEF Store!Uncounted
      <4>3. QED
        BY <3>1, <4>1, <4>2
    <3>5. QED
      BY <3>3, <3>4
  <2>7. s3' \in Store!Openings
    BY <2>1 DEF Store!Openings
  <2>8. QED
    BY <1>0, <2>1, <2>5, <2>6, <2>7, RowsKeep
<1>4. CASE Store!ReconcileStopped
  <2> DEFINE Which(row) == row.stage \in {"transcribed", "cleanup", "replacements"}
             New(row) == [row EXCEPT !.state = "interrupted", !.stage = "interrupted"]
  <2>1. /\ s3' = "ambiguous" /\ UNCHANGED <<s1, s4, s5, s6, s7>>
        /\ s2' = [j \in Dictations |-> IF Store!Present(j) /\
           Which(s2[j]) THEN New(s2[j]) ELSE s2[j]]
        /\ s3 = "stopped"
    BY <1>4 DEF Store!ReconcileStopped, Store!Stopped, Store!Step, Store!Rewrite
  <2>2. ASSUME NEW j \in Dictations, Store!Present(j), Which(s2[j])
        PROVE  /\ s2'[j] \in Store!Rows /\ s2'[j].state = "interrupted" /\
                  s2'[j].stage = "interrupted" /\ s2'[j].status = s2[j].status
               /\ s2'[j].id = s2[j].id /\ s2'[j].allowed = s2[j].allowed
    <3>1. PICK row : row = New(s2[j])
      OBVIOUS
    <3>2. s2[j] \in Store!Rows /\ s2'[j] = row
      BY <1>0, <2>1, <2>2, <3>1
    <3>3. row = [s2[j] EXCEPT !.state = "interrupted", !.stage = "interrupted"]
      BY <3>1
    <3>4. "interrupted" \in Store!States /\ "interrupted" \in Store!AllStages
      BY DEF Store!States, Store!Statuses, Store!AllStages, Store!Stages
    <3>5. row \in Store!Rows
      BY <1>a, <1>b, <3>2, <3>3, <3>4
    <3>6. /\ row.state = "interrupted" /\ row.stage = "interrupted" /\ row.status = s2[j].status
          /\ row.id = s2[j].id /\ row.allowed = s2[j].allowed
      BY <1>b, <3>2, <3>3
    <3>7. QED
      BY <3>2, <3>5, <3>6
  <2>3. ASSUME NEW j \in Dictations, ~(Store!Present(j) /\ Which(s2[j])) PROVE s2'[j] = s2[j]
    BY <2>1, <2>3
  <2>4. \A j \in Dictations : s2'[j] \in Store!Rows
    BY <1>0, <2>2, <2>3
  <2>5. s2' \in [Dictations -> Store!Rows]
    BY <2>1, <2>4
  <2>6. ASSUME NEW j \in Dictations, Store!Present(j)'
        PROVE  /\ Store!Present(j) /\ Store!Coherent(s2'[j]) /\ Store!Reconciled(j)'
               /\ Store!GivenAway(s2[j]) => Store!GivenAway(s2'[j])
               /\ Store!Uncounted(j) => Store!Uncounted(j)'
    <3>1. Store!Present(j)
      BY <2>3, <2>6 DEF Store!Present
    <3>2. Store!Coherent(s2[j]) /\ Store!Reconciled(j)
      BY <1>0, <3>1
    <3>3. CASE Which(s2[j])
      <4>1. Store!Coherent(s2'[j]) /\ Store!Reconciled(j)'
        <5>1. Store!Coherent(s2'[j])
          BY <2>2, <3>1, <3>2, <3>3 DEF Store!Coherent, Store!Stages, Store!Finished,
                                        Store!Legacy, Store!Underway
        <5>2. s2'[j].id = s2[j].id /\ s2[j].id
          BY <2>1, <2>2, <3>1, <3>2, <3>3 DEF Store!Reconciled
        <5>3. s2'[j].stage \in Store!Stages \ (Store!Underway \cup {"delivering"})
          BY <2>2, <3>1, <3>3 DEF Store!Stages, Store!Underway
        <5>4. s2'[j].status # "attempting"
          BY <2>2, <3>1, <3>2, <3>3 DEF Store!Coherent, Store!Underway
        <5>5. QED
          BY <2>1, <5>1, <5>2, <5>3, <5>4 DEF Store!Reconciled
      <4>2. ~Store!GivenAway(s2[j]) \/ Store!GivenAway(s2'[j])
        BY <2>2, <3>1, <3>2, <3>3 DEF Store!Coherent, Store!GivenAway, Store!Underway
      <4>3. ~Store!Uncounted(j)
        BY <3>2, <3>3 DEF Store!Coherent, Store!Uncounted, Store!Underway
      <4>4. QED
        BY <3>1, <4>1, <4>2, <4>3
    <3>4. CASE ~Which(s2[j])
      <4>1. Store!Coherent(s2'[j]) /\ Store!Reconciled(j)'
        BY <1>0, <2>1, <2>3, <3>1, <3>2, <3>4 DEF Store!Coherent, Store!Reconciled, Store!Stages,
                                                  Store!Finished, Store!Legacy, Store!Underway
      <4>2. (Store!GivenAway(s2[j]) => Store!GivenAway(s2'[j])) /\ (Store!Uncounted(j) =>
            Store!Uncounted(j)')
        BY <2>1, <2>3, <3>4 DEF Store!Uncounted
      <4>3. QED
        BY <3>1, <4>1, <4>2
    <3>5. QED
      BY <3>3, <3>4
  <2>7. s3' \in Store!Openings
    BY <2>1 DEF Store!Openings
  <2>8. QED
    BY <1>0, <2>1, <2>5, <2>6, <2>7, RowsKeep
<1>5. CASE Store!ReconcileAmbiguous
  <2> DEFINE Which(row) == Store!Ambiguous(row)
             New(row) == [row EXCEPT !.state = "failed", !.stage = "failed",
                                   !.status = "ambiguous"]
  <2>1. /\ s3' = "interrupted" /\ UNCHANGED <<s1, s4, s5, s6, s7>>
        /\ s2' = [j \in Dictations |-> IF Store!Present(j) /\
           Which(s2[j]) THEN New(s2[j]) ELSE s2[j]]
        /\ s3 = "ambiguous"
    BY <1>5 DEF Store!ReconcileAmbiguous, Store!Step, Store!Rewrite
  <2>2. ASSUME NEW j \in Dictations, Store!Present(j), Which(s2[j])
        PROVE  /\ s2'[j] \in Store!Rows /\ s2'[j].state = "failed" /\ s2'[j].stage = "failed" /\
                  s2'[j].status = "ambiguous"
               /\ s2'[j].id = s2[j].id /\ s2'[j].allowed = s2[j].allowed
    <3>1. PICK row : row = New(s2[j])
      OBVIOUS
    <3>2. s2[j] \in Store!Rows /\ s2'[j] = row
      BY <1>0, <2>1, <2>2, <3>1
    <3>3. row = [s2[j] EXCEPT !.state = "failed", !.stage = "failed",
                                   !.status = "ambiguous"]
      BY <3>1
    <3>4. "failed" \in Store!States /\ "failed" \in Store!AllStages /\
          "ambiguous" \in Store!Statuses
      BY DEF Store!States, Store!Statuses, Store!AllStages, Store!Stages
    <3>5. row \in Store!Rows
      BY <1>a, <1>b, <3>2, <3>3, <3>4
    <3>6. /\ row.state = "failed" /\ row.stage = "failed" /\ row.status = "ambiguous"
          /\ row.id = s2[j].id /\ row.allowed = s2[j].allowed
      BY <1>b, <3>2, <3>3
    <3>7. QED
      BY <3>2, <3>5, <3>6
  <2>3. ASSUME NEW j \in Dictations, ~(Store!Present(j) /\ Which(s2[j])) PROVE s2'[j] = s2[j]
    BY <2>1, <2>3
  <2>4. \A j \in Dictations : s2'[j] \in Store!Rows
    BY <1>0, <2>2, <2>3
  <2>5. s2' \in [Dictations -> Store!Rows]
    BY <2>1, <2>4
  <2>6. ASSUME NEW j \in Dictations, Store!Present(j)'
        PROVE  /\ Store!Present(j) /\ Store!Coherent(s2'[j]) /\ Store!Reconciled(j)'
               /\ Store!GivenAway(s2[j]) => Store!GivenAway(s2'[j])
               /\ Store!Uncounted(j) => Store!Uncounted(j)'
    <3>1. Store!Present(j)
      BY <2>3, <2>6 DEF Store!Present
    <3>2. Store!Coherent(s2[j]) /\ Store!Reconciled(j)
      BY <1>0, <3>1
    <3>3. CASE Which(s2[j])
      <4>1. Store!Coherent(s2'[j]) /\ Store!Reconciled(j)'
        <5>1. Store!Coherent(s2'[j])
          BY <2>2, <3>1, <3>2, <3>3 DEF Store!Coherent, Store!Stages, Store!Finished,
                                        Store!Legacy, Store!Underway
        <5>2. s2'[j].id = s2[j].id /\ s2[j].id
          BY <2>1, <2>2, <3>1, <3>2, <3>3 DEF Store!Reconciled
        <5>3. s2'[j].stage \in Store!Stages \ (Store!Underway \cup {"delivering"})
          BY <2>2, <3>1, <3>3 DEF Store!Stages, Store!Underway
        <5>4. s2'[j].status # "attempting"
          BY <2>2, <3>1, <3>2, <3>3 DEF Store!Coherent, Store!Underway
        <5>5. QED
          BY <2>1, <5>1, <5>2, <5>3, <5>4 DEF Store!Reconciled
      <4>2. ~Store!GivenAway(s2[j]) \/ Store!GivenAway(s2'[j])
        BY <2>2, <3>1, <3>2, <3>3 DEF Store!Ambiguous, Store!PerhapsDelivered, Store!Coherent,
                                      Store!GivenAway, Store!Underway
      <4>3. ~Store!Uncounted(j)
        BY <3>2, <3>3 DEF Store!Ambiguous, Store!PerhapsDelivered, Store!Coherent,
                          Store!Uncounted, Store!Underway
      <4>4. QED
        BY <3>1, <4>1, <4>2, <4>3
    <3>4. CASE ~Which(s2[j])
      <4>1. Store!Coherent(s2'[j]) /\ Store!Reconciled(j)'
        BY <1>0, <2>1, <2>3, <3>1, <3>2, <3>4 DEF Store!Ambiguous, Store!PerhapsDelivered,
                                                  Store!Coherent, Store!Reconciled, Store!Stages,
                                                  Store!Finished, Store!Legacy, Store!Underway
      <4>2. (Store!GivenAway(s2[j]) => Store!GivenAway(s2'[j])) /\ (Store!Uncounted(j) =>
            Store!Uncounted(j)')
        BY <2>1, <2>3, <3>4 DEF Store!Uncounted
      <4>3. QED
        BY <3>1, <4>1, <4>2
    <3>5. QED
      BY <3>3, <3>4
  <2>7. s3' \in Store!Openings
    BY <2>1 DEF Store!Openings
  <2>8. QED
    BY <1>0, <2>1, <2>5, <2>6, <2>7, RowsKeep
<1>6. CASE Store!ReconcileInterrupted
  <2> DEFINE Which(row) == row.stage \in Store!Underway
             New(row) == [row EXCEPT !.state = "interrupted", !.stage = "interrupted"]
  <2>1. /\ s3' = "policy" /\ UNCHANGED <<s1, s4, s5, s6, s7>>
        /\ s2' = [j \in Dictations |-> IF Store!Present(j) /\
           Which(s2[j]) THEN New(s2[j]) ELSE s2[j]]
        /\ s3 = "interrupted"
    BY <1>6 DEF Store!ReconcileInterrupted, Store!Stopped, Store!Underway, Store!Step,
                Store!Rewrite
  <2>2. ASSUME NEW j \in Dictations, Store!Present(j), Which(s2[j])
        PROVE  /\ s2'[j] \in Store!Rows /\ s2'[j].state = "interrupted" /\
                  s2'[j].stage = "interrupted" /\ s2'[j].status = s2[j].status
               /\ s2'[j].id = s2[j].id /\ s2'[j].allowed = s2[j].allowed
    <3>1. PICK row : row = New(s2[j])
      OBVIOUS
    <3>2. s2[j] \in Store!Rows /\ s2'[j] = row
      BY <1>0, <2>1, <2>2, <3>1
    <3>3. row = [s2[j] EXCEPT !.state = "interrupted", !.stage = "interrupted"]
      BY <3>1
    <3>4. "interrupted" \in Store!States /\ "interrupted" \in Store!AllStages
      BY DEF Store!States, Store!Statuses, Store!AllStages, Store!Stages
    <3>5. row \in Store!Rows
      BY <1>a, <1>b, <3>2, <3>3, <3>4
    <3>6. /\ row.state = "interrupted" /\ row.stage = "interrupted" /\ row.status = s2[j].status
          /\ row.id = s2[j].id /\ row.allowed = s2[j].allowed
      BY <1>b, <3>2, <3>3
    <3>7. QED
      BY <3>2, <3>5, <3>6
  <2>3. ASSUME NEW j \in Dictations, ~(Store!Present(j) /\ Which(s2[j])) PROVE s2'[j] = s2[j]
    BY <2>1, <2>3
  <2>4. \A j \in Dictations : s2'[j] \in Store!Rows
    BY <1>0, <2>2, <2>3
  <2>5. s2' \in [Dictations -> Store!Rows]
    BY <2>1, <2>4
  <2>6. ASSUME NEW j \in Dictations, Store!Present(j)'
        PROVE  /\ Store!Present(j) /\ Store!Coherent(s2'[j]) /\ Store!Reconciled(j)'
               /\ Store!GivenAway(s2[j]) => Store!GivenAway(s2'[j])
               /\ Store!Uncounted(j) => Store!Uncounted(j)'
    <3>1. Store!Present(j)
      BY <2>3, <2>6 DEF Store!Present
    <3>2. Store!Coherent(s2[j]) /\ Store!Reconciled(j)
      BY <1>0, <3>1
    <3>3. CASE Which(s2[j])
      <4>1. Store!Coherent(s2'[j]) /\ Store!Reconciled(j)'
        <5>1. Store!Coherent(s2'[j])
          BY <2>2, <3>1, <3>2, <3>3 DEF Store!Coherent, Store!Stages, Store!Finished,
                                        Store!Legacy, Store!Underway
        <5>2. s2'[j].id = s2[j].id /\ s2[j].id
          BY <2>1, <2>2, <3>1, <3>2, <3>3 DEF Store!Reconciled
        <5>3. s2'[j].stage \in Store!Stages \ (Store!Underway \cup {"delivering"})
          BY <2>2, <3>1, <3>3 DEF Store!Stages, Store!Underway
        <5>4. s2'[j].status # "attempting"
          BY <2>2, <3>1, <3>2, <3>3 DEF Store!Coherent, Store!Underway
        <5>5. QED
          BY <2>1, <5>1, <5>2, <5>3, <5>4 DEF Store!Reconciled
      <4>2. ~Store!GivenAway(s2[j]) \/ Store!GivenAway(s2'[j])
        BY <2>2, <3>1, <3>2, <3>3 DEF Store!Coherent, Store!GivenAway, Store!Underway
      <4>3. ~Store!Uncounted(j)
        BY <3>2, <3>3 DEF Store!Coherent, Store!Uncounted, Store!Underway
      <4>4. QED
        BY <3>1, <4>1, <4>2, <4>3
    <3>4. CASE ~Which(s2[j])
      <4>1. Store!Coherent(s2'[j]) /\ Store!Reconciled(j)'
        BY <1>0, <2>1, <2>3, <3>1, <3>2, <3>4 DEF Store!Coherent, Store!Reconciled, Store!Stages,
                                                  Store!Finished, Store!Legacy, Store!Underway
      <4>2. (Store!GivenAway(s2[j]) => Store!GivenAway(s2'[j])) /\ (Store!Uncounted(j) =>
            Store!Uncounted(j)')
        BY <2>1, <2>3, <3>4 DEF Store!Uncounted
      <4>3. QED
        BY <3>1, <4>1, <4>2
    <3>5. QED
      BY <3>3, <3>4
  <2>7. s3' \in Store!Openings
    BY <2>1 DEF Store!Openings
  <2>8. QED
    BY <1>0, <2>1, <2>5, <2>6, <2>7, RowsKeep
<1>7. CASE Store!CompletionPolicy
  <2>1. /\ s2' \in [Dictations -> Store!Rows] /\ s3' \in Store!Openings
        /\ UNCHANGED <<s4, s5, s6, s7>> /\ s1 \subseteq s1'
        /\ s3' = "open" => "allowed" \in s1'
    BY <1>0, <1>7 DEF Store!CompletionPolicy, Store!Step, Store!Rewrite, Store!Rows, Store!Opened,
                      Store!Typed, Store!Openings
  <2>2. ASSUME NEW j \in Dictations, Store!Present(j)' PROVE Store!Present(j) /\
               Store!Coherent(s2'[j])
    BY <1>0, <1>7, <2>2 DEF Store!CompletionPolicy, Store!Step, Store!Rewrite, Store!Rows,
                            Store!Present, Store!Coherent, Store!Stages, Store!Finished,
                            Store!Legacy, Store!Underway
  <2>3. ASSUME NEW j \in Dictations, Store!Present(j)' PROVE Store!Reconciled(j)'
    BY <1>0, <1>7, <2>2, <2>3 DEF Store!CompletionPolicy, Store!Step, Store!Rewrite, Store!Rows,
                                  Store!Present, Store!Coherent, Store!Reconciled, Store!Stages,
                                  Store!Finished, Store!Legacy, Store!Underway
  <2>4. ASSUME NEW j \in Dictations, Store!Present(j)'
        PROVE  (Store!GivenAway(s2[j]) => Store!GivenAway(s2'[j])) /\ (Store!Uncounted(j) =>
               Store!Uncounted(j)')
    BY <1>0, <1>7, <2>2, <2>4 DEF Store!CompletionPolicy, Store!Step, Store!Rewrite, Store!Rows,
                                  Store!Present, Store!Coherent, Store!GivenAway, Store!Uncounted,
                                  Store!Stages, Store!Legacy, Store!Underway, Store!Finished
  <2>5. QED
    BY <1>0, <2>1, <2>2, <2>3, <2>4, RowsKeep
<1>8. QED
  BY <1>1, <1>2, <1>3, <1>4, <1>5, <1>6, <1>7 DEF Store!Opening

\* What an earlier version left is coherent, row by row;
LEMMA StoreInit == Store!Init => Store!Opened
<1> SUFFICES ASSUME Store!Init PROVE Store!Opened
  OBVIOUS
<1>1. \A row \in Store!PythonRows : row \in Store!Rows /\ Store!Coherent(row) /\
      (Store!Begun(row) => Store!GivenAway(row))
  <2> TAKE row \in Store!PythonRows
  <2>1. PICK state, stage, text : row = Store!Row(state, stage, text, "not_attempted")
                                        /\ text \in BOOLEAN
    BY DEF Store!PythonRows
  <2>2. /\ row.stage \in {"recording", "captured", "transcribed", "cleanup", "replacements",
                         "delivering", "delivered", "deleted"}
        /\ row.state \in {"active", "captured", "transcribed", "failed", "delivering",
           "delivered",
                         "deleted"}
        /\ row.stage \in {"delivering", "delivered", "deleted"} => row.state = row.stage
    BY DEF Store!PythonRows, Store!Row
  <2>3. row.state \in Store!States /\ row.stage \in Store!Stages \cup Store!Legacy /\
        "not_attempted" \in Store!Statuses
    BY <2>2 DEF Store!States, Store!Stages, Store!Legacy, Store!Statuses
  <2>4. row.status = "not_attempted" /\ row.state = state /\ row.stage = stage
    BY <2>1 DEF Store!Row
  <2>5. row \in Store!Rows
    BY <2>1, <2>3, <2>4 DEF Store!Rows, Store!AllStages, Store!Row
  <2>6. QED
    BY <2>2, <2>3, <2>4, <2>5 DEF Store!Coherent, Store!Begun, Store!GivenAway, Store!Finished
<1>2. \A row \in Store!EarlierRows : row \in Store!Rows /\ Store!Coherent(row) /\
      (Store!Begun(row) => Store!GivenAway(row))
  <2> TAKE row \in Store!EarlierRows
  <2>1. CASE \E stage \in {"starting", "captured", "cleaning", "ready_to_deliver", "no_speech"} :
               row = [Store!Row(Store!StateOf(stage), stage, stage = "ready_to_deliver",
                 "not_attempted")
                        EXCEPT !.id = TRUE]
    <3>1. PICK stage \in {"starting", "captured", "cleaning", "ready_to_deliver", "no_speech"} :
                 row = [Store!Row(Store!StateOf(stage), stage, stage = "ready_to_deliver",
                   "not_attempted")
                          EXCEPT !.id = TRUE]
      BY <2>1
    <3>2. PICK text : text = (stage = "ready_to_deliver") /\ text \in BOOLEAN
      OBVIOUS
    <3>3. PICK state \in Store!States : state = Store!StateOf(stage) /\ (stage = "no_speech" =>
          state \in Store!Finished)
      BY <3>1 DEF Store!StateOf, Store!States, Store!Finished
    <3>4. row = [state |-> state, stage |-> stage, text |-> text, status |-> "not_attempted",
                 id |-> TRUE, allowed |-> TRUE]
      BY <3>1, <3>2, <3>3 DEF Store!Row
    <3>5. stage \in Store!AllStages /\ "not_attempted" \in Store!Statuses
      BY <3>1 DEF Store!AllStages, Store!Stages, Store!Statuses
    <3>6. row \in Store!Rows
      BY <3>2, <3>3, <3>4, <3>5 DEF Store!Rows
    <3>7. QED
      BY <3>1, <3>3, <3>4, <3>6 DEF Store!Coherent, Store!Begun, Store!GivenAway, Store!Stages,
                                    Store!Finished
  <2>2. CASE row \in {[Store!Row("captured", "ready_to_deliver", TRUE,
             "attempting") EXCEPT !.id = TRUE],
                      [Store!Row("delivered", "delivered", TRUE, "committed") EXCEPT !.id = TRUE],
                      [Store!Row("failed", "failed", TRUE, "ambiguous") EXCEPT !.id = TRUE]}
    BY <2>2 DEF Store!Row, Store!Rows, Store!States, Store!AllStages, Store!Stages,
                Store!Statuses, Store!Coherent, Store!Begun, Store!GivenAway, Store!Finished
  <2>3. QED
    BY <2>1, <2>2 DEF Store!EarlierRows
<1>3. Store!NoRow \in Store!Rows
  BY DEF Store!NoRow, Store!Row, Store!Rows, Store!States, Store!AllStages, Store!Statuses
<1>4. s1 \in {{}, {"id", "status"}} /\
      s2 \in [Dictations -> {Store!NoRow} \cup Store!PythonRows \cup Store!EarlierRows]
  BY DEF Store!Init
<1>5. \A j \in Dictations :
        /\ s2[j] \in Store!Rows
        /\ Store!Present(j) => Store!Coherent(s2[j]) /\ (Store!Begun(s2[j]) =>
           Store!GivenAway(s2[j]))
  BY <1>1, <1>2, <1>3, <1>4 DEF Store!Present
<1>6. s3 = "closed" /\ s4 = Store!NoJob /\ s5 = {} /\ "allowed" \notin s1
  BY DEF Store!Init
<1>7. s6 \subseteq Dictations /\ \A j \in s6 : Store!Begun(s2[j])
  BY DEF Store!Init
<1>8. s7 \subseteq Dictations /\ \A j \in s7 : s2[j].stage = "delivered"
  BY DEF Store!Init
<1>9. Store!Typed
  BY <1>4, <1>5, <1>6, <1>7, <1>8 DEF Store!Typed, Store!Openings
<1>10. \A j \in Dictations : Store!Present(j) => Store!Coherent(s2[j]) /\ Store!Reconciled(j)
  BY <1>5, <1>6 DEF Store!Reconciled
<1>11. \A j \in s6 : Store!Present(j) => Store!GivenAway(s2[j])
  BY <1>5, <1>7
<1>12. \A j \in s7 : Store!Present(j) => Store!Uncounted(j)
  BY <1>6, <1>8 DEF Store!Uncounted
<1>13. QED
  BY <1>6, <1>9, <1>10, <1>11, <1>12 DEF Store!Opened, Store!OldStaysUncounted

\* A step of the running daemon touches one row, which nobody else works on.
LEMMA OneRow ==
  ASSUME Store!Opened, s3 = "open", UNCHANGED <<s1, s3>>, Store!NoJob \notin Dictations,
         NEW i \in Dictations, s2' \in [Dictations -> Store!Rows],
           \A j \in Dictations \ {i} : s2'[j] = s2[j],
         s4 \in {Store!NoJob, i} \/ s4' = s4, s4' \in {Store!NoJob, i} \/ s4' = s4,
         s6' \subseteq s6 \cup {i}, s7' \subseteq s7, Store!OldStaysUncounted',
         Store!Present(i)' =>
           /\ Store!Coherent(s2'[i]) /\ Store!Reconciled(i)'
           /\ i \in s6' => Store!GivenAway(s2'[i])
           /\ i \in s7' => Store!Uncounted(i)'
  PROVE  Store!Opened'
<1>1. Store!Typed' /\ "allowed" \in s1'
  BY DEF Store!Opened, Store!Typed
<1>2. ASSUME NEW j \in Dictations, Store!Present(j)'
      PROVE  /\ Store!Coherent(s2'[j]) /\ Store!Reconciled(j)'
             /\ j \in s6' => Store!GivenAway(s2'[j])
             /\ j \in s7' => Store!Uncounted(j)'
  <2>1. CASE j = i
    BY <1>2, <2>1
  <2>2. CASE j # i
    <3>1. s2'[j] = s2[j] /\ Store!Present(j) /\ (j \in s6' => j \in s6)
          /\ (j \in s7' => j \in s7)
      BY <1>2, <2>2 DEF Store!Present
    <3>2. Store!Coherent(s2[j]) /\ Store!Reconciled(j) /\ (j \in s6 => Store!GivenAway(s2[j]))
          /\ (j \in s7 => Store!Uncounted(j))
      BY <3>1 DEF Store!Opened
    <3>3. j = s4 => j = s4'
      BY <2>2
    <3>4. Store!Reconciled(j)'
      BY <3>1, <3>2, <3>3 DEF Store!Reconciled
    <3>5. Store!Uncounted(j) => Store!Uncounted(j)'
      BY <3>1 DEF Store!Uncounted
    <3>6. QED
      BY <3>1, <3>2, <3>4, <3>5
  <2>3. QED
    BY <2>1, <2>2
<1>3. s6' \subseteq Dictations /\ s7' \subseteq Dictations
  BY DEF Store!Opened, Store!Typed
<1>4. QED
  BY <1>1, <1>2, <1>3 DEF Store!Opened

\* The daemon writes in that order, and its clean-up counts what is marked;
LEMMA DaemonWrites ==
  ASSUME Store!Opened, Store!NoJob \notin Dictations,
         \/ Store!Checkpoint \/ Store!Submitted
         \/ \E j \in Dictations : Store!StartRecording(j) \/ Store!Attempt(j) \/ Store!CleanUp(j)
  PROVE  Store!Opened'
<1>0. s3 = "open" /\ UNCHANGED <<s1, s3>> /\ "allowed" \in s1 /\ Store!Typed
  BY DEF Store!Checkpoint, Store!Submitted, Store!StartRecording, Store!Attempt, Store!CleanUp,
     Store!Opened
<1>1. ASSUME NEW i \in Dictations, Store!StartRecording(i) PROVE Store!Opened'
  <2>1. s2' = [s2 EXCEPT ![i] = [Store!Row("active", "starting", FALSE, "not_attempted")
                                       EXCEPT !.id = TRUE]]
    BY <1>1 DEF Store!StartRecording
  <2>2. s2'[i] = [state |-> "active", stage |-> "starting", text |-> FALSE,
                    status |-> "not_attempted", id |-> TRUE, allowed |-> TRUE]
    BY <1>0, <2>1 DEF Store!Row, Store!Typed
  <2>3. s2'[i] \in Store!Rows
    BY <2>2 DEF Store!Rows, Store!States, Store!AllStages, Store!Stages, Store!Statuses
  <2>4. s2' \in [Dictations -> Store!Rows] /\ \A j \in Dictations \ {i} : s2'[j] = s2[j]
    BY <1>0, <2>1, <2>3 DEF Store!Typed
  <2>5. s4 = Store!NoJob /\ s4' = i /\ i \notin s6' /\ i \notin s7'
        /\ s6' \subseteq s6 /\ s7' \subseteq s7 /\ s5' \subseteq s5
    BY <1>1 DEF Store!StartRecording
  <2>6. Store!Coherent(s2'[i]) /\ Store!Reconciled(i)'
    <3>1. Store!Coherent(s2'[i])
      BY <2>2 DEF Store!Coherent, Store!Stages, Store!Finished
    <3>2. s2'[i].id /\ s2'[i].stage \in Store!Stages \ {"delivering"} /\ s4' = i
      BY <2>2, <2>5 DEF Store!Stages
    <3>3. QED
      BY <3>1, <3>2 DEF Store!Reconciled
  <2>7. Store!OldStaysUncounted'
    BY <2>5 DEF Store!Opened, Store!OldStaysUncounted
  <2>8. QED
    BY <1>0, <2>4, <2>5, <2>6, <2>7, OneRow
<1>2. ASSUME NEW i \in Dictations, s4 = i, Store!Checkpoint PROVE Store!Opened'
  <2> DEFINE Moves == {<<"starting", "recording">>, <<"recording", "captured">>,
               <<"captured", "transcribing">>, <<"transcribing", "cleaning">>,
               <<"cleaning", "ready_to_deliver">>, <<"transcribing", "no_speech">>}
  <2>1. PICK move \in Moves :
          /\ s2[i].stage = move[1]
          /\ s2' = [s2 EXCEPT ![i].stage = move[2], ![i].state = Store!StateOf(move[2]),
                                  ![i].text = move[2] = "ready_to_deliver"]
          /\ s4' = IF move[2] = "no_speech" THEN Store!NoJob ELSE i
          /\ UNCHANGED <<s1, s3, s5, s6, s7, s8, s9>>
    BY <1>2 DEF Store!Checkpoint
  <2>2. s2[i] \in Store!Rows
    BY <1>0 DEF Store!Typed
  <2>3. /\ move[1] \in Store!Underway \cup {"captured"} /\ move[2] \in Store!Stages
        /\ move[2] \in {"recording", "captured", "transcribing", "cleaning", "ready_to_deliver",
                        "no_speech"}
    BY <2>1 DEF Store!Underway, Store!Stages
  <2>4. PICK text : text = (move[2] = "ready_to_deliver") /\ text \in BOOLEAN
    OBVIOUS
  <2>5. PICK state \in Store!States : state = Store!StateOf(move[2]) /\ (move[2] = "no_speech" =>
        state \in Store!Finished)
    BY <2>3 DEF Store!StateOf, Store!States, Store!Finished
  <2>6. PICK new : new = [s2[i] EXCEPT !.stage = move[2], !.state = state, !.text = text]
    OBVIOUS
  <2>7. new \in Store!Rows /\ new.stage = move[2] /\ new.state = state /\
        new.status = s2[i].status
        /\ new.id = s2[i].id
    BY <2>2, <2>3, <2>4, <2>5, <2>6 DEF Store!Rows, Store!AllStages
  <2>8. s2' = [s2 EXCEPT ![i] = new]
    BY <1>0, <2>1, <2>2, <2>4, <2>5, <2>6 DEF Store!Typed
  <2>9. s2' \in [Dictations -> Store!Rows] /\ s2'[i] = new /\
        \A j \in Dictations \ {i} : s2'[j] = s2[j]
    BY <1>0, <2>7, <2>8 DEF Store!Typed
  <2>10. Store!Present(i)
    BY <2>1, <2>3 DEF Store!Present, Store!NoRow, Store!Row, Store!Underway
  <2>11. Store!Coherent(s2[i]) /\ Store!Reconciled(i)
    BY <2>10 DEF Store!Opened
  <2>12. i \notin s6 /\ i \notin s7
    BY <2>1, <2>3, <2>10 DEF Store!Opened, Store!GivenAway, Store!Uncounted, Store!Underway
  <2>13. new.status # "attempting" /\ new.id
    BY <1>0, <2>1, <2>3, <2>7, <2>11 DEF Store!Coherent, Store!Reconciled, Store!Underway
  <2>14. Store!Coherent(new)
    BY <2>3, <2>5, <2>7, <2>13 DEF Store!Coherent, Store!Finished
  <2>15. move[2] \in Store!Underway => s4' = i
    BY <2>1 DEF Store!Underway
  <2>16. Store!Reconciled(i)'
    <3>1. s2'[i].id /\ s2'[i].stage \in Store!Stages \ {"delivering"}
          /\ s2'[i].status # "attempting" /\ (s2'[i].stage \notin Store!Underway \/ i = s4')
      BY <2>3, <2>7, <2>9, <2>13, <2>15
    <3>2. QED
      BY <3>1 DEF Store!Reconciled
  <2>17. s6' \subseteq s6 /\ s7' \subseteq s7 /\ Store!OldStaysUncounted'
         /\ s4' \in {Store!NoJob, i}
    BY <2>1 DEF Store!Opened, Store!OldStaysUncounted
  <2>18. QED
    BY <1>0, <1>2, <2>9, <2>12, <2>14, <2>16, <2>17, OneRow
<1>3. ASSUME NEW i \in Dictations, Store!Attempt(i) PROVE Store!Opened'
  <2>1. /\ s2' = [s2 EXCEPT ![i].status = "attempting"] /\ s4 \in {Store!NoJob, i} /\ s4' = i
        /\ Store!Present(i) /\ s2[i].stage = "ready_to_deliver" /\ s2[i].status = "not_attempted"
        /\ s6' = s6 \cup {i} /\ UNCHANGED <<s5, s7>>
    BY <1>3 DEF Store!Attempt
  <2>2. s2[i] \in Store!Rows /\ "attempting" \in Store!Statuses
    BY <1>0 DEF Store!Typed, Store!Statuses
  <2>3. PICK new : new = [s2[i] EXCEPT !.status = "attempting"]
    OBVIOUS
  <2>4. new \in Store!Rows /\ new.stage = s2[i].stage /\ new.state = s2[i].state
        /\ new.status = "attempting" /\ new.id = s2[i].id /\ new.allowed = s2[i].allowed
    BY <2>2, <2>3 DEF Store!Rows
  <2>5. s2' = [s2 EXCEPT ![i] = new]
    BY <1>0, <2>1, <2>3 DEF Store!Typed
  <2>6. s2' \in [Dictations -> Store!Rows] /\ s2'[i] = new /\
        \A j \in Dictations \ {i} : s2'[j] = s2[j]
    BY <1>0, <2>4, <2>5 DEF Store!Typed
  <2>7. Store!Coherent(s2[i]) /\ Store!Reconciled(i)
    BY <2>1 DEF Store!Opened
  <2>8. Store!Coherent(new)
    BY <2>1, <2>4, <2>7 DEF Store!Coherent, Store!Finished
  <2>9. Store!Reconciled(i)'
    <3>1. s2'[i].id /\ s2'[i].stage \in Store!Stages \ {"delivering"} /\ i = s4'
      BY <1>0, <2>1, <2>4, <2>6, <2>7 DEF Store!Reconciled
    <3>2. QED
      BY <3>1 DEF Store!Reconciled
  <2>10. Store!GivenAway(new)
    BY <2>1, <2>4 DEF Store!GivenAway
  <2>11. i \notin s7'
    BY <2>1 DEF Store!Opened, Store!Uncounted
  <2>12. Store!OldStaysUncounted'
    BY <2>1 DEF Store!Opened, Store!OldStaysUncounted
  <2>13. QED
    BY <1>0, <2>1, <2>6, <2>8, <2>9, <2>10, <2>11, <2>12, OneRow
<1>4. ASSUME NEW i \in Dictations, s4 = i, Store!Submitted PROVE Store!Opened'
  <2>1. /\ s2' = [s2 EXCEPT ![i].stage = "delivered", ![i].state = "delivered",
                                ![i].status = "submitted"]
        /\ s4' = Store!NoJob /\ s2[i].status = "attempting" /\ UNCHANGED <<s6, s5, s7>>
    BY <1>4 DEF Store!Submitted
  <2>2. s2[i] \in Store!Rows /\ "delivered" \in Store!AllStages /\ "delivered" \in Store!States
        /\ "submitted" \in Store!Statuses
    BY <1>0 DEF Store!Typed, Store!Statuses, Store!AllStages, Store!Stages, Store!States
  <2>3. PICK new : new = [s2[i] EXCEPT !.stage = "delivered", !.state = "delivered",
                                          !.status = "submitted"]
    OBVIOUS
  <2>4. new \in Store!Rows /\ new.stage = "delivered" /\ new.state = "delivered"
        /\ new.status = "submitted" /\ new.id = s2[i].id /\ new.allowed = s2[i].allowed
    BY <2>2, <2>3 DEF Store!Rows
  <2>5. s2' = [s2 EXCEPT ![i] = new]
    BY <1>0, <2>1, <2>3 DEF Store!Typed
  <2>6. s2' \in [Dictations -> Store!Rows] /\ s2'[i] = new /\
        \A j \in Dictations \ {i} : s2'[j] = s2[j]
    BY <1>0, <2>4, <2>5 DEF Store!Typed
  <2>7. Store!Present(i)
    BY <2>1 DEF Store!Present, Store!NoRow, Store!Row
  <2>8. Store!Coherent(s2[i]) /\ Store!Reconciled(i) /\ (i \in s7 => Store!Uncounted(i))
    BY <2>7 DEF Store!Opened
  <2>9. Store!Coherent(new) /\ Store!GivenAway(new)
    BY <2>4 DEF Store!Coherent, Store!GivenAway, Store!Finished, Store!Stages
  <2>10. Store!Reconciled(i)'
    <3>1. s2'[i].id /\ s2'[i].stage \in Store!Stages \ (Store!Underway \cup {"delivering"})
          /\ s2'[i].status # "attempting"
      BY <1>0, <2>4, <2>6, <2>8 DEF Store!Reconciled, Store!Stages, Store!Underway
    <3>2. QED
      BY <3>1 DEF Store!Reconciled
  <2>11. i \notin s7'
    BY <2>1, <2>8 DEF Store!Coherent, Store!Uncounted
  <2>12. Store!OldStaysUncounted'
    BY <2>1 DEF Store!Opened, Store!OldStaysUncounted
  <2>13. QED
    BY <1>0, <1>4, <2>1, <2>6, <2>9, <2>10, <2>11, <2>12, OneRow
<1>5. ASSUME NEW i \in Dictations, Store!CleanUp(i) PROVE Store!Opened'
  <2>1. /\ s2' = [s2 EXCEPT ![i] = Store!NoRow] /\ Store!Present(i)
        /\ UNCHANGED <<s4, s6, s7>>
        /\ s5' \subseteq s5 \cup {i}
        /\ i \in s5' => i \in s5 \/ s2[i].allowed
    BY <1>5 DEF Store!CleanUp
  <2>2. Store!NoRow \in Store!Rows
    BY DEF Store!NoRow, Store!Row, Store!Rows, Store!States, Store!AllStages, Store!Statuses
  <2>3. s2' \in [Dictations -> Store!Rows] /\ s2'[i] = Store!NoRow /\
        \A j \in Dictations \ {i} : s2'[j] = s2[j]
    BY <1>0, <2>1, <2>2 DEF Store!Typed
  <2>4. i \in s7 => ~s2[i].allowed
    BY <1>0, <2>1 DEF Store!Opened, Store!Uncounted
  <2>5. Store!OldStaysUncounted'
    BY <2>1, <2>4 DEF Store!Opened, Store!OldStaysUncounted
  <2>6. ~Store!Present(i)'
    BY <2>3 DEF Store!Present
  <2>7. QED
    BY <1>0, <2>1, <2>3, <2>5, <2>6, OneRow
<1>6. ASSUME Store!Checkpoint \/ Store!Submitted PROVE s4 \in Dictations
  BY <1>0, <1>6 DEF Store!Checkpoint, Store!Submitted, Store!Typed
<1>7. QED
  BY <1>1, <1>2, <1>3, <1>4, <1>5, <1>6

\* hence every step keeps it, a crash at any point too,
LEMMA StoreStep ==
  ASSUME Store!Opened, Store!NoJob \notin Dictations, (Store!Next \/ UNCHANGED Store!vars)
  PROVE  Store!Opened'
<1>1. CASE Store!Crash
  <2>1. /\ s3' = "closed" /\ s4' = Store!NoJob
        /\ UNCHANGED <<s1, s2, s5, s6, s7>>
    BY <1>1 DEF Store!Crash
  <2>2. Store!Typed'
    BY <2>1 DEF Store!Opened, Store!Typed, Store!Openings
  <2>3. \A j \in Dictations : Store!Reconciled(j)'
    BY <2>1 DEF Store!Reconciled
  <2>4. \A j \in Dictations : Store!Present(j)' => Store!Coherent(s2'[j]) /\ Store!Reconciled(j)'
    BY <2>1, <2>3 DEF Store!Opened, Store!Present
  <2>5. /\ \A j \in s6' : Store!Present(j)' => Store!GivenAway(s2'[j])
        /\ \A j \in s7' : Store!Present(j)' => Store!Uncounted(j)'
        /\ Store!OldStaysUncounted'
    BY <2>1 DEF Store!Opened, Store!Present, Store!Uncounted, Store!OldStaysUncounted
  <2>6. QED
    BY <2>1, <2>2, <2>4, <2>5 DEF Store!Opened
<1>2. CASE Store!Opening
  BY <1>2, OpeningKeeps
<1>3. CASE UNCHANGED Store!vars
  BY <1>3 DEF Store!vars, Store!Opened, Store!Typed, Store!Present, Store!Reconciled,
              Store!Uncounted, Store!OldStaysUncounted
<1>4. QED
  BY <1>1, <1>2, <1>3, DaemonWrites DEF Store!Next

\* and a database that is open strands nothing, sends nothing twice and counts no old job.
LEMMA StoreFollows == Store!Opened => Store!NothingIsStranded /\ Store!NeverSentTwice /\
  Store!OldStaysUncounted
<1> SUFFICES ASSUME Store!Opened PROVE Store!NothingIsStranded /\ Store!NeverSentTwice /\
  Store!OldStaysUncounted
  OBVIOUS
<1>1. ASSUME NEW j \in Store!Recoverable, s3 = "open"
      PROVE  Store!Readable(j) /\ (j # s4 /\ s2[j].status # "attempting" =>
               s2[j].stage \in {"captured", "ready_to_deliver", "interrupted", "failed",
                 "canceled"})
  <2>1. Store!Present(j) /\ Store!Coherent(s2[j]) /\ Store!Reconciled(j) /\
        s2[j].state \notin Store!Finished
    BY <1>1 DEF Store!Recoverable, Store!Opened
  <2>2. s2[j].id /\ s2[j].stage \in Store!Stages /\ s2[j].stage \notin Store!Finished
        /\ s2[j].stage # "delivering" /\ (s2[j].stage \notin Store!Underway \/ j = s4)
    BY <1>1, <2>1 DEF Store!Reconciled, Store!Coherent
  <2>3. QED
    BY <2>2 DEF Store!Readable, Store!Stages, Store!Underway, Store!Finished
<1>2. Store!NothingIsStranded
  BY <1>1 DEF Store!NothingIsStranded, Store!RecoveryEntries
<1>3. ASSUME NEW j \in s6, s3 = "open", Store!Present(j), s2[j].stage = "ready_to_deliver"
      PROVE  j = s4 /\ s2[j].status = "attempting"
  BY <1>3 DEF Store!Opened, Store!Typed, Store!GivenAway, Store!Reconciled
<1>4. QED
  BY <1>2, <1>3 DEF Store!NeverSentTwice, Store!Opened

-----------------------------------------------------------------------------
(* Live transcription.                                                     *)

\* No recording, no session and no text: the invariant holds at the start,
LEMMA LiveInit == Live!Init => Live!Reading
<1> SUFFICES ASSUME Live!Init PROVE Live!Reading
  OBVIOUS
<1>1. 0 \in 0..MaxJobs /\ 0 \in 0..MaxAudio + 1 /\ Live!NoSize \in Nat
  BY RecordingsAssumption DEF Live!NoSize
<1>2. Live!Typed
  BY <1>1 DEF Live!Init, Live!Typed, Live!Files, Live!Threads
<1>3. Live!Recorded
  BY DEF Live!Init, Live!Recorded
<1>4. \A j \in Live!Jobs : Live!Read(j, s5[j])
  BY <1>1 DEF Live!Init, Live!Read
<1>5. QED
  BY <1>2, <1>3, <1>4 DEF Live!Reading, Live!Init

\* A thread that is told to give up goes on with what it has.
LEMMA LiveDropped ==
  ASSUME NEW s \in [Live!Jobs -> Live!Threads], NEW j \in 0..MaxJobs
  PROVE  /\ Live!Dropped(s, j) \in [Live!Jobs -> Live!Threads]
         /\ \A i \in Live!Jobs :
              /\ Live!Dropped(s, j)[i].command = IF i = j THEN "cancel" ELSE s[i].command
              /\ Live!Dropped(s, j)[i].state = s[i].state
              /\ Live!Dropped(s, j)[i].position = s[i].position
              /\ Live!Dropped(s, j)[i].end = s[i].end
              /\ Live!Dropped(s, j)[i].committed = s[i].committed
<1>1. CASE j = 0
  BY <1>1, RecordingsAssumption DEF Live!Dropped, Live!Jobs
<1>2. CASE j # 0
  <2>1. j \in Live!Jobs
    BY <1>2, RecordingsAssumption DEF Live!Jobs
  <2>2. PICK t : t = [s[j] EXCEPT !.command = "cancel"]
    OBVIOUS
  <2>3. /\ t \in Live!Threads /\ t.command = "cancel" /\ t.state = s[j].state
        /\ t.position = s[j].position /\ t.end = s[j].end /\ t.committed = s[j].committed
    BY <2>1, <2>2 DEF Live!Threads
  <2>4. Live!Dropped(s, j) = [s EXCEPT ![j] = t]
    BY <1>2, <2>2 DEF Live!Dropped
  <2>5. QED
    BY <2>1, <2>3, <2>4
<1>3. QED
  BY <1>1, <1>2

\* A step of a thread leaves the rest as it is.
LEMMA ThreadReads ==
  ASSUME Live!Reading, NEW n \in Live!Jobs, NEW t \in Live!Threads, s5' = [s5 EXCEPT ![n] = t],
         UNCHANGED <<s1, s2, s3, s4, s6, s7>>, Live!Read(n, t), s5[n].state = "ok" => t.state = "ok"
  PROVE  Live!Reading'
<1>1. /\ s5 \in [Live!Jobs -> Live!Threads] /\ s5' \in [Live!Jobs -> Live!Threads] /\ s5'[n] = t
      /\ \A j \in Live!Jobs : j # n => s5'[j] = s5[j]
  BY DEF Live!Reading, Live!Typed
<1>2. Live!Typed' /\ Live!Recorded'
  BY <1>1 DEF Live!Reading, Live!Typed, Live!Recorded
<1>3. ASSUME NEW j \in Live!Jobs PROVE Live!Read(j, s5'[j])
  BY <1>1 DEF Live!Reading
<1>4. ASSUME NEW j \in Live!Jobs PROVE Live!Read(j, s5[j])'
  BY <1>3 DEF Live!Read, Live!Ended
<1>5. (s7.from = "live" => s7.job \in Live!Jobs /\ s5[s7.job].state = "ok")'
  BY <1>1 DEF Live!Reading
<1>6. QED
  BY <1>2, <1>4, <1>5 DEF Live!Reading

\* Each of its steps keeps the invariant:
LEMMA ThreadKeeps ==
  ASSUME Live!Reading, NEW n \in Live!Jobs,
         \/ Live!SessionReady(n) \/ Live!SessionFails(n) \/ Live!ReadChunk(n)
         \/ Live!ReadRefused(n) \/ Live!Commit(n) \/ Live!Completed(n)
  PROVE  Live!Reading'
<1>0. s5[n] \in Live!Threads /\ Live!Read(n, s5[n]) /\ s5 \in [Live!Jobs -> Live!Threads]
  BY DEF Live!Reading, Live!Typed
<1>1. CASE Live!SessionReady(n)
  <2>1. PICK t : t = [s5[n] EXCEPT !.ready = TRUE]
    OBVIOUS
  <2>2. s5' = [s5 EXCEPT ![n] = t] /\ UNCHANGED <<s1, s2, s3, s4, s6, s7>>
    BY <1>1, <2>1 DEF Live!SessionReady
  <2>3. /\ t \in Live!Threads /\ t.command = s5[n].command /\ t.state = s5[n].state
        /\ t.position = s5[n].position /\ t.end = s5[n].end /\ t.committed = s5[n].committed
    BY <1>0, <2>1 DEF Live!Threads
  <2>4. Live!Read(n, t)
    BY <1>0, <2>3 DEF Live!Read
  <2>5. QED
    BY <2>2, <2>3, <2>4, ThreadReads
<1>2. CASE Live!SessionFails(n) \/ Live!ReadRefused(n)
  <2>1. PICK t : t = [s5[n] EXCEPT !.state = "failed"]
    OBVIOUS
  <2>2. /\ s5' = [s5 EXCEPT ![n] = t] /\ UNCHANGED <<s1, s2, s3, s4, s6, s7>>
        /\ s5[n].state = "running"
    BY <1>2, <2>1 DEF Live!SessionFails, Live!ReadRefused, Live!Streams
  <2>3. /\ t \in Live!Threads /\ t.command = s5[n].command /\ t.state = "failed"
        /\ t.position = s5[n].position /\ t.end = s5[n].end /\ t.committed = s5[n].committed
    BY <1>0, <2>1 DEF Live!Threads
  <2>4. Live!Read(n, t)
    BY <1>0, <2>2, <2>3 DEF Live!Read
  <2>5. QED
    BY <2>2, <2>3, <2>4, ThreadReads
<1>3. CASE Live!Completed(n)
  <2>1. PICK t : t = [s5[n] EXCEPT !.state = "ok"]
    OBVIOUS
  <2>2. /\ s5' = [s5 EXCEPT ![n] = t] /\ UNCHANGED <<s1, s2, s3, s4, s6, s7>>
        /\ s5[n].state = "running" /\ s5[n].committed
    BY <1>3, <2>1 DEF Live!Completed, Live!Streams
  <2>3. /\ t \in Live!Threads /\ t.command = s5[n].command /\ t.state = "ok"
        /\ t.position = s5[n].position /\ t.end = s5[n].end /\ t.committed = s5[n].committed
    BY <1>0, <2>1 DEF Live!Threads
  <2>4. Live!Read(n, t)
    BY <1>0, <2>2, <2>3 DEF Live!Read
  <2>5. QED
    BY <2>2, <2>3, <2>4, ThreadReads
<1>4. Live!ReadEnd(n) \in Nat
  <2>1. s3[n].size \in Nat
    BY RecordingsAssumption DEF Live!Reading, Live!Typed, Live!Files
  <2>2. s5[n].end \in Nat /\ Live!NoSize \in Nat
    BY <1>0, RecordingsAssumption DEF Live!Threads, Live!NoSize
  <2>3. QED
    BY <2>1, <2>2 DEF Live!ReadEnd
<1>5. ASSUME s5[n].command = "finish", Live!ReadEnd(n) # Live!NoSize
      PROVE  Live!ReadEnd(n) = s3[n].pcm /\ Live!Ended(n)
  <2>1. s3[n].size \in Nat
    BY RecordingsAssumption DEF Live!Reading, Live!Typed, Live!Files
  <2>2. QED
    BY <1>0, <1>5, <2>1 DEF Live!ReadEnd, Live!Read
<1>6. CASE Live!ReadChunk(n)
  <2>1. PICK p \in Nat :
          s5' = [s5 EXCEPT ![n].position = p,
                           ![n].end = IF s5[n].command = "finish" THEN Live!ReadEnd(n) ELSE @]
    <3>1. /\ s3[n].pcm \in Nat /\ s3[n].tail \in Nat
      BY RecordingsAssumption DEF Live!Reading, Live!Typed, Live!Files
    <3>2. s5[n].position \in Nat
      BY <1>0 DEF Live!Threads
    <3>3. PICK limit : limit = IF Live!ReadEnd(n) < s3[n].pcm + s3[n].tail
                              THEN Live!ReadEnd(n) ELSE s3[n].pcm + s3[n].tail
      OBVIOUS
    <3>4. limit \in Nat
      BY <1>4, <3>1, <3>3
    <3>5. \E p \in (s5[n].position + 1)..limit :
            s5' = [s5 EXCEPT ![n].position = p,
                             ![n].end = IF s5[n].command = "finish" THEN Live!ReadEnd(n) ELSE @]
      BY <1>6, <3>3 DEF Live!ReadChunk
    <3>6. (s5[n].position + 1)..limit \subseteq Nat
      BY <3>2, <3>4
    <3>7. QED
      BY <3>5, <3>6
  <2>2. PICK end : end = IF s5[n].command = "finish" THEN Live!ReadEnd(n) ELSE s5[n].end
    OBVIOUS
  <2>3. PICK t : t = [s5[n] EXCEPT !.position = p, !.end = end]
    OBVIOUS
  <2>4. s5' = [s5 EXCEPT ![n] = t]
    BY <1>0, <2>1, <2>2, <2>3
  <2>5. /\ ~s5[n].committed /\ UNCHANGED <<s1, s2, s3, s4, s6, s7>>
        /\ s5[n].command = "finish" => Live!ReadEnd(n) # Live!NoSize
        /\ s5[n].state = "running"
    BY <1>6 DEF Live!ReadChunk, Live!Streams
  <2>6. end \in Nat
    BY <1>0, <1>4, <2>2 DEF Live!Threads
  <2>7. /\ t \in Live!Threads /\ t.command = s5[n].command /\ t.state = s5[n].state
        /\ t.end = end /\ t.committed = s5[n].committed
    BY <1>0, <2>1, <2>3, <2>6 DEF Live!Threads
  <2>8. end # Live!NoSize => Live!Ended(n) /\ end = s3[n].pcm
    BY <1>0, <1>5, <2>2, <2>5 DEF Live!Read
  <2>9. Live!Read(n, t)
    BY <1>0, <2>2, <2>5, <2>7, <2>8 DEF Live!Read
  <2>10. QED
    BY <2>4, <2>5, <2>7, <2>9, ThreadReads
<1>7. CASE Live!Commit(n)
  <2>1. PICK end : end = Live!ReadEnd(n)
    OBVIOUS
  <2>2. PICK t : t = [s5[n] EXCEPT !.committed = TRUE, !.end = end]
    OBVIOUS
  <2>3. /\ s5' = [s5 EXCEPT ![n] = t] /\ UNCHANGED <<s1, s2, s3, s4, s6, s7>>
        /\ s5[n].state = "running" /\ s5[n].command = "finish" /\ end # Live!NoSize
        /\ ~(s5[n].position > end) /\ s5[n].position >= end
    BY <1>0, <1>7, <2>1, <2>2 DEF Live!Commit, Live!Streams, Live!BeyondEnd
  <2>4. s5[n].position \in Nat /\ end \in Nat
    BY <1>0, <1>4, <2>1 DEF Live!Threads
  <2>5. s5[n].position = end
    BY <2>3, <2>4
  <2>6. /\ t \in Live!Threads /\ t.command = s5[n].command /\ t.state = s5[n].state
        /\ t.end = end /\ t.position = s5[n].position
    BY <1>0, <2>2, <2>4 DEF Live!Threads
  <2>7. Live!Read(n, t)
    BY <1>0, <1>5, <2>1, <2>3, <2>5, <2>6 DEF Live!Read
  <2>8. QED
    BY <2>3, <2>6, <2>7, ThreadReads
<1>8. QED
  BY <1>1, <1>2, <1>3, <1>6, <1>7


\* The recorder writes only the newest recording, and rewrites no header after it ended.
LEMMA WavReads ==
  ASSUME Live!Reading, NEW pcm \in 0..MaxAudio + 1, NEW size \in 0..MaxAudio + 1,
         NEW tail \in {0, 1}, NEW n \in Live!Jobs, n = s2.job, ~Live!Ended(n),
         s3' = [s3 EXCEPT ![n] = [pcm |-> pcm, size |-> size, tail |-> tail]],
         NEW state \in {"recording", "closing", "stopped"},
         s2' = [job |-> n, state |-> state],
         state = "stopped" => size \in {0, pcm},
         state # "stopped" /\ ~s1 => size = 0,
         state = "closing" => ~s1,
         UNCHANGED <<s1, s4, s5, s6, s7>>
  PROVE  Live!Reading'
<1>1. /\ s3 \in [Live!Jobs -> Live!Files] /\ s3' \in [Live!Jobs -> Live!Files]
      /\ s3'[n].pcm = pcm /\ s3'[n].size = size
      /\ \A j \in Live!Jobs : j # n => s3'[j] = s3[j]
  BY DEF Live!Reading, Live!Typed, Live!Files
<1>2. s2'.job = n /\ s2'.state = state /\ n \in 1..MaxJobs /\ n # 0
  BY RecordingsAssumption DEF Live!Jobs
<1>3. Live!Typed'
  BY <1>1, <1>2 DEF Live!Reading, Live!Typed
<1>4. Live!Recorded'
  BY <1>1, <1>2 DEF Live!Reading, Live!Recorded, Live!Ended
<1>5. ASSUME NEW j \in Live!Jobs PROVE Live!Read(j, s5[j])'
  <2>1. Live!Read(j, s5[j])
    BY DEF Live!Reading
  <2>2. Live!Ended(j) => j # n /\ Live!Ended(j)'
    BY <1>2 DEF Live!Ended
  <2>3. j > n => j # n
    BY <1>2 DEF Live!Jobs
  <2>4. QED
    BY <1>1, <1>2, <2>1, <2>2, <2>3 DEF Live!Read, Live!NoSize
<1>6. QED
  BY <1>3, <1>4, <1>5 DEF Live!Reading

\* So the recorder keeps the invariant,
LEMMA RecorderKeeps ==
  ASSUME Live!Reading, Live!Write \/ Live!FlushHeader \/ Live!WriteTail \/ Live!StopRecording
  PROVE  Live!Reading'
<1>1. PICK n : n = s2.job
  OBVIOUS
<1>2. /\ n \in Live!Jobs /\ s2 = [job |-> n, state |-> s2.state] /\ ~Live!Ended(n)
      /\ s2.state \in {"recording", "closing"} /\ n \in 1..MaxJobs
  <2>1. /\ s2 \in [job : 0..MaxJobs, state : {"idle", "recording", "closing", "stopped"}]
        /\ s2.state \in {"recording", "closing"} /\ s2.job # 0
    BY DEF Live!Reading, Live!Typed, Live!Recorded, Live!Write, Live!FlushHeader, Live!WriteTail,
           Live!StopRecording
  <2>2. n \in 1..MaxJobs
    BY <1>1, <2>1, RecordingsAssumption
  <2>3. QED
    BY <1>1, <2>1, <2>2 DEF Live!Jobs, Live!Ended
<1>3. PICK pcm, size, tail : pcm = s3[n].pcm /\ size = s3[n].size /\ tail = s3[n].tail
  OBVIOUS
<1>4. /\ pcm \in 0..MaxAudio + 1 /\ size \in 0..MaxAudio + 1 /\ tail \in {0, 1}
      /\ s3[n] = [pcm |-> pcm, size |-> size, tail |-> tail] /\ s3 \in [Live!Jobs -> Live!Files]
  BY <1>2, <1>3 DEF Live!Reading, Live!Typed, Live!Files
<1>5. /\ ~s1 => size = 0
      /\ s2.state = "closing" => ~s1
  BY <1>1, <1>2, <1>3 DEF Live!Reading, Live!Recorded
<1>6. CASE Live!Write
  <2>1. PICK more : more = pcm + 1
    OBVIOUS
  <2>2. more \in 0..MaxAudio + 1
    BY <1>1, <1>3, <1>4, <1>6, <2>1, RecordingsAssumption DEF Live!Write
  <2>3. s3' = [s3 EXCEPT ![n] = [s3[n] EXCEPT !.pcm = more]]
    BY <1>1, <1>2, <1>3, <1>4, <1>6, <2>1 DEF Live!Write
  <2>4. [s3[n] EXCEPT !.pcm = more] = [pcm |-> more, size |-> size, tail |-> tail]
    BY <1>4
  <2>5. s2' = s2 /\ UNCHANGED <<s1, s4, s5, s6, s7>> /\ s2.state = "recording"
    BY <1>6 DEF Live!Write
  <2>6. s3' = [s3 EXCEPT ![n] = [pcm |-> more, size |-> size, tail |-> tail]]
    BY <2>3, <2>4
  <2>7. s2' = [job |-> n, state |-> "recording"]
    BY <1>2, <2>5
  <2>8. QED
    BY <1>1, <1>2, <1>4, <1>5, <2>2, <2>5, <2>6, <2>7, WavReads
<1>7. CASE Live!FlushHeader
  <2>1. s3' = [s3 EXCEPT ![n] = [s3[n] EXCEPT !.size = pcm]]
    BY <1>1, <1>2, <1>3, <1>4, <1>7 DEF Live!FlushHeader
  <2>2. [s3[n] EXCEPT !.size = pcm] = [pcm |-> pcm, size |-> pcm, tail |-> tail]
    BY <1>4
  <2>3. s2' = s2 /\ UNCHANGED <<s1, s4, s5, s6, s7>> /\ s2.state = "recording" /\ s1
    BY <1>7 DEF Live!FlushHeader
  <2>4. s3' = [s3 EXCEPT ![n] = [pcm |-> pcm, size |-> pcm, tail |-> tail]]
    BY <2>1, <2>2
  <2>5. s2' = [job |-> n, state |-> "recording"]
    BY <1>2, <2>3
  <2>6. QED
    BY <1>1, <1>2, <1>4, <2>3, <2>4, <2>5, WavReads
<1>8. CASE Live!WriteTail
  <2>1. s3' = [s3 EXCEPT ![n] = [s3[n] EXCEPT !.tail = 1]]
    BY <1>1, <1>2, <1>4, <1>8 DEF Live!WriteTail
  <2>2. [s3[n] EXCEPT !.tail = 1] = [pcm |-> pcm, size |-> size, tail |-> 1]
    BY <1>4
  <2>3. s2' = [job |-> n, state |-> "closing"] /\ UNCHANGED <<s1, s4, s5, s6, s7>> /\ ~s1
    BY <1>1, <1>2, <1>8 DEF Live!WriteTail
  <2>4. QED
    BY <1>1, <1>2, <1>4, <1>5, <2>1, <2>2, <2>3, WavReads
<1>9. CASE Live!StopRecording
  <2>1. PICK told \in {size, pcm} :
          /\ s3' = [s3 EXCEPT ![n] = [pcm |-> pcm, size |-> told, tail |-> tail]]
          /\ told = size => ~s1 \/ size = pcm
    BY <1>1, <1>4, <1>9 DEF Live!StopRecording
  <2>2. s2' = [job |-> n, state |-> "stopped"] /\ UNCHANGED <<s1, s4, s5, s6, s7>>
    BY <1>1, <1>2, <1>9 DEF Live!StopRecording
  <2>3. told \in {0, pcm} /\ told \in 0..MaxAudio + 1
    BY <1>4, <1>5, <2>1
  <2>4. QED
    BY <1>1, <1>2, <1>4, <2>1, <2>2, <2>3, WavReads
<1>10. QED
  BY <1>6, <1>7, <1>8, <1>9

\* and so does the daemon, when it begins or cancels a recording,
LEMMA RecordingKeeps ==
  ASSUME Live!Reading, Live!BeginRecording \/ Live!CancelRecording
  PROVE  Live!Reading'
<1>0. /\ Live!Typed /\ Live!Recorded /\ \A j \in Live!Jobs : Live!Read(j, s5[j])
      /\ s7.from = "live" => s7.job \in Live!Jobs /\ s5[s7.job].state = "ok"
      /\ s2.job \in 0..MaxJobs /\ s4 \in 0..MaxJobs /\ s5 \in [Live!Jobs -> Live!Threads]
  BY DEF Live!Reading, Live!Typed
<1>1. PICK d : d = Live!Dropped(s5, s4)
  OBVIOUS
<1>2. /\ d \in [Live!Jobs -> Live!Threads]
      /\ \A i \in Live!Jobs :
           /\ d[i].command = IF i = s4 THEN "cancel" ELSE s5[i].command
           /\ d[i].state = s5[i].state /\ d[i].position = s5[i].position
           /\ d[i].end = s5[i].end /\ d[i].committed = s5[i].committed
  BY <1>0, <1>1, LiveDropped
<1>3. CASE Live!BeginRecording
  <2>1. PICK n : n = s2.job + 1
    OBVIOUS
  <2>2. /\ n \in 1..MaxJobs /\ n > s2.job /\ n # 0 /\ n # s2.job
        /\ \A j \in Live!Jobs : j > n \/ j < n \/ j = n
        /\ \A j \in Live!Jobs : j > n => j > s2.job /\ j # s2.job /\ j # 0
        /\ \A j \in Live!Jobs : (j < s2.job \/ j = s2.job) => j < n /\ j # n
    <3>1. s2.job \in 0..MaxJobs /\ s2.job < MaxJobs /\ MaxJobs \in Nat
      BY <1>0, <1>3, RecordingsAssumption DEF Live!BeginRecording
    <3>2. n \in 1..MaxJobs /\ n > s2.job /\ n # 0 /\ n # s2.job
      BY <2>1, <3>1
    <3>3. ASSUME NEW j \in Live!Jobs
          PROVE  /\ j > n \/ j < n \/ j = n
                 /\ j > n => j > s2.job /\ j # s2.job /\ j # 0
                 /\ (j < s2.job \/ j = s2.job) => j < n /\ j # n
      <4>1. j \in 1..MaxJobs
        BY DEF Live!Jobs
      <4>2. QED
        BY <2>1, <3>1, <4>1
    <3>4. QED
      BY <3>2, <3>3
  <2>3. /\ s2' = [job |-> n, state |-> "recording"] /\ s3' = [s3 EXCEPT ![n].pcm = 1]
        /\ UNCHANGED <<s1, s6, s7>> /\ s6.state = "none" /\ n \in Live!Jobs
        /\ s2.state # "recording"
    BY <1>3, <2>1, <2>2 DEF Live!BeginRecording, Live!Jobs
  <2>4. /\ s3 \in [Live!Jobs -> Live!Files] /\ s3' \in [Live!Jobs -> Live!Files]
        /\ s3'[n].size = s3[n].size /\ \A j \in Live!Jobs : j # n => s3'[j] = s3[j]
    <3>1. 1 \in 0..MaxAudio + 1
      BY RecordingsAssumption
    <3>2. QED
      BY <1>0, <2>3, <3>1 DEF Live!Typed, Live!Files
  <2>5. \/ s4' = 0 /\ s5' = d
        \/ s4' = n /\ s5' = [d EXCEPT ![n].state = "running"]
    BY <1>1, <1>3, <2>3 DEF Live!BeginRecording
  <2>6. /\ s5' \in [Live!Jobs -> Live!Threads]
        /\ \A i \in Live!Jobs :
             /\ s5'[i].command = d[i].command /\ s5'[i].position = d[i].position
             /\ s5'[i].end = d[i].end /\ s5'[i].committed = d[i].committed
             /\ s5'[i].state = IF i = n /\ s4' = n THEN "running" ELSE d[i].state
    <3>1. CASE s4' = 0 /\ s5' = d
      BY <1>2, <2>2, <3>1
    <3>2. CASE s4' = n /\ s5' = [d EXCEPT ![n].state = "running"]
      <4>1. PICK t : t = [d[n] EXCEPT !.state = "running"]
        OBVIOUS
      <4>2. /\ t \in Live!Threads /\ t.command = d[n].command /\ t.state = "running"
            /\ t.position = d[n].position /\ t.end = d[n].end /\ t.committed = d[n].committed
        BY <1>2, <2>3, <4>1 DEF Live!Threads
      <4>3. s5' = [d EXCEPT ![n] = t]
        BY <3>2, <4>1
      <4>4. QED
        BY <1>2, <2>3, <3>2, <4>2, <4>3
    <3>3. QED
      BY <2>5, <3>1, <3>2
  <2>7. s4' \in {0, n} /\ s4' \in 0..MaxJobs /\ n \in 0..MaxJobs
    BY <2>2, <2>5, RecordingsAssumption
  <2>8. Live!Typed' /\ Live!Recorded'
    <3>1. Live!Typed'
      BY <1>0, <2>3, <2>4, <2>6, <2>7 DEF Live!Typed
    <3>2. s3[n].size = 0
      BY <1>0, <2>2, <2>3 DEF Live!Read
    <3>3. Live!Recorded'
      BY <1>0, <2>2, <2>3, <2>4, <2>7, <3>2 DEF Live!Recorded
    <3>4. QED
      BY <3>1, <3>3
  <2>9. ASSUME NEW j \in Live!Jobs PROVE Live!Read(j, s5[j])'
    <3>1. Live!Read(j, s5[j])
      BY <1>0
    <3>2. Live!Ended(j) => Live!Ended(j)' /\ j # n
      <4>1. s2'.job = n
        BY <2>3
      <4>2. QED
        BY <2>2, <4>1 DEF Live!Ended
    <3>3. s4 # 0 => s4 = s2.job
      BY <1>0 DEF Live!Recorded
    <3>4. CASE j = n
      <4>1. /\ s5'[j].command = "running" /\ s5'[j].end = Live!NoSize /\ ~s5'[j].committed
            /\ s5'[j].state = IF s4' = n THEN "running" ELSE "none"
        BY <1>2, <2>2, <2>6, <3>1, <3>2, <3>3, <3>4 DEF Live!Read
      <4>2. ~(j > s2'.job) /\ s2'.job = n
        BY <2>2, <2>3, <3>4
      <4>3. QED
        BY <3>4, <4>1, <4>2 DEF Live!Read
    <3>5. CASE j # n
      <4>1. s2'.job = n /\ s3'[j] = s3[j] /\ s6' = s6
        BY <2>3, <2>4, <3>5
      <4>2. j > n => j > s2.job /\ j # s4
        BY <2>2, <3>3
      <4>3. /\ s5'[j].command = IF j = s4 THEN "cancel" ELSE s5[j].command
            /\ s5'[j].state = s5[j].state /\ s5'[j].position = s5[j].position
            /\ s5'[j].end = s5[j].end /\ s5'[j].committed = s5[j].committed
        BY <1>2, <2>6, <3>5
      <4>4. QED
        BY <3>1, <3>2, <4>1, <4>2, <4>3 DEF Live!Read, Live!NoSize
    <3>6. QED
      BY <3>4, <3>5
  <2>10. (s7.from = "live" => s7.job \in Live!Jobs /\ s5[s7.job].state = "ok")'
    BY <1>0, <1>2, <2>2, <2>3, <2>6 DEF Live!Read
  <2>11. QED
    BY <2>8, <2>9, <2>10 DEF Live!Reading
<1>4. CASE Live!CancelRecording
  <2>1. /\ s2' = [s2 EXCEPT !.state = "idle"] /\ UNCHANGED <<s1, s3, s6, s7>>
        /\ s4' = IF s4 = s2.job THEN 0 ELSE s4
        /\ s5' = IF s4 = s2.job THEN d ELSE s5
        /\ s6.state = "none" /\ s2.state # "idle"
    BY <1>1, <1>4 DEF Live!CancelRecording
  <2>2. /\ s2'.job = s2.job /\ s2'.state = "idle" /\ s2.job # 0 /\ s4' = 0
        /\ s2' \in [job : 0..MaxJobs, state : {"idle", "recording", "closing", "stopped"}]
    BY <1>0, <2>1 DEF Live!Typed, Live!Recorded
  <2>3. /\ s5' \in [Live!Jobs -> Live!Threads]
        /\ \A i \in Live!Jobs :
             /\ s5'[i].command = IF i = s4 THEN "cancel" ELSE s5[i].command
             /\ s5'[i].state = s5[i].state /\ s5'[i].position = s5[i].position
             /\ s5'[i].end = s5[i].end /\ s5'[i].committed = s5[i].committed
    <3>1. s4 = s2.job \/ s4 = 0
      BY <1>0 DEF Live!Recorded
    <3>2. \A i \in Live!Jobs : i # 0
      BY RecordingsAssumption DEF Live!Jobs
    <3>3. QED
      BY <1>0, <1>2, <2>1, <3>1, <3>2
  <2>4. Live!Typed' /\ Live!Recorded'
    BY <1>0, <2>1, <2>2, <2>3, RecordingsAssumption DEF Live!Typed, Live!Recorded
  <2>5. ASSUME NEW j \in Live!Jobs PROVE Live!Read(j, s5[j])'
    <3>1. Live!Read(j, s5[j])
      BY <1>0
    <3>2. Live!Ended(j) => Live!Ended(j)'
      BY <2>2 DEF Live!Ended
    <3>3. s4 # 0 => s4 = s2.job
      BY <1>0 DEF Live!Recorded
    <3>4. j > s2.job => j # s4
      BY <1>0, <3>3, RecordingsAssumption DEF Live!Jobs
    <3>5. QED
      BY <2>1, <2>2, <2>3, <3>1, <3>2, <3>4 DEF Live!Read, Live!NoSize
  <2>6. (s7.from = "live" => s7.job \in Live!Jobs /\ s5[s7.job].state = "ok")'
    BY <1>0, <2>1, <2>3
  <2>7. QED
    BY <2>4, <2>5, <2>6 DEF Live!Reading
<1>5. QED
  BY <1>3, <1>4

\* the request,
LEMMA RequestKeeps ==
  ASSUME Live!Reading,
         \/ (\E j \in Live!Jobs : Live!Transcribe(j))
         \/ Live!LiveFinishes \/ Live!LiveFails \/ Live!Upload
  PROVE  Live!Reading'
<1>0. /\ Live!Typed /\ Live!Recorded /\ \A j \in Live!Jobs : Live!Read(j, s5[j])
      /\ s7.from = "live" => s7.job \in Live!Jobs /\ s5[s7.job].state = "ok"
      /\ s2.job \in 0..MaxJobs /\ s4 \in 0..MaxJobs /\ s5 \in [Live!Jobs -> Live!Threads]
      /\ s6 \in [job : 0..MaxJobs, state : {"none", "finishing", "uploading"}]
      /\ 0 \in 0..MaxJobs /\ Live!Jobs \subseteq 0..MaxJobs /\ \A j \in Live!Jobs : j # 0
  BY RecordingsAssumption DEF Live!Reading, Live!Typed, Live!Jobs
\* What a request may do to the threads: one of them gives up, or is told to finish.
<1>1. ASSUME UNCHANGED <<s1, s2, s3>>, s4' = 0, NEW n \in 0..MaxJobs,
             n # 0 => s5[n].command = "finish" \/ n = s4,
             s6' \in [job : 0..MaxJobs, state : {"none", "finishing", "uploading"}],
             s6.state = "finishing" => n = s6.job,
             s4 # 0 => n = s4,
             s5' = Live!Dropped(s5, n),
             s7' \in [job : 0..MaxJobs, from : {"none", "live", "file", "error"}],
             \/ s7' = s7
             \/ s7'.from = "live" => n = s7'.job /\ n # 0 /\ s5[n].state = "ok"
      PROVE  Live!Reading'
  <2>1. /\ s5' \in [Live!Jobs -> Live!Threads]
        /\ \A i \in Live!Jobs :
             /\ s5'[i].command = IF i = n THEN "cancel" ELSE s5[i].command
             /\ s5'[i].state = s5[i].state /\ s5'[i].position = s5[i].position
             /\ s5'[i].end = s5[i].end /\ s5'[i].committed = s5[i].committed
    BY <1>0, <1>1, LiveDropped
  <2>2. Live!Typed'
    BY <1>0, <1>1, <2>1 DEF Live!Typed
  <2>3. Live!Recorded'
    BY <1>0, <1>1 DEF Live!Recorded
  <2>4. ASSUME NEW j \in Live!Jobs PROVE Live!Read(j, s5[j])'
    <3>1. Live!Read(j, s5[j]) /\ (Live!Ended(j) => Live!Ended(j)')
      BY <1>0, <1>1 DEF Live!Ended
    <3>2. s5'[j].command # "finish"
      BY <1>0, <1>1, <2>1, <3>1 DEF Live!Read
    <3>3. j = n => ~(j > s2.job)
      <4>1. ASSUME j = n, j = s4 PROVE ~(j > s2.job)
        <5>1. j = s2.job
          BY <1>0, <4>1 DEF Live!Recorded
        <5>2. QED
          BY <1>0, <5>1
      <4>2. ASSUME j = n, s5[n].command = "finish" PROVE ~(j > s2.job)
        BY <3>1, <4>2 DEF Live!Read
      <4>3. QED
        BY <1>0, <1>1, <4>1, <4>2
    <3>4. QED
      BY <1>1, <2>1, <3>1, <3>2, <3>3 DEF Live!Read, Live!NoSize
  <2>5. (s7.from = "live" => s7.job \in Live!Jobs /\ s5[s7.job].state = "ok")'
    <3>1. n # 0 => n \in Live!Jobs
      BY <1>1, RecordingsAssumption DEF Live!Jobs
    <3>2. QED
      BY <1>0, <1>1, <2>1, <3>1
  <2>6. QED
    BY <2>2, <2>3, <2>4, <2>5 DEF Live!Reading
<1>2. ASSUME NEW j \in Live!Jobs, Live!Transcribe(j), s4 # j PROVE Live!Reading'
  <2>1. /\ UNCHANGED <<s1, s2, s3, s7>> /\ s4' = 0 /\ s5' = Live!Dropped(s5, s4)
        /\ s6' = [job |-> j, state |-> "uploading"] /\ s6.state = "none"
    BY <1>2 DEF Live!Transcribe
  <2>2. s6' \in [job : 0..MaxJobs, state : {"none", "finishing", "uploading"}] /\ s6.state # "finishing"
    BY <1>0, <2>1
  <2>3. s7' \in [job : 0..MaxJobs, from : {"none", "live", "file", "error"}]
    BY <1>0, <2>1 DEF Live!Typed
  <2>4. QED
    BY <1>0, <1>1, <2>1, <2>2, <2>3
<1>3. ASSUME NEW j \in Live!Jobs, Live!Transcribe(j), s4 = j PROVE Live!Reading'
  <2>1. PICK t : t = [s5[j] EXCEPT !.command = "finish"]
    OBVIOUS
  <2>2. /\ UNCHANGED <<s1, s2, s3, s7>> /\ s4' = 0 /\ s5' = [s5 EXCEPT ![j] = t]
        /\ s6' = [job |-> j, state |-> "finishing"] /\ s6.state = "none"
        /\ j = s2.job => s2.state = "stopped"
    BY <1>3, <2>1 DEF Live!Transcribe
  <2>3. /\ t \in Live!Threads /\ t.command = "finish" /\ t.state = s5[j].state
        /\ t.position = s5[j].position /\ t.end = s5[j].end /\ t.committed = s5[j].committed
    BY <1>0, <2>1 DEF Live!Threads
  <2>4. /\ s5' \in [Live!Jobs -> Live!Threads] /\ s5'[j] = t
        /\ \A i \in Live!Jobs : i # j => s5'[i] = s5[i]
    BY <1>0, <2>2, <2>3
  <2>5. j = s2.job /\ s2.state = "stopped" /\ s3[j].size \in {0, s3[j].pcm}
    BY <1>0, <1>3, <2>2 DEF Live!Recorded
  <2>6. Live!Typed' /\ Live!Recorded'
    BY <1>0, <2>2, <2>4 DEF Live!Typed, Live!Recorded
  <2>7. ASSUME NEW i \in Live!Jobs PROVE Live!Read(i, s5[i])'
    <3>1. Live!Read(i, s5[i]) /\ (Live!Ended(i) => Live!Ended(i)')
      BY <1>0, <2>2 DEF Live!Ended
    <3>2. CASE i = j
      <4>1. Live!Ended(i)' /\ ~(i > s2.job)
        BY <1>0, <2>2, <2>5, <3>2 DEF Live!Ended
      <4>2. QED
        BY <2>2, <2>3, <2>4, <2>5, <3>1, <3>2, <4>1 DEF Live!Read, Live!NoSize
    <3>3. CASE i # j
      <4>1. s5[i].command # "finish" /\ s4 # i
        BY <1>3, <2>2, <3>1, <3>3 DEF Live!Read
      <4>2. QED
        BY <2>2, <2>4, <3>1, <3>3, <4>1 DEF Live!Read, Live!NoSize
    <3>4. QED
      BY <3>2, <3>3
  <2>8. (s7.from = "live" => s7.job \in Live!Jobs /\ s5[s7.job].state = "ok")'
    BY <1>0, <2>2, <2>3, <2>4
  <2>9. QED
    BY <2>6, <2>7, <2>8 DEF Live!Reading
<1>4. CASE Live!LiveFinishes
  <2>1. PICK j \in Live!Jobs : s5[j].command = "finish" /\ s5[j].state = "ok" /\ s5' = Live!Dropped(s5, j)
    BY <1>4 DEF Live!LiveFinishes
  <2>2. s6.job = j /\ s4 = 0
    <3>1. s6.job = j
      BY <1>0, <2>1 DEF Live!Read
    <3>2. QED
      BY <1>0, <1>4, <3>1 DEF Live!Recorded, Live!LiveFinishes
  <2>3. /\ UNCHANGED <<s1, s2, s3, s4>> /\ s7' = [job |-> j, from |-> "live"]
        /\ s6' = [job |-> 0, state |-> "none"]
    BY <1>4, <2>2 DEF Live!LiveFinishes
  <2>4. /\ s6' \in [job : 0..MaxJobs, state : {"none", "finishing", "uploading"}]
        /\ s7' \in [job : 0..MaxJobs, from : {"none", "live", "file", "error"}]
        /\ s7'.job = j
    BY <1>0, <2>3
  <2>5. QED
    BY <1>0, <1>1, <2>1, <2>2, <2>3, <2>4
<1>5. CASE Live!LiveFails
  <2>1. PICK j \in Live!Jobs : s5[j].command = "finish" /\ s5' = Live!Dropped(s5, j)
    BY <1>5 DEF Live!LiveFails
  <2>2. s6.job = j /\ s4 = 0
    <3>1. s6.job = j
      BY <1>0, <2>1 DEF Live!Read
    <3>2. QED
      BY <1>0, <1>5, <3>1 DEF Live!Recorded, Live!LiveFails
  <2>3. UNCHANGED <<s1, s2, s3, s4, s7>> /\ s6' = [s6 EXCEPT !.state = "uploading"]
    BY <1>5 DEF Live!LiveFails
  <2>4. /\ s6' \in [job : 0..MaxJobs, state : {"none", "finishing", "uploading"}]
        /\ s7' \in [job : 0..MaxJobs, from : {"none", "live", "file", "error"}]
    BY <1>0, <2>3 DEF Live!Typed
  <2>5. QED
    BY <1>0, <1>1, <2>1, <2>2, <2>3, <2>4
<1>6. CASE Live!Upload
  <2>1. /\ UNCHANGED <<s1, s2, s3, s4, s5>> /\ s6' = [job |-> 0, state |-> "none"]
        /\ s6.state = "uploading"
    BY <1>6 DEF Live!Upload
  <2>2. PICK from \in {"file", "error"} : s7' = [job |-> s6.job, from |-> from]
    BY <1>6 DEF Live!Upload
  <2>3. /\ s6' \in [job : 0..MaxJobs, state : {"none", "finishing", "uploading"}]
        /\ s7' \in [job : 0..MaxJobs, from : {"none", "live", "file", "error"}]
        /\ s7'.from # "live"
    BY <1>0, <2>1, <2>2
  <2>4. s4 = 0
    BY <1>0, <2>1 DEF Live!Recorded
  <2>5. s5' = Live!Dropped(s5, 0)
    BY <2>1 DEF Live!Dropped
  <2>6. QED
    BY <1>0, <1>1, <2>1, <2>3, <2>4, <2>5
<1>7. QED
  BY <1>2, <1>3, <1>4, <1>5, <1>6

\* and every step does.
LEMMA LiveStep ==
  ASSUME Live!Reading, Live!Next
  PROVE  Live!Reading'
  BY RecordingKeeps, RecorderKeeps, RequestKeeps, ThreadKeeps DEF Live!Next

\* A text delivered live is of all of its recording, and a session that streams is wanted.
LEMMA LiveFollows ==
  ASSUME Live!Reading
  PROVE  Live!LiveTextIsWhole /\ Live!SessionsEnd
<1>1. Live!LiveTextIsWhole
  BY DEF Live!Reading, Live!Read, Live!LiveTextIsWhole
<1>2. Live!SessionsEnd
  <2>1. SUFFICES ASSUME NEW j \in Live!Jobs, Live!Streams(j)
                 PROVE  s4 = j \/ (s6.state = "finishing" /\ s6.job = j)
    BY DEF Live!SessionsEnd
  <2>2. s5[j].state = "running" /\ s5[j].command \in {"running", "finish"} /\ Live!Read(j, s5[j])
    BY <2>1 DEF Live!Streams, Live!Reading, Live!Typed, Live!Threads
  <2>3. QED
    BY <2>2 DEF Live!Read
<1>3. QED
  BY <1>1, <1>2

-----------------------------------------------------------------------------
(* The credentials of a dictation.                                         *)

\* Nothing is prepared, asked for or sent: the invariant holds at the start,
LEMMA AuthInit == Auth!Init => Auth!Earmarked
  BY RecordingsAssumption
     DEF Auth!Init, Auth!Earmarked, Auth!Given, Auth!Nothing, Auth!NoRequest, Auth!NoToken, Auth!Jobs

\* What Codex hands out is the newest it has, or newer.
LEMMA AuthLoads ==
  ASSUME s1 \in Nat, NEW refresh \in BOOLEAN, NEW t \in Auth!Loads(refresh), t # Auth!NoToken
  PROVE  t \in Nat /\ t >= s1
  BY DEF Auth!Loads, Auth!NoToken

\* A recording that begins is newer than whatever is prepared or was sent.
LEMMA AuthBegins ==
  ASSUME Auth!Earmarked, Auth!BeginRecording
  PROVE  Auth!Earmarked'
<1>1. PICK n : n = s3 + 1
  OBVIOUS
<1>2. /\ s3 \in 0..MaxJobs /\ s3 < MaxJobs /\ s3' = n /\ s1' = s1 /\ s5' = [s5 EXCEPT ![n] = s1]
      /\ UNCHANGED <<s7, s8>> /\ s1 \in Nat /\ s5 \in [Auth!Jobs -> Nat]
  BY <1>1 DEF Auth!Earmarked, Auth!BeginRecording, Auth!codex
<1>3. n \in 1..MaxJobs /\ s3' \in 0..MaxJobs /\ n \in Nat /\ s3 \in Nat /\ n \in Auth!Jobs
  BY <1>1, <1>2, RecordingsAssumption DEF Auth!Jobs
<1>4. s5' \in [Auth!Jobs -> Nat] /\ \A j \in Auth!Jobs : s5'[j] <= s1
  BY <1>2, <1>3 DEF Auth!Earmarked
<1> DEFINE Since(j, token) == j \in 1..n /\ token \in Nat /\ token >= s5'[j]
<1>5. ASSUME NEW j, NEW token, Auth!Given(j, token) PROVE Since(j, token)
  <2>1. j \in 1..s3 /\ token \in Nat /\ token >= s5[j]
    BY <1>5 DEF Auth!Given
  <2>2. j \in 1..n /\ j # n /\ j \in Auth!Jobs
    BY <1>1, <1>2, <1>3, <2>1, RecordingsAssumption DEF Auth!Jobs
  <2>3. QED
    BY <1>2, <2>1, <2>2
<1>6. 0..s3 \subseteq 0..n
  BY <1>1, <1>2, <1>3
<1>7. /\ s6' \in [job : Nat, path : 0..n, token : Nat, state : {"loading", "done"}]
      /\ s6'.path # 0 /\ s6'.token # Auth!NoToken => Since(s6'.path, s6'.token)
      /\ s6'.state = "loading" => s6'.token = Auth!NoToken
  <2>1. CASE UNCHANGED s6
    BY <1>5, <1>6, <2>1 DEF Auth!Earmarked
  <2>2. CASE s6' = [job |-> n, path |-> n, token |-> Auth!NoToken, state |-> "loading"]
    BY <1>3, <2>2 DEF Auth!NoToken
  <2>3. QED
    BY <1>2, <2>1, <2>2 DEF Auth!BeginRecording
<1>8. /\ s7' \in [job : 0..n, token : Nat, refreshed : BOOLEAN,
                   state : {"none", "authorizing", "sending", "refreshing"}]
      /\ s7'.state # "none" => s7'.job # 0
      /\ s7'.state = "sending" => Since(s7'.job, s7'.token)
  BY <1>2, <1>5, <1>6 DEF Auth!Earmarked
<1>9. s8' \in [job : 0..n, token : Nat] /\ (s8'.job # 0 => Since(s8'.job, s8'.token))
  BY <1>2, <1>5, <1>6 DEF Auth!Earmarked
<1>10. QED
  BY <1>2, <1>3, <1>4, <1>7, <1>8, <1>9 DEF Auth!Earmarked, Auth!Given

\* A request that asks Codex gets credentials of now, which suit every recording.
LEMMA AuthAuthorized ==
  ASSUME Auth!Earmarked, NEW refresh \in BOOLEAN, Auth!Authorize(refresh),
         s7.state \in {"authorizing", "refreshing"}, UNCHANGED <<s3, s5, s8>>,
         s6' = Auth!Nothing \/ s6' = s6 \/ s6' = [s6 EXCEPT !.job = 0]
  PROVE  Auth!Earmarked'
<1>1. PICK t \in Auth!Loads(refresh) :
        /\ s7' = IF t = Auth!NoToken THEN Auth!NoRequest
                  ELSE [s7 EXCEPT !.state = "sending", !.token = t]
        /\ s1' = IF t = Auth!NoToken THEN s1 ELSE t
  BY DEF Auth!Authorize
<1>2. /\ s1 \in Nat /\ s3 \in 0..MaxJobs /\ s5 \in [Auth!Jobs -> Nat] /\ s7.job # 0
      /\ s7 \in [job : 0..s3, token : Nat, refreshed : BOOLEAN,
                 state : {"none", "authorizing", "sending", "refreshing"}]
      /\ \A j \in Auth!Jobs : s5[j] <= s1
  BY DEF Auth!Earmarked
<1>3. t # Auth!NoToken => t \in Nat /\ t >= s1
  BY <1>1, <1>2, AuthLoads
<1>4. s1' \in Nat /\ s1' >= s1
  BY <1>1, <1>2, <1>3
<1>5. \A j \in Auth!Jobs : s5[j] <= s1'
  BY <1>2, <1>4
<1>6. /\ s7' \in [job : 0..s3, token : Nat, refreshed : BOOLEAN,
                  state : {"none", "authorizing", "sending", "refreshing"}]
      /\ s7'.state # "none" => s7'.job # 0
      /\ s7'.state = "sending" => Auth!Given(s7'.job, s7'.token)
  <2>1. CASE t = Auth!NoToken
    BY <1>1, <1>2, <2>1, RecordingsAssumption DEF Auth!NoRequest, Auth!NoToken
  <2>2. CASE t # Auth!NoToken
    <3>1. /\ s7'.job = s7.job /\ s7'.token = t
          /\ s7' \in [job : 0..s3, token : Nat, refreshed : BOOLEAN,
                     state : {"none", "authorizing", "sending", "refreshing"}]
      BY <1>1, <1>2, <1>3, <2>2
    <3>2. s7.job \in 1..s3 /\ s7.job \in Auth!Jobs
      BY <1>2, RecordingsAssumption DEF Auth!Jobs
    <3>3. t >= s5[s7.job]
      BY <1>2, <1>3, <2>2, <3>2
    <3>4. QED
      BY <1>2, <1>3, <2>2, <3>1, <3>2, <3>3 DEF Auth!Given
  <2>3. QED
    BY <2>1, <2>2
<1>7. /\ s6' \in [job : Nat, path : 0..s3, token : Nat, state : {"loading", "done"}]
      /\ s6'.path # 0 /\ s6'.token # Auth!NoToken => Auth!Given(s6'.path, s6'.token)
      /\ s6'.state = "loading" => s6'.token = Auth!NoToken
  BY <1>2, RecordingsAssumption DEF Auth!Earmarked, Auth!Nothing, Auth!NoToken
<1>8. s8' \in [job : 0..s3, token : Nat] /\ (s8'.job # 0 => Auth!Given(s8'.job, s8'.token))
  BY DEF Auth!Earmarked
<1>9. QED
  BY <1>2, <1>4, <1>5, <1>6, <1>7, <1>8 DEF Auth!Earmarked, Auth!Given

\* Every step keeps the invariant.
LEMMA AuthStep ==
  ASSUME Auth!Earmarked, Auth!Next
  PROVE  Auth!Earmarked'
<1>0. /\ s1 \in Nat /\ s3 \in 0..MaxJobs /\ s5 \in [Auth!Jobs -> Nat]
      /\ \A j \in Auth!Jobs : s5[j] <= s1
      /\ s6 \in [job : Nat, path : 0..s3, token : Nat, state : {"loading", "done"}]
      /\ s7 \in [job : 0..s3, token : Nat, refreshed : BOOLEAN,
                 state : {"none", "authorizing", "sending", "refreshing"}]
  BY DEF Auth!Earmarked
<1>1. CASE Auth!SignIn
  <2>1. s1' = s1 + 1 /\ UNCHANGED <<s3, s5, s6, s7, s8>>
    BY <1>1 DEF Auth!SignIn
  <2>2. s1' \in Nat /\ \A j \in Auth!Jobs : s5[j] <= s1'
    BY <1>0, <2>1
  <2>3. QED
    BY <2>1, <2>2 DEF Auth!Earmarked, Auth!Given
<1>2. CASE Auth!Lapse \/ Auth!ProcessingRefused
  BY <1>2 DEF Auth!Lapse, Auth!ProcessingRefused, Auth!codex, Auth!Earmarked, Auth!Given
<1>3. CASE Auth!BeginRecording
  BY <1>3, AuthBegins
<1>4. CASE Auth!WorkerLoads
  <2>1. PICK t \in Auth!Loads(FALSE) : s6' = [s6 EXCEPT !.token = t, !.state = "done"]
    BY <1>4 DEF Auth!WorkerLoads
  <2>2. UNCHANGED <<s1, s3, s5, s7, s8>>
    BY <1>4 DEF Auth!WorkerLoads, Auth!codex
  <2>3. t \in Nat /\ (t # Auth!NoToken => t >= s1)
    <3>1. FALSE \in BOOLEAN
      OBVIOUS
    <3>2. t # Auth!NoToken => t \in Nat /\ t >= s1
      BY <1>0, <2>1, <3>1, AuthLoads
    <3>3. QED
      BY <3>2 DEF Auth!NoToken
  <2>4. /\ s6' \in [job : Nat, path : 0..s3, token : Nat, state : {"loading", "done"}]
        /\ s6'.path = s6.path /\ s6'.token = t /\ s6'.state = "done"
    BY <1>0, <2>1, <2>3
  <2>5. ASSUME s6.path # 0, t # Auth!NoToken PROVE Auth!Given(s6.path, t)
    <3>1. s6.path \in 1..s3 /\ s6.path \in Auth!Jobs
      BY <1>0, <2>5, RecordingsAssumption DEF Auth!Jobs
    <3>2. t >= s5[s6.path]
      BY <1>0, <2>3, <2>5, <3>1
    <3>3. QED
      BY <2>3, <3>1, <3>2 DEF Auth!Given
  <2>6. QED
    BY <2>2, <2>4, <2>5 DEF Auth!Earmarked, Auth!Given
<1>5. CASE Auth!CancelRecording
  <2>1. UNCHANGED <<s1, s3, s5, s7, s8>> /\ (s6' = s6 \/ s6' = [s6 EXCEPT !.job = 0])
    BY <1>5 DEF Auth!CancelRecording, Auth!codex
  <2>2. QED
    BY <2>1 DEF Auth!Earmarked, Auth!Given
<1>6. ASSUME NEW j \in Auth!Jobs, Auth!Transcribe(j) PROVE Auth!Earmarked'
  <2>1. /\ UNCHANGED <<s1, s3, s5, s6, s8>> /\ j <= s3
        /\ s7' = [job |-> j, state |-> "authorizing", token |-> Auth!NoToken, refreshed |-> FALSE]
    BY <1>6 DEF Auth!Transcribe, Auth!codex, Auth!NoRequest
  <2>2. j \in 0..s3 /\ j # 0
    BY <1>0, <2>1, RecordingsAssumption DEF Auth!Jobs
  <2>3. QED
    BY <2>1, <2>2 DEF Auth!Earmarked, Auth!Given, Auth!NoToken
<1>7. CASE Auth!TakePrepared
  <2>1. /\ s7.state = "authorizing" /\ UNCHANGED <<s3, s5, s8>> /\ s6' = Auth!Nothing
        /\ s6.path = s7.job
    BY <1>7 DEF Auth!TakePrepared, Auth!Authorizing, Auth!PreparedFor
  <2>2. s7.job # 0
    BY <2>1 DEF Auth!Earmarked
  <2>3. Auth!Nothing \in [job : Nat, path : 0..s3, token : Nat, state : {"loading", "done"}]
    BY <1>0, RecordingsAssumption DEF Auth!Nothing, Auth!NoToken
  <2>4. CASE UNCHANGED <<s1, s7>>
    BY <2>1, <2>3, <2>4 DEF Auth!Earmarked, Auth!Given, Auth!Nothing
  <2>5. CASE Auth!Authorize(TRUE)
    BY <2>1, <2>5, AuthAuthorized
  <2>6. CASE /\ s6.token # Auth!NoToken /\ s1' = s1
             /\ s7' = [s7 EXCEPT !.state = "sending", !.token = s6.token]
    <3>1. Auth!Given(s6.path, s6.token)
      BY <2>1, <2>2, <2>6 DEF Auth!Earmarked
    <3>2. /\ s7' \in [job : 0..s3, token : Nat, refreshed : BOOLEAN,
                      state : {"none", "authorizing", "sending", "refreshing"}]
          /\ s7'.job = s7.job /\ s7'.token = s6.token
      BY <1>0, <2>6
    <3>3. QED
      BY <2>1, <2>2, <2>3, <2>6, <3>1, <3>2 DEF Auth!Earmarked, Auth!Given, Auth!Nothing
  <2>7. QED
    BY <1>7, <2>4, <2>5, <2>6 DEF Auth!TakePrepared
<1>8. CASE Auth!CheckAgain
  <2>1. /\ s7.state = "authorizing" /\ UNCHANGED <<s3, s5, s8>> /\ s6' = [s6 EXCEPT !.job = 0]
        /\ Auth!Authorize(FALSE)
    BY <1>8 DEF Auth!CheckAgain, Auth!Authorizing
  <2>2. QED
    BY <2>1, AuthAuthorized
<1>9. CASE Auth!Send \/ Auth!Refused
  <2>1. /\ UNCHANGED <<s1, s3, s5, s6>> /\ s8' = [job |-> s7.job, token |-> s7.token]
        /\ s7.state = "sending"
        /\ \/ s7' = Auth!NoRequest
           \/ s7' = [s7 EXCEPT !.state = "refreshing", !.refreshed = TRUE]
    BY <1>9 DEF Auth!Send, Auth!Refused, Auth!codex
  <2>2. Auth!Given(s7.job, s7.token) /\ s7.job # 0
    BY <2>1 DEF Auth!Earmarked
  <2>3. /\ s7' \in [job : 0..s3, token : Nat, refreshed : BOOLEAN,
                    state : {"none", "authorizing", "sending", "refreshing"}]
        /\ s7'.state # "sending" /\ (s7'.state # "none" => s7'.job # 0)
    <3>1. CASE s7' = Auth!NoRequest
      BY <1>0, <3>1, RecordingsAssumption DEF Auth!NoRequest, Auth!NoToken
    <3>2. CASE s7' = [s7 EXCEPT !.state = "refreshing", !.refreshed = TRUE]
      BY <1>0, <2>2, <3>2
    <3>3. QED
      BY <2>1, <3>1, <3>2
  <2>4. s8' \in [job : 0..s3, token : Nat] /\ s8'.job = s7.job /\ s8'.token = s7.token
    BY <1>0, <2>1
  <2>5. QED
    BY <2>1, <2>2, <2>3, <2>4 DEF Auth!Earmarked, Auth!Given
<1>10. CASE Auth!Refresh
  <2>1. /\ s7.state = "refreshing" /\ UNCHANGED <<s3, s5, s6, s8>> /\ Auth!Authorize(TRUE)
    BY <1>10 DEF Auth!Refresh, Auth!Authorizing
  <2>2. QED
    BY <2>1, AuthAuthorized
<1>11. QED
  BY <1>1, <1>2, <1>3, <1>4, <1>5, <1>6, <1>7, <1>8, <1>9, <1>10 DEF Auth!Next

\* What was sent wore credentials handed out since its recording began.
LEMMA AuthFollows == Auth!Earmarked => Auth!CredentialsAreItsOwn
  BY DEF Auth!Earmarked, Auth!Given, Auth!CredentialsAreItsOwn

-----------------------------------------------------------------------------
(* The bearer of a meeting.                                                *)

\* No token is cached and nothing asked for: the invariant holds at the start,
LEMMA BearerInit == Bearer!Init => Bearer!Dated
  BY DEF Bearer!Init, Bearer!Dated, Bearer!Idle, Bearer!NoToken, Bearer!At, Bearer!LanesAskOnce,
         Bearer!BearersAreUsable

\* A lane that goes on from a call keeps it, as long as no token is made.
LEMMA LaneKeeps ==
  ASSUME Bearer!Dated, NEW n \in Lanes, NEW t, s5' = [s5 EXCEPT ![n] = t],
         t \in [state : {"idle", "asking", "waiting", "loading", "sending"},
                forced : BOOLEAN, worn : SUBSET (1..s1), token : 0..s1, refused : 0..s1],
         ~t.forced => t.refused = Bearer!NoToken,
         t.state = "sending" => t.token \notin t.worn /\ t.token # t.refused,
         UNCHANGED <<s1, s2, s3>>, s6' = 0
  PROVE  Bearer!Dated'
  BY DEF Bearer!Dated, Bearer!LanesAskOnce, Bearer!BearersAreUsable, Bearer!At, Bearer!NoToken

\* Every step keeps the invariant.
LEMMA BearerStep ==
  ASSUME Bearer!Dated, Bearer!Next
  PROVE  Bearer!Dated'
<1>0. /\ s1 \in Nat /\ s1 > 0 /\ s2 \subseteq 1..s1 /\ s3 \in 0..s1 /\ s6 = 0
      /\ s5 \in [Lanes -> [state : {"idle", "asking", "waiting", "loading", "sending"},
                           forced : BOOLEAN, worn : SUBSET (1..s1), token : 0..s1,
                           refused : 0..s1]]
  BY DEF Bearer!Dated, Bearer!LanesAskOnce
<1>1. /\ 0 \in 0..s1 /\ 0 \notin 1..s1
      /\ {} \in SUBSET (1..s1) /\ s2 \in SUBSET (1..s1) /\ 1..s1 \subseteq 0..s1
  BY <1>0
<1>2. CASE Bearer!Lapse
  <2>1. s2' \subseteq 1..s1 /\ UNCHANGED <<s1, s3, s4, s5, s6, s7>>
    BY <1>0, <1>2 DEF Bearer!Lapse
  <2>2. QED
    BY <2>1 DEF Bearer!Dated, Bearer!LanesAskOnce, Bearer!BearersAreUsable, Bearer!At
<1> DEFINE Calls == [state : {"idle", "asking", "waiting", "loading", "sending"},
                     forced : BOOLEAN, worn : SUBSET (1..s1), token : 0..s1, refused : 0..s1]
<1>3. ASSUME NEW l \in Lanes, Bearer!Begin(l) \/ Bearer!LoadFails(l) \/ Bearer!Answered(l)
      PROVE  Bearer!Dated'
  <2>1. PICK t : /\ t \in {[Bearer!Idle EXCEPT !.state = "asking", !.worn = s2], Bearer!Idle}
                 /\ s5' = [s5 EXCEPT ![l] = t] /\ UNCHANGED <<s1, s2, s3, s6>>
    BY <1>3 DEF Bearer!Begin, Bearer!LoadFails, Bearer!Answered
  <2>2. t \in Calls /\ ~t.forced /\ t.refused = Bearer!NoToken /\ t.state # "sending"
    <3>1. Bearer!Idle \in Calls /\ ~Bearer!Idle.forced /\ Bearer!Idle.refused = Bearer!NoToken
      BY <1>1 DEF Bearer!Idle, Bearer!NoToken
    <3>2. CASE t = Bearer!Idle
      BY <3>1, <3>2 DEF Bearer!Idle
    <3>3. CASE t = [Bearer!Idle EXCEPT !.state = "asking", !.worn = s2]
      BY <1>1, <3>1, <3>3
    <3>4. QED
      BY <2>1, <3>2, <3>3
  <2>3. QED
    BY <1>0, <2>1, <2>2, LaneKeeps
<1>4. ASSUME NEW l \in Lanes, Bearer!UseCache(l) \/ Bearer!UseCacheAgain(l) PROVE Bearer!Dated'
  <2>1. PICK t : t = [s5[l] EXCEPT !.state = "sending", !.token = s3]
    OBVIOUS
  <2>2. /\ s5' = [s5 EXCEPT ![l] = t] /\ UNCHANGED <<s1, s2, s3, s6>> /\ ~s5[l].forced
        /\ s3 # Bearer!NoToken /\ s3 \notin s5[l].worn
    BY <1>4, <2>1 DEF Bearer!UseCache, Bearer!UseCacheAgain, Bearer!FilledMeanwhile, Bearer!Usable
  <2>3. t \in Calls /\ t.token = s3 /\ t.worn = s5[l].worn /\ t.refused = s5[l].refused
    BY <1>0, <2>1
  <2>4. t.refused = Bearer!NoToken
    BY <2>2, <2>3 DEF Bearer!Dated
  <2>5. QED
    BY <1>0, <2>2, <2>3, <2>4, LaneKeeps
<1>5. ASSUME NEW l \in Lanes, Bearer!MissCache(l) \/ Bearer!AskCodex(l) PROVE Bearer!Dated'
  <2>1. PICK t : t \in {[s5[l] EXCEPT !.state = "waiting"], [s5[l] EXCEPT !.state = "loading"]}
                 /\ s5' = [s5 EXCEPT ![l] = t]
    BY <1>5 DEF Bearer!MissCache, Bearer!AskCodex
  <2>2. UNCHANGED <<s1, s2, s3>> /\ s6' = 0
    BY <1>0, <1>5 DEF Bearer!MissCache, Bearer!AskCodex, Bearer!FilledMeanwhile
  <2>3. t \in Calls /\ t.forced = s5[l].forced /\ t.refused = s5[l].refused /\ t.state # "sending"
    BY <1>0, <2>1
  <2>4. ~t.forced => t.refused = Bearer!NoToken
    BY <2>3 DEF Bearer!Dated
  <2>5. QED
    BY <2>1, <2>2, <2>3, <2>4, LaneKeeps
<1>6. ASSUME NEW l \in Lanes, Bearer!Refused(l) PROVE Bearer!Dated'
  <2>1. PICK t : t = [Bearer!Idle EXCEPT !.state = "asking", !.forced = TRUE, !.worn = s2,
                                         !.refused = s5[l].token]
    OBVIOUS
  <2>2. s5' = [s5 EXCEPT ![l] = t] /\ UNCHANGED <<s1, s2, s3, s6>>
    BY <1>6, <2>1 DEF Bearer!Refused
  <2>3. t \in Calls /\ t.forced /\ t.state # "sending"
    BY <1>0, <1>1, <2>1 DEF Bearer!Idle, Bearer!NoToken
  <2>4. QED
    BY <1>0, <2>2, <2>3, LaneKeeps
<1>7. ASSUME NEW l \in Lanes, Bearer!Loaded(l) PROVE Bearer!Dated'
  <2>1. PICK t \in Bearer!TokensFor(l) :
          /\ s1' = t /\ s3' = t
          /\ s5' = [s5 EXCEPT ![l] = [s5[l] EXCEPT !.state = "sending", !.token = t]]
    BY <1>7 DEF Bearer!Loaded
  <2>2. UNCHANGED <<s2, s6>>
    BY <1>7 DEF Bearer!Loaded
  <2>3. /\ t \in Nat /\ t >= s1 /\ t > 0 /\ t \notin s5[l].worn
        /\ s5[l].forced => t > s1
    <3>1. s5[l].worn \subseteq 1..s1
      BY <1>0
    <3>2. CASE t = s1 + 1
      BY <1>0, <3>1, <3>2
    <3>3. CASE t = s1 /\ ~s5[l].forced /\ s1 \notin s5[l].worn
      BY <1>0, <3>3
    <3>4. QED
      BY <2>1, <3>2, <3>3 DEF Bearer!TokensFor
  <2>4. s5[l].refused \in 0..s1 /\ t # s5[l].refused
    <3>1. s5[l].refused \in 0..s1
      BY <1>0
    <3>2. CASE s5[l].forced
      BY <1>0, <2>3, <3>1, <3>2
    <3>3. CASE ~s5[l].forced
      <4>1. s5[l].refused = 0
        BY <3>3 DEF Bearer!Dated, Bearer!NoToken
      <4>2. QED
        BY <2>3, <3>1, <4>1
    <3>4. QED
      BY <3>1, <3>2, <3>3
  <2>5. 0..s1 \subseteq 0..t /\ 1..s1 \subseteq 1..t /\ t \in 0..t
    BY <1>0, <2>3
  <2>6. PICK c : c = [s5[l] EXCEPT !.state = "sending", !.token = t]
    OBVIOUS
  <2>7. /\ c \in [state : {"idle", "asking", "waiting", "loading", "sending"}, forced : BOOLEAN,
                  worn : SUBSET (1..t), token : 0..t, refused : 0..t]
        /\ c.token = t /\ c.worn = s5[l].worn /\ c.refused = s5[l].refused
        /\ c.forced = s5[l].forced
    BY <1>0, <2>5, <2>6
  <2>8. \A i \in Lanes :
          s5[i] \in [state : {"idle", "asking", "waiting", "loading", "sending"}, forced : BOOLEAN,
                    worn : SUBSET (1..t), token : 0..t, refused : 0..t]
    BY <1>0, <2>5
  <2>9. /\ s5' \in [Lanes -> [state : {"idle", "asking", "waiting", "loading", "sending"},
                              forced : BOOLEAN, worn : SUBSET (1..t), token : 0..t,
                              refused : 0..t]]
        /\ s5'[l] = c /\ \A i \in Lanes : i # l => s5'[i] = s5[i]
    BY <1>0, <2>1, <2>6, <2>7, <2>8
  <2>10. s1' \in Nat /\ s1' > 0 /\ s2' \subseteq 1..t /\ s3' \in 0..t /\ s6' = 0
    BY <1>0, <2>1, <2>2, <2>3, <2>5
  <2>11. \A i \in Lanes :
           /\ ~s5'[i].forced => s5'[i].refused = Bearer!NoToken
           /\ s5'[i].state = "sending" => /\ s5'[i].token \notin s5'[i].worn
                                          /\ s5'[i].token # s5'[i].refused
    BY <2>3, <2>4, <2>7, <2>9 DEF Bearer!Dated, Bearer!BearersAreUsable, Bearer!At
  <2>12. QED
    BY <2>1, <2>9, <2>10, <2>11
       DEF Bearer!Dated, Bearer!LanesAskOnce, Bearer!BearersAreUsable, Bearer!At, Bearer!NoToken
<1>8. QED
  BY <1>2, <1>3, <1>4, <1>5, <1>6, <1>7 DEF Bearer!Next

=============================================================================
