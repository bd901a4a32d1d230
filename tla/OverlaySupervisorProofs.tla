----------------------- MODULE OverlaySupervisorProofs -----------------------
(***************************************************************************)
(* Proofs about OverlaySupervisor, for any number of commands and helper   *)
(* processes.  The inductive invariant has five parts: what the variables  *)
(* range over, the lifecycle of the helpers, the numbering of the          *)
(* dismissals from the caller through the queue to the reply, what an exit *)
(* notice and an answer of Ok say of the processes, and what is left in    *)
(* the queue behind the dismissal the caller waits for.                    *)
(***************************************************************************)
EXTENDS OverlaySupervisor, TLAPS

Procs == {"none", "open", "told", "killed", "gone"}
Pendings == {NoDismissal} \cup [generation : Generations, request : Requests]

\* The ranges the other parts rely on, and that generations are handed out in
\* order: the processes that exist are those of 1..launched.
Ranges ==
  /\ request \in 0..MaxCommands /\ sent \in 0..MaxCommands /\ request <= sent
  /\ replies \in [Requests -> {"none", "ok", "failed"}]
  /\ commands \in Seq(Command)
  /\ launched \in 0..MaxLaunches /\ helper \in 0..launched
  /\ restarts \in 0..1 /\ tries \in Nat
  /\ pending \in Pendings /\ pending.generation \in 0..launched
  /\ dismissed \in 0..launched
  /\ proc \in [Generations -> Procs]
  /\ \A g \in Generations : proc[g] = "none" <=> g > launched
  /\ notices \in [Generations -> Seq(Notice)]

\* The lifecycle flag and the processes agree, windows are opened only while
\* one is wanted, and one that is missing is reported.
Lifecycle ==
  /\ LifecycleMatches
  /\ visible <=> wanted
  /\ \/ ~wanted /\ restarts = 0 /\ tries = 0
     \/ wanted /\ restarts = 1 /\ tries \in 0..1
     \/ wanted /\ restarts = 0 /\ tries \in 0..2
  /\ serving /\ wanted /\ ~running => unavailable
  /\ ~wanted => ~running
  /\ ~serving => ~wanted /\ helper = 0

\* A dismissal in the queue is newer than the one the presenter waits with and
\* than every one that was answered.
Dismissals ==
  /\ pending.request <= request
  /\ pending # NoDismissal => replies[pending.request] = "none"
  /\ \A r \in Requests : r > request => replies[r] = "none"
  /\ \A i \in 1..Len(commands) : commands[i].kind = "dismiss" =>
       /\ commands[i].request <= request
       /\ pending.request < commands[i].request
       /\ \A r \in Requests : r >= commands[i].request => replies[r] = "none"
  /\ \A i, k \in 1..Len(commands) :
       i < k /\ commands[i].kind = "dismiss" /\ commands[k].kind = "dismiss"
         => commands[i].request < commands[k].request

\* An exit notice means the process is gone; an answer of Ok to the newest
\* request means the helper it was for is gone.
Exits ==
  /\ \A g \in Generations : \A i \in 1..Len(notices[g]) :
       notices[g][i] = "exited" => proc[g] = "gone"
  /\ pending # NoDismissal /\ pending.request = request
       => dismissed = pending.generation
  /\ request # 0 /\ replies[request] = "ok" /\ dismissed # 0
       => proc[dismissed] = "gone"

\* While the caller waits or pastes, only the demand to kill may follow its
\* dismissal in the queue; once that was taken, nothing is to be shown.
Waiting == caller \in {"waiting", "forced", "pasting"}
Behind ==
  Waiting =>
    /\ request # 0
    /\ caller = "pasting" => replies[request] = "ok"
    /\ \/ /\ \A i \in 1..Len(commands) : commands[i].kind = "force"
          /\ ~wanted
       \/ \E i \in 1..Len(commands) :
            /\ commands[i].kind = "dismiss" /\ commands[i].request = request
            /\ \A k \in 1..Len(commands) : k > i => commands[k].kind = "force"

Inductive == Ranges /\ Lifecycle /\ Dismissals /\ Exits /\ Behind

-----------------------------------------------------------------------------
\* OverlaySupervisor::new starts with every variable in its range.
LEMMA RangesInit == Init => Ranges
  BY BoundsAssumption DEF Init, Ranges, Requests, Generations, NoDismissal,
     Pendings, Procs, Command, Notice

\* A launch hands out the next generation; a failed one starts nothing.
LEMMA LaunchRanges ==
  ASSUME Ranges, NEW kept \in {0, helper}, NEW procs \in [Generations -> Procs],
         \A g \in Generations : procs[g] = "none" <=> proc[g] = "none",
         LaunchSucceeds(kept, procs) \/ LaunchFails(kept, procs)
  PROVE  /\ launched' \in launched..MaxLaunches /\ launched' <= launched + 1
         /\ helper' \in 0..launched'
         /\ proc' \in [Generations -> Procs]
         /\ \A g \in Generations : proc'[g] = "none" <=> g > launched'
<1> USE DEF Ranges, Generations, Procs
<1>1. CASE LaunchSucceeds(kept, procs)
  BY <1>1, BoundsAssumption DEF LaunchSucceeds, Told
<1>2. CASE LaunchFails(kept, procs)
  BY <1>2, BoundsAssumption DEF LaunchFails
<1>3. QED
  BY <1>1, <1>2

\* What an order to leave and a kill do to the processes.
LEMMA OrdersKeepProcs ==
  ASSUME Ranges, NEW g \in 0..launched
  PROVE  /\ Told(g, proc) \in [Generations -> Procs]
         /\ Killed(g, proc) \in [Generations -> Procs]
         /\ \A h \in Generations : Told(g, proc)[h] = "none" <=> proc[h] = "none"
         /\ \A h \in Generations : Killed(g, proc)[h] = "none" <=> proc[h] = "none"
         /\ \A h \in Generations : Told(g, proc)[h] = "gone" <=> proc[h] = "gone"
         /\ \A h \in Generations : Killed(g, proc)[h] = "gone" <=> proc[h] = "gone"
  BY DEF Ranges, Procs, Told, Killed, Generations

\* Taking a command leaves the rest of the queue.
LEMMA TakenCommand ==
  ASSUME Ranges, NEW kind, TakeCommand(kind)
  PROVE  /\ Head(commands) \in Command /\ Head(commands).kind = kind
         /\ commands' \in Seq(Command) /\ Len(commands') = Len(commands) - 1
         /\ Len(commands) > 0 /\ Head(commands) = commands[1]
         /\ \A i \in 1..Len(commands') : commands'[i] = commands[i + 1]
         /\ \A i \in 1..Len(commands') : i + 1 \in 1..Len(commands)
  BY DEF Ranges, TakeCommand

\* Taking a notice leaves the rest of that helper's queue and every other queue.
LEMMA TakenNotice ==
  ASSUME Ranges, NEW g \in Generations, NEW notice, TakeNotice(g, notice)
  PROVE  /\ notices' \in [Generations -> Seq(Notice)]
         /\ notices[g] # <<>> /\ notices[g][1] = notice
         /\ 1 \in 1..Len(notices[g])
         /\ \A h \in Generations : h # g => notices'[h] = notices[h]
         /\ Len(notices'[g]) = Len(notices[g]) - 1
         /\ \A i \in 1..Len(notices'[g]) : notices'[g][i] = notices[g][i + 1]
  BY DEF Ranges, TakeNotice

\* Every step keeps the ranges and hands generations out in order.
LEMMA RangesStep == Ranges /\ [Next]_vars => Ranges'
<1> SUFFICES ASSUME Ranges, [Next]_vars PROVE Ranges'
  OBVIOUS
<1> USE BoundsAssumption DEF Ranges, Generations, Requests
<1>1. CASE UNCHANGED vars
  BY <1>1 DEF vars
<1>2. CASE Caller
  <2>1. ASSUME NEW kind \in {"show", "hide"}, SendUpdate(kind) PROVE Ranges'
    <3>1. [kind |-> kind, request |-> 0] \in Command
      BY DEF Command
    <3>2. QED
      BY <2>1, <3>1 DEF SendUpdate, CanSend, presenterVars, ghosts
  <2>2. CASE SendDismiss
    <3>1. [kind |-> "dismiss", request |-> request + 1] \in Command
      BY <2>2 DEF Command, SendDismiss, CanSend
    <3>2. QED
      BY <2>2, <3>1 DEF SendDismiss, CanSend, presenterVars, ghosts
  <2>3. CASE GraceEnds
    <3>1. [kind |-> "force", request |-> 0] \in Command
      BY DEF Command
    <3>2. QED
      BY <2>3, <3>1 DEF GraceEnds, presenterVars, ghosts
  <2>4. CASE WaitEnds \/ Acknowledged \/ Pasted \/ Close
    BY <2>4 DEF WaitEnds, Acknowledged, Pasted, Close, presenterVars, ghosts
  <2>5. QED
    BY <1>2, <2>1, <2>2, <2>3, <2>4 DEF Caller
<1>3. CASE Helpers
  <2>1. PICK g \in Generations :
          Exit(g) \/ FrameSubmitted(g) \/ HelperFails(g) \/ ReportExit(g)
            \/ ReportUnobserved(g)
    BY <1>3 DEF Helpers
  <2>2. CASE Exit(g)
    BY <2>2 DEF Exit, Alive, Procs, callerVars, presenterVars, ghosts
  <2>3. ASSUME NEW from, NEW to, NEW notice \in Notice,
               Report(g, from, to, notice)
        PROVE  Ranges'
    BY <2>3 DEF Report, callerVars, presenterVars, ghosts
  <2>4. QED
    BY <2>1, <2>2, <2>3
       DEF FrameSubmitted, HelperFails, ReportExit, ReportUnobserved, Notice
<1>4. CASE Show
  <2>1. /\ commands' \in Seq(Command)
        /\ UNCHANGED <<request, sent, replies, notices, pending, dismissed>>
        /\ restarts' \in 0..1
    BY <1>4, TakenCommand
       DEF Show, TakeCommand, callerVars, AUTOMATIC_RESTART_LIMIT_PER_UPDATE
  <2>2. CASE ~running /\ (LaunchSucceeds(helper, proc) \/ LaunchFails(helper, proc))
    <3>1. LaunchSucceeds(helper, proc) \/ LaunchFails(helper, proc)
      BY <2>2
    <3>2. /\ launched' \in launched..MaxLaunches /\ launched' <= launched + 1
          /\ helper' \in 0..launched'
          /\ proc' \in [Generations -> Procs]
          /\ \A g \in Generations : proc'[g] = "none" <=> g > launched'
      BY <3>1, LaunchRanges
    <3>3. tries' = Started
      BY <1>4 DEF Show
    <3>4. /\ launched' \in 0..MaxLaunches
          /\ tries' \in Nat
          /\ dismissed' \in 0..launched'
      <4>1. launched' \in 0..MaxLaunches
        BY <3>2
      <4>2. tries' \in Nat
        BY <3>3 DEF Started
      <4>3. dismissed' \in 0..launched'
        BY <2>1, <3>2
      <4>4. QED
        BY <4>1, <4>2, <4>3
    <3>5. pending' \in Pendings /\ pending'.generation \in 0..launched'
      BY <2>1, <3>2
    <3>6. /\ request' \in 0..MaxCommands /\ sent' \in 0..MaxCommands /\ request' <= sent'
          /\ replies' \in [Requests -> {"none", "ok", "failed"}]
          /\ notices' \in [Generations -> Seq(Notice)]
      BY <2>1
    <3>7. QED
      BY <2>1, <3>2, <3>4, <3>5, <3>6
  <2>3. CASE UNCHANGED <<helper, launched, proc>>
    BY <1>4, <2>1, <2>3 DEF Show, Started
  <2>4. CASE \/ LaunchSucceeds(0, Killed(helper, proc))
             \/ LaunchFails(0, Killed(helper, proc))
    <3>1. /\ Killed(helper, proc) \in [Generations -> Procs]
          /\ \A g \in Generations : Killed(helper, proc)[g] = "none" <=> proc[g] = "none"
      BY OrdersKeepProcs
    <3>2. /\ launched' \in launched..MaxLaunches /\ launched' <= launched + 1
          /\ helper' \in 0..launched'
          /\ proc' \in [Generations -> Procs]
          /\ \A g \in Generations : proc'[g] = "none" <=> g > launched'
      BY <2>4, <3>1, LaunchRanges
    <3>3. tries' = Started
      BY <1>4 DEF Show
    <3>4. /\ launched' \in 0..MaxLaunches
          /\ tries' \in Nat
          /\ dismissed' \in 0..launched'
      <4>1. launched' \in 0..MaxLaunches
        BY <3>2
      <4>2. tries' \in Nat
        BY <3>3 DEF Started
      <4>3. dismissed' \in 0..launched'
        BY <2>1, <3>2
      <4>4. QED
        BY <4>1, <4>2, <4>3
    <3>5. pending' \in Pendings /\ pending'.generation \in 0..launched'
      BY <2>1, <3>2
    <3>6. /\ request' \in 0..MaxCommands /\ sent' \in 0..MaxCommands /\ request' <= sent'
          /\ replies' \in [Requests -> {"none", "ok", "failed"}]
          /\ notices' \in [Generations -> Seq(Notice)]
      BY <2>1
    <3>7. QED
      BY <2>1, <3>2, <3>4, <3>5, <3>6
  <2>5. QED
    BY <1>4, <2>2, <2>3, <2>4 DEF Show
<1>5. CASE Hide
  <2>1. /\ commands' \in Seq(Command)
        /\ UNCHANGED <<request, sent, replies, notices, pending, launched, dismissed>>
        /\ restarts' = 0 /\ tries' = 0
    BY <1>5, TakenCommand DEF Hide, TakeCommand, callerVars
  <2>2. \/ helper' = 0 /\ proc' = Told(helper, proc)
        \/ UNCHANGED <<helper, proc>>
    BY <1>5 DEF Hide
  <2>3. /\ helper' \in 0..launched /\ proc' \in [Generations -> Procs]
        /\ \A h \in Generations : proc'[h] = "none" <=> proc[h] = "none"
    BY <2>2, OrdersKeepProcs
  <2>4. QED
    BY <2>1, <2>3
<1>6. CASE Dismiss
  <2>1. /\ commands' \in Seq(Command) /\ Head(commands).request \in Requests
        /\ UNCHANGED <<request, sent, notices, helper, launched>>
        /\ restarts' = 0 /\ dismissed' = helper /\ tries' = 0
    BY <1>6, TakenCommand DEF Dismiss, TakeCommand, callerVars, Command
  <2>2. CASE helper = 0
    <3>1. /\ replies' = [replies EXCEPT ![Head(commands).request] = "ok"]
          /\ UNCHANGED <<pending, proc>>
      BY <1>6, <2>2 DEF Dismiss
    <3>2. QED
      BY <2>1, <3>1
  <2>3. CASE helper # 0
    <3>1. /\ proc' = Told(helper, proc) /\ UNCHANGED replies
          /\ pending' = [generation |-> helper, request |-> Head(commands).request]
      BY <1>6, <2>3 DEF Dismiss
    <3>2. pending' \in Pendings /\ pending'.generation = helper
      BY <2>1, <2>3, <3>1 DEF Pendings
    <3>3. /\ proc' \in [Generations -> Procs]
          /\ \A h \in Generations : proc'[h] = "none" <=> proc[h] = "none"
      BY <3>1, OrdersKeepProcs
    <3>4. QED
      BY <2>1, <3>1, <3>2, <3>3
  <2>4. QED
    BY <2>2, <2>3
<1>7. CASE ForceDismissal
  BY <1>7, TakenCommand, OrdersKeepProcs
     DEF ForceDismissal, TakeCommand, callerVars, ghosts
<1>8. ASSUME NEW g \in Generations, StatusFrame(g) \/ StatusFailed(g)
      PROVE  Ranges'
  <2>1. CASE StatusFrame(g)
    BY <2>1, TakenNotice DEF StatusFrame, TakeNotice, callerVars, ghosts
  <2>2. CASE StatusFailed(g)
    <3>1. notices' \in [Generations -> Seq(Notice)]
      BY <2>2, TakenNotice DEF StatusFailed
    <3>2. UNCHANGED proc \/ (g = helper /\ proc' = Killed(g, proc))
      BY <2>2 DEF StatusFailed, Watched
    <3>3. UNCHANGED <<request, sent, replies, commands, helper, restarts, pending,
                      launched, dismissed, tries>>
      BY <2>2 DEF StatusFailed, TakeNotice, callerVars, ghosts
    <3>4. /\ proc' \in [Generations -> Procs]
          /\ \A h \in Generations : proc'[h] = "none" <=> proc[h] = "none"
      BY <3>2, OrdersKeepProcs
    <3>5. QED
      BY <3>1, <3>3, <3>4
  <2>3. QED
    BY <1>8, <2>1, <2>2
<1>9. ASSUME NEW g \in Generations, NEW notice \in {"exited", "unobserved"},
             DismissedExit(g, notice) \/ StaleExit(g, notice)
               \/ UnexpectedExit(g, notice)
      PROVE  Ranges'
  <2>1. CASE DismissedExit(g, notice)
    <3>1. notices' \in [Generations -> Seq(Notice)]
      BY <2>1, TakenNotice DEF DismissedExit
    <3>2. g \in 0..launched /\ pending.request \in Requests
      BY <2>1 DEF DismissedExit, Pendings, NoDismissal
    <3>3. pending' \in Pendings /\ pending'.generation = 0
      BY <2>1 DEF DismissedExit, Pendings, NoDismissal
    <3>4. /\ UNCHANGED <<request, sent, commands, launched, dismissed, tries, restarts>>
          /\ replies' \in [Requests -> {"none", "ok", "failed"}]
          /\ helper' \in {0, helper}
      <4>1. UNCHANGED <<request, sent, commands, launched, dismissed, tries, restarts>>
        BY <2>1 DEF DismissedExit, TakeNotice, callerVars, ghosts
      <4>2. replies' \in [Requests -> {"none", "ok", "failed"}]
        <5>1. PICK answer \in {"ok", "failed"} :
                replies' = [replies EXCEPT ![pending.request] = answer]
          BY <2>1 DEF DismissedExit
        <5>2. QED
          BY <3>2, <5>1
      <4>3. helper' \in {0, helper}
        BY <2>1 DEF DismissedExit
      <4>4. QED
        BY <4>1, <4>2, <4>3
    <3>5. UNCHANGED proc \/ proc' = Told(g, proc)
      BY <2>1 DEF DismissedExit
    <3>6. /\ proc' \in [Generations -> Procs]
          /\ \A h \in Generations : proc'[h] = "none" <=> proc[h] = "none"
      BY <3>2, <3>5, OrdersKeepProcs
    <3>7. helper' \in 0..launched' /\ pending'.generation \in 0..launched'
      BY <3>3, <3>4
    <3>8. QED
      BY <3>1, <3>3, <3>4, <3>6, <3>7
  <2>2. CASE StaleExit(g, notice)
    BY <2>2, TakenNotice DEF StaleExit, TakeNotice, callerVars, presenterVars, ghosts
  <2>3. CASE UnexpectedExit(g, notice)
    <3>1. /\ notices' \in [Generations -> Seq(Notice)]
          /\ UNCHANGED <<request, sent, replies, commands, pending, dismissed>>
          /\ restarts' \in 0..1
      BY <2>3, TakenNotice DEF UnexpectedExit, TakeNotice, callerVars
    <3>2. g \in 0..launched
      BY <2>3 DEF UnexpectedExit, Watched
    <3>3. CASE \/ LaunchSucceeds(0, Told(g, proc))
               \/ LaunchFails(0, Told(g, proc))
      <4>0. /\ Told(g, proc) \in [Generations -> Procs]
            /\ \A h \in Generations : Told(g, proc)[h] = "none" <=> proc[h] = "none"
        BY <3>2, OrdersKeepProcs
      <4>1. /\ launched' \in launched..MaxLaunches /\ launched' <= launched + 1
            /\ helper' \in 0..launched'
            /\ proc' \in [Generations -> Procs]
            /\ \A h \in Generations : proc'[h] = "none" <=> h > launched'
        BY <3>3, <4>0, LaunchRanges
      <4>2. tries' = tries + Started \/ UNCHANGED tries
        BY <2>3 DEF UnexpectedExit
      <4>3. tries' \in Nat
        BY <4>2 DEF Started
      <4>4. launched' \in 0..MaxLaunches /\ launched <= launched'
        BY <4>1
      <4>5. pending'.generation \in 0..launched' /\ dismissed' \in 0..launched'
        BY <3>1, <4>4
      <4>6. QED
        BY <3>1, <4>1, <4>3, <4>4, <4>5
    <3>4. CASE /\ helper' = 0 /\ proc' = Told(g, proc)
               /\ UNCHANGED <<launched, tries>>
      BY <3>1, <3>2, <3>4, OrdersKeepProcs
    <3>5. QED
      BY <2>3, <3>3, <3>4 DEF UnexpectedExit
  <2>4. QED
    BY <1>9, <2>1, <2>2, <2>3
<1>10. CASE Shutdown
  <2>1. pending # NoDismissal => pending.request \in Requests
    BY DEF Pendings
  <2>2. QED
    BY <1>10, <2>1, OrdersKeepProcs DEF Shutdown, callerVars, Pendings, NoDismissal
<1>11. QED
  BY <1>1, <1>2, <1>3, <1>4, <1>5, <1>6, <1>7, <1>8, <1>9, <1>10
     DEF Next, Presenter, HelperExited

-----------------------------------------------------------------------------
\* At the start no helper exists and no window is wanted.
LEMMA LifecycleInit == Init => Lifecycle
  BY BoundsAssumption DEF Init, Lifecycle, LifecycleMatches, Generations, NoDismissal

\* After a launch that succeeded the new helper is the only open one; after one
\* that failed the lifecycle is stopped and the failure reported.
LEMMA LaunchLifecycle ==
  ASSUME Ranges, NEW kept \in {0, helper}, NEW procs \in [Generations -> Procs],
         \A g \in Generations : procs[g] = "open" => kept = g,
         kept # 0 => kept = pending.generation,
         pending' = pending,
         LaunchSucceeds(kept, procs) \/ (LaunchFails(kept, procs) /\ ~(\E g \in Generations : procs[g] = "open"))
  PROVE  LifecycleMatches' /\ (running' \/ unavailable')
<1> USE DEF Ranges, Generations, LifecycleMatches
<1>1. CASE LaunchSucceeds(kept, procs)
  <2>1. /\ launched' = launched + 1 /\ launched' \in Generations
        /\ helper' = launched' /\ running' = TRUE
        /\ proc' = [Told(kept, procs) EXCEPT ![launched'] = "open"]
    BY <1>1, BoundsAssumption DEF LaunchSucceeds
  <2>2. \A g \in Generations : g # launched' => proc'[g] # "open"
    BY <2>1 DEF Told
  <2>3. QED
    BY <2>1, <2>2
<1>2. CASE LaunchFails(kept, procs) /\ ~(\E g \in Generations : procs[g] = "open")
  BY <1>2 DEF LaunchFails
<1>3. QED
  BY <1>1, <1>2

\* Every handler of the presenter keeps the lifecycle and the processes agreed.
LEMMA LifecycleStep == Ranges /\ Lifecycle /\ [Next]_vars => Lifecycle'
<1> SUFFICES ASSUME Ranges, Lifecycle, [Next]_vars PROVE Lifecycle'
  OBVIOUS
<1> USE BoundsAssumption DEF Lifecycle, LifecycleMatches,
        AUTOMATIC_RESTART_LIMIT_PER_UPDATE
<1>0. helper \in 0..launched /\ restarts \in 0..1 /\ tries \in Nat
      /\ launched \in 0..MaxLaunches /\ proc \in [Generations -> Procs]
      /\ pending.generation \in 0..launched
  BY DEF Ranges
<1>1. CASE UNCHANGED vars
  BY <1>1 DEF vars
<1>2. CASE Caller
  <2>1. UNCHANGED <<proc, presenterVars, ghosts>>
    BY <1>2 DEF Caller, SendUpdate, SendDismiss, GraceEnds, WaitEnds,
       Acknowledged, Pasted, Close
  <2>2. QED
    BY <2>1 DEF presenterVars, ghosts
<1>3. CASE Helpers
  <2>1. UNCHANGED <<presenterVars, ghosts>>
    BY <1>3 DEF Helpers, Exit, FrameSubmitted, HelperFails, ReportExit,
       ReportUnobserved, Report
  <2>2. \A g \in Generations : proc'[g] = "open" => proc[g] = "open"
    BY <1>0, <1>3 DEF Helpers, Exit, FrameSubmitted, HelperFails, ReportExit,
       ReportUnobserved, Report
  <2>3. QED
    BY <2>1, <2>2 DEF presenterVars, ghosts
<1>4. CASE Show
  <2>1. /\ UNCHANGED <<serving, pending>> /\ serving /\ visible' /\ wanted'
        /\ visible' = wanted' /\ serving' = serving
        /\ restarts' = 1 /\ tries' \in 0..1
    BY <1>4 DEF Show, TakeCommand, Started
  <2>2. CASE ~running /\ (LaunchSucceeds(helper, proc) \/ LaunchFails(helper, proc))
    <3>1. LifecycleMatches' /\ (running' \/ unavailable')
      BY <1>0, <2>1, <2>2, LaunchLifecycle
    <3>2. QED
      BY <2>1, <3>1
  <2>3. CASE running /\ UNCHANGED <<running, helper, unavailable, launched, proc>>
    BY <2>1, <2>3
  <2>4. CASE running /\ (\/ LaunchSucceeds(0, Killed(helper, proc))
                         \/ LaunchFails(0, Killed(helper, proc)))
    <3>1. /\ Killed(helper, proc) \in [Generations -> Procs]
          /\ ~ \E g \in Generations : Killed(helper, proc)[g] = "open"
      BY <1>0, OrdersKeepProcs DEF Killed
    <3>2. LifecycleMatches' /\ (running' \/ unavailable')
      BY <2>1, <2>4, <3>1, LaunchLifecycle
    <3>3. QED
      BY <2>1, <3>2
  <2>5. QED
    BY <1>4, <2>2, <2>3, <2>4 DEF Show
<1>5. CASE Hide
  BY <1>0, <1>5 DEF Hide, TakeCommand, Told
<1>6. CASE Dismiss
  <2>1. /\ ~running' /\ ~visible' /\ ~wanted' /\ restarts' = 0 /\ tries' = 0
        /\ helper' = helper /\ serving' = serving /\ serving
    BY <1>6 DEF Dismiss, TakeCommand
  <2>2. CASE helper = 0
    BY <1>0, <1>6, <2>1, <2>2 DEF Dismiss
  <2>3. CASE helper # 0
    <3>1. proc' = Told(helper, proc) /\ pending'.generation = helper
      BY <1>6, <2>3 DEF Dismiss
    <3>2. QED
      BY <1>0, <2>1, <2>3, <3>1 DEF Told
  <2>4. QED
    BY <2>2, <2>3
<1>7. CASE ForceDismissal
  BY <1>0, <1>7 DEF ForceDismissal, TakeCommand, Killed, ghosts
<1>8. ASSUME NEW g \in Generations, StatusFrame(g) \/ StatusFailed(g)
      PROVE  Lifecycle'
  <2>1. UNCHANGED <<serving, running, helper, visible, restarts, pending, wanted, tries>>
    BY <1>8 DEF StatusFrame, StatusFailed, TakeNotice, ghosts
  <2>2. CASE StatusFrame(g)
    <3>1. UNCHANGED proc
      BY <2>2 DEF StatusFrame
    <3>2. CASE Watched(g)
      <4>1. running
        BY <1>0, <3>2 DEF Watched, Generations
      <4>2. QED
        BY <2>1, <3>1, <4>1
    <3>3. CASE ~Watched(g)
      BY <2>1, <2>2, <3>1, <3>3 DEF StatusFrame
    <3>4. QED
      BY <3>2, <3>3
  <2>3. CASE StatusFailed(g)
    <3>1. \A h \in Generations : proc'[h] = "open" => proc[h] = "open"
      BY <1>0, <2>3 DEF StatusFailed, Killed
    <3>2. UNCHANGED unavailable \/ unavailable'
      BY <2>3 DEF StatusFailed
    <3>3. QED
      BY <2>1, <3>1, <3>2
  <2>4. QED
    BY <1>8, <2>2, <2>3
<1>9. ASSUME NEW g \in Generations, NEW notice \in {"exited", "unobserved"},
             DismissedExit(g, notice) \/ StaleExit(g, notice)
               \/ UnexpectedExit(g, notice)
      PROVE  Lifecycle'
  <2>1. CASE DismissedExit(g, notice)
    BY <1>0, <2>1 DEF DismissedExit, TakeNotice, ghosts, Told, NoDismissal, Generations
  <2>2. CASE StaleExit(g, notice)
    BY <2>2 DEF StaleExit, TakeNotice, presenterVars, ghosts
  <2>3. CASE UnexpectedExit(g, notice)
    <3>1. /\ UNCHANGED <<serving, pending, visible, wanted>> /\ serving
          /\ g = helper /\ running
      BY <2>3 DEF UnexpectedExit, TakeNotice, Watched, Generations
    <3>2. /\ Told(g, proc) \in [Generations -> Procs]
          /\ ~ \E h \in Generations : Told(g, proc)[h] = "open"
      BY <1>0, <3>1, OrdersKeepProcs DEF Told
    <3>3. CASE /\ visible /\ restarts > 0 /\ restarts' = restarts - 1
               /\ \/ LaunchSucceeds(0, Told(g, proc)) /\ unavailable' = TRUE
                  \/ LaunchFails(0, Told(g, proc))
               /\ tries' = tries + Started
      <4>1. LifecycleMatches' /\ (running' \/ unavailable')
        BY <3>1, <3>2, <3>3, LaunchLifecycle
      <4>2. restarts' = 0 /\ tries' \in 0..2 /\ wanted
        BY <1>0, <3>3 DEF Started
      <4>3. QED
        BY <1>0, <3>1, <3>3, <4>1, <4>2
    <3>4. CASE /\ helper' = 0 /\ running' = FALSE /\ proc' = Told(g, proc)
               /\ unavailable' = TRUE
               /\ UNCHANGED <<restarts, launched, monitor, tries>>
      BY <3>1, <3>2, <3>4
    <3>5. QED
      BY <2>3, <3>3, <3>4 DEF UnexpectedExit
  <2>4. QED
    BY <1>9, <2>1, <2>2, <2>3
<1>10. CASE Shutdown
  BY <1>0, <1>10 DEF Shutdown, Told, NoDismissal
<1>11. QED
  BY <1>1, <1>2, <1>3, <1>4, <1>5, <1>6, <1>7, <1>8, <1>9, <1>10
     DEF Next, Presenter, HelperExited

-----------------------------------------------------------------------------
\* At the start nothing was asked for.
LEMMA DismissalsInit == Init => Dismissals
  BY DEF Init, Dismissals, NoDismissal, Requests

\* A command that is put at the end of the queue.
LEMMA Appended ==
  ASSUME Ranges, NEW c \in Command, commands' = Append(commands, c)
  PROVE  /\ Len(commands') = Len(commands) + 1
         /\ commands'[Len(commands) + 1] = c
         /\ \A i \in 1..Len(commands) : commands'[i] = commands[i]
         /\ \A i \in 1..Len(commands') :
              i \in 1..Len(commands) \/ i = Len(commands) + 1
  BY DEF Ranges

\* Only a dismissal in the queue carries a request.
LEMMA QueuedRequest ==
  ASSUME Ranges, NEW i \in 1..Len(commands)
  PROVE  /\ commands[i].request \in 0..MaxCommands
         /\ commands[i].kind = "dismiss" => commands[i].request \in Requests
<1>1. commands[i] \in Command
  BY DEF Ranges
<1>2. QED
  BY <1>1, BoundsAssumption DEF Command, Requests

\* Taking a command keeps the numbering of what is left.
LEMMA TakenKeepsOrder ==
  ASSUME Ranges, Dismissals, NEW kind, TakeCommand(kind)
  PROVE  /\ \A i \in 1..Len(commands') : commands'[i].kind = "dismiss" =>
              /\ commands'[i].request <= request
              /\ pending.request < commands'[i].request
              /\ \A r \in Requests : r >= commands'[i].request => replies[r] = "none"
              /\ kind = "dismiss" => Head(commands).request < commands'[i].request
         /\ \A i, k \in 1..Len(commands') :
              i < k /\ commands'[i].kind = "dismiss" /\ commands'[k].kind = "dismiss"
                => commands'[i].request < commands'[k].request
<1>1. /\ Len(commands) > 0 /\ Head(commands) = commands[1] /\ Head(commands).kind = kind
      /\ Len(commands') = Len(commands) - 1 /\ Len(commands) \in Nat
      /\ \A i \in 1..Len(commands') : commands'[i] = commands[i + 1]
      /\ \A i \in 1..Len(commands') : i + 1 \in 1..Len(commands)
  BY TakenCommand DEF Ranges
<1>2. 1 \in 1..Len(commands)
  BY <1>1
<1>3. ASSUME NEW i \in 1..Len(commands'), commands'[i].kind = "dismiss"
      PROVE  /\ commands'[i].request <= request
             /\ pending.request < commands'[i].request
             /\ \A r \in Requests : r >= commands'[i].request => replies[r] = "none"
             /\ kind = "dismiss" => Head(commands).request < commands'[i].request
  <2>1. i + 1 \in 1..Len(commands) /\ commands'[i] = commands[i + 1] /\ 1 < i + 1
    BY <1>1, <1>3
  <2>2. QED
    BY <1>1, <1>2, <1>3, <2>1 DEF Dismissals
<1>4. ASSUME NEW i \in 1..Len(commands'), NEW k \in 1..Len(commands'), i < k,
             commands'[i].kind = "dismiss", commands'[k].kind = "dismiss"
      PROVE  commands'[i].request < commands'[k].request
  <2>1. /\ i + 1 \in 1..Len(commands) /\ commands'[i] = commands[i + 1]
        /\ k + 1 \in 1..Len(commands) /\ commands'[k] = commands[k + 1]
        /\ i + 1 < k + 1
    BY <1>1, <1>4
  <2>2. QED
    BY <1>4, <2>1 DEF Dismissals
<1>5. QED
  BY <1>3, <1>4

\* Requests are numbered upwards and answered once, so a queued one is the newer.
LEMMA DismissalsStep == Ranges /\ Dismissals /\ [Next]_vars => Dismissals'
<1> SUFFICES ASSUME Ranges, Dismissals, [Next]_vars PROVE Dismissals'
  OBVIOUS
<1>0. /\ request \in 0..MaxCommands /\ pending.request \in 0..MaxCommands
      /\ replies \in [Requests -> {"none", "ok", "failed"}]
      /\ Len(commands) \in Nat /\ MaxCommands \in Nat
  BY BoundsAssumption DEF Ranges, Pendings, NoDismissal, Requests
<1>1. CASE UNCHANGED <<commands, request, replies, pending>>
  BY <1>1 DEF Dismissals
<1>2. ASSUME NEW kind \in {"show", "hide", "force"},
             commands' = Append(commands, [kind |-> kind, request |-> 0]),
             UNCHANGED <<request, replies, pending>>
      PROVE  Dismissals'
  <2>1. [kind |-> kind, request |-> 0] \in Command /\ kind # "dismiss"
    BY DEF Command
  <2>2. /\ Len(commands') = Len(commands) + 1
        /\ commands'[Len(commands) + 1].kind # "dismiss"
        /\ \A i \in 1..Len(commands) : commands'[i] = commands[i]
        /\ \A i \in 1..Len(commands') :
             i \in 1..Len(commands) \/ i = Len(commands) + 1
    BY <1>2, <2>1, Appended
  <2>3. QED
    BY <1>0, <1>2, <2>2 DEF Dismissals
<1>3. CASE SendDismiss
  <2>1. /\ request' = request + 1 /\ request' \in Requests
        /\ commands' = Append(commands, [kind |-> "dismiss", request |-> request + 1])
        /\ UNCHANGED <<replies, pending>>
    BY <1>0, <1>3 DEF SendDismiss, CanSend, presenterVars, Ranges, Requests
  <2>2. [kind |-> "dismiss", request |-> request + 1] \in Command
    BY <2>1 DEF Command
  <2>3. /\ Len(commands') = Len(commands) + 1
        /\ commands'[Len(commands) + 1] = [kind |-> "dismiss", request |-> request + 1]
        /\ \A i \in 1..Len(commands) : commands'[i] = commands[i]
        /\ \A i \in 1..Len(commands') :
             i \in 1..Len(commands) \/ i = Len(commands) + 1
    BY <2>1, <2>2, Appended
  <2>4. ASSUME NEW i \in 1..Len(commands'), commands'[i].kind = "dismiss"
        PROVE  /\ commands'[i].request <= request'
               /\ pending'.request < commands'[i].request
               /\ \A r \in Requests : r >= commands'[i].request => replies'[r] = "none"
    <3>1. CASE i \in 1..Len(commands)
      <4>1. /\ commands'[i].request = commands[i].request
            /\ commands[i].request <= request
            /\ pending.request < commands[i].request
            /\ \A r \in Requests : r >= commands[i].request => replies[r] = "none"
        BY <2>3, <2>4, <3>1 DEF Dismissals
      <4>2. commands[i].request \in 0..MaxCommands
        BY <1>0, <3>1, QueuedRequest
      <4>3. commands[i].request <= request + 1
        BY <1>0, <4>1, <4>2
      <4>4. QED
        BY <2>1, <4>1, <4>3
    <3>2. CASE i = Len(commands) + 1
      <4>1. commands'[i].request = request + 1
        BY <2>3, <3>2
      <4>2. /\ pending.request <= request
            /\ \A r \in Requests : r > request => replies[r] = "none"
        BY DEF Dismissals
      <4>3. QED
        BY <1>0, <2>1, <4>1, <4>2 DEF Requests
    <3>3. QED
      BY <2>3, <2>4, <3>1, <3>2
  <2>5. ASSUME NEW i \in 1..Len(commands'), NEW k \in 1..Len(commands'), i < k,
               commands'[i].kind = "dismiss", commands'[k].kind = "dismiss"
        PROVE  commands'[i].request < commands'[k].request
    <3>1. i \in 1..Len(commands) /\ commands'[i] = commands[i]
      BY <1>0, <2>3, <2>5
    <3>2. CASE k \in 1..Len(commands)
      BY <2>3, <2>5, <3>1, <3>2 DEF Dismissals
    <3>3. CASE k = Len(commands) + 1
      <4>1. commands'[k].request = request + 1 /\ commands[i].request <= request
        BY <2>3, <2>5, <3>1, <3>3 DEF Dismissals
      <4>2. commands[i].request \in 0..MaxCommands
        BY <1>0, <3>1, QueuedRequest
      <4>3. QED
        BY <1>0, <3>1, <4>1, <4>2
    <3>4. QED
      BY <2>3, <3>2, <3>3
  <2>6. /\ pending'.request <= request'
        /\ \A r \in Requests : r > request' => replies'[r] = "none"
    BY <1>0, <2>1 DEF Dismissals, Requests
  <2>7. pending' # NoDismissal => replies'[pending'.request] = "none"
    BY <2>1 DEF Dismissals
  <2>8. QED
    BY <2>4, <2>5, <2>6, <2>7 DEF Dismissals
<1>4. ASSUME NEW kind, TakeCommand(kind), UNCHANGED <<request, replies, pending>>
      PROVE  Dismissals'
  BY <1>4, TakenKeepsOrder DEF Dismissals
<1>5. CASE Dismiss
  <2> DEFINE r0 == Head(commands).request
  <2>1. TakeCommand("dismiss") /\ UNCHANGED request
    BY <1>5 DEF Dismiss, TakeCommand, callerVars
  <2>2. /\ \A i \in 1..Len(commands') : commands'[i].kind = "dismiss" =>
             /\ commands'[i].request <= request
             /\ pending.request < commands'[i].request
             /\ \A r \in Requests : r >= commands'[i].request => replies[r] = "none"
             /\ r0 < commands'[i].request
        /\ \A i, k \in 1..Len(commands') :
             i < k /\ commands'[i].kind = "dismiss" /\ commands'[k].kind = "dismiss"
               => commands'[i].request < commands'[k].request
    BY <2>1, TakenKeepsOrder
  <2>3. r0 \in Requests /\ r0 <= request
    <3>1. /\ Head(commands) = commands[1] /\ Head(commands).kind = "dismiss"
          /\ Head(commands) \in Command /\ 1 \in 1..Len(commands)
      BY <1>0, <2>1, TakenCommand
    <3>2. QED
      BY <3>1 DEF Dismissals, Command
  <2>3a. pending.request < r0 /\ replies[r0] = "none"
    <3>1. /\ Head(commands) = commands[1] /\ Head(commands).kind = "dismiss"
          /\ 1 \in 1..Len(commands)
      BY <1>0, <2>1, TakenCommand
    <3>2. QED
      BY <2>3, <3>1 DEF Dismissals, Requests
  <2>4. \A i \in 1..Len(commands') : commands'[i].kind = "dismiss" =>
          commands'[i].request \in Requests
    <3>1. \A i \in 1..Len(commands') : commands'[i] = commands[i + 1]
      BY <2>1, TakenCommand
    <3>2. \A i \in 1..Len(commands') : i + 1 \in 1..Len(commands)
      BY <2>1, TakenCommand
    <3>3. QED
      BY <3>1, <3>2, QueuedRequest
  <2> HIDE DEF r0
  <2>5. CASE replies' = [replies EXCEPT ![r0] = "ok"] /\ UNCHANGED pending
    <3>1. \A r \in Requests : r # r0 => replies'[r] = replies[r]
      BY <1>0, <2>5
    <3>2. pending' # NoDismissal => replies'[pending'.request] = "none"
      <4>1. pending # NoDismissal => pending.request \in Requests
        BY DEF Ranges, Pendings
      <4>2. pending.request # r0
        BY <1>0, <2>3, <2>3a DEF Requests
      <4>3. pending # NoDismissal => replies[pending.request] = "none"
        BY DEF Dismissals
      <4>4. QED
        BY <2>5, <3>1, <4>1, <4>2, <4>3
    <3>3. /\ pending'.request <= request'
          /\ \A r \in Requests : r > request' => replies'[r] = "none"
      BY <1>0, <2>1, <2>3, <2>5, <3>1 DEF Dismissals, Requests
    <3>4. \A i \in 1..Len(commands') : commands'[i].kind = "dismiss" =>
            \A r \in Requests : r >= commands'[i].request => replies'[r] = "none"
      BY <2>2, <2>3, <2>4, <3>1 DEF Requests
    <3>5. QED
      BY <2>1, <2>2, <2>5, <3>2, <3>3, <3>4 DEF Dismissals
  <2>6. CASE pending' = [generation |-> helper, request |-> r0] /\ UNCHANGED replies
    <3>1. pending'.request = r0 /\ replies'[r0] = "none"
      BY <2>3, <2>6, <2>3a
    <3>2. /\ pending'.request <= request'
          /\ \A r \in Requests : r > request' => replies'[r] = "none"
      BY <2>1, <2>3, <2>6, <3>1 DEF Dismissals
    <3>3. QED
      BY <2>1, <2>2, <2>6, <3>1, <3>2 DEF Dismissals
  <2>7. QED
    BY <1>5, <2>5, <2>6 DEF Dismiss, r0
<1>6. ASSUME pending # NoDismissal, pending' = NoDismissal,
             \E answer : replies' = [replies EXCEPT ![pending.request] = answer],
             UNCHANGED <<commands, request>>
      PROVE  Dismissals'
  <2>1. pending.request \in Requests /\ pending'.request = 0
    BY <1>6 DEF Ranges, Pendings, NoDismissal
  <2>2. \A r \in Requests : r # pending.request => replies'[r] = replies[r]
    BY <1>0, <1>6, <2>1
  <2>3. \A i \in 1..Len(commands) : commands[i].kind = "dismiss" =>
          commands[i].request \in Requests
    BY DEF Ranges, Command
  <2>4. QED
    BY <1>0, <1>6, <2>1, <2>2, <2>3 DEF Dismissals, Requests
<1>7. CASE UNCHANGED vars
  BY <1>1, <1>7 DEF vars
<1>8. CASE Caller
  <2>1. CASE SendDismiss
    BY <1>3, <2>1
  <2>2. CASE GraceEnds \/ (\E kind \in {"show", "hide"} : SendUpdate(kind))
    <3>1. UNCHANGED <<request, replies, pending>>
      BY <2>2 DEF GraceEnds, SendUpdate, presenterVars
    <3>2. \E kind \in {"show", "hide", "force"} :
            commands' = Append(commands, [kind |-> kind, request |-> 0])
      BY <2>2 DEF GraceEnds, SendUpdate
    <3>3. QED
      BY <1>2, <3>1, <3>2
  <2>3. CASE WaitEnds \/ Acknowledged \/ Pasted \/ Close
    BY <1>1, <2>3 DEF WaitEnds, Acknowledged, Pasted, Close, presenterVars
  <2>4. QED
    BY <1>8, <2>1, <2>2, <2>3 DEF Caller
<1>9. CASE Helpers
  BY <1>1, <1>9 DEF Helpers, Exit, FrameSubmitted, HelperFails, ReportExit,
     ReportUnobserved, Report, callerVars, presenterVars
<1>10. CASE Show \/ Hide \/ ForceDismissal
  <2>1. UNCHANGED <<request, replies, pending>>
    BY <1>10 DEF Show, Hide, ForceDismissal, TakeCommand, callerVars
  <2>2. \E kind : TakeCommand(kind)
    BY <1>10 DEF Show, Hide, ForceDismissal
  <2>3. QED
    BY <1>4, <2>1, <2>2
<1>11. ASSUME NEW g \in Generations, StatusFrame(g) \/ StatusFailed(g)
       PROVE  Dismissals'
  BY <1>1, <1>11 DEF StatusFrame, StatusFailed, TakeNotice, callerVars
<1>12. ASSUME NEW g \in Generations, NEW notice \in {"exited", "unobserved"},
              DismissedExit(g, notice) \/ StaleExit(g, notice)
                \/ UnexpectedExit(g, notice)
       PROVE  Dismissals'
  <2>1. CASE DismissedExit(g, notice)
    <3>1. pending # NoDismissal
      BY <2>1 DEF DismissedExit, NoDismissal, Generations
    <3>2. QED
      BY <1>6, <2>1, <3>1 DEF DismissedExit, TakeNotice, callerVars
  <2>2. CASE StaleExit(g, notice)
    BY <1>1, <2>2 DEF StaleExit, TakeNotice, callerVars, presenterVars
  <2>3. CASE UnexpectedExit(g, notice)
    BY <1>1, <2>3 DEF UnexpectedExit, TakeNotice, callerVars
  <2>4. QED
    BY <1>12, <2>1, <2>2, <2>3
<1>13. CASE Shutdown
  <2>1. CASE pending = NoDismissal
    BY <1>1, <1>13, <2>1 DEF Shutdown, callerVars
  <2>2. CASE pending # NoDismissal
    BY <1>6, <1>13, <2>2 DEF Shutdown, callerVars
  <2>3. QED
    BY <2>1, <2>2
<1>14. QED
  BY <1>7, <1>8, <1>9, <1>5, <1>10, <1>11, <1>12, <1>13
     DEF Next, Presenter, HelperExited

-----------------------------------------------------------------------------
\* At the start no exit was reported.
LEMMA ExitsInit == Init => Exits
  BY DEF Init, Exits, NoDismissal

\* No step brings a process back that is gone.
LEMMA GoneStays ==
  ASSUME Ranges, [Next]_vars, NEW p \in Generations, proc[p] = "gone"
  PROVE  proc'[p] = "gone"
<1>0. proc \in [Generations -> Procs] /\ helper \in 0..launched
      /\ \A g \in Generations : proc[g] = "none" <=> g > launched
  BY DEF Ranges
<1>1. ASSUME NEW kept \in {0, helper}, NEW procs \in [Generations -> Procs],
             procs[p] = "gone",
             LaunchSucceeds(kept, procs) \/ LaunchFails(kept, procs)
      PROVE  proc'[p] = "gone"
  <2>1. CASE LaunchSucceeds(kept, procs)
    <3>1. proc' = [Told(kept, procs) EXCEPT ![launched + 1] = "open"]
      BY <2>1 DEF LaunchSucceeds
    <3>2. p # launched + 1
      <4>1. ~(p > launched)
        BY <1>0
      <4>2. QED
        BY <4>1, BoundsAssumption DEF Ranges, Generations
    <3>3. Told(kept, procs)[p] = "gone" /\ Told(kept, procs) \in [Generations -> Procs]
      BY <1>1 DEF Told, Procs
    <3>4. QED
      BY <3>1, <3>2, <3>3
  <2>2. CASE LaunchFails(kept, procs)
    BY <1>1, <2>2 DEF LaunchFails
  <2>3. QED
    BY <1>1, <2>1, <2>2
<1>2. \A g \in Generations \cup {0} :
        /\ Told(g, proc)[p] = "gone" /\ Killed(g, proc)[p] = "gone"
        /\ Told(g, proc) \in [Generations -> Procs]
        /\ Killed(g, proc) \in [Generations -> Procs]
  BY <1>0 DEF Told, Killed, Procs
<1>3. helper \in Generations \cup {0}
  BY BoundsAssumption DEF Ranges, Generations
<1>4. CASE UNCHANGED proc
  BY <1>4
<1>5. CASE Caller \/ UNCHANGED vars
  BY <1>4, <1>5 DEF vars, Caller, SendUpdate, SendDismiss, GraceEnds, WaitEnds,
     Acknowledged, Pasted, Close
<1>6. CASE Helpers
  BY <1>0, <1>6 DEF Helpers, Exit, FrameSubmitted, HelperFails, ReportExit,
     ReportUnobserved, Report, Alive
<1>7. CASE Show
  BY <1>0, <1>1, <1>2, <1>3, <1>7 DEF Show
<1>8. CASE Hide \/ Dismiss \/ ForceDismissal \/ Shutdown
  BY <1>2, <1>3, <1>8 DEF Hide, Dismiss, ForceDismissal, Shutdown
<1>9. ASSUME NEW g \in Generations, StatusFrame(g) \/ StatusFailed(g)
      PROVE  proc'[p] = "gone"
  BY <1>2, <1>9 DEF StatusFrame, StatusFailed
<1>10. ASSUME NEW g \in Generations, NEW notice \in {"exited", "unobserved"},
              DismissedExit(g, notice) \/ StaleExit(g, notice)
                \/ UnexpectedExit(g, notice)
       PROVE  proc'[p] = "gone"
  BY <1>1, <1>2, <1>10 DEF DismissedExit, StaleExit, UnexpectedExit
<1>11. QED
  BY <1>5, <1>6, <1>7, <1>8, <1>9, <1>10 DEF Next, Presenter, HelperExited

\* An exit is reported only for a process that is gone.
LEMMA NoticesStep ==
  ASSUME Ranges, Exits, [Next]_vars,
         NEW p \in Generations, NEW i \in 1..Len(notices'[p]),
         notices'[p][i] = "exited"
  PROVE  proc'[p] = "gone"
<1>0. notices \in [Generations -> Seq(Notice)]
  BY DEF Ranges
<1>1. \A k \in 1..Len(notices[p]) : notices[p][k] = "exited" => proc'[p] = "gone"
  BY GoneStays DEF Exits
<1>2. CASE UNCHANGED notices
  BY <1>1, <1>2
<1>3. CASE Caller \/ UNCHANGED vars \/ Show \/ Hide \/ Dismiss \/ ForceDismissal
             \/ Shutdown
  BY <1>2, <1>3 DEF vars, Caller, SendUpdate, SendDismiss, GraceEnds, WaitEnds,
     Acknowledged, Pasted, Close, Show, Hide, Dismiss, ForceDismissal, Shutdown,
     TakeCommand
<1>4. ASSUME NEW g \in Generations, NEW notice, TakeNotice(g, notice)
      PROVE  proc'[p] = "gone"
  <2>1. CASE g = p
    <3>1. /\ Len(notices'[p]) = Len(notices[p]) - 1
          /\ notices'[p][i] = notices[p][i + 1]
      BY <1>4, <2>1, TakenNotice
    <3>2. Len(notices[p]) \in Nat
      BY <1>0
    <3>3. i + 1 \in 1..Len(notices[p])
      BY <3>1, <3>2
    <3>4. QED
      BY <1>1, <3>1, <3>3
  <2>2. CASE g # p
    <3>1. notices'[p] = notices[p]
      BY <1>4, <2>2, TakenNotice
    <3>2. QED
      BY <1>1, <3>1
  <2>3. QED
    BY <2>1, <2>2
<1>5. ASSUME NEW g \in Generations, NEW from, NEW to, NEW notice \in Notice,
             Report(g, from, to, notice), notice = "exited" => proc[g] = "gone"
      PROVE  proc'[p] = "gone"
  <2>1. notices' = [notices EXCEPT ![g] = Append(@, notice)] /\ UNCHANGED proc
    BY <1>5 DEF Report
  <2>2. CASE g = p
    <3>1. notices'[p] = Append(notices[p], notice)
      BY <1>0, <2>1, <2>2
    <3>2. notices[p] \in Seq(Notice)
      BY <1>0
    <3>3. i \in 1..Len(notices[p]) + 1
      BY <3>1, <3>2
    <3>4. CASE i = Len(notices[p]) + 1
      BY <1>5, <2>1, <2>2, <3>1, <3>2, <3>4
    <3>5. CASE i \in 1..Len(notices[p])
      BY <1>1, <3>1, <3>2, <3>5
    <3>6. QED
      BY <3>2, <3>3, <3>4, <3>5
  <2>3. CASE g # p
    BY <1>0, <1>1, <2>1, <2>3
  <2>4. QED
    BY <2>2, <2>3
<1>6. CASE Helpers
  <2>1. PICK g \in Generations :
          Exit(g) \/ FrameSubmitted(g) \/ HelperFails(g) \/ ReportExit(g)
            \/ ReportUnobserved(g)
    BY <1>6 DEF Helpers
  <2>2. CASE Exit(g)
    BY <1>2, <2>2 DEF Exit
  <2>3. CASE FrameSubmitted(g)
    BY <1>5, <2>3 DEF FrameSubmitted, Notice
  <2>4. CASE HelperFails(g)
    BY <1>5, <2>4 DEF HelperFails, Notice
  <2>5. CASE ReportExit(g)
    BY <1>5, <2>5 DEF ReportExit, Notice
  <2>6. CASE ReportUnobserved(g)
    BY <1>5, <2>6 DEF ReportUnobserved, Notice
  <2>7. QED
    BY <2>1, <2>2, <2>3, <2>4, <2>5, <2>6
<1>7. ASSUME NEW g \in Generations, StatusFrame(g) \/ StatusFailed(g)
      PROVE  proc'[p] = "gone"
  BY <1>4, <1>7 DEF StatusFrame, StatusFailed
<1>8. ASSUME NEW g \in Generations, NEW notice \in {"exited", "unobserved"},
             DismissedExit(g, notice) \/ StaleExit(g, notice)
               \/ UnexpectedExit(g, notice)
      PROVE  proc'[p] = "gone"
  BY <1>4, <1>8 DEF DismissedExit, StaleExit, UnexpectedExit
<1>9. QED
  BY <1>3, <1>6, <1>7, <1>8 DEF Next, Presenter, HelperExited

\* An answer of Ok to the newest request rests on the exit of its helper.
LEMMA ExitsStep == Ranges /\ Dismissals /\ Exits /\ [Next]_vars => Exits'
<1> SUFFICES ASSUME Ranges, Dismissals, Exits, [Next]_vars PROVE Exits'
  OBVIOUS
<1>0. /\ request \in 0..MaxCommands /\ pending.request \in 0..MaxCommands
      /\ replies \in [Requests -> {"none", "ok", "failed"}]
      /\ dismissed \in 0..launched /\ launched \in 0..MaxLaunches
      /\ MaxCommands \in Nat /\ MaxLaunches \in Nat
      /\ pending # NoDismissal => pending.request \in Requests
  BY BoundsAssumption DEF Ranges, Pendings, NoDismissal, Requests
<1>n. \A g \in Generations : \A i \in 1..Len(notices'[g]) :
        notices'[g][i] = "exited" => proc'[g] = "gone"
  BY NoticesStep
<1>g. \A g \in Generations : proc[g] = "gone" => proc'[g] = "gone"
  BY GoneStays
<1>d. dismissed # 0 => dismissed \in Generations
  BY <1>0 DEF Generations
<1>1. CASE UNCHANGED <<request, replies, pending, dismissed>>
  BY <1>n, <1>g, <1>d, <1>1 DEF Exits
<1>2. CASE SendDismiss
  <2>1. /\ request' = request + 1 /\ request' \in Requests
        /\ UNCHANGED <<replies, pending, dismissed>>
    BY <1>0, <1>2 DEF SendDismiss, CanSend, presenterVars, ghosts, Ranges, Requests
  <2>2. replies[request'] = "none" /\ pending.request # request'
    BY <1>0, <2>1 DEF Dismissals
  <2>3. QED
    BY <1>n, <2>1, <2>2 DEF Exits
<1>3. CASE Dismiss
  <2> DEFINE r0 == Head(commands).request
  <2>1. TakeCommand("dismiss") /\ UNCHANGED request /\ dismissed' = helper
    BY <1>3 DEF Dismiss, TakeCommand, callerVars
  <2>2. /\ r0 \in Requests /\ r0 <= request /\ pending.request < r0
        /\ replies[request] = "none" /\ request # 0 /\ request \in Requests
    <3>1. /\ Head(commands) = commands[1] /\ Head(commands).kind = "dismiss"
          /\ 1 \in 1..Len(commands)
      BY <2>1, TakenCommand DEF Ranges
    <3>2. r0 \in Requests
      BY <3>1, QueuedRequest
    <3>3. r0 <= request /\ pending.request < r0
          /\ \A r \in Requests : r >= r0 => replies[r] = "none"
      BY <3>1 DEF Dismissals
    <3>4. request \in Requests
      BY <1>0, <3>2, <3>3 DEF Requests
    <3>5. QED
      BY <1>0, <3>2, <3>3, <3>4 DEF Requests
  <2> HIDE DEF r0
  <2>3. CASE helper = 0
    <3>1. UNCHANGED pending
      BY <1>3, <2>3 DEF Dismiss
    <3>2. pending.request # request
      BY <1>0, <2>2 DEF Requests
    <3>3. QED
      BY <1>n, <2>1, <2>3, <3>1, <3>2 DEF Exits
  <2>4. CASE helper # 0
    <3>1. UNCHANGED replies /\ pending' = [generation |-> helper, request |-> r0]
      BY <1>3, <2>4 DEF Dismiss, r0
    <3>2. QED
      BY <1>n, <2>1, <2>2, <3>1 DEF Exits
  <2>5. QED
    BY <2>3, <2>4
<1>4. ASSUME pending # NoDismissal, pending' = NoDismissal,
             NEW answer,
             replies' = [replies EXCEPT ![pending.request] = answer],
             answer = "ok" => proc[pending.generation] = "gone"
                              /\ pending.generation \in Generations,
             UNCHANGED <<request, dismissed>>
      PROVE  Exits'
  <2>1. CASE pending.request = request
    <3>1. dismissed = pending.generation
      BY <1>4, <2>1 DEF Exits
    <3>2. replies'[request'] = answer
      BY <1>0, <1>4, <2>1
    <3>3. QED
      BY <1>n, <1>g, <1>4, <3>1, <3>2 DEF Exits
  <2>2. CASE pending.request # request
    <3>1. request # 0 => replies'[request] = replies[request]
      BY <1>0, <1>4, <2>2 DEF Requests
    <3>2. QED
      BY <1>n, <1>g, <1>d, <1>4, <3>1 DEF Exits
  <2>3. QED
    BY <2>1, <2>2
<1>5. CASE Caller
  <2>1. CASE SendDismiss
    BY <1>2, <2>1
  <2>2. CASE ~SendDismiss
    BY <1>1, <1>5, <2>2 DEF Caller, SendUpdate, GraceEnds, WaitEnds, Acknowledged,
       Pasted, Close, presenterVars, ghosts
  <2>3. QED
    BY <2>1, <2>2
<1>6. CASE Helpers
  BY <1>1, <1>6 DEF Helpers, Exit, FrameSubmitted, HelperFails, ReportExit,
     ReportUnobserved, Report, callerVars, presenterVars, ghosts
<1>7. CASE Show \/ Hide \/ ForceDismissal \/ UNCHANGED vars
  BY <1>1, <1>7 DEF Show, Hide, ForceDismissal, TakeCommand, callerVars, ghosts, vars
<1>8. ASSUME NEW g \in Generations, StatusFrame(g) \/ StatusFailed(g)
      PROVE  Exits'
  BY <1>1, <1>8 DEF StatusFrame, StatusFailed, TakeNotice, callerVars, ghosts
<1>9. ASSUME NEW g \in Generations, NEW notice \in {"exited", "unobserved"},
             DismissedExit(g, notice) \/ StaleExit(g, notice)
               \/ UnexpectedExit(g, notice)
      PROVE  Exits'
  <2>1. CASE DismissedExit(g, notice)
    <3>1. /\ pending # NoDismissal /\ pending' = NoDismissal
          /\ pending.generation = g
          /\ UNCHANGED <<request, dismissed>>
          /\ replies' = [replies EXCEPT ![pending.request] =
                           IF notice = "exited" THEN "ok" ELSE "failed"]
      BY <2>1 DEF DismissedExit, NoDismissal, Generations, TakeNotice, callerVars, ghosts
    <3>2. notice = "exited" => proc[g] = "gone"
      BY <2>1, TakenNotice DEF DismissedExit, Exits
    <3>3. QED
      BY <1>4, <3>1, <3>2
  <2>2. CASE StaleExit(g, notice)
    BY <1>1, <2>2 DEF StaleExit, TakeNotice, callerVars, presenterVars, ghosts
  <2>3. CASE UnexpectedExit(g, notice)
    BY <1>1, <2>3 DEF UnexpectedExit, TakeNotice, callerVars
  <2>4. QED
    BY <1>9, <2>1, <2>2, <2>3
<1>10. CASE Shutdown
  <2>1. UNCHANGED <<request, dismissed>> /\ pending' = NoDismissal
    BY <1>10 DEF Shutdown, callerVars
  <2>2. CASE pending = NoDismissal
    BY <1>1, <1>10, <2>1, <2>2 DEF Shutdown
  <2>3. CASE pending # NoDismissal
    <3>1. replies' = [replies EXCEPT ![pending.request] = "failed"]
      BY <1>10, <2>3 DEF Shutdown
    <3>2. QED
      BY <1>4, <2>1, <2>3, <3>1
  <2>4. QED
    BY <2>2, <2>3
<1>11. QED
  BY <1>3, <1>5, <1>6, <1>7, <1>8, <1>9, <1>10 DEF Next, Presenter, HelperExited

-----------------------------------------------------------------------------
\* At the start the caller does not wait.
LEMMA BehindInit == Init => Behind
  BY DEF Init, Behind, Waiting

\* Taking the next command while the caller waits: either it is a demand to
\* kill, or it is the caller's dismissal, or that is still in the queue.
LEMMA TakenBehind ==
  ASSUME Ranges, Behind, Waiting, NEW kind, TakeCommand(kind)
  PROVE  \/ /\ kind = "force" /\ ~wanted
            /\ \A i \in 1..Len(commands') : commands'[i].kind = "force"
         \/ /\ kind = "dismiss"
            /\ \A i \in 1..Len(commands') : commands'[i].kind = "force"
         \/ \E i \in 1..Len(commands') :
              /\ commands'[i].kind = "dismiss" /\ commands'[i].request = request
              /\ \A k \in 1..Len(commands') : k > i => commands'[k].kind = "force"
<1>1. /\ Len(commands) > 0 /\ commands[1].kind = kind
      /\ Len(commands') = Len(commands) - 1 /\ Len(commands) \in Nat
      /\ \A i \in 1..Len(commands') : commands'[i] = commands[i + 1]
      /\ \A i \in 1..Len(commands') : i + 1 \in 1..Len(commands)
  BY TakenCommand DEF Ranges
<1>2. 1 \in 1..Len(commands)
  BY <1>1
<1>3. CASE (\A i \in 1..Len(commands) : commands[i].kind = "force") /\ ~wanted
  BY <1>1, <1>2, <1>3
<1>4. ASSUME NEW i \in 1..Len(commands),
             commands[i].kind = "dismiss", commands[i].request = request,
             \A k \in 1..Len(commands) : k > i => commands[k].kind = "force"
      PROVE  \/ /\ kind = "dismiss"
                /\ \A k \in 1..Len(commands') : commands'[k].kind = "force"
             \/ \E j \in 1..Len(commands') :
                  /\ commands'[j].kind = "dismiss" /\ commands'[j].request = request
                  /\ \A k \in 1..Len(commands') : k > j => commands'[k].kind = "force"
  <2>1. CASE i = 1
    <3>1. \A k \in 1..Len(commands') : k + 1 > i
      BY <2>1
    <3>2. QED
      BY <1>1, <1>4, <2>1, <3>1
  <2>2. CASE i > 1
    <3>1. i - 1 \in 1..Len(commands') /\ commands'[i - 1] = commands[i]
      BY <1>1, <2>2
    <3>2. \A k \in 1..Len(commands') : k > i - 1 => k + 1 > i
      OBVIOUS
    <3>3. \A k \in 1..Len(commands') : k > i - 1 => commands'[k].kind = "force"
      BY <1>1, <1>4, <3>2
    <3>4. QED
      BY <1>4, <3>1, <3>3
  <2>3. QED
    BY <2>1, <2>2
<1>5. QED
  BY <1>3, <1>4 DEF Behind

\* The daemon thread waits for its dismissal, so no update follows it in the queue.
LEMMA BehindStep ==
  Ranges /\ Dismissals /\ Behind /\ [Next]_vars => Behind'
<1> SUFFICES ASSUME Ranges, Dismissals, Behind, [Next]_vars, Waiting' PROVE Behind'
  BY DEF Behind
<1>0. replies \in [Requests -> {"none", "ok", "failed"}] /\ Len(commands) \in Nat
  BY DEF Ranges
<1>1. CASE UNCHANGED <<caller, request, replies, commands, wanted>>
  BY <1>1 DEF Behind, Waiting
<1>2. CASE SendDismiss
  <2>1. /\ caller' = "waiting" /\ request' = request + 1
        /\ commands' = Append(commands, [kind |-> "dismiss", request |-> request + 1])
        /\ request + 1 \in Requests /\ request \in Nat
    BY <1>2, BoundsAssumption DEF SendDismiss, CanSend, Ranges, Requests
  <2>2. [kind |-> "dismiss", request |-> request + 1] \in Command
    BY <2>1 DEF Command
  <2>3. /\ Len(commands') = Len(commands) + 1
        /\ commands'[Len(commands) + 1] = [kind |-> "dismiss", request |-> request + 1]
    BY <2>1, <2>2, Appended
  <2>4. /\ Len(commands) + 1 \in 1..Len(commands')
        /\ \A k \in 1..Len(commands') : ~(k > Len(commands) + 1)
    BY <1>0, <2>3
  <2>5. request' # 0
    BY <2>1
  <2>6. QED
    BY <2>1, <2>3, <2>4, <2>5 DEF Behind
<1>3. CASE GraceEnds
  <2>1. /\ caller = "waiting" /\ caller' = "forced" /\ UNCHANGED <<request, wanted>>
        /\ commands' = Append(commands, [kind |-> "force", request |-> 0])
    BY <1>3 DEF GraceEnds, ghosts
  <2>2. [kind |-> "force", request |-> 0] \in Command
    BY DEF Command
  <2>3. /\ Len(commands') = Len(commands) + 1
        /\ commands'[Len(commands) + 1] = [kind |-> "force", request |-> 0]
        /\ \A i \in 1..Len(commands) : commands'[i] = commands[i]
        /\ \A i \in 1..Len(commands') :
             i \in 1..Len(commands) \/ i = Len(commands) + 1
    BY <2>1, <2>2, Appended
  <2>4. \A i \in 1..Len(commands) : i \in 1..Len(commands')
    BY <1>0, <2>3
  <2>5. QED
    BY <2>1, <2>3, <2>4 DEF Behind, Waiting
<1>4. CASE Acknowledged
  BY <1>4 DEF Acknowledged, ghosts, Behind, Waiting
<1>5. CASE (\E kind \in {"show", "hide"} : SendUpdate(kind)) \/ WaitEnds
             \/ Pasted \/ Close \/ Shutdown
  BY <1>5 DEF SendUpdate, CanSend, WaitEnds, Pasted, Close, Shutdown, callerVars,
     Waiting
<1>6. ASSUME UNCHANGED <<caller, request>>, NEW kind, TakeCommand(kind),
             kind = "force" => UNCHANGED wanted,
             kind = "dismiss" => ~wanted',
             request # 0 /\ replies[request] = "ok" => replies'[request] = "ok"
      PROVE  Behind'
  <2>1. Waiting /\ request # 0
    BY <1>6 DEF Behind, Waiting
  <2>2. \/ /\ kind = "force" /\ ~wanted
           /\ \A i \in 1..Len(commands') : commands'[i].kind = "force"
        \/ /\ kind = "dismiss"
           /\ \A i \in 1..Len(commands') : commands'[i].kind = "force"
        \/ \E i \in 1..Len(commands') :
             /\ commands'[i].kind = "dismiss" /\ commands'[i].request = request
             /\ \A k \in 1..Len(commands') : k > i => commands'[k].kind = "force"
    BY <1>6, <2>1, TakenBehind
  <2>3. caller' = "pasting" => replies'[request'] = "ok"
    BY <1>6, <2>1 DEF Behind, Waiting
  <2>4. QED
    BY <1>6, <2>1, <2>2, <2>3 DEF Behind
<1>7. CASE Show \/ Hide \/ ForceDismissal
  <2>1. UNCHANGED <<caller, request, replies>>
    BY <1>7 DEF Show, Hide, ForceDismissal, TakeCommand, callerVars
  <2>2. CASE Show
    BY <1>6, <2>1, <2>2 DEF Show
  <2>3. CASE Hide
    BY <1>6, <2>1, <2>3 DEF Hide
  <2>4. CASE ForceDismissal
    BY <1>6, <2>1, <2>4 DEF ForceDismissal, ghosts
  <2>5. QED
    BY <1>7, <2>2, <2>3, <2>4
<1>8. CASE Dismiss
  <2>1. TakeCommand("dismiss") /\ ~wanted' /\ UNCHANGED <<caller, request>>
    BY <1>8 DEF Dismiss, TakeCommand, callerVars
  <2>2. \/ UNCHANGED replies
        \/ replies' = [replies EXCEPT ![Head(commands).request] = "ok"]
    BY <1>8 DEF Dismiss
  <2>3. request # 0 /\ replies[request] = "ok" => replies'[request] = "ok"
    <3>1. request # 0 => request \in Requests
      BY BoundsAssumption DEF Ranges, Requests
    <3>2. QED
      BY <1>0, <2>2, <3>1
  <2>4. QED
    BY <1>6, <2>1, <2>3
<1>9. CASE Helpers
  BY <1>1, <1>9 DEF Helpers, Exit, FrameSubmitted, HelperFails, ReportExit,
     ReportUnobserved, Report, callerVars, ghosts
<1>10. ASSUME NEW g \in Generations, StatusFrame(g) \/ StatusFailed(g)
       PROVE  Behind'
  BY <1>1, <1>10 DEF StatusFrame, StatusFailed, TakeNotice, callerVars, ghosts
<1>11. ASSUME NEW g \in Generations, NEW notice \in {"exited", "unobserved"},
              DismissedExit(g, notice) \/ StaleExit(g, notice)
                \/ UnexpectedExit(g, notice)
       PROVE  Behind'
  <2>1. CASE DismissedExit(g, notice)
    <3>1. /\ pending # NoDismissal
          /\ UNCHANGED <<caller, request, commands, wanted>>
          /\ replies' = [replies EXCEPT ![pending.request] =
                           IF notice = "exited" THEN "ok" ELSE "failed"]
      BY <2>1 DEF DismissedExit, NoDismissal, Generations, TakeNotice, callerVars, ghosts
    <3>2. replies[request] = "ok" => pending.request # request
      BY <3>1 DEF Dismissals
    <3>3. request # 0 /\ replies[request] = "ok" => replies'[request] = "ok"
      BY <1>0, <3>1, <3>2
    <3>4. QED
      BY <3>1, <3>3 DEF Behind, Waiting
  <2>2. CASE StaleExit(g, notice)
    BY <1>1, <2>2 DEF StaleExit, TakeNotice, callerVars, ghosts
  <2>3. CASE UnexpectedExit(g, notice)
    BY <1>1, <2>3 DEF UnexpectedExit, TakeNotice, callerVars
  <2>4. QED
    BY <1>11, <2>1, <2>2, <2>3
<1>12. CASE UNCHANGED vars
  BY <1>1, <1>12 DEF vars
<1>13. QED
  BY <1>2, <1>3, <1>4, <1>5, <1>7, <1>8, <1>9, <1>10, <1>11, <1>12
     DEF Next, Caller, Presenter, HelperExited

-----------------------------------------------------------------------------
\* The five parts hold in every state.
THEOREM Invariance == Spec => []Inductive
<1>1. Init => Inductive
  BY RangesInit, LifecycleInit, DismissalsInit, ExitsInit, BehindInit DEF Inductive
<1>2. Inductive /\ [Next]_vars => Inductive'
  BY RangesStep, LifecycleStep, DismissalsStep, ExitsStep, BehindStep DEF Inductive
<1>3. QED
  BY <1>1, <1>2, PTL DEF Spec

\* OverlayLifecycle, overlay helper and pending dismissal always agree, so no
\* window is left that nobody would close.
THEOREM LifecycleAlwaysMatches == Spec => []LifecycleMatches
<1>1. Inductive => LifecycleMatches
  BY DEF Inductive, Lifecycle
<1>2. QED
  BY <1>1, Invariance, PTL

\* handle_helper_exit restarts a helper only for a visible workflow and once
\* per update, for any number of updates and crashes.
THEOREM RestartsAreBounded == Spec => []WindowsAreWanted
<1>1. Inductive => WindowsAreWanted
  BY DEF Inductive, Ranges, Lifecycle, WindowsAreWanted,
     AUTOMATIC_RESTART_LIMIT_PER_UPDATE
<1>2. QED
  BY <1>1, Invariance, PTL

\* A wanted window with no helper to show it is reported as unavailable.
THEOREM MissingIsAlwaysReported == Spec => []MissingIsReported
<1>1. Inductive => MissingIsReported
  BY DEF Inductive, Lifecycle, LifecycleMatches, MissingIsReported
<1>2. QED
  BY <1>1, Invariance, PTL

\* dismiss_and_wait opens the delivery gate only when the helper it was for has
\* exited, whatever is queued, answered late or killed in between.
THEOREM GateNeedsTheExit == Spec => []ConfirmedExit
<1>1. Inductive => ConfirmedExit
  BY DEF Inductive, Exits, Behind, Waiting, ConfirmedExit
<1>2. QED
  BY <1>1, Invariance, PTL

\* While the daemon pastes, no helper still believes it should show a window.
THEOREM NoWindowDuringPaste == Spec => []PastesQuietly
<1>1. Inductive => PastesQuietly
  <2> SUFFICES ASSUME Inductive, caller = "pasting" PROVE ~wanted
    BY DEF Inductive, Lifecycle, LifecycleMatches, PastesQuietly
  <2>1. request # 0 /\ replies[request] = "ok" /\ request \in Requests
        /\ request >= request
    BY BoundsAssumption DEF Inductive, Behind, Waiting, Ranges, Requests
  <2>2. ~ \E i \in 1..Len(commands) :
             commands[i].kind = "dismiss" /\ commands[i].request = request
    BY <2>1 DEF Inductive, Dismissals
  <2>3. QED
    BY <2>2 DEF Inductive, Behind, Waiting
<1>2. QED
  BY <1>1, Invariance, PTL

=============================================================================
