-------------------------- MODULE OverlaySupervisor --------------------------
(***************************************************************************)
(* The recording overlay is a child process of the daemon.  The daemon     *)
(* thread that handles a command (the caller) posts updates to the         *)
(* presenter thread and, before it pastes, asks it to dismiss the overlay  *)
(* and waits for the helper process to exit.  Every helper process has a   *)
(* monitor thread that reports its first frame, its failure and its exit.  *)
(* Source: crates/agentdictate-app/src/overlay_process/supervisor.rs and   *)
(* child.rs (child_windows.rs differs in how a process is waited for).     *)
(*                                                                         *)
(* The presenter's one event queue is fed by one forwarder for the         *)
(* commands and by one monitor per helper.  A sender may be delayed for    *)
(* any time before it sends, so the merge of their streams is any          *)
(* interleaving: the presenter takes the next command or the next notice   *)
(* of any helper.                                                          *)
(***************************************************************************)
EXTENDS Naturals, Sequences, FiniteSets

CONSTANTS MaxCommands,  \* bound on the updates and dismissals the caller sends
          MaxLaunches   \* bound on the helper processes started

ASSUME BoundsAssumption == MaxCommands \in Nat /\ MaxLaunches \in Nat

VARIABLES
  caller,     \* "idle", "waiting", "forced", "pasting" or "closed"
  request,    \* the number of the caller's newest dismissal
  replies,    \* the acknowledgments sent, by request number
  sent,       \* commands sent so far
  commands,   \* commands the presenter has not taken
  serving,    \* the presenter loop runs
  running,    \* OverlayProcessState::running
  helper,     \* the generation of the installed helper, 0 for none
  visible,    \* last_visible_update is Some
  restarts,   \* remaining_restarts
  launched,   \* next_generation
  pending,    \* pending_dismissal: the generation and the request to answer
  unavailable,\* OverlayHealth::unavailable
  proc,       \* the helper processes: "none", "open", "told", "killed", "gone"
  monitor,    \* what each helper's monitor thread has reported
  notices,    \* per helper, what the presenter has not taken
  dismissed,  \* history: the helper the newest dismissal handled was for
  wanted,     \* history: the newest update or dismissal handled shows a window
  tries       \* history: helpers started since that update or dismissal

callerVars == <<caller, request, sent>>
presenterVars == <<serving, running, helper, visible, restarts, pending,
                   unavailable>>
ghosts == <<dismissed, wanted, tries>>
vars == <<caller, request, replies, sent, commands, serving, running, helper,
          visible, restarts, launched, pending, unavailable, proc, monitor, notices,
          dismissed, wanted, tries>>

Generations == 1..MaxLaunches
Requests == 1..MaxCommands
NoDismissal == [generation |-> 0, request |-> 0]
AUTOMATIC_RESTART_LIMIT_PER_UPDATE == 1

Command == [kind : {"show", "hide", "force"}, request : {0}]
             \cup [kind : {"dismiss"}, request : Requests]
Notice == {"frame", "failed", "exited", "unobserved"}

Alive(g) == proc[g] \in {"open", "told", "killed"}

Init ==
  /\ caller = "idle" /\ request = 0 /\ sent = 0
  /\ replies = [r \in Requests |-> "none"]
  /\ commands = <<>>
  /\ serving = TRUE /\ running = FALSE /\ helper = 0 /\ visible = FALSE /\ restarts = 0
  /\ launched = 0 /\ pending = NoDismissal /\ unavailable = FALSE
  /\ proc = [g \in Generations |-> "none"]
  /\ monitor = [g \in Generations |-> "none"]
  /\ notices = [g \in Generations |-> <<>>]
  /\ dismissed = 0 /\ wanted = FALSE /\ tries = 0

-----------------------------------------------------------------------------
(* The caller: one daemon handler at a time, under the process mutex.      *)

CanSend == caller = "idle" /\ sent < MaxCommands

\* OverlayController::update with a visible ("show") or a hidden workflow.
SendUpdate(kind) ==
  /\ CanSend
  /\ sent' = sent + 1
  /\ commands' = Append(commands, [kind |-> kind, request |-> 0])
  /\ UNCHANGED <<caller, request, replies, launched, proc, monitor, notices,
                 presenterVars, ghosts>>

\* OverlayController::dismiss_and_wait up to its first recv_timeout.
SendDismiss ==
  /\ CanSend
  /\ sent' = sent + 1
  /\ request' = request + 1
  /\ commands' = Append(commands, [kind |-> "dismiss", request |-> request'])
  /\ caller' = "waiting"
  /\ UNCHANGED <<replies, launched, proc, monitor, notices, presenterVars,
                 ghosts>>

\* The first two seconds pass: the caller asks for the helper to be killed.
GraceEnds ==
  /\ caller = "waiting" /\ replies[request] = "none"
  /\ caller' = "forced"
  /\ commands' = Append(commands, [kind |-> "force", request |-> 0])
  /\ UNCHANGED <<request, sent, replies, launched, proc, monitor, notices,
                 presenterVars, ghosts>>

\* The second two seconds pass: the delivery gate stays closed.
WaitEnds ==
  /\ caller = "forced" /\ replies[request] = "none"
  /\ caller' = "idle"
  /\ UNCHANGED <<request, sent, replies, commands, launched, proc, monitor,
                 notices, presenterVars, ghosts>>

\* The acknowledgment arrives in time: only Ok opens the delivery gate.
Acknowledged ==
  /\ caller \in {"waiting", "forced"} /\ replies[request] # "none"
  /\ caller' = IF replies[request] = "ok" THEN "pasting" ELSE "idle"
  /\ UNCHANGED <<request, sent, replies, commands, launched, proc, monitor,
                 notices, presenterVars, ghosts>>

\* The paste is over and the handler goes on.
Pasted ==
  /\ caller = "pasting" /\ caller' = "idle"
  /\ UNCHANGED <<request, sent, replies, commands, launched, proc, monitor,
                 notices, presenterVars, ghosts>>

\* The daemon drops the controller.
Close ==
  /\ caller = "idle" /\ caller' = "closed"
  /\ UNCHANGED <<request, sent, replies, commands, launched, proc, monitor,
                 notices, presenterVars, ghosts>>

Caller ==
  \/ \E kind \in {"show", "hide"} : SendUpdate(kind)
  \/ SendDismiss \/ GraceEnds \/ WaitEnds \/ Acknowledged \/ Pasted \/ Close

-----------------------------------------------------------------------------
(* A helper process.  finish() and a dropped handle close its input and    *)
(* ask it to leave; terminate() kills it.  It may also leave by itself.    *)

Told(g, procs) ==
  [h \in Generations |-> IF h = g /\ procs[h] = "open" THEN "told" ELSE procs[h]]
Killed(g, procs) ==
  [h \in Generations |->
     IF h = g /\ procs[h] \in {"open", "told"} THEN "killed" ELSE procs[h]]

Exit(g) ==
  /\ Alive(g)
  /\ proc' = [proc EXCEPT ![g] = "gone"]
  /\ UNCHANGED <<callerVars, replies, commands, launched, monitor, notices,
                 presenterVars, ghosts>>

Report(g, from, to, notice) ==
  /\ monitor[g] \in from
  /\ monitor' = [monitor EXCEPT ![g] = to]
  /\ notices' = [notices EXCEPT ![g] = Append(@, notice)]
  /\ UNCHANGED <<callerVars, replies, commands, launched, proc, presenterVars,
                 ghosts>>

\* The monitor reads FrameSubmitted.
FrameSubmitted(g) == Report(g, {"starting"}, "submitted", "frame")

\* The helper reports an error, misses the deadline for its first frame or
\* closes its output before it: the monitor reports the failure.
HelperFails(g) == Report(g, {"starting", "submitted"}, "failed", "failed")

\* The monitor has seen the output close and has waited for the process.
ReportExit(g) ==
  proc[g] = "gone" /\ Report(g, {"submitted", "failed"}, "ended", "exited")

\* The process could not be waited for.
ReportUnobserved(g) ==
  Report(g, {"submitted", "failed"}, "ended", "unobserved")

Helpers ==
  \E g \in Generations :
    Exit(g) \/ FrameSubmitted(g) \/ HelperFails(g) \/ ReportExit(g)
      \/ ReportUnobserved(g)

-----------------------------------------------------------------------------
(* The presenter thread.                                                   *)

TakeCommand(kind) ==
  /\ serving /\ commands # <<>> /\ Head(commands).kind = kind
  /\ commands' = Tail(commands)
  /\ UNCHANGED <<callerVars, serving, notices>>

TakeNotice(g, notice) ==
  /\ serving /\ notices[g] # <<>> /\ Head(notices[g]) = notice
  /\ notices' = [notices EXCEPT ![g] = Tail(@)]
  /\ UNCHANGED <<callerVars, serving, commands>>

\* OverlaySupervisor::launch.  `kept` is the helper still installed; a new one
\* replaces it and its handle is dropped.
LaunchSucceeds(kept, procs) ==
  /\ launched < MaxLaunches
  /\ launched' = launched + 1
  /\ helper' = launched'
  /\ running' = TRUE
  /\ proc' = [Told(kept, procs) EXCEPT ![launched'] = "open"]
  /\ monitor' = [monitor EXCEPT ![launched'] = "starting"]

\* Mutant: a helper that cannot be started is only logged.
LaunchFailsQuietly(kept, procs) ==
  /\ helper' = kept
  /\ running' = FALSE
  /\ proc' = procs
  /\ UNCHANGED <<unavailable, launched, monitor>>

LaunchFails(kept, procs) ==
  /\ helper' = kept
  /\ running' = FALSE
  /\ proc' = procs
  /\ unavailable' = TRUE
  /\ UNCHANGED <<launched, monitor>>

\* How many helpers this step starts.
Started == IF launched' = launched THEN 0 ELSE 1

Disconnected == helper = 0 \/ proc[helper] # "open"

\* handle_update with a visible workflow: launch, update the helper in place,
\* or replace one that no longer reads.
Show ==
  /\ TakeCommand("show")
  /\ visible' = TRUE
  /\ restarts' = AUTOMATIC_RESTART_LIMIT_PER_UPDATE
  /\ \/ /\ ~running
        /\ \/ LaunchSucceeds(helper, proc) /\ UNCHANGED unavailable
           \/ LaunchFails(helper, proc)
     \/ /\ running /\ ~Disconnected
        /\ UNCHANGED <<running, helper, unavailable, launched, proc, monitor>>
     \/ /\ running /\ Disconnected
        /\ \/ LaunchSucceeds(0, Killed(helper, proc)) /\ UNCHANGED unavailable
           \/ LaunchFails(0, Killed(helper, proc))
  /\ wanted' = TRUE /\ tries' = Started
  /\ UNCHANGED <<replies, pending, dismissed>>

\* handle_update with a hidden workflow: the helper is let go, not awaited.
Hide ==
  /\ TakeCommand("hide")
  /\ visible' = FALSE /\ restarts' = 0
  /\ IF running
     THEN running' = FALSE /\ helper' = 0 /\ proc' = Told(helper, proc)
     ELSE UNCHANGED <<running, helper, proc>>
  /\ wanted' = FALSE /\ tries' = 0
  /\ UNCHANGED <<replies, pending, unavailable, launched, monitor, dismissed>>

\* Mutant: the lifecycle is not marked stopped.
DismissKeepsRunning ==
  /\ TakeCommand("dismiss")
  /\ visible' = FALSE /\ restarts' = 0
  /\ LET r == Head(commands).request
     IN IF helper = 0
        THEN /\ replies' = [replies EXCEPT ![r] = "ok"]
             /\ UNCHANGED <<pending, proc>>
        ELSE /\ proc' = Told(helper, proc)
             /\ pending' = [generation |-> helper, request |-> r]
             /\ UNCHANGED replies
  /\ dismissed' = helper /\ wanted' = FALSE /\ tries' = 0
  /\ UNCHANGED <<running, helper, unavailable, launched, monitor>>

\* Mutant: a helper that has not reported its window is not waited for.
DismissIfShown ==
  /\ TakeCommand("dismiss")
  /\ visible' = FALSE /\ restarts' = 0 /\ running' = FALSE
  /\ LET r == Head(commands).request
     IN IF helper = 0 \/ monitor[helper] = "starting"
        THEN /\ replies' = [replies EXCEPT ![r] = "ok"]
             /\ UNCHANGED <<pending, proc>>
        ELSE /\ proc' = Told(helper, proc)
             /\ pending' = [generation |-> helper, request |-> r]
             /\ UNCHANGED replies
  /\ dismissed' = helper /\ wanted' = FALSE /\ tries' = 0
  /\ UNCHANGED <<helper, unavailable, launched, monitor>>

\* Mutant: the helper is let go as for a hidden update.
DismissTakesHelper ==
  /\ TakeCommand("dismiss")
  /\ visible' = FALSE /\ restarts' = 0 /\ running' = FALSE /\ helper' = 0
  /\ LET r == Head(commands).request
     IN IF helper = 0
        THEN /\ replies' = [replies EXCEPT ![r] = "ok"]
             /\ UNCHANGED <<pending, proc>>
        ELSE /\ proc' = Told(helper, proc)
             /\ pending' = [generation |-> helper, request |-> r]
             /\ UNCHANGED replies
  /\ dismissed' = helper /\ wanted' = FALSE /\ tries' = 0
  /\ UNCHANGED <<unavailable, launched, monitor>>

\* OverlaySupervisor::dismiss_and_wait.
Dismiss ==
  /\ TakeCommand("dismiss")
  /\ visible' = FALSE /\ restarts' = 0 /\ running' = FALSE
  /\ LET r == Head(commands).request
     IN IF helper = 0
        THEN /\ replies' = [replies EXCEPT ![r] = "ok"]
             /\ UNCHANGED <<pending, proc>>
        ELSE /\ proc' = Told(helper, proc)
             /\ pending' = [generation |-> helper, request |-> r]
             /\ UNCHANGED replies
  /\ dismissed' = helper /\ wanted' = FALSE /\ tries' = 0
  /\ UNCHANGED <<helper, unavailable, launched, monitor>>

\* force_dismissal.
ForceDismissal ==
  /\ TakeCommand("force")
  /\ proc' = IF pending # NoDismissal /\ helper = pending.generation
             THEN Killed(helper, proc) ELSE proc
  /\ UNCHANGED <<replies, running, helper, visible, restarts, pending,
                 unavailable, launched, monitor, ghosts>>

\* handle_helper_status looks only at the installed helper, unless dismissed.
Watched(g) == g # pending.generation /\ g = helper

StatusFrame(g) ==
  /\ TakeNotice(g, "frame")
  /\ unavailable' = IF Watched(g) THEN FALSE ELSE unavailable
  /\ UNCHANGED <<replies, running, helper, visible, restarts, pending,
                 launched, proc, monitor, ghosts>>

StatusFailed(g) ==
  /\ TakeNotice(g, "failed")
  /\ IF Watched(g)
     THEN unavailable' = TRUE /\ proc' = Killed(g, proc)
     ELSE UNCHANGED <<unavailable, proc>>
  /\ UNCHANGED <<replies, running, helper, visible, restarts, pending,
                 launched, monitor, ghosts>>

\* Mutant: a dismissal is answered by the exit of any helper.
AnyExitAnswers(g, notice) ==
  /\ TakeNotice(g, notice)
  /\ pending # NoDismissal
  /\ pending' = NoDismissal
  /\ replies' = [replies EXCEPT ![pending.request] =
                   IF notice = "exited" THEN "ok" ELSE "failed"]
  /\ IF helper = g
     THEN helper' = 0 /\ running' = FALSE /\ proc' = Told(g, proc)
     ELSE UNCHANGED <<helper, running, proc>>
  /\ UNCHANGED <<visible, restarts, unavailable, launched, monitor, ghosts>>

\* handle_helper_exit of the helper a dismissal waits for.
DismissedExit(g, notice) ==
  /\ TakeNotice(g, notice)
  /\ g = pending.generation
  /\ pending' = NoDismissal
  /\ replies' = [replies EXCEPT ![pending.request] =
                   IF notice = "exited" THEN "ok" ELSE "failed"]
  /\ IF helper = g
     THEN helper' = 0 /\ running' = FALSE /\ proc' = Told(g, proc)
     ELSE UNCHANGED <<helper, running, proc>>
  /\ UNCHANGED <<visible, restarts, unavailable, launched, monitor, ghosts>>

\* handle_helper_exit of a helper that is neither dismissed nor installed.
StaleExit(g, notice) ==
  /\ TakeNotice(g, notice)
  /\ g # pending.generation /\ g # helper
  /\ UNCHANGED <<replies, presenterVars, launched, proc, monitor, ghosts>>

\* Mutant: the restart budget is not consulted.
RestartsForever(g, notice) ==
  /\ TakeNotice(g, notice)
  /\ Watched(g)
  /\ \/ /\ visible
        /\ \/ LaunchSucceeds(0, Told(g, proc)) /\ unavailable' = TRUE
           \/ LaunchFails(0, Told(g, proc))
        /\ tries' = tries + Started
     \/ /\ ~visible
        /\ helper' = 0 /\ running' = FALSE /\ proc' = Told(g, proc)
        /\ unavailable' = TRUE
        /\ UNCHANGED <<launched, monitor, tries>>
  /\ UNCHANGED <<replies, visible, restarts, pending, dismissed, wanted>>

\* Mutant: the budget is decremented after the check for a visible update only.
RestartsUnderflow(g, notice) ==
  /\ TakeNotice(g, notice)
  /\ Watched(g)
  /\ \/ /\ visible
        /\ restarts' = restarts - 1
        /\ \/ LaunchSucceeds(0, Told(g, proc)) /\ unavailable' = TRUE
           \/ LaunchFails(0, Told(g, proc))
        /\ tries' = tries + Started
     \/ /\ ~visible
        /\ helper' = 0 /\ running' = FALSE /\ proc' = Told(g, proc)
        /\ unavailable' = TRUE
        /\ UNCHANGED <<restarts, launched, monitor, tries>>
  /\ UNCHANGED <<replies, visible, pending, dismissed, wanted>>

\* handle_helper_exit of the installed helper: one automatic restart.
UnexpectedExit(g, notice) ==
  /\ TakeNotice(g, notice)
  /\ Watched(g)
  /\ \/ /\ visible /\ restarts > 0
        /\ restarts' = restarts - 1
        /\ \/ LaunchSucceeds(0, Told(g, proc)) /\ unavailable' = TRUE
           \/ LaunchFails(0, Told(g, proc))
        /\ tries' = tries + Started
     \/ /\ ~(visible /\ restarts > 0)
        /\ helper' = 0 /\ running' = FALSE /\ proc' = Told(g, proc)
        /\ unavailable' = TRUE
        /\ UNCHANGED <<restarts, launched, monitor, tries>>
  /\ UNCHANGED <<replies, visible, pending, dismissed, wanted>>

HelperExited ==
  \E g \in Generations, notice \in {"exited", "unobserved"} :
    DismissedExit(g, notice) \/ StaleExit(g, notice) \/ UnexpectedExit(g, notice)

\* UpdatesClosed, after the last command: shutdown, and the loop ends.
Shutdown ==
  /\ serving /\ caller = "closed" /\ commands = <<>>
  /\ serving' = FALSE
  /\ visible' = FALSE /\ restarts' = 0 /\ running' = FALSE
  /\ helper' = 0 /\ proc' = Told(helper, proc)
  /\ pending' = NoDismissal
  /\ replies' = IF pending = NoDismissal THEN replies
                ELSE [replies EXCEPT ![pending.request] = "failed"]
  /\ wanted' = FALSE /\ tries' = 0
  /\ UNCHANGED <<callerVars, commands, unavailable, launched, monitor, notices,
                 dismissed>>

Presenter ==
  \/ Show \/ Hide \/ Dismiss \/ ForceDismissal
  \/ \E g \in Generations : StatusFrame(g) \/ StatusFailed(g)
  \/ HelperExited
  \/ Shutdown

Next == Caller \/ Helpers \/ Presenter

Spec == Init /\ [][Next]_vars

(***************************************************************************)
(* The presenter and the monitors keep running, a wait of the caller ends, *)
(* and a process that was killed leaves.  A helper that was only told to   *)
(* leave need not.                                                         *)
(***************************************************************************)
Fairness ==
  /\ WF_vars(Presenter)
  /\ WF_vars(GraceEnds \/ WaitEnds \/ Acknowledged \/ Pasted)
  /\ \A g \in Generations :
       /\ WF_vars(proc[g] = "killed" /\ Exit(g))
       /\ WF_vars(proc[g] = "gone" /\ (HelperFails(g) \/ ReportExit(g)))

FairSpec == Spec /\ Fairness

-----------------------------------------------------------------------------
(* Properties.                                                             *)

\* The range of every variable; remaining_restarts is unsigned and at most the
\* limit, and a pending dismissal names a helper that was started.
TypeOK ==
  /\ caller \in {"idle", "waiting", "forced", "pasting", "closed"}
  /\ request \in 0..MaxCommands /\ sent \in 0..MaxCommands
  /\ replies \in [Requests -> {"none", "ok", "failed"}]
  /\ commands \in Seq(Command)
  /\ serving \in BOOLEAN /\ running \in BOOLEAN
  /\ helper \in 0..MaxLaunches /\ launched \in 0..MaxLaunches
  /\ visible \in BOOLEAN
  /\ restarts \in 0..AUTOMATIC_RESTART_LIMIT_PER_UPDATE
  /\ pending \in {NoDismissal} \cup [generation : Generations, request : Requests]
  /\ unavailable \in BOOLEAN
  /\ proc \in [Generations -> {"none", "open", "told", "killed", "gone"}]
  /\ monitor \in [Generations ->
                    {"none", "starting", "submitted", "failed", "ended"}]
  /\ notices \in [Generations -> Seq(Notice)]
  /\ dismissed \in 0..MaxLaunches /\ wanted \in BOOLEAN /\ tries \in Nat

\* While the daemon pastes, the helper that this dismissal was for has exited:
\* neither a request to leave, nor a kill, nor the late exit of an earlier
\* helper opens the delivery gate.
ConfirmedExit ==
  caller = "pasting" /\ dismissed # 0 => proc[dismissed] = "gone"

\* While the daemon pastes, no helper is left that believes it should show a
\* window: every one that is still alive has had its input closed.
PastesQuietly ==
  caller = "pasting" => \A g \in Generations : proc[g] # "open"

\* The lifecycle flag, the installed helper, the pending dismissal and the
\* processes agree: the flag says running exactly when a helper is installed
\* that no dismissal waits for, and only that one has its input open, so no
\* overlay is left behind that nobody would ever close.
LifecycleMatches ==
  /\ running <=> helper # 0 /\ pending.generation # helper
  /\ \A g \in Generations : proc[g] = "open" => helper = g /\ running

\* A helper is started only for a visible workflow, never after the newest
\* update hid the overlay or a dismissal began, and a crashing helper is
\* started at most twice per update.
WindowsAreWanted ==
  tries <= IF wanted THEN 1 + AUTOMATIC_RESTART_LIMIT_PER_UPDATE ELSE 0

\* When a window is wanted and no helper is there to show it, the daemon's
\* health flag says so.
MissingIsReported ==
  serving /\ wanted /\ helper = 0 => unavailable

\* A dismissed helper that outlasts the grace period is killed: it leaves,
\* or its exit was found unobservable.
SlowHelperIsKilled ==
  \A g \in Generations :
    (caller = "forced" /\ pending.generation = g)
      ~> (proc[g] = "gone" \/ monitor[g] = "ended")

\* docs/WINDOWS.md:59-61: automatic paste proceeds only after the helper's
\* process exit is confirmed.  Hide lets a helper go without waiting for it,
\* so a later dismissal finds none installed and answers at once.
PasteAfterExit ==
  caller = "pasting" => \A g \in Generations : ~Alive(g)

=============================================================================
