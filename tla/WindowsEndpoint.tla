---------------------------- MODULE WindowsEndpoint ----------------------------
(***************************************************************************)
(* The daemon's IPC endpoint on Windows: a named pipe of which one         *)
(* instance always waits for the next client, sessions that share the      *)
(* handler's mutex, and the bootstrap that starts a daemon unless one      *)
(* answers.  Source: crates/agentdictate-runtime/src/windows/ipc.rs and,   *)
(* of crates/agentdictate-app/src, windows/startup.rs,                     *)
(* bin/agentdictated.rs and the Quit command of process.rs.                *)
(*                                                                         *)
(* A client is a process of its own and may end at any time, also while it *)
(* waits to be served; nothing else in the code leaves the pipe before its *)
(* first answer, except the wake that Quit sends.                          *)
(***************************************************************************)
EXTENDS Naturals

CONSTANTS MaxProcesses,  \* bound on the daemons started
          Clients,       \* the window, the tray, the hotkey's threads
          MaxTroubles    \* bound on crashes and refused instances

VARIABLES
  proc,     \* per daemon where its accept loop is
  lock,     \* the daemon that holds the singleton lock, 0 for none
  pending,  \* per daemon what is at the instance that waits for a client
  handler,  \* per daemon what holds the mutex of its AgentProcess
  quit,     \* per daemon AgentProcess::should_quit
  client,   \* per client and the bootstrap where it is, and with which daemon
  boot,     \* the bootstrap's step, and the daemon it has started
  left,     \* a client has left before it was accepted
  troubles

vars == <<proc, lock, pending, handler, quit, client, boot, left, troubles>>

Processes == 1..MaxProcesses
Boot == "bootstrap"
Callers == Clients \cup {Boot}
Away == [step |-> "away", of |-> 0]
At(p, step) == {c \in Callers : client[c].of = p /\ client[c].step = step}

\* An instance of the pipe that p has open: the one that waits, and its sessions.
HasInstance(p) ==
  \/ pending[p] # "closed"
  \/ handler[p] # "free"
  \/ At(p, "accepted") \cup At(p, "session") # {}

Init ==
  /\ proc = [p \in Processes |-> "none"] /\ lock = 0
  /\ pending = [p \in Processes |-> "closed"]
  /\ handler = [p \in Processes |-> "free"] /\ quit = [p \in Processes |-> FALSE]
  /\ client = [c \in Callers |-> Away]
  /\ boot = [step |-> "idle", child |-> 0]
  /\ left = FALSE /\ troubles = 0

Goes(p, state) == proc' = [proc EXCEPT ![p] = state]
Trouble == troubles < MaxTroubles /\ troubles' = troubles + 1

-----------------------------------------------------------------------------
(* IpcServer::bind and run_daemon.                                         *)

Started(p) ==
  proc[p] = "none" /\ (\A o \in 1..(p - 1) : proc[o] # "none") /\ Goes(p, "starting")

\* The Run key, or a user.
Start(p) ==
  Started(p) /\ UNCHANGED <<lock, pending, handler, quit, client, boot, left, troubles>>

TakeLock(p) ==
  /\ proc[p] = "starting" /\ lock = 0
  /\ lock' = p /\ Goes(p, "locked")
  /\ UNCHANGED <<pending, handler, quit, client, boot, left, troubles>>

AlreadyRunning(p) ==
  /\ proc[p] = "starting" /\ lock # 0 /\ Goes(p, "gone")
  /\ UNCHANGED <<lock, pending, handler, quit, client, boot, left, troubles>>

\* The first instance, which there must be no other of.
Exclusive == \A p \in Processes : ~HasInstance(p)

BindPipe(p) ==
  /\ proc[p] = "locked" /\ Exclusive
  /\ pending' = [pending EXCEPT ![p] = "free"] /\ Goes(p, "bound")
  /\ UNCHANGED <<lock, handler, quit, client, boot, left, troubles>>

PipeRefused(p) ==
  /\ proc[p] = "locked" /\ ~Exclusive
  /\ lock' = 0 /\ Goes(p, "gone")
  /\ UNCHANGED <<pending, handler, quit, client, boot, left, troubles>>

\* The server is dropped: who waits at its pending instance is disconnected.
DropServer(p) ==
  /\ lock' = 0 /\ pending' = [pending EXCEPT ![p] = "closed"]
  /\ client' = [c \in Callers |-> IF c \in At(p, "queued") THEN Away ELSE client[c]]

OpenProcess(p) ==
  /\ proc[p] = "bound"
  /\ \/ Goes(p, "looking") /\ UNCHANGED <<lock, pending, client, troubles>>
     \/ Trouble /\ Goes(p, "gone") /\ DropServer(p)
  /\ UNCHANGED <<handler, quit, boot, left>>

\* The loop looks at should_quit under the handler's mutex, which a command may hold.
LookAtQuit(p) ==
  /\ proc[p] = "looking" /\ handler[p] = "free"
  /\ IF quit[p] THEN Goes(p, "leaving") /\ DropServer(p)
     ELSE Goes(p, "accepting") /\ UNCHANGED <<lock, pending, client>>
  /\ UNCHANGED <<handler, quit, boot, left, troubles>>

\* ConnectNamedPipe waits for a client, takes one that is there already, and fails for
\* one that has gone again: the instance was never disconnected.
ConnectNamedPipe(p) ==
  /\ proc[p] = "accepting"
  /\ Goes(p, CASE pending[p] = "free" -> "blocked"
               [] pending[p] = "gone" -> "looking"
               [] OTHER -> "connected")
  /\ UNCHANGED <<lock, pending, handler, quit, client, boot, left, troubles>>

\* The next instance, or the accept fails and starts over with the same one.
Accept(p) ==
  /\ proc[p] = "connected" /\ Goes(p, "looking")
  /\ \/ /\ pending' = [pending EXCEPT ![p] = "free"]
        /\ client' = [c \in Callers |-> IF c \in At(p, "queued")
                        THEN [step |-> "accepted", of |-> p] ELSE client[c]]
        /\ UNCHANGED troubles
     \/ Trouble /\ UNCHANGED <<pending, client>>
  /\ UNCHANGED <<lock, handler, quit, boot, left>>

\* The process ends with its sessions, whatever they do.
Exit(p) ==
  /\ \/ proc[p] = "leaving" /\ UNCHANGED troubles
     \/ Trouble /\ proc[p] \notin {"none", "gone"}
  /\ Goes(p, "gone") /\ lock' = IF lock = p THEN 0 ELSE lock
  /\ pending' = [pending EXCEPT ![p] = "closed"]
  /\ handler' = [handler EXCEPT ![p] = "free"]
  /\ client' = [c \in Callers |-> IF client[c].of = p THEN Away ELSE client[c]]
  /\ UNCHANGED <<quit, boot, left>>

-----------------------------------------------------------------------------
(* Clients and their sessions.                                             *)

\* A client opens the instance that waits; a server that is in ConnectNamedPipe has it.
Reaches(p, what) ==
  /\ pending[p] = "free" /\ pending' = [pending EXCEPT ![p] = what]
  /\ IF proc[p] = "blocked" THEN Goes(p, "connected") ELSE UNCHANGED proc

Connected(c) ==
  \E p \in Processes :
    Reaches(p, "taken") /\ client' = [client EXCEPT ![c] = [step |-> "queued", of |-> p]]

Connect(c) ==
  /\ client[c] = Away /\ Connected(c)
  /\ UNCHANGED <<lock, handler, quit, boot, left, troubles>>

\* serve_shared: the snapshot, and the commands, one session at a time.
Snapshot(c) ==
  /\ client[c].step = "accepted" /\ handler[client[c].of] = "free"
  /\ IF c = Boot
       THEN client' = [client EXCEPT ![c] = Away] /\ boot' = [boot EXCEPT !.step = "ready"]
       ELSE client' = [client EXCEPT ![c].step = "session"] /\ UNCHANGED boot
  /\ UNCHANGED <<proc, lock, pending, handler, quit, left, troubles>>

Command(c) ==
  /\ c # Boot /\ client[c].step = "session" /\ handler[client[c].of] = "free"
  /\ \E command \in {"works", "wakes"} :
       /\ handler' = [handler EXCEPT ![client[c].of] = command]
       /\ quit' = IF command = "wakes" THEN [quit EXCEPT ![client[c].of] = TRUE] ELSE quit
  /\ UNCHANGED <<proc, lock, pending, client, boot, left, troubles>>

Answered(p) ==
  /\ handler[p] = "works" /\ handler' = [handler EXCEPT ![p] = "free"]
  /\ UNCHANGED <<proc, lock, pending, quit, client, boot, left, troubles>>

\* Quit has its accept loop woken: it connects to the pipe and leaves at once, or
\* finds its waiting instance taken, or none.
Wake(p) ==
  /\ handler[p] = "wakes" /\ handler' = [handler EXCEPT ![p] = "free"]
  /\ IF \E q \in Processes : pending[q] = "free"
       THEN \E q \in Processes : Reaches(q, "gone")
       ELSE UNCHANGED <<proc, pending>>
  /\ UNCHANGED <<lock, quit, client, boot, left, troubles>>

\* A client ends, or closes its session.
Leave(c) ==
  /\ c # Boot /\ client[c] # Away
  /\ client' = [client EXCEPT ![c] = Away]
  /\ IF client[c].step = "queued"
       THEN /\ pending' = [pending EXCEPT ![client[c].of] = "gone"] /\ left' = TRUE
       ELSE UNCHANGED <<pending, left>>
  /\ UNCHANGED <<proc, lock, handler, quit, boot, troubles>>

-----------------------------------------------------------------------------
(* bootstrap_daemon_service.                                               *)

Bootstraps(step) == boot.step = step /\ client[Boot] = Away
BootGoes(step) == boot' = [boot EXCEPT !.step = step]

\* Each try to connect: first, and again and again after it has started a daemon.
Tries(step) == IF step = "idle" THEN "first" ELSE "tried"

BootConnects ==
  /\ \E step \in {"idle", "polling"} : Bootstraps(step)
  /\ Connected(Boot) /\ BootGoes(Tries(boot.step))
  /\ UNCHANGED <<lock, handler, quit, left, troubles>>

\* No instance, or none is free for five seconds.
BootFindsNone ==
  /\ \E step \in {"idle", "polling"} : Bootstraps(step)
  /\ \A p \in Processes : pending[p] # "free"
  /\ BootGoes(Tries(boot.step))
  /\ UNCHANGED <<proc, lock, pending, handler, quit, client, left, troubles>>

\* Nobody has answered, or the one who did closed the pipe before its snapshot.
BootSpawns ==
  /\ Bootstraps("first")
  /\ \E p \in Processes : Started(p) /\ boot' = [step |-> "polling", child |-> p]
  /\ UNCHANGED <<lock, pending, handler, quit, client, left, troubles>>

BootWaits ==
  /\ Bootstraps("tried") /\ BootGoes("polling")
  /\ UNCHANGED <<proc, lock, pending, handler, quit, client, left, troubles>>

\* Its daemon has ended, or the fifteen seconds have passed.
BootFails ==
  /\ Bootstraps("tried") /\ BootGoes("failed")
  /\ UNCHANGED <<proc, lock, pending, handler, quit, client, left, troubles>>

Next ==
  \/ \E p \in Processes :
       \/ Start(p) \/ TakeLock(p) \/ AlreadyRunning(p) \/ BindPipe(p) \/ PipeRefused(p)
       \/ OpenProcess(p) \/ LookAtQuit(p) \/ ConnectNamedPipe(p) \/ Accept(p) \/ Exit(p)
       \/ Answered(p) \/ Wake(p)
  \/ \E c \in Clients : Connect(c) \/ Command(c) \/ Leave(c)
  \/ \E c \in Callers : Snapshot(c)
  \/ BootConnects \/ BootFindsNone \/ BootSpawns \/ BootWaits \/ BootFails

Spec == Init /\ [][Next]_vars

-----------------------------------------------------------------------------
Serving(p) == proc[p] \in {"looking", "accepting", "blocked", "connected"}

\* A daemon that serves is the only one, and whoever opens the pipe gets to it: no
\* start beside it, exit, crash or restart leaves an instance of another daemon that
\* a client could wait at (windows/ipc.rs, bind and accept).
PipeLeadsToTheDaemon ==
  \A p \in Processes : Serving(p) =>
    /\ lock = p
    /\ \A q \in Processes \ {p} : pending[q] = "closed"
    /\ \A c \in Callers : client[c].step = "queued" => client[c].of = p

\* An accepted Quit is not slept through: where the loop waits for a client, the
\* command has yet to wake it, whatever other clients did meanwhile (process.rs,
\* ClientCommandKind::Quit).
QuitWakesTheLoop ==
  \A p \in Processes : proc[p] = "blocked" /\ quit[p] => handler[p] = "wakes"

\* While the loop runs there is an instance for the next client, or a client at it
\* whom the loop will accept: wakes, failed instances and clients that end do not use
\* it up, unless a client left before it was accepted (accept).
NextClientIsServed ==
  \A p \in Processes : Serving(p) /\ ~quit[p] /\ ~left =>
    \/ pending[p] = "free"
    \/ pending[p] = "taken" /\ At(p, "queued") # {}

\* The same without the exception. (Not so: the instance of a client that left while
\* a command held the mutex fails every ConnectNamedPipe after it; accept keeps it.)
ClientsMayLeave ==
  \A p \in Processes : Serving(p) /\ ~quit[p] => pending[p] # "gone" \/ proc[p] = "connected"

\* Who gets the lock gets the pipe. (Not so after a Quit: the old process has dropped
\* its server and the lock, but still runs, and the new one's first instance is
\* refused for the sessions it has open.)
LockMeansThePipe == \A p \in Processes : proc[p] = "locked" => Exclusive

\* Again and again: a daemon that was told to quit is gone, although clients come,
\* leave and have commands under way meanwhile (windows/ipc.rs, accept).
QuittersAreGone == \A p \in Processes : quit[p] => proc[p] = "gone"

-----------------------------------------------------------------------------
(* The pipe, for any daemons and clients.                                  *)

Bound == {"bound", "looking", "accepting", "blocked", "connected"}

Typed ==
  /\ proc \in [Processes -> Bound \cup {"none", "starting", "locked", "leaving", "gone"}]
  /\ pending \in [Processes -> {"closed", "free", "taken", "gone"}]
  /\ handler \in [Processes -> {"free", "works", "wakes"}]
  /\ quit \in [Processes -> BOOLEAN] /\ left \in BOOLEAN
  /\ client \in [Callers -> [step : {"away", "queued", "accepted", "session"}, of : Nat]]
  /\ \A c \in Callers : client[c].step # "away" => client[c].of \in Processes

\* The pipe is of who has the lock, and of nobody who still serves without it.
PipeIsLocked ==
  /\ \A p \in Processes : proc[p] \in Bound \cup {"locked"} => lock = p
  /\ \A p \in Processes : pending[p] # "closed" <=> proc[p] \in Bound
  /\ \A p, q \in Processes : p # q /\ pending[q] # "closed" =>
       /\ handler[p] = "free"
       /\ \A c \in Callers : client[c].of = p => client[c].step \notin {"accepted", "session"}

\* Whoever waits has the instance for himself, and an instance that is taken has one
\* who waits.
OneInTheQueue ==
  /\ \A c \in Callers : client[c].step = "queued" => pending[client[c].of] = "taken"
  /\ \A c, d \in Callers :
       client[c].step = "queued" /\ client[d].step = "queued" /\ client[c].of = client[d].of =>
         c = d
  /\ \A p \in Processes : pending[p] = "taken" =>
       \E c \in Callers : client[c].of = p /\ client[c].step = "queued"

\* A loop that was told to quit has been woken, or will be.
LoopIsWoken ==
  /\ \A p \in Processes : handler[p] = "wakes" => quit[p]
  /\ \A p \in Processes : proc[p] = "blocked" => pending[p] = "free"
  /\ \A p \in Processes : proc[p] \in {"accepting", "blocked"} /\ quit[p] =>
       handler[p] = "wakes" \/ pending[p] # "free"
  /\ \A p \in Processes : pending[p] = "gone" => quit[p] \/ left

InPlace == Typed /\ PipeIsLocked /\ OneInTheQueue /\ LoopIsWoken

=============================================================================
