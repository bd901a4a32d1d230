---------------------------- MODULE DaemonEndpoint ----------------------------
(***************************************************************************)
(* The daemon's IPC endpoint on Linux and who may own it: processes bind   *)
(* it under a lock file, serve, quit or die; systemd restarts the service  *)
(* when it failed; a bootstrap stops a daemon started some other way and   *)
(* hands the endpoint to the service.                                      *)
(* Source: crates/agentdictate-runtime/src/ipc.rs and, of                  *)
(* crates/agentdictate-app/src, startup.rs, bin/agentdictated.rs and the   *)
(* Quit command of process.rs.                                             *)
(***************************************************************************)
EXTENDS Naturals

CONSTANTS MaxProcesses,  \* bound on the daemons started
          MaxClients     \* bound on the connections of clients

VARIABLES
  proc,     \* per daemon where it is
  service,  \* per daemon whether it is the service's main process
  lock,     \* the daemon that holds the singleton lock, 0 for none
  socket,   \* the daemon that bound the socket at the path, 0 for no path
  backlog,  \* per daemon the connections nobody has accepted yet
  quit,     \* per daemon AgentProcess::should_quit
  boot,     \* the bootstrap: its step and the daemon it is connected to
  clients,  \* connections so far
  failed    \* the service's last process ended with an error

vars == <<proc, service, lock, socket, backlog, quit, boot, clients, failed>>

Processes == 1..MaxProcesses
Listening(p) == p # 0 /\ proc[p] \in {"bound", "looking", "accepting", "leaving", "unlinked"}
Alive(p) == p # 0 /\ proc[p] \notin {"none", "gone"}
Main == {p \in Processes : service[p] /\ Alive(p)}

Init ==
  /\ proc = [p \in Processes |-> "none"] /\ service = [p \in Processes |-> FALSE]
  /\ lock = 0 /\ socket = 0
  /\ backlog = [p \in Processes |-> 0] /\ quit = [p \in Processes |-> FALSE]
  /\ boot = [step |-> "inspecting", seen |-> 0] /\ clients = 0 /\ failed = FALSE

Goes(p, state) == proc' = [proc EXCEPT ![p] = state]

-----------------------------------------------------------------------------
(* Starting: systemd, or a user who runs the program.                      *)

Started(isService) ==
  \E p \in Processes :
    /\ proc[p] = "none" /\ \A o \in 1..(p - 1) : proc[o] # "none"
    /\ Goes(p, "starting") /\ service' = [service EXCEPT ![p] = isService]

StartByHand ==
  /\ Started(FALSE)
  /\ UNCHANGED <<lock, socket, backlog, quit, boot, clients, failed>>

\* Restart=on-failure, a second later.
ServiceRestarts ==
  /\ failed /\ Main = {} /\ failed' = FALSE
  /\ Started(TRUE)
  /\ UNCHANGED <<lock, socket, backlog, quit, boot, clients>>

-----------------------------------------------------------------------------
(* IpcServer::bind.                                                        *)

\* Mutant: a lock that is taken is ignored.
LockIgnored(p) ==
  /\ proc[p] = "starting"
  /\ lock' = p /\ Goes(p, "probing")
  /\ UNCHANGED <<service, socket, backlog, quit, boot, clients, failed>>

TakeLock(p) ==
  /\ proc[p] = "starting" /\ lock = 0
  /\ lock' = p /\ Goes(p, "probing")
  /\ UNCHANGED <<service, socket, backlog, quit, boot, clients, failed>>

\* AlreadyRunning ends the process with an error.
AlreadyRunning(p) ==
  /\ \/ proc[p] = "starting" /\ lock # 0 /\ UNCHANGED lock
     \/ proc[p] = "probing" /\ Listening(socket) /\ lock' = IF lock = p THEN 0 ELSE lock
  /\ Goes(p, "gone") /\ failed' = (failed \/ service[p])
  /\ UNCHANGED <<service, socket, backlog, quit, boot, clients>>

\* The path is free, or a socket that refuses the connection.
Probe(p) ==
  /\ proc[p] = "probing" /\ ~Listening(socket)
  /\ Goes(p, "removing")
  /\ UNCHANGED <<service, lock, socket, backlog, quit, boot, clients, failed>>

RemoveStale(p) ==
  /\ proc[p] = "removing"
  /\ socket' = 0 /\ Goes(p, "binding")
  /\ UNCHANGED <<service, lock, backlog, quit, boot, clients, failed>>

BindSocket(p) ==
  /\ proc[p] = "binding" /\ socket = 0
  /\ socket' = p /\ Goes(p, "bound")
  /\ UNCHANGED <<service, lock, backlog, quit, boot, clients, failed>>

-----------------------------------------------------------------------------
(* run_daemon and its accept loop.                                         *)

\* AgentProcess::open succeeds, or the server is dropped at once.
OpenProcess(p) ==
  /\ proc[p] = "bound"
  /\ \/ Goes(p, "looking") /\ UNCHANGED failed
     \/ Goes(p, "leaving") /\ failed' = (failed \/ service[p])
  /\ UNCHANGED <<service, lock, socket, backlog, quit, boot, clients>>

\* The loop looks at should_quit under the handler's mutex.
LookAtQuit(p) ==
  /\ proc[p] = "looking"
  /\ Goes(p, IF quit[p] THEN "leaving" ELSE "accepting")
  /\ UNCHANGED <<service, lock, socket, backlog, quit, boot, clients, failed>>

Accept(p) ==
  /\ proc[p] = "accepting" /\ backlog[p] > 0
  /\ backlog' = [backlog EXCEPT ![p] = @ - 1] /\ Goes(p, "looking")
  /\ UNCHANGED <<service, lock, socket, quit, boot, clients, failed>>

Connect ==
  /\ clients < MaxClients /\ clients' = clients + 1
  /\ Listening(socket) /\ backlog' = [backlog EXCEPT ![socket] = @ + 1]
  /\ UNCHANGED <<proc, service, lock, socket, quit, boot, failed>>

Serving(p) == proc[p] \in {"looking", "accepting", "leaving", "unlinked"}

\* Mutant: the quitting command does not connect to the endpoint.
QuitSilently(p) ==
  /\ Serving(p) /\ ~quit[p]
  /\ quit' = [quit EXCEPT ![p] = TRUE]
  /\ UNCHANGED backlog

\* ClientCommandKind::Quit: should_quit is set, then the accept is woken.
QuitHandled(p) ==
  /\ Serving(p) /\ ~quit[p]
  /\ quit' = [quit EXCEPT ![p] = TRUE]
  /\ backlog' = IF Listening(socket) THEN [backlog EXCEPT ![socket] = @ + 1] ELSE backlog

\* A session sends Quit: the tray, the desktop or SIGTERM's thread.
QuitCommand(p) ==
  /\ QuitHandled(p)
  /\ UNCHANGED <<proc, service, lock, socket, boot, clients, failed>>

\* IpcServer::drop removes the path if it still names this socket ...
Unlink(p) ==
  /\ proc[p] = "leaving" /\ Goes(p, "unlinked")
  /\ socket' = IF socket = p THEN 0 ELSE socket
  /\ UNCHANGED <<service, lock, backlog, quit, boot, clients, failed>>

\* ... then the listener and the lock are closed and the process ends.
Exit(p) ==
  /\ proc[p] = "unlinked" /\ Goes(p, "gone")
  /\ lock' = IF lock = p THEN 0 ELSE lock
  /\ UNCHANGED <<service, socket, backlog, quit, boot, clients, failed>>

\* It is killed: the kernel frees the lock, the path stays.
Crash(p) ==
  /\ Alive(p) /\ Goes(p, "gone")
  /\ lock' = IF lock = p THEN 0 ELSE lock
  /\ failed' = (failed \/ service[p])
  /\ UNCHANGED <<service, socket, backlog, quit, boot, clients>>

-----------------------------------------------------------------------------
(* bootstrap_daemon_service.                                               *)

Bootstraps(step) == boot.step = step /\ UNCHANGED <<lock, socket, clients>>
BootGoes(step, p) == boot' = [step |-> step, seen |-> p]

\* inspect_daemon answers with the process behind the path.
Inspect ==
  /\ Bootstraps("inspecting")
  /\ IF Listening(socket) THEN BootGoes("deciding", socket)
     ELSE IF Main # {} THEN UNCHANGED boot ELSE BootGoes("starting", 0)
  /\ UNCHANGED <<proc, service, backlog, quit, failed>>

\* The service's own process is left alone.
LeaveIt ==
  /\ Bootstraps("deciding") /\ service[boot.seen] /\ Main # {}
  /\ BootGoes("ready", boot.seen)
  /\ UNCHANGED <<proc, service, backlog, quit, failed>>

\* stop_daemon sends Quit over the connection that was inspected.
StopIt ==
  /\ Bootstraps("deciding") /\ ~(service[boot.seen] /\ Main # {})
  /\ QuitHandled(boot.seen) /\ BootGoes("stopping", boot.seen)
  /\ UNCHANGED <<proc, service, failed>>

\* The path is gone or names another socket.
Stopped ==
  /\ Bootstraps("stopping") /\ socket # boot.seen
  /\ BootGoes("starting", 0)
  /\ UNCHANGED <<proc, service, backlog, quit, failed>>

\* systemctl start, which does nothing for an active service.  If the service was
\* active at first it is restart, modelled as the same start: the process restart
\* ends first has the QuitCommand, Unlink and Exit, or Crash, that any process may
\* have before this step.
StartService ==
  /\ Bootstraps("starting")
  /\ IF Main # {} THEN UNCHANGED <<proc, service, failed>>
     ELSE Started(TRUE) /\ failed' = FALSE
  /\ BootGoes("waiting", 0)
  /\ UNCHANGED <<backlog, quit>>

\* wait_for_daemon: ready, or another process owns the endpoint.
Waited ==
  /\ Bootstraps("waiting") /\ Listening(socket)
  /\ IF ~service[socket] THEN BootGoes("failed", socket)
     ELSE Main # {} /\ BootGoes("ready", socket)
  /\ UNCHANGED <<proc, service, backlog, quit, failed>>

\* A connection breaks or the ten seconds pass.
BootstrapFails ==
  /\ boot.step \notin {"ready", "failed"} /\ UNCHANGED <<lock, socket, clients>>
  /\ BootGoes("failed", 0)
  /\ UNCHANGED <<proc, service, backlog, quit, failed>>

Next ==
  \/ StartByHand \/ ServiceRestarts \/ Connect
  \/ \E p \in Processes : \/ TakeLock(p) \/ AlreadyRunning(p) \/ Probe(p)
                          \/ RemoveStale(p) \/ BindSocket(p)
                          \/ OpenProcess(p) \/ LookAtQuit(p) \/ Accept(p)
                          \/ QuitCommand(p) \/ Unlink(p) \/ Exit(p) \/ Crash(p)
  \/ Inspect \/ LeaveIt \/ StopIt \/ Stopped \/ StartService \/ Waited
  \/ BootstrapFails

Spec == Init /\ [][Next]_vars

-----------------------------------------------------------------------------
(* Properties.                                                             *)

\* A daemon that takes commands is the only one, and the path leads to it: no
\* start, exit, crash, restart or handover leaves a second daemon or one that
\* runs unseen with its hotkey (ipc.rs:52-118, 152-163).
ServerIsReachable ==
  \A p \in Processes : proc[p] \in {"bound", "looking", "accepting"} =>
    lock = p /\ socket = p

\* An accepted Quit is not slept through: while the accept loop blocks after
\* it there is a connection to wake it.
QuitIsNoticed ==
  \A p \in Processes : proc[p] = "accepting" /\ quit[p] => backlog[p] > 0

\* Again and again: a daemon that was told to quit is gone, whether it was about to
\* look, to accept or accepting (startup.rs, run_daemon; process.rs, Quit).
QuittersAreGone == \A p \in Processes : quit[p] => proc[p] = "gone"

-----------------------------------------------------------------------------
(* Its invariant: whoever has passed the lock has it.                      *)

Locked == {"probing", "removing", "binding", "bound", "looking", "accepting", "leaving", "unlinked"}

Owned ==
  /\ proc \in [Processes -> Locked \cup {"none", "starting", "gone"}]
  /\ backlog \in [Processes -> Nat] /\ quit \in [Processes -> BOOLEAN]
  /\ socket \in 0..MaxProcesses
  /\ \A p \in Processes : proc[p] \in Locked => lock = p
  /\ ServerIsReachable /\ QuitIsNoticed

=============================================================================
