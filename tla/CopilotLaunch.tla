----------------------------- MODULE CopilotLaunch -----------------------------
(***************************************************************************)
(* One meeting copilot per desktop session: a named mutex says that one    *)
(* runs, a named event asks it to show itself, and whoever opens the       *)
(* copilot looks at the first and then signals the second or starts a      *)
(* process.  Source: crates/agentdictate-app/src/copilot/win/instance.rs,  *)
(* mod.rs (launch_copilot, copilot_launch_reason, run_copilot) and, of     *)
(* engine.rs, what becomes of ShowRequested.                               *)
(*                                                                         *)
(* A named object of Windows is there while somebody has a handle of it,   *)
(* and forgets a signal with its last one.                                 *)
(***************************************************************************)
EXTENDS Naturals

CONSTANTS Launchers,    \* the window, the tray, the command line
          MaxCopilots,  \* bound on the copilot processes
          MaxLaunches   \* bound on what users do: launches, hiding, ends, kills

VARIABLES
  app,       \* per copilot process its step
  inbox,     \* copilots with a ShowRequested on its way to the engine
  mutex,     \* who has a handle of the mutex
  event,     \* who has a handle of the event
  signalled, \* the event is set
  launcher,  \* per launcher its step
  asked,     \* per copilot the launches it was signalled and has not answered
  orphan,    \* a second copilot gave way where there was no first
  launches

vars == <<app, inbox, mutex, event, signalled, launcher, asked, orphan, launches>>

Copilots == 1..MaxCopilots
\* The dictation shortcut opens the copilot in a meeting.
Hotkey == "hotkey"
Callers == Launchers \cup {Hotkey}
\* Who has a handle.
Copilot(p) == <<"copilot", p>>
Launching(l) == <<"launch", l>>

\* From CreateMutexW to the end of the process.
Running(p) == app[p] \in {"owner", "loading", "listening", "finishing", "wrap-up", "ended"}

Init ==
  /\ app = [p \in Copilots |-> "none"] /\ inbox = {}
  /\ mutex = {} /\ event = {} /\ signalled = FALSE
  /\ launcher = [l \in Callers |-> "away"]
  /\ asked = [p \in Copilots |-> FALSE] /\ orphan = FALSE /\ launches = 0

Goes(p, step) == app' = [app EXCEPT ![p] = step]
Moves(l, step) == launcher' = [launcher EXCEPT ![l] = step]
UserActs == launches < MaxLaunches /\ launches' = launches + 1

\* CloseHandle: the event goes with its last handle, and the signal with it.
EventClosed(who) ==
  /\ event' = event \ {who} /\ signalled' = (signalled /\ event' # {})

\* SetEvent, for the copilot that has the event open.
SetEvent ==
  /\ signalled' = TRUE
  /\ asked' = [p \in Copilots |-> asked[p] \/ (Copilot(p) \in event /\ Running(p))]

Spawned == \E p \in Copilots :
  /\ app[p] = "none" /\ (\A q \in 1..(p - 1) : app[q] # "none") /\ Goes(p, "started")

-----------------------------------------------------------------------------
(* A process that opens the copilot: is_running, request_show, or a start.  *)

\* OpenMutexW. The shortcut does so once more before, to know if it is to launch.
Launch(l) ==
  /\ launcher[l] = "away" /\ UserActs
  /\ Moves(l, IF l = Hotkey THEN "reason" ELSE "launch")
  /\ UNCHANGED <<app, inbox, mutex, event, signalled, asked, orphan>>

OpenMutex(l) ==
  /\ launcher[l] \in {"reason", "launch"}
  /\ IF mutex = {}
       THEN Moves(l, IF launcher[l] = "reason" THEN "launch" ELSE "spawn") /\ UNCHANGED mutex
       ELSE Moves(l, IF launcher[l] = "reason" THEN "dictate" ELSE "ask")
            /\ mutex' = mutex \cup {Launching(l)}
  /\ UNCHANGED <<app, inbox, event, signalled, asked, orphan, launches>>

CloseMutex(l) ==
  /\ launcher[l] \in {"dictate", "ask"} /\ Launching(l) \in mutex
  /\ mutex' = mutex \ {Launching(l)}
  /\ Moves(l, IF launcher[l] = "dictate" THEN "away" ELSE "ask")
  /\ UNCHANGED <<app, inbox, event, signalled, asked, orphan, launches>>

OpenEvent(l) ==
  /\ launcher[l] = "ask" /\ Launching(l) \notin mutex
  /\ IF event = {} THEN Moves(l, "spawn") /\ UNCHANGED event
     ELSE Moves(l, "signal") /\ event' = event \cup {Launching(l)}
  /\ UNCHANGED <<app, inbox, mutex, signalled, asked, orphan, launches>>

Signal(l) ==
  /\ launcher[l] = "signal" /\ Moves(l, "signalled") /\ SetEvent
  /\ UNCHANGED <<app, inbox, mutex, event, orphan, launches>>

CloseEvent(l) ==
  /\ launcher[l] = "signalled" /\ Moves(l, "away") /\ EventClosed(Launching(l))
  /\ UNCHANGED <<app, inbox, mutex, asked, orphan, launches>>

Spawn(l) ==
  /\ launcher[l] = "spawn" /\ Spawned /\ Moves(l, "away")
  /\ UNCHANGED <<inbox, mutex, event, signalled, asked, orphan, launches>>

-----------------------------------------------------------------------------
(* The copilot's process: acquire, and run_copilot to its end.             *)

\* CreateMutexW: whoever creates it is the copilot.
IsFirst(p) == mutex = {}

CreateMutex(p) ==
  /\ app[p] = "started" /\ mutex' = mutex \cup {Copilot(p)}
  /\ Goes(p, IF IsFirst(p) THEN "owner" ELSE "second")
  /\ orphan' = (orphan \/ (~IsFirst(p) /\ \A q \in Copilots : ~Running(q)))
  /\ UNCHANGED <<inbox, event, signalled, launcher, asked, launches>>

CreateEvent(p) ==
  /\ app[p] \in {"owner", "second"} /\ event' = event \cup {Copilot(p)}
  /\ Goes(p, IF app[p] = "owner" THEN "loading" ELSE "asking")
  /\ UNCHANGED <<inbox, mutex, signalled, launcher, asked, orphan, launches>>

\* A second copilot signals the first.
GiveWay(p) ==
  /\ app[p] = "asking" /\ Goes(p, "leaving") /\ SetEvent
  /\ UNCHANGED <<inbox, mutex, event, launcher, orphan, launches>>

GiveWayEvent(p) ==
  /\ app[p] = "leaving" /\ Goes(p, "left") /\ EventClosed(Copilot(p))
  /\ UNCHANGED <<inbox, mutex, launcher, asked, orphan, launches>>

GiveWayMutex(p) ==
  /\ app[p] = "left" /\ Goes(p, "gone") /\ mutex' = mutex \ {Copilot(p)}
  /\ UNCHANGED <<inbox, event, signalled, launcher, asked, orphan, launches>>

\* watch_show_requests, and the window, which a new copilot shows.
Opens(p) ==
  /\ app[p] = "loading" /\ Goes(p, "listening")
  /\ UNCHANGED <<inbox, mutex, event, signalled, launcher, asked, orphan, launches>>

\* WaitForSingleObject takes the signal, and the watcher tells the engine.
Watch(p) ==
  /\ Running(p) /\ app[p] \notin {"owner", "loading"} /\ signalled
  /\ signalled' = FALSE /\ inbox' = inbox \cup {p}
  /\ UNCHANGED <<app, mutex, event, launcher, asked, orphan, launches>>

\* The engine shows the window; while the session's end is gathered it drops the request.
ShowRequested(p) ==
  /\ p \in inbox /\ app[p] \in {"listening", "finishing", "wrap-up"}
  /\ inbox' = inbox \ {p}
  /\ asked' = IF app[p] = "finishing" THEN asked ELSE [asked EXCEPT ![p] = FALSE]
  /\ UNCHANGED <<app, mutex, event, signalled, launcher, orphan, launches>>

End(p) ==
  /\ app[p] = "listening" /\ UserActs /\ Goes(p, "finishing")
  /\ UNCHANGED <<inbox, mutex, event, signalled, launcher, asked, orphan>>

\* finish has gathered the transcript; without notes there is no wrap-up.
Finish(p) ==
  /\ app[p] = "finishing" /\ (Goes(p, "wrap-up") \/ Goes(p, "ended"))
  /\ UNCHANGED <<inbox, mutex, event, signalled, launcher, asked, orphan, launches>>

WrapUpEnds(p) ==
  /\ app[p] = "wrap-up" /\ Goes(p, "ended")
  /\ UNCHANGED <<inbox, mutex, event, signalled, launcher, asked, orphan, launches>>

\* InstanceGuard::drop, or the process is killed.
Exit(p) ==
  /\ \/ app[p] = "ended" /\ UNCHANGED launches
     \/ app[p] \notin {"none", "gone"} /\ UserActs
  /\ Goes(p, "gone") /\ mutex' = mutex \ {Copilot(p)} /\ EventClosed(Copilot(p)) /\ inbox' = inbox \ {p}
  /\ UNCHANGED <<launcher, asked, orphan>>

Next ==
  \/ \E l \in Callers :
       \/ Launch(l) \/ OpenMutex(l) \/ CloseMutex(l)
       \/ OpenEvent(l) \/ Signal(l) \/ CloseEvent(l) \/ Spawn(l)
  \/ \E p \in Copilots :
       \/ CreateMutex(p) \/ CreateEvent(p)
       \/ GiveWay(p) \/ GiveWayEvent(p) \/ GiveWayMutex(p)
       \/ Opens(p) \/ Watch(p) \/ ShowRequested(p) \/ End(p) \/ Finish(p) \/ WrapUpEnds(p)
       \/ Exit(p)

Spec == Init /\ [][Next]_vars

-----------------------------------------------------------------------------
\* "One copilot per desktop session", however many are started at once.
OneCopilot == \A p, q \in Copilots : Running(p) /\ Running(q) => p = q

\* A launch that signalled a copilot is not forgotten while that copilot listens: the
\* event keeps the signal, or the engine is told (request_show, watch_show_requests).
LaunchIsHeard ==
  \A p \in Copilots : asked[p] /\ app[p] \in {"loading", "listening"} =>
    signalled \/ p \in inbox

\* Nothing outlives the copilot that says it runs: with no launch under way, the
\* next one finds the mutex exactly if there is a copilot (is_running, acquire).
RunsIfItSaysSo ==
  (\A l \in Callers : launcher[l] = "away")
    /\ (\A p \in Copilots : app[p] \notin {"second", "asking", "leaving", "left"})
  => (mutex # {} <=> \E p \in Copilots : Running(p))

\* launch_copilot "Starts the copilot, or brings the running one forward". (Not so: a
\* request is dropped while the session's end is gathered, or after the engine ended.)
LaunchAppears == \A p \in Copilots : asked[p] => Running(p)

\* A second copilot gives way to a first. (Not so: the handle that a launch still has
\* of an ended copilot's mutex makes the next copilot believe that one runs.)
NoneGivesWayToNobody == ~orphan

\* Again and again: a copilot that listens has shown itself to every launch that
\* signalled it, also to those that the event gathered into one (watch_show_requests).
LaunchesAreShown == \A p \in Copilots : app[p] \in {"loading", "listening"} => ~asked[p]
=============================================================================
