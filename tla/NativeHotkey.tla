----------------------------- MODULE NativeHotkey -----------------------------
(***************************************************************************)
(* Listening for the global shortcut: the listener's thread, which keeps a *)
(* handle on every keyboard that has the shortcut's keys while keyboards   *)
(* come and go (native_hotkey/), and its supervisor, the dispatch loop,    *)
(* which starts it again, gives it another shortcut and tells the daemon   *)
(* whether it works (hotkey_dispatch.rs). On Windows the listener is a     *)
(* keyboard hook (windows/native_hotkey.rs). The signals that go the same  *)
(* way are HotkeyDispatch's.                                               *)
(***************************************************************************)
EXTENDS Naturals, Sequences, FiniteSets

CONSTANTS
  Keyboards,
  Shortcuts,     \* a shortcut is the set of the keyboards that have its keys
  MaxPlugs,      \* bound: changes of /dev/input
  MaxFailures,   \* bound: calls that fail
  MaxRequests    \* bound: shortcuts asked for

VARIABLES
  os,
  node,       \* a keyboard's node under /dev/input: "none", "made", or "ready" once
              \* udev has let the user read it
  directory,  \* /dev/input is there
  notified,   \* the listener's inotify has something to read
  listener,   \* the listener, and the scan of its start
  loop,       \* the dispatch loop's thread: "loop", "starting", "arming", "asking"
  channel,    \* DispatchLoopEvents
  spec,       \* current_spec
  active,     \* active_listener is Some
  gen,        \* the generation of the listener
  watch,      \* the retry watcher: "none", "armed", "changed" or "broken"
  request,    \* the settings thread's request: the shortcut and its answer
  published,  \* statuses on the status thread's channel
  shown,      \* the daemon's HotkeyReadiness
  history,    \* agreed: the shortcut last agreed on; blinked: keyboards that came
              \* back before the listener saw them go; lost: the last status was lost
  counts      \* the bounds' counters

vars == <<os, node, directory, notified, listener, loop, channel, spec, active, gen,
          watch, request, published, shown, history, counts>>

hotplug == <<node, directory>>
dispatch == <<loop, spec, active, gen, watch, request>>

NoSpec == {"invalid"}
NoListener == [at |-> "none", spec |-> {}, open |-> {}, todo |-> {}, got |-> {}, before |-> 0,
               seen |-> [control |-> FALSE, watch |-> FALSE, gone |-> {}],
               command |-> NoSpec, reply |-> "none", blind |-> FALSE]
NoRequest == [spec |-> NoSpec, answer |-> "none"]
Hook == "hook"

Handle(k) == [key |-> k, alive |-> TRUE]
KeysOf(handles) == {h.key : h \in handles}
HungUp(k, handles) == {[h EXCEPT !.alive = h.alive /\ h.key # k] : h \in handles}
StatusOf(handles) == IF handles = {} THEN "unavailable" ELSE "ready"

\* Mutant: keyboards without the shortcut's keys as well.
AnyKeyboard(shortcut) == {k \in Keyboards : node[k] # "none"}

\* keyboard_event_paths: the keyboards listed that have the shortcut's keys;
\* AgentDictate's own virtual keyboards are never among them.
Discovered(shortcut) == {k \in shortcut : node[k] # "none"}

Fail == counts.failures < MaxFailures /\ counts' = [counts EXCEPT !.failures = @ + 1]
Succeed == UNCHANGED counts
Event(kind) == [gen |-> gen, kind |-> kind]

Init ==
  /\ os \in {"linux", "windows"}
  /\ node \in [Keyboards -> {"none", "ready"}]
  /\ directory \in BOOLEAN /\ ((\E k \in Keyboards : node[k] # "none") => directory)
  /\ notified = FALSE /\ spec \in Shortcuts \cup {NoSpec}
  /\ listener = IF spec = NoSpec THEN NoListener
                ELSE [NoListener EXCEPT !.at = "install", !.spec = spec]
  /\ loop = IF spec = NoSpec THEN "loop" ELSE "starting"
  /\ channel = <<>> /\ active = FALSE /\ gen = 1 /\ watch = "none" /\ request = NoRequest
  /\ published = <<>> /\ shown = IF spec = NoSpec THEN "unavailable" ELSE "starting"
  /\ history = [agreed |-> spec, blinked |-> {}, lost |-> FALSE]
  /\ counts = [plugs |-> 0, failures |-> 0, requests |-> 0]

-----------------------------------------------------------------------------
(* The input environment.                                                  *)

Change(k, state) ==
  /\ os = "linux" /\ counts.plugs < MaxPlugs
  /\ counts' = [counts EXCEPT !.plugs = @ + 1]
  /\ node' = [node EXCEPT ![k] = state] /\ directory' = TRUE
  /\ notified' = (listener.at \notin {"none", "install"})
  /\ watch' = IF watch = "armed" THEN "changed" ELSE watch
  /\ UNCHANGED <<os, loop, channel, spec, active, gen, request, published, shown>>

\* udev makes the node first and lets the user read it then: IN_CREATE, IN_ATTRIB.
Appear(k) ==
  /\ node[k] = "none" /\ Change(k, "made")
  /\ history' = IF k \in KeysOf(listener.open \cup listener.got)
                THEN [history EXCEPT !.blinked = @ \cup {k}] ELSE history
  /\ UNCHANGED listener
Permit(k) == node[k] = "made" /\ Change(k, "ready") /\ UNCHANGED <<listener, history>>
Unplug(k) ==
  /\ node[k] # "none" /\ Change(k, "none")
  /\ listener' = [listener EXCEPT !.open = HungUp(k, @), !.got = HungUp(k, @)]
  /\ UNCHANGED history

Environment == \E k \in Keyboards : Appear(k) \/ Permit(k) \/ Unplug(k)

-----------------------------------------------------------------------------
(* NativeHotkeyListener::start, on the dispatch loop's thread.             *)

StartFailed ==
  /\ listener' = NoListener /\ loop' = "arming"
  /\ published' = Append(published, "unavailable") /\ notified' = FALSE
  /\ UNCHANGED <<spec, active, gen, watch, request>>

\* The watch comes before the scan. On Windows the hook is all there is.
InstallWatch ==
  /\ loop = "starting" /\ listener.at = "install"
  /\ \/ /\ os = "linux" /\ directory /\ Succeed
        /\ listener' = [listener EXCEPT !.at = "scan"]
        /\ notified' = FALSE /\ UNCHANGED <<dispatch, published>>
     \/ /\ os = "windows" /\ Succeed
        /\ listener' = [listener EXCEPT !.at = "first", !.open = {Handle(Hook)}]
        /\ UNCHANGED <<dispatch, published, notified>>
     \/ os = "linux" /\ ~directory /\ Succeed /\ StartFailed
     \/ Fail /\ StartFailed
  /\ UNCHANGED <<os, hotplug, channel, shown, history>>

Scan ==
  /\ loop = "starting" /\ listener.at = "scan"
  /\ \/ /\ Succeed
        /\ listener' = [listener EXCEPT !.at = "first", !.todo = Discovered(listener.spec)]
        /\ UNCHANGED <<dispatch, published, notified>>
     \/ Fail /\ StartFailed
  /\ UNCHANGED <<os, hotplug, channel, shown, history>>

\* open_keyboard, for each path of a scan: one that cannot be read is reported
\* and left. A reconfiguration collects its handles apart; what hung up before it is
\* closed after it, by its path, and so is a keyboard that came back meanwhile.
Opened(k) ==
  LET handles == IF node[k] = "ready" THEN {Handle(k)} ELSE {} IN
  IF listener.at = "reopening"
    THEN [listener EXCEPT !.todo = @ \ {k}, !.got = @ \cup handles]
    ELSE [listener EXCEPT !.todo = @ \ {k}, !.open = @ \cup handles]
OpenKeyboard(k) ==
  /\ k \in listener.todo /\ listener' = Opened(k)
  /\ history' = IF node[k] = "ready" /\ ~(listener.at = "reopening" /\ k \in listener.seen.gone)
                THEN [history EXCEPT !.blinked = @ \ {k}] ELSE history
  /\ UNCHANGED <<os, hotplug, notified, dispatch, channel, published, shown, counts>>

\* start returns; the readiness of the first scan is published before anything
\* that the listener's thread reports.
Started ==
  /\ loop = "starting" /\ listener.at = "first" /\ listener.todo = {}
  /\ listener' = [listener EXCEPT !.at = "poll"]
  /\ loop' = "loop" /\ active' = TRUE
  /\ published' = Append(published, StatusOf(listener.open))
  /\ UNCHANGED <<os, hotplug, notified, channel, spec, gen, watch, request, shown,
                 history, counts>>

\* schedule_environment_retry: its own watch, which sees what changes from now on.
\* One that cannot be made is only logged.
Arm ==
  /\ loop = "arming" /\ loop' = "loop"
  /\ \/ watch' = "armed" /\ Succeed
     \/ watch' = "broken" /\ Fail
  /\ UNCHANGED <<os, hotplug, notified, listener, channel, spec, active, gen, request,
                 published, shown, history>>

\* NativeHotkeyRetryWatcher::wait; on Windows it sleeps five seconds.
Recover ==
  /\ watch = "changed" \/ (os = "windows" /\ watch = "armed")
  /\ watch' = "none" /\ channel' = Append(channel, Event("changed"))
  /\ UNCHANGED <<os, hotplug, notified, listener, loop, spec, active, gen, request,
                 published, shown, history, counts>>

-----------------------------------------------------------------------------
(* ListenerWorker::run.                                                    *)

workerFrame == UNCHANGED <<os, hotplug, loop, spec, active, gen, watch, request,
                           published, shown, history>>

\* poll: what is readable now is what this round looks at.
Gone == {h.key : h \in {h \in listener.open : ~h.alive}}
Poll ==
  /\ listener.at = "poll"
  /\ listener.command # NoSpec \/ notified \/ Gone # {}
  /\ listener' = [listener EXCEPT !.at = "commands",
                    !.seen = [control |-> listener.command # NoSpec, watch |-> notified,
                              gone |-> Gone]]
  /\ UNCHANGED <<notified, channel, counts>> /\ workerFrame

\* The thread ends: poll or GetMessage fails. Its channel closes after its events.
WorkerEnds ==
  /\ listener.at = "poll" /\ Fail
  /\ listener' = [NoListener EXCEPT !.reply = listener.reply] /\ notified' = FALSE
  /\ LET told == IF os = "linux" THEN Append(channel, Event("discovery failed")) ELSE channel
     IN channel' = Append(told, Event("closed"))
  /\ workerFrame

Commands ==
  /\ listener.at = "commands"
  /\ listener' = [listener EXCEPT !.at = IF listener.seen.control THEN "rescan" ELSE "devices"]
  /\ UNCHANGED <<notified, channel, counts>> /\ workerFrame

\* reconfigure_listener: refused unless a keyboard for the new shortcut is open;
\* until then the old one is listened to.
Refuse ==
  /\ listener' = [listener EXCEPT !.at = "devices", !.command = NoSpec, !.reply = "rejected",
                                  !.got = {}]
  /\ channel' = Append(channel, Event(StatusOf(listener.open)))
Accept(handles) ==
  listener' = [listener EXCEPT !.at = "devices", !.spec = listener.command,
                 !.open = handles, !.got = {}, !.command = NoSpec, !.reply = "accepted"]
Rescan ==
  /\ listener.at = "rescan" /\ UNCHANGED notified /\ workerFrame
  /\ \/ /\ os = "linux" /\ Succeed /\ UNCHANGED channel
        /\ listener' = [listener EXCEPT !.at = "reopening", !.got = {},
                          !.todo = Discovered(listener.command)]
     \/ os = "linux" /\ Fail /\ Refuse
     \/ os = "windows" /\ Succeed /\ Accept(listener.open) /\ UNCHANGED channel
Decide ==
  /\ listener.at = "reopening" /\ listener.todo = {}
  /\ IF listener.got = {} THEN Refuse
     ELSE Accept(listener.got) /\ channel' = Append(channel, Event("ready"))
  /\ UNCHANGED <<notified, counts>> /\ workerFrame

\* A device that hung up is closed, with the release of what was held on it.
Readiness ==
  /\ listener.at = "devices"
  /\ listener' = [listener EXCEPT
       !.before = Cardinality(listener.open),
       !.open = {h \in @ : h.key \notin listener.seen.gone},
       !.at = IF listener.seen.watch THEN "drain" ELSE "status"]
  /\ UNCHANGED <<notified, channel, counts>> /\ workerFrame

\* The notification is taken before the scan that answers it.
Drain ==
  /\ listener.at = "drain" /\ notified' = FALSE
  /\ listener' = [listener EXCEPT !.at = "discover"]
  /\ UNCHANGED <<channel, counts>> /\ workerFrame

\* reconcile_devices: what is gone is closed, what is new opened.
Discover ==
  /\ listener.at = "discover"
  /\ \/ LET found == Discovered(listener.spec)
            kept == {h \in listener.open : h.key \in found}
        IN /\ listener' = [listener EXCEPT !.at = "status", !.open = kept, !.blind = FALSE,
                                           !.todo = found \ KeysOf(kept)]
           /\ Succeed /\ UNCHANGED channel
     \/ /\ Fail /\ listener' = [listener EXCEPT !.at = "status", !.blind = TRUE]
        /\ channel' = Append(channel, Event("discovery failed"))
  /\ UNCHANGED notified /\ workerFrame

Report ==
  /\ listener.at = "status" /\ listener.todo = {}
  /\ listener' = [listener EXCEPT !.at = "poll"]
  /\ channel' = IF Cardinality(listener.open) = listener.before THEN channel
                ELSE Append(channel, Event(StatusOf(listener.open)))
  /\ UNCHANGED <<notified, counts>> /\ workerFrame

Worker ==
  \/ Poll \/ WorkerEnds \/ Commands \/ Rescan \/ Decide
  \/ Readiness \/ Drain \/ Discover \/ Report

-----------------------------------------------------------------------------
(* The dispatch loop, and the threads that ask it and that it tells.       *)

Answer(answer) == request' = [request EXCEPT !.answer = answer]

\* SupervisedHotkeyControl::reconfigure, with the daemon locked until its answer.
Ask(shortcut) ==
  /\ request = NoRequest /\ counts.requests < MaxRequests
  /\ counts' = [counts EXCEPT !.requests = @ + 1]
  /\ request' = [NoRequest EXCEPT !.spec = shortcut]
  /\ channel' = Append(channel, Event("reconfigure"))
  /\ UNCHANGED <<os, hotplug, notified, listener, loop, spec, active, gen, watch,
                 published, shown, history>>

\* An event of an earlier generation is dropped; a request has none.
Current(e) == e.gen = gen \/ e.kind = "reconfigure"

TakeEvent ==
  LET e == Head(channel) IN
  /\ loop = "loop" /\ channel # <<>> /\ channel' = Tail(channel)
  /\ \/ /\ ~Current(e) \/ (e.kind = "changed" /\ (active \/ spec = NoSpec))
        /\ UNCHANGED <<dispatch, listener, published>>
     \/ /\ Current(e) /\ e.kind \in {"ready", "unavailable", "discovery failed"}
        /\ published' = Append(published, e.kind) /\ UNCHANGED <<dispatch, listener>>
     \/ /\ Current(e) /\ e.kind = "closed"
        /\ active' = FALSE /\ published' = Append(published, "unavailable")
        /\ loop' = "arming" /\ UNCHANGED <<listener, spec, gen, watch, request>>
     \/ /\ Current(e) /\ e.kind = "changed" /\ ~active /\ spec # NoSpec
        /\ published' = Append(published, "starting") /\ gen' = gen + 1
        /\ listener' = [NoListener EXCEPT !.at = "install", !.spec = spec]
        /\ loop' = "starting" /\ UNCHANGED <<spec, active, watch, request>>
     \/ /\ e.kind = "reconfigure" /\ ~active
        /\ Answer("rejected")
        /\ UNCHANGED <<listener, loop, spec, active, gen, watch, published>>
     \/ /\ e.kind = "reconfigure" /\ active
        /\ listener' = IF listener.at = "none" THEN listener
                       ELSE [listener EXCEPT !.command = request.spec]
        /\ loop' = "asking" /\ UNCHANGED <<spec, active, gen, watch, request, published>>
  /\ UNCHANGED <<os, hotplug, notified, shown, history, counts>>

\* The listener's reply; a listener that ended dropped the request.
Reply ==
  /\ loop = "asking" /\ loop' = "loop"
  /\ \/ /\ listener.reply # "none" /\ Answer(listener.reply)
        /\ spec' = IF listener.reply = "accepted" THEN request.spec ELSE spec
        /\ listener' = [listener EXCEPT !.reply = "none"]
     \/ /\ listener.at = "none" /\ listener.reply = "none"
        /\ Answer("rejected") /\ UNCHANGED <<spec, listener>>
  /\ UNCHANGED <<os, hotplug, notified, channel, active, gen, watch, published, shown,
                 history, counts>>

\* The settings thread goes on: it keeps the old shortcut after a refusal.
Learn ==
  /\ request.answer # "none" /\ request' = NoRequest
  /\ history' = IF request.answer = "accepted"
                THEN [history EXCEPT !.agreed = request.spec] ELSE history
  /\ UNCHANGED <<os, hotplug, notified, listener, loop, channel, spec, active, gen, watch,
                 published, shown, counts>>

\* The status thread tells the daemon, which a request in progress keeps locked.
Publish ==
  /\ published # <<>> /\ request = NoRequest /\ published' = Tail(published)
  /\ \/ /\ shown' = Head(published) /\ Succeed
        /\ history' = [history EXCEPT !.lost = FALSE]
     \/ Fail /\ history' = [history EXCEPT !.lost = TRUE] /\ UNCHANGED shown
  /\ UNCHANGED <<os, hotplug, notified, listener, dispatch, channel>>

Supervisor ==
  \/ InstallWatch \/ Scan \/ Started \/ Arm \/ Recover \/ TakeEvent \/ Reply \/ Learn
  \/ Publish \/ (\E shortcut \in Shortcuts : Ask(shortcut))

Next == Environment \/ Worker \/ Supervisor \/ (\E k \in Keyboards : OpenKeyboard(k))

Spec == Init /\ [][Next]_vars

-----------------------------------------------------------------------------
(* Properties                                                              *)

\* Nothing wakes the listener or the loop.
AtRest ==
  /\ listener.at \in {"none", "poll"} /\ listener.command = NoSpec /\ ~notified /\ Gone = {}
  /\ loop = "loop" /\ channel = <<>> /\ published = <<>> /\ watch # "changed"
  /\ request = NoRequest

\* A listener that waits has every keyboard open that has the shortcut's keys and
\* can be read, however its changes fell between the watch, the scan and the
\* opening of each node; except after a scan that failed, and for a keyboard that
\* came back before its hang-up was seen.
NoKeyboardIsMissed ==
  os = "linux" /\ listener.at = "poll" /\ ~notified /\ Gone = {} /\ ~listener.blind =>
    LET ready == {k \in listener.spec : node[k] = "ready"} IN
    KeysOf(listener.open) \subseteq ready /\ ready \ history.blinked \subseteq KeysOf(listener.open)

\* What the daemon shows is so: the shortcut is said to work when a listener has
\* a keyboard, and otherwise not. Only a failed scan is shown over a listener that
\* goes on working (hotkey_dispatch.rs, DiscoveryError).
StatusIsTrue ==
  AtRest /\ ~history.lost =>
    IF active /\ listener.open # {} THEN shown \in {"ready", "discovery failed"}
    ELSE shown # "ready"

\* The shortcut the settings were told of is the one that is listened to, and the
\* one a listener is started with again: a listener that ends in the middle of a
\* request, or a refusal, changes nothing.
ShortcutIsAsAgreed ==
  loop # "asking" /\ request = NoRequest =>
    spec = history.agreed /\ (listener.at # "none" => listener.spec = spec)

\* A listener that ended or did not start is started again at the next change, and
\* never by an event of the one before it.
RecoveryIsArmed ==
  ~active /\ spec # NoSpec /\ loop = "loop" =>
    \/ watch \in {"armed", "changed", "broken"}
    \/ \E i \in DOMAIN channel : channel[i].kind = "changed" /\ channel[i].gen = gen

\* The inductive invariant.  The loop's thread starts a listener only when there is
\* none, and hears of its end once.
Starting == {"install", "scan", "first"}
Running == {"poll", "commands", "rescan", "reopening", "devices", "drain", "discover", "status"}
Statuses == {"ready", "unavailable", "discovery failed"}
Handles == [key : Keyboards \cup {Hook}, alive : BOOLEAN]
Listeners ==
  [at : {"none"} \cup Starting \cup Running, spec : SUBSET Keyboards,
   open : SUBSET Handles, todo : SUBSET Keyboards, got : SUBSET Handles, before : Nat,
   seen : [control : BOOLEAN, watch : BOOLEAN, gone : SUBSET (Keyboards \cup {Hook})],
   command : Shortcuts \cup {NoSpec}, reply : {"none", "accepted", "rejected"}, blind : BOOLEAN]
Events == [gen : Nat, kind : Statuses \cup {"closed", "changed", "reconfigure"}]
Left == listener.todo # {} => listener.at \in {"first", "reopening", "status"}
Supervising ==
  /\ os \in {"linux", "windows"} /\ listener \in Listeners
  /\ loop \in {"loop", "starting", "arming", "asking"} /\ channel \in Seq(Events)
  /\ gen \in Nat /\ \A i \in DOMAIN channel : channel[i].gen <= gen
  /\ loop = "starting" <=> listener.at \in Starting
  /\ Left /\ (listener.at \in Running => active)
  /\ active => loop \in {"loop", "asking"}
  /\ loop = "asking" => active
  /\ listener.at = "none" => listener = [NoListener EXCEPT !.reply = listener.reply]
  /\ \A i \in DOMAIN channel :
       channel[i].kind = "closed" /\ channel[i].gen = gen => listener.at = "none"
  /\ RecoveryIsArmed

\* A request is asked, then with the listener, then answered; the shortcut changes
\* when the listener's reply is read, what was agreed on when the answer is.
Asked(i) == channel[i].kind = "reconfigure"
Agreeing ==
  /\ spec \in Shortcuts \cup {NoSpec}
  /\ history \in [agreed : Shortcuts \cup {NoSpec}, blinked : SUBSET Keyboards, lost : BOOLEAN]
  /\ request \in [spec : Shortcuts \cup {NoSpec}, answer : {"none", "accepted", "rejected"}]
  /\ request = NoRequest \/ request.spec \in Shortcuts
  /\ loop = "asking" => request.spec \in Shortcuts /\ request.answer = "none"
  /\ \A i \in DOMAIN channel :
       Asked(i) => request.spec \in Shortcuts /\ request.answer = "none" /\ loop # "asking"
  /\ \A i, j \in DOMAIN channel : Asked(i) /\ Asked(j) => i = j
  /\ listener.command # NoSpec =>
       loop = "asking" /\ listener.command = request.spec /\ listener.reply = "none"
  /\ listener.reply # "none" => loop = "asking"
  /\ \/ listener.at \in {"rescan", "reopening"}
     \/ listener.at = "commands" /\ listener.seen.control
     => listener.command # NoSpec
  /\ spec = IF request.answer = "accepted" THEN request.spec ELSE history.agreed
  /\ listener.at # "none" =>
       /\ listener.spec \in Shortcuts
       /\ listener.spec = IF listener.reply = "accepted" THEN request.spec ELSE spec

\* The newest status on its way to the daemon, or the one shown, fits what the
\* listener last reported of.
Up == IF listener.at \in {"drain", "discover", "status"} THEN listener.before # 0
      ELSE listener.at \in Running /\ listener.open # {}
Fits(status) == IF Up THEN status \in {"ready", "discovery failed"} ELSE status # "ready"
Told == {i \in DOMAIN channel :
           channel[i].gen = gen /\ channel[i].kind \in Statuses \cup {"closed"}}
Reporting ==
  /\ IsFiniteSet(listener.open) /\ IsFiniteSet(listener.got) /\ published \in Seq(Statuses \cup {"starting"})
  /\ loop = "starting" => Told = {}
  /\ \A i \in Told : (\A j \in Told : j <= i) => Fits(channel[i].kind)
  /\ Told = {} => IF published = <<>> THEN history.lost \/ Fits(shown)
                  ELSE Fits(published[Len(published)])

\* What a keyboard's handle says of it; and, when nothing changed since the last
\* look, that every keyboard is open or about to be.
Unlike(handles) == \A g, h \in handles : g.key = h.key => g = h
Dead(handles) == {h.key : h \in {h \in handles : ~h.alive}}
Wanted(shortcut) == {k \in shortcut : node[k] = "ready"} \ history.blinked
Opening == IF listener.at = "reopening" THEN listener.got ELSE listener.open
Away(k) == node[k] = "none" \/ k \in history.blinked
Telling ==
  /\ \A h \in listener.open \cup listener.got : h.alive => node[h.key] = "ready"
  /\ \A k \in Dead(Opening) : Away(k)
  /\ listener.got = {} => \A k \in Dead(listener.open) : Away(k)
  /\ listener.at \in {"commands", "rescan", "reopening", "devices"} /\ ~notified =>
       \A k \in listener.seen.gone : Away(k)
Placing ==
  /\ Unlike(listener.open) /\ Unlike(listener.got)
  /\ listener.at \in {"install", "scan"} => listener.open = {}
  /\ listener.got # {} => listener.at = "reopening"
  /\ KeysOf(listener.open) \subseteq listener.spec
  /\ KeysOf(listener.got) \subseteq listener.command
  /\ listener.todo \subseteq IF listener.at = "reopening" THEN listener.command ELSE listener.spec
  /\ listener.todo \cap KeysOf(Opening) = {}
Complete ==
  ~notified /\ ~listener.blind =>
    /\ listener.at \in {"first", "status"} =>
         Wanted(listener.spec) \subseteq KeysOf(listener.open) \cup listener.todo
    /\ \/ listener.at \in {"poll", "commands", "rescan", "devices"}
       \/ listener.at = "reopening" /\ listener.got = {}
       => Wanted(listener.spec) \subseteq KeysOf(listener.open)
    /\ listener.at = "reopening" =>
         Wanted(listener.command) \subseteq KeysOf(listener.got) \cup listener.todo
Hearing ==
  /\ node \in [Keyboards -> {"none", "made", "ready"}] /\ notified \in BOOLEAN
  /\ os = "linux" => Telling /\ Placing /\ Complete

\* worker.rs:225-226 says that every device open completed before the swap: a handle
\* opened for the new shortcut stays. The round goes on with what the poll said of
\* the handles before the swap, and closes by path.
ReopenedStaysOpen ==
  [][listener.at = "devices" =>
       \A h \in listener.open : h.alive => h.key \in KeysOf(listener'.open)]_vars

\* listener.rs:48-49 says that no change is lost between a failure and the wait:
\* a recovery that waits could not have started. It is lost between the failure
\* and NativeHotkeyRetryWatcher::new.
NoChangeIsLost ==
  os = "linux" /\ watch = "armed" /\ loop = "loop" /\ counts.failures = 0 => ~directory
=============================================================================
