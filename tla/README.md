# AgentDictate: specification and proofs

TLA+ modules for AgentDictate (the Rust workspace under `src/crates/`): its dictation
daemon, the components around it on Linux and Windows, its desktop window and its meeting
copilot; the TLC configurations that check them, and proofs that the TLA+ proof system
checks. `PROJECT.json` lists the runs, the mutant of the code each property catches, the
source lines every definition stands for, the findings, the hazards and the theorems.

    tlc -workers 2 -config Daemon.cfg MCDictationDaemon.tla
    tlc -workers 2 -config Services.cfg MCServices.tla
    tlapm DictationDaemonProofs.tla

## 1. The system

AgentDictate records speech while a hotkey asks for it, has it transcribed, and pastes
the text into the focused application. The daemon (`agentdictated`) owns everything that
changes; the tray, the desktop window and the tests are its clients. The meeting copilot is
a program of its own: it listens to a call, shows a transcript and drafts answers.

| component | state it keeps | operations | what makes it correct |
|---|---|---|---|
| workflow (`core/workflow.rs`) | phase and dictation | `apply(signal)` | refuses a signal of another dictation or of the wrong phase |
| daemon (`app/daemon.rs`) and store (`runtime/runtime.rs`, `history.rs`) | `active_job`, the workflow; one SQLite row per dictation, one usage session and History entry per delivery, one audio file | start, stop, discard, recorder exit, both retries, delete from Recovery, delete and clear History, shutdown | text is not pasted twice unasked, no recording is lost, a delivery is counted once, an open microphone is the active recording's (but for one lost start, see `MicIsOwned`) |
| startup and maintenance (`recovery.rs`, `startup_cleanup.rs`, `history.rs`) | the list a sweep works from | reconcile after a death, finish deliveries, remove orphan audio | what a death left half done is finished, and nothing that is owned is removed |
| database schema (`schema.rs`, `Runtime::open`) | tables and columns of three generations | open, migrate, convert old rows | a start cut off anywhere is continued by the next; no dictation is stranded, sent twice or counted for a second time |
| index priority (`maintenance_priority.rs`) | count of recordings that have priority, the interrupt handle | `prioritize_recording`, guard drop, attempts of the rebuild | a recording never waits behind a rebuild, and the rebuild still happens |
| history search (`history_search.rs`) | full-text index and its readiness, the vocabulary in memory | triggers, plan, page, cursor, fallback | a search finds the word, loading on repeats and skips nothing |
| usage and pricing (`usage.rs`, `pricing.rs`) | sessions, daily figures, price list | record, recompute, reprice, read | the figures are the sessions', the costs those of the saved prices |
| overlay supervisor (`overlay_process/`) | lifecycle flag, installed helper, pending dismissal, restart budget | update, dismiss, kill, helper status and exit, shutdown | no paste into a window that is still there, no window nobody will close |
| hotkey (`linux/hotkey.rs`, `native_hotkey/`, `hotkey_dispatch.rs`) | keyboards, keys down, gate, action threads, maximum-duration threads | discovery, key events, dispatch, completion, toggle rearm, limit, reconfiguration, retry | no keyboard goes unheard, no press or release leaves a recording running, the hotkey never goes dead, its status is true |
| settings and replacements (`process.rs`, `settings_store.rs`, `replacements.rs`) | the settings file, memory, the live shortcut, the rules | update with rollback, add, change, toggle and delete a rule | file, memory and shortcut agree; a text is changed by the rules its recording began with |
| IPC endpoint (`runtime/ipc.rs`, `runtime/windows/ipc.rs`, `startup.rs`) | lock file, socket or pipe instances, the quit flag | bind, accept, session, wake, drop; bootstrap | one daemon, found by its clients; Quit is not slept through |
| recorders (`linux/recorder.rs`, `app/system.rs`, `app/windows/system.rs`), ducking | a child process, or the thread that owns the audio stream; saved volumes | start, finish, cancel, exit notice, deadlines, fades | one recording at a time; a late answer does not leave the stream open; volumes come back, unless Windows refuses to set them |
| text injection (`linux/paste.rs`, `injection.rs`, `app/windows/system.rs`) | target, clipboard, virtual keyboard | observe, publish, type the chord | the chord is typed once, where the text was meant for; an error means that nothing was typed |
| transcription (`openai.rs`, `live_transcription.rs`, `codex_subscription.rs`, `model_catalog.rs`) | requests, a streaming session, credentials, the model list | upload, stream, fall back, refresh | live text is whole; credentials are the account's; the models are the key's |
| external import (`external_dictation.rs`, `chatgpt_dictation_import.rs`) | stamps of what was seen, the ledger | scan, read, import | every receipt becomes a session once |
| desktop window (`app/workspace.rs`, `agentdictate-ui`) | cached workspace, lanes, pages, forms | requests to the daemon, edits | late answers do not overwrite newer ones; no edit is lost |
| meeting copilot (`app/copilot/`, `core/copilot.rs`) | captures, utterances, transcript, answers and their threads, voices and names, session, notes, documents | capture, transcribe, judge, draft, answer, rewrite, look, end, wrap up | a line appears once and an echo never; the notes hold what was shown; nothing runs on unattended; documents and names are current |
| copilot window and launch (`ui/desktop/copilot_view.rs`, `copilot/win/`) | view, native window, named mutex and event | show, type, give back, launch | the keyboard is taken only to type; there is one copilot |

How they interact. A client, an action thread of the hotkey or the tray sends one request
over the IPC socket or pipe; `AgentProcess::handle` runs it under one mutex. A handler calls
the workflow, the store (SQLite plus one file per dictation), the recorder, the transcriber,
the overlay and the deliverer, each synchronously. Beside the handlers run: the
`agentdictate-maintenance` thread with a database connection of its own; the overlay's
presenter thread with one monitor per helper process; the hotkey listener, the dispatch
loop, its action threads and one thread per recording that has a maximum duration; the
recorder's owner, whose exit notice arrives as a command; the streaming and the credentials
thread of a recording; the import thread and the refreshes of the model list. The window asks
from a history lane, from action threads and from a watcher of the database. In the copilot
one engine thread takes every message of the window, the tray, the capture controller,
three transcription workers and the answer, judge, rewrite, look and document threads.

What is hard here. The process may die between any two statements, file operations and
external calls; any of these may be refused; the maintenance thread works from lists it
took earlier; notices of recorders and helpers arrive late, or twice; answers of services,
daemons and models come in any order, after what they were asked for has changed; the user
moves the focus and unplugs devices; and several paths read a snapshot in one request and act
in another. The hazards are in `PROJECT.json`, each at its line, with the properties that
cover it or the reason why none does.

## 2. The modules

| module | models | composed of |
|---|---|---|
| `Workflow` | `Workflow::apply` as `Accepts` (guard) and `Apply` (target) | |
| `DictationDaemon` | every handler that moves a dictation, store, startup, maintenance, death | EXTENDS `Workflow` |
| `JobContract` | what is promised about one dictation (abstract) | instantiated by `DictationDaemon` |
| `DictationDaemonProofs` | proofs | EXTENDS `DictationDaemon` |
| `MaintenancePriority` | recording against index rebuild, with the proofs | |
| `OverlaySupervisor`, `OverlaySupervisorProofs` | caller, presenter, helpers and monitors | |
| `HotkeyTracker` | `HotkeyTracker` as a record and functions on it | |
| `HotkeyDispatch`, `HotkeyDispatchProofs` | keys, dispatch loop and gate, action threads, limits, daemon and other clients | EXTENDS `HotkeyTracker` |
| `NativeHotkey` | the listener thread with its keyboards, and its supervisor | |
| `LinuxRecorder`, `WindowsRecorder` | recording and ducking on each platform | |
| `DeliveryContract` | what `Deliverer::deliver` promises (abstract) | instantiated by both deliverers |
| `LinuxDelivery`, `WindowsDelivery` | one-shot delivery on each platform | refine `DeliveryContract` |
| `JobStore` | opening and migrating the database | |
| `UsageLedger`, `HistorySearch` | usage with its costs, and the proofs; searching History | |
| `SettingsUpdate`, `Replacements` | commands that change settings and rules | |
| `DaemonEndpoint`, `WindowsEndpoint` | who owns the endpoint, on each platform | |
| `LiveTranscription`, `SubscriptionAuth`, `ModelCatalog`, `ExternalImport` | streaming, credentials, models, receipts | |
| `Workspace`, `SettingsEditor` | the window's cached history; its settings form | |
| `CopilotCapture`, `CopilotTranscript` | devices and sources; from speech to transcript | |
| `CopilotAnswers`, `AnswerThread`, `CopilotRewrites` | which answer is shown; how one is written; its rewrites | |
| `CopilotNames`, `CopilotKnowledge`, `CopilotCredentials` | who is who; documents and models; shared bearer | |
| `CopilotSession`, `CopilotWindow`, `CopilotLaunch` | session and notes; the window's keyboard; one instance | |
| `MCDictationDaemon` | instance for TLC | |
| `DaemonParts` | the 9 parts of the daemon in `MCServices`, and proofs about them | instantiates them |
| `MCPlatform`, `MCServices` | sums of 7 and 22 components for TLC | instantiate them |
| `PlatformProofs` | proofs about the recorders, the deliverers, the hotkey listener and the copilot's capture and window | EXTENDS `MCPlatform` |
| `MCProgress` | sum of 11 components with the fairness of their threads | instantiates them |

Definitions whose comment begins with "Mutant:" are not part of a specification: each is
a plausible bug of the operator it stands beside, used to show that a property notices it.

### DictationDaemon

`stage`, `status`, `raws`, `texts` and `barred` are the columns of `dictation_jobs` the code
decides by; stage `none` is the absence of the row. `sessions` is a usage session with its
History row (one transaction writes both), `audio` where a recording's file is: nowhere, at
its path, or renamed into the quarantine of a delete. These survive `Crash`; everything else
is volatile. The handler that runs is `cmd`, its dictation `cur` and its next step `pc`;
one step is one database statement, one file operation or one external call, because those
are the points between which a death or the maintenance thread can get in. An action whose
name ends in `Fails` or `Refused` is the error path of its namesake. After most checkpoints the
code reads the row again and passes on a refused read as if nothing had been written:
`StartUnread`, `MarkRecordingUnread`, `WrittenUnread` and the last disjunct of `CaptureFails` and
`InterruptFails` are these. Some are harmless because the handler looks at the row once more;
`MarkRecordingUnread` is not, see `MicIsOwned` below. `boot` steps through
startup in the order of `Runtime::open` and the reconciliations; `mpc`, `todo` and `mjob` are
the maintenance thread with the list it took.

What is abstracted. The outcome of recorder, transcriber, overlay gate and paste is a choice
over what the code tells apart: the recorder opens or not, captures or fails; the transcriber
returns text, silence (only for audio that is near-silent, `quiet`) or an error; a paste is
confirmed, ambiguous, or refused before anything was sent. Texts, clocks and the read-only
queries are left out; a replacement that cannot be applied returns early, which is a step.
Stages that only databases of older versions hold (`cleaning`, `delivering`, `canceled`,
`deleted`, `no_speech`) are not written by this code and are in `JobStore` instead.

`JobContract` is the same promise without the machine: a dictation is unborn, open, delivered
or closed; text is pasted only while it is open, a second time only while the user insists; it
counts only after a paste; what was erased stays erased. The refinement mapping takes `life` from
the row (`Life`), `insisted` from a running `retry_delivery`, and the rest from history and
sessions.

### MaintenancePriority

The mutex and condition variable of `HistoryIndexMaintenance`. A critical section is one step;
the statements of a rebuild, the two halves of the interrupt closure (set the flag, interrupt
SQLite) and the reads around them are steps of their own. `attempt` numbers the
permits, so that a closure cloned for one attempt may run late, against the next.

### OverlaySupervisor

The caller is the daemon thread: it posts updates and, before a paste, waits for a dismissal,
two seconds, and two more after asking for a kill. The presenter takes commands in order, and
notices in order per helper; a sender may be delayed before it sends, so any merge of the two is
possible. A process is open, told to leave (its input closed), killed or gone; a monitor
reports the first frame, a failure, and the exit (or that it could not be observed).

### HotkeyTracker, HotkeyDispatch and NativeHotkey

Keys go down, repeat and come up on keyboards that may be unplugged; the tracker turns them into
`Pressed`, `Released` and `Cancelled`; the loop of `hotkey_dispatch.rs` lets one action run at a
time, drops presses that come meanwhile, keeps one terminal signal, and holds a toggle back until
it is rearmed. An action thread reads a snapshot and sends the command the phase calls for in two
separate requests, between which other clients get in; so does a maximum-duration thread. The
daemon is which recording is open, if any; its handlers are atomic here because they are under
the mutex, and what goes on inside them is `DictationDaemon`'s.

`NativeHotkey` is what lies below the key events: the listener's poll, drain and scan of
`/dev/input` while nodes appear, become readable and vanish between any two of its steps; the
wake that carries a new shortcut; the loop that starts a listener, arms a retry watcher when
that fails, and tells the daemon through a status thread whether the shortcut works. A shortcut
is the set of keyboards that have its keys. On Windows the hook either starts or does not.

### Recording, ducking and delivery

`LinuxRecorder`: the handler, the owner thread and one child per recording, each with an exit
thread; the saved volumes of `PlaybackDucker` and the fades, which carry the generation that
may cancel them. A volume is one of four levels, because the code only asks whether it is one
that ducking wrote. `WindowsRecorder`: the commands and the one-shot reply of the audio owner,
where the caller's deadline is a step that may come before, during or after the owner's answer;
the callback fills the capture or fails. A read of the application's volume and the write that
follows are one step, which Windows may refuse: a fade gives up or tries again (`Fade`), but the last
step of a restoration forgets the original all the same (`RestoreFails`), and the application stays at
a level we gave it (`"lost"`). Not modelled: a daemon that dies while volumes are lowered. If the worker
cannot initialise COM it lowers nothing.

`DeliveryContract` has three variables, the outcome, how often the chord was typed and what is
held down. `LinuxDelivery` is the `PasteDelivery` state machine with its observations,
publications and the uinput keyboard, whose events fail at any position of a chord;
`WindowsDelivery` waits for modifiers, minimises the own window on a retry, and sends one
`SendInput`, which may be cut short. The second one, which releases the keys of the first, may queue
nothing as well, and nobody looks at its result: then a modifier stays down (`ReleaseFails`), and
the next call waits for it. The contract therefore promises that at most one paste is
typed per call, that an error means that nothing was, and that a key of ours stays down only after a call
that says its outcome is ambiguous; on Linux none does (`KeysAreReleased`). Both refine the
contract, which is what `DictationDaemon` assumes of a paste.

### The store around the dictation path

`JobStore`: `Runtime::open` as a sequence of statements, each committed by itself and with a
crash possible after it, over a database that the Python application, an earlier release or
this one left; a row is its stage and delivery status. `UsageLedger`: the handler and the
maintenance thread write sessions, daily figures and prices from two connections; the overview
reads in several statements. `HistorySearch`: the triggers keep `index` beside `rows`;
`build_search_plan` corrects or literally searches a word; a page carries a cursor with the
plan's fingerprint. `Replacements`: the page's editor and confirmations, the daemon's table, and
the text of a recording, computed by the same matching as the code (`Applied`, `Spliced`).
`SettingsUpdate`: the order of `update_settings` (listener, file, memory) with each step refused
or failing, while the listener closes and comes back.

### Endpoints

`DaemonEndpoint`: a daemon takes the lock, probes and removes a stale socket, binds, serves and
leaves; the service restarts what failed; the bootstrap stops a daemon that is not the
service's. `WindowsEndpoint`: one pipe instance is pending per daemon; a client is at it, accepted or
gone; `looking` is the loop between the quit flag and `ConnectNamedPipe`, where a Quit handled on
another session may fall. Named objects live while a handle is open, also in `CopilotLaunch`.

### Uploads, imports and lists

`LiveTranscription` counts samples, the size the header claims and the chunk a recorder appends;
`SubscriptionAuth` and `CopilotCredentials` number tokens in the order Codex makes them;
`ExternalImport` gives every change of a file or folder a stamp; `ModelCatalog` keeps a list as its
key and version. Threads answer when they like.

### Window

`Workspace` numbers transcripts and keeps the list a client lists for; the lane, the action
threads and the watcher hold the request gate across a request and the client's lock only before
and after it, as in the code. `SettingsEditor` has one control of each kind (a selection whose options a catalog
replaces, a trimmed text, a number, a toggle, a shortcut) and compares what the form shows with
`wanted`, the user's gestures.

### Meeting copilot

`CopilotCapture` is the controller with its sources and passes; `CopilotTranscript` starts where
samples have been cut: an utterance is a speaker and a number, overlaps one of the other side or
not, and may be its echo. `CopilotAnswers` decides which answer runs and is shown; `AnswerThread` is
one of them from the inside (two lanes, one gate, retries, the card); `CopilotRewrites` has its
versions. `CopilotNames` has voices, readings of the meeting window and the window's copy of the
names; `CopilotKnowledge` the loader thread and the fingerprint; `CopilotSession` the life of a
session in units of a minute's quiet; `CopilotWindow` the deferred calls to the native window and who has
the keyboard; `CopilotLaunch` the mutex, the event and the processes. Between window and engine
the modules have two queues, `up` and `down`, because each side acts on what it last heard.

### MCPlatform and MCServices

Sums of components that share no state: `part` says whose behaviours these are, every other
variable is a slot `s1`, `s2`, ... that the component's INSTANCE binds to its own variables, and
`Next` is the disjunction of `part = "..." /\ M!Next`. Nothing interacts in a sum; it lets one run
check many components, and its properties are conjunctions of `part = "..." => M!P`. To
check a component alone, or one property of it, write a configuration with its constants and
that property.

## 3. What is checked

Passing runs:

- `daemon` (`Daemon.cfg`): two interchangeable dictations (symmetry), any order of commands, the
  maintenance thread, two faults (a death or a refused operation). `AttemptIsRemembered`,
  `NoBlindRepaste`: a text that may have reached an application is never sent again unless the user
  presses Retry delivery. `RecordingIsKept`, `NothingVanishes`: audio is the only copy until the
  delivery and survives each combination of rename, delete, death and orphan scan.
  `DeliveredIsRecorded`, `RowOrSession`, `ErasedStaysErased`: each delivery is counted once, by the
  handler, by startup or by the maintenance thread, and deleted History does not come back.
  `MicIsOwned`: between commands an open microphone is that of the active recording, with one
  exception, which the code has: when the recording checkpoint is committed and the row cannot be read
  back (`runtime.rs:144`), the start returns an error without `abort_start`, and the daemon never sets
  `active_job` (`daemon.rs:197-210`). The recorder runs on, each later start fails at it, and no
  command ends it. What the property says of that state is that nothing else records and that
  the row stays at `recording`, so that the next startup offers its audio. `ImplementsContract`: the
  daemon refines `JobContract`.
- `daemon_liveness` (`DaemonLiveness.cfg`): one dictation, two faults, under `FairSpec`.
  `HandlersReturn`, `DeliveredIsCompleted`, `QuarantineIsResolved`, `InterruptedIsOffered`.
- `priority` (`MaintenancePriority.cfg`): three starts against the rebuild. Safety, that an
  interrupted rebuild is retried rather than taken as done (`InterruptionIsRetried`), that a start
  of recording is served (no lost wakeup) and that the index gets built in the end.
- `overlay` (`OverlaySupervisor.cfg`): three commands, three helpers. `ConfirmedExit` and
  `PastesQuietly` are about the gate; `LifecycleMatches`, `WindowsAreWanted` and `MissingIsReported`
  about helpers that crash, hang or are replaced; `SlowHelperIsKilled`, under fairness, that a
  helper which outlasts the grace period is killed.
- `hotkey` (`HotkeyDispatch.cfg`): five key events on one keyboard with Escape and a one-key hotkey,
  one request of another client, one trouble (a connection that fails, a listener that closes, a
  changed mode, an unplugged keyboard), in both modes.
- `progress` (`Progress.cfg`): what must come about in the end, under `FairSpec` of `MCProgress`,
  each as "again and again":
  - `RequestsAreAnswered`: `NoneRunsOn` (the limit ends a recording the hotkey started), `GateIsOpen`
    (`HotkeyDispatch`), `AtRest` (`NativeHotkey`: a reconfiguration is answered and the statuses
    arrive), `QuittersAreGone` (`DaemonEndpoint`, `WindowsEndpoint`), `LaunchesAreShown`
    (`CopilotLaunch`), `NoCardWaits` (`CopilotRewrites`), `NoneIsHeldUp` (`AnswerThread`),
    `EndIsReached` (`CopilotSession`).
  - `NewsArrives`: `EditsAreKnown` (`CopilotKnowledge`), `LinesAreSettled` (`CopilotTranscript`),
    `ReceiptsAreIn` (`ExternalImport`).
- `platform` (`Platform.cfg`):
  - `AudioIsGivenBack`: `RecorderIsOwned`, `OutputIsRestorable` (`LinuxRecorder`),
    `CaptureFollowsDaemon`, `PlaybackIsRestored` (`WindowsRecorder`), `CaptureIsWanted`,
    `SourcesFollowDevices` (`CopilotCapture`): no device stays open for nobody that these modules model; a volume
    that was lowered is restorable, and stays low only if Windows refused the restoration itself.
  - `ShortcutIsHeard` (`NativeHotkey`): `NoKeyboardIsMissed`, `StatusIsTrue`, `ShortcutIsAsAgreed`,
    `RecoveryIsArmed`.
  - `KeysGoWhereMeant`: `FocusIsStable`, `KeysAreReleased` (`LinuxDelivery`), `AimIsTarget` (`WindowsDelivery`),
    `KeysHaveAPlace`, `HostFollowsView`, `GivesBack` (`CopilotWindow`).
  - `ImplementsDelivery`: both deliverers refine `DeliveryContract`, also when the keyboard breaks in
    the middle of a chord or the keys of a partial one are not released.
- `services` (`Services.cfg`):
  - `DaemonIsInOrder`: `ServerIsReachable`, `QuitIsNoticed` (`DaemonEndpoint`),
    `PipeLeadsToTheDaemon`, `QuitWakesTheLoop`, `NextClientIsServed` (`WindowsEndpoint`),
    `ShortcutFollowsSettings`, `DaemonRunsSavedSettings` (`SettingsUpdate`), `DailyFollowsSessions`,
    `PricesFollowSettings` (`UsageLedger`), `ImportedOnce`, `NoneIsOverlooked` (`ExternalImport`),
    `NothingIsStranded`, `NeverSentTwice`, `OldStaysUncounted` (`JobStore`).
  - `UploadsAreItsOwn`: `LiveTextIsWhole`, `SessionsEnd` (`LiveTranscription`), `CredentialsAreItsOwn`
    (`SubscriptionAuth`), `LanesAskOnce`, `BearersAreUsable` (`CopilotCredentials`).
  - `EverythingIsKeptOnce`: `EchoWaitsForItsSource`, `EveryLineOnce` (`CopilotTranscript`),
    `WrittenByItsOwnRules`, `AliasesMatchOnce` (`Replacements`), `UsageIsOfOnePiece` (`UsageLedger`).
  - `PagesAreCurrent`: `ListAnswersQuery`, `ShowsTypedQuery` (`Workspace`), `ModelsAreTheAccounts`,
    `NoLateList` (`ModelCatalog`), `PageShowsTheRules` (`Replacements`), `IndexHoldsHistory`,
    `VocabularyIsCurrent`, `WalkIsComplete`, `SearchFindsTheWord` (`HistorySearch`), `EditsSurvive`,
    `NoHiddenChanges`, `SavesAsShown` (`SettingsEditor`).
  - `CopilotIsConsistent`: `NotesHoldWhatWasShown`, `NothingRunsUnattended`, `KeepsAsked`
    (`CopilotAnswers`), `CardSettles`, `ResearchContinuesTheDraft`, `NotesAreTheCard`, `DraftStands`
    (`AnswerThread`), `VersionsAreOneRewrite`, `RewritesEnd`, `KeptWasOffered` (`CopilotRewrites`),
    `LooksAreBounded`, `WindowShowsTheNames`, `Sticks` (`CopilotNames`), `ListenIsTrue`,
    `SettingsAgree`, `ForgottenSessionEnds`, `NotesBeforeExit` (`CopilotSession`),
    `KnowledgeIsCurrent`, `BestMatchIsGiven`, `ModelsAreTheProviders` (`CopilotKnowledge`),
    `OneCopilot`, `LaunchIsHeard`, `RunsIfItSaysSo` (`CopilotLaunch`).

Bounds. Two dictations are enough for what one can do to another: an active one beside one in
Recovery, a stale notice of an earlier one, a list the keeper took before the other was born; no
property relates three. Two faults reach a fault within the recovery from another (a death during the
startup that follows a death, a refused interrupt after a refused capture). `MaxStarts = 3`
lets a closure cloned for one attempt run late against the next, with a further start behind it.
Of the overlay, `MaxCommands = 3`, `MaxLaunches = 3` reach a dismissal behind an abandoned one with a
restarted helper. `MaxKeys = 5` is a tap followed by another press and Escape, with a bounce.
In the sums every component has two of what may be confused (recordings, sinks, devices,
windows, keys, receipts, documents, voices, answers, daemons) and as many troubles as it takes
to have one within the recovery from another, or one where there is no recovery: two readings
in flight and a third to be late (`MaxRefreshes = 3`), three daemons to hand an endpoint from
one to another with a third in between (`MaxProcesses = 3`), three copilots for one that ends
while two start (`MaxCopilots = 3`). `MaxSize`, `MaxWords` and `MaxLength` of 2 tell a part
from the whole; `PageSize = 1` makes every row a page; limits of the code (`MAX_VOICES`,
`MAX_EARLY_TRANSCRIPTS`, `PRIMER_CHARS`, `WeekLength`) are small so that they are reached.
The bounds of `Progress.cfg` are smaller, as
liveness needs the whole graph: one trouble of each kind, two edits of a folder with one document
and one meeting's notes, two utterances, two daemons and copilots, three keys.
Every bound is in a guard of the action it bounds. `CHECK_DEADLOCK FALSE` is set where a run out
of its bound rightly stops (overlay, hotkey, priority, and the sums); `DictationDaemon` is checked
for deadlock.

Fairness, and why the code has it. A handler that has begun runs on: HTTP has a connect and a total
timeout (`openai.rs:338-339`), the recorder and the overlay wait with deadlines, a paste is one
bounded command. The maintenance thread, the presenter and the monitors are threads the operating
system schedules, the dispatch loop and its action threads likewise. A daemon that is down is
started again by its login item or by the user. A killed process leaves; one that is only told to
need not. Nothing is assumed of users, keys, clients or faults.

`MCProgress` groups the threads of its eleven parts into six fair actions, each fair only as a
whole: loops, workers, other threads, windows and clocks weakly. Strong fairness is assumed of two
things others may keep from running. The pipe's loop wants the handler's mutex, which clients take
between its turns (`windows/ipc.rs`), and the system does not starve a thread at a mutex for ever;
and the end of a rewrite's stream competes with other news for the window's channel, whose length
is a bound of the model only. What has no deadline in the code is not assumed to answer: requests to
the HTTP providers end within their timeout, but a Claude Code process is read until it closes its
output (`providers.rs:573-608`). So a lane of an answer is fair only once it was cancelled, which
kills the process, and `NoneIsHeldUp` excuses an answer whose provider is silent; of a rewrite it is
assumed that its stream ends. The settings thread waits for the hotkey loop without a deadline
(`hotkey_dispatch.rs:103`): `AtRest` shows that it is answered whatever the listener does. The other
two sums state no fairness: what must happen eventually in their remaining components is stated as
what must be there meanwhile (an armed watcher, a wake for a loop that sleeps) and as what holds once
a component has come to rest.

Violations, each one a disagreement between the code and something the repository says of it:

- `daemon_resume`: `retry_delivery` puts an ambiguous row back into `ready_to_deliver` and
  `not_attempted` before the gate, which may block; the row then looks like one never pasted, which
  a comment in `runtime.rs` says resumption relies on.
- `daemon_press_again`: `delete_recovery` resets the workflow while another dictation records; the
  next press does not stop it.
- `overlay_paste`: a helper let go by a hidden update may still run when a later dismissal is
  answered at once, although `docs/WINDOWS.md` promises a confirmed exit before each paste.
- `hotkey_stop`: a maximum-duration thread checks the recording in one request and stops whichever is
  open in the next.

### Stated but not run

The modules state further properties that the code does not have. They are in no configuration;
to see one fail, put it alone into a configuration of its module. Each is an INVARIANT unless it
is written `[][...]_vars`.

| property | what the code says, and what it does |
|---|---|
| `Workspace.ListHasNoGap`, `AnswerIsKept` | "serialized so an older response cannot overwrite a newer local snapshot" (`workspace.rs:365-367`, `workspace_actions.rs:94-96`): Load more reads its cursor before it waits for its turn, and a refresh in between replaces list and cursor, so that the page is appended behind a gap; the projection another action took earlier brings an older query back when it completes |
| `SettingsUpdate.CommittedSaveIsAccepted` | "Do not report a failed save after it committed" (`process.rs:246-248`): the directory's sync fails after the rename |
| `UsageLedger.RepricingKeepsCosts` | repricing at unchanged prices drops the cleanup cost of a session whose transcript was not saved (`pricing.rs:79`) |
| `NativeHotkey.NoChangeIsLost` | "no change is lost between a failure and the wait" (`native_hotkey/listener.rs:48-49`): it is, between the failure and the watcher's creation |
| `NativeHotkey.ReopenedStaysOpen` | "every device open completed before this swap" (`native_hotkey/worker.rs:225`): the round goes on with what the poll said of the handles before the swap, by path, so that a keyboard that came back is opened for the new shortcut and closed again; nothing tells the listener of it (with `MaxPlugs = 4`) |
| `WindowsEndpoint.ClientsMayLeave`, `LockMeansThePipe` | a client that leaves before it is accepted fails every later `ConnectNamedPipe` of that instance; after Quit the lock is free while the old sessions keep the pipe |
| `SettingsEditor.CleanFormIsTheDaemons` | after a lost answer, discarding shows the settings from before a save the daemon made |
| `CopilotCapture.WorkingMicrophoneStays` | a fallback to the raw microphone is undone at every look at the devices (`win/audio.rs:304-311, 363-389, 558`) |
| `CopilotTranscript.LastWordsAreKept` | "drains audio and transcription" (`engine.rs:2310`): `in_flight` is zero before the last transcript is read |
| `CopilotAnswers.NeverOverTheUsersAnswer` | "never over an answer the user asked for" (`engine.rs:1508`): a draft made before it is revealed after it |
| `AnswerThread.StoppedIsDone`, `ShownIsKept` | the thread looks at the flag before it sends Failed; stopped while it waits for its draft it finishes with no text (`engine.rs:1705-1713`) |
| `CopilotRewrites.NotesUseTheVersionShown` | the user steps to another version after the rewrite was written and before its end reaches the engine, which then keeps the rewrite for the notes (`copilot.rs:374-385`) |
| `CopilotNames.NoReadingUnlessAllowed` | a capture under way when the setting is switched off is still read (`docs/COPILOT.md:203-207`) |
| `CopilotSession.ResumingKeepsTheSession`, `NoHiddenWrapUp` | quiet is counted over a pause, so that resuming may end the session (`engine.rs:1989-2015`); when the window was closed the wrap-up still waits for questions nobody can ask, until its timeout (`engine.rs:2351`, `mod.rs:371`) |
| `CopilotKnowledge.UnreadableIsTriedAgain`, `GoneIsForgotten`, `PastIsForgotten` | a file that was locked once stays unknown until it changes (`knowledge.rs:362-377`); a file that came after the fingerprint was taken, was read and is gone again stays known, for the folder looks as before (`engine.rs:716-735`; with `MaxEdits = 2`); earlier meetings stay known when a load under way ends after they were switched off |
| `CopilotWindow.KeyboardIsGivenBack`, `NameCanBeTyped`, `NoChoiceIsLost` | a meeting that ends while the user types forgets to whom the keyboard belongs (`copilot_view.rs:547-554`); a name's field does not ask for the keyboard again (2040-2065); settings start from the last echo (589-594) |
| `CopilotLaunch.LaunchAppears`, `NoneGivesWayToNobody` | "or brings the running one forward" (`mod.rs:81`): not while the session's end is gathered; a launcher's handle of an ended copilot's mutex makes the next one give way (`instance.rs:55-66`) |

Three error paths keep a property from being as strong as one would want it; it is run and proved with
the exception in its statement. A microphone whose start could not be read back is nobody's
(`runtime.rs:144`, `MicIsOwned`); a restoration that Windows refuses is not repeated, because the saved
original is forgotten (`ducking.rs:174-198`, `PlaybackIsRestored`); and a modifier of an incomplete
chord stays down when its release is refused (`windows/system.rs:556-566`, `DeliveryContract`).

Further observations met while modelling, without a property of their own: a thread that cannot be
spawned leaves what waits for it as it is (an answer's card, a rewrite, insights, a knowledge
load); a Claude Code that says nothing keeps its answer thinking until it is cancelled; a stream that ends without `response.completed` counts as complete; a whole-word rule
misses an occurrence that overlaps an earlier one inside a word (`replacements.rs:42-52`); an
editor opened before a rule was toggled turns the toggle back when it is saved; a keyboard
unplugged and back between a poll and the drain keeps a dead handle until the next event; an invalid saved hotkey
leaves no listener for the settings page to correct; a receipt that could not be read once is
overlooked until it changes; the search's fallback after an index failure goes on from a cursor of
the index; a setting changed in the copilot's window while its session finishes is dropped although
the window says that it is saved; restarting the audio un-pauses it; and after a refused
take-over of the keyboard the focus goes back to the application recorded then.

## 4. What is proved

For every value of the constants (any set of dictations, keyboards, windows, outputs and devices, any
number of faults, starts, commands and helpers). The assumptions are the ranges of the bounds
(`MaxFaultsAssumption`, `MaxStartsAssumption`, `BoundsAssumption`); in `Workflow` that `NoJob` is not a
dictation; in `HotkeyTracker` (`KeysAssumption`) that Escape and the hotkey's keys are keys and the
hotkey has at least one group of them (an empty one is refused, `hotkey.rs:303`); in `MCPlatform` that
"none" is no output, no device and no window, and "copilot" no other application's window
(`RecordersAssumption`, `CaptureAssumption`, `WindowsAssumption`), that the copilot's settings
are its two switches, that its two waits are not zero, and that a shortcut is a set of
keyboards and never the value that stands for no shortcut (`ShortcutsAssumption`); and in
`DaemonParts` that recordings, their audio and the daemons on Linux are counted
(`RecordingsAssumption`, `ProcessesAssumption`) and that "no job" is not a job
(`DictationsAssumption`).

- `DictationDaemonProofs`: `TypeCorrect`. `TypeOK` is not inductive: a workflow in a phase with a
  dictation must name one, which is `PhaseMatches`; `Typed` is both.
  The inductive invariant of the safety properties is `Typed`, then `Handling` (a handler runs only in
  a process that is up, its row is in the stage its step expects, a dictation not yet born has no
  row, and at the paste step of anything but Retry delivery the text was never sent), `Ledger` (what a
  delivered row, a session and an erased History entry exclude), `Recordings` (what the maintenance
  thread's list may hold while it acts on it) and `Microphone` (an open microphone is the active
  recording's or the running handler's, or is left by a start that could not be read back: then no
  recording is active and its row is at `recording`). Each part is preserved given the
  parts before it. From it: `PastesOnce`, `AttemptRemembered`, `RecordingKept`, `NoneVanishes`,
  `DeliveryRecorded`, `ErasedForGood`, `NeverBoth`, `MicOwned`.
  `Refinement`: most steps keep the life of every dictation
  (`LifeKept`) and change nothing the contract sees (`Quiet`); the others (`Loud`) are matched with
  `JobContract`'s actions one by one. The invariant supplies that a row is deleted only while open,
  or delivered with its session written.
- `MaintenancePriority`: `RecordingIsUndisturbed`, `PriorityBalances`, from `Discipline`: the
  interrupt handle is there exactly while an attempt is, and the count is exactly the guard's.
  `RetriedWhenInterrupted` needs in addition that the flag is set before SQLite is interrupted, by
  whichever closure, and that only the next attempt clears it.
- `OverlaySupervisorProofs`: `GateNeedsTheExit`, `NoWindowDuringPaste`, `LifecycleAlwaysMatches`,
  `RestartsAreBounded`, `MissingIsAlwaysReported`. The first is not inductive: that an Ok belongs to
  the newest request needs the numbering of the dismissals in the queue (`Dismissals`), what an exit
  notice says of its process (`Exits`), and that nothing but a kill follows a dismissal the caller
  waits for (`Behind`).

- `HotkeyDispatchProofs`: `HonestGate`, `ReleaseEnds`, `EscapeCancels`, `BouncesAreDropped`. The last
  three say what holds once nothing is under way, or when a stop is sent; the invariant (`Inductive`)
  says where the signal that will bring it about waits meanwhile. `OneAction` is the gate; `InOrder` says
  that channel, pending signal and action thread hold signals in the order of their keys; `Tracking`
  ties the tracker to the keys that are down. `Holding` says: while a recording of the hotkey is or
  may be opened and no key holds it, an end is queued behind every press; `Cancelling`: an
  Escape that has been seen is ahead of any stop; `Rearmed`: the gate knows the newest acknowledged
  start, or is about to be told.
- `PlatformProofs`, each part with an invariant of its own that its module states after its properties:
  - `DeliverersKeepTheContract`: the mapping is the identity, and `Chord` says at each step which keys
    are down and what was typed, on Linux at each position where an event may fail, on Windows also
    after a release that was refused.
  - `AudioComesBack`. `LinuxRecorder`: `Owning` ties each child to the owner's step, `Restorable` the
    lowered volume to the saved one (a lowered level is never saved as the original, and what a
    restoring fade works toward is never a lowered one). `WindowsRecorder`: `Commanding` counts the commands taken
    and sent, so that each command in the queue is known by its place, also when the caller gave up
    waiting (this is why a late answer cannot leave a stream open); `Reporting`: a job reports an error at
    most once, and only the one that is open; `Ducking`: unless a recording is on, the last command
    to the worker is none that lowers, and what the worker holds no original of is not low, but
    for what a refused restoration left (`"lost"`). `CopilotCapture`: `Telling` says that a controller not told to stop
    is the one its caller waits for or holds; `Looking` that the sources a pass went by capture
    their device or were opened less than `RestartAfter` ago, and that only the newest controller makes
    passes. `SourcesFollowDevices` speaks of the end of a pass, so that the invariant follows a pass source
    by source (`Passed`).
  - `ShortcutStaysHeard`. `Supervising`: a listener that runs is the newest one and active, and its close
    is told once, after it has gone. `Agreeing`: the shortcut a listener holds, the one it was asked for, its
    reply and the shortcut the daemon saved differ only while a request is on its way. `Reporting`:
    what the queue of statuses will end with is what the listener hears. `Hearing` is why no keyboard is
    missed: one that is present and not open is in the scan that is running, or a wake is
    pending, or was seen by the poll and is still to be acted on. The listener drains the wakes before it
    scans, and not after, so a keyboard that comes in between leaves its wake behind.
  - `KeysGoRight`. The deliverers' part is in the invariant above. For the copilot's window it is
    `Following`, about the calls that the view deferred and the native window has yet to carry out:
    a call to show, resize or exclude that is no longer what the view wants, and a native window that is
    not as the view wants it, is followed by a call that is (`Settles`); the calls that begin and end
    typing take turns, from what the window does now to what the view wants (`TakesTurns`); and while the
    user types, the keyboard is the copilot's or was refused it, or a notice that it is lost or a
    call that asks for it is on its way. It is stated for any view a handler may still be drawing up, so that each
    helper of the view (`StopTyping`, `BeginTyping`, `SetVisible`) has a lemma of its own and each handler is
    their composition.

- `MCServices`: `UploadsStayTheirOwn` and `DaemonStaysInOrder`, from lemmas about each part in
  `DaemonParts` and `UsageLedger`; each part has the invariant its module states.
  `LiveTranscription`: `Reading` says that a thread takes the end of the samples for known only once
  it was told to finish, which is after the recorder ended (`Ended`), and that the size in the header
  is by then none or that of the samples, so the chunk a recorder appends is never in a text; and that
  a thread neither dropped nor told to finish is that of the newest recording. `SubscriptionAuth`:
  `Earmarked`, credentials at hand for a recording, whoever prepared or asked for them, are no
  older than its beginning. `CopilotCredentials`: `Dated`, no token is newer than Codex's newest, so
  that a forced refresh differs from every token that was refused.
  - `DaemonEndpoint`: `Owned`, whoever is past the lock holds it, from the probe to the unlinking; this is
    why a socket that is removed is never that of a daemon that serves. `WindowsEndpoint`: `InPlace`, the
    pipe is of who has the lock and at most one caller waits at its instance, and a loop
    that was told to quit and waits has an instance taken, or a handler yet to wake it.
  - `SettingsUpdate`: `Settled` says at each step of a command what the listener was asked for and what the
    file and the memory hold: they differ only after a save and before its application.
  - `UsageLedger`: `Accounted`, the daily figures are those of the sessions, and a session's costs are
    of the settings saved, unless a repricing is under way, failed or was overtaken. That who reprices
    has read every session there is, is part of it (`HasRead`). A day is
    computed anew over a finite set of sessions, so that a day none of whose sessions changed
    keeps its figures (`SameFigures`); no sum is computed.
  - `ExternalImport`: `Kept`, the importer knows every folder or one is newer than its last look, and a
    completed receipt that is not in the ledger changed since it was last observed.
  - `JobStore`: `Opened` says of each statement of an opening what it has put in order in every row
    (`Reconciled`), whatever the version and the crashes before it, that a row's stage, state and delivery
    status fit (`Coherent`), and that a text that was given away is in a stage that leads to no second
    delivery (`GivenAway`). One row is excepted, that of the job the daemon works on.

Every property of the run `platform` is proved, and so is every safety property of the runs `daemon`,
`priority`, `overlay` and `hotkey`. Only model-checked: liveness (under fairness, out of the prover's
reach), and of the run `services` the pages, the copilot and `EverythingIsKeptOnce`: the sums of
`UsageIsOfOnePiece` over parts of a set, and the texts of `AliasesMatchOnce` and the lines of
`EveryLineOnce` need induction over data.

## 5. What is not modelled

- Formats and wire protocols: IPC framing and the protocol version, the app-server's and the
  providers' messages, prompts, the notes file, the parsing of key names and of tool output.
- Signal processing: resampling, voice detection (`vad.rs`), voice prints (`voices.rs`). What they
  decide is a choice in `CopilotTranscript` and `CopilotNames`.
- Rendering, layout and themes; the tray's menus and icons, autostart entries, installers and the
  Windows registry; hotkeys and tray of the copilot, which only send the messages its window sends.
- Insights of the copilot, its self-check (`check.rs`, a command-line report), the replay of
  recordings (`win/replay.rs`, a development tool) and the meetings page, which reads notes.
- Read-only queries of the daemon other than usage and search, and the validation of single
  settings. On Windows, the keyboard hook's own thread.
- The clock going backwards: times are orders of events throughout.
- `vendor/` is third-party code; `scripts/`, `packaging/` and tests are read, not modelled.

What couples components that are modelled apart is stated on both sides: `DictationDaemon`
takes a paste to be what `DeliveryContract` promises and a microphone to be what `RecorderIsOwned`
and `CaptureFollowsDaemon` say; these two take the daemon to end each recording it was told has
started, which `DictationDaemon` shows but for the start that could not be read back;
`HotkeyDispatch` takes the daemon's handlers to be atomic, which is the one mutex of the endpoint modules; `AnswerThread` leaves to `CopilotAnswers` when an answer is
shown or stopped. They are not composed in one state space, which TLC could not finish.

## 6. Plan

In this order:

1. Proofs about the copilot's parts of the run `services`, beginning with `EchoWaitsForItsSource`.
   What is computed by recursion over texts or as a sum is out of the prover's reach.
2. `NothingRunsUnattended` and `NotesHoldWhatWasShown` of `CopilotAnswers`; `OneCopilot`.
