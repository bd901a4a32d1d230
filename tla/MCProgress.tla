----------------------------- MODULE MCProgress -----------------------------
(***************************************************************************)
(* What must come about in the end: the parts that wait for each other's   *)
(* threads, in one run, under the fairness their scheduling justifies.     *)
(* part says whose behaviours these are, and each keeps its variables in   *)
(* the slots s1, s2, ...                                                   *)
(***************************************************************************)
EXTENDS Naturals

CONSTANTS MaxKeys, MaxOthers, MaxTroubles,          \* the hotkey
          Devices, Shortcuts, MaxPlugs, MaxFailures, MaxRequests,
          MaxProcesses, MaxClients, Clients,        \* the daemon's endpoints
          Receipts, MaxWrites, MaxErrors,           \* the import
          MaxAnswers, MaxRewrites, MaxCards, MaxUp, MaxDown,  \* the copilot
          Launchers, MaxCopilots, MaxLaunches, MaxWords, MaxTries,
          OverQuiet, IdleEnd, MaxToggles,
          Documents, Providers, MaxLength, PrimerBudget, ExcerptBudget, MaxEdits,
          MaxSwitches, MaxLocked,
          MaxUtterances, MaxSize, MaxPauses, MaxEarly, MaxSending, MaxInbox

VARIABLES
  part,   \* the part that runs
  s1, s2, s3, s4, s5, s6, s7, s8, s9, s10, s11, s12, s13, s14, s15, s16, s17,
  s18, s19, s20

vars == <<part, s1, s2, s3, s4, s5, s6, s7, s8, s9, s10, s11, s12, s13, s14,
          s15, s16, s17, s18, s19, s20>>

Above9 == <<part, s10, s11, s12, s13, s14, s15, s16, s17, s18, s19, s20>>
Above10 == <<part, s11, s12, s13, s14, s15, s16, s17, s18, s19, s20>>
Above12 == <<part, s13, s14, s15, s16, s17, s18, s19, s20>>
Above13 == <<part, s14, s15, s16, s17, s18, s19, s20>>
Above16 == <<part, s17, s18, s19, s20>>
Above20 == <<part>>

Dispatch == INSTANCE HotkeyDispatch WITH
  Keys <- {"space", "esc"}, Escape <- "esc", Groups <- {{"space"}},
  Devices <- {"d1"}, held <- s1, tracker <- s2, listening <- s3, channel <- s4,
  mode <- s5, gate <- s6, workers <- s7, stoppers <- s8, recording <- s9,
  started <- s10, arms <- s11, passed <- s12, keysSeen <- s13, others <- s14,
  troubles <- s15, byHotkey <- s16, armOf <- s17, doomed <- s18, ended <- s19,
  disturbed <- s20
Listen == INSTANCE NativeHotkey WITH
  Keyboards <- Devices, os <- s1, node <- s2, directory <- s3, notified <- s4,
  listener <- s5, loop <- s6, channel <- s7, spec <- s8, active <- s9,
  gen <- s10, watch <- s11, request <- s12, published <- s13, shown <- s14,
  history <- s15, counts <- s16
Socket == INSTANCE DaemonEndpoint WITH
  proc <- s1, service <- s2, lock <- s3, socket <- s4, backlog <- s5,
  quit <- s6, boot <- s7, clients <- s8, failed <- s9
Pipe == INSTANCE WindowsEndpoint WITH
  proc <- s1, lock <- s2, pending <- s3, handler <- s4, quit <- s5,
  client <- s6, boot <- s7, left <- s8, troubles <- s9
Rewrites == INSTANCE CopilotRewrites WITH
  cards <- s1, answers <- s2, active <- s3, rewrites <- s4, current <- s5,
  kept <- s6, ending <- s7, dropped <- s8, up <- s9, down <- s10
Opening == INSTANCE CopilotLaunch WITH
  app <- s1, inbox <- s2, mutex <- s3, event <- s4, signalled <- s5,
  launcher <- s6, asked <- s7, orphan <- s8, launches <- s9
Streams == INSTANCE AnswerThread WITH
  thread <- s1, lane <- s2, said <- s3, told <- s4, late <- s5, cancel <- s6,
  engine <- s7, gate <- s8, held <- s9, card <- s10, result <- s11,
  notes <- s12
Session == INSTANCE CopilotSession WITH
  MaxDown <- MaxDown + 1, MaxChanges <- MaxSwitches, phase <- s1,
  settings <- s2, audio <- s3, paused <- s4, clock <- s5, call <- s6,
  notes <- s7, lines <- s8, window <- s9, up <- s10, down <- s11,
  gestures <- s12
Known == INSTANCE CopilotKnowledge WITH
  folder <- s1, settings <- s2, knowledge <- s3, print <- s4, loading <- s5,
  loader <- s6, waited <- s7, loads <- s8, view <- s9, down <- s10,
  edits <- s11, switches <- s12, locked <- s13
Meeting == INSTANCE CopilotTranscript WITH
  them <- s1, mine <- s2, inbox <- s3, jobs <- s4, sending <- s5, early <- s6,
  spans <- s7, waiting <- s8, speaking <- s9, phase <- s10, paused <- s11,
  fate <- s12
Import == INSTANCE ExternalImport WITH
  MaxStarts <- MaxProcesses, file <- s1, folders <- s2, importer <- s3,
  ledger <- s4, sessions <- s5, inserted <- s6, missed <- s7, starts <- s8,
  errors <- s9

Init ==
  \/ part = "hotkey" /\ Dispatch!Init
  \/ part = "listener" /\ Listen!Init
     /\ s17 = 0 /\ s18 = 0 /\ s19 = 0 /\ s20 = 0
  \/ part = "endpoint" /\ Socket!Init
     /\ s10 = 0 /\ s11 = 0 /\ s12 = 0 /\ s13 = 0 /\ s14 = 0 /\ s15 = 0 /\
        s16 = 0 /\ s17 = 0 /\ s18 = 0 /\ s19 = 0 /\ s20 = 0
  \/ part = "pipe" /\ Pipe!Init
     /\ s10 = 0 /\ s11 = 0 /\ s12 = 0 /\ s13 = 0 /\ s14 = 0 /\ s15 = 0 /\
        s16 = 0 /\ s17 = 0 /\ s18 = 0 /\ s19 = 0 /\ s20 = 0
  \/ part = "rewrites" /\ Rewrites!Init
     /\ s11 = 0 /\ s12 = 0 /\ s13 = 0 /\ s14 = 0 /\ s15 = 0 /\ s16 = 0 /\
        s17 = 0 /\ s18 = 0 /\ s19 = 0 /\ s20 = 0
  \/ part = "launch" /\ Opening!Init
     /\ s10 = 0 /\ s11 = 0 /\ s12 = 0 /\ s13 = 0 /\ s14 = 0 /\ s15 = 0 /\
        s16 = 0 /\ s17 = 0 /\ s18 = 0 /\ s19 = 0 /\ s20 = 0
  \/ part = "answer thread" /\ Streams!Init
     /\ s13 = 0 /\ s14 = 0 /\ s15 = 0 /\ s16 = 0 /\ s17 = 0 /\ s18 = 0 /\
        s19 = 0 /\ s20 = 0
  \/ part = "session" /\ Session!Init
     /\ s13 = 0 /\ s14 = 0 /\ s15 = 0 /\ s16 = 0 /\ s17 = 0 /\ s18 = 0 /\
        s19 = 0 /\ s20 = 0
  \/ part = "knowledge" /\ Known!Init
     /\ s14 = 0 /\ s15 = 0 /\ s16 = 0 /\ s17 = 0 /\ s18 = 0 /\ s19 = 0 /\
        s20 = 0
  \/ part = "transcript" /\ Meeting!Init
     /\ s13 = 0 /\ s14 = 0 /\ s15 = 0 /\ s16 = 0 /\ s17 = 0 /\ s18 = 0 /\
        s19 = 0 /\ s20 = 0
  \/ part = "import" /\ Import!Init
     /\ s10 = 0 /\ s11 = 0 /\ s12 = 0 /\ s13 = 0 /\ s14 = 0 /\ s15 = 0 /\
        s16 = 0 /\ s17 = 0 /\ s18 = 0 /\ s19 = 0 /\ s20 = 0

Next ==
  \/ part = "hotkey" /\ Dispatch!Next /\ UNCHANGED Above20
  \/ part = "listener" /\ Listen!Next /\ UNCHANGED Above16
  \/ part = "endpoint" /\ Socket!Next /\ UNCHANGED Above9
  \/ part = "pipe" /\ Pipe!Next /\ UNCHANGED Above9
  \/ part = "rewrites" /\ Rewrites!Next /\ UNCHANGED Above10
  \/ part = "launch" /\ Opening!Next /\ UNCHANGED Above9
  \/ part = "answer thread" /\ Streams!Next /\ UNCHANGED Above12
  \/ part = "session" /\ Session!Next /\ UNCHANGED Above12
  \/ part = "knowledge" /\ Known!Next /\ UNCHANGED Above13
  \/ part = "transcript" /\ Meeting!Next /\ UNCHANGED Above12
  \/ part = "import" /\ Import!Next /\ UNCHANGED Above9

Spec == Init /\ [][Next]_vars

-----------------------------------------------------------------------------
(* Fairness.                                                               *)

\* The loops: of the hotkey dispatch, the daemon, the importer and the engine; a
\* line waits for the other side at most so long, a wrap-up ends by itself.
Loops ==
  \/ /\ part = "hotkey" /\ UNCHANGED Above20
     /\ Dispatch!Dispatch
  \/ /\ part = "listener" /\ UNCHANGED Above16
     /\ (Listen!InstallWatch \/ Listen!Scan \/ Listen!Started \/ Listen!Arm \/ Listen!TakeEvent
        \/ Listen!Reply \/ (s6 = "starting" /\ \E k \in Devices : Listen!OpenKeyboard(k)))
  \/ /\ part = "endpoint" /\ UNCHANGED Above9
     /\ (\E p \in Socket!Processes :
        /\ s6[p]
        /\ Socket!LookAtQuit(p) \/ Socket!Accept(p) \/ Socket!Unlink(p) \/ Socket!Exit(p))
  \/ /\ part = "rewrites" /\ UNCHANGED Above10
     /\ (\E starts \in BOOLEAN : Rewrites!Handle(starts))
  \/ /\ part = "launch" /\ UNCHANGED Above9
     /\ (\E p \in Opening!Copilots : Opening!Opens(p) \/ Opening!ShowRequested(p))
  \/ /\ part = "answer thread" /\ UNCHANGED Above12
     /\ (Streams!Cancelled \/ Streams!Dropped \/ Streams!AnswerFinished)
  \/ /\ part = "session" /\ UNCHANGED Above12
     /\ (Session!StopAudio \/ Session!Drained \/ Session!WrapUp
        \/ Session!WrapUpTimesOut \/ \E writes \in BOOLEAN : Session!WriteNotes(writes))
  \/ /\ part = "knowledge" /\ UNCHANGED Above13
     /\ Known!CheckKnowledge
  \/ /\ part = "transcript" /\ UNCHANGED Above12
     /\ (Meeting!Handle \/ Meeting!Drain \/ \E m \in s8 : Meeting!WaitIsOver(m))
  \/ /\ part = "import" /\ UNCHANGED Above9
     /\ (Import!StatFolders \/ Import!ListFolders \/ Import!ReadIncomplete
        \/ Import!ReadFails \/ Import!Observe \/ Import!Import \/ Import!ImportFails
        \/ Import!ScanEnds \/ \E r \in Receipts : Import!StatReceipt(r))

\* The threads that work for them.  Of the instant draft only what does not wait for
\* its provider: a Claude Code that says nothing is waited for until it is cancelled.
Workers ==
  \/ /\ part = "hotkey" /\ UNCHANGED Above20
     /\ (\E w \in s7 : Dispatch!Work(w))
  \/ /\ part = "listener" /\ UNCHANGED Above16
     /\ (Listen!Worker \/ (s6 # "starting" /\ \E k \in Devices : Listen!OpenKeyboard(k)))
  \/ /\ part = "pipe" /\ UNCHANGED Above9
     /\ (\E p \in Pipe!Processes : Pipe!Answered(p) \/ Pipe!Wake(p))
  \/ /\ part = "launch" /\ UNCHANGED Above9
     /\ (\E p \in Opening!Copilots : Opening!Watch(p))
  \/ /\ part = "answer thread" /\ UNCHANGED Above12
     /\ ((s6 /\ (Streams!LookAtFlag("instant") \/ Streams!Respond("instant")
                \/ Streams!Read("instant")))
        \/ Streams!Keep("instant") \/ Streams!SendPiece("instant")
        \/ Streams!DraftEnds \/ Streams!DraftDone)
  \/ /\ part = "knowledge" /\ UNCHANGED Above13
     /\ (Known!TakeFingerprint \/ Known!ListFiles \/ Known!ListNotes
        \/ Known!KnowledgeLoaded \/ \E readable \in BOOLEAN : Known!ReadFile(readable))
  \/ /\ part = "transcript" /\ UNCHANGED Above12
     /\ (\E job \in s4 : Meeting!Transcribe(job, "text") \/ Meeting!Transcribe(job, "useless"))

\* The maximum-duration threads, the recovery watcher, the answer's thread with the
\* same reserve, and the transcription workers' answers.
Others ==
  \/ /\ part = "hotkey" /\ UNCHANGED Above20
     /\ (\E s \in s8 : Dispatch!StopperWakes(s) \/ Dispatch!StopperSends(s))
  \/ /\ part = "listener" /\ UNCHANGED Above16
     /\ Listen!Recover
  \/ /\ part = "answer thread" /\ UNCHANGED Above12
     /\ ((s6 /\ (Streams!LookAtFlag("research") \/ Streams!Respond("research")
                \/ Streams!Read("research")))
        \/ Streams!Keep("research") \/ Streams!SendPiece("research")
        \/ Streams!Begin \/ Streams!Wait \/ Streams!Close \/ Streams!SendStatus \/ Streams!Finish)
  \/ /\ part = "transcript" /\ UNCHANGED Above12
     /\ (\E job \in s5 : Meeting!Reply(job))

\* The window takes its events, the status thread the listener's.
Windows ==
  \/ /\ part = "listener" /\ UNCHANGED Above16
     /\ Listen!Publish
  \/ /\ part = "rewrites" /\ UNCHANGED Above10
     /\ Rewrites!Apply
  \/ /\ part = "session" /\ UNCHANGED Above12
     /\ Session!Apply
  \/ /\ part = "knowledge" /\ UNCHANGED Above13
     /\ Known!Apply

\* Time passes, and the settings thread goes on when it has its answer.
Clocks ==
  \/ /\ part = "listener" /\ UNCHANGED Above16
     /\ Listen!Learn
  \/ /\ part = "answer thread" /\ UNCHANGED Above12
     /\ Streams!TimeIsUp
  \/ /\ part = "knowledge" /\ UNCHANGED Above13
     /\ Known!IntervalPasses

\* What others may keep from running, but not for ever: the loop that wants the mutex
\* of the handler between the commands of clients, and a stream that ends whatever
\* fills the window's channel (its length is bounded here, not in the code).
Contended ==
  \/ /\ part = "pipe" /\ UNCHANGED Above9
     /\ (\E p \in Pipe!Processes :
        /\ s5[p]
        /\ Pipe!LookAtQuit(p) \/ Pipe!ConnectNamedPipe(p) \/ Pipe!Accept(p) \/ Pipe!Exit(p))
  \/ /\ part = "rewrites" /\ UNCHANGED Above10
     /\ (\E n \in DOMAIN s4 : Rewrites!Rewritten(n)
        \/ \E fails \in BOOLEAN : Rewrites!RewriteFinished(n, fails))

Fairness ==
  /\ WF_vars(Loops)
  /\ WF_vars(Workers)
  /\ WF_vars(Others)
  /\ WF_vars(Windows)
  /\ WF_vars(Clocks)
  /\ SF_vars(Contended)

FairSpec == Spec /\ Fairness

-----------------------------------------------------------------------------
(* Properties: those of the parts, each while its part runs.               *)

\* Who asked for something gets an answer. The hotkey is free again and no recording
\* of it runs on: GateIsOpen and NoneRunsOn (hotkey_dispatch.rs); the settings thread,
\* which holds the daemon while it waits for a new shortcut without a deadline, is
\* answered, and the listener and its statuses come to rest: AtRest (native_hotkey/);
\* a daemon that was told to quit is gone: QuittersAreGone (startup.rs, windows/ipc.rs);
\* a launch shows the copilot: LaunchesAreShown (instance.rs); no card waits for its
\* rewrite, and no answer for a silent provider: NoCardWaits and NoneIsHeldUp
\* (engine.rs); and a session that ends is over: EndIsReached.
RequestsAreAnswered ==
  []<>(/\ part = "hotkey" => Dispatch!NoneRunsOn /\ Dispatch!GateIsOpen
       /\ part = "listener" => Listen!AtRest
       /\ part = "endpoint" => Socket!QuittersAreGone
       /\ part = "pipe" => Pipe!QuittersAreGone
       /\ part = "launch" => Opening!LaunchesAreShown
       /\ part = "rewrites" => Rewrites!NoCardWaits
       /\ part = "answer thread" => Streams!NoneIsHeldUp
       /\ part = "session" => Session!EndIsReached)

\* What happens elsewhere arrives: an edit of the user's files in what the copilot
\* knows (EditsAreKnown, knowledge.rs), an utterance at its one end (LinesAreSettled,
\* engine.rs), and a receipt of another program in the ledger (ReceiptsAreIn,
\* chatgpt_dictation_import.rs).
NewsArrives ==
  []<>(/\ part = "knowledge" => Known!EditsAreKnown
       /\ part = "transcript" => Meeting!LinesAreSettled
       /\ part = "import" => Import!ReceiptsAreIn)
=============================================================================
