----------------------------- MODULE MCServices -----------------------------
(***************************************************************************)
(* The components around the dictation daemon that share no state, in one  *)
(* run: part says whose behaviours these are, and each keeps its variables *)
(* in the slots s1, s2, ... Those of the daemon are in DaemonParts, with   *)
(* what they keep, from which the theorems at the end follow.              *)
(***************************************************************************)
EXTENDS Naturals, DaemonParts

CONSTANTS FirstRows, MaxRows, MaxGestures, Keys, MaxRefreshes, MaxVersions,
          MaxUtterances, MaxSize, MaxPauses, MaxEarly, MaxSending, MaxInbox,
          MaxTurns, MaxAnswers, MaxRewrites, MaxCards, MaxVoices, MaxLooks,
          MaxReadings, MaxMisses, MaxSpeech, MaxUp, MaxDown, OverQuiet,
          IdleEnd, MaxChanges, MaxToggles, Documents, Providers, MaxLength,
          PrimerBudget, ExcerptBudget, MaxEdits, MaxSwitches, MaxLocked,
          MaxRules, MaxActions, ShortWord, Rare, PageSize, MaxSaid, MaxAges,
          Offered, MaxLimit, MaxWords, MaxTries, Launchers, MaxCopilots,
          MaxLaunches

VARIABLES
  part,   \* the part that runs
  s12, s13, s14, s15, s16

vars == <<part, s1, s2, s3, s4, s5, s6, s7, s8, s9, s10, s11, s12, s13, s14, s15, s16>>

\* Two people: one who is called by a part of the name the window shows.
CallNames ==
  [heard |-> {<<"sam">>, <<"eve">>}, seen |-> {<<"sam", "lee">>, <<"eve">>}, typed |-> {<<"eve">>}]

\* Rules that feed each other, an alias that is part of another one's, and what
\* is heard of them between quotes and outside.
WordDrafts ==
  {[source |-> <<"a">>, output |-> <<"a", "_", "b">>, whole |-> TRUE],
   [source |-> <<"b", "_", "a">>, output |-> <<"a">>, whole |-> FALSE],
   [source |-> <<>>, output |-> <<"a">>, whole |-> TRUE]}
WordsHeard == {<<"a", "_", "b", "_", "a">>, <<"q", "a", "q", "_", "a", "b">>}
WordTerms ==
  <<[spelling |-> <<"c">>, aliases |-> {<<"a">>}],
    [spelling |-> <<"a">>, aliases |-> {<<"a", "_", "b">>}]>>

\* A word and one that has it inside; the word, the same with two letters
\* swapped, and the start of it.
SaidWords == {<<"a", "b", "c">>, <<"d", "a", "b", "c">>}
TypedWords == {<<>>, <<"a", "b", "c">>, <<"a", "c", "b">>, <<"a", "b">>}

Pages == INSTANCE Workspace WITH
  rows <- s1, client <- s2, thread <- s3, gate <- s4, changed <- s5,
  lane <- s6, ui <- s7, updates <- s8, asked <- s9, gestures <- s10
Models == INSTANCE ModelCatalog WITH
  service <- s1, key <- s2, catalog <- s3, file <- s4, threads <- s5,
  late <- s6, refreshes <- s7, starts <- s8
Meeting == INSTANCE CopilotTranscript WITH
  them <- s1, mine <- s2, inbox <- s3, jobs <- s4, sending <- s5, early <- s6,
  spans <- s7, waiting <- s8, speaking <- s9, phase <- s10, paused <- s11,
  fate <- s12
Answers == INSTANCE CopilotAnswers WITH
  turn <- s1, heard <- s2, judging <- s3, active <- s4, gate <- s5,
  asked <- s6, stopped <- s7, running <- s8, mail <- s9, discarded <- s10,
  notes <- s11, window <- s12, answered <- s13, speaking <- s14,
  listening <- s15, ending <- s16
Rewrites == INSTANCE CopilotRewrites WITH
  cards <- s1, answers <- s2, active <- s3, rewrites <- s4, current <- s5,
  kept <- s6, ending <- s7, dropped <- s8, up <- s9, down <- s10
Who == INSTANCE CopilotNames WITH
  Names <- CallNames, roster <- s1, heard <- s2, speech <- s3, spans <- s4,
  looks <- s5, allowed <- s6, capture <- s7, reading <- s8, window <- s9,
  up <- s10, down <- s11, said <- s12
Session == INSTANCE CopilotSession WITH
  MaxDown <- MaxDown + 1, phase <- s1, settings <- s2, audio <- s3,
  paused <- s4, clock <- s5, call <- s6, notes <- s7, lines <- s8,
  window <- s9, up <- s10, down <- s11, gestures <- s12
Known == INSTANCE CopilotKnowledge WITH
  folder <- s1, settings <- s2, knowledge <- s3, print <- s4, loading <- s5,
  loader <- s6, waited <- s7, loads <- s8, view <- s9, down <- s10,
  edits <- s11, switches <- s12, locked <- s13
Rules == INSTANCE Replacements WITH
  Drafts <- WordDrafts, Spoken <- WordsHeard, Vocabulary <- WordTerms,
  table <- s1, nextId <- s2, shown <- s3, editor <- s4, pending <- s5,
  flight <- s6, sent <- s7, terms <- s8, job <- s9
Finder == INSTANCE HistorySearch WITH
  Words <- SaidWords, Queries <- TypedWords, Short <- ShortWord,
  MaxTroubles <- MaxRefused, MaxRows <- MaxSaid, rows <- s1, index <- s2,
  ready <- s3, broken <- s4, version <- s5, cache <- s6, page <- s7,
  list <- s8, used <- s9, troubles <- s10, stays <- s11, fellBack <- s12
Form == INSTANCE SettingsEditor WITH
  MaxCatalogs <- MaxChanges, MaxTroubles <- MaxRefused, daemon <- s1,
  baseline <- s2, draft <- s3, controls <- s4, options <- s5, catalogs <- s6,
  dirty <- s7, capture <- s8, page <- s9, feedback <- s10, key <- s11,
  wanted <- s12, stale <- s13, unsure <- s14, counts <- s15
Streams == INSTANCE AnswerThread WITH
  thread <- s1, lane <- s2, said <- s3, told <- s4, late <- s5, cancel <- s6,
  engine <- s7, gate <- s8, held <- s9, card <- s10, result <- s11,
  notes <- s12
Opening == INSTANCE CopilotLaunch WITH
  app <- s1, inbox <- s2, mutex <- s3, event <- s4, signalled <- s5,
  launcher <- s6, asked <- s7, orphan <- s8, launches <- s9

Init ==
  \/ part = "workspace" /\ Pages!Init
     /\ s11 = 0 /\ s12 = 0 /\ s13 = 0 /\ s14 = 0 /\ s15 = 0 /\ s16 = 0
  \/ part = "settings" /\ Settings!Init
     /\ s12 = 0 /\ s13 = 0 /\ s14 = 0 /\ s15 = 0 /\ s16 = 0
  \/ part = "live" /\ Live!Init
     /\ s8 = 0 /\ s9 = 0 /\ s10 = 0 /\ s11 = 0 /\ s12 = 0 /\ s13 = 0 /\
        s14 = 0 /\ s15 = 0 /\ s16 = 0
  \/ part = "auth" /\ Auth!Init
     /\ s9 = 0 /\ s10 = 0 /\ s11 = 0 /\ s12 = 0 /\ s13 = 0 /\ s14 = 0 /\
        s15 = 0 /\ s16 = 0
  \/ part = "bearers" /\ Bearer!Init
     /\ s8 = 0 /\ s9 = 0 /\ s10 = 0 /\ s11 = 0 /\ s12 = 0 /\ s13 = 0 /\
        s14 = 0 /\ s15 = 0 /\ s16 = 0
  \/ part = "import" /\ Import!Init
     /\ s10 = 0 /\ s11 = 0 /\ s12 = 0 /\ s13 = 0 /\ s14 = 0 /\ s15 = 0 /\
        s16 = 0
  \/ part = "models" /\ Models!Init
     /\ s9 = 0 /\ s10 = 0 /\ s11 = 0 /\ s12 = 0 /\ s13 = 0 /\ s14 = 0 /\
        s15 = 0 /\ s16 = 0
  \/ part = "endpoint" /\ Endpoint!Init
     /\ s10 = 0 /\ s11 = 0 /\ s12 = 0 /\ s13 = 0 /\ s14 = 0 /\ s15 = 0 /\
        s16 = 0
  \/ part = "transcript" /\ Meeting!Init
     /\ s13 = 0 /\ s14 = 0 /\ s15 = 0 /\ s16 = 0
  \/ part = "answers" /\ Answers!Init
  \/ part = "rewrites" /\ Rewrites!Init
     /\ s11 = 0 /\ s12 = 0 /\ s13 = 0 /\ s14 = 0 /\ s15 = 0 /\ s16 = 0
  \/ part = "names" /\ Who!Init
     /\ s13 = 0 /\ s14 = 0 /\ s15 = 0 /\ s16 = 0
  \/ part = "session" /\ Session!Init
     /\ s13 = 0 /\ s14 = 0 /\ s15 = 0 /\ s16 = 0
  \/ part = "knowledge" /\ Known!Init
     /\ s14 = 0 /\ s15 = 0 /\ s16 = 0
  \/ part = "store" /\ Store!Init
     /\ s10 = 0 /\ s11 = 0 /\ s12 = 0 /\ s13 = 0 /\ s14 = 0 /\ s15 = 0 /\
        s16 = 0
  \/ part = "words" /\ Rules!Init
     /\ s10 = 0 /\ s11 = 0 /\ s12 = 0 /\ s13 = 0 /\ s14 = 0 /\ s15 = 0 /\
        s16 = 0
  \/ part = "usage" /\ Usage!Init
     /\ s12 = 0 /\ s13 = 0 /\ s14 = 0 /\ s15 = 0 /\ s16 = 0
  \/ part = "search" /\ Finder!Init
     /\ s13 = 0 /\ s14 = 0 /\ s15 = 0 /\ s16 = 0
  \/ part = "editor" /\ Form!Init
     /\ s16 = 0
  \/ part = "pipe" /\ Pipe!Init
     /\ s10 = 0 /\ s11 = 0 /\ s12 = 0 /\ s13 = 0 /\ s14 = 0 /\ s15 = 0 /\
        s16 = 0
  \/ part = "answer thread" /\ Streams!Init
     /\ s13 = 0 /\ s14 = 0 /\ s15 = 0 /\ s16 = 0
  \/ part = "launch" /\ Opening!Init
     /\ s10 = 0 /\ s11 = 0 /\ s12 = 0 /\ s13 = 0 /\ s14 = 0 /\ s15 = 0 /\
        s16 = 0

Next ==
  \/ part = "workspace" /\ Pages!Next
     /\ UNCHANGED <<part, s11, s12, s13, s14, s15, s16>>
  \/ part = "settings" /\ Settings!Next
     /\ UNCHANGED <<part, s12, s13, s14, s15, s16>>
  \/ part = "live" /\ Live!Next
     /\ UNCHANGED <<part, s8, s9, s10, s11, s12, s13, s14, s15, s16>>
  \/ part = "auth" /\ Auth!Next
     /\ UNCHANGED <<part, s9, s10, s11, s12, s13, s14, s15, s16>>
  \/ part = "bearers" /\ Bearer!Next
     /\ UNCHANGED <<part, s8, s9, s10, s11, s12, s13, s14, s15, s16>>
  \/ part = "import" /\ Import!Next
     /\ UNCHANGED <<part, s10, s11, s12, s13, s14, s15, s16>>
  \/ part = "models" /\ Models!Next
     /\ UNCHANGED <<part, s9, s10, s11, s12, s13, s14, s15, s16>>
  \/ part = "endpoint" /\ Endpoint!Next
     /\ UNCHANGED <<part, s10, s11, s12, s13, s14, s15, s16>>
  \/ part = "transcript" /\ Meeting!Next
     /\ UNCHANGED <<part, s13, s14, s15, s16>>
  \/ part = "answers" /\ Answers!Next
     /\ UNCHANGED <<part>>
  \/ part = "rewrites" /\ Rewrites!Next
     /\ UNCHANGED <<part, s11, s12, s13, s14, s15, s16>>
  \/ part = "names" /\ Who!Next
     /\ UNCHANGED <<part, s13, s14, s15, s16>>
  \/ part = "session" /\ Session!Next
     /\ UNCHANGED <<part, s13, s14, s15, s16>>
  \/ part = "knowledge" /\ Known!Next
     /\ UNCHANGED <<part, s14, s15, s16>>
  \/ part = "store" /\ Store!Next
     /\ UNCHANGED <<part, s10, s11, s12, s13, s14, s15, s16>>
  \/ part = "words" /\ Rules!Next
     /\ UNCHANGED <<part, s10, s11, s12, s13, s14, s15, s16>>
  \/ part = "usage" /\ Usage!Next
     /\ UNCHANGED <<part, s12, s13, s14, s15, s16>>
  \/ part = "search" /\ Finder!Next
     /\ UNCHANGED <<part, s13, s14, s15, s16>>
  \/ part = "editor" /\ Form!Next
     /\ UNCHANGED <<part, s16>>
  \/ part = "pipe" /\ Pipe!Next
     /\ UNCHANGED <<part, s10, s11, s12, s13, s14, s15, s16>>
  \/ part = "answer thread" /\ Streams!Next
     /\ UNCHANGED <<part, s13, s14, s15, s16>>
  \/ part = "launch" /\ Opening!Next
     /\ UNCHANGED <<part, s10, s11, s12, s13, s14, s15, s16>>

Spec == Init /\ [][Next]_vars

-----------------------------------------------------------------------------
(* Properties: those of the parts, each while its part runs.               *)

\* What a page shows answers what was asked last, for the account it was asked
\* with: ListAnswersQuery and LaneShowsTypedQuery (workspace.rs and the window's
\* history lane), ModelsAreTheAccounts and NoLateList (model_catalog.rs);
\* a search goes through everything that matches, once and in order:
\* IndexHoldsHistory, VocabularyIsCurrent, WalkIsComplete and SearchFindsTheWord
\* (history_search.rs).  The settings page shows what the user edited, tells of every
\* unsaved change and saves what it shows: EditsSurvive, NoHiddenChanges and
\* SavesAsShown (settings_form.rs, settings_actions.rs).
PagesAreCurrent ==
  /\ [](part = "workspace" => Pages!ListAnswersQuery)
  /\ [](part = "models" => Models!ModelsAreTheAccounts /\ Models!NoLateList)
  /\ [][part = "workspace" => Pages!ShowsTypedQuery]_vars
  /\ [](part = "words" => Rules!PageShowsTheRules)
  /\ [](part = "search" =>
         /\ Finder!IndexHoldsHistory /\ Finder!VocabularyIsCurrent
         /\ Finder!WalkIsComplete /\ Finder!SearchFindsTheWord)
  /\ [](part = "editor" => Form!EditsSurvive /\ Form!NoHiddenChanges)
  /\ [][part = "editor" => Form!SavesAsShown]_vars

\* The daemon can be reached and ends when told to, and works with the settings
\* and the shortcut that it saved: ServerIsReachable and QuitIsNoticed (ipc.rs,
\* startup.rs), PipeLeadsToTheDaemon, QuitWakesTheLoop and NextClientIsServed
\* (windows/ipc.rs), ShortcutFollowsSettings and DaemonRunsSavedSettings (process.rs).
\* Its usage figures add up and cost what the saved prices make them:
\* DailyFollowsSessions and PricesFollowSettings (usage.rs, pricing.rs). What is
\* dictated elsewhere is counted once and not overlooked: ImportedOnce and
\* NoneIsOverlooked (chatgpt_dictation_import.rs). A database that is opened, whatever
\* cut an earlier opening off, offers every unfinished job and no text a second time:
\* NothingIsStranded, NeverSentTwice and OldStaysUncounted (runtime.rs).
DaemonIsInOrder ==
  /\ part = "endpoint" => Endpoint!ServerIsReachable /\ Endpoint!QuitIsNoticed
  /\ part = "pipe" =>
       /\ Pipe!PipeLeadsToTheDaemon /\ Pipe!QuitWakesTheLoop
       /\ Pipe!NextClientIsServed
  /\ part = "settings" =>
       Settings!ShortcutFollowsSettings /\ Settings!DaemonRunsSavedSettings
  /\ part = "usage" => Usage!DailyFollowsSessions /\ Usage!PricesFollowSettings
  /\ part = "import" => Import!ImportedOnce /\ Import!NoneIsOverlooked
  /\ part = "store" =>
       Store!NothingIsStranded /\ Store!NeverSentTwice /\ Store!OldStaysUncounted

\* What is transcribed is the recording, with the credentials of its time:
\* LiveTextIsWhole and SessionsEnd (live_transcription.rs), CredentialsAreItsOwn
\* (codex_subscription.rs), LanesAskOnce and BearersAreUsable (ChatGptCredentials).
UploadsAreItsOwn ==
  /\ part = "live" => Live!LiveTextIsWhole /\ Live!SessionsEnd
  /\ part = "auth" => Auth!CredentialsAreItsOwn
  /\ part = "bearers" => Bearer!LanesAskOnce /\ Bearer!BearersAreUsable

\* What is heard in a meeting is recorded once and nothing is lost on its way:
\* EchoWaitsForItsSource and EveryLineOnce (engine.rs). A dictation is written with the
\* rules of its start, each applied once: WrittenByItsOwnRules and AliasesMatchOnce
\* (dictation.rs, replacements.rs). The overview's figures are of one database:
\* UsageIsOfOnePiece (usage.rs).
EverythingIsKeptOnce ==
  /\ part = "transcript" => Meeting!EchoWaitsForItsSource /\ Meeting!EveryLineOnce
  /\ part = "words" => Rules!WrittenByItsOwnRules /\ Rules!AliasesMatchOnce
  /\ part = "usage" => Usage!UsageIsOfOnePiece

\* What the copilot shows and keeps is what was given: answers are shown or
\* discarded as a whole, stopped when nobody waits for them, and the user's stays
\* (engine.rs: NotesHoldWhatWasShown, NothingRunsUnattended, AskedAnswerStays); a
\* rewrite's version is its own, its end is heard of, and the notes use none that
\* failed (copilot.rs: VersionsAreOneRewrite, RewritesEnd, KeptWasOffered); a voice
\* keeps the name it was given, the window shows it, and the looks at the meeting
\* that find it are bounded (names.rs: NamesStick, WindowShowsTheNames, LooksAreBounded);
\* the window says truly whether the copilot listens, and with which settings, and
\* a session ends as it should (engine.rs: ListenIsTrue, SettingsAgree,
\* ForgottenSessionEnds, NotesBeforeExit); what it answers from is what the user's
\* files say (knowledge.rs: KnowledgeIsCurrent, BestMatchIsGiven, and
\* ModelsAreTheProviders); an answer's card says what became of it, goes on from its
\* draft, and is what the notes hold (engine.rs, answer_with: CardSettles,
\* ResearchContinuesTheDraft, NotesAreTheCard, DraftStands); and there is one copilot,
\* which a launch brings forward (instance.rs: OneCopilot, LaunchIsHeard,
\* RunsIfItSaysSo).
CopilotIsConsistent ==
  /\ [](part = "answers" => Answers!NotesHoldWhatWasShown /\ Answers!NothingRunsUnattended)
  /\ [](part = "rewrites" =>
         /\ Rewrites!VersionsAreOneRewrite /\ Rewrites!RewritesEnd
         /\ Rewrites!KeptWasOffered)
  /\ [](part = "names" => Who!LooksAreBounded /\ Who!WindowShowsTheNames)
  /\ [](part = "session" =>
         /\ Session!ListenIsTrue /\ Session!SettingsAgree
         /\ Session!ForgottenSessionEnds /\ Session!NotesBeforeExit)
  /\ [](part = "knowledge" =>
         /\ Known!KnowledgeIsCurrent /\ Known!BestMatchIsGiven
         /\ Known!ModelsAreTheProviders)
  /\ [](part = "answer thread" =>
         /\ Streams!CardSettles /\ Streams!ResearchContinuesTheDraft
         /\ Streams!NotesAreTheCard /\ Streams!DraftStands)
  /\ [](part = "launch" =>
         /\ Opening!OneCopilot /\ Opening!LaunchIsHeard /\ Opening!RunsIfItSaysSo)
  /\ [][part = "answers" => Answers!KeepsAsked]_vars
  /\ [][part = "names" => \A voice \in Who!Voices : Who!Sticks(voice)]_vars

-----------------------------------------------------------------------------
(* The parts of the daemon keep their invariants while they run.           *)

InOrder ==
  /\ part = "live" => Live!Reading
  /\ part = "auth" => Auth!Earmarked
  /\ part = "bearers" => Bearer!Dated
  /\ part = "endpoint" => Endpoint!Owned
  /\ part = "pipe" => Pipe!InPlace
  /\ part = "settings" => Settings!Settled
  /\ part = "import" => Import!Kept
  /\ part = "store" => Store!Opened
  /\ part = "usage" => Usage!Accounted

\* Each starts in its invariant where it is the part that runs,
LEMMA InOrderInit == Init => InOrder
  BY LiveInit, AuthInit, BearerInit, EndpointInit, PipeInit,
     SettingsInit, ImportInit, StoreInit, Usage!UsageInit DEF Init, InOrder

\* and keeps it with each of its steps.
LEMMA InOrderStep == InOrder /\ [Next]_vars => InOrder'
<1> SUFFICES ASSUME InOrder, [Next]_vars PROVE InOrder'
  OBVIOUS
<1>1. CASE part = "live" /\ Live!Next /\ part' = part
  BY <1>1, LiveStep DEF InOrder
<1>2. CASE part = "auth" /\ Auth!Next /\ part' = part
  BY <1>2, AuthStep DEF InOrder
<1>3. CASE part = "bearers" /\ Bearer!Next /\ part' = part
  BY <1>3, BearerStep DEF InOrder
<1>4. CASE part = "endpoint" /\ Endpoint!Next /\ part' = part
  BY <1>4, EndpointStep DEF InOrder
<1>5. CASE part = "pipe" /\ Pipe!Next /\ part' = part
  BY <1>5, PipeStep DEF InOrder
<1>6. CASE part = "settings" /\ Settings!Next /\ part' = part
  BY <1>6, SettingsStep DEF InOrder
<1>7. CASE part = "import" /\ Import!Next /\ part' = part
  BY <1>7, ImportStep DEF InOrder
<1>8. CASE part = "store" /\ Store!Next /\ part' = part
  <2>1. Store!NoJob \notin Dictations
    BY DictationsAssumption DEF Store!NoJob
  <2>2. QED
    BY <1>8, <2>1, StoreStep DEF InOrder
<1>9. CASE part = "usage" /\ Usage!Next /\ part' = part
  <2>1. DictationKinds \subseteq [cleaned : BOOLEAN, free : BOOLEAN]
    BY DEF DictationKinds
  <2>2. QED
    BY <1>9, <2>1, Usage!UsageStep DEF InOrder
<1>10. CASE part \notin {"live", "auth", "bearers", "endpoint", "pipe", "settings", "import", "store", "usage"} /\ part' = part
  BY <1>10 DEF InOrder
<1>11. CASE UNCHANGED vars
  <2>1. UNCHANGED <<part, s1, s2, s3, s4, s5, s6, s7, s8, s9, s10, s11>>
    BY <1>11 DEF vars
  <2>2. Live!Reading => Live!Reading'
    BY <2>1 DEF Live!Reading, Live!Typed, Live!Recorded, Live!Read, Live!Ended
  <2>3. Auth!Earmarked => Auth!Earmarked'
    BY <2>1 DEF Auth!Earmarked, Auth!Given
  <2>4. Bearer!Dated => Bearer!Dated'
    BY <2>1 DEF Bearer!Dated, Bearer!LanesAskOnce, Bearer!BearersAreUsable, Bearer!At
  <2>5. Endpoint!Owned => Endpoint!Owned'
    BY <2>1, EndpointStep DEF Endpoint!vars
  <2>6. Pipe!InPlace => Pipe!InPlace'
    BY <2>1, PipeStep DEF Pipe!vars
  <2>7. Settings!Settled => Settings!Settled'
    BY <2>1, SettingsStep DEF Settings!vars
  <2>8. Import!Kept => Import!Kept'
    BY <2>1, ImportStep DEF Import!vars
  <2>9. Store!Opened => Store!Opened'
    BY <2>1, StoreStep, DictationsAssumption DEF Store!vars, Store!NoJob
  <2>10. Usage!Accounted => Usage!Accounted'
    BY <2>1, Usage!UsageStep DEF Usage!vars, DictationKinds
  <2>11. QED
    BY <2>1, <2>2, <2>3, <2>4, <2>5, <2>6, <2>7, <2>8, <2>9, <2>10 DEF InOrder
<1>12. QED
  BY <1>1, <1>2, <1>3, <1>4, <1>5, <1>6, <1>7, <1>8, <1>9, <1>10, <1>11 DEF Next

\* A text that was recognised live is of the whole recording it is delivered for, and
\* no session streams on; a dictation is uploaded with credentials of its time; the
\* lanes of a meeting ask once and send no token that lapses or was refused
\* (live_transcription.rs, codex_subscription.rs).
THEOREM UploadsStayTheirOwn == Spec => []UploadsAreItsOwn
<1>1. Spec => []InOrder
  BY InOrderInit, InOrderStep, PTL DEF Spec
<1>2. InOrder => UploadsAreItsOwn
  BY LiveFollows, AuthFollows DEF InOrder, UploadsAreItsOwn, Bearer!Dated
<1>3. QED
  BY <1>1, <1>2, PTL

\* One daemon owns the endpoint, can be reached there and ends when told to, on Linux
\* and on Windows (ipc.rs, startup.rs); it runs the settings it saved and listens for
\* the shortcut they name (process.rs); its figures follow its sessions and its prices
\* (usage.rs, pricing.rs); what is dictated elsewhere is counted once
\* (chatgpt_dictation_import.rs); and the database it opens strands no job and sends
\* none twice (runtime.rs).
THEOREM DaemonStaysInOrder == Spec => []DaemonIsInOrder
<1>1. Spec => []InOrder
  BY InOrderInit, InOrderStep, PTL DEF Spec
<1>2. Endpoint!Owned => Endpoint!ServerIsReachable /\ Endpoint!QuitIsNoticed
  BY DEF Endpoint!Owned
<1>3. Usage!Accounted => Usage!DailyFollowsSessions /\ Usage!PricesFollowSettings
  BY DEF Usage!Accounted
<1>4. InOrder => DaemonIsInOrder
  BY <1>2, <1>3, PipeFollows, SettingsFollow, ImportFollows, StoreFollows
     DEF InOrder, DaemonIsInOrder
<1>5. QED
  BY <1>1, <1>4, PTL

=============================================================================
