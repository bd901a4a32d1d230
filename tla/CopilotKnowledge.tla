--------------------------- MODULE CopilotKnowledge ---------------------------
(***************************************************************************)
(* What the meeting copilot knows of the user's documents and of earlier   *)
(* meetings, and which models it offers: both are loaded by threads while  *)
(* the user edits the files and changes the settings.  Source:             *)
(* crates/agentdictate-app/src/copilot/knowledge.rs and engine.rs, and     *)
(* crates/agentdictate-ui/src/copilot.rs.                                  *)
(*                                                                         *)
(* A thread sends one message, which the engine may handle at any later    *)
(* time.  A file is its size in excerpts and the edit that wrote it.       *)
(***************************************************************************)
EXTENDS Naturals, Sequences, SequencesExt

CONSTANTS
  Documents,     \* names in the knowledge folder: 1..n, in their order
  Providers,
  MaxLength,     \* size of the largest document
  PrimerBudget,  \* PRIMER_CHARS and
  ExcerptBudget, \* DOCUMENT_BUDGET_CHARS, in the same unit
  MaxEdits,      \* bound on the edits of files
  MaxSwitches,   \* bound on the changes of settings
  MaxLocked      \* bound on the files that cannot be read

VARIABLES
  folder,    \* the knowledge folder and the meeting notes: file -> [size, at]
  settings,  \* use_past_meetings and provider
  knowledge, \* what is loaded: file -> [size, at], and the files of the primer
  print,     \* Engine::knowledge_fingerprint
  loading,   \* Engine::knowledge_loading
  loader,    \* the thread that loads, or NoLoader; what it missed is history
  waited,    \* KNOWLEDGE_CHECK_INTERVAL has passed since the last look
  loads,     \* the threads that list a provider's models
  view, down,\* the window: provider, models; and the events under way to it
  edits, switches, locked

vars == <<folder, settings, knowledge, print, loading, loader, waited, loads, view,
          down, edits, switches, locked>>

Notes == 0 \* the notes of an earlier meeting
Files == Documents \cup {Notes}
Absent == [size |-> 0, at |-> 0]
NoFiles == [f \in Files |-> Absent]
NoPrint == [f \in {} |-> Absent]
NoLoader == [stage |-> "none", past |-> FALSE, print |-> NoPrint, left |-> {},
             found |-> NoFiles, missed |-> {}]

\* The folders answers draw on, as their files are now.
Seen(past) == IF past THEN folder ELSE [folder EXCEPT ![Notes] = Absent]

-----------------------------------------------------------------------------
(* Knowledge::build and Knowledge::excerpts.                               *)

\* Smaller documents come first, so that as many as possible are known whole.
Primer(found) ==
  LET before(d, e) == \/ found[d].size < found[e].size
                      \/ found[d].size = found[e].size /\ d < e
      add(primer, d) == IF primer.used + found[d].size <= PrimerBudget
                        THEN [used |-> primer.used + found[d].size,
                              files |-> primer.files \cup {d}]
                        ELSE primer
  IN FoldLeft(add, [used |-> 0, files |-> {}],
       SetToSortSeq({d \in Documents : found[d] # Absent}, before)).files

\* The best matches that fit, from what the primer left out; a match below a quarter
\* of the best is left out.  score says how well each document matches the question.
Excerpts(known, score) ==
  LET matches == {d \in Documents : /\ known.files[d] # Absent /\ score[d] > 0
                                    /\ d \notin known.primer}
      strong == {d \in matches : \A e \in matches : 4 * score[d] >= score[e]}
      before(d, e) == score[d] > score[e] \/ (score[d] = score[e] /\ d < e)
      pick(picked, d) == IF picked.used + known.files[d].size > ExcerptBudget THEN picked
                         ELSE [used |-> picked.used + known.files[d].size,
                               files |-> picked.files \cup {d}]
  IN FoldLeft(pick, [used |-> 0, files |-> {}], SetToSortSeq(strong, before)).files

-----------------------------------------------------------------------------
Init ==
  /\ \E there \in {Files, Documents} :
       folder = [f \in Files |-> IF f \in there THEN [size |-> 1, at |-> 0] ELSE Absent]
  /\ settings = [past |-> TRUE, provider |-> CHOOSE p \in Providers : TRUE]
  /\ knowledge = [files |-> NoFiles, primer |-> {}, missed |-> {}]
  /\ print = NoPrint /\ loading = TRUE /\ waited = FALSE
  /\ loader = [NoLoader EXCEPT !.stage = "started", !.past = TRUE]
  /\ loads = [p \in Providers |-> IF p = settings.provider THEN 1 ELSE 0]
  /\ view = [provider |-> settings.provider, models |-> settings.provider]
  /\ down = <<>> /\ edits = 0 /\ switches = 0 /\ locked = 0

\* The user adds, edits or removes a file; a session ended elsewhere adds notes.
Edit(f, size) ==
  /\ edits < MaxEdits /\ (size # 0 \/ folder[f] # Absent)
  /\ edits' = edits + 1
  /\ folder' = [folder EXCEPT ![f] =
       IF size = 0 THEN Absent ELSE [size |-> size, at |-> edits']]
  /\ UNCHANGED <<settings, knowledge, print, loading, loader, waited, loads, view, down,
                 switches, locked>>

\* load_knowledge: one load at a time.
Load(past) ==
  IF loading THEN UNCHANGED <<loading, loader, waited>>
  ELSE /\ loading' = TRUE /\ waited' = FALSE
       /\ loader' = [NoLoader EXCEPT !.stage = "started", !.past = past]

\* The fingerprint is taken before the files are listed and read.
TakeFingerprint ==
  /\ loader.stage = "started"
  /\ loader' = [loader EXCEPT !.stage = "listing", !.print = Seen(loader.past)]
  /\ UNCHANGED <<folder, settings, knowledge, print, loading, waited, loads, view, down,
                 edits, switches, locked>>

Present(files) == {f \in files : folder[f] # Absent}

ListFiles ==
  /\ loader.stage = "listing"
  /\ loader' = [loader EXCEPT !.stage = "reading", !.left = Present(Documents)]
  /\ UNCHANGED <<folder, settings, knowledge, print, loading, waited, loads, view, down,
                 edits, switches, locked>>

\* Files are read one after the other, as they are by then, the notes at last; a file
\* that another program holds may refuse to be read.
ReadFile(readable) ==
  /\ loader.stage = "reading" /\ loader.left # {}
  /\ readable \/ locked < MaxLocked
  /\ locked' = IF readable THEN locked ELSE locked + 1
  /\ LET f == CHOOSE f \in loader.left : \A g \in loader.left : f <= g
     IN loader' = [loader EXCEPT !.left = @ \ {f},
          !.found[f] = IF readable THEN folder[f] ELSE Absent,
          !.missed = IF readable THEN @ ELSE @ \cup {f}]
  /\ UNCHANGED <<folder, settings, knowledge, print, loading, waited, loads, view, down,
                 edits, switches>>

ListNotes ==
  /\ loader.stage = "reading" /\ loader.left = {} /\ loader.past
  /\ loader' = [loader EXCEPT !.past = FALSE, !.left = Present({Notes})]
  /\ UNCHANGED <<folder, settings, knowledge, print, loading, waited, loads, view, down,
                 edits, switches, locked>>

\* Mutant: the folder's fingerprint is taken when the files have been read.
KnowsTheFolder ==
  /\ loader.stage = "reading" /\ loader.left = {} /\ ~loader.past
  /\ knowledge' = [files |-> loader.found, primer |-> Primer(loader.found),
                   missed |-> loader.missed]
  /\ print' = Seen(settings.past) /\ loading' = FALSE /\ loader' = NoLoader
  /\ UNCHANGED <<folder, settings, waited, loads, view, down, edits, switches, locked>>

KnowledgeLoaded ==
  /\ loader.stage = "reading" /\ loader.left = {} /\ ~loader.past
  /\ knowledge' = [files |-> loader.found, primer |-> Primer(loader.found),
                   missed |-> loader.missed]
  /\ print' = loader.print /\ loading' = FALSE /\ loader' = NoLoader
  /\ UNCHANGED <<folder, settings, waited, loads, view, down, edits, switches, locked>>

IntervalPasses ==
  /\ ~waited /\ waited' = TRUE
  /\ UNCHANGED <<folder, settings, knowledge, print, loading, loader, loads, view, down,
                 edits, switches, locked>>

CheckKnowledge ==
  /\ ~loading /\ waited
  /\ IF print # Seen(settings.past) THEN Load(settings.past)
     ELSE waited' = FALSE /\ UNCHANGED <<loading, loader>>
  /\ UNCHANGED <<folder, settings, knowledge, print, loads, view, down, edits, switches,
                 locked>>

\* update_settings, for the settings that matter here.
UpdateSettings(past, provider) ==
  /\ switches < MaxSwitches /\ switches' = switches + 1
  /\ settings' = [past |-> past, provider |-> provider]
  /\ down' = Append(down, [kind |-> "settings", provider |-> provider])
  /\ loads' = IF provider = settings.provider THEN loads
              ELSE [loads EXCEPT ![provider] = @ + 1]
  /\ IF past = settings.past THEN UNCHANGED <<print, loading, loader, waited>>
     ELSE print' = NoPrint /\ Load(past)
  /\ UNCHANGED <<folder, knowledge, view, edits, locked>>

ModelsLoaded(provider) ==
  /\ loads[provider] > 0
  /\ loads' = [loads EXCEPT ![provider] = @ - 1]
  /\ down' = IF provider = settings.provider
             THEN Append(down, [kind |-> "models", provider |-> provider]) ELSE down
  /\ UNCHANGED <<folder, settings, knowledge, print, loading, loader, waited, view, edits,
                 switches, locked>>

\* The window: a provider's suggested models stand in until its list is there.
Apply ==
  /\ down # <<>> /\ down' = Tail(down)
  /\ LET event == Head(down)
     IN view' = IF event.kind = "models" THEN [view EXCEPT !.models = event.provider]
                ELSE [provider |-> event.provider,
                      models |-> IF event.provider = view.provider THEN view.models
                                 ELSE event.provider]
  /\ UNCHANGED <<folder, settings, knowledge, print, loading, loader, waited, loads, edits,
                 switches, locked>>

Next ==
  \/ \E f \in Files, size \in 0..MaxLength : Edit(f, size)
  \/ TakeFingerprint \/ ListFiles \/ ListNotes \/ KnowledgeLoaded
  \/ IntervalPasses \/ CheckKnowledge
  \/ \E readable \in BOOLEAN : ReadFile(readable)
  \/ \E past \in BOOLEAN, provider \in Providers : UpdateSettings(past, provider)
  \/ \E provider \in Providers : ModelsLoaded(provider)
  \/ Apply

Spec == Init /\ [][Next]_vars

-----------------------------------------------------------------------------
\* When the engine takes its knowledge for current, it knows every file that is there
\* as it was last saved, also when the user saved it while the files were being read,
\* except for files that could not be read (engine.rs, load_knowledge, check_knowledge).
KnowledgeIsCurrent ==
  ~loading /\ print = Seen(settings.past) =>
    \A f \in (IF settings.past THEN Files ELSE Documents) \ knowledge.missed :
      folder[f] # Absent => knowledge.files[f] = folder[f]

\* What is asked of a document reaches the answer: it is known whole, or else the
\* best match among the others is given (knowledge.rs, build and excerpts).
BestMatchIsGiven ==
  \A score \in [Documents -> {0, 1, 5}], d \in Documents :
    /\ knowledge.files[d] # Absent /\ score[d] > 0
    /\ \A e \in Documents \ {d} : knowledge.files[e] # Absent => score[e] < score[d]
    => d \in knowledge.primer \cup Excerpts(knowledge, score)

\* The window offers the models of the provider it shows (copilot.rs, apply).
ModelsAreTheProviders == view.models = view.provider

\* A document that could not be read for a moment is known sooner or later: nothing
\* is taken for current that misses one (knowledge.rs, read_document).
UnreadableIsTriedAgain ==
  ~loading /\ print = Seen(settings.past) /\ waited => knowledge.files = Seen(settings.past)

\* A file that is gone is forgotten, also one that came and went while the files were
\* being read: the folder then looks as it did before (engine.rs, check_knowledge).
GoneIsForgotten ==
  ~loading /\ print = Seen(settings.past) =>
    \A f \in Files : folder[f] = Absent => knowledge.files[f] = Absent

\* Earlier meetings are used only while the user allows it: they are forgotten by the
\* time the knowledge is taken for current again (engine.rs, update_settings).
PastIsForgotten ==
  ~loading /\ print = Seen(settings.past) /\ ~settings.past =>
    knowledge.files[Notes] = Absent

\* Again and again: an edit becomes known, also one that is made while the files are
\* being read, except for files that could not be read, and for a file that came and
\* went meanwhile; and the window shows the provider that was chosen (check_knowledge).
EditsAreKnown ==
  /\ \A f \in (IF settings.past THEN Files ELSE Documents) \ knowledge.missed :
       \/ knowledge.files[f] = folder[f]
       \/ folder[f] = Absent /\ print # NoPrint /\ print[f] = Absent
  /\ view.provider = settings.provider
=============================================================================
