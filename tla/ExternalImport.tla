---------------------------- MODULE ExternalImport ----------------------------
(***************************************************************************)
(* Usage import from the ChatGPT desktop application: a thread of the      *)
(* daemon looks every two seconds for new receipt folders, reads receipts  *)
(* whose file changed and adds each completed one to History once.  The    *)
(* other program writes its folders and files meanwhile, the user clears   *)
(* History, and the daemon may be restarted.                               *)
(* Source: crates/agentdictate-app/src/chatgpt_dictation_import.rs and     *)
(* crates/agentdictate-runtime/src/external_dictation.rs.                  *)
(*                                                                         *)
(* A stamp stands for the length and time of a file or folder: it is       *)
(* different after every change.                                           *)
(***************************************************************************)
EXTENDS Naturals, FiniteSets

CONSTANTS Receipts,   \* the folders of the history directory
          MaxWrites,  \* bound on the versions of a receipt
          MaxStarts,  \* bound on the starts of the daemon
          MaxErrors   \* bound on failing reads and database writes

VARIABLES
  file,      \* per receipt its metadata.json: contents and stamp
  folders,   \* the stamp of the history directory
  importer,  \* ChatGptDictationImporter and where its loop is
  ledger,    \* external_dictation_imports
  sessions,  \* the receipts shown in History
  inserted,  \* history: how often each receipt became a session
  missed,    \* history: what this importer could not read or inspect
  starts, errors

vars == <<file, folders, importer, ledger, sessions, inserted, missed, starts, errors>>
others == <<file, folders>>
database == <<ledger, sessions, inserted>>

Unknown == 0
Fresh == [folders |-> Unknown, known |-> {}, pending |-> {}, todo |-> {},
          observed |-> [r \in Receipts |-> Unknown],
          state |-> "sleeping", at |-> Unknown, seen |-> Unknown]

Init ==
  /\ file = [r \in Receipts |-> [contents |-> "absent", stamp |-> Unknown]]
  /\ folders = 1 /\ importer = Fresh
  /\ ledger = {} /\ sessions = {} /\ inserted = [r \in Receipts |-> 0]
  /\ missed = {} /\ starts = 1 /\ errors = 0

Exists(r) == file[r].contents # "absent"

-----------------------------------------------------------------------------
(* The other program, the user and the daemon's life.                      *)

\* A folder appears, or its file is written; the text may never come.
WriteReceipt(r) ==
  /\ file[r].stamp < MaxWrites
  /\ \E c \in {"recording", "completed"} :
       file' = [file EXCEPT ![r] = [contents |-> c, stamp |-> @.stamp + 1]]
  /\ folders' = IF Exists(r) THEN folders ELSE folders + 1
  /\ UNCHANGED <<importer, database, missed, starts, errors>>

\* Mutant: clearing History forgets the receipts too.
ClearEverything ==
  /\ sessions # {} /\ sessions' = {} /\ ledger' = {}
  /\ UNCHANGED <<others, importer, inserted, missed, starts, errors>>

\* The user clears History; the ledger survives.
ClearHistory ==
  /\ sessions # {} /\ sessions' = {}
  /\ UNCHANGED <<others, importer, ledger, inserted, missed, starts, errors>>

\* The importer remembers nothing of an earlier process.
Restart ==
  /\ starts < MaxStarts /\ starts' = starts + 1
  /\ importer' = Fresh /\ missed' = {}
  /\ UNCHANGED <<others, database, errors>>

-----------------------------------------------------------------------------
(* scan.                                                                   *)

\* discover_directories looks at the directory itself first.
StatFolders ==
  /\ importer.state = "sleeping"
  /\ importer' = IF importer.folders = folders
                 THEN [importer EXCEPT !.state = "scanning", !.todo = importer.pending]
                 ELSE [importer EXCEPT !.state = "listing", !.seen = folders]
  /\ UNCHANGED <<others, database, missed, starts, errors>>

Listed(entries, stamp) ==
  LET pending == (importer.pending \cup (entries \ importer.known)) \cap entries
  IN importer' = [importer EXCEPT !.state = "scanning", !.folders = stamp,
                    !.known = entries, !.pending = pending, !.todo = pending,
                    !.observed = [r \in Receipts |-> IF r \in entries THEN @[r] ELSE Unknown]]

\* An entry that cannot be inspected is left out although the directory counts
\* as seen.
ListFolders ==
  /\ importer.state = "listing"
  /\ \E unread \in SUBSET {r \in Receipts : Exists(r)} :
       /\ errors + Cardinality(unread) <= MaxErrors
       /\ errors' = errors + Cardinality(unread)
       /\ missed' = missed \cup unread
       /\ Listed({r \in Receipts : Exists(r)} \ unread, importer.seen)
  /\ UNCHANGED <<others, database, starts>>

\* Unchanged since it was last read: nothing to do.
StatReceipt(r) ==
  /\ importer.state = "scanning" /\ r \in importer.todo
  /\ importer' = IF file[r].stamp = importer.observed[r]
                 THEN [importer EXCEPT !.todo = @ \ {r}]
                 ELSE [importer EXCEPT !.todo = @ \ {r}, !.state = "reading", !.at = r,
                                       !.seen = file[r].stamp]
  /\ UNCHANGED <<others, database, missed, starts, errors>>

\* Mutant: the stamp is taken when the file has been read.
ObservedNow(r) == file[r].stamp

\* The stamp of before the read is remembered.
Observed(r) == importer.seen

\* read_completed_receipt: not completed yet, or without text.
ReadIncomplete ==
  /\ importer.state = "reading" /\ file[importer.at].contents = "recording"
  /\ importer' = [importer EXCEPT !.state = "observing"]
  /\ UNCHANGED <<others, database, missed, starts, errors>>

\* The file cannot be read: it counts as observed like an invalid one.
ReadFails ==
  /\ importer.state = "reading" /\ errors < MaxErrors
  /\ errors' = errors + 1 /\ missed' = missed \cup {importer.at}
  /\ importer' = [importer EXCEPT !.state = "observing"]
  /\ UNCHANGED <<others, database, starts>>

Observe ==
  /\ importer.state = "observing"
  /\ importer' = [importer EXCEPT !.state = "scanning",
                    !.observed[importer.at] = Observed(importer.at), !.at = Unknown]
  /\ UNCHANGED <<others, database, missed, starts, errors>>

Imported ==
  importer' = [importer EXCEPT !.state = "scanning", !.pending = @ \ {importer.at},
                 !.observed[importer.at] = Unknown, !.at = Unknown]

\* import_external_dictation: ledger and session in one transaction.
Import ==
  /\ importer.state = "reading" /\ file[importer.at].contents = "completed"
  /\ IF importer.at \in ledger THEN UNCHANGED database
     ELSE /\ ledger' = ledger \cup {importer.at}
          /\ sessions' = sessions \cup {importer.at}
          /\ inserted' = [inserted EXCEPT ![importer.at] = @ + 1]
  /\ Imported
  /\ UNCHANGED <<others, missed, starts, errors>>

\* The database refuses: the receipt stays pending and unobserved.
ImportFails ==
  /\ importer.state = "reading" /\ file[importer.at].contents = "completed"
  /\ errors < MaxErrors /\ errors' = errors + 1
  /\ importer' = [importer EXCEPT !.state = "scanning", !.at = Unknown]
  /\ UNCHANGED <<others, database, missed, starts>>

ScanEnds ==
  /\ importer.state = "scanning" /\ importer.todo = {}
  /\ importer' = [importer EXCEPT !.state = "sleeping"]
  /\ UNCHANGED <<others, database, missed, starts, errors>>

Next ==
  \/ \E r \in Receipts : WriteReceipt(r) \/ StatReceipt(r)
  \/ ClearHistory \/ Restart
  \/ StatFolders \/ ListFolders \/ ReadIncomplete \/ ReadFails \/ Observe
  \/ Import \/ ImportFails \/ ScanEnds

Spec == Init /\ [][Next]_vars

-----------------------------------------------------------------------------
(* Properties.                                                             *)

\* A receipt becomes a session at most once, over restarts and although the
\* user cleared History ("a later scan cannot restore usage that the user
\* deliberately cleared", external_dictation.rs:53-54).
ImportedOnce == \A r \in Receipts : inserted[r] <= 1

\* Between scans a completed receipt is in the ledger, or the next scan will
\* see that its folder or file changed and read it: writing and reading at the
\* same time lose nothing.  What could not be read or inspected is excepted.
NoneIsOverlooked ==
  importer.state = "sleeping" =>
    \A r \in Receipts \ (ledger \cup missed) : file[r].contents = "completed" =>
      \/ r \notin importer.known /\ importer.folders # folders
      \/ r \in importer.pending /\ importer.observed[r] # file[r].stamp

\* Again and again: every completed receipt is in the ledger, whatever was written
\* while it was read, refused by the database or restarted; except for what could not
\* be read or inspected (scan).
ReceiptsAreIn ==
  \A r \in Receipts : file[r].contents = "completed" => r \in ledger \cup missed

-----------------------------------------------------------------------------
(* Their invariant: what the importer remembers is older than the files.   *)

States == {"sleeping", "listing", "scanning", "reading", "observing"}

Typed ==
  /\ file \in [Receipts -> [contents : {"absent", "recording", "completed"}, stamp : Nat]]
  /\ \A r \in Receipts : Exists(r) => file[r].stamp > 0
  /\ folders \in Nat \ {0}
  /\ importer = [folders |-> importer.folders, known |-> importer.known,
                 pending |-> importer.pending, todo |-> importer.todo,
                 observed |-> importer.observed, state |-> importer.state,
                 at |-> importer.at, seen |-> importer.seen]
  /\ importer.folders \in Nat /\ importer.seen \in Nat
  /\ importer.observed \in [Receipts -> Nat] /\ importer.todo \subseteq Receipts
  /\ importer.pending \subseteq Receipts /\ importer.state \in States
  /\ importer.state \in {"reading", "observing"} => importer.at \in Receipts
  /\ inserted \in [Receipts -> Nat]

\* A folder that the importer does not know is newer than its look at the directory, and
\* one it knows is pending until it is in the ledger.
FoldersAreSeen ==
  /\ importer.folders < folders
     \/ (importer.folders = folders /\ \A r \in Receipts : Exists(r) => r \in importer.known \cup missed)
  /\ importer.state = "listing" => importer.seen <= folders
  /\ importer.known \ (ledger \cup missed) \subseteq importer.pending

\* A receipt is read again if it changed since the last look at it.
FilesAreObserved ==
  /\ \A r \in Receipts : importer.observed[r] <= file[r].stamp
  /\ \A r \in Receipts \ (ledger \cup missed) :
       file[r].contents = "completed" => importer.observed[r] < file[r].stamp
  /\ importer.state \in {"reading", "observing"} => importer.seen <= file[importer.at].stamp
  /\ importer.state = "observing" /\ importer.at \notin ledger \cup missed
       /\ file[importer.at].contents = "completed" => importer.seen < file[importer.at].stamp

CountedOnce == \A r \in Receipts : inserted[r] = IF r \in ledger THEN 1 ELSE 0

Kept == Typed /\ FoldersAreSeen /\ FilesAreObserved /\ CountedOnce

=============================================================================
