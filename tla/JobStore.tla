------------------------------ MODULE JobStore ------------------------------
(***************************************************************************)
(* Opening the database (runtime.rs, schema.rs). Each statement of         *)
(* Runtime::open commits for itself, so that a crash may leave a database  *)
(* between two versions: the tables of the Python application or of an     *)
(* earlier release, with some columns added and some jobs rewritten. The   *)
(* next start begins again. Only the daemon opens this way; its workers    *)
(* open a writer that reconciles nothing.                                  *)
(***************************************************************************)
EXTENDS Naturals, FiniteSets

CONSTANTS
  Jobs,        \* the jobs a database can hold
  MaxCrashes,  \* bound: crashes, in the middle of an opening or after it
  MaxNew       \* bound: recordings made by this release

VARIABLES
  columns,   \* what this database has beyond the Python application's tables
  rows,      \* the row of a job, or NoRow
  opening,   \* "closed", the next step of Runtime::open, or "open"
  live,      \* the job that the running daemon works on, or NoJob
  counted,   \* the jobs whose usage and history clean-up recorded
  sent,      \* the jobs whose text was perhaps given to another application
  before,    \* the jobs that were delivered before completions were tracked
  crashes,
  made

vars == <<columns, rows, opening, live, counted, sent, before, crashes, made>>

NoJob == "no job"
Row(state, stage, text, status) ==
  [state |-> state, stage |-> stage, text |-> text, status |-> status,
   id |-> FALSE, allowed |-> TRUE]
NoRow == Row("none", "none", FALSE, "none")

\* The stages this release can read (parse_stage): a row with another one makes
\* the whole list of recoverable jobs fail.
Stages == {"starting", "recording", "captured", "transcribing", "cleaning",
           "ready_to_deliver", "delivering", "delivered", "no_speech",
           "interrupted", "failed", "canceled", "deleted"}
Finished == {"delivered", "no_speech", "deleted"}
StateOf(stage) ==
  IF stage \in Finished \cup {"interrupted", "failed", "canceled"} THEN stage
  ELSE IF stage \in {"starting", "recording"} THEN "active" ELSE "captured"

Present(j) == rows[j] # NoRow
Readable(j) == rows[j].id /\ rows[j].stage \in Stages
Recoverable == {j \in Jobs : Present(j) /\ rows[j].state \notin Finished}

\* What the recovery page lists.
RecoveryEntries ==
  IF \A j \in Recoverable : Readable(j)
    THEN {j \in Recoverable : rows[j].stage \in
            {"captured", "ready_to_deliver", "interrupted", "failed", "canceled"}}
    ELSE {}

\* What earlier versions leave: the Python application stops in stages of its
\* own and knows no delivery status, an earlier release of this one has both.
PythonRows ==
  {Row("active", "recording", FALSE, "not_attempted"),
   Row("captured", "captured", FALSE, "not_attempted"),
   Row("transcribed", "transcribed", TRUE, "not_attempted"),
   Row("transcribed", "transcribed", FALSE, "not_attempted"),
   Row("failed", "cleanup", FALSE, "not_attempted"),
   Row("transcribed", "replacements", TRUE, "not_attempted"),
   Row("delivering", "delivering", TRUE, "not_attempted"),
   Row("delivered", "delivered", TRUE, "not_attempted"),
   Row("deleted", "deleted", FALSE, "not_attempted")}
EarlierRows ==
  {[Row(StateOf(stage), stage, stage = "ready_to_deliver", "not_attempted") EXCEPT !.id = TRUE] :
     stage \in {"starting", "captured", "cleaning", "ready_to_deliver", "no_speech"}}
  \cup {[Row("captured", "ready_to_deliver", TRUE, "attempting") EXCEPT !.id = TRUE],
        [Row("delivered", "delivered", TRUE, "committed") EXCEPT !.id = TRUE],
        [Row("failed", "failed", TRUE, "ambiguous") EXCEPT !.id = TRUE]}

\* The delivery of a row began, whoever began it.
Begun(row) == row.stage \in {"delivering", "delivered"}
              \/ row.status \in {"attempting", "submitted", "committed", "ambiguous"}

Init ==
  /\ \/ columns = {} /\ rows \in [Jobs -> {NoRow} \cup PythonRows]
     \/ columns = {"id", "status"} /\ rows \in [Jobs -> {NoRow} \cup EarlierRows]
  /\ sent = {j \in Jobs : Present(j) /\ Begun(rows[j])}
  /\ before = {j \in Jobs : Present(j) /\ rows[j].stage = "delivered"}
  /\ opening = "closed" /\ live = NoJob /\ counted = {}
  /\ crashes = 0 /\ made = 0

Step(here, next) == opening = here /\ opening' = next
Rewrite(Which(_), New(_)) ==
  rows' = [j \in Jobs |-> IF Present(j) /\ Which(rows[j]) THEN New(rows[j]) ELSE rows[j]]

-----------------------------------------------------------------------------
(* Runtime::open: the steps that change the database, in their order.      *)

Begin ==
  /\ Step("closed", "columns")
  /\ UNCHANGED <<columns, rows, live, counted, sent, before, crashes, made>>

\* A column is added unless it is there: with the value every old row gets. The
\* columns of history and options are added in the same way and hold no control.
AddColumn ==
  /\ opening = "columns" /\ {"id", "status"} \ columns # {}
  /\ columns' = columns \cup {IF "id" \notin columns THEN "id" ELSE "status"}
  /\ UNCHANGED <<rows, opening, live, counted, sent, before, crashes, made>>

HasColumns ==
  /\ Step("columns", "ids") /\ {"id", "status"} \subseteq columns
  /\ UNCHANGED <<columns, rows, live, counted, sent, before, crashes, made>>

\* Every row gets its own id in a statement of its own.
BackfillId(j) ==
  /\ opening = "ids" /\ Present(j) /\ ~rows[j].id
  /\ rows' = [rows EXCEPT ![j].id = TRUE]
  /\ UNCHANGED <<columns, opening, live, counted, sent, before, crashes, made>>

HasIds ==
  /\ Step("ids", "legacy") /\ \A j \in Jobs : Present(j) => rows[j].id
  /\ UNCHANGED <<columns, rows, live, counted, sent, before, crashes, made>>

Stopped(row) == [row EXCEPT !.state = "interrupted", !.stage = "interrupted"]

\* reconcile_legacy_python_stages: a text that was complete can be delivered ...
ReconcileTranscribed ==
  LET Which(row) == row.state = "transcribed" /\ row.stage = "transcribed" /\ row.text
      New(row) == [row EXCEPT !.state = "captured", !.stage = "ready_to_deliver",
                              !.status = "not_attempted"]
  IN /\ Step("legacy", "stopped") /\ Rewrite(Which, New)
     /\ UNCHANGED <<columns, live, counted, sent, before, crashes, made>>

\* ... and what was not is interrupted.
ReconcileStopped ==
  LET Which(row) == row.stage \in {"transcribed", "cleanup", "replacements"}
  IN /\ Step("stopped", "ambiguous") /\ Rewrite(Which, Stopped)
     /\ UNCHANGED <<columns, live, counted, sent, before, crashes, made>>

\* reconcile_ambiguous_deliveries: the text may have arrived, so it is never
\* delivered again without the user's word.
PerhapsDelivered(row) ==
  \/ row.status = "attempting"
  \/ row.state = "delivering" /\ row.stage = "delivering" /\ row.status = "not_attempted"
OnlyAttempting(row) == row.status = "attempting"
Ambiguous(row) == PerhapsDelivered(row)
ReconcileAmbiguous ==
  LET New(row) == [row EXCEPT !.state = "failed", !.stage = "failed", !.status = "ambiguous"]
  IN /\ Step("ambiguous", "interrupted") /\ Rewrite(Ambiguous, New)
     /\ UNCHANGED <<columns, live, counted, sent, before, crashes, made>>

\* reconcile_interrupted_jobs: nobody works on these any more.
ReconcileInterrupted ==
  LET Which(row) == row.stage \in {"starting", "recording", "transcribing", "cleaning"}
  IN /\ Step("interrupted", "policy") /\ Rewrite(Which, Stopped)
     /\ UNCHANGED <<columns, live, counted, sent, before, crashes, made>>

\* ensure_completion_recording_policy, one transaction: the column and the mark
\* on every row that was delivered before it. Whether such a row's history was
\* erased or never written is not known, so it is never written again.
CompletionPolicy ==
  LET Which(row) == "allowed" \notin columns /\ row.stage = "delivered"
      New(row) == [row EXCEPT !.allowed = FALSE]
  IN /\ Step("policy", "open") /\ Rewrite(Which, New)
     /\ columns' = columns \cup {"allowed"}
     /\ UNCHANGED <<live, counted, sent, before, crashes, made>>

-----------------------------------------------------------------------------
(* The daemon that opened it, and its background writer.                   *)

\* start_recording, and each later checkpoint of the job it works on.
StartRecording(j) ==
  /\ opening = "open" /\ live = NoJob /\ ~Present(j) /\ made < MaxNew
  /\ made' = made + 1 /\ live' = j
  /\ rows' = [rows EXCEPT ![j] =
       [Row("active", "starting", FALSE, "not_attempted") EXCEPT !.id = TRUE]]
  /\ counted' = counted \ {j} /\ sent' = sent \ {j} /\ before' = before \ {j}
  /\ UNCHANGED <<columns, opening, crashes>>

Checkpoint ==
  \E move \in {<<"starting", "recording">>, <<"recording", "captured">>,
               <<"captured", "transcribing">>, <<"transcribing", "cleaning">>,
               <<"cleaning", "ready_to_deliver">>, <<"transcribing", "no_speech">>} :
    /\ opening = "open" /\ live # NoJob /\ rows[live].stage = move[1]
    /\ rows' = [rows EXCEPT ![live].stage = move[2], ![live].state = StateOf(move[2]),
                            ![live].text = move[2] = "ready_to_deliver"]
    /\ live' = IF move[2] = "no_speech" THEN NoJob ELSE live
    /\ UNCHANGED <<columns, opening, counted, sent, before, crashes, made>>

\* The attempt is written down before the text is given away.
Attempt(j) ==
  /\ opening = "open" /\ (live = NoJob \/ live = j) /\ Present(j)
  /\ rows[j].stage = "ready_to_deliver" /\ rows[j].status = "not_attempted"
  /\ rows' = [rows EXCEPT ![j].status = "attempting"]
  /\ live' = j /\ sent' = sent \cup {j}
  /\ UNCHANGED <<columns, opening, counted, before, crashes, made>>

Submitted ==
  /\ opening = "open" /\ live # NoJob /\ rows[live].status = "attempting"
  /\ rows' = [rows EXCEPT ![live].stage = "delivered", ![live].state = "delivered",
                          ![live].status = "submitted"]
  /\ live' = NoJob
  /\ UNCHANGED <<columns, opening, counted, sent, before, crashes, made>>

\* clean_up_finished_jobs on a connection of open_background_writer: usage and
\* history of a delivered job that a crash left, unless they must not be written.
CleanUp(j) ==
  /\ opening = "open" /\ live # j /\ Present(j) /\ rows[j].stage \in Finished
  /\ rows' = [rows EXCEPT ![j] = NoRow]
  /\ counted' = IF rows[j].stage = "delivered" /\ rows[j].allowed
                  THEN counted \cup {j} ELSE counted
  /\ UNCHANGED <<columns, opening, live, sent, before, crashes, made>>

\* The process ends, at any point; what was committed stays (synchronous = FULL).
Crash ==
  /\ opening # "closed" /\ crashes < MaxCrashes
  /\ opening' = "closed" /\ live' = NoJob /\ crashes' = crashes + 1
  /\ UNCHANGED <<columns, rows, counted, sent, before, made>>

Opening ==
  \/ Begin \/ AddColumn \/ HasColumns \/ HasIds
  \/ (\E j \in Jobs : BackfillId(j))
  \/ ReconcileTranscribed \/ ReconcileStopped
  \/ ReconcileAmbiguous \/ ReconcileInterrupted \/ CompletionPolicy

Next ==
  \/ Opening \/ Crash \/ Checkpoint \/ Submitted
  \/ (\E j \in Jobs : StartRecording(j))
  \/ (\E j \in Jobs : Attempt(j))
  \/ (\E j \in Jobs : CleanUp(j))

Spec == Init /\ [][Next]_vars

-----------------------------------------------------------------------------
(* Properties                                                              *)

\* Once the database is open every job that is not finished and that nobody works
\* on is on the recovery page, whichever version left it and wherever an earlier
\* opening was cut off (migration_parity.rs).
NothingIsStranded ==
  opening = "open" =>
    {j \in Recoverable : j # live /\ rows[j].status # "attempting"} \subseteq RecoveryEntries

\* A text that perhaps arrived is never again ready to be delivered: not after a
\* crash, and not when the Python application was the one that began.
NeverSentTwice ==
  opening = "open" =>
    \A j \in sent : Present(j) /\ rows[j].stage = "ready_to_deliver" =>
                      j = live /\ rows[j].status = "attempting"

\* What was delivered before completions were tracked is never counted by the
\* clean-up, however often the migration is cut off (runtime.rs:744-747).
OldStaysUncounted == before \cap counted = {}

-----------------------------------------------------------------------------
(* Their invariant: what each step of an opening has put in order.         *)

Legacy == {"transcribed", "cleanup", "replacements"}
Underway == {"starting", "recording", "transcribing", "cleaning"}
Openings == {"closed", "columns", "ids", "legacy", "stopped", "ambiguous", "interrupted", "policy",
             "open"}

States == {"none", "active", "captured", "transcribed", "delivering", "delivered",
           "no_speech", "deleted", "interrupted", "failed", "canceled"}
Statuses == {"none", "not_attempted", "attempting", "submitted", "committed", "ambiguous"}
AllStages == Stages \cup Legacy \cup {"none"}
Rows == [state : States, stage : AllStages, text : BOOLEAN,
         status : Statuses, id : BOOLEAN, allowed : BOOLEAN]

Typed ==
  /\ rows \in [Jobs -> Rows] /\ opening \in Openings /\ live \in Jobs \cup {NoJob}
  /\ sent \subseteq Jobs /\ before \subseteq Jobs

\* A row is finished by its stage as by its state, and its delivery is as far as its
\* stage says.
Coherent(row) ==
  /\ row.stage \in Stages \cup Legacy
  /\ row.stage \in Finished => row.state \in Finished
  /\ row.stage = "delivering" => row.state = "delivering" /\ row.status = "not_attempted"
  /\ row.status = "attempting" => row.stage = "ready_to_deliver"

\* The steps that are done hold for all rows, but for the one the daemon works on.
Reconciled(j) ==
  /\ opening \notin {"closed", "columns", "ids"} => rows[j].id
  /\ opening \in {"ambiguous", "interrupted", "policy", "open"} => rows[j].stage \in Stages
  /\ opening \in {"interrupted", "policy", "open"} =>
       rows[j].stage # "delivering" /\ (rows[j].status # "attempting" \/ j = live)
  /\ opening \in {"policy", "open"} => rows[j].stage \notin Underway \/ j = live

\* A text that was perhaps given away stays in a stage that leads to no second delivery.
GivenAway(row) ==
  \/ row.stage \in {"delivering", "delivered", "failed"}
  \/ row.stage = "ready_to_deliver" /\ row.status = "attempting"

\* What was delivered before is marked in the step that adds the mark.
Uncounted(j) == rows[j].stage = "delivered" /\ ("allowed" \in columns => ~rows[j].allowed)

Opened ==
  /\ Typed
  /\ live # NoJob \/ opening = "open" => opening = "open" /\ "allowed" \in columns
  /\ \A j \in Jobs : Present(j) => Coherent(rows[j]) /\ Reconciled(j)
  /\ \A j \in sent : Present(j) => GivenAway(rows[j])
  /\ \A j \in before : Present(j) => Uncounted(j)
  /\ OldStaysUncounted

=============================================================================
