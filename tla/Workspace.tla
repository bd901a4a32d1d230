------------------------------ MODULE Workspace ------------------------------
(***************************************************************************)
(* The main window's workspace: WorkspaceClient caches what the daemon     *)
(* answered, the history lane and the other actions of the window run on   *)
(* background threads, and a watcher thread asks again after every write   *)
(* to the database.  Source: crates/agentdictate-app/src/workspace.rs,     *)
(* crates/agentdictate-ui/src/desktop/workspace_actions.rs,                *)
(* history_action_lane.rs and ../desktop.rs.                               *)
(*                                                                         *)
(* Transcripts are numbered in the order they were saved, and of a         *)
(* workspace only the history list is kept: the rows of one list are a     *)
(* set, because every answer holds them newest first.                      *)
(***************************************************************************)
EXTENDS Integers, FiniteSets, Sequences

CONSTANTS FirstRows,   \* transcripts saved before the window opens
          MaxRows,     \* bound on the transcripts saved
          MaxGestures  \* bound on what the user does in the window

VARIABLES
  rows,     \* the number of saved transcripts
  client,   \* WorkspaceClientState
  thread,   \* what each background thread of the window is doing
  gate,     \* the thread that holds request_gate, or "none"
  changed,  \* the watcher has unread file events
  lane,     \* HistoryActionLane
  ui,       \* the window's copy of the workspace, and the query in its field
  updates,  \* projections on their way from the watcher to the window
  asked,    \* history: the query of the last SearchHistory performed
  gestures  \* what the user did so far

vars == <<rows, client, thread, gate, changed, lane, ui, updates, asked, gestures>>

Threads == {"history", "action", "watch"}
Queries == {"", "even", "odd"}
RowsAtOnce == 1             \* of a first page and of a continuation
NoQuery == "none"

Newest(S, n) == {r \in S : Cardinality({s \in S : s > r}) < n}
Matches(q) == {r \in 1..rows : \/ q = ""
                               \/ q = "even" /\ r % 2 = 0
                               \/ q = "odd" /\ r % 2 = 1}

\* history_page: the rows after the cursor and the cursor that follows them.
PageAfter(q, after) ==
  LET left == {r \in Matches(q) : after = 0 \/ r < after}
      page == Newest(left, RowsAtOnce)
  IN [rows |-> page,
      cursor |-> IF page # left THEN CHOOSE r \in page : \A s \in page : r <= s ELSE 0]

Idle == [step |-> "idle", kind |-> "none", query |-> "", after |-> 0, follow |-> FALSE,
         ok |-> FALSE, restarted |-> FALSE, rows |-> {}, cursor |-> 0]

Init ==
  /\ rows = FirstRows
  /\ client = [search |-> "", rows |-> PageAfter("", 0).rows,
               cursor |-> PageAfter("", 0).cursor, customized |-> FALSE]
  /\ thread = [t \in Threads |-> Idle]
  /\ gate = "none" /\ changed = FALSE
  /\ lane = [busy |-> FALSE, pending |-> NoQuery]
  /\ ui = [rows |-> client.rows, search |-> "", typed |-> ""]
  /\ updates = <<>> /\ asked = "" /\ gestures = 0

-----------------------------------------------------------------------------
(* The window.                                                             *)

\* HistoryActionLane::schedule and the start of the background task.
Starts(kind, query) == [Idle EXCEPT !.step = "start", !.kind = kind, !.query = query]

TypeQuery(q) ==
  /\ gestures < MaxGestures /\ q # ui.typed
  /\ gestures' = gestures + 1 /\ ui' = [ui EXCEPT !.typed = q]
  /\ \/ /\ lane.busy
        /\ lane' = [lane EXCEPT !.pending = q] /\ UNCHANGED thread
     \/ /\ ~lane.busy
        /\ lane' = [lane EXCEPT !.busy = TRUE]
        /\ thread' = [thread EXCEPT !["history"] = Starts("search", q)]
  /\ UNCHANGED <<rows, client, gate, changed, updates, asked>>

PressLoadMore ==
  /\ gestures < MaxGestures /\ ~lane.busy
  /\ gestures' = gestures + 1
  /\ lane' = [lane EXCEPT !.busy = TRUE]
  /\ thread' = [thread EXCEPT !["history"] = Starts("more", "")]
  /\ UNCHANGED <<rows, client, gate, changed, ui, updates, asked>>

\* Another action: a command to the daemon, or one answered from the cache.
Act(kind) ==
  /\ gestures < MaxGestures /\ thread["action"].step = "idle"
  /\ gestures' = gestures + 1
  /\ thread' = [thread EXCEPT !["action"] = Starts(kind, "")]
  /\ UNCHANGED <<rows, client, gate, changed, lane, ui, updates, asked>>

-----------------------------------------------------------------------------
(* WorkspaceClient::perform and refresh.                                   *)

Projected(t, c) == [thread[t] EXCEPT !.step = "done", !.ok = TRUE,
                                     !.rows = c.rows, !.query = c.search]

\* The first lock of perform: the query or the choice to see more is recorded.
Mark(t) ==
  LET now == thread[t]
      marked == CASE now.kind = "search" -> [client EXCEPT !.search = now.query, !.cursor = 0,
                                               !.customized = now.query # ""]
                  [] now.kind = "more" -> [client EXCEPT !.customized = TRUE]
                  [] OTHER -> client
  IN /\ now.step = "start"
     /\ client' = marked
     /\ asked' = IF now.kind = "search" THEN now.query ELSE asked
     /\ thread' = [thread EXCEPT ![t] =
          CASE now.kind = "local" -> Projected(t, client)
            [] now.kind = "command" -> [now EXCEPT !.step = "ready"]
            [] OTHER -> [now EXCEPT !.step = "marked"]]
     /\ UNCHANGED <<rows, gate, changed, lane, ui, updates, gestures>>

\* refresh_history_page reads the query and the cursor before it takes the gate.
ReadsCursor(now) ==
  [now EXCEPT !.step = "ready", !.query = client.search,
              !.after = IF now.kind = "more" THEN client.cursor ELSE 0]

Read(t) ==
  /\ thread[t].step = "marked"
  /\ thread' = [thread EXCEPT ![t] =
       IF thread[t].kind = "more" /\ client.cursor = 0 THEN Projected(t, client)
       ELSE ReadsCursor(thread[t])]
  /\ UNCHANGED <<rows, client, gate, changed, lane, ui, updates, asked, gestures>>

\* The watcher wakes: refresh looks whether the list has to be read again too.
Wake ==
  /\ changed /\ thread["watch"].step = "idle"
  /\ changed' = FALSE
  /\ thread' = [thread EXCEPT !["watch"] = [Idle EXCEPT !.step = "ready", !.kind = "command",
                                                        !.follow = client.customized]]
  /\ UNCHANGED <<rows, client, gate, lane, ui, updates, asked, gestures>>

\* A request under the gate.  The daemon answers now and the answer is applied
\* later.  A cursor of another search plan restarts the list.
Ask(t) ==
  LET now == thread[t]
      isPage == now.kind # "command"
      query == IF isPage THEN now.query ELSE ""
  IN /\ now.step = "ready" /\ gate = "none"
     /\ gate' = t
     /\ \E ok \in BOOLEAN, restarted \in BOOLEAN :
          /\ restarted => now.after # 0 /\ query # "" /\ ok
          /\ LET page == PageAfter(query, IF restarted THEN 0 ELSE now.after)
             IN thread' = [thread EXCEPT ![t] =
                  [now EXCEPT !.step = "asked", !.ok = ok, !.restarted = restarted,
                              !.rows = page.rows, !.cursor = page.cursor]]
     /\ UNCHANGED <<rows, client, changed, lane, ui, updates, asked, gestures>>

PageAnswerAnyQuery(now) ==
  [client EXCEPT !.cursor = now.cursor, !.search = now.query,
                 !.rows = IF now.kind = "more" /\ ~now.restarted
                          THEN @ \cup now.rows ELSE now.rows]

\* The answer to get_history_page: one for another query is dropped.
PageAnswer(now) ==
  IF client.search # now.query THEN client
  ELSE [client EXCEPT !.cursor = now.cursor, !.search = now.query,
                      !.rows = IF now.kind = "more" /\ ~now.restarted
                               THEN @ \cup now.rows ELSE now.rows]

\* The answer to a workspace command: a list the user shaped is kept.
WorkspaceAnswer(now) ==
  IF client.customized THEN client
  ELSE [client EXCEPT !.cursor = now.cursor, !.rows = now.rows, !.search = ""]

Answered(now) ==
  IF ~now.ok THEN client
  ELSE IF now.kind = "command" THEN WorkspaceAnswer(now) ELSE PageAnswer(now)

\* The answer is applied and the gate opens; refresh goes on to the page.
Apply(t) ==
  LET now == thread[t]
  IN /\ now.step = "asked"
     /\ gate' = "none" /\ client' = Answered(now)
     /\ thread' = [thread EXCEPT ![t] =
          IF ~now.ok THEN [now EXCEPT !.step = "done"]
          ELSE IF now.follow THEN [Idle EXCEPT !.step = "marked", !.kind = "page"]
          ELSE Projected(t, client')]
     /\ UNCHANGED <<rows, changed, lane, ui, updates, asked, gestures>>

\* The watcher sends its projection; a failed refresh is only logged.
Publish ==
  /\ thread["watch"].step = "done"
  /\ updates' = IF thread["watch"].ok
                THEN Append(updates, [rows |-> thread["watch"].rows,
                                      search |-> thread["watch"].query])
                ELSE updates
  /\ thread' = [thread EXCEPT !["watch"] = Idle]
  /\ UNCHANGED <<rows, client, gate, changed, lane, ui, asked, gestures>>

-----------------------------------------------------------------------------
(* The window's foreground: results and updates, in any order.             *)

\* HistoryActionLane::complete: a queued query makes this result obsolete.
NeverObsolete == FALSE
Obsolete == lane.pending # NoQuery

LaneCompletes ==
  LET now == thread["history"]
  IN /\ now.step = "done"
     /\ ui' = IF ~Obsolete /\ now.ok
              THEN [ui EXCEPT !.rows = now.rows, !.search = now.query] ELSE ui
     /\ lane' = [busy |-> lane.pending # NoQuery, pending |-> NoQuery]
     /\ thread' = [thread EXCEPT !["history"] =
          IF lane.pending # NoQuery THEN Starts("search", lane.pending) ELSE Idle]
     /\ UNCHANGED <<rows, client, gate, changed, updates, asked, gestures>>

ActionCompletes ==
  LET now == thread["action"]
  IN /\ now.step = "done"
     /\ ui' = IF now.ok THEN [ui EXCEPT !.rows = now.rows, !.search = now.query] ELSE ui
     /\ thread' = [thread EXCEPT !["action"] = Idle]
     /\ UNCHANGED <<rows, client, gate, changed, lane, updates, asked, gestures>>

\* apply_workspace_update.
UpdateArrives ==
  /\ updates # <<>>
  /\ updates' = Tail(updates)
  /\ ui' = [ui EXCEPT !.rows = Head(updates).rows, !.search = Head(updates).search]
  /\ UNCHANGED <<rows, client, thread, gate, changed, lane, asked, gestures>>

\* External: the daemon saves a transcript, which the watcher sees.
SaveTranscript ==
  /\ rows < MaxRows
  /\ rows' = rows + 1 /\ changed' = TRUE
  /\ UNCHANGED <<client, thread, gate, lane, ui, updates, asked, gestures>>

Next ==
  \/ \E q \in Queries : TypeQuery(q)
  \/ PressLoadMore
  \/ \E kind \in {"command", "local"} : Act(kind)
  \/ \E t \in Threads : Mark(t) \/ Read(t) \/ Ask(t) \/ Apply(t)
  \/ Wake \/ Publish
  \/ LaneCompletes \/ ActionCompletes \/ UpdateArrives
  \/ SaveTranscript

Spec == Init /\ [][Next]_vars

-----------------------------------------------------------------------------
\* No answer, however late, changes the query the client lists for: it is the
\* one searched for last (workspace.rs, refresh_history_page).
ListAnswersQuery == client.search = asked

\* "An obsolete response must never replace a newer query": what the history
\* lane shows is the answer to the query in the field when it completes.
ShowsTypedQuery == LaneCompletes /\ ui' # ui => ui'.search = ui.typed
LaneShowsTypedQuery == [][ShowsTypedQuery]_vars

\* Requests "are serialized so an older response cannot overwrite a newer local
\* snapshot": the list never skips a transcript between two that it shows.
ListHasNoGap ==
  \A newer, older \in client.rows : \A r \in Matches(client.search) :
    older < r /\ r < newer => r \in client.rows

\* The same comment for the whole window: once it shows the answer to the query
\* in its field, only typing another one changes what it lists for.
AnswerIsKept ==
  [][ui.search = ui.typed /\ ~lane.busy /\ ui'.search # ui.search => ui'.typed # ui.typed]_vars
=============================================================================
