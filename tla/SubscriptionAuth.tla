--------------------------- MODULE SubscriptionAuth ---------------------------
(***************************************************************************)
(* Credentials of a ChatGPT subscription for dictation.  While a recording *)
(* runs a worker thread asks Codex for them; the upload that follows takes *)
(* what was prepared for this very recording and else asks again.  A       *)
(* refused upload is repeated once with refreshed credentials.             *)
(* Source: crates/agentdictate-app/src/codex_subscription.rs, the routing  *)
(* of openai.rs and the calls of daemon.rs.                                *)
(*                                                                         *)
(* Credentials are numbered in the order Codex hands them out; a new       *)
(* number is a refreshed token or another account.  Worn ones lapse within *)
(* two minutes.                                                            *)
(***************************************************************************)
EXTENDS Naturals

CONSTANTS MaxJobs,     \* bound on the recordings
          MaxTokens    \* bound on the credentials handed out

VARIABLES
  current,    \* what Codex hands out now
  worn,       \* the credentials about to lapse
  job,        \* the newest recording; each has its own audio path
  open,       \* its recorder runs
  floor,      \* history: what Codex handed out when each recording began
  prepared,   \* CodexSubscriptionTransport::prepared_auth, path 0 for none
  request,    \* the upload in progress, if any
  sent        \* history: the newest upload

vars == <<current, worn, job, open, floor, prepared, request, sent>>
codex == <<current, worn>>

Jobs == 1..MaxJobs
NoToken == 0
Nothing == [job |-> 0, path |-> 0, token |-> NoToken, state |-> "done"]
NoRequest == [job |-> 0, state |-> "none", token |-> NoToken, refreshed |-> FALSE]

Init ==
  /\ current = 1 /\ worn = {} /\ job = 0 /\ open = FALSE
  /\ floor = [j \in Jobs |-> NoToken]
  /\ prepared = Nothing /\ request = NoRequest
  /\ sent = [job |-> 0, token |-> NoToken]

-----------------------------------------------------------------------------
(* Codex and the user.                                                     *)

\* The user signs in again, perhaps with another account.
SignIn ==
  /\ current < MaxTokens /\ current' = current + 1
  /\ UNCHANGED <<worn, job, open, floor, prepared, request, sent>>

Lapse ==
  /\ current \notin worn /\ worn' = worn \cup {current}
  /\ UNCHANGED <<current, job, open, floor, prepared, request, sent>>

\* load: what a call of the app server can return; NoToken is an error.
Loads(refresh) ==
  IF ~refresh THEN {NoToken, current}
  ELSE IF current < MaxTokens THEN {NoToken, current + 1} ELSE {NoToken}

-----------------------------------------------------------------------------
(* begin_recording and cancel_recording.                                   *)

\* prepare_auth: one worker at most.  Without a thread, with several languages
\* or for another provider, whatever was prepared stays.
BeginRecording ==
  /\ ~open /\ request = NoRequest /\ job < MaxJobs
  /\ job' = job + 1 /\ open' = TRUE /\ floor' = [floor EXCEPT ![job'] = current]
  /\ \/ UNCHANGED prepared
     \/ prepared.state = "done"
        /\ prepared' = [job |-> job', path |-> job', token |-> NoToken, state |-> "loading"]
  /\ UNCHANGED <<codex, request, sent>>

\* The worker, which holds the provider while it asks Codex.
WorkerLoads ==
  /\ prepared.state = "loading"
  /\ \E t \in Loads(FALSE) : prepared' = [prepared EXCEPT !.token = t, !.state = "done"]
  /\ UNCHANGED <<codex, job, open, floor, request, sent>>

\* Only the worker of this recording is disowned; nobody waits for it.
CancelRecording ==
  /\ open /\ open' = FALSE
  /\ prepared' = IF prepared.job = job THEN [prepared EXCEPT !.job = 0] ELSE prepared
  /\ UNCHANGED <<codex, job, floor, request, sent>>

\* The stop is checkpointed but the database refuses to begin the
\* transcription: nothing is cancelled.
ProcessingRefused ==
  /\ open /\ open' = FALSE
  /\ UNCHANGED <<codex, job, floor, prepared, request, sent>>

-----------------------------------------------------------------------------
(* transcribe.                                                             *)

\* The recording just stopped, or any from Recovery.
Transcribe(j) ==
  /\ request = NoRequest /\ j <= job /\ (open => j = job)
  /\ open' = FALSE
  /\ request' = [NoRequest EXCEPT !.job = j, !.state = "authorizing"]
  /\ UNCHANGED <<codex, job, floor, prepared, sent>>

Authorizing(state) == request.state = state /\ UNCHANGED <<worn, job, open, floor, sent>>

\* load hands the request credentials, or ends it.
Authorize(refresh) ==
  \E t \in Loads(refresh) :
    /\ request' = IF t = NoToken THEN NoRequest
                  ELSE [request EXCEPT !.state = "sending", !.token = t]
    /\ current' = IF t = NoToken THEN current ELSE t

\* Mutant: prepared credentials serve any recording.
ServesAny(j) == prepared.job # 0

\* Credentials prepared for this recording and not disowned.
PreparedFor(j) == prepared.job # 0 /\ prepared.path = j

\* recording_auth takes and joins the worker.  Credentials about to lapse are
\* refreshed; a failed preparation leads to a check in the foreground.
TakePrepared ==
  /\ Authorizing("authorizing")
  /\ PreparedFor(request.job) /\ prepared.state = "done"
  /\ prepared' = Nothing
  /\ IF prepared.token = NoToken THEN UNCHANGED <<request, current>>
     ELSE IF prepared.token \in worn THEN Authorize(TRUE)
     ELSE /\ request' = [request EXCEPT !.state = "sending", !.token = prepared.token]
          /\ UNCHANGED current

\* ... or disowns it and waits for the provider.
CheckAgain ==
  /\ Authorizing("authorizing")
  /\ ~PreparedFor(request.job) /\ prepared.state = "done"
  /\ prepared' = [prepared EXCEPT !.job = 0]
  /\ Authorize(FALSE)

\* The service accepts the upload or answers with an error.
Send ==
  /\ request.state = "sending"
  /\ sent' = [job |-> request.job, token |-> request.token]
  /\ request' = NoRequest
  /\ UNCHANGED <<codex, job, open, floor, prepared>>

\* 401 or 403 to the first attempt.
Refused ==
  /\ request.state = "sending" /\ ~request.refreshed
  /\ sent' = [job |-> request.job, token |-> request.token]
  /\ request' = [request EXCEPT !.state = "refreshing", !.refreshed = TRUE]
  /\ UNCHANGED <<codex, job, open, floor, prepared>>

Refresh ==
  /\ Authorizing("refreshing") /\ prepared.state = "done"
  /\ Authorize(TRUE) /\ UNCHANGED prepared

Next ==
  \/ SignIn \/ Lapse
  \/ BeginRecording \/ WorkerLoads \/ CancelRecording \/ ProcessingRefused
  \/ \E j \in Jobs : Transcribe(j)
  \/ TakePrepared \/ CheckAgain \/ Send \/ Refused \/ Refresh

Spec == Init /\ [][Next]_vars

-----------------------------------------------------------------------------
(* Property.                                                               *)

\* A recording is uploaded only with credentials Codex handed out after it
\* began: a worker that was disowned, outlived its recording or was kept from
\* being replaced never lends its account to a later one ("Credentials are
\* never reused across recordings", codex_subscription.rs:263).
CredentialsAreItsOwn == sent.job # 0 => sent.token >= floor[sent.job]

\* The inductive invariant: credentials at hand for a recording, whoever prepared or
\* asked for them, are no older than what Codex handed out when it began.
Given(j, token) == j \in 1..job /\ token \in Nat /\ token >= floor[j]
Earmarked ==
  /\ current \in Nat /\ job \in 0..MaxJobs /\ floor \in [Jobs -> Nat]
  /\ \A j \in Jobs : floor[j] <= current
  /\ prepared \in [job : Nat, path : 0..job, token : Nat, state : {"loading", "done"}]
  /\ prepared.path # 0 /\ prepared.token # NoToken => Given(prepared.path, prepared.token)
  /\ prepared.state = "loading" => prepared.token = NoToken
  /\ request \in [job : 0..job, token : Nat, refreshed : BOOLEAN,
                  state : {"none", "authorizing", "sending", "refreshing"}]
  /\ request.state # "none" => request.job # 0
  /\ request.state = "sending" => Given(request.job, request.token)
  /\ sent \in [job : 0..job, token : Nat]
  /\ sent.job # 0 => Given(sent.job, sent.token)

=============================================================================
