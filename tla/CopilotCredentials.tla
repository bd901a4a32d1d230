-------------------------- MODULE CopilotCredentials --------------------------
(***************************************************************************)
(* The ChatGPT credentials of a meeting: transcription and answer lanes    *)
(* share one cached bearer token, and one of them at a time asks Codex for *)
(* another when it is missing, about to lapse or was refused.              *)
(* Source: ChatGptCredentials and transcribe_wav_with_chatgpt in           *)
(* crates/agentdictate-app/src/codex_subscription.rs.                      *)
(*                                                                         *)
(* Tokens are numbered in the order Codex makes them.  Worn ones lapse     *)
(* within two minutes; a lane judges them by the time its call began.      *)
(***************************************************************************)
EXTENDS Naturals

CONSTANTS Lanes,      \* the threads that send requests
          MaxTokens,  \* bound on the tokens Codex makes
          MaxCalls    \* bound on the requests sent

VARIABLES
  codex,    \* the newest token
  worn,     \* the tokens about to lapse
  cached,   \* ChatGptCredentials::cached, NoToken when empty
  holder,   \* the lane that holds the provider, or "none"
  lane,     \* per lane its call of bearer and its request
  loads,    \* history: unforced questions to Codex a usable token would have spared
  calls

vars == <<codex, worn, cached, holder, lane, loads, calls>>

NoToken == 0
Idle == [state |-> "idle", forced |-> FALSE, worn |-> {}, token |-> NoToken, refused |-> NoToken]

Init ==
  /\ codex = 1 /\ worn = {} /\ cached = NoToken /\ holder = "none"
  /\ lane = [l \in Lanes |-> Idle] /\ loads = 0 /\ calls = 0

At(l, state) == lane[l].state = state

\* cached_bearer, at the time the call of bearer began.
Usable(l) == cached # NoToken /\ cached \notin lane[l].worn

Lapse ==
  /\ codex \notin worn /\ worn' = worn \cup {codex}
  /\ UNCHANGED <<codex, cached, holder, lane, loads, calls>>

\* transcribe_wav_with_chatgpt, or an answer, begins.
Begin(l) ==
  /\ At(l, "idle") /\ calls < MaxCalls /\ calls' = calls + 1
  /\ lane' = [lane EXCEPT ![l] = [Idle EXCEPT !.state = "asking", !.worn = worn]]
  /\ UNCHANGED <<codex, worn, cached, holder, loads>>

\* bearer looks at the cache.
UseCache(l) ==
  /\ At(l, "asking") /\ ~lane[l].forced /\ Usable(l)
  /\ lane' = [lane EXCEPT ![l].state = "sending", ![l].token = cached]
  /\ UNCHANGED <<codex, worn, cached, holder, loads, calls>>

MissCache(l) ==
  /\ At(l, "asking") /\ (lane[l].forced \/ ~Usable(l))
  /\ lane' = [lane EXCEPT ![l].state = "waiting"]
  /\ UNCHANGED <<codex, worn, cached, holder, loads, calls>>

TakesProvider(l) == At(l, "waiting") /\ holder = "none"

\* Mutant: the lane that waited does not look at the cache again.
NeverAgain(l) == FALSE

\* A lane ahead filled the cache meanwhile.
FilledMeanwhile(l) == ~lane[l].forced /\ Usable(l)

UseCacheAgain(l) ==
  /\ TakesProvider(l) /\ FilledMeanwhile(l)
  /\ lane' = [lane EXCEPT ![l].state = "sending", ![l].token = cached]
  /\ UNCHANGED <<codex, worn, cached, holder, loads, calls>>

\* The provider is locked and Codex is asked.
AskCodex(l) ==
  /\ TakesProvider(l) /\ ~FilledMeanwhile(l)
  /\ holder' = l
  /\ lane' = [lane EXCEPT ![l].state = "loading"]
  /\ loads' = IF ~lane[l].forced /\ Usable(l) THEN loads + 1 ELSE loads
  /\ UNCHANGED <<codex, worn, cached, calls>>

\* Mutant: a token about to lapse is taken as it is.
TokensOfAnyAge(l) == IF lane[l].forced THEN {codex + 1} ELSE {codex}

\* Codex refreshes on demand; a token about to lapse is refreshed at once.
TokensFor(l) ==
  IF lane[l].forced \/ codex \in lane[l].worn THEN {codex + 1} ELSE {codex}

\* The token is cached before the provider is released.
Loaded(l) ==
  /\ At(l, "loading")
  /\ \E t \in TokensFor(l) :
       /\ t <= MaxTokens
       /\ codex' = t /\ cached' = t
       /\ lane' = [lane EXCEPT ![l].state = "sending", ![l].token = t]
  /\ holder' = "none"
  /\ UNCHANGED <<worn, loads, calls>>

LoadFails(l) ==
  /\ At(l, "loading") /\ holder' = "none"
  /\ lane' = [lane EXCEPT ![l] = Idle]
  /\ UNCHANGED <<codex, worn, cached, loads, calls>>

\* 401 or 403 to the first attempt.
Refused(l) ==
  /\ At(l, "sending") /\ ~lane[l].forced
  /\ lane' = [lane EXCEPT ![l] = [Idle EXCEPT !.state = "asking", !.forced = TRUE,
                                              !.worn = worn, !.refused = lane[l].token]]
  /\ UNCHANGED <<codex, worn, cached, holder, loads, calls>>

\* Any other answer ends the request.
Answered(l) ==
  /\ At(l, "sending") /\ lane' = [lane EXCEPT ![l] = Idle]
  /\ UNCHANGED <<codex, worn, cached, holder, loads, calls>>

Next ==
  \/ Lapse
  \/ \E l \in Lanes : \/ Begin(l) \/ UseCache(l) \/ MissCache(l) \/ UseCacheAgain(l)
                      \/ AskCodex(l) \/ Loaded(l) \/ LoadFails(l)
                      \/ Refused(l) \/ Answered(l)

Spec == Init /\ [][Next]_vars

-----------------------------------------------------------------------------
(* Properties.                                                             *)

\* Lanes that miss the cache together ask Codex once (codex_subscription.rs:
\* 646-648).
LanesAskOnce == loads = 0

\* A request is sent with a token that had two minutes left when it was asked
\* for, and a repeated one never with the token that was just refused.
BearersAreUsable ==
  \A l \in Lanes : At(l, "sending") =>
    lane[l].token \notin lane[l].worn /\ lane[l].token # lane[l].refused

\* The inductive invariant: no token is newer than Codex's newest, a request that was
\* not refused yet excludes none but the worn, and none of them is no token.
Dated ==
  /\ codex \in Nat /\ codex > 0 /\ worn \subseteq 1..codex /\ cached \in 0..codex
  /\ lane \in [Lanes -> [state : {"idle", "asking", "waiting", "loading", "sending"},
                         forced : BOOLEAN, worn : SUBSET (1..codex), token : 0..codex,
                         refused : 0..codex]]
  /\ \A l \in Lanes : ~lane[l].forced => lane[l].refused = NoToken
  /\ LanesAskOnce /\ BearersAreUsable

=============================================================================
