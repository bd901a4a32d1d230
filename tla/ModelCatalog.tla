----------------------------- MODULE ModelCatalog -----------------------------
(***************************************************************************)
(* The list of models an API key may use: shown from memory, refreshed by  *)
(* background threads that may answer late and in any order, and kept in a *)
(* cache file that a key change or the next start falls back to.           *)
(* Source: crates/agentdictate-app/src/model_catalog.rs and the commands   *)
(* of process.rs that start a refresh.                                     *)
(*                                                                         *)
(* A list is the key it was fetched with and the version the service had.  *)
(***************************************************************************)
EXTENDS Naturals

CONSTANTS Keys,          \* the API keys; "none" is the empty one
          MaxRefreshes,  \* bound on the refreshes started
          MaxVersions,   \* bound on the versions of a key's list
          MaxStarts      \* bound on the starts of the daemon

VARIABLES
  service,  \* per key the version of its list
  key,      \* settings.openai_api_key, which survives a restart
  catalog,  \* ModelCatalogState
  file,     \* model-catalog.json
  threads,  \* the refreshes in progress
  late,     \* history: a list was replaced by one fetched before it
  refreshes, starts

vars == <<service, key, catalog, file, threads, late, refreshes, starts>>

Bundled == [key |-> "bundled", version |-> 0]
NoFile == [key |-> "absent", list |-> Bundled, failed |-> "no"]
BadFile == [key |-> "invalid", list |-> Bundled, failed |-> "no"]

Builtin(k, status) ==
  [key |-> k, list |-> Bundled, origin |-> "Bundled", status |-> status, generation |-> 0]

\* Mutant: the cache serves any key.
AnyCached(k) ==
  IF file = NoFile THEN Builtin(k, "Builtin")
  ELSE IF file = BadFile THEN Builtin(k, "FailedBuiltin")
  ELSE [key |-> k, list |-> file.list, generation |-> 0,
        origin |-> IF file.failed = "Builtin" THEN "Bundled" ELSE "Account",
        status |-> CASE file.failed = "no" -> "Cached"
                     [] file.failed = "Cached" -> "FailedCached"
                     [] file.failed = "Builtin" -> "FailedBuiltin"]

\* fallback_state: what the cache says of this key, else the bundled list.
Fallback(k) ==
  IF file = NoFile THEN Builtin(k, "Builtin")
  ELSE IF file = BadFile THEN Builtin(k, "FailedBuiltin")
  ELSE IF file.key # k THEN Builtin(k, "Builtin")
  ELSE [key |-> k, list |-> file.list, generation |-> 0,
        origin |-> IF file.failed = "Builtin" THEN "Bundled" ELSE "Account",
        status |-> CASE file.failed = "no" -> "Cached"
                     [] file.failed = "Cached" -> "FailedCached"
                     [] file.failed = "Builtin" -> "FailedBuiltin"]

Init ==
  /\ service = [k \in Keys |-> 1] /\ key \in Keys \cup {"none"}
  /\ file \in {NoFile, BadFile} /\ catalog = Fallback(key)
  /\ threads = {} /\ late = FALSE /\ refreshes = 0 /\ starts = 1

\* refresh_in_background: another key falls back first; the generation of the
\* catalog counts the refreshes.
Refresh(k) ==
  LET base == IF catalog.key # k THEN Fallback(k) ELSE catalog
      generation == catalog.generation + 1
  IN /\ refreshes < MaxRefreshes /\ refreshes' = refreshes + 1
     /\ catalog' = [base EXCEPT !.generation = generation]
     /\ threads' = IF k = "none" THEN threads
                   ELSE threads \cup {[key |-> k, generation |-> generation,
                                       answer |-> "none", version |-> 0]}

\* RefreshModelCatalog.
RefreshCommand ==
  /\ Refresh(key)
  /\ UNCHANGED <<service, key, file, late, starts>>

\* The user saves another key.
SetApiKey(k) ==
  /\ k # key /\ key' = k /\ Refresh(k)
  /\ UNCHANGED <<service, file, late, starts>>

\* list_model_ids returns: the list as it is now, or an error.
ServiceAnswers(t) ==
  /\ t \in threads /\ t.answer = "none"
  /\ \E a \in {"list", "error"} :
       threads' = (threads \ {t}) \cup
                  {[t EXCEPT !.answer = a, !.version = IF a = "list" THEN service[t.key] ELSE 0]}
  /\ UNCHANGED <<service, key, catalog, file, late, refreshes, starts>>

\* Mutant: only the key is compared.
SameKey(t) == catalog.key = t.key

\* Neither another refresh nor another key came after this one.
IsNewest(t) == catalog.generation = t.generation /\ catalog.key = t.key

\* write_atomic: the file is replaced, or kept when that fails.
Persists(f) == file' \in {file, f}

Discard(t) ==
  /\ t \in threads /\ t.answer # "none" /\ ~IsNewest(t)
  /\ threads' = threads \ {t}
  /\ UNCHANGED <<service, key, catalog, file, late, refreshes, starts>>

Succeed(t) ==
  /\ t \in threads /\ t.answer = "list" /\ IsNewest(t)
  /\ threads' = threads \ {t}
  /\ LET list == [key |-> t.key, version |-> t.version]
     IN /\ Persists([key |-> t.key, list |-> list, failed |-> "no"])
        /\ catalog' = [catalog EXCEPT !.list = list, !.origin = "Account", !.status = "Live"]
        /\ late' = (late \/ (catalog.status = "Live" /\ t.version < catalog.list.version))
  /\ UNCHANGED <<service, key, refreshes, starts>>

\* The models stay what they were, and so does where they came from.
Fail(t) ==
  /\ t \in threads /\ t.answer = "error" /\ IsNewest(t)
  /\ threads' = threads \ {t}
  /\ LET fallback == IF catalog.origin = "Bundled" THEN "Builtin" ELSE "Cached"
     IN /\ Persists([key |-> t.key, list |-> catalog.list, failed |-> fallback])
        /\ catalog' = [catalog EXCEPT !.status = IF fallback = "Builtin" THEN "FailedBuiltin"
                                                 ELSE "FailedCached"]
  /\ UNCHANGED <<service, key, late, refreshes, starts>>

Restart ==
  /\ starts < MaxStarts /\ starts' = starts + 1
  /\ catalog' = Fallback(key) /\ threads' = {}
  /\ UNCHANGED <<service, key, file, late, refreshes>>

\* The account is given other models.
NewModels(k) ==
  /\ service[k] < MaxVersions /\ service' = [service EXCEPT ![k] = @ + 1]
  /\ UNCHANGED <<key, catalog, file, threads, late, refreshes, starts>>

Next ==
  \/ RefreshCommand \/ Restart
  \/ \E k \in Keys \cup {"none"} : SetApiKey(k)
  \/ \E k \in Keys : NewModels(k)
  \/ \E t \in threads : ServiceAnswers(t) \/ Discard(t) \/ Succeed(t) \/ Fail(t)

Spec == Init /\ [][Next]_vars

-----------------------------------------------------------------------------
(* Properties.                                                             *)

\* What is offered as the account's models was fetched with the key in use and
\* is called bundled exactly when it is, in memory and in the file, whichever
\* threads answer late and wherever a write or a start comes in between.
ModelsAreTheAccounts ==
  /\ catalog.key = key
  /\ IF catalog.origin = "Account" THEN catalog.list.key = key ELSE catalog.list = Bundled
  /\ file.list # Bundled => file.list.key = file.key
  /\ file.failed = "Builtin" => file.list = Bundled

\* A list is never replaced by one the service answered with earlier.
NoLateList == ~late

=============================================================================
