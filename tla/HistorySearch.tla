---------------------------- MODULE HistorySearch ----------------------------
(***************************************************************************)
(* Searching the saved transcripts page by page (history_search.rs): a     *)
(* full-text index that triggers keep beside the rows, the vocabulary the  *)
(* daemon remembers to correct what was typed, and cursors the window      *)
(* keeps across searches and restarts. A transcript stands for one word    *)
(* of it, a word for the sequence of its letters.                          *)
(***************************************************************************)
EXTENDS Naturals, FiniteSets, SequencesExt

CONSTANTS
  Words,      \* what is said
  Queries,    \* what is searched for; the empty one lists everything
  Short,      \* letters below which a word is not searched inside others; 3
  Rare,       \* times as frequent as the word typed a correction must be; 3
  PageSize,   \* MAX_PAGE_SIZE; 100
  MaxRows,    \* bound: transcripts
  MaxAges,    \* bound: different times of creation
  MaxTroubles \* bound: deletions, restarts and failures of the index

VARIABLES
  rows,     \* the transcript of an id, or NoRow
  index,    \* the rows that both full-text tables hold
  ready,    \* history_search_state
  broken,   \* reading the full-text tables fails
  version,  \* PRAGMA data_version: the commits of other connections
  cache,    \* SearchCache: [version, documents]
  page,     \* the page that is being read, or NoPage
  list,     \* what the window has of its search
  used,     \* the highest id given so far
  troubles,
  stays,    \* history: the rows that were there from the first page on
  fellBack  \* history: a page after the first was read without the index

vars == <<rows, index, ready, broken, version, cache, page, list, used, troubles,
          stays, fellBack>>

Ids == 1..MaxRows
NoRow == [created |-> 0, word |-> <<>>]
NoCache == [there |-> FALSE, version |-> 0, documents |-> [w \in Words |-> 0]]
Everything == <<>>
NoPlan == [kind |-> "none", words |-> {}]
Start == [query |-> Everything, plan |-> NoPlan, created |-> 0, id |-> 0]
NoPage == [step |-> "none", query |-> Everything, after |-> Start, plan |-> NoPlan]
NoList == [query |-> Everything, plan |-> NoPlan, shown |-> <<>>, next |-> Start,
           open |-> FALSE]

There == {id \in Ids : rows[id] # NoRow}
FoundIn(word) == Cardinality({id \in index : rows[id].word = word})
Within(part, word) == \E i \in 0..Len(word) : IsPrefix(part, SubSeq(word, i + 1, Len(word)))

\* osa_distance: insertions, deletions, substitutions and swaps of neighbours, by
\* rows of the matrix as the code fills them.
Distance(left, right) ==
  LET d[i \in 0..Len(left), j \in 0..Len(right)] ==
        IF i = 0 THEN j ELSE IF j = 0 THEN i ELSE
        LET other == IF left[i] = right[j] THEN 0 ELSE 1
            swap == IF i > 1 /\ j > 1 /\ left[i] = right[j - 1] /\ left[i - 1] = right[j]
                      THEN {d[i - 2, j - 2] + 1} ELSE {}
        IN Min({d[i - 1, j] + 1, d[i, j - 1] + 1, d[i - 1, j - 1] + other} \cup swap)
  IN d[Len(left), Len(right)]

\* build_search_plan: a word that is in at most one transcript is also searched as
\* those near it that are frequent enough. (The code takes the three nearest.)
Corrections(query, documents) ==
  LET found == {w \in Words : IsPrefix(query, w)}
      known == MapThenSumSet(LAMBDA w : documents[w], found)
      least == IF known = 0 THEN 1 ELSE Rare * known
  IN {w \in Words : /\ Len(query) >= Short /\ known <= 1
                    /\ documents[w] >= least /\ Distance(query, w) <= 1}

Indexed(query, documents) ==
  [kind |-> "indexed", words |-> {query} \cup Corrections(query, documents)]
Literal(query) == [kind |-> "literal", words |-> {query}]

\* The words of a plan are prefixes of the indexed ones and, unless short, parts of
\* them; without the index they are parts of the text.
Matches(plan, query, word) ==
  \E w \in plan.words :
    \/ IsPrefix(w, word)
    \/ Within(w, word) /\ (plan.kind = "literal" \/ Len(query) >= Short)

\* Newest first, then the higher id.
After(cursor, id) ==
  \/ cursor.id = 0
  \/ rows[id].created < cursor.created
  \/ rows[id].created = cursor.created /\ id < cursor.id
Precedes(a, b) ==
  \/ rows[a].created > rows[b].created
  \/ rows[a].created = rows[b].created /\ a > b

\* A database of an earlier version has transcripts and no index.
Init ==
  /\ used = 1
  /\ \E w \in Words :
       rows = [id \in Ids |-> IF id = 1 THEN [created |-> 1, word |-> w] ELSE NoRow]
  /\ index = {} /\ ready = FALSE /\ broken = FALSE
  /\ version = 0
  /\ cache = NoCache
  /\ page = NoPage
  /\ list = NoList
  /\ troubles = 0
  /\ stays = {} /\ fellBack = FALSE

Trouble == troubles < MaxTroubles /\ troubles' = troubles + 1
Idle == page = NoPage

\* The insert trigger; an id is never given again (AUTOINCREMENT).
Insert(created, word) ==
  /\ used < MaxRows
  /\ used' = used + 1
  /\ rows' = [rows EXCEPT ![used'] = [created |-> created, word |-> word]]
  /\ index' = index \cup {used'}

\* A dictation is completed on the daemon's own connection, which forgets the
\* vocabulary: data_version says nothing of its own commits.
Complete ==
  \E created \in 1..MaxAges, word \in Words :
    /\ Idle
    /\ Insert(created, word)
    /\ cache' = NoCache
    /\ UNCHANGED <<ready, broken, version, page, list, troubles, stays, fellBack>>

Delete ==
  \E id \in There :
    /\ Idle /\ Trouble
    /\ rows' = [rows EXCEPT ![id] = NoRow]
    /\ index' = index \ {id}
    /\ stays' = stays \ {id}
    /\ cache' = NoCache
    /\ UNCHANGED <<ready, broken, version, page, list, used, fellBack>>

\* The maintenance thread completes one, or the import brings one, whatever the
\* daemon is reading.
AddElsewhere ==
  \E created \in 1..MaxAges, word \in Words :
    /\ Insert(created, word)
    /\ version' = version + 1
    /\ UNCHANGED <<ready, broken, cache, page, list, troubles, stays, fellBack>>

\* ensure_index, on the connection of the maintenance thread.
EnsureIndex ==
  /\ ~ready
  /\ index' = There
  /\ ready' = TRUE
  /\ broken' = FALSE
  /\ version' = version + 1
  /\ UNCHANGED <<rows, cache, page, list, used, troubles, stays, fellBack>>

Break ==
  /\ Trouble
  /\ ready /\ ~broken
  /\ broken' = TRUE
  /\ UNCHANGED <<rows, index, ready, version, cache, page, list, used, stays, fellBack>>

\* The daemon dies; the window keeps its list and its cursor.
Restart ==
  /\ Trouble
  /\ page' = NoPage
  /\ cache' = NoCache
  /\ version' = 0
  /\ UNCHANGED <<rows, index, ready, broken, list, used, stays, fellBack>>

\* mark_index_unready, by this process's connection, and the literal plan instead.
FallBack(then) ==
  /\ ready' = FALSE
  /\ cache' = NoCache
  /\ page' = [page EXCEPT !.step = then, !.plan = Literal(page.query)]
  /\ fellBack' = (fellBack \/ page.after # Start)

Ask(query, after) == page' = [NoPage EXCEPT !.step = "ready", !.query = query, !.after = after]

Search ==
  \E query \in Queries :
    /\ Idle
    /\ Ask(query, Start)
    /\ list' = NoList
    /\ stays' = {}
    /\ fellBack' = FALSE
    /\ UNCHANGED <<rows, index, ready, broken, version, cache, used, troubles>>

LoadMore ==
  /\ Idle
  /\ list.open /\ list.next # Start
  /\ Ask(list.query, list.next)
  /\ UNCHANGED <<rows, index, ready, broken, version, cache, list, used, troubles,
                 stays, fellBack>>

CheckReady ==
  /\ page.step = "ready"
  /\ page' = IF page.query = Everything \/ ~ready
               THEN [page EXCEPT !.step = "cursor", !.plan = Literal(page.query)]
               ELSE [page EXCEPT !.step = "version"]
  /\ UNCHANGED <<rows, index, ready, broken, version, cache, list, used, troubles,
                 stays, fellBack>>

\* vocabulary: data_version is read before what it stands for.
ReadVersion ==
  /\ page.step = "version"
  /\ IF cache.there /\ cache.version = version
       THEN /\ page' = [page EXCEPT !.step = "cursor",
                                    !.plan = Indexed(page.query, cache.documents)]
            /\ UNCHANGED cache
       ELSE /\ page' = [page EXCEPT !.step = "vocabulary"]
            /\ cache' = [NoCache EXCEPT !.version = version]
  /\ UNCHANGED <<rows, index, ready, broken, version, list, used, troubles, stays,
                 fellBack>>

ReadVocabulary ==
  /\ page.step = "vocabulary"
  /\ IF broken
       THEN FallBack("cursor")
       ELSE LET documents == [w \in Words |-> FoundIn(w)] IN
            /\ cache' = [cache EXCEPT !.there = TRUE, !.documents = documents]
            /\ page' = [page EXCEPT !.step = "cursor", !.plan = Indexed(page.query, documents)]
            /\ UNCHANGED <<ready, fellBack>>
  /\ UNCHANGED <<rows, index, broken, version, list, used, troubles, stays>>

\* decode_cursor: one of another query or plan is refused, and the daemon answers
\* with the first page instead (history_page_snapshot).
DecodeCursor ==
  /\ page.step = "cursor"
  /\ page' = IF page.after \in {Start, [page.after EXCEPT !.query = page.query,
                                                          !.plan = page.plan]}
               THEN [page EXCEPT !.step = "rows"]
               ELSE [page EXCEPT !.step = "ready", !.after = Start]
  /\ UNCHANGED <<rows, index, ready, broken, version, cache, list, used, troubles,
                 stays, fellBack>>

\* query_page, and the window's list: a first page replaces it.
Found(plan) ==
  LET all == IF plan.kind = "indexed" THEN index ELSE There IN
  {id \in all : Matches(plan, page.query, rows[id].word) /\ After(page.after, id)}

Answer(plan) ==
  LET found == SetToSortSeq(Found(plan), Precedes)
      part == SubSeq(found, 1, IF Len(found) > PageSize THEN PageSize ELSE Len(found))
      next == IF Len(found) > PageSize
                THEN [query |-> page.query, plan |-> plan, id |-> Last(part),
                      created |-> rows[Last(part)].created]
                ELSE Start
      first == page.after = Start
  IN /\ list' = [query |-> page.query, plan |-> plan, next |-> next, open |-> TRUE,
                 shown |-> IF first THEN part ELSE list.shown \o part]
     /\ page' = NoPage
     /\ stays' = IF first THEN There ELSE stays
     /\ fellBack' = (~first /\ (fellBack \/ plan # page.plan))

ReadRows ==
  /\ page.step = "rows"
  /\ IF broken /\ page.plan.kind = "indexed"
       THEN Answer(Literal(page.query)) /\ ready' = FALSE /\ cache' = NoCache
       ELSE Answer(page.plan) /\ UNCHANGED <<ready, cache>>
  /\ UNCHANGED <<rows, index, broken, version, used, troubles>>

Next ==
  \/ Complete \/ Delete \/ AddElsewhere \/ EnsureIndex \/ Break \/ Restart
  \/ Search \/ LoadMore \/ CheckReady \/ ReadVersion \/ ReadVocabulary
  \/ DecodeCursor \/ ReadRows

Spec == Init /\ [][Next]_vars

-----------------------------------------------------------------------------
(* Properties                                                              *)

\* A ready index has every transcript, those of before the index, of either
\* connection and of the time it was being rebuilt (SEARCH_SCHEMA, ensure_index).
IndexHoldsHistory == ready => index = There

\* What is remembered of the vocabulary is thrown away in time: whenever the daemon
\* would use it, it is that of the index (SearchCache).
VocabularyIsCurrent ==
  cache.there /\ cache.version = version /\ ready /\ ~broken =>
    cache.documents = [w \in Words |-> FoundIn(w)]

\* Loading on, across searches and restarts: no transcript comes twice or out of
\* order, and at the end none that was there all along and matches is missing,
\* unless the index failed on the way (query_page, decode_cursor).
WalkIsComplete ==
  LET left == {i \in DOMAIN list.shown : rows[list.shown[i]] # NoRow} IN
  /\ \A i, j \in DOMAIN list.shown : i # j => list.shown[i] # list.shown[j]
  /\ \A i, j \in left : i < j => Precedes(list.shown[i], list.shown[j])
  /\ list.open /\ list.next = Start /\ ~fellBack =>
       \A id \in stays :
         Matches(list.plan, list.query, rows[id].word) => Contains(list.shown, id)

\* A search ends with every transcript that has a word beginning with what was
\* typed and, unless that is short, every one that has it anywhere, with the index or
\* without.
SearchFindsTheWord ==
  list.open /\ list.next = Start /\ ~fellBack =>
    \A id \in stays :
      /\ IsPrefix(list.query, rows[id].word) => Contains(list.shown, id)
      /\ Len(list.query) >= Short /\ Within(list.query, rows[id].word) =>
           Contains(list.shown, id)
=============================================================================
