---------------------------- MODULE Replacements ----------------------------
(***************************************************************************)
(* Words replaced in what was said: the rules of the Replacements page     *)
(* (replacements_page.rs, workspace_actions.rs), the daemon's table of     *)
(* them (runtime.rs), the vocabulary's aliases, and how both change the    *)
(* text of a recording, which keeps the rules it began with (dictation.rs, *)
(* replacements.rs). A text is a sequence of letters; "_" separates words  *)
(* and "q" quotes code. Letter case is left out.                           *)
(***************************************************************************)
EXTENDS Naturals, Sequences

CONSTANTS
  Drafts,       \* what a user may enter: [source, output, whole]
  Spoken,       \* what the transcription may return
  Vocabulary,   \* a vocabulary: a sequence of spellings with their aliases
  MaxRules,     \* bound: rules ever created
  MaxActions    \* bound: actions the page sends

VARIABLES
  table,    \* the daemon's rules by id (replacement_mappings)
  nextId,   \* SQLite gives no id twice
  shown,    \* the rules as the window has them
  editor,   \* the open editor, or NoEditor
  pending,  \* the rule whose deletion waits for a second click, or 0
  flight,   \* the action in flight, or NoAction
  sent,
  terms,    \* the vocabulary in the settings
  job       \* the recording: the options it began with and its text

vars == <<table, nextId, shown, editor, pending, flight, sent, terms, job>>

Letter(text, i) == i \in 1..Len(text) /\ text[i] \notin {"_", "q"}

\* Where a phrase starts in a text, as find_iter finds it: from the left, and
\* the next one after the end of the last.
Found(text, phrase) ==
  LET from[i \in 1..Len(text) + Len(phrase)] ==
        IF i + Len(phrase) > Len(text) + 1 THEN {}
        ELSE IF SubSeq(text, i, i + Len(phrase) - 1) = phrase
               THEN {i} \cup from[i + Len(phrase)] ELSE from[i + 1]
  IN from[1]

WholeWord(text, at, length) == ~Letter(text, at - 1) /\ ~Letter(text, at + length)

\* The text with every span replaced; spans do not overlap.
Spliced(text, spans) ==
  LET from[i \in 1..Len(text) + 1] ==
        IF i > Len(text) THEN <<>>
        ELSE IF \E s \in spans : s.at = i
               THEN LET s == CHOOSE s \in spans : s.at = i IN s.write \o from[i + s.length]
               ELSE <<text[i]>> \o from[i + 1]
  IN from[1]

\* apply_replacements: rule after rule in the order of their ids, each on what
\* the ones before it wrote.
AppliedRule(text, rule) ==
  IF ~rule.enabled \/ rule.source = <<>> THEN text
  ELSE Spliced(text,
         {[at |-> i, length |-> Len(rule.source), write |-> rule.output] :
            i \in {i \in Found(text, rule.source) :
                     rule.whole => WholeWord(text, i, Len(rule.source))}})
Applied(text, rules) ==
  LET upTo[n \in 0..MaxRules] ==
        IF n = 0 THEN text
        ELSE IF n \in DOMAIN rules THEN AppliedRule(upTo[n - 1], rules[n]) ELSE upTo[n - 1]
  IN upTo[MaxRules]

\* literal_ranges: what stands between two quotes, and the quotes.
Literal(text) ==
  LET open[i \in 0..Len(text)] ==
        IF i = 0 THEN FALSE ELSE (text[i] = "q") # open[i - 1]
  IN {i \in 1..Len(text) :
        (open[i] /\ \E k \in i + 1..Len(text) : text[k] = "q") \/ (text[i] = "q" /\ open[i - 1])}

\* Every place where an alias may be replaced by its spelling.
Matches(text, vocabulary) ==
  UNION {UNION {{[at |-> i, length |-> Len(alias), write |-> vocabulary[e].spelling, entry |-> e] :
                   i \in {i \in Found(text, alias) :
                            /\ WholeWord(text, i, Len(alias))
                            /\ (i..i + Len(alias) - 1) \cap Literal(text) = {}}} :
                alias \in vocabulary[e].aliases} :
         e \in 1..Len(vocabulary)}

\* normalize_vocabulary: one pass, at each place the longest.
Overlap(m, s) == m.at < s.at + s.length /\ s.at < m.at + m.length
Before(m, s) ==
  \/ m.at < s.at
  \/ m.at = s.at /\ m.length > s.length
  \/ m.at = s.at /\ m.length = s.length /\ m.entry < s.entry
Longest(matches) ==
  LET taken[i \in 0..10] ==    \* the spans that start at i or before
        IF i = 0 THEN {}
        ELSE LET free == {m \in matches : m.at = i /\ \A s \in taken[i - 1] : ~Overlap(m, s)}
             IN taken[i - 1] \cup {m \in free : \A o \in free \ {m} : Before(m, o)}
  IN taken[10]
AllOfThem(matches) == matches
Normalized(text, vocabulary) == Spliced(text, Longest(Matches(text, vocabulary)))

-----------------------------------------------------------------------------
NoEditor == [id |-> 0, open |-> FALSE, typed |-> FALSE, source |-> <<>>, output |-> <<>>,
             enabled |-> TRUE, whole |-> TRUE]
NoAction == [kind |-> "none", id |-> 0, rule |-> <<>>, stage |-> "none", rules |-> <<>>]
NoJob == [stage |-> "none", rules |-> <<>>, terms |-> <<>>, heard |-> <<>>, text |-> <<>>]
Draft(from) == [source |-> from.source, output |-> from.output,
                enabled |-> from.enabled, whole |-> from.whole]
Rule(d) == [source |-> d.source, output |-> d.output, enabled |-> TRUE, whole |-> d.whole]

\* The table may hold rules of earlier days; Runtime::open removed blank ones.
Init ==
  /\ table \in {<<>>} \cup {<<Rule(d)>> : d \in {d \in Drafts : d.source # <<>>}}
  /\ nextId = Len(table) + 1 /\ shown = table
  /\ editor = NoEditor /\ pending = 0 /\ flight = NoAction /\ sent = 0
  /\ terms \in {<<>>, Vocabulary} /\ job = NoJob

unchangedJob == UNCHANGED <<terms, job>>
unchangedPage == UNCHANGED <<table, nextId, shown, editor, pending, flight, sent>>

\* emit_workspace_action: one at a time; a pending deletion is forgotten.
Emit(kind, id, rule) ==
  /\ flight = NoAction /\ sent < MaxActions
  /\ flight' = [kind |-> kind, id |-> id, rule |-> rule, stage |-> "asked", rules |-> <<>>]
  /\ pending' = 0 /\ sent' = sent + 1
Busy == flight # NoAction   \* "Another action is still running"

OpenEditor(id) ==
  /\ ~editor.open
  /\ editor' = IF id \in DOMAIN shown
                 THEN LET rule == shown[id] IN
                      [id |-> id, open |-> TRUE, typed |-> FALSE, source |-> rule.source,
                       output |-> rule.output, enabled |-> rule.enabled, whole |-> rule.whole]
                 ELSE [NoEditor EXCEPT !.open = TRUE]
  /\ UNCHANGED <<table, nextId, shown, pending, flight, sent>> /\ unchangedJob

\* What is in the fields when it is saved; typed again only in a new editor.
Type(draft) ==
  /\ editor.open /\ ~editor.typed
  /\ editor' = [editor EXCEPT !.source = draft.source, !.output = draft.output,
                              !.whole = draft.whole, !.typed = TRUE]
  /\ UNCHANGED <<table, nextId, shown, pending, flight, sent>> /\ unchangedJob

CancelEditor ==
  /\ editor.open /\ editor' = NoEditor
  /\ UNCHANGED <<table, nextId, shown, pending, flight, sent>> /\ unchangedJob

\* save_replacement: both phrases are required.
Save ==
  /\ editor.open /\ editor.source # <<>> /\ editor.output # <<>>
  /\ editor.id = 0 => nextId <= MaxRules
  /\ Emit(IF editor.id = 0 THEN "create" ELSE "update", editor.id, Draft(editor))
  /\ UNCHANGED <<table, nextId, shown, editor>> /\ unchangedJob

\* The row's button: the rule as the window has it, switched.
SetEnabled(id) ==
  /\ id \in DOMAIN shown
  /\ Emit("toggle", id, [shown[id] EXCEPT !.enabled = ~shown[id].enabled])
  /\ UNCHANGED <<table, nextId, shown, editor>> /\ unchangedJob

\* request_destructive_action: the first click asks, the second one on the same
\* rule deletes. Another action in flight uses the second click up.
ClickDelete(id) ==
  /\ id \in DOMAIN shown
  /\ IF pending # id
       THEN pending' = id /\ UNCHANGED <<flight, sent>>
       ELSE IF Busy THEN pending' = 0 /\ UNCHANGED <<flight, sent>>
       ELSE /\ sent < MaxActions /\ pending' = 0 /\ sent' = sent + 1
            /\ flight' = [kind |-> "delete", id |-> id, rule |-> <<>>,
                          stage |-> "asked", rules |-> <<>>]
  /\ UNCHANGED <<table, nextId, shown, editor>> /\ unchangedJob

\* select_route: leaving the page forgets the first click.
Leave ==
  /\ pending # 0 /\ pending' = 0
  /\ UNCHANGED <<table, nextId, shown, editor, flight, sent>> /\ unchangedJob

\* The daemon's create_replacement, update_replacement and delete_replacement,
\* answered with the rules as they are then, or refused.
Rejected == \/ flight.kind # "delete" /\ flight.rule.source = <<>>
            \/ flight.kind # "create" /\ flight.id \notin DOMAIN table
Handle ==
  /\ flight.stage = "asked"
  /\ IF Rejected
       THEN UNCHANGED <<table, nextId>> /\ flight' = [flight EXCEPT !.stage = "refused"]
       ELSE /\ table' = CASE flight.kind = "create" -> 
                               [i \in DOMAIN table \cup {nextId} |->
                                  IF i = nextId THEN flight.rule ELSE table[i]]
                          [] flight.kind \in {"update", "toggle"} -> [table EXCEPT ![flight.id] = flight.rule]
                          [] OTHER -> [i \in DOMAIN table \ {flight.id} |-> table[i]]
            /\ nextId' = nextId + (IF flight.kind = "create" THEN 1 ELSE 0)
            /\ flight' = [flight EXCEPT !.stage = "done", !.rules = table']
  /\ UNCHANGED <<shown, editor, pending, sent>> /\ unchangedJob

\* The answer: a saved rule closes the editor, whichever is open by then; a
\* refusal leaves it as it is.
Answered ==
  /\ flight.stage \in {"done", "refused"}
  /\ shown' = IF flight.stage = "done" THEN flight.rules ELSE shown
  /\ editor' = IF flight.stage = "done" /\ flight.kind \in {"create", "update"}
               THEN NoEditor ELSE editor
  /\ flight' = NoAction
  /\ UNCHANGED <<table, nextId, pending, sent>> /\ unchangedJob

\* DictationOptions::from_settings: a recording takes the rules and terms of its
\* start along, and none in Literal mode.
Record(literal) ==
  /\ job.stage = "none"
  /\ job' = [job EXCEPT !.stage = "recording",
                        !.rules = IF literal THEN <<>> ELSE table,
                        !.terms = IF literal THEN <<>> ELSE terms]
  /\ UNCHANGED terms /\ unchangedPage

ChangeTerms ==
  /\ job.stage = "recording" /\ terms' = IF terms = <<>> THEN Vocabulary ELSE <<>>
  /\ UNCHANGED job /\ unchangedPage

\* process_captured: the rules first, then the vocabulary on what they wrote.
OwnText(heard) == Normalized(Applied(heard, job.rules), job.terms)
TextOfNow(heard) == Normalized(Applied(heard, table), terms)
Written(heard) == OwnText(heard)
Transcribe(heard) ==
  /\ job.stage = "recording"
  /\ job' = [job EXCEPT !.stage = "written", !.heard = heard, !.text = Written(heard)]
  /\ UNCHANGED terms /\ unchangedPage

Next ==
  \/ (\E id \in 0..MaxRules : OpenEditor(id))
  \/ (\E draft \in Drafts : Type(draft))
  \/ CancelEditor \/ Save \/ Leave \/ Handle \/ Answered \/ ChangeTerms
  \/ (\E id \in 1..MaxRules : SetEnabled(id) \/ ClickDelete(id))
  \/ (\E literal \in BOOLEAN : Record(literal))
  \/ (\E heard \in Spoken : Transcribe(heard))

Spec == Init /\ [][Next]_vars

-----------------------------------------------------------------------------
(* Properties                                                              *)

\* A recording is written with the rules and the vocabulary it began with, not
\* with those of the time its transcription came back.
WrittenByItsOwnRules == job.stage = "written" => job.text = OwnText(job.heard)

\* docs/dictation-output.md:50-51: aliases match the original text once, prefer
\* the longest match at a position, and do not cascade. What was left alone
\* overlaps a match that begins before it or is longer.
AliasesMatchOnce ==
  job.stage = "written" =>
    LET text == Applied(job.heard, job.rules)
        all == Matches(text, job.terms)
    IN \E used \in SUBSET all :
         /\ job.text = Spliced(text, used)
         /\ \A s, o \in used : s = o \/ ~Overlap(s, o)
         /\ \A m \in all \ used : \E s \in used :
              Overlap(m, s) /\ s.at <= m.at /\ (s.at = m.at => s.length >= m.length)

\* With no action on its way the page shows the rules that the daemon has, whose
\* sources are never blank.
PageShowsTheRules ==
  /\ flight = NoAction => shown = table
  /\ \A i \in DOMAIN table : table[i].source # <<>>
=============================================================================
