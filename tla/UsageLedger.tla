----------------------------- MODULE UsageLedger -----------------------------
(***************************************************************************)
(* Usage and its costs (usage.rs, pricing.rs, history.rs): the sessions    *)
(* that completed dictations leave, the daily figures kept beside them,    *)
(* the prices, and what the overview makes of them. Two connections write: *)
(* the daemon's, and the one its maintenance thread opens at every start.  *)
(* A session stands for one minute and one word.                           *)
(***************************************************************************)
EXTENDS Naturals, Functions, FiniteSetTheorems, FiniteSetsExt, TLAPS

CONSTANTS
  Kinds,      \* the dictations there are: [cleaned, free], free by subscription
  MaxJobs,    \* bound: dictations that are delivered
  MaxDay,     \* bound: the last day
  WeekLength, \* days of a week; 7 in the code
  Window,     \* days of the activity chart; 30 in the code
  Short,      \* days of its short form; 7 in the code
  MaxPrices,  \* bound: prices the user goes through
  MaxTroubles \* bound: writes refused, deletions and deaths of the daemon

VARIABLES
  today,
  jobs,      \* the delivered dictations whose row is still there, or NoJob
  sessions,  \* the recorded dictations, there until deleted, or NoSession
  daily,     \* daily_stats, or NoDay
  settings,  \* [price |-> of a minute and of a cleanup, save |-> save_history]
  handler,   \* what the daemon is doing, one command at a time
  keeper,    \* the maintenance thread: [step, settings, read]
  usage,     \* the usage snapshot, as far as it was read
  troubles,
  overtaken, \* history: a repricing missed a session or used older prices
  disturbed  \* history: a write or midnight came while usage was read

vars == <<today, jobs, sessions, daily, settings, handler, keeper, usage,
          troubles, overtaken, disturbed>>

Ids == 1..MaxJobs
Days == 1..MaxDay
NoJob == [day |-> 0, cleaned |-> FALSE, free |-> FALSE, keep |-> FALSE, allowed |-> FALSE]
NoSession == [there |-> FALSE, day |-> 0, cleaned |-> FALSE, free |-> FALSE,
              text |-> FALSE, minutes |-> 0, cleanup |-> 0]
NoDay == [sessions |-> 0, cost |-> 0, there |-> FALSE]
Idle == [step |-> "idle", price |-> 0, read |-> {}, job |-> 0]
NoUsage == [step |-> "none", allTime |-> NoDay, sessions |-> <<>>, cost |-> <<>>,
            last |-> 0, weekly |-> <<>>, first |-> 0]

Recorded == {id \in Ids : sessions[id].there}
Pending == {id \in Ids : jobs[id] # NoJob}

\* COALESCE(SUM(...), 0)
Total(costs) == IF DOMAIN costs = {} THEN 0 ELSE SumFunction(costs)

\* aggregate, recompute_daily_stats: the figures of some sessions.
Aggregate(recorded, ids) ==
  [sessions |-> Cardinality(ids), there |-> TRUE,
   cost |-> Total([id \in ids |-> recorded[id].minutes + recorded[id].cleanup])]

OnDay(recorded, day) == {id \in Ids : recorded[id].there /\ recorded[id].day = day}
Recomputed(stats, recorded, days) ==
  [day \in Days |->
     IF day \in days THEN Aggregate(recorded, OnDay(recorded, day)) ELSE stats[day]]

\* estimate_session_cost: minutes of a subscription are free, and a cleanup costs
\* something only where its text is at hand.
Priced(session, price, text) ==
  [session EXCEPT !.minutes = IF session.free THEN 0 ELSE price,
                  !.cleanup = IF session.cleaned /\ text THEN price ELSE 0]

Init ==
  /\ today = 1
  /\ jobs = [id \in Ids |-> NoJob]
  /\ sessions = [id \in Ids |-> NoSession]
  /\ daily = [day \in Days |-> NoDay]
  /\ settings \in [price : {1}, save : BOOLEAN]
  /\ handler = Idle
  /\ keeper = [step |-> "pricing", settings |-> settings, read |-> {}]
  /\ usage = NoUsage
  /\ troubles = 0
  /\ overtaken = FALSE
  /\ disturbed = FALSE

Trouble == troubles < MaxTroubles /\ troubles' = troubles + 1
Reading == usage # NoUsage
Disturbs == disturbed' = (disturbed \/ Reading)

Midnight ==
  /\ today < MaxDay
  /\ today' = today + 1
  /\ Disturbs
  /\ UNCHANGED <<jobs, sessions, daily, settings, handler, keeper, usage, troubles,
                 overtaken>>

\* A dictation is delivered; the handler completes it next. The clock of an earlier
\* day is that of a dictation which began before midnight; keep is the save_history
\* it began with.
Deliver ==
  \E id \in Ids, kind \in Kinds, day \in Days, keep \in BOOLEAN :
    /\ handler = Idle /\ usage = NoUsage
    /\ jobs[id] = NoJob /\ sessions[id] = NoSession
    /\ \A other \in Ids : other < id => jobs[other] # NoJob \/ sessions[other] # NoSession
    /\ day \in {today, today - 1}
    /\ jobs' = [jobs EXCEPT ![id] = [day |-> day, cleaned |-> kind.cleaned,
                                     free |-> kind.free, keep |-> keep,
                                     allowed |-> TRUE]]
    /\ handler' = [Idle EXCEPT !.step = "completing", !.job = id]
    /\ UNCHANGED <<today, sessions, daily, settings, keeper, usage, troubles, overtaken,
                   disturbed>>

\* complete_delivered_job in one transaction, by the daemon or by maintenance, with
\* the settings of either: a completion that is not allowed records nothing.
Record(id, with) ==
  LET job == jobs[id]
      session == [there |-> TRUE, day |-> job.day, cleaned |-> job.cleaned,
                  free |-> job.free, text |-> with.save /\ job.keep,
                  minutes |-> 0, cleanup |-> 0]
      recorded == [sessions EXCEPT ![id] = Priced(session, with.price, TRUE)]
  IN /\ jobs' = [jobs EXCEPT ![id] = NoJob]
     /\ Disturbs
     /\ IF job.allowed /\ sessions[id] = NoSession
          THEN /\ sessions' = recorded
               /\ daily' = Recomputed(daily, recorded, {job.day})
               /\ overtaken' =
                    (overtaken \/ handler.step = "priced" \/ keeper.step = "priced"
                               \/ with.price # settings.price)
          ELSE UNCHANGED <<sessions, daily, overtaken>>

Complete ==
  /\ handler.step = "completing"
  /\ handler' = Idle
  /\ IF jobs[handler.job] = NoJob
       THEN UNCHANGED <<jobs, sessions, daily, overtaken, disturbed>>
       ELSE Record(handler.job, settings)
  /\ UNCHANGED <<today, settings, keeper, usage, troubles>>

\* The completion is refused: the row stays, and the next start's maintenance
\* records the dictation.
CompleteFails ==
  /\ handler.step = "completing"
  /\ Trouble
  /\ handler' = Idle
  /\ UNCHANGED <<today, jobs, sessions, daily, settings, keeper, usage, overtaken,
                 disturbed>>

\* clean_up_finished_jobs
CleanUp ==
  /\ keeper.step = "jobs"
  /\ \/ \E id \in Pending : Record(id, keeper.settings) /\ UNCHANGED keeper
     \/ /\ keeper' = [keeper EXCEPT !.step = "done"]
        /\ UNCHANGED <<jobs, sessions, daily, overtaken, disturbed>>
  /\ UNCHANGED <<today, settings, handler, usage, troubles>>

\* sync_pricing reads the sessions first ...
ReadPrices ==
  /\ keeper.step = "pricing"
  /\ keeper' = [keeper EXCEPT !.step = "priced",
                              !.read = {<<id, sessions[id].text>> : id \in Recorded}]
  /\ UNCHANGED <<today, jobs, sessions, daily, settings, handler, usage, troubles,
                 overtaken, disturbed>>

\* ... and in a transaction of its own sets what they cost. A session that was
\* deleted meanwhile has no row to update; its day is recomputed all the same, and
\* so has a row again.
Reprice(read, price) ==
  LET costed == [id \in Ids |->
        IF sessions[id].there /\ \E pair \in read : pair[1] = id
          THEN Priced(sessions[id], price, <<id, TRUE>> \in read)
          ELSE sessions[id]]
  IN /\ sessions' = costed
     /\ daily' = Recomputed(daily, costed, {sessions[pair[1]].day : pair \in read})
     /\ Disturbs

RepriceAtStart ==
  /\ keeper.step = "priced"
  /\ \/ /\ Reprice(keeper.read, keeper.settings.price)
        /\ overtaken' = (overtaken \/ keeper.settings.price # settings.price
                                   \/ handler.step = "priced")
        /\ UNCHANGED troubles
     \/ /\ Trouble
        /\ overtaken' = TRUE
        /\ UNCHANGED <<sessions, daily, disturbed>>
  /\ keeper' = [keeper EXCEPT !.step = "jobs", !.read = {}]
  /\ UNCHANGED <<today, jobs, settings, handler, usage>>

\* AgentProcess::update_settings: the file is saved, the sessions are repriced, and
\* a failure to do so is only logged.
SaveSettings ==
  /\ handler = Idle /\ usage = NoUsage
  /\ settings.price < MaxPrices
  /\ settings' \in [price : {settings.price + 1}, save : BOOLEAN]
  /\ handler' = [Idle EXCEPT !.step = "priced", !.price = settings.price + 1,
                             !.read = {<<id, sessions[id].text>> : id \in Recorded}]
  /\ overtaken' = (keeper.step = "priced")
  /\ UNCHANGED <<today, jobs, sessions, daily, keeper, usage, troubles, disturbed>>

RepriceSaved ==
  /\ handler.step = "priced"
  /\ handler' = Idle
  /\ \/ /\ Reprice(handler.read, handler.price)
        /\ UNCHANGED <<troubles, overtaken>>
     \/ /\ Trouble
        /\ overtaken' = TRUE
        /\ UNCHANGED <<sessions, daily, disturbed>>
  /\ UNCHANGED <<today, jobs, settings, keeper, usage>>

\* The row of a session is gone; no other gets its id (AUTOINCREMENT).
Gone(session) == [NoSession EXCEPT !.day = session.day]

\* delete_history takes the session with the transcript.
DeleteHistory ==
  \E id \in Recorded :
    LET left == [sessions EXCEPT ![id] = Gone(@)] IN
    /\ handler = Idle /\ usage = NoUsage
    /\ sessions[id].text
    /\ Trouble
    /\ sessions' = left
    /\ daily' = Recomputed(daily, left, {sessions[id].day})
    /\ UNCHANGED <<today, jobs, settings, handler, keeper, usage, overtaken, disturbed>>

ClearHistory ==
  /\ handler = Idle /\ usage = NoUsage
  /\ Trouble
  /\ jobs' = [id \in Ids |->
       IF jobs[id] = NoJob THEN NoJob ELSE [jobs[id] EXCEPT !.allowed = FALSE]]
  /\ sessions' = [id \in Ids |-> Gone(sessions[id])]
  /\ daily' = [day \in Days |-> NoDay]
  /\ UNCHANGED <<today, settings, handler, keeper, usage, overtaken, disturbed>>

\* The daemon dies; the settings file is what the next one reads, and its
\* maintenance reprices with it. What was read but not committed is gone.
Restart ==
  /\ Trouble
  /\ handler' = Idle
  /\ keeper' = [step |-> "pricing", settings |-> settings, read |-> {}]
  /\ usage' = NoUsage
  /\ overtaken' = FALSE
  /\ disturbed' = FALSE
  /\ UNCHANGED <<today, jobs, sessions, daily, settings>>

\* usage_snapshot: statement after statement, on a connection of its own. First the
\* sum of all sessions ...
ReadSummary ==
  /\ handler = Idle /\ usage = NoUsage
  /\ usage' = [NoUsage EXCEPT !.step = "sessions", !.allTime = Aggregate(sessions, Recorded)]
  /\ disturbed' = FALSE
  /\ UNCHANGED <<today, jobs, sessions, daily, settings, handler, keeper, troubles,
                 overtaken>>

\* ... then the days of the chart, one figure at a time and each ending on the day
\* of its query (usage_series_ending); a day without a row counts for nothing ...
Series(figure) ==
  [i \in 1..Window |->
     LET day == today + i IN IF day <= Window THEN 0 ELSE daily[day - Window][figure]]

ReadSessions ==
  /\ usage.step = "sessions"
  /\ usage' = [usage EXCEPT !.step = "cost", !.last = today,
                            !.sessions = Series("sessions")]
  /\ UNCHANGED <<today, jobs, sessions, daily, settings, handler, keeper, troubles,
                 overtaken, disturbed>>

ReadCost ==
  /\ usage.step = "cost"
  /\ usage' = [usage EXCEPT !.step = "weekly", !.cost = Series("cost")]
  /\ UNCHANGED <<today, jobs, sessions, daily, settings, handler, keeper, troubles,
                 overtaken, disturbed>>

\* ... and the weeks from the first day with a row to this one, the empty ones too
\* (usage_weekly_series, monday_of).
Week(day) == day \div WeekLength
Weekly ==
  LET known == {day \in Days : daily[day].there}
      start == Min({Week(day) : day \in known})
      length == (Week(today) + 1) - start
  IN IF known = {} \/ start > Week(today) THEN <<>>
     ELSE [i \in 1..length |->
             MapThenSumSet(LAMBDA day : daily[day].sessions,
                           {day \in known : Week(day) + 1 = start + i})]

ReadWeekly ==
  /\ usage.step = "weekly"
  /\ usage' = [usage EXCEPT !.step = "shown", !.weekly = Weekly]
  /\ UNCHANGED <<today, jobs, sessions, daily, settings, handler, keeper, troubles,
                 overtaken, disturbed>>

\* The answer is sent before the next command is read.
Show ==
  /\ usage.step = "shown"
  /\ usage' = NoUsage
  /\ disturbed' = FALSE
  /\ UNCHANGED <<today, jobs, sessions, daily, settings, handler, keeper, troubles,
                 overtaken>>

ReadUsage == ReadSummary \/ ReadSessions \/ ReadCost \/ ReadWeekly \/ Show

Next ==
  \/ Midnight \/ Deliver \/ Complete \/ CompleteFails \/ CleanUp
  \/ ReadPrices \/ RepriceAtStart \/ SaveSettings \/ RepriceSaved
  \/ DeleteHistory \/ ClearHistory \/ Restart \/ ReadUsage

Spec == Init /\ [][Next]_vars

-----------------------------------------------------------------------------
(* Properties                                                              *)

\* The totals of the overview's periods (sum_usage, usage_view_model).
LastDays(series, n) ==
  MapThenSumSet(LAMBDA i : series[i], {i \in DOMAIN series : i + n > Window})

\* The daily figures are those of the sessions that are there, after every commit
\* of either connection, crash or refusal (recompute_daily_stats).
DailyFollowsSessions ==
  \A day \in Days :
    LET sums == Aggregate(sessions, OnDay(sessions, day)) IN
    daily[day].sessions = sums.sessions /\ daily[day].cost = sums.cost

\* What a session costs at a price; without a saved transcript the cost of its
\* cleanup is not said.
CostsAt(session, price) ==
  /\ session.minutes = (IF session.free THEN 0 ELSE price)
  /\ session.text /\ session.cleaned => session.cleanup = price

\* Once nobody is repricing, every session costs what the saved prices make it,
\* unless a repricing was refused, cut off or overtaken by the other connection
\* (update_settings, sync_pricing). Sessions without a saved transcript lose the cost
\* of their cleanup when they are repriced: see RepricingKeepsCosts.
PricesFollowSettings ==
  keeper.step \in {"jobs", "done"} /\ handler.step # "priced" /\ ~overtaken =>
    \A id \in Recorded : CostsAt(sessions[id], settings.price)

\* A usage snapshot nothing came between is of one piece: all time is the sum of
\* its weeks and no less than the chart's days, the chart ends today and holds what
\* was dictated on its days, and the costs stand beside their own days.
UsageIsOfOnePiece ==
  usage.step = "shown" /\ ~disturbed =>
    /\ usage.allTime.sessions = LastDays(usage.weekly, Window + MaxDay)
    /\ LastDays(usage.sessions, Short) <= LastDays(usage.sessions, Window)
    /\ LastDays(usage.sessions, Window) <= usage.allTime.sessions
    /\ LastDays(usage.cost, Window) <= usage.allTime.cost
    /\ \A i \in 1..Window : usage.sessions[i] = 0 => usage.cost[i] = 0

\* Stated, not run: repricing at the prices a session already has changes nothing.
\* It does: sync_pricing looks for the cleaned text in the saved transcript, so that
\* a session without one loses the cost of its cleanup at the next start
\* (pricing.rs:79, where record_session had counted it, history.rs:356-385).
RepricingKeepsCosts ==
  [][\A id \in Recorded :
       /\ RepriceAtStart /\ sessions[id].minutes \in {0, keeper.settings.price}
       /\ sessions[id].cleanup = keeper.settings.price
       => sessions'[id].cleanup = sessions[id].cleanup]_vars

-----------------------------------------------------------------------------
(* The daily figures and the prices, for any dictations, days and prices.  *)

Recordings ==
  [there : BOOLEAN, day : Nat, cleaned : BOOLEAN, free : BOOLEAN, text : BOOLEAN,
   minutes : Nat, cleanup : Nat]
Deliveries ==
  [day : Nat, cleaned : BOOLEAN, free : BOOLEAN, keep : BOOLEAN, allowed : BOOLEAN]
Saved == [price : Nat, save : BOOLEAN]
Reads == SUBSET (Ids \X BOOLEAN)

Typed ==
  /\ today \in Nat \ {0}
  /\ jobs \in [Ids -> Deliveries]
  /\ sessions \in [Ids -> Recordings]
  /\ settings \in Saved
  /\ handler \in [step : {"idle", "completing", "priced"}, price : Nat, read : Reads, job : Nat]
  /\ handler.step = "completing" => handler.job \in Ids
  /\ keeper \in [step : {"pricing", "priced", "jobs", "done"}, settings : Saved, read : Reads]

\* A repricing that has read the sessions has them all as they are.
HasRead(read) == \A id \in Recorded : <<id, sessions[id].text>> \in read

\* With it the daily figures and the prices follow: nobody who reprices misses a
\* session, and the handler does it at the saved price.
Accounted ==
  /\ Typed /\ DailyFollowsSessions /\ PricesFollowSettings
  /\ handler.step = "priced" /\ ~overtaken =>
       handler.price = settings.price /\ HasRead(handler.read)
  /\ keeper.step = "priced" /\ ~overtaken => HasRead(keeper.read)

-----------------------------------------------------------------------------
\* The sum over some sessions depends on no others.
LEMMA SameFigures ==
  ASSUME NEW old, NEW new, NEW ids,
         \A id \in ids : new[id].minutes = old[id].minutes /\ new[id].cleanup = old[id].cleanup
  PROVE  Aggregate(new, ids) = Aggregate(old, ids)
<1>1. [id \in ids |-> new[id].minutes + new[id].cleanup] =
        [id \in ids |-> old[id].minutes + old[id].cleanup]
  OBVIOUS
<1>2. QED
  BY <1>1 DEF Aggregate

\* Of no sessions it is 0.
LEMMA NothingCosts ==
  ASSUME NEW recorded
  PROVE  Aggregate(recorded, {}).sessions = 0 /\ Aggregate(recorded, {}).cost = 0
<1>1. Cardinality({}) = 0
  BY FS_EmptySet
<1>2. DOMAIN [id \in {} |-> recorded[id].minutes + recorded[id].cleanup] = {}
  OBVIOUS
<1>3. QED
  BY <1>1, <1>2 DEF Aggregate, Total

\* Recomputing the days of the sessions that change, before and after, is enough.
LEMMA RecomputedDays ==
  ASSUME Typed, DailyFollowsSessions, NEW new \in [Ids -> Recordings], NEW days,
         \A id \in Ids : new[id] # sessions[id] =>
           /\ sessions[id].there => sessions[id].day \in days
           /\ new[id].there => new[id].day \in days,
         sessions' = new, daily' = Recomputed(daily, new, days)
  PROVE  DailyFollowsSessions'
<1> SUFFICES ASSUME NEW day \in Days
             PROVE  /\ daily'[day].sessions = Aggregate(new, OnDay(new, day)).sessions
                    /\ daily'[day].cost = Aggregate(new, OnDay(new, day)).cost
  BY DEF DailyFollowsSessions
<1>1. CASE day \in days
  BY <1>1 DEF Recomputed
<1>2. CASE day \notin days
  <2>1. daily'[day] = daily[day]
    BY <1>2 DEF Recomputed
  <2>2. \A id \in Ids : (new[id].there /\ new[id].day = day) <=>
                        (sessions[id].there /\ sessions[id].day = day)
    BY <1>2
  <2>3. OnDay(new, day) = OnDay(sessions, day)
    BY <2>2 DEF OnDay
  <2>4. \A id \in OnDay(sessions, day) : new[id] = sessions[id]
    BY <1>2 DEF OnDay
  <2>5. Aggregate(new, OnDay(new, day)) = Aggregate(sessions, OnDay(sessions, day))
    BY <2>3, <2>4, SameFigures
  <2>6. QED
    BY <2>1, <2>5 DEF DailyFollowsSessions
<1>3. QED
  BY <1>1, <1>2

\* What a session becomes when it is priced.
LEMMA PricedSession ==
  ASSUME NEW session \in Recordings, NEW price \in Nat, NEW text \in BOOLEAN,
         NEW new, new = Priced(session, price, text)
  PROVE  /\ new \in Recordings
         /\ new.there = session.there /\ new.day = session.day /\ new.text = session.text
         /\ (session.text => text) => CostsAt(new, price)
  BY DEF Recordings, Priced, CostsAt

\* A session that is recorded is priced and on its day.
LEMMA RecordKeeps ==
  ASSUME Accounted, NEW id \in Ids, NEW with \in Saved, Record(id, with),
         UNCHANGED <<today, settings, keeper>>,
         handler' = handler \/ (handler.step = "completing" /\ handler' = Idle)
  PROVE  Accounted'
<1>1. jobs[id] \in Deliveries /\ NoJob \in Deliveries
  BY DEF Accounted, Typed, Deliveries, NoJob
<1>2. jobs' \in [Ids -> Deliveries]
  BY <1>1 DEF Record, Accounted, Typed
<1>3. Idle \in [step : {"idle", "completing", "priced"}, price : Nat, read : Reads, job : Nat]
  BY DEF Idle, Reads
<1>4. CASE UNCHANGED <<sessions, daily, overtaken>>
  <2>1. Typed'
    BY <1>2, <1>3, <1>4 DEF Accounted, Typed, Idle
  <2>2. DailyFollowsSessions'
    BY <1>4 DEF Accounted, DailyFollowsSessions
  <2>3. handler'.step = "priced" => handler' = handler
    BY DEF Idle
  <2>4. PricesFollowSettings'
    BY <1>4, <2>3 DEF Accounted, PricesFollowSettings, Recorded
  <2>5. QED
    BY <1>4, <2>1, <2>2, <2>3, <2>4 DEF Accounted, HasRead, Recorded
<1>5. CASE jobs[id].allowed /\ sessions[id] = NoSession
  <2>1. PICK session :
          session = [there |-> TRUE, day |-> jobs[id].day, cleaned |-> jobs[id].cleaned,
                     free |-> jobs[id].free, text |-> with.save /\ jobs[id].keep,
                     minutes |-> 0, cleanup |-> 0]
    OBVIOUS
  <2>2. session \in Recordings
    BY <1>1, <2>1 DEF Deliveries, Recordings, Saved
  <2>3. PICK priced : priced = Priced(session, with.price, TRUE)
    OBVIOUS
  <2>4. /\ priced \in Recordings /\ priced.day = jobs[id].day
        /\ CostsAt(priced, with.price)
    <3>1. session.day = jobs[id].day
      BY <2>1
    <3>2. with.price \in Nat
      BY DEF Saved
    <3>3. QED
      BY <2>2, <2>3, <3>1, <3>2 DEF Priced, Recordings, CostsAt
  <2>5. PICK new : new = [sessions EXCEPT ![id] = priced]
    OBVIOUS
  <2>6. /\ sessions' = new /\ daily' = Recomputed(daily, new, {jobs[id].day})
        /\ overtaken' = (overtaken \/ handler.step = "priced" \/ keeper.step = "priced"
                                   \/ with.price # settings.price)
    BY <1>5, <2>1, <2>3, <2>5 DEF Record
  <2>7. /\ new \in [Ids -> Recordings] /\ new[id] = priced
        /\ \A i \in Ids : i # id => new[i] = sessions[i]
    BY <2>4, <2>5 DEF Accounted, Typed
  <2>8. Typed'
    BY <1>2, <1>3, <2>6, <2>7 DEF Accounted, Typed, Idle
  <2>9. ~sessions[id].there
    BY <1>5 DEF NoSession
  <2>10. DailyFollowsSessions'
    BY <2>4, <2>6, <2>7, <2>9, RecomputedDays DEF Accounted
  <2>11. handler'.step = "priced" => handler.step = "priced"
    BY DEF Idle
  <2>12. ~overtaken' => /\ ~overtaken /\ handler.step # "priced" /\ keeper.step # "priced"
                        /\ with.price = settings.price
    BY <2>6
  <2>13. ASSUME keeper.step \in {"jobs", "done"}, ~overtaken', NEW i \in Ids, new[i].there
         PROVE  CostsAt(new[i], settings.price)
    BY <2>4, <2>7, <2>12, <2>13 DEF Accounted, PricesFollowSettings, Recorded
  <2>14. PricesFollowSettings'
    BY <2>6, <2>13 DEF PricesFollowSettings, Recorded
  <2>15. QED
    BY <2>6, <2>8, <2>10, <2>11, <2>12, <2>14 DEF Accounted
<1>6. QED
  BY <1>4, <1>5 DEF Record

\* A repricing leaves the days right, and prices every session it has read.
LEMMA RepricedSessions ==
  ASSUME Typed, DailyFollowsSessions, NEW read \in Reads, NEW price \in Nat, Reprice(read, price)
  PROVE  /\ sessions' \in [Ids -> Recordings]
         /\ DailyFollowsSessions'
         /\ \A id \in Ids : /\ sessions'[id].there = sessions[id].there
                            /\ sessions'[id].text = sessions[id].text
         /\ HasRead(read) => \A id \in Recorded : CostsAt(sessions'[id], price)
<1> DEFINE Is(id) == sessions[id].there /\ \E pair \in read : pair[1] = id
           days == {sessions[pair[1]].day : pair \in read}
<1>1. PICK new : new = [id \in Ids |-> IF Is(id)
                          THEN Priced(sessions[id], price, <<id, TRUE>> \in read)
                          ELSE sessions[id]]
  OBVIOUS
<1>2. sessions' = new /\ daily' = Recomputed(daily, new, days)
  BY <1>1 DEF Reprice
<1>3. ASSUME NEW id \in Ids
      PROVE  /\ new[id] \in Recordings /\ new[id].there = sessions[id].there
             /\ new[id].day = sessions[id].day /\ new[id].text = sessions[id].text
             /\ new[id] # sessions[id] => sessions[id].day \in days
             /\ HasRead(read) /\ sessions[id].there => CostsAt(new[id], price)
  <2>1. sessions[id] \in Recordings
    BY DEF Typed
  <2>2. CASE Is(id)
    <3>1. new[id] = Priced(sessions[id], price, <<id, TRUE>> \in read)
      BY <1>1, <2>2
    <3>2. HasRead(read) /\ sessions[id].text => <<id, TRUE>> \in read
      <4>1. ASSUME HasRead(read), sessions[id].text PROVE <<id, TRUE>> \in read
        <5>1. sessions[id].text = TRUE
          BY <2>1, <4>1 DEF Recordings
        <5>2. QED
          BY <2>2, <4>1, <5>1 DEF HasRead, Recorded
      <4>2. QED
        BY <4>1
    <3>3. sessions[id].day \in days
      BY <2>2
    <3>4. PICK text : text = (<<id, TRUE>> \in read)
      OBVIOUS
    <3>5. text \in BOOLEAN
      BY <3>4
    <3>6. new[id] = Priced(sessions[id], price, text)
      BY <3>1, <3>4
    <3>7. HasRead(read) /\ sessions[id].text => text
      BY <3>2, <3>4
    <3>8. QED
      BY <2>1, <3>3, <3>5, <3>6, <3>7, PricedSession
  <2>3. CASE ~Is(id)
    <3>1. new[id] = sessions[id]
      BY <1>1, <2>3
    <3>2. ~(HasRead(read) /\ sessions[id].there)
      <4>1. SUFFICES ASSUME HasRead(read), sessions[id].there PROVE FALSE
        OBVIOUS
      <4>2. PICK pair : pair = <<id, sessions[id].text>>
        OBVIOUS
      <4>3. pair \in read /\ pair[1] = id
        BY <4>1, <4>2 DEF HasRead, Recorded
      <4>4. QED
        BY <2>3, <4>1, <4>3
    <3>3. QED
      BY <2>1, <3>1, <3>2
  <2>4. QED
    BY <2>2, <2>3
<1>4. new \in [Ids -> Recordings]
  <2>1. new = [id \in Ids |-> new[id]]
    BY <1>1
  <2>2. QED
    BY <1>3, <2>1
<1> HIDE DEF Is, days
<1>5. DailyFollowsSessions'
  BY <1>2, <1>3, <1>4, RecomputedDays
<1>6. QED
  BY <1>2, <1>3, <1>4, <1>5 DEF Recorded

-----------------------------------------------------------------------------
\* The invariant holds at the start.
LEMMA UsageInit == Init => Accounted
<1> SUFFICES ASSUME Init PROVE Accounted
  OBVIOUS
<1>1. /\ NoJob \in Deliveries /\ NoSession \in Recordings /\ ~NoSession.there
      /\ Idle \in [step : {"idle", "completing", "priced"}, price : Nat, read : Reads, job : Nat]
  BY DEF NoJob, Deliveries, NoSession, Recordings, Idle, Reads
<1>2. Typed
  BY <1>1 DEF Init, Typed, Saved, Reads, Idle
<1>3. \A day \in Days : OnDay(sessions, day) = {}
  BY <1>1 DEF Init, OnDay
<1>4. DailyFollowsSessions
  BY <1>3, NothingCosts DEF Init, DailyFollowsSessions, NoDay
<1>5. PricesFollowSettings
  BY DEF Init, PricesFollowSettings
<1>6. QED
  BY <1>2, <1>4, <1>5 DEF Accounted, Init, Idle

\* A step that leaves the ledger alone, and who reprices it.
LEMMA UntouchedLedger ==
  ASSUME Accounted, Typed', UNCHANGED <<sessions, daily, settings>>,
         ~overtaken' => ~overtaken,
         handler'.step = "priced" => UNCHANGED handler,
         handler.step = "priced" => UNCHANGED handler,
         UNCHANGED keeper \/ keeper'.step \notin {"priced", "jobs", "done"}
  PROVE  Accounted'
<1>1. DailyFollowsSessions'
  BY DEF Accounted, DailyFollowsSessions
<1>2. PricesFollowSettings'
  BY DEF Accounted, PricesFollowSettings, Recorded
<1>3. QED
  BY <1>1, <1>2 DEF Accounted, HasRead, Recorded

\* The handler's and the user's steps,
LEMMA HandlerKeeps ==
  ASSUME Accounted, Kinds \subseteq [cleaned : BOOLEAN, free : BOOLEAN],
         \/ Midnight \/ Deliver \/ Complete \/ CompleteFails \/ SaveSettings \/ RepriceSaved
         \/ Restart \/ ReadUsage
  PROVE  Accounted'
<1>1. Idle \in [step : {"idle", "completing", "priced"}, price : Nat, read : Reads, job : Nat]
      /\ Idle.step = "idle"
  BY DEF Idle, Reads
<1>2. CASE Midnight
  <2>1. Typed'
    BY <1>2 DEF Midnight, Accounted, Typed
  <2>2. QED
    BY <1>2, <2>1, UntouchedLedger DEF Midnight
<1>3. CASE Deliver
  <2>1. PICK id \in Ids, kind \in Kinds, day \in {today, today - 1}, keep \in BOOLEAN :
          /\ handler = Idle
          /\ jobs' = [jobs EXCEPT ![id] = [day |-> day, cleaned |-> kind.cleaned,
                                           free |-> kind.free, keep |-> keep,
                                           allowed |-> TRUE]]
          /\ handler' = [Idle EXCEPT !.step = "completing", !.job = id]
          /\ UNCHANGED <<today, sessions, daily, settings, keeper, usage, troubles, overtaken,
                         disturbed>>
    BY <1>3 DEF Deliver
  <2>2. day \in Nat /\ id \in Nat
    BY DEF Accounted, Typed, Ids
  <2>3. kind.cleaned \in BOOLEAN /\ kind.free \in BOOLEAN
    OBVIOUS
  <2>4. PICK job : job = [day |-> day, cleaned |-> kind.cleaned, free |-> kind.free,
                          keep |-> keep, allowed |-> TRUE]
    OBVIOUS
  <2>5. job \in Deliveries /\ jobs' = [jobs EXCEPT ![id] = job]
    BY <2>1, <2>2, <2>3, <2>4 DEF Deliveries
  <2>6. handler' \in [step : {"idle", "completing", "priced"}, price : Nat, read : Reads,
                      job : Nat]
        /\ handler'.step = "completing" /\ handler'.job = id
    BY <1>1, <2>1, <2>2
  <2>7. jobs' \in [Ids -> Deliveries]
    BY <2>5 DEF Accounted, Typed
  <2>8. Typed'
    BY <2>1, <2>6, <2>7 DEF Accounted, Typed
  <2>9. QED
    BY <1>1, <2>1, <2>6, <2>8, UntouchedLedger
<1>4. CASE Complete
  <2>1. handler.step = "completing" /\ handler.job \in Ids /\ handler' = Idle
    BY <1>4 DEF Complete, Accounted, Typed
  <2>2. CASE jobs[handler.job] = NoJob
    <3>1. UNCHANGED <<today, jobs, sessions, daily, settings, keeper, overtaken>>
      BY <1>4, <2>2 DEF Complete
    <3>2. Typed'
      BY <1>1, <2>1, <3>1 DEF Accounted, Typed
    <3>3. QED
      BY <1>1, <2>1, <3>1, <3>2, UntouchedLedger
  <2>3. CASE jobs[handler.job] # NoJob
    <3>1. Record(handler.job, settings) /\ UNCHANGED <<today, settings, keeper>>
      BY <1>4, <2>3 DEF Complete
    <3>2. settings \in Saved
      BY DEF Accounted, Typed
    <3>3. QED
      BY <2>1, <3>1, <3>2, RecordKeeps
  <2>4. QED
    BY <2>2, <2>3
<1>5. CASE CompleteFails
  <2>1. handler.step = "completing" /\ handler' = Idle
        /\ UNCHANGED <<today, jobs, sessions, daily, settings, keeper, overtaken>>
    BY <1>5 DEF CompleteFails
  <2>2. Typed'
    BY <1>1, <2>1 DEF Accounted, Typed
  <2>3. QED
    BY <1>1, <2>1, <2>2, UntouchedLedger
<1>6. CASE SaveSettings
  <2>1. PICK read : read = {<<id, sessions[id].text>> : id \in Recorded}
    OBVIOUS
  <2>2. /\ handler' = [Idle EXCEPT !.step = "priced", !.price = settings.price + 1,
                                   !.read = read]
        /\ settings' \in [price : {settings.price + 1}, save : BOOLEAN]
        /\ overtaken' = (keeper.step = "priced")
        /\ UNCHANGED <<today, jobs, sessions, daily, keeper>>
    BY <1>6, <2>1 DEF SaveSettings
  <2>3. settings' \in Saved /\ settings'.price = settings.price + 1
    BY <2>2 DEF Accounted, Typed, Saved
  <2>4. \A id \in Ids : sessions[id].text \in BOOLEAN
    BY DEF Accounted, Typed, Recordings
  <2>5. read \in Reads /\ HasRead(read)
    BY <2>1, <2>4 DEF Reads, HasRead, Recorded
  <2>6. settings.price + 1 \in Nat
    BY DEF Accounted, Typed, Saved
  <2>7. handler' \in [step : {"idle", "completing", "priced"}, price : Nat, read : Reads,
                      job : Nat]
        /\ handler'.step = "priced" /\ handler'.price = settings'.price
        /\ handler'.read = read
    BY <1>1, <2>2, <2>3, <2>5, <2>6
  <2>8. Typed'
    BY <2>2, <2>3, <2>7 DEF Accounted, Typed
  <2>9. DailyFollowsSessions'
    BY <2>2 DEF Accounted, DailyFollowsSessions
  <2>10. PricesFollowSettings'
    BY <2>7 DEF PricesFollowSettings
  <2>11. HasRead(handler.read)'
    BY <2>2, <2>5, <2>7 DEF HasRead, Recorded
  <2>12. QED
    BY <2>2, <2>7, <2>8, <2>9, <2>10, <2>11 DEF Accounted
<1>7. CASE RepriceSaved
  <2>1. handler.step = "priced" /\ handler' = Idle /\ UNCHANGED <<today, jobs, settings, keeper>>
    BY <1>7 DEF RepriceSaved
  <2>2. CASE Reprice(handler.read, handler.price) /\ UNCHANGED overtaken
    <3>1. handler.read \in Reads /\ handler.price \in Nat
      BY DEF Accounted, Typed
    <3>2. /\ sessions' \in [Ids -> Recordings] /\ DailyFollowsSessions'
          /\ \A id \in Ids : /\ sessions'[id].there = sessions[id].there
                             /\ sessions'[id].text = sessions[id].text
          /\ HasRead(handler.read) =>
               \A id \in Recorded : CostsAt(sessions'[id], handler.price)
      BY <2>2, <3>1, RepricedSessions DEF Accounted
    <3>3. Typed'
      BY <1>1, <2>1, <3>2 DEF Accounted, Typed
    <3>4. Recorded' = Recorded
      BY <3>2 DEF Recorded
    <3>5. ~overtaken' => \A id \in Recorded : CostsAt(sessions'[id], settings.price)
      BY <2>1, <2>2, <3>2 DEF Accounted
    <3>6. PricesFollowSettings'
      BY <2>1, <3>4, <3>5 DEF PricesFollowSettings
    <3>7. HasRead(keeper.read) => HasRead(keeper.read)'
      BY <2>1, <3>2, <3>4 DEF HasRead, Recorded
    <3>8. QED
      BY <1>1, <2>1, <2>2, <3>2, <3>3, <3>6, <3>7 DEF Accounted
  <2>3. CASE overtaken' /\ UNCHANGED <<sessions, daily>>
    <3>1. Typed'
      BY <1>1, <2>1, <2>3 DEF Accounted, Typed
    <3>2. DailyFollowsSessions'
      BY <2>3 DEF Accounted, DailyFollowsSessions
    <3>3. QED
      BY <2>3, <3>1, <3>2 DEF Accounted, PricesFollowSettings
  <2>4. QED
    BY <1>7, <2>2, <2>3 DEF RepriceSaved
<1>8. CASE Restart
  <2>1. /\ handler' = Idle /\ UNCHANGED <<today, jobs, sessions, daily, settings>>
        /\ keeper' = [step |-> "pricing", settings |-> settings, read |-> {}]
    BY <1>8 DEF Restart
  <2>2. Typed'
    BY <1>1, <2>1 DEF Accounted, Typed, Reads
  <2>3. DailyFollowsSessions'
    BY <2>1 DEF Accounted, DailyFollowsSessions
  <2>4. QED
    BY <1>1, <2>1, <2>2, <2>3 DEF Accounted, PricesFollowSettings
<1>9. CASE ReadUsage
  <2>1. UNCHANGED <<today, jobs, sessions, daily, settings, handler, keeper, overtaken>>
    BY <1>9 DEF ReadUsage, ReadSummary, ReadSessions, ReadCost, ReadWeekly, Show
  <2>2. Typed'
    BY <2>1 DEF Accounted, Typed
  <2>3. QED
    BY <2>1, <2>2, UntouchedLedger
<1>10. QED
  BY <1>2, <1>3, <1>4, <1>5, <1>6, <1>7, <1>8, <1>9

\* those of maintenance,
LEMMA KeeperKeeps ==
  ASSUME Accounted, CleanUp \/ ReadPrices \/ RepriceAtStart
  PROVE  Accounted'
<1>1. keeper.settings \in Saved /\ keeper.settings.price \in Nat /\ keeper.read \in Reads
  BY DEF Accounted, Typed, Saved
<1>2. CASE CleanUp
  <2>1. CASE \E id \in Pending : Record(id, keeper.settings) /\ UNCHANGED keeper
    BY <1>1, <1>2, <2>1, RecordKeeps DEF CleanUp, Pending
  <2>2. CASE /\ keeper' = [keeper EXCEPT !.step = "done"]
             /\ UNCHANGED <<jobs, sessions, daily, overtaken, disturbed>>
    <3>1. keeper.step = "jobs" /\ UNCHANGED <<today, settings, handler>>
      BY <1>2 DEF CleanUp
    <3>2. keeper'.step = "done" /\ keeper'.settings = keeper.settings /\ keeper'.read = keeper.read
      BY <2>2 DEF Accounted, Typed
    <3>3. Typed'
      BY <2>2, <3>1, <3>2 DEF Accounted, Typed
    <3>4. DailyFollowsSessions'
      BY <2>2 DEF Accounted, DailyFollowsSessions
    <3>5. PricesFollowSettings'
      BY <2>2, <3>1, <3>2 DEF Accounted, PricesFollowSettings, Recorded
    <3>6. QED
      BY <2>2, <3>1, <3>2, <3>3, <3>4, <3>5 DEF Accounted, HasRead, Recorded
  <2>3. QED
    BY <1>2, <2>1, <2>2 DEF CleanUp
<1>3. CASE ReadPrices
  <2>1. PICK read : read = {<<id, sessions[id].text>> : id \in Recorded}
    OBVIOUS
  <2>2. /\ keeper' = [keeper EXCEPT !.step = "priced", !.read = read]
        /\ UNCHANGED <<today, jobs, sessions, daily, settings, handler, overtaken>>
    BY <1>3, <2>1 DEF ReadPrices
  <2>3. \A id \in Ids : sessions[id].text \in BOOLEAN
    BY DEF Accounted, Typed, Recordings
  <2>4. read \in Reads /\ HasRead(read)
    BY <2>1, <2>3 DEF Reads, HasRead, Recorded
  <2>5. keeper' \in [step : {"pricing", "priced", "jobs", "done"}, settings : Saved, read : Reads]
        /\ keeper'.step = "priced" /\ keeper'.read = read
    BY <2>2, <2>4 DEF Accounted, Typed
  <2>6. Typed'
    BY <2>2, <2>5 DEF Accounted, Typed
  <2>7. DailyFollowsSessions'
    BY <2>2 DEF Accounted, DailyFollowsSessions
  <2>8. PricesFollowSettings'
    BY <2>5 DEF PricesFollowSettings
  <2>9. HasRead(keeper.read)'
    BY <2>2, <2>4, <2>5 DEF HasRead, Recorded
  <2>10. HasRead(handler.read) => HasRead(handler.read)'
    BY <2>2 DEF HasRead, Recorded
  <2>11. QED
    BY <2>2, <2>6, <2>7, <2>8, <2>9, <2>10 DEF Accounted
<1>4. CASE RepriceAtStart
  <2>1. /\ keeper.step = "priced" /\ UNCHANGED <<today, jobs, settings, handler>>
        /\ keeper' = [keeper EXCEPT !.step = "jobs", !.read = {}]
    BY <1>4 DEF RepriceAtStart
  <2>2. keeper' \in [step : {"pricing", "priced", "jobs", "done"}, settings : Saved, read : Reads]
        /\ keeper'.step = "jobs"
    BY <2>1 DEF Accounted, Typed, Reads
  <2>3. CASE /\ Reprice(keeper.read, keeper.settings.price)
             /\ overtaken' = (overtaken \/ keeper.settings.price # settings.price
                                        \/ handler.step = "priced")
    <3>1. /\ sessions' \in [Ids -> Recordings] /\ DailyFollowsSessions'
          /\ \A id \in Ids : sessions'[id].there = sessions[id].there
          /\ HasRead(keeper.read) =>
               \A id \in Recorded : CostsAt(sessions'[id], keeper.settings.price)
      BY <1>1, <2>3, RepricedSessions DEF Accounted
    <3>2. Typed'
      BY <2>1, <2>2, <3>1 DEF Accounted, Typed
    <3>3. Recorded' = Recorded
      BY <3>1 DEF Recorded
    <3>4. ~overtaken' => /\ ~overtaken /\ keeper.settings.price = settings.price
                         /\ handler.step # "priced"
      BY <2>3
    <3>5. ~overtaken' => \A id \in Recorded : CostsAt(sessions'[id], settings.price)
      BY <2>1, <3>1, <3>4 DEF Accounted
    <3>6. PricesFollowSettings'
      BY <2>1, <3>3, <3>5 DEF PricesFollowSettings
    <3>7. QED
      BY <2>1, <2>2, <3>1, <3>2, <3>4, <3>6 DEF Accounted
  <2>4. CASE overtaken' /\ UNCHANGED <<sessions, daily>>
    <3>1. Typed'
      BY <2>1, <2>2, <2>4 DEF Accounted, Typed
    <3>2. DailyFollowsSessions'
      BY <2>4 DEF Accounted, DailyFollowsSessions
    <3>3. QED
      BY <2>4, <3>1, <3>2 DEF Accounted, PricesFollowSettings
  <2>5. QED
    BY <1>4, <2>3, <2>4 DEF RepriceAtStart
<1>5. QED
  BY <1>2, <1>3, <1>4

\* and those that delete.
LEMMA DeletionKeeps ==
  ASSUME Accounted, DeleteHistory \/ ClearHistory
  PROVE  Accounted'
<1>1. ASSUME NEW id \in Ids, NEW gone, gone = Gone(sessions[id])
      PROVE  gone \in Recordings /\ ~gone.there /\ gone.day = sessions[id].day
  <2>1. sessions[id].day \in Nat
    BY DEF Accounted, Typed, Recordings
  <2>2. QED
    BY <1>1, <2>1 DEF Gone, NoSession, Recordings
<1>2. handler = Idle /\ Idle.step = "idle"
  BY DEF DeleteHistory, ClearHistory, Idle
<1>3. ASSUME NEW new \in [Ids -> Recordings], sessions' = new, Typed', DailyFollowsSessions',
             \A id \in Ids : new[id] = sessions[id] \/ ~new[id].there,
             UNCHANGED <<settings, handler, keeper, overtaken>>
      PROVE  Accounted'
  <2>1. \A id \in Ids : new[id].there => new[id] = sessions[id]
    BY <1>3
  <2>2. PricesFollowSettings'
    BY <1>3, <2>1 DEF Accounted, PricesFollowSettings, Recorded
  <2>3. QED
    BY <1>2, <1>3, <2>1, <2>2 DEF Accounted, HasRead, Recorded
<1>4. CASE DeleteHistory
  <2>1. PICK id \in Recorded :
          /\ sessions' = [sessions EXCEPT ![id] = Gone(@)]
          /\ daily' = Recomputed(daily, [sessions EXCEPT ![id] = Gone(@)], {sessions[id].day})
          /\ UNCHANGED <<today, jobs, settings, handler, keeper, overtaken>>
    BY <1>4 DEF DeleteHistory
  <2>2. PICK gone : gone = Gone(sessions[id])
    OBVIOUS
  <2>3. PICK new : new = [sessions EXCEPT ![id] = gone]
    OBVIOUS
  <2>4. id \in Ids /\ gone \in Recordings /\ ~gone.there
    BY <1>1, <2>1, <2>2 DEF Recorded
  <2>5. /\ new \in [Ids -> Recordings] /\ new[id] = gone
        /\ \A i \in Ids : i # id => new[i] = sessions[i]
    BY <2>3, <2>4 DEF Accounted, Typed
  <2>6. sessions' = new /\ daily' = Recomputed(daily, new, {sessions[id].day})
    BY <2>1, <2>2, <2>3
  <2>7. DailyFollowsSessions'
    BY <2>4, <2>5, <2>6, RecomputedDays DEF Accounted
  <2>8. Typed'
    BY <2>1, <2>5, <2>6 DEF Accounted, Typed
  <2>9. QED
    BY <1>3, <2>1, <2>4, <2>5, <2>6, <2>7, <2>8
<1>5. CASE ClearHistory
  <2>1. /\ jobs' = [id \in Ids |-> IF jobs[id] = NoJob THEN NoJob
                                   ELSE [jobs[id] EXCEPT !.allowed = FALSE]]
        /\ sessions' = [id \in Ids |-> Gone(sessions[id])]
        /\ daily' = [day \in Days |-> NoDay]
        /\ UNCHANGED <<today, settings, handler, keeper, overtaken>>
    BY <1>5 DEF ClearHistory
  <2>2. PICK new : new = [id \in Ids |-> Gone(sessions[id])]
    OBVIOUS
  <2>3. new \in [Ids -> Recordings] /\ \A id \in Ids : ~new[id].there
    BY <1>1, <2>2
  <2>4. ASSUME NEW id \in Ids
        PROVE  (IF jobs[id] = NoJob THEN NoJob ELSE [jobs[id] EXCEPT !.allowed = FALSE])
                 \in Deliveries
    <3>1. jobs[id] \in Deliveries
      BY DEF Accounted, Typed
    <3>2. [jobs[id] EXCEPT !.allowed = FALSE] \in Deliveries
      BY <3>1 DEF Deliveries
    <3>3. QED
      BY <3>1, <3>2
  <2>5. jobs' \in [Ids -> Deliveries]
    BY <2>1, <2>4
  <2>6. Typed'
    BY <2>1, <2>2, <2>3, <2>5 DEF Accounted, Typed
  <2>7. \A day \in Days : OnDay(new, day) = {}
    BY <2>3 DEF OnDay
  <2>8. DailyFollowsSessions'
    BY <2>1, <2>2, <2>7, NothingCosts DEF DailyFollowsSessions, NoDay
  <2>9. QED
    BY <1>3, <2>1, <2>2, <2>3, <2>6, <2>8
<1>6. QED
  BY <1>4, <1>5

LEMMA UsageStep ==
  Kinds \subseteq [cleaned : BOOLEAN, free : BOOLEAN] /\ Accounted /\ [Next]_vars => Accounted'
<1> SUFFICES ASSUME Kinds \subseteq [cleaned : BOOLEAN, free : BOOLEAN], Accounted, [Next]_vars
             PROVE  Accounted'
  OBVIOUS
<1>1. CASE Next
  BY <1>1, HandlerKeeps, KeeperKeeps, DeletionKeeps DEF Next
<1>2. CASE UNCHANGED vars
  <2>1. UNCHANGED <<today, jobs, sessions, daily, settings, handler, keeper, overtaken>>
    BY <1>2 DEF vars
  <2>2. Typed'
    BY <2>1 DEF Accounted, Typed
  <2>3. QED
    BY <2>1, <2>2, UntouchedLedger
<1>3. QED
  BY <1>1, <1>2
=============================================================================
