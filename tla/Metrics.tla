------------------------------- MODULE Metrics -------------------------------
(***************************************************************************)
(* What is derived from the sessions table: the hourly rollup that the     *)
(* aggregator refreshes periodically (REFRESH_HOURLY_SQL of db.py), the    *)
(* conversion detector that reads the rollup (anomalies.py), and the       *)
(* cumulative funnel of the API (fetch_funnel).  The consume loop writes   *)
(* the table in between.  Time is in ticks, HourTicks of them an hour.     *)
(***************************************************************************)
EXTENDS Integers, Sequences, FiniteSets

CONSTANTS
    None,
    Person,         \* embeddings
    HourTicks,      \* an hour
    RollupWindow,   \* the rollup recomputes the last 48 hours
    DropWindow,     \* the detector looks at the last 6 hours
    ReadWindow,     \* ?hours= of the funnel
    MinFootfall,    \* 20: fewer customers prove nothing
    MaxLag,         \* bound: how late an entry reaches the table
    MaxRows,        \* bound: sessions in a behaviour
    MaxTime         \* bound: ticks in a behaviour

ASSUME MetricsAssumption ==
    /\ None \notin Person
    /\ {HourTicks, MinFootfall} \subseteq Nat \ {0}
    /\ {RollupWindow, DropWindow, ReadWindow, MaxLag, MaxRows, MaxTime} \subseteq Nat

VARIABLES
    now,        \* the clock of the database
    table,      \* sessions, in order of insertion
    hourly,     \* hourly_metrics, by hour_bucket
    anomalies   \* the conversion_drop rows: their bucket and when detected

vars == <<now, table, hourly, anomalies>>

Stages == <<"entered", "browsed", "engaged", "checkout_queued", "purchased">>

Row == [entered : Nat, embedding : Person \cup {None}, staff : BOOLEAN,
        stage : DOMAIN Stages]

Bucket == [footfall : Nat, unique : Nat, purchases : Nat, checkouts : Nat]

Queued == 4  \* position in Stages of checkout_queued
Bought == 5  \* and of purchased

Init == now = 0 /\ table = <<>> /\ hourly = <<>> /\ anomalies = {}

\* Mutant of Hour: the time itself.
HourNow(t) == t

\* date_trunc('hour', t)
Hour(t) == t - (t % HourTicks)

-----------------------------------------------------------------------------
(* The clock, and the consume loop's writes (db.upsert_session). *)

Tick == now < MaxTime /\ now' = now + 1 /\ UNCHANGED <<table, hourly, anomalies>>

Insert ==
    /\ Len(table) < MaxRows
    /\ \E lag \in 0..MaxLag, e \in Person \cup {None} :
         /\ lag <= now
         /\ table' = Append(table, [entered |-> now - lag, embedding |-> e,
                                    staff |-> FALSE, stage |-> 1])
    /\ UNCHANGED <<now, hourly, anomalies>>

\* The session's stage climbs, or it turns out to be staff.
Advance(v) ==
    /\ \/ \E st \in DOMAIN Stages :
            st > table[v].stage /\ table' = [table EXCEPT ![v].stage = st]
       \/ ~ table[v].staff /\ table' = [table EXCEPT ![v].staff = TRUE]
    /\ UNCHANGED <<now, hourly, anomalies>>

-----------------------------------------------------------------------------
(* The rollup. *)

\* WHERE entered_at >= now() - ... AND role != 'staff'
Customers(window) ==
    {v \in DOMAIN table : table[v].entered >= now - window /\ ~ table[v].staff}

\* COUNT(DISTINCT COALESCE(embedding_id, session_id))
Visitors(who) ==
    {IF table[v].embedding # None THEN table[v].embedding ELSE v : v \in who}

\* Mutant of Rollup: checkouts without the purchases.
RollupQueued(who) ==
    [footfall  |-> Cardinality(who),
     unique    |-> Cardinality(Visitors(who)),
     purchases |-> Cardinality({v \in who : table[v].stage = Bought}),
     checkouts |-> Cardinality({v \in who : table[v].stage = Queued})]

\* The row of a group of sessions; conversion_rate is purchases / footfall.
Rollup(who) ==
    [footfall  |-> Cardinality(who),
     unique    |-> Cardinality(Visitors(who)),
     purchases |-> Cardinality({v \in who : table[v].stage = Bought}),
     checkouts |-> Cardinality({v \in who : table[v].stage \in {Queued, Bought}})]

EnteredIn(h, who) == {v \in who : Hour(table[v].entered) = h}

\* Mutant of Refresh: ON CONFLICT DO NOTHING.
RefreshNew ==
    LET who   == Customers(RollupWindow)
        hours == {Hour(table[v].entered) : v \in who}
    IN  hourly' = [h \in DOMAIN hourly \cup hours |->
                     IF h \in DOMAIN hourly THEN hourly[h]
                                            ELSE Rollup(EnteredIn(h, who))]
    /\ UNCHANGED <<now, table, anomalies>>

\* Mutant of Refresh: without its WHERE entered_at >= ...
RefreshAll ==
    LET who   == Customers(now)
        hours == {Hour(table[v].entered) : v \in who}
    IN  hourly' = [h \in DOMAIN hourly \cup hours |->
                     IF h \in hours THEN Rollup(EnteredIn(h, who)) ELSE hourly[h]]
    /\ UNCHANGED <<now, table, anomalies>>

\* GROUP BY the hour, ON CONFLICT DO UPDATE: only the hours that have a
\* customer in the window are written.
Refresh ==
    LET who   == Customers(RollupWindow)
        hours == {Hour(table[v].entered) : v \in who}
    IN  hourly' = [h \in DOMAIN hourly \cup hours |->
                     IF h \in hours THEN Rollup(EnteredIn(h, who)) ELSE hourly[h]]
    /\ UNCHANGED <<now, table, anomalies>>

-----------------------------------------------------------------------------
(* The conversion detector. *)

Recent == {h \in DOMAIN hourly : h >= now - DropWindow}

\* Mutant of RowNumber: ORDER BY hour_bucket ASC.
RowNumberAsc(h) == Cardinality({g \in Recent : g <= h})

\* ROW_NUMBER() OVER (ORDER BY hour_bucket DESC)
RowNumber(h) == Cardinality({g \in Recent : g >= h})

\* The hour in row n of `recent'.
RecentHour(n) == CHOOSE h \in Recent : RowNumber(h) = n

\* The last of the rows 2 to 4 that there are.
LastPrior == IF Cardinality(Recent) < 4 THEN Cardinality(Recent) ELSE 4

\* The conversion rates of rows 2 to last summed, as a fraction.
RateSum(last) ==
    LET sum[n \in 1..last] ==
            IF n = 1 THEN [num |-> 0, den |-> 1]
            ELSE LET row == hourly[RecentHour(n)]
                 IN  [num |-> sum[n - 1].num * row.footfall
                                + row.purchases * sum[n - 1].den,
                      den |-> sum[n - 1].den * row.footfall]
    IN  sum[last]

\* (prior - current) / prior > 0.3, prior being the mean of those rates.
Dropped(current) ==
    LET prior == RateSum(LastPrior)
    IN  10 * hourly[current].purchases * (LastPrior - 1) * prior.den
            < 7 * prior.num * hourly[current].footfall

DetectDrop ==
    /\ LastPrior > 1
    /\ LET current == RecentHour(1)
       IN  /\ hourly[current].footfall >= MinFootfall
           /\ Dropped(current)
           /\ anomalies' = anomalies \cup {[bucket |-> current, at |-> now]}
    /\ UNCHANGED <<now, table, hourly>>

-----------------------------------------------------------------------------
(* The funnel read by the API: COUNT per stage, then a running sum from the  *)
(* last stage back.                                                          *)

PerStage(st) == Cardinality({v \in Customers(ReadWindow) : table[v].stage = st})

\* Mutant of Funnel: the running sum from the first stage on.
FunnelForward ==
    LET running[st \in DOMAIN Stages] ==
            PerStage(st) + IF st = 1 THEN 0 ELSE running[st - 1]
    IN  running

Funnel ==
    LET running[st \in DOMAIN Stages] ==
            PerStage(st) + IF st = Len(Stages) THEN 0 ELSE running[st + 1]
    IN  running

-----------------------------------------------------------------------------
Next ==
    \/ Tick \/ Insert \/ \E v \in DOMAIN table : Advance(v)
    \/ Refresh \/ DetectDrop

Spec == Init /\ [][Next]_vars

\* The periodic task logs an exception and goes on: a refresh always comes.
FairSpec == Spec /\ WF_vars(Refresh)

-----------------------------------------------------------------------------
(* Properties. *)

TypeOK ==
    /\ now \in 0..MaxTime
    /\ table \in Seq(Row)
    /\ \A h \in DOMAIN hourly : h % HourTicks = 0 /\ hourly[h] \in Bucket
    /\ anomalies \subseteq [bucket : DOMAIN hourly, at : 0..now]

\* The columns of a rollup row agree with each other whatever the table went
\* through since: no more purchases than checkouts, checkouts than customers,
\* visitors than visits (db.py:364-373).
CountsNest ==
    \A h \in DOMAIN hourly :
        /\ hourly[h].purchases <= hourly[h].checkouts
        /\ hourly[h].checkouts <= hourly[h].footfall
        /\ hourly[h].unique \in 1..hourly[h].footfall

\* The running sum over per-stage counts is the funnel: at each stage, the
\* customers who got that far (db.py:286-294).
FunnelCounts ==
    \A st \in DOMAIN Stages :
        Funnel[st] = Cardinality({v \in Customers(ReadWindow) : table[v].stage >= st})

\* History is final: an hour that ended before the window keeps its row, even
\* if a late receipt or a staff sighting changes one of its sessions
\* (db.py:375-379).
HistoryFinal ==
    [][\A h \in DOMAIN hourly :
         h + HourTicks <= now - RollupWindow => hourly'[h] = hourly[h]]_vars

\* The rollup catches up: once the table is at rest, every hour that lies in
\* the window with a customer has the row its sessions make
\* (__main__.py:60-70, db.py:359-394).
CatchesUp ==
    <>[](\A h \in {Hour(table[v].entered) : v \in Customers(RollupWindow)} :
           h >= now - RollupWindow =>
               /\ h \in DOMAIN hourly
               /\ hourly[h] = Rollup(EnteredIn(h, Customers(now))))

\* A drop is a drop: an hour is reported only if an earlier one in sight
\* converted better (anomalies.py:84-109).
ReportedDropped ==
    [][\A a \in anomalies' \ anomalies :
         \E h \in Recent :
            /\ h < a.bucket
            /\ hourly[h].purchases * hourly[a.bucket].footfall
                 > hourly[a.bucket].purchases * hourly[h].footfall]_vars

-----------------------------------------------------------------------------
(* What the documents say and the code does not do. *)

\* docs/DESIGN.md:232: the conversion rate is purchased / entered, per hour.
\* So a row just written has the rate of the hour's customers.
RateOfTheHour ==
    [][\A h \in DOMAIN hourly' :
         h \notin DOMAIN hourly \/ hourly'[h] # hourly[h] =>
            LET truth == Rollup(EnteredIn(h, Customers(now)))
            IN  hourly'[h].purchases * truth.footfall
                    = truth.purchases * hourly'[h].footfall]_vars
=============================================================================
