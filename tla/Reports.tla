------------------------------ MODULE Reports ------------------------------
(***************************************************************************)
(* Readers of the sessions and session_zone_visits tables: the dead-zone   *)
(* detector, which the aggregator runs every minute (anomalies.py), and    *)
(* the GET handlers of the API that answer from several queries            *)
(* (api/main.py over db.py), represented by /sales.                        *)
(*                                                                         *)
(* Postgres runs each query on the rows committed when the query begins,   *)
(* while now() is the start of the transaction; the consume loop writes    *)
(* between the queries of an answer, and between the detector's query and  *)
(* the anomalies it inserts.  Time is in ticks, HourTicks of them an hour. *)
(***************************************************************************)
EXTENDS Integers, Sequences, FiniteSets

CONSTANTS
    None,
    Zone,           \* the shelf zones
    HourTicks,      \* an hour
    Baseline,       \* 14 days
    ReadWindow,     \* ?hours= of the reader
    MinMedian,      \* 4: a zone with a lower median is not reported
    Share,          \* 25: per cent of the median
    Days,           \* bounds: how much of what may happen in a behaviour
    MaxTime         \* bound: ticks in a behaviour

\* Sessions, visits, receipts, staff sightings and readers of a behaviour.
Day == [{"enter", "visit", "buy", "staff", "ask"} -> Nat]

ASSUME ReportsAssumption ==
    /\ None \notin Nat
    /\ HourTicks \in Nat \ {0}
    /\ {Baseline, ReadWindow, MinMedian, Share, MaxTime} \subseteq Nat
    /\ Days \subseteq Day

VARIABLES
    now,     \* the clock of the database
    table,   \* sessions with their zone visits, in order of insertion
    found,   \* the rows detect_dead_zones has fetched and not yet inserted
    alerts,  \* dead_zone rows of anomalies: zone and bucket
    answer,  \* the answer to /sales under construction, or None
    left     \* what may still happen

vars == <<now, table, found, alerts, answer, left>>

\* bill: when the checkout was, and whether the receipt names a salesperson.
Row == [entered : Nat, staff : BOOLEAN, zones : SUBSET Zone,
        bill : [till : Nat, named : BOOLEAN] \cup {None}]

Init ==
    /\ now = 0 /\ table = <<>> /\ found = {} /\ alerts = {} /\ answer = None
    /\ left \in Days

Once(what) == left[what] > 0 /\ left' = [left EXCEPT ![what] = @ - 1]

Hour(t) == (t \div HourTicks) * HourTicks

-----------------------------------------------------------------------------
(* The clock and the consume loop's writes. *)

Tick == now < MaxTime /\ now' = now + 1 /\ UNCHANGED <<table, found, alerts, answer, left>>

Insert ==
    /\ Once("enter")
    /\ table' = Append(table, [entered |-> now, staff |-> FALSE, zones |-> {},
                               bill |-> None])
    /\ UNCHANGED <<now, found, alerts, answer>>

\* A zone visit, a receipt joined to a checkout of just now, or a staff sighting.
Update(v) ==
    /\ \/ /\ Once("visit")
          /\ \E z \in Zone \ table[v].zones :
               table' = [table EXCEPT ![v].zones = @ \cup {z}]
       \/ /\ Once("buy") /\ table[v].bill = None
          /\ \E named \in BOOLEAN :
               table' = [table EXCEPT ![v].bill = [till |-> now, named |-> named]]
       \/ /\ Once("staff") /\ ~ table[v].staff
          /\ table' = [table EXCEPT ![v].staff = TRUE]
    /\ UNCHANGED <<now, found, alerts, answer>>

-----------------------------------------------------------------------------
(* The dead-zone detector. *)

\* Mutant of Visitors: without role != 'staff'.
VisitorsAndStaff(z, since) ==
    {v \in DOMAIN table : table[v].entered >= since /\ z \in table[v].zones}

\* The customers who entered since then and visited the zone.
Visitors(z, since) ==
    {v \in DOMAIN table : /\ table[v].entered >= since /\ ~ table[v].staff
                          /\ z \in table[v].zones}

\* hourly: the visitors of a zone per hour in which it had any.
Hourly(z) ==
    LET who == Visitors(z, now - Baseline)
    IN  [h \in {Hour(table[v].entered) : v \in who} |->
            Cardinality({v \in who : Hour(table[v].entered) = h})]

\* The join with session_zone_visits repeats each hour once per visit of the
\* zone ever recorded, staff's included.
Copies(z) == Cardinality({v \in DOMAIN table : z \in table[v].zones})

\* Element n, from 0, of the hours' counts in ascending order, each of them
\* repeated `copies' times.
Nth(counts, copies, n) ==
    CHOOSE c \in {counts[h] : h \in DOMAIN counts} :
        /\ copies * Cardinality({h \in DOMAIN counts : counts[h] < c}) <= n
        /\ n < copies * Cardinality({h \in DOMAIN counts : counts[h] <= c})

\* Twice percentile_cont(0.5): twice the element in the middle, or the sum of
\* the two there.
TwiceMedian(counts, copies) ==
    LET last == copies * Cardinality(DOMAIN counts) - 1
    IN  Nth(counts, copies, last \div 2) + Nth(counts, copies, (last + 1) \div 2)

\* _DEAD_ZONE_SQL.  recent_hour has no row for a zone without a visitor.
DeadZones ==
    {z \in Zone :
        LET recent == Cardinality(Visitors(z, now - HourTicks))
            median == TwiceMedian(Hourly(z), Copies(z))
        IN  /\ recent > 0 /\ DOMAIN Hourly(z) # {}
            /\ median >= 2 * MinMedian
            /\ 200 * recent < Share * median}

\* detect_dead_zones up to fetchall; the bucket is taken before.
Detect ==
    /\ found = {}
    /\ found' = {[zone |-> z, bucket |-> Hour(now),
                  recent |-> Cardinality(Visitors(z, now - HourTicks))] : z \in DeadZones}
    /\ UNCHANGED <<now, table, alerts, answer, left>>

\* insert_anomaly, in a transaction of its own.
Report ==
    /\ \E f \in found :
         /\ alerts' = alerts \cup {[zone |-> f.zone, bucket |-> f.bucket]}
         /\ found' = found \ {f}
    /\ UNCHANGED <<now, table, answer, left>>

\* An insert raises: run_all ends, and the rest is not reported.
ReportFails ==
    /\ found # {} /\ found' = {}
    /\ UNCHANGED <<now, table, alerts, answer, left>>

-----------------------------------------------------------------------------
(* GET /sales: three queries in one transaction. *)

\* Mutant of Since: the clock of the statement.
SinceStatement == now - ReadWindow

\* The window's begin; now() is the start of the transaction.
Since == answer.start - ReadWindow

Billed == {v \in DOMAIN table : table[v].bill # None /\ ~ table[v].staff}

Asked ==
    /\ answer = None /\ Once("ask")
    /\ answer' = [start |-> now, people |-> None, modes |-> None, hours |-> None]
    /\ UNCHANGED <<now, table, found, alerts>>

\* by_salesperson_sql (without its LIMIT)
ByPeople ==
    /\ answer # None /\ answer.people = None
    /\ answer' = [answer EXCEPT !.people =
                    {v \in Billed : table[v].entered >= Since /\ table[v].bill.named}]
    /\ UNCHANGED <<now, table, found, alerts, left>>

\* by_mode_sql
ByMode ==
    /\ answer # None /\ answer.people # None /\ answer.modes = None
    /\ answer' = [answer EXCEPT !.modes = {v \in Billed : table[v].entered >= Since}]
    /\ UNCHANGED <<now, table, found, alerts, left>>

\* hourly_revenue_sql: by the time of the checkout.
ByHour ==
    /\ answer # None /\ answer.modes # None /\ answer.hours = None
    /\ answer' = [answer EXCEPT !.hours = {v \in Billed : table[v].bill.till >= Since}]
    /\ UNCHANGED <<now, table, found, alerts, left>>

\* The answer is sent, or a query raises.
Answered == answer # None /\ answer' = None /\ UNCHANGED <<now, table, found, alerts, left>>

-----------------------------------------------------------------------------
Next ==
    \/ Tick \/ Insert \/ \E v \in DOMAIN table : Update(v)
    \/ Detect \/ Report \/ ReportFails
    \/ Asked \/ ByPeople \/ ByMode \/ ByHour \/ Answered

Spec == Init /\ [][Next]_vars

-----------------------------------------------------------------------------
(* Properties. *)

\* A dead zone is one: whatever the join does to the median, in at least half
\* of the hours of the last 14 days in which a customer was in the zone there
\* were so many that the visitors of the last hour are less than Share per cent
\* of them (anomalies.py:131-162).
QuietZone ==
    [][\A f \in found' \ found :
         LET who == {v \in DOMAIN table : /\ ~ table[v].staff
                                          /\ f.zone \in table[v].zones
                                          /\ table[v].entered >= now - Baseline}
             count(h) == Cardinality({v \in who : Hour(table[v].entered) = h})
             hours == {Hour(table[v].entered) : v \in who}
         IN  2 * Cardinality({h \in hours : 100 * f.recent < Share * count(h)})
                >= Cardinality(hours)]_vars

\* The parts of one /sales answer fit together although sales go on and time
\* passes between its queries: what a salesperson sold is in the modes, and what
\* is in the modes is in the hours, but for who was found to be staff meanwhile
\* (db.py:222-271).
SalesNest ==
    answer # None =>
        LET fits(part, whole) == part # None /\ whole # None =>
                \A v \in part \ whole : table[v].staff
        IN  fits(answer.people, answer.modes) /\ fits(answer.modes, answer.hours)
=============================================================================
