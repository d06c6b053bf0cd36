-------------------------------- MODULE Seed --------------------------------
(***************************************************************************)
(* The boot of the aggregator (services/aggregator/__main__.py, _main) and *)
(* the demo data it may write (services/aggregator/seed.py): it waits for  *)
(* Postgres, fills an empty sessions table in one transaction, refreshes   *)
(* the rollup, waits for Redis and starts its tasks.  Queries fail, the    *)
(* process is killed between any two steps and is started again.           *)
(*                                                                         *)
(* Rows are only appended to the table here: what the consume loop does to *)
(* its own rows is Aggregator's subject, what the rollup counts Metrics'.  *)
(***************************************************************************)
EXTENDS Integers, Sequences, FiniteSets

CONSTANTS
    None,
    HourTicks,     \* an hour
    DayHours,      \* 24
    OpenHours,     \* the keys of HOUR_WEIGHTS: hours of the day with traffic
    MinStay,       \* 45 s: the shortest stay generated
    MinToTill,     \* 30 s: the earliest checkout after the entry
    Draws,         \* what the generator may draw for a session
    BatchSize,     \* sessions generated, 480
    NAlerts,       \* anomalies seeded, 2
    PingTries,     \* pings of Redis before main goes on regardless, 15
    StartTimes,    \* clock readings of the first boot
    MaxTime,       \* bound: ticks in a behaviour
    MaxLive,       \* bound: sessions the consume loop inserts
    MaxFaults      \* bound: failing queries, kills and signals together

Stages == <<"entered", "browsed", "engaged", "checkout_queued", "purchased">>
Queued == 4
Bought == 5

\* back: the hour drawn, back from now; late: ticks into the hour; ago: where
\* an entry in the future is put instead; stay: the normal variate; lead: how
\* long before the exit the checkout is; visits: dwell per shelf.
Draw == [back : Nat, late : 0..HourTicks, ago : 1..HourTicks, stay : Int, lead : Nat,
         stage : DOMAIN Stages, visits : Seq(Nat) \ {<<>>}]

ASSUME SeedAssumption ==
    /\ None \notin Int
    /\ {HourTicks, DayHours, MinStay, MinToTill, BatchSize} \subseteq Nat \ {0}
    /\ OpenHours \subseteq 0..(DayHours - 1) /\ OpenHours # {}
    /\ MinToTill <= MinStay
    /\ Draws \subseteq Draw
    /\ {NAlerts, PingTries, MaxTime, MaxLive, MaxFaults} \subseteq Nat
    /\ StartTimes \subseteq Nat

VARIABLES
    now,       \* the clock
    phase,     \* where _main is: "wait_db", "is_empty", "seed", "refresh",
               \* "wait_redis", "running"; "down" or "stopped" when it is not
    enabled,   \* SEED_DEMO_ON_BOOT
    postgres,  \* Postgres can be reached
    redis,     \* Redis can be reached
    tries,     \* pings sent
    consuming, \* the consume task lives
    batch,     \* the sessions to seed
    written,   \* statements executed in the open transaction
    table,     \* sessions committed: the boot that seeded them, or 0, and the row
    alerts,    \* seeded anomalies committed
    counted,   \* rows of the table the last rollup saw
    boot,      \* number of this boot
    faults     \* faults so far

process == <<phase, tries, consuming, boot>>
database == <<table, alerts, counted>>
services == <<postgres, redis>>
vars == <<now, enabled, faults, process, services, batch, written, database>>

-----------------------------------------------------------------------------
(* The generator. *)

Larger(m, n) == IF m >= n THEN m ELSE n

HourOfDay(t) == (t \div HourTicks) % DayHours

\* The hours back from now that are open.
HourBuckets == {h \in 0..(DayHours - 1) : HourOfDay(now - h * HourTicks) \in OpenHours}

\* The hour is drawn from these.
OpenDraws == {d \in Draws : d.back \in HourBuckets}

\* entered_at: never in the future.
EnteredAt(d) ==
    LET at == now - d.back * HourTicks + d.late
    IN  IF at > now THEN now - d.ago ELSE at

\* Mutant of Stay: the normal variate as it is.
StayAsDrawn(d) == d.stay

Stay(d) == Larger(MinStay, d.stay)

\* _make_session
MakeSession(d) ==
    LET entered == EnteredAt(d)
    IN  [entered  |-> entered,
         exited   |-> entered + Stay(d),
         stage    |-> d.stage,
         checkout |-> IF d.stage \in {Queued, Bought}
                      THEN entered + Larger(MinToTill, Stay(d) - d.lead) ELSE None,
         receipt  |-> d.stage = Bought,
         visits   |-> IF d.stage = 1 THEN <<>> ELSE d.visits]

\* The stable order by entry, as the positions the sessions come from.
ByEntry(made) ==
    {from \in [DOMAIN made -> DOMAIN made] :
        \A m, n \in DOMAIN made : m < n =>
            \/ made[from[m]].entered < made[from[n]].entered
            \/ made[from[m]].entered = made[from[n]].entered /\ from[m] < from[n]}

\* generate_demo_sessions
Generated(draws) ==
    LET made == [n \in 1..BatchSize |-> MakeSession(draws[n])]
    IN  {[n \in 1..BatchSize |-> made[from[n]]] : from \in ByEntry(made)}

Seeded(sessions) == [n \in DOMAIN sessions |-> [origin |-> boot, row |-> sessions[n]]]

-----------------------------------------------------------------------------
(* The boot. *)

Init ==
    /\ now \in StartTimes /\ enabled \in BOOLEAN
    /\ phase = "wait_db" /\ boot = 1 /\ tries = 0 /\ consuming = FALSE
    /\ postgres \in BOOLEAN /\ redis \in BOOLEAN
    /\ batch = <<>> /\ written = 0
    /\ table = <<>> /\ alerts = 0 /\ counted = 0 /\ faults = 0

\* A query of the present step raises, or the server goes away under it.
Fault == faults < MaxFaults /\ faults' = faults + 1

GoTo(ph) == phase' = ph /\ UNCHANGED <<tries, consuming, boot>>

WaitForDb ==
    /\ phase = "wait_db" /\ postgres
    /\ GoTo(IF enabled THEN "is_empty" ELSE "wait_redis")
    /\ UNCHANGED <<now, enabled, faults, services, batch, written, database>>

\* The deadline passes: wait_for_db raises, and nobody catches it.
WaitTimesOut ==
    /\ phase = "wait_db" /\ ~ postgres /\ Fault
    /\ GoTo("down")
    /\ UNCHANGED <<now, enabled, services, batch, written, database>>

\* seed_if_empty, is_empty: on a connection of its own.
IsEmpty ==
    /\ phase = "is_empty"
    /\ IF table # <<>> THEN GoTo("wait_redis") /\ UNCHANGED batch
       ELSE /\ \E draws \in [1..BatchSize -> OpenDraws] : batch' \in Generated(draws)
            /\ GoTo("seed")
    /\ UNCHANGED <<now, enabled, faults, services, written, database>>

\* Mutant of Insert: autocommit.
InsertCommitted ==
    /\ phase = "seed" /\ written < Len(batch) + NAlerts
    /\ written' = written + 1
    /\ IF written < Len(batch)
       THEN table' = Append(table, Seeded(batch)[written + 1]) /\ UNCHANGED alerts
       ELSE alerts' = alerts + 1 /\ UNCHANGED table
    /\ UNCHANGED <<now, enabled, faults, process, services, batch, counted>>

\* One INSERT of seed: a session and its visits, or an anomaly.  Nobody else
\* sees it before the commit.
Insert ==
    /\ phase = "seed" /\ written < Len(batch) + NAlerts
    /\ written' = written + 1
    /\ UNCHANGED <<now, enabled, faults, process, services, batch, database>>

TakeEffect ==
    /\ table' = table \o Seeded(batch) /\ alerts' = alerts + NAlerts
    /\ UNCHANGED counted

\* Leaving `async with pool.connection()' without an exception commits.
Commit ==
    /\ phase = "seed" /\ written = Len(batch) + NAlerts
    /\ TakeEffect /\ written' = 0
    /\ GoTo("refresh")
    /\ UNCHANGED <<now, enabled, faults, services, batch>>

\* The commit is sent, and its answer lost.
CommitUnanswered ==
    /\ phase = "seed" /\ written = Len(batch) + NAlerts /\ Fault
    /\ TakeEffect /\ written' = 0
    /\ GoTo("wait_redis")
    /\ UNCHANGED <<now, enabled, services, batch>>

\* Anything of the seeding raises: it is rolled back, logged, and main goes on.
SeedFails ==
    /\ phase \in {"is_empty", "seed", "refresh"} /\ Fault
    /\ written' = 0
    /\ GoTo("wait_redis")
    /\ UNCHANGED <<now, enabled, services, batch, database>>

Rollup == counted' = Len(table) /\ UNCHANGED <<table, alerts>>

\* refresh_hourly_metrics at once, if something was seeded.
BootRefresh ==
    /\ phase = "refresh"
    /\ Rollup
    /\ GoTo("wait_redis")
    /\ UNCHANGED <<now, enabled, faults, services, batch, written>>

\* One ping a second, PingTries of them; then main goes on regardless.
Ping ==
    /\ phase = "wait_redis" /\ ~ redis /\ tries < PingTries
    /\ tries' = tries + 1
    /\ UNCHANGED <<now, enabled, faults, phase, consuming, boot, services, batch,
                   written, database>>

\* The tasks start.  Without Redis ensure_group raises and ends the consume task.
Start ==
    /\ phase = "wait_redis" /\ (redis \/ tries = PingTries)
    /\ phase' = "running" /\ consuming' = redis
    /\ UNCHANGED <<now, enabled, faults, tries, boot, services, batch, written,
                   database>>

-----------------------------------------------------------------------------
(* The tasks, the services, and what ends the process. *)

\* The consume loop inserts the session of a shopper who enters.
Live ==
    /\ phase = "running" /\ consuming
    /\ Cardinality({n \in DOMAIN table : table[n].origin = 0}) < MaxLive
    /\ table' = Append(table, [origin |-> 0, row |-> None])
    /\ UNCHANGED <<now, enabled, faults, process, services, batch, written, alerts,
                   counted>>

PeriodicRollup ==
    /\ phase = "running" /\ postgres
    /\ Rollup
    /\ UNCHANGED <<now, enabled, faults, process, services, batch, written>>

\* Mutant of RollupFails: the exception ends the task.
RollupEnds ==
    /\ phase = "running" /\ Fault
    /\ GoTo("running without rollup")
    /\ UNCHANGED <<now, enabled, services, batch, written, database>>

\* A tick that raises is logged.
RollupFails ==
    /\ phase = "running" /\ Fault
    /\ UNCHANGED <<now, enabled, process, services, batch, written, database>>

\* Docker's healthchecks and depends_on bring the services up some time.
ServiceUp ==
    /\ \/ ~ postgres /\ postgres' = TRUE /\ UNCHANGED redis
       \/ ~ redis /\ redis' = TRUE /\ UNCHANGED postgres
    /\ UNCHANGED <<now, enabled, faults, process, batch, written, database>>

\* The process dies: an open transaction is rolled back by the server.
Crash ==
    /\ phase \notin {"down", "stopped"} /\ Fault
    /\ written' = 0
    /\ phase' = "down" /\ consuming' = FALSE
    /\ UNCHANGED <<now, enabled, tries, boot, services, batch, database>>

\* SIGTERM: the handler is set when the boot is over; before, it ends the
\* process like a crash.
Signal ==
    /\ phase = "running" /\ Fault
    /\ phase' = "stopped" /\ consuming' = FALSE
    /\ UNCHANGED <<now, enabled, tries, boot, services, batch, written, database>>

\* restart: unless-stopped.
Restart ==
    /\ phase = "down"
    /\ phase' = "wait_db" /\ tries' = 0 /\ boot' = boot + 1
    /\ UNCHANGED <<now, enabled, faults, consuming, services, batch, written, database>>

Tick ==
    /\ now < MaxTime /\ now' = now + 1
    /\ UNCHANGED <<enabled, faults, process, services, batch, written, database>>

Boot == WaitForDb \/ IsEmpty \/ Insert \/ Commit \/ BootRefresh \/ Ping \/ Start

Next ==
    \/ Boot \/ WaitTimesOut \/ CommitUnanswered \/ SeedFails
    \/ Live \/ PeriodicRollup \/ RollupFails
    \/ ServiceUp \/ Crash \/ Signal \/ Restart \/ Tick

Spec == Init /\ [][Next]_vars

\* main runs on, periodic ticks, the services come up, and Docker restarts what
\* died.
FairSpec ==
    /\ Spec
    /\ WF_vars(Boot) /\ WF_vars(PeriodicRollup)
    /\ WF_vars(ServiceUp) /\ WF_vars(Restart)

-----------------------------------------------------------------------------
(* Properties. *)

Demo == {n \in DOMAIN table : table[n].origin # 0}

\* The demo data is seeded completely or not at all, by one boot, and never
\* into a table that has live sessions, wherever the boot fails or dies
\* (seed.py:8-10, 228-274).
SeededOnce ==
    /\ Demo = {} \/ Cardinality(Demo) = BatchSize
    /\ \A m, n \in Demo : table[m].origin = table[n].origin
    /\ \A n \in Demo : 1..n \subseteq Demo
    /\ alerts = IF Demo = {} THEN 0 ELSE NAlerts

\* An open hour, or the hour before or after one.
AroundOpening(t) ==
    \E off \in {-HourTicks, 0, HourTicks} : HourOfDay(t + off) \in OpenHours

\* Whatever is drawn and whenever the boot runs, the demo rows are what their
\* readers presuppose (tests/unit/test_seed.py:34-61, db.py:230-256, 373): nobody
\* entered in the future, nor more than an hour from opening time; nobody stays
\* for less than the minimum; who queued, and nobody else, has a checkout, within
\* the stay and some time after the entry; receipts are the buyers'; and shelves
\* are visited by all but those who only entered.
\* Exits and checkouts may lie in the future of the boot, and the dwells need not
\* account for the stage: this is less than what the store records.
SeedCoherent ==
    \A n \in Demo :
        LET s == table[n].row
        IN  /\ s.entered <= now /\ AroundOpening(s.entered)
            /\ s.exited - s.entered >= MinStay
            /\ s.checkout # None <=> s.stage \in {Queued, Bought}
            /\ s.checkout # None => s.checkout \in (s.entered + MinToTill)..s.exited
            /\ s.receipt <=> s.stage = Bought
            /\ s.visits = <<>> <=> s.stage = 1

\* What is in the table gets into the rollup unless the aggregator is stopped,
\* also when the boot dies between the commit and its refresh, which no later
\* boot repeats (__main__.py:81-90, 111-124).
RolledUp ==
    \A n \in 1..(BatchSize + MaxLive) :
        Len(table) >= n ~> counted >= n \/ phase = "stopped"
=============================================================================
