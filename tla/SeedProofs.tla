----------------------------- MODULE SeedProofs -----------------------------
(***************************************************************************)
(* The demo data is written once and whole, for every batch, number of     *)
(* boots, failures and kills; and what is true of every row of it.         *)
(***************************************************************************)
EXTENDS Seed, FiniteSetTheorems, TLAPS

-----------------------------------------------------------------------------
(* Tables: sequences of whatever the generator made. *)

HasLength(t, n) == n \in Nat /\ t = [i \in 1..n |-> t[i]]

LEMMA LengthSeq ==
    ASSUME NEW t, NEW n, HasLength(t, n), NEW S, \A i \in 1..n : t[i] \in S
    PROVE  t \in Seq(S) /\ Len(t) = n /\ DOMAIN t = 1..n
<1>1. [i \in 1..n |-> t[i]] \in [1..n -> S] /\ n \in Nat
    BY DEF HasLength
<1>2. t \in [1..n -> S]
    BY <1>1 DEF HasLength
<1>3. t \in Seq(S) /\ DOMAIN t = 1..n
    BY <1>1, <1>2
<1> QED
    BY <1>1, <1>3

LEMMA AppendLength ==
    ASSUME NEW t, NEW n, HasLength(t, n), NEW e
    PROVE  /\ HasLength(Append(t, e), n + 1)
           /\ \A i \in 1..(n + 1) : Append(t, e)[i] = IF i <= n THEN t[i] ELSE e
<1> DEFINE S == {t[i] : i \in 1..n} \cup {e}
<1>1. \A i \in 1..n : t[i] \in S
    OBVIOUS
<1>2. e \in S
    OBVIOUS
<1> HIDE DEF S
<1>3. t \in Seq(S) /\ Len(t) = n /\ n \in Nat
    <2>1. n \in Nat
        BY DEF HasLength
    <2> QED
        BY <1>1, <2>1, LengthSeq
<1> DEFINE m == Append(t, e)
<1>4. /\ m \in Seq(S) /\ Len(m) = n + 1
      /\ \A i \in 1..(n + 1) : m[i] = IF i <= n THEN t[i] ELSE e
    BY <1>2, <1>3
<1> HIDE DEF m
<1>5. m \in [1..(n + 1) -> S]
    BY <1>3, <1>4
<1>6. m = [i \in 1..(n + 1) |-> m[i]]
    BY <1>5
<1> QED
    BY <1>3, <1>4, <1>6 DEF HasLength, m

\* As many sessions are generated as are drawn.
LEMMA GeneratedLength ==
    ASSUME NEW draws, NEW made \in Generated(draws)
    PROVE  HasLength(made, BatchSize)
BY SeedAssumption DEF Generated, HasLength

-----------------------------------------------------------------------------
(* The demo data is the beginning of the table. *)

\* What a committed batch leaves: BatchSize sessions of one boot, in front.
SeededWhole ==
    /\ Demo = 1..BatchSize /\ alerts = NAlerts
    /\ \A m, n \in 1..BatchSize : table[m].origin = table[n].origin

Unseeded == Demo = {} /\ alerts = 0

\* A batch is only made for a table that is empty, and nobody else writes then.
SeedInv ==
    /\ boot \in Nat \ {0}
    /\ \E n \in Nat : HasLength(table, n)
    /\ Unseeded \/ SeededWhole
    /\ phase = "seed" => table = <<>> /\ HasLength(batch, BatchSize)

\* A step that writes no sessions.
LEMMA NothingSeeded ==
    ASSUME SeedInv, UNCHANGED <<table, alerts>>, boot' \in Nat \ {0},
           phase' = "seed" => phase = "seed" /\ UNCHANGED batch
    PROVE  SeedInv'
BY DEF SeedInv, Unseeded, SeededWhole, Demo, HasLength

\* The batch is put in front.
LEMMA TableSeeded ==
    ASSUME SeedInv, phase = "seed", TakeEffect
    PROVE  /\ HasLength(table', BatchSize)
           /\ \A n \in 1..BatchSize : table'[n].origin = boot /\ table'[n].row = batch[n]
<1>1. /\ table = <<>> /\ HasLength(batch, BatchSize)
    BY DEF SeedInv
<1> DEFINE demo == Seeded(batch)
<1>2. DOMAIN batch = 1..BatchSize /\ BatchSize \in Nat
    BY <1>1 DEF HasLength
<1>3. demo = [n \in 1..BatchSize |-> [origin |-> boot, row |-> batch[n]]]
    BY <1>2 DEF Seeded
<1>4. HasLength(demo, BatchSize)
    BY <1>2, <1>3 DEF HasLength
<1> HIDE DEF demo
<1>5. <<>> \o demo = demo
    <2> DEFINE S == {demo[n] : n \in 1..BatchSize}
    <2>1. demo \in Seq(S)
        BY <1>4, LengthSeq
    <2> HIDE DEF S
    <2> QED
        BY <2>1
<1>6. table' = demo
    BY <1>1, <1>5 DEF TakeEffect, demo
<1>7. \A n \in 1..BatchSize : demo[n].origin = boot /\ demo[n].row = batch[n]
    BY <1>3
<1> QED
    BY <1>4, <1>6, <1>7

\* A batch is only committed to an empty table.
LEMMA BatchSeeded ==
    ASSUME SeedInv, phase = "seed", TakeEffect, boot' = boot, phase' # "seed"
    PROVE  SeedInv'
<1>1. /\ table = <<>> /\ boot \in Nat \ {0} /\ BatchSize \in Nat
    BY SeedAssumption DEF SeedInv
<1>2. /\ HasLength(table', BatchSize)
      /\ \A n \in 1..BatchSize : table'[n].origin = boot
    BY TableSeeded
<1>3. alerts' = alerts + NAlerts
    BY DEF TakeEffect
<1>4. alerts = 0
    <2>1. Demo = {}
        BY <1>1 DEF Demo
    <2>2. 1..BatchSize # {}
        BY SeedAssumption
    <2> QED
        BY <2>1, <2>2 DEF SeedInv, Unseeded, SeededWhole
<1>5. Demo' = 1..BatchSize
    BY <1>1, <1>2 DEF Demo, HasLength
<1>6. NAlerts \in Nat
    BY SeedAssumption
<1> QED
    BY <1>1, <1>2, <1>3, <1>4, <1>5, <1>6 DEF SeedInv, SeededWhole

\* A live session goes behind.
LEMMA LiveAppended ==
    ASSUME SeedInv, Live
    PROVE  /\ \E n \in Nat : HasLength(table', n)
           /\ \A i \in DOMAIN table : i \in DOMAIN table' /\ table'[i] = table[i]
           /\ \A i \in DOMAIN table' \ DOMAIN table : table'[i].origin = 0
           /\ Demo' = Demo
<1> DEFINE e == [origin |-> 0, row |-> None]
           longer == Append(table, e)
<1>1. table' = longer
    BY DEF Live
<1>2. PICK n \in Nat : HasLength(table, n)
    BY DEF SeedInv
<1>3. e.origin = 0
    OBVIOUS
<1> HIDE DEF e
<1>4. /\ HasLength(table', n + 1) /\ n + 1 \in Nat
      /\ \A i \in 1..(n + 1) : table'[i] = IF i <= n THEN table[i] ELSE e
    <2>1. /\ HasLength(longer, n + 1)
          /\ \A i \in 1..(n + 1) : longer[i] = IF i <= n THEN table[i] ELSE e
        BY <1>2, AppendLength
    <2> HIDE DEF longer
    <2>2. n + 1 \in Nat
        OBVIOUS
    <2> QED
        BY <1>1, <2>1, <2>2
<1>5. DOMAIN table = 1..n /\ DOMAIN table' = 1..(n + 1)
    BY <1>2, <1>4 DEF HasLength
<1>6. /\ \A i \in DOMAIN table : i \in DOMAIN table' /\ table'[i] = table[i]
      /\ \A i \in DOMAIN table' \ DOMAIN table : table'[i].origin = 0
    BY <1>3, <1>4, <1>5
<1>7. Demo' = Demo
    BY <1>6 DEF Demo
<1> QED
    BY <1>4, <1>6, <1>7

LEMMA LiveBehind ==
    ASSUME SeedInv, Live
    PROVE  SeedInv'
<1>1. /\ alerts' = alerts /\ phase = "running" /\ phase' = phase /\ boot' = boot
    BY DEF Live, process
<1>2. Unseeded' \/ SeededWhole'
    <2>1. CASE Unseeded
        BY <1>1, <2>1, LiveAppended DEF Unseeded
    <2>2. CASE SeededWhole
        <3>1. 1..BatchSize \subseteq DOMAIN table
            BY <2>2 DEF SeededWhole, Demo
        <3> QED
            BY <1>1, <2>2, <3>1, LiveAppended DEF SeededWhole
    <2> QED
        BY <2>1, <2>2 DEF SeedInv
<1> QED
    BY <1>1, <1>2, LiveAppended DEF SeedInv

LEMMA SeedStep ==
    ASSUME SeedInv, [Next]_vars
    PROVE  SeedInv'
<1>1. CASE IsEmpty
    <2>1. CASE table # <<>>
        BY <1>1, <2>1, NothingSeeded DEF IsEmpty, GoTo, database, SeedInv
    <2>2. CASE table = <<>>
        <3>1. HasLength(batch', BatchSize)
            BY <1>1, <2>2, GeneratedLength DEF IsEmpty
        <3>2. UNCHANGED <<table, alerts, boot>>
            BY <1>1, <2>2 DEF IsEmpty, GoTo, database
        <3> QED
            BY <2>2, <3>1, <3>2 DEF SeedInv, Unseeded, SeededWhole, Demo, HasLength
    <2> QED
        BY <2>1, <2>2
<1>2. CASE Commit
    BY <1>2, BatchSeeded DEF Commit, GoTo
<1>3. CASE CommitUnanswered
    BY <1>3, BatchSeeded DEF CommitUnanswered, GoTo
<1>4. CASE Live
    BY <1>4, LiveBehind
<1>5. CASE Restart
    <2>1. /\ UNCHANGED <<table, alerts>> /\ boot' = boot + 1 /\ phase' = "wait_db"
        BY <1>5 DEF Restart, database
    <2> QED
        BY <2>1, NothingSeeded DEF SeedInv
<1>6. CASE Insert \/ UNCHANGED vars
    <2>1. UNCHANGED <<table, alerts, boot, phase, batch>>
        BY <1>6 DEF Insert, vars, process, database
    <2> QED
        BY <2>1, NothingSeeded DEF SeedInv
<1>7. CASE \/ WaitForDb \/ WaitTimesOut \/ SeedFails \/ BootRefresh \/ Ping \/ Start
           \/ PeriodicRollup \/ RollupFails \/ ServiceUp \/ Crash \/ Signal \/ Tick
    <2>1. UNCHANGED <<table, alerts, boot>>
        BY <1>7 DEF WaitForDb, WaitTimesOut, SeedFails, BootRefresh, Ping, Start,
                    PeriodicRollup, RollupFails, ServiceUp, Crash, Signal, Tick,
                    GoTo, Rollup, process, database
    <2>2. phase' = "seed" => phase = "seed" /\ UNCHANGED batch
        BY <1>7 DEF WaitForDb, WaitTimesOut, SeedFails, BootRefresh, Ping, Start,
                    PeriodicRollup, RollupFails, ServiceUp, Crash, Signal, Tick,
                    GoTo, Rollup, process, database
    <2> QED
        BY <2>1, <2>2, NothingSeeded DEF SeedInv
<1> QED
    BY <1>1, <1>2, <1>3, <1>4, <1>5, <1>6, <1>7 DEF Next, Boot

LEMMA SeedAlways == Spec => []SeedInv
<1>1. Init => SeedInv
    <2>1. HasLength(<<>>, 0)
        BY DEF HasLength
    <2> QED
        BY <2>1 DEF Init, SeedInv, Unseeded, Demo
<1>2. SeedInv /\ [Next]_vars => SeedInv'
    BY SeedStep
<1> QED
    BY <1>1, <1>2, PTL DEF Spec

\* The demo data is seeded completely or not at all, by one boot, and in front
\* of every live session, wherever the boot fails or dies (seed.py:228-274).
THEOREM SeedsOnce == Spec => []SeededOnce
<1>1. SeedInv => SeededOnce
    <2>1. BatchSize \in Nat \ {0}
        BY SeedAssumption
    <2>2. Cardinality(1..BatchSize) = BatchSize
        BY <2>1, FS_Interval
    <2>3. Unseeded => SeededOnce
        BY DEF Unseeded, SeededOnce
    <2>4. ASSUME SeededWhole PROVE SeededOnce
        <3>1. Demo = 1..BatchSize /\ 1 \in Demo
            BY <2>1, <2>4 DEF SeededWhole
        <3>2. \A n \in Demo : 1..n \subseteq Demo
            BY <2>1, <3>1
        <3> QED
            BY <2>2, <2>4, <3>1, <3>2 DEF SeededOnce, SeededWhole
    <2> QED
        BY <2>3, <2>4 DEF SeedInv
<1> QED
    BY <1>1, SeedAlways, PTL

-----------------------------------------------------------------------------
(* What the generator makes.                                               *)

\* What the readers of the tables presuppose of a session, at t.
Coherent(s, t) ==
    /\ s.entered \in Int /\ s.entered <= t
    /\ AroundOpening(s.entered)
    /\ s.exited - s.entered >= MinStay
    /\ s.checkout # None <=> s.stage \in {Queued, Bought}
    /\ s.checkout # None => s.checkout \in (s.entered + MinToTill)..s.exited
    /\ s.receipt <=> s.stage = Bought
    /\ s.visits = <<>> <=> s.stage = 1

\* What \div is: the only number of whole hours.
LEMMA WholeHours ==
    ASSUME NEW t \in Int, NEW h \in Nat \ {0}
    PROVE  /\ t \div h \in Int
           /\ (t \div h) * h <= t /\ t < (t \div h) * h + h
OBVIOUS

LEMMA WholeHoursUnique ==
    ASSUME NEW t \in Int, NEW h \in Nat \ {0}, NEW q \in Int,
           q * h <= t, t < q * h + h
    PROVE  t \div h = q
<1> DEFINE p == t \div h
<1>1. p \in Int /\ p * h <= t /\ t < p * h + h
    BY WholeHours
<1> HIDE DEF p
<1>2. (p + 1) * h = p * h + h /\ (q + 1) * h = q * h + h
    BY <1>1
<1>3. p < q + 1
    <2>1. ASSUME p >= q + 1 PROVE p * h >= (q + 1) * h
        BY <1>1, <2>1
    <2> QED
        BY <1>1, <1>2, <2>1
<1>4. q < p + 1
    <2>1. ASSUME q >= p + 1 PROVE q * h >= (p + 1) * h
        BY <1>1, <2>1
    <2> QED
        BY <1>1, <1>2, <2>1
<1> QED
    BY <1>1, <1>3, <1>4 DEF p

\* No more than an hour from an open one, either way.
LEMMA NearAnOpenHour ==
    ASSUME NEW base \in Int, HourOfDay(base) \in OpenHours, NEW t \in Int,
           base - HourTicks <= t, t <= base + HourTicks
    PROVE  AroundOpening(t)
<1> DEFINE q == base \div HourTicks
<1>1. HourTicks \in Nat \ {0}
    BY SeedAssumption
<1>2. q \in Int /\ q * HourTicks <= base /\ base < q * HourTicks + HourTicks
    BY <1>1, WholeHours
<1>3. q % DayHours \in OpenHours
    BY DEF HourOfDay
<1> HIDE DEF q
<1>4. q * HourTicks \in Int
    BY <1>1, <1>2
<1>5. ASSUME NEW off \in {-HourTicks, 0, HourTicks},
             q * HourTicks <= t + off, t + off < q * HourTicks + HourTicks
      PROVE  AroundOpening(t)
    <2>1. t + off \in Int
        BY <1>1
    <2>2. (t + off) \div HourTicks = q
        BY <1>1, <1>2, <1>5, <2>1, WholeHoursUnique
    <2>3. HourOfDay(t + off) \in OpenHours
        BY <1>3, <2>2 DEF HourOfDay
    <2> QED
        BY <2>3 DEF AroundOpening
<1>6. CASE t < q * HourTicks
    BY <1>1, <1>2, <1>4, <1>5, <1>6
<1>7. CASE q * HourTicks <= t /\ t < q * HourTicks + HourTicks
    BY <1>1, <1>2, <1>4, <1>5, <1>7
<1>8. CASE q * HourTicks + HourTicks <= t
    BY <1>1, <1>2, <1>4, <1>5, <1>8
<1> QED
    BY <1>1, <1>4, <1>6, <1>7, <1>8

\* Entries are in an open hour, or spill over into the next, or are put back by
\* no more than an hour from an open one.
LEMMA EntryInTime ==
    ASSUME now \in Nat, NEW d \in OpenDraws
    PROVE  /\ EnteredAt(d) \in Int /\ EnteredAt(d) <= now
           /\ AroundOpening(EnteredAt(d))
<1> DEFINE base == now - d.back * HourTicks
<1>1. HourTicks \in Nat \ {0} /\ d \in Draw /\ d.back \in HourBuckets
    BY SeedAssumption DEF OpenDraws
<1>2. d.back \in Nat /\ d.late \in 0..HourTicks /\ d.ago \in 1..HourTicks
    BY <1>1 DEF Draw
<1>3. base \in Int /\ HourOfDay(base) \in OpenHours
    BY <1>1, <1>2 DEF HourBuckets
<1>4. d.back = 0 \/ d.back * HourTicks >= HourTicks
    BY <1>1, <1>2
<1>5. d.back = 0 => base = now
    BY <1>1
<1>6. base = now \/ base <= now - HourTicks
    <2>1. d.back * HourTicks \in Int
        BY <1>1, <1>2
    <2> QED
        BY <1>1, <1>4, <1>5, <2>1
<1>7. EnteredAt(d) = IF base + d.late > now THEN now - d.ago ELSE base + d.late
    BY DEF EnteredAt
<1> HIDE DEF base
<1>8. CASE base + d.late > now
    <2>1. base = now
        BY <1>1, <1>2, <1>3, <1>6, <1>8
    <2>2. EnteredAt(d) = now - d.ago
        BY <1>7, <1>8
    <2> QED
        BY <1>1, <1>2, <1>3, <2>1, <2>2, NearAnOpenHour
<1>9. CASE base + d.late <= now
    <2>1. EnteredAt(d) = base + d.late
        BY <1>2, <1>3, <1>7, <1>9
    <2> QED
        BY <1>1, <1>2, <1>3, <1>9, <2>1, NearAnOpenHour
<1> QED
    BY <1>2, <1>3, <1>8, <1>9

LEMMA MadeCoherent ==
    ASSUME now \in Nat, NEW d \in OpenDraws
    PROVE  Coherent(MakeSession(d), now)
<1> DEFINE entered == EnteredAt(d)
           stay == Stay(d)
           till == IF d.stage \in {Queued, Bought}
                   THEN entered + Larger(MinToTill, stay - d.lead) ELSE None
           s == MakeSession(d)
<1>1. /\ d \in Draw /\ HourTicks \in Nat /\ MinStay \in Nat /\ MinToTill \in Nat
      /\ MinToTill <= MinStay /\ None \notin Int
    BY SeedAssumption DEF OpenDraws
<1>2. /\ d.back \in Nat /\ d.late \in Nat /\ d.ago \in Nat /\ d.stay \in Int
      /\ d.lead \in Nat /\ d.visits # <<>>
    BY <1>1 DEF Draw
<1>3. entered \in Int /\ entered <= now /\ AroundOpening(entered)
    BY EntryInTime
<1>4. stay \in Int /\ MinStay <= stay /\ MinToTill <= stay
    BY <1>1, <1>2 DEF Stay, Larger
<1>5. s = [entered |-> entered, exited |-> entered + stay, stage |-> d.stage,
           checkout |-> till, receipt |-> d.stage = Bought,
           visits |-> IF d.stage = 1 THEN <<>> ELSE d.visits]
    BY DEF MakeSession
<1> HIDE DEF entered, stay
<1>6. /\ s.entered = entered /\ s.exited = entered + stay /\ s.stage = d.stage
      /\ s.checkout = till
      /\ s.visits = <<>> <=> s.stage = 1
    BY <1>2, <1>5
<1>7. s.receipt <=> s.stage = Bought
    <2>1. s.receipt = (d.stage = Bought) /\ s.stage = d.stage
        BY <1>5
    <2> QED
        BY <2>1, Zenon
<1>8. ASSUME till # None <=> d.stage \in {Queued, Bought},
             till # None => till \in (entered + MinToTill)..(entered + stay)
      PROVE  Coherent(s, now)
    <2> HIDE DEF s, till
    <2>1. /\ s.checkout # None <=> s.stage \in {Queued, Bought}
          /\ s.checkout # None => s.checkout \in (s.entered + MinToTill)..s.exited
        BY <1>6, <1>8
    <2>2. /\ s.entered \in Int /\ s.entered <= now /\ AroundOpening(s.entered)
          /\ s.exited - s.entered >= MinStay
        BY <1>1, <1>3, <1>4, <1>6
    <2> QED
        BY <1>6, <1>7, <2>1, <2>2, Zenon DEF Coherent
<1>9. CASE d.stage \in {Queued, Bought}
    <2>1. Larger(MinToTill, stay - d.lead) \in MinToTill..stay
        BY <1>1, <1>2, <1>4 DEF Larger
    <2>2. till = entered + Larger(MinToTill, stay - d.lead)
        BY <1>9
    <2> DEFINE wait == Larger(MinToTill, stay - d.lead)
    <2> HIDE DEF wait
    <2>3. entered + wait \in (entered + MinToTill)..(entered + stay)
        BY <1>1, <1>3, <1>4, <2>1 DEF wait
    <2>4. till \in (entered + MinToTill)..(entered + stay) /\ till # None
        BY <1>1, <1>3, <2>2, <2>3 DEF wait
    <2> QED
        BY <1>8, <1>9, <2>4
<1>10. CASE d.stage \notin {Queued, Bought}
    <2>1. till = None
        BY <1>10
    <2> HIDE DEF till
    <2> QED
        BY <1>8, <1>10, <2>1
<1> QED
    BY <1>9, <1>10

LEMMA GeneratedCoherent ==
    ASSUME now \in Nat, NEW draws \in [1..BatchSize -> OpenDraws],
           NEW sessions \in Generated(draws)
    PROVE  \A n \in 1..BatchSize : Coherent(sessions[n], now)
<1> DEFINE made == [n \in 1..BatchSize |-> MakeSession(draws[n])]
<1>1. PICK from \in ByEntry(made) : sessions = [n \in 1..BatchSize |-> made[from[n]]]
    BY DEF Generated
<1>2. from \in [1..BatchSize -> 1..BatchSize]
    BY DEF ByEntry
<1>3. \A n \in 1..BatchSize : sessions[n] = MakeSession(draws[from[n]])
    BY <1>1, <1>2
<1> QED
    BY <1>2, <1>3, MadeCoherent

\* Coherent as long as time goes on.
CoherentInv ==
    /\ now \in Nat
    /\ phase = "seed" => \A n \in 1..BatchSize : Coherent(batch[n], now)
    /\ \A n \in Demo : Coherent(table[n].row, now)

LEMMA CoherentStep ==
    ASSUME SeedInv, CoherentInv, [Next]_vars
    PROVE  CoherentInv'
<1>1. now' \in Nat /\ now <= now'
    BY DEF CoherentInv, Next, Boot, WaitForDb, WaitTimesOut, IsEmpty, Insert, Commit,
           CommitUnanswered, SeedFails, BootRefresh, Ping, Start, Live,
           PeriodicRollup, RollupFails, ServiceUp, Crash, Signal, Restart, Tick, vars
<1>2. ASSUME NEW s, Coherent(s, now) PROVE Coherent(s, now')
    BY <1>1, <1>2 DEF Coherent, CoherentInv
<1>3. ASSUME UNCHANGED table, phase' = "seed" => phase = "seed" /\ UNCHANGED batch
      PROVE  CoherentInv'
    BY <1>1, <1>2, <1>3 DEF CoherentInv, Demo
<1>4. CASE IsEmpty
    <2>1. CASE table # <<>>
        BY <1>3, <1>4, <2>1 DEF IsEmpty, GoTo, database
    <2>2. CASE table = <<>>
        <3>1. /\ UNCHANGED <<table, now>>
              /\ \E draws \in [1..BatchSize -> OpenDraws] : batch' \in Generated(draws)
            BY <1>4, <2>2 DEF IsEmpty, database
        <3>2. \A n \in 1..BatchSize : Coherent(batch'[n], now)
            BY <3>1, GeneratedCoherent DEF CoherentInv
        <3> QED
            BY <3>1, <3>2 DEF CoherentInv, Demo
    <2> QED
        BY <2>1, <2>2
<1>5. CASE Commit \/ CommitUnanswered
    <2>1. phase = "seed" /\ TakeEffect /\ phase' # "seed"
        BY <1>5 DEF Commit, CommitUnanswered, GoTo
    <2>2. /\ DOMAIN table' = 1..BatchSize
          /\ \A n \in 1..BatchSize : table'[n].row = batch[n]
        BY <2>1, TableSeeded DEF HasLength
    <2> QED
        BY <1>1, <1>2, <2>1, <2>2 DEF CoherentInv, Demo
<1>6. CASE Live
    <2>1. phase' # "seed"
        BY <1>6 DEF Live, process
    <2>2. \A n \in Demo' : n \in Demo /\ table'[n] = table[n]
        BY <1>6, LiveAppended DEF Demo
    <2> QED
        BY <1>1, <1>2, <2>1, <2>2 DEF CoherentInv
<1>7. CASE \/ WaitForDb \/ WaitTimesOut \/ Insert \/ SeedFails \/ BootRefresh \/ Ping
           \/ Start \/ PeriodicRollup \/ RollupFails \/ ServiceUp \/ Crash \/ Signal
           \/ Restart \/ Tick \/ UNCHANGED vars
    <2>1. UNCHANGED table
        BY <1>7 DEF WaitForDb, WaitTimesOut, Insert, SeedFails, BootRefresh, Ping, Start,
                    PeriodicRollup, RollupFails, ServiceUp, Crash, Signal, Restart, Tick,
                    Rollup, database, vars
    <2>2. phase' = "seed" => phase = "seed" /\ UNCHANGED batch
        BY <1>7 DEF WaitForDb, WaitTimesOut, Insert, SeedFails, BootRefresh, Ping, Start,
                    PeriodicRollup, RollupFails, ServiceUp, Crash, Signal, Restart, Tick,
                    GoTo, process, vars
    <2> QED
        BY <1>3, <2>1, <2>2
<1> QED
    BY <1>4, <1>5, <1>6, <1>7 DEF Next, Boot

\* Whatever is drawn, and whenever the boot runs, the demo rows are what their
\* readers presuppose: no entry in the future or more than an hour from opening
\* time, no stay below the minimum, a checkout of who queued, within the stay and
\* some time after the entry, a receipt of who bought, shelves of who went further
\* than the door (seed.py:141-192).
THEOREM SeedsCoherent == Spec => []SeedCoherent
<1>1. Init => CoherentInv
    <2>1. StartTimes \subseteq Nat
        BY SeedAssumption
    <2>2. Init => now \in Nat /\ phase # "seed" /\ Demo = {}
        BY <2>1 DEF Init, Demo
    <2> QED
        BY <2>2 DEF CoherentInv
<1>2. SeedInv /\ CoherentInv /\ [Next]_vars => CoherentInv'
    BY CoherentStep
<1>3. CoherentInv => SeedCoherent
    BY DEF CoherentInv, SeedCoherent, Coherent
<1> QED
    BY <1>1, <1>2, <1>3, SeedAlways, PTL DEF Spec
=============================================================================
