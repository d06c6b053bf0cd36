---------------------------- MODULE MetricsProofs ----------------------------
(***************************************************************************)
(* The rollup, for every length of the hour and of the windows and every   *)
(* number of sessions.                                                     *)
(***************************************************************************)
EXTENDS Metrics, FiniteSetTheorems, TLAPS

-----------------------------------------------------------------------------
(* Hours. *)

\* An hour is a number of hours.
LEMMA HourAligned ==
    ASSUME NEW t \in Nat
    PROVE  Hour(t) \in Nat /\ Hour(t) % HourTicks = 0
<1> DEFINE q == t \div HourTicks
           r == t % HourTicks
<1>1. HourTicks \in Nat \ {0}
    BY MetricsAssumption
<1>2. /\ q \in Nat /\ r \in 0..(HourTicks - 1)
      /\ t = HourTicks * q + r
    BY <1>1
<1> HIDE DEF q, r
<1>3. t - r = HourTicks * q
    BY <1>1, <1>2
<1>4. (HourTicks * q) % HourTicks = 0 /\ HourTicks * q \in Nat
    BY <1>1, <1>2
<1> QED
    BY <1>3, <1>4 DEF Hour, r

\* An hour begins at or before the times in it, and they end with it.
LEMMA HourBounds ==
    ASSUME NEW t \in Nat
    PROVE  Hour(t) \in Int /\ Hour(t) <= t /\ t < Hour(t) + HourTicks
BY MetricsAssumption DEF Hour

-----------------------------------------------------------------------------
(* The table. *)

TableOK == now \in Nat /\ table \in Seq(Row)

LEMMA TableStep ==
    ASSUME TableOK, [Next]_vars
    PROVE  TableOK'
<1>1. CASE UNCHANGED table
    BY <1>1, MetricsAssumption
       DEF TableOK, Next, vars, Tick, Insert, Advance, Refresh, DetectDrop
<1>2. CASE Insert
    <2>1. now' = now
        BY <1>2 DEF Insert
    <2>2. PICK lag \in 0..MaxLag, e \in Person \cup {None} :
             /\ lag <= now
             /\ table' = Append(table, [entered |-> now - lag, embedding |-> e,
                                        staff |-> FALSE, stage |-> 1])
        BY <1>2 DEF Insert
    <2>3. [entered |-> now - lag, embedding |-> e, staff |-> FALSE, stage |-> 1] \in Row
        <3>1. now - lag \in Nat
            BY <2>2, MetricsAssumption DEF TableOK
        <3>2. 1 \in DOMAIN Stages
            BY DEF Stages
        <3> QED
            BY <3>1, <3>2 DEF Row
    <2> QED
        BY <2>1, <2>2, <2>3 DEF TableOK
<1>3. ASSUME NEW v \in DOMAIN table, Advance(v) PROVE TableOK'
    <2>1. now' = now
        BY <1>3 DEF Advance
    <2>2. table[v] \in Row
        BY DEF TableOK
    <2>3. CASE \E st \in DOMAIN Stages : table' = [table EXCEPT ![v].stage = st]
        <3>1. PICK st \in DOMAIN Stages : table' = [table EXCEPT ![v].stage = st]
            BY <2>3
        <3>2. [table[v] EXCEPT !.stage = st] \in Row
            BY <2>2 DEF Row
        <3> QED
            BY <2>1, <3>1, <3>2 DEF TableOK
    <2>4. CASE table' = [table EXCEPT ![v].staff = TRUE]
        <3>1. [table[v] EXCEPT !.staff = TRUE] \in Row
            BY <2>2 DEF Row
        <3> QED
            BY <2>1, <2>4, <3>1 DEF TableOK
    <2> QED
        BY <1>3, <2>3, <2>4 DEF Advance
<1> QED
    BY <1>1, <1>2, <1>3 DEF Next, vars, Tick, Refresh, DetectDrop

\* Only Refresh writes the rollup.
LEMMA RollupWriters ==
    ASSUME [Next]_vars
    PROVE  Refresh \/ UNCHANGED hourly
BY DEF Next, vars, Tick, Insert, Advance, Refresh, DetectDrop

-----------------------------------------------------------------------------
(* Counting. *)

\* The sessions in the table are finitely many.
LEMMA TableFinite ==
    ASSUME TableOK, NEW who \in SUBSET DOMAIN table
    PROVE  IsFiniteSet(who) /\ Cardinality(who) \in Nat
<1>1. DOMAIN table = 1..Len(table) /\ Len(table) \in Nat
    BY DEF TableOK
<1>2. IsFiniteSet(1..Len(table))
    BY <1>1, FS_Interval
<1>3. IsFiniteSet(who)
    BY <1>1, <1>2, FS_Subset
<1> QED
    BY <1>3, FS_CardinalityType

\* Visitors are counted over visits, of which they have one at least.
LEMMA VisitorsFewer ==
    ASSUME TableOK, NEW who \in SUBSET DOMAIN table, who # {}
    PROVE  Cardinality(Visitors(who)) \in 1..Cardinality(who)
<1> DEFINE visitor == [v \in who |-> IF table[v].embedding # None
                                     THEN table[v].embedding ELSE v]
<1>1. visitor \in Surjection(who, Visitors(who))
    BY DEF Surjection, Visitors
<1>2. IsFiniteSet(who) /\ Cardinality(who) \in Nat
    BY TableFinite
<1> HIDE DEF visitor
<1>3. IsFiniteSet(Visitors(who)) /\ Cardinality(Visitors(who)) <= Cardinality(who)
    <2> DEFINE T == Visitors(who)
    <2>1. visitor \in Surjection(who, T) /\ IsFiniteSet(who)
        BY <1>1, <1>2
    <2> HIDE DEF T
    <2>2. IsFiniteSet(T)
        BY <2>1, FS_Surjection
    <2>3. Cardinality(T) <= Cardinality(who)
        BY <2>1, FS_Surjection
    <2> QED
        BY <2>2, <2>3 DEF T
<1>4. Visitors(who) # {}
    <2>1. PICK v \in who : TRUE
        OBVIOUS
    <2> DEFINE name == IF table[v].embedding # None THEN table[v].embedding ELSE v
    <2>2. name \in Visitors(who)
        BY DEF Visitors
    <2> QED
        BY <2>2
<1>5. Cardinality(Visitors(who)) \in Nat /\ Cardinality(Visitors(who)) # 0
    BY <1>3, <1>4, FS_CardinalityType, FS_EmptySet
<1> QED
    BY <1>2, <1>3, <1>5

Nested(row) ==
    /\ row.purchases <= row.checkouts
    /\ row.checkouts <= row.footfall
    /\ row.unique \in 1..row.footfall

LEMMA RollupNested ==
    ASSUME TableOK, NEW who \in SUBSET DOMAIN table, who # {}
    PROVE  Nested(Rollup(who))
<1> DEFINE bought == {v \in who : table[v].stage = Bought}
           queued == {v \in who : table[v].stage \in {Queued, Bought}}
<1>1. bought \subseteq queued /\ queued \subseteq who
    OBVIOUS
<1>2. Rollup(who) = [footfall |-> Cardinality(who), unique |-> Cardinality(Visitors(who)),
                     purchases |-> Cardinality(bought), checkouts |-> Cardinality(queued)]
    BY DEF Rollup
<1> HIDE DEF bought, queued
<1>3. IsFiniteSet(who) /\ IsFiniteSet(queued)
    BY <1>1, TableFinite
<1>4. Cardinality(bought) <= Cardinality(queued) /\ Cardinality(queued) <= Cardinality(who)
    BY <1>1, <1>3, FS_Subset
<1>5. Cardinality(Visitors(who)) \in 1..Cardinality(who)
    BY VisitorsFewer
<1> QED
    BY <1>2, <1>4, <1>5 DEF Nested

-----------------------------------------------------------------------------
(* Theorems. *)

MetricsInv == TableOK /\ \A h \in DOMAIN hourly : h \in Int /\ Nested(hourly[h])

\* A refresh writes the hours of the customers in the window, from these.
LEMMA RefreshedHours ==
    ASSUME TableOK, Refresh
    PROVE  \A h \in DOMAIN hourly' :
             \/ h \in DOMAIN hourly /\ hourly'[h] = hourly[h]
             \/ /\ h \in Int /\ h % HourTicks = 0
                /\ h + HourTicks > now - RollupWindow
                /\ \E who \in SUBSET DOMAIN table : who # {} /\ hourly'[h] = Rollup(who)
<1> DEFINE who == Customers(RollupWindow)
           hours == {Hour(table[v].entered) : v \in who}
<1>1. hourly' = [h \in DOMAIN hourly \cup hours |->
                    IF h \in hours THEN Rollup(EnteredIn(h, who)) ELSE hourly[h]]
    BY DEF Refresh
<1>2. ASSUME NEW v \in who
      PROVE  /\ Hour(table[v].entered) \in Int
             /\ Hour(table[v].entered) % HourTicks = 0
             /\ Hour(table[v].entered) + HourTicks > now - RollupWindow
             /\ EnteredIn(Hour(table[v].entered), who) \in SUBSET DOMAIN table
             /\ EnteredIn(Hour(table[v].entered), who) # {}
    <2>1. /\ table[v].entered \in Nat /\ v \in DOMAIN table
          /\ table[v].entered >= now - RollupWindow
        <3>1. v \in DOMAIN table /\ table[v].entered >= now - RollupWindow
            BY DEF Customers
        <3>2. table[v] \in Row
            BY <3>1 DEF TableOK
        <3> QED
            BY <3>1, <3>2 DEF Row
    <2>2. /\ Hour(table[v].entered) \in Int
          /\ Hour(table[v].entered) % HourTicks = 0
          /\ table[v].entered < Hour(table[v].entered) + HourTicks
        BY <2>1, HourBounds, HourAligned
    <2>3. now - RollupWindow \in Int /\ HourTicks \in Nat
        BY MetricsAssumption DEF TableOK
    <2>4. v \in EnteredIn(Hour(table[v].entered), who)
        BY DEF EnteredIn
    <2>5. EnteredIn(Hour(table[v].entered), who) \subseteq DOMAIN table
        BY DEF EnteredIn, Customers
    <2> QED
        BY <2>1, <2>2, <2>3, <2>4, <2>5
<1>3. \A h \in hours : /\ h \in Int /\ h % HourTicks = 0
                       /\ h + HourTicks > now - RollupWindow
                       /\ EnteredIn(h, who) \in SUBSET DOMAIN table
                       /\ EnteredIn(h, who) # {}
    BY <1>2
<1> HIDE DEF who, hours
<1> QED
    BY <1>1, <1>3

LEMMA MetricsStep ==
    ASSUME MetricsInv, [Next]_vars
    PROVE  MetricsInv'
<1>1. TableOK /\ TableOK'
    BY TableStep DEF MetricsInv
<1>2. CASE UNCHANGED hourly
    BY <1>1, <1>2 DEF MetricsInv
<1>3. CASE Refresh
    <2> SUFFICES ASSUME NEW h \in DOMAIN hourly'
                 PROVE  h \in Int /\ Nested(hourly'[h])
        BY <1>1 DEF MetricsInv
    <2>1. CASE h \in DOMAIN hourly /\ hourly'[h] = hourly[h]
        BY <2>1 DEF MetricsInv
    <2>2. ASSUME h \in Int, NEW who \in SUBSET DOMAIN table, who # {}, hourly'[h] = Rollup(who)
          PROVE  h \in Int /\ Nested(hourly'[h])
        BY <1>1, <2>2, RollupNested
    <2> QED
        BY <1>1, <1>3, <2>1, <2>2, RefreshedHours
<1> QED
    BY <1>2, <1>3, RollupWriters

LEMMA MetricsCorrect == Spec => []MetricsInv
<1>1. Init => MetricsInv
    BY DEF Init, MetricsInv, TableOK
<1>2. MetricsInv /\ [Next]_vars => MetricsInv'
    BY MetricsStep
<1> QED
    BY <1>1, <1>2, PTL DEF Spec

\* The columns of a rollup row agree with each other (db.py:364-373).
THEOREM CountsAgree == Spec => []CountsNest
<1>1. MetricsInv => CountsNest
    BY DEF MetricsInv, CountsNest, Nested
<1> QED
    BY <1>1, MetricsCorrect, PTL

\* An hour that ended before the window keeps its row (db.py:375-379).
THEOREM HistoryKept == Spec => HistoryFinal
<1>1. ASSUME MetricsInv, [Next]_vars,
             NEW h \in DOMAIN hourly, h + HourTicks <= now - RollupWindow
      PROVE  hourly'[h] = hourly[h]
    <2>1. CASE UNCHANGED hourly
        BY <2>1
    <2>2. CASE Refresh
        <3>1. h \in DOMAIN hourly'
            BY <2>2 DEF Refresh
        <3>2. h \in Int /\ HourTicks \in Nat /\ now - RollupWindow \in Int
            BY <1>1, MetricsAssumption DEF MetricsInv, TableOK
        <3>3. ~ (h + HourTicks > now - RollupWindow)
            BY <1>1, <3>2
        <3> QED
            BY <1>1, <2>2, <3>1, <3>3, RefreshedHours DEF MetricsInv
    <2> QED
        BY <1>1, <2>1, <2>2, RollupWriters
<1>2. MetricsInv /\ [Next]_vars =>
        [\A h \in DOMAIN hourly :
            h + HourTicks <= now - RollupWindow => hourly'[h] = hourly[h]]_vars
    BY <1>1
<1> QED
    BY <1>2, MetricsCorrect, PTL DEF Spec, HistoryFinal

-----------------------------------------------------------------------------
(* The rows of the rollup, and what is reported of them.                   *)

\* The rollup has finitely many hours, each of them whole, with a bucket.
HoursOK ==
    /\ IsFiniteSet(DOMAIN hourly)
    /\ \A h \in DOMAIN hourly : h \in Int /\ h % HourTicks = 0 /\ hourly[h] \in Bucket

AnomaliesOK ==
    /\ now \in 0..MaxTime
    /\ anomalies \subseteq [bucket : DOMAIN hourly, at : 0..now]

\* A group of sessions makes a bucket.
LEMMA RollupType ==
    ASSUME TableOK, NEW who \in SUBSET DOMAIN table, who # {}
    PROVE  Rollup(who) \in Bucket
<1> DEFINE bought == {v \in who : table[v].stage = Bought}
           queued == {v \in who : table[v].stage \in {Queued, Bought}}
<1>1. Rollup(who) = [footfall |-> Cardinality(who), unique |-> Cardinality(Visitors(who)),
                     purchases |-> Cardinality(bought), checkouts |-> Cardinality(queued)]
    BY DEF Rollup
<1>2. bought \in SUBSET DOMAIN table /\ queued \in SUBSET DOMAIN table
    OBVIOUS
<1> HIDE DEF bought, queued
<1>3. /\ Cardinality(who) \in Nat /\ Cardinality(bought) \in Nat
      /\ Cardinality(queued) \in Nat
    BY <1>2, TableFinite
<1>4. Cardinality(Visitors(who)) \in Nat
    BY <1>3, VisitorsFewer
<1> QED
    BY <1>1, <1>3, <1>4 DEF Bucket

LEMMA HoursStep ==
    ASSUME TableOK, HoursOK, [Next]_vars
    PROVE  HoursOK' /\ DOMAIN hourly \subseteq DOMAIN hourly'
<1>1. CASE UNCHANGED hourly
    BY <1>1 DEF HoursOK
<1>2. CASE Refresh
    <2> DEFINE who == Customers(RollupWindow)
               hour == [v \in who |-> Hour(table[v].entered)]
               hours == {Hour(table[v].entered) : v \in who}
    <2>1. DOMAIN hourly' = DOMAIN hourly \cup hours
        BY <1>2 DEF Refresh
    <2>2. hour \in Surjection(who, hours)
        BY DEF Surjection
    <2>3. who \in SUBSET DOMAIN table
        BY DEF Customers
    <2>4. IsFiniteSet(who)
        BY <2>3, TableFinite
    <2> HIDE DEF who, hour, hours
    <2>5. IsFiniteSet(hours)
        BY <2>2, <2>4, FS_Surjection
    <2>6. IsFiniteSet(DOMAIN hourly')
        BY <2>1, <2>5, FS_Union DEF HoursOK
    <2>7. ASSUME NEW h \in DOMAIN hourly'
          PROVE  h \in Int /\ h % HourTicks = 0 /\ hourly'[h] \in Bucket
        BY <1>2, RefreshedHours, RollupType DEF HoursOK
    <2> QED
        BY <2>1, <2>6, <2>7 DEF HoursOK
<1> QED
    BY <1>1, <1>2, RollupWriters

\* The hours in sight are numbered from the latest on.
LEMMA RowsNumbered ==
    ASSUME HoursOK
    PROVE  /\ IsFiniteSet(Recent) /\ Cardinality(Recent) \in Nat /\ Recent \subseteq Int
           /\ \A g, h \in Recent : g < h => RowNumber(h) < RowNumber(g)
           /\ \A n \in 1..Cardinality(Recent) :
                RecentHour(n) \in Recent /\ RowNumber(RecentHour(n)) = n
<1> DEFINE N == Cardinality(Recent)
           f == [h \in Recent |-> RowNumber(h)]
           from(h) == {g \in Recent : g >= h}
<1>1. IsFiniteSet(Recent) /\ N \in Nat /\ Recent \subseteq Int
    BY FS_Subset, FS_CardinalityType DEF Recent, HoursOK
<1>2. ASSUME NEW g \in Recent, NEW h \in Recent, g < h
      PROVE  RowNumber(h) < RowNumber(g)
    <2>0. Recent \subseteq Int
        BY <1>1
    <2>a. g \in Int /\ h \in Int
        BY <2>0
    <2>b. g >= g /\ ~ g >= h /\ \A k \in Int : k >= h => k >= g
        BY <2>a, <1>2
    <2>1. from(h) \subseteq from(g) /\ g \in from(g) /\ g \notin from(h)
        BY <2>0, <2>b
    <2>2. IsFiniteSet(from(g)) /\ IsFiniteSet(from(h))
        BY <1>1, FS_Subset
    <2>3. RowNumber(g) = Cardinality(from(g)) /\ RowNumber(h) = Cardinality(from(h))
        BY DEF RowNumber
    <2> HIDE DEF from
    <2>4. /\ Cardinality(from(h)) <= Cardinality(from(g))
          /\ Cardinality(from(h)) # Cardinality(from(g))
        BY <2>1, <2>2, FS_Subset
    <2>5. Cardinality(from(h)) \in Nat /\ Cardinality(from(g)) \in Nat
        BY <2>2, FS_CardinalityType
    <2> QED
        BY <2>3, <2>4, <2>5
<1>3. ASSUME NEW h \in Recent PROVE RowNumber(h) \in 1..N
    <2>1. from(h) \subseteq Recent /\ h \in from(h)
        BY <1>1
    <2>2. RowNumber(h) = Cardinality(from(h))
        BY DEF RowNumber
    <2> HIDE DEF from
    <2>3. /\ IsFiniteSet(from(h)) /\ Cardinality(from(h)) \in Nat
          /\ Cardinality(from(h)) # 0 /\ Cardinality(from(h)) <= N
        BY <1>1, <2>1, FS_Subset, FS_CardinalityType, FS_EmptySet
    <2> HIDE DEF N
    <2> QED
        BY <1>1, <2>2, <2>3
<1> HIDE DEF from
<1>4. ASSUME NEW g \in Recent, NEW h \in Recent, g # h PROVE RowNumber(g) # RowNumber(h)
    <2>1. /\ g < h \/ h < g
          /\ RowNumber(g) \in 1..N /\ RowNumber(h) \in 1..N
        BY <1>1, <1>3, <1>4
    <2>2. RowNumber(g) < RowNumber(h) \/ RowNumber(h) < RowNumber(g)
        BY <1>2, <1>4, <2>1
    <2> QED
        BY <1>1, <2>1, <2>2
<1>5. f \in Injection(Recent, 1..N)
    BY <1>3, <1>4 DEF Injection, IsInjective
<1>6. IsFiniteSet(1..N) /\ Cardinality(1..N) = N
    <2> HIDE DEF N
    <2>1. (IF 1 > N THEN 0 ELSE N - 1 + 1) = N
        BY <1>1
    <2> QED
        BY <1>1, <2>1, FS_Interval
<1>7. f \in Surjection(Recent, 1..N)
    BY <1>1, <1>5, <1>6, FS_Injection
<1>8. ASSUME NEW n \in 1..N PROVE RecentHour(n) \in Recent /\ RowNumber(RecentHour(n)) = n
    <2>1. \E h \in Recent : f[h] = n
        BY <1>7, <1>8 DEF Surjection
    <2>2. \E h \in Recent : RowNumber(h) = n
        BY <2>1
    <2> QED
        BY <2>2 DEF RecentHour
<1> QED
    BY <1>1, <1>2, <1>8

LEMMA AnomaliesStep ==
    ASSUME TableOK, HoursOK, AnomaliesOK, [Next]_vars
    PROVE  AnomaliesOK'
<1>1. DOMAIN hourly \subseteq DOMAIN hourly'
    BY HoursStep
<1>2. now' \in 0..MaxTime /\ now <= now'
    BY MetricsAssumption
       DEF AnomaliesOK, Next, vars, Tick, Insert, Advance, Refresh, DetectDrop
<1>3. now \in Nat /\ now' \in Nat
    BY <1>2, MetricsAssumption DEF AnomaliesOK
<1>4. CASE UNCHANGED anomalies
    BY <1>1, <1>2, <1>3, <1>4 DEF AnomaliesOK
<1>5. CASE DetectDrop
    <2>1. anomalies' = anomalies \cup {[bucket |-> RecentHour(1), at |-> now]}
        BY <1>5 DEF DetectDrop
    <2>2. 1 \in 1..Cardinality(Recent)
        BY <1>5, RowsNumbered DEF DetectDrop, LastPrior
    <2>3. RecentHour(1) \in DOMAIN hourly
        BY <2>2, RowsNumbered DEF Recent
    <2> QED
        BY <1>1, <1>2, <1>3, <2>1, <2>3 DEF AnomaliesOK
<1> QED
    BY <1>4, <1>5 DEF Next, vars, Tick, Insert, Advance, Refresh

LEMMA RollupAlways == Spec => [](MetricsInv /\ HoursOK /\ AnomaliesOK)
<1>1. Init => HoursOK /\ AnomaliesOK
    BY MetricsAssumption, FS_EmptySet DEF Init, HoursOK, AnomaliesOK
<1>2. MetricsInv /\ HoursOK /\ AnomaliesOK /\ [Next]_vars => HoursOK' /\ AnomaliesOK'
    BY HoursStep, AnomaliesStep DEF MetricsInv
<1> QED
    BY <1>1, <1>2, MetricsCorrect, PTL DEF Spec

\* The rollup has whole hours only, and a drop is reported of one of them
\* (db.py:359-394, anomalies.py:101-125).
THEOREM RollupTypes == Spec => []TypeOK
<1>1. MetricsInv /\ HoursOK /\ AnomaliesOK => TypeOK
    BY DEF MetricsInv, TableOK, HoursOK, AnomaliesOK, TypeOK
<1> QED
    BY <1>1, RollupAlways, PTL

-----------------------------------------------------------------------------
(* The mean of the rates before.                                           *)

\* p/q + r/s
Plus(r, row) == [num |-> r.num * row.footfall + row.purchases * r.den,
                 den |-> r.den * row.footfall]

Zero == [num |-> 0, den |-> 1]

HourRow(n) == hourly[RecentHour(n)]

\* There are three rows at most to be summed.
LEMMA RatesSummed ==
    /\ RateSum(2) = Plus(Zero, HourRow(2))
    /\ RateSum(3) = Plus(Plus(Zero, HourRow(2)), HourRow(3))
    /\ RateSum(4) = Plus(Plus(Plus(Zero, HourRow(2)), HourRow(3)), HourRow(4))
<1> DEFINE two == Plus(Zero, HourRow(2))
           three == Plus(two, HourRow(3))
           four == Plus(three, HourRow(4))
           Sums(last, f) == f = [n \in 1..last |-> IF n = 1 THEN Zero
                                                   ELSE Plus(f[n - 1], HourRow(n))]
<1>1. \A last : RateSum(last) = (CHOOSE f : Sums(last, f))[last]
    BY DEF RateSum, Plus, Zero, HourRow
<1>2. ASSUME NEW last \in 2..4 PROVE \E f : Sums(last, f)
    <2> DEFINE g == [n \in 1..last |-> IF n = 1 THEN Zero ELSE IF n = 2 THEN two
                                       ELSE IF n = 3 THEN three ELSE four]
    <2>1. \A n \in 1..last : n \in {1, 2, 3, 4}
        OBVIOUS
    <2> HIDE DEF Plus, Zero, HourRow
    <2>2. ASSUME NEW n \in 1..last
          PROVE  g[n] = IF n = 1 THEN Zero ELSE Plus(g[n - 1], HourRow(n))
        <3>1. CASE n = 1
            BY <3>1
        <3>2. CASE n = 2
            <4>1. n - 1 = 1 /\ 1 \in 1..last
                BY <3>2
            <4> QED
                BY <3>2, <4>1
        <3>3. CASE n = 3
            <4>1. n - 1 = 2 /\ 2 \in 1..last
                BY <3>3
            <4> QED
                BY <3>3, <4>1
        <3>4. CASE n = 4
            <4>1. n - 1 = 3 /\ 3 \in 1..last
                BY <3>4
            <4> QED
                BY <3>4, <4>1
        <3> QED
            BY <2>1, <3>1, <3>2, <3>3, <3>4
    <2>3. Sums(last, g)
        BY <2>2
    <2> QED
        BY <2>3
<1>3. ASSUME NEW last \in 2..4, NEW f, Sums(last, f)
      PROVE  /\ f[2] = two
             /\ last >= 3 => f[3] = three
             /\ last >= 4 => f[4] = four
    <2> HIDE DEF Plus, Zero, HourRow
    <2>1. \A n \in 1..last : f[n] = IF n = 1 THEN Zero ELSE Plus(f[n - 1], HourRow(n))
        BY <1>3
    <2>2. 1 \in 1..last /\ 2 \in 1..last /\ 2 - 1 = 1 /\ 3 - 1 = 2 /\ 4 - 1 = 3
        OBVIOUS
    <2>3. f[1] = Zero /\ f[2] = two
        BY <2>1, <2>2
    <2>4. last >= 3 => 3 \in 1..last /\ f[3] = three
        BY <2>1, <2>2, <2>3
    <2>5. last >= 4 => 4 \in 1..last /\ f[4] = four
        BY <2>1, <2>2, <2>4
    <2> QED
        BY <2>3, <2>4, <2>5
<1> HIDE DEF Sums, two, three, four
<1>4. \A last \in 2..4 : Sums(last, CHOOSE f : Sums(last, f))
    BY <1>2
<1> QED
    BY <1>1, <1>3, <1>4 DEF two, three, four

\* The sum of m rates is at most m times purchases / footfall.
AtMost(r, m, row) ==
    /\ r.num \in Nat /\ r.den \in Nat \ {0}
    /\ r.num * row.footfall <= m * (row.purchases * r.den)

NoBetter(other, row) == other.purchases * row.footfall <= row.purchases * other.footfall

Counted(row) == row.purchases \in Nat /\ row.footfall \in Nat \ {0}

LEMMA PlusAtMost ==
    ASSUME NEW r, NEW m \in Nat, NEW row, NEW other, AtMost(r, m, row),
           Counted(row), Counted(other), NoBetter(other, row)
    PROVE  AtMost(Plus(r, other), m + 1, row)
<1> DEFINE N == r.num
           D == r.den
           p == other.purchases
           q == other.footfall
           P == row.purchases
           Q == row.footfall
<1>1. /\ N \in Nat /\ D \in Nat \ {0} /\ p \in Nat /\ q \in Nat \ {0}
      /\ P \in Nat /\ Q \in Nat \ {0}
      /\ N * Q <= m * (P * D) /\ p * Q <= P * q
    BY DEF AtMost, Counted, NoBetter
<1>2. /\ Plus(r, other).num = N * q + p * D
      /\ Plus(r, other).den = D * q
    BY DEF Plus
<1> HIDE DEF N, D, p, q, P, Q
<1>3. ASSUME NEW a \in Nat, NEW b \in Nat, NEW c \in Nat, a <= b PROVE a * c <= b * c
    BY <1>3
<1>4. /\ N * Q \in Nat /\ m * (P * D) \in Nat /\ p * Q \in Nat /\ P * q \in Nat
    BY <1>1
<1>5. (N * Q) * q <= (m * (P * D)) * q
    BY <1>1, <1>3, <1>4
<1>6. (p * Q) * D <= (P * q) * D
    BY <1>1, <1>3, <1>4
<1>7. (N * q + p * D) * Q = (N * Q) * q + (p * Q) * D
    BY <1>1
<1>8. (m + 1) * (P * (D * q)) = (m * (P * D)) * q + (P * q) * D
    BY <1>1
<1>9. (N * q + p * D) * Q <= (m + 1) * (P * (D * q))
    <2>1. /\ (N * Q) * q \in Nat /\ (m * (P * D)) * q \in Nat
          /\ (p * Q) * D \in Nat /\ (P * q) * D \in Nat
        BY <1>1, <1>4
    <2> QED
        BY <1>5, <1>6, <1>7, <1>8, <2>1
<1>10. N * q + p * D \in Nat /\ D * q \in Nat \ {0}
    BY <1>1
<1> QED
    BY <1>2, <1>9, <1>10 DEF AtMost, P, Q

\* A mean that much above the current rate has a rate above it.
LEMMA DropNeedsBetter ==
    ASSUME HoursOK, MetricsInv, LastPrior > 1, Dropped(RecentHour(1))
    PROVE  \E n \in 2..LastPrior : ~ NoBetter(HourRow(n), HourRow(1))
<1> SUFFICES ASSUME \A n \in 2..LastPrior : NoBetter(HourRow(n), HourRow(1))
             PROVE  FALSE
    OBVIOUS
<1> DEFINE row == HourRow(1)
           last == LastPrior
<1>1. /\ last \in 2..4 /\ \A n \in 1..last : RecentHour(n) \in DOMAIN hourly
    BY RowsNumbered DEF LastPrior, Recent
<1>2. \A n \in 1..last : Counted(HourRow(n))
    <2> SUFFICES ASSUME NEW n \in 1..last PROVE Counted(HourRow(n))
        OBVIOUS
    <2>1. hourly[RecentHour(n)] \in Bucket /\ Nested(hourly[RecentHour(n)])
        BY <1>1 DEF HoursOK, MetricsInv
    <2> QED
        BY <2>1 DEF Bucket, Nested, Counted, HourRow
<1>3. Counted(row)
    BY <1>1, <1>2
<1> HIDE DEF row, last
<1>4. AtMost(Zero, 0, row)
    BY <1>3 DEF AtMost, Zero, Counted
<1>5. AtMost(Plus(Zero, HourRow(2)), 1, row)
    <2>1. Counted(HourRow(2)) /\ NoBetter(HourRow(2), row)
        BY <1>1, <1>2 DEF row, last
    <2>2. AtMost(Plus(Zero, HourRow(2)), 0 + 1, row)
        BY <1>3, <1>4, <2>1, PlusAtMost
    <2> QED
        BY <2>2
<1>6. last >= 3 => AtMost(Plus(Plus(Zero, HourRow(2)), HourRow(3)), 2, row)
    <2> SUFFICES ASSUME last >= 3 PROVE AtMost(Plus(Plus(Zero, HourRow(2)), HourRow(3)), 2, row)
        OBVIOUS
    <2>1. Counted(HourRow(3)) /\ NoBetter(HourRow(3), row)
        BY <1>1, <1>2 DEF row, last
    <2>2. AtMost(Plus(Plus(Zero, HourRow(2)), HourRow(3)), 1 + 1, row)
        BY <1>3, <1>5, <2>1, PlusAtMost
    <2> QED
        BY <2>2
<1>7. last >= 4 =>
        AtMost(Plus(Plus(Plus(Zero, HourRow(2)), HourRow(3)), HourRow(4)), 3, row)
    <2> SUFFICES ASSUME last >= 4
                 PROVE  AtMost(Plus(Plus(Plus(Zero, HourRow(2)), HourRow(3)), HourRow(4)), 3, row)
        OBVIOUS
    <2>1. Counted(HourRow(4)) /\ NoBetter(HourRow(4), row)
        BY <1>1, <1>2 DEF row, last
    <2>2. last >= 3
        BY <1>1
    <2>3. AtMost(Plus(Plus(Plus(Zero, HourRow(2)), HourRow(3)), HourRow(4)), 2 + 1, row)
        BY <1>3, <1>6, <2>1, <2>2, PlusAtMost
    <2> QED
        BY <2>3
<1>8. AtMost(RateSum(last), last - 1, row)
    <2>1. CASE last = 2
        BY <1>5, <2>1, RatesSummed
    <2>2. CASE last = 3
        BY <1>6, <2>2, RatesSummed
    <2>3. CASE last = 4
        BY <1>7, <2>3, RatesSummed
    <2> QED
        BY <1>1, <2>1, <2>2, <2>3
<1> DEFINE sum == RateSum(last)
           X == row.purchases * sum.den
           Y == sum.num * row.footfall
<1>9. /\ sum.num \in Nat /\ sum.den \in Nat
      /\ row.purchases \in Nat /\ row.footfall \in Nat
      /\ Y <= (last - 1) * X
    BY <1>3, <1>8 DEF AtMost, Counted
<1>10. 10 * row.purchases * (last - 1) * sum.den < 7 * sum.num * row.footfall
    BY DEF Dropped, row, last, HourRow
<1> HIDE DEF sum
<1>11. /\ 10 * row.purchases * (last - 1) * sum.den = 10 * ((last - 1) * X)
       /\ 7 * sum.num * row.footfall = 7 * Y
       /\ (last - 1) * X \in Nat /\ Y \in Nat
    BY <1>1, <1>9
<1> HIDE DEF X, Y
<1> QED
    BY <1>9, <1>10, <1>11

\* A drop is reported of an hour only if an earlier one in sight converted
\* better, whatever hours are missing between them (anomalies.py:84-109).
THEOREM DropsAreDrops == Spec => ReportedDropped
<1>1. ASSUME HoursOK, MetricsInv, [Next]_vars, NEW a \in anomalies' \ anomalies
      PROVE  \E h \in Recent :
                /\ h < a.bucket
                /\ hourly[h].purchases * hourly[a.bucket].footfall
                     > hourly[a.bucket].purchases * hourly[h].footfall
    <2>1. /\ LastPrior > 1 /\ Dropped(RecentHour(1))
          /\ a.bucket = RecentHour(1)
        BY <1>1 DEF Next, vars, Tick, Insert, Advance, Refresh, DetectDrop
    <2>2. PICK n \in 2..LastPrior : ~ NoBetter(HourRow(n), HourRow(1))
        BY <1>1, <2>1, DropNeedsBetter
    <2>3. /\ Cardinality(Recent) \in Nat /\ n \in 1..Cardinality(Recent)
          /\ 1 \in 1..Cardinality(Recent) /\ n > 1
        BY <1>1, RowsNumbered DEF LastPrior
    <2> DEFINE h == RecentHour(n)
               c == RecentHour(1)
    <2>4. /\ h \in Recent /\ c \in Recent /\ RowNumber(h) = n /\ RowNumber(c) = 1
          /\ h \in Int /\ c \in Int
        BY <1>1, <2>3, RowsNumbered
    <2>5. ~ (c < h) /\ c # h
        BY <1>1, <2>3, <2>4, RowsNumbered
    <2>6. /\ hourly[h] \in Bucket /\ hourly[c] \in Bucket
        BY <1>1, <2>4 DEF HoursOK, Recent
    <2>7. ~ (hourly[h].purchases * hourly[c].footfall
                <= hourly[c].purchases * hourly[h].footfall)
        BY <2>2 DEF NoBetter, HourRow
    <2> HIDE DEF h, c
    <2>8. /\ hourly[h].purchases * hourly[c].footfall \in Int
          /\ hourly[c].purchases * hourly[h].footfall \in Int
        BY <2>6 DEF Bucket
    <2>9. h < c
        BY <2>4, <2>5
    <2> QED
        BY <2>1, <2>4, <2>7, <2>8, <2>9 DEF c
<1>2. HoursOK /\ MetricsInv /\ [Next]_vars =>
        [\A a \in anomalies' \ anomalies :
            \E h \in Recent :
               /\ h < a.bucket
               /\ hourly[h].purchases * hourly[a.bucket].footfall
                    > hourly[a.bucket].purchases * hourly[h].footfall]_vars
    BY <1>1
<1> QED
    BY <1>2, RollupAlways, PTL DEF Spec, ReportedDropped

-----------------------------------------------------------------------------
(* The running sum of the funnel.                                          *)

\* The customers who got as far as a stage.
Reached(st) == {v \in Customers(ReadWindow) : table[v].stage >= st}

SumFrom5 == PerStage(5)
SumFrom4 == PerStage(4) + SumFrom5
SumFrom3 == PerStage(3) + SumFrom4
SumFrom2 == PerStage(2) + SumFrom3
SumFrom1 == PerStage(1) + SumFrom2

LEMMA PerStageType ==
    ASSUME TableOK, NEW st PROVE PerStage(st) \in Nat
<1> DEFINE here == {v \in Customers(ReadWindow) : table[v].stage = st}
<1>1. here \subseteq DOMAIN table
    BY DEF Customers
<1>2. PerStage(st) = Cardinality(here)
    BY DEF PerStage
<1> HIDE DEF here
<1> QED
    BY <1>1, <1>2, TableFinite, FS_CardinalityType

\* The running sum, its five steps written out.
LEMMA FunnelSummed ==
    ASSUME TableOK
    PROVE  /\ Funnel[1] = SumFrom1 /\ Funnel[2] = SumFrom2 /\ Funnel[3] = SumFrom3
           /\ Funnel[4] = SumFrom4 /\ Funnel[5] = SumFrom5
<1> DEFINE Sums(f) == f = [st \in 1..5 |-> PerStage(st) + IF st = 5 THEN 0 ELSE f[st + 1]]
           g == [st \in 1..5 |-> IF st = 1 THEN SumFrom1 ELSE IF st = 2 THEN SumFrom2
                                 ELSE IF st = 3 THEN SumFrom3 ELSE IF st = 4 THEN SumFrom4
                                 ELSE SumFrom5]
<1>1. Funnel = CHOOSE f : Sums(f)
    <2>1. DOMAIN Stages = 1..5 /\ Len(Stages) = 5
        BY DEF Stages
    <2> QED
        BY <2>1 DEF Funnel
<1>2. 1..5 = {1, 2, 3, 4, 5}
    OBVIOUS
<1>3. PerStage(5) + 0 = PerStage(5)
    BY PerStageType
<1> HIDE DEF PerStage
<1>4. ASSUME NEW f, Sums(f)
      PROVE  /\ f[1] = SumFrom1 /\ f[2] = SumFrom2 /\ f[3] = SumFrom3
             /\ f[4] = SumFrom4 /\ f[5] = SumFrom5
    <2>1. \A st \in 1..5 : f[st] = PerStage(st) + IF st = 5 THEN 0 ELSE f[st + 1]
        BY <1>4
    <2>2. f[5] = SumFrom5
        BY <2>1, <1>3 DEF SumFrom5
    <2>3. f[4] = SumFrom4
        BY <2>1, <2>2 DEF SumFrom4
    <2>4. f[3] = SumFrom3
        BY <2>1, <2>3 DEF SumFrom3
    <2>5. f[2] = SumFrom2
        BY <2>1, <2>4 DEF SumFrom2
    <2>6. f[1] = SumFrom1
        BY <2>1, <2>5 DEF SumFrom1
    <2> QED
        BY <2>2, <2>3, <2>4, <2>5, <2>6
<1>5. Sums(g)
    <2>1. /\ g[2] = SumFrom2 /\ g[3] = SumFrom3
          /\ g[4] = SumFrom4 /\ g[5] = SumFrom5
        OBVIOUS
    <2>2. ASSUME NEW st \in 1..5
          PROVE  g[st] = PerStage(st) + IF st = 5 THEN 0 ELSE g[st + 1]
        <3>1. CASE st = 5
            BY <3>1, <1>3 DEF SumFrom5
        <3>2. CASE st = 4
            BY <3>2, <2>1 DEF SumFrom4
        <3>3. CASE st = 3
            BY <3>3, <2>1 DEF SumFrom3
        <3>4. CASE st = 2
            BY <3>4, <2>1 DEF SumFrom2
        <3>5. CASE st = 1
            BY <3>5, <2>1 DEF SumFrom1
        <3> QED
            BY <1>2, <3>1, <3>2, <3>3, <3>4, <3>5
    <2> QED
        BY <2>2
<1> HIDE DEF Sums
<1>6. Sums(Funnel)
    BY <1>1, <1>5
<1> QED
    BY <1>4, <1>6

\* Who got as far as a stage stays there or goes on.
LEMMA ReachedSplits ==
    ASSUME TableOK, NEW st \in 1..5
    PROVE  /\ Cardinality(Reached(st)) \in Nat
           /\ Cardinality(Reached(st)) = PerStage(st) + Cardinality(Reached(st + 1))
<1> DEFINE here == {v \in Customers(ReadWindow) : table[v].stage = st}
<1>1. Customers(ReadWindow) \subseteq DOMAIN table
    BY DEF Customers
<1>2. IsFiniteSet(Customers(ReadWindow))
    BY <1>1, TableFinite
<1>3. \A v \in Customers(ReadWindow) : table[v].stage \in Int
    <2>1. \A v \in DOMAIN table : table[v] \in Row
        BY DEF TableOK
    <2>2. DOMAIN Stages = 1..5
        BY DEF Stages
    <2> QED
        BY <1>1, <2>1, <2>2 DEF Row
<1>4. /\ Reached(st) = here \cup Reached(st + 1)
      /\ here \cap Reached(st + 1) = {}
    BY <1>3 DEF Reached
<1>5. IsFiniteSet(here) /\ IsFiniteSet(Reached(st + 1)) /\ IsFiniteSet(Reached(st))
    BY <1>2, FS_Subset DEF Reached
<1>6. PerStage(st) = Cardinality(here)
    BY DEF PerStage
<1> HIDE DEF here
<1> DEFINE on == Reached(st + 1)
<1> HIDE DEF on
<1>7. Cardinality(here \cup on) = Cardinality(here) + Cardinality(on)
                                    - Cardinality(here \cap on)
    BY <1>5, FS_Union DEF on
<1>8. /\ Cardinality({}) = 0 /\ Cardinality(here) \in Nat
      /\ Cardinality(on) \in Nat /\ Cardinality(Reached(st)) \in Nat
    BY <1>5, FS_EmptySet, FS_CardinalityType DEF on
<1>9. Reached(st) = here \cup on /\ here \cap on = {}
    BY <1>4 DEF on
<1>10. Cardinality(Reached(st)) = Cardinality(here) + Cardinality(on)
    <2>1. \A a, b \in Nat : a + b - 0 = a + b
        OBVIOUS
    <2>2. Cardinality(Reached(st)) = Cardinality(here) + Cardinality(on) - 0
        BY <1>7, <1>8, <1>9
    <2> QED
        BY <1>8, <2>1, <2>2
<1> QED
    BY <1>6, <1>8, <1>10 DEF on

LEMMA NobodyBeyond == ASSUME TableOK PROVE Cardinality(Reached(6)) = 0
<1>1. \A v \in DOMAIN table : table[v].stage \in 1..5
    <2>1. \A v \in DOMAIN table : table[v] \in Row
        BY DEF TableOK
    <2>2. DOMAIN Stages = 1..5
        BY DEF Stages
    <2> QED
        BY <2>1, <2>2 DEF Row
<1>2. Reached(6) = {}
    BY <1>1 DEF Reached, Customers
<1> QED
    BY <1>2, FS_EmptySet

\* The running sum the API takes over its stage counts is, at each stage, the
\* number of customers who got that far (db.py:286-294).
THEOREM FunnelIsCumulative == Spec => []FunnelCounts
<1>1. ASSUME MetricsInv PROVE FunnelCounts
    <2>1. TableOK
        BY <1>1 DEF MetricsInv
    <2>2. \A st \in 1..5 :
            /\ Cardinality(Reached(st)) \in Nat
            /\ Cardinality(Reached(st)) = PerStage(st) + Cardinality(Reached(st + 1))
        BY <2>1, ReachedSplits
    <2>3. /\ 1 \in 1..5 /\ 2 \in 1..5 /\ 3 \in 1..5 /\ 4 \in 1..5 /\ 5 \in 1..5
          /\ 1 + 1 = 2 /\ 2 + 1 = 3 /\ 3 + 1 = 4 /\ 4 + 1 = 5 /\ 5 + 1 = 6
        OBVIOUS
    <2>4. PerStage(5) \in Nat
        BY <2>1, PerStageType
    <2>5. Cardinality(Reached(5)) = SumFrom5
        BY <2>1, <2>2, <2>3, <2>4, NobodyBeyond DEF SumFrom5
    <2>6. Cardinality(Reached(4)) = SumFrom4
        BY <2>2, <2>3, <2>5 DEF SumFrom4
    <2>7. Cardinality(Reached(3)) = SumFrom3
        BY <2>2, <2>3, <2>6 DEF SumFrom3
    <2>8. Cardinality(Reached(2)) = SumFrom2
        BY <2>2, <2>3, <2>7 DEF SumFrom2
    <2>9. Cardinality(Reached(1)) = SumFrom1
        BY <2>2, <2>3, <2>8 DEF SumFrom1
    <2>10. \A st \in DOMAIN Stages : st \in {1, 2, 3, 4, 5}
        BY DEF Stages
    <2>11. \A st \in DOMAIN Stages : Funnel[st] = Cardinality(Reached(st))
        BY <2>1, <2>5, <2>6, <2>7, <2>8, <2>9, <2>10, FunnelSummed
    <2> QED
        BY <2>11 DEF FunnelCounts, Reached
<1> QED
    BY <1>1, MetricsCorrect, PTL
=============================================================================
