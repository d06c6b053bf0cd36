---------------------------- MODULE ReportsProofs ----------------------------
(***************************************************************************)
(* The parts of one answer of /sales fit together, for every window, every *)
(* number of sessions and every interleaving with the consume loop.        *)
(***************************************************************************)
EXTENDS Reports, FiniteSetTheorems, WellFoundedInduction, TLAPS

-----------------------------------------------------------------------------
(* The table under the consume loop's writes. *)

\* A session is entered now or before, and paid after its entry.
Recorded(row, t) ==
    /\ row \in Row
    /\ row.entered <= t
    /\ row.bill # None => row.bill.till \in Nat /\ row.entered <= row.bill.till

TableInv == now \in Nat /\ table \in Seq(Row) /\ \A v \in DOMAIN table : Recorded(table[v], now)

\* What a write leaves of a row.
Keeps(old, new) ==
    /\ new.entered = old.entered
    /\ old.bill # None => new.bill = old.bill
    /\ old.staff => new.staff

TableKept == \A v \in DOMAIN table : v \in DOMAIN table' /\ Keeps(table[v], table'[v])

LEMMA TableStep ==
    ASSUME TableInv, [Next]_vars
    PROVE  TableInv' /\ TableKept
<1>1. CASE UNCHANGED <<now, table>>
    BY <1>1 DEF TableInv, TableKept, Keeps
<1>2. CASE Tick
    <2>1. now' = now + 1 /\ table' = table
        BY <1>2 DEF Tick
    <2>2. \A v \in DOMAIN table : Recorded(table[v], now + 1)
        BY DEF TableInv, Recorded, Row
    <2> QED
        BY <2>1, <2>2 DEF TableInv, TableKept, Keeps
<1>3. CASE Insert
    <2> DEFINE row == [entered |-> now, staff |-> FALSE, zones |-> {}, bill |-> None]
    <2>1. table' = Append(table, row) /\ now' = now
        BY <1>3 DEF Insert
    <2>2. Recorded(row, now)
        BY DEF TableInv, Recorded, Row
    <2>3. row \in Row
        BY <2>2 DEF Recorded
    <2> HIDE DEF row
    <2>4. /\ table' \in Seq(Row)
          /\ \A v \in DOMAIN table : v \in DOMAIN table' /\ table'[v] = table[v]
          /\ \A v \in DOMAIN table' \ DOMAIN table : table'[v] = row
        BY <2>1, <2>3 DEF TableInv
    <2> QED
        BY <2>1, <2>2, <2>4 DEF TableInv, TableKept, Keeps
<1>4. ASSUME NEW v \in DOMAIN table, Update(v)
      PROVE  TableInv' /\ TableKept
    <2>1. now' = now
        BY <1>4 DEF Update
    <2>2. now \in Nat /\ table \in Seq(Row) /\ table[v] \in Row /\ Recorded(table[v], now)
        BY DEF TableInv
    <2>3. ASSUME NEW row, table' = [table EXCEPT ![v] = row],
                 Recorded(row, now), Keeps(table[v], row)
          PROVE  TableInv' /\ TableKept
        <3>1. row \in Row
            BY <2>3 DEF Recorded
        <3>2. /\ table' \in Seq(Row) /\ DOMAIN table' = DOMAIN table
              /\ table'[v] = row
              /\ \A w \in DOMAIN table \ {v} : table'[w] = table[w]
            BY <2>2, <2>3, <3>1
        <3> QED
            BY <2>1, <2>3, <3>2 DEF TableInv, TableKept, Keeps
    <2>4. ASSUME NEW z \in Zone, table' = [table EXCEPT ![v].zones = @ \cup {z}]
          PROVE  TableInv' /\ TableKept
        <3> DEFINE row == [table[v] EXCEPT !.zones = @ \cup {z}]
        <3>1. Recorded(row, now) /\ Keeps(table[v], row)
            BY <2>2 DEF Recorded, Keeps, Row
        <3>2. table' = [table EXCEPT ![v] = row]
            BY <2>4
        <3> HIDE DEF row
        <3> QED
            BY <2>3, <3>1, <3>2
    <2>5. ASSUME NEW named \in BOOLEAN, table[v].bill = None,
                 table' = [table EXCEPT ![v].bill = [till |-> now, named |-> named]]
          PROVE  TableInv' /\ TableKept
        <3> DEFINE row == [table[v] EXCEPT !.bill = [till |-> now, named |-> named]]
        <3>1. Recorded(row, now) /\ Keeps(table[v], row)
            BY <2>2, <2>5 DEF Recorded, Keeps, Row
        <3>2. table' = [table EXCEPT ![v] = row]
            BY <2>5
        <3> HIDE DEF row
        <3> QED
            BY <2>3, <3>1, <3>2
    <2>6. ASSUME table' = [table EXCEPT ![v].staff = TRUE]
          PROVE  TableInv' /\ TableKept
        <3> DEFINE row == [table[v] EXCEPT !.staff = TRUE]
        <3>1. Recorded(row, now) /\ Keeps(table[v], row)
            BY <2>2 DEF Recorded, Keeps, Row
        <3>2. table' = [table EXCEPT ![v] = row]
            BY <2>6
        <3> HIDE DEF row
        <3> QED
            BY <2>3, <3>1, <3>2
    <2> QED
        BY <1>4, <2>4, <2>5, <2>6 DEF Update
<1> QED
    BY <1>1, <1>2, <1>3, <1>4
       DEF Next, vars, Detect, Report, ReportFails, Asked, ByPeople, ByMode, ByHour, Answered

-----------------------------------------------------------------------------
(* The answer under construction. *)

Part == (SUBSET Nat) \cup {None}

\* Sessions a query found: with a bill, entered in the window.
Selected(part, start) ==
    part # None => \A v \in part : /\ v \in DOMAIN table /\ table[v].bill # None
                                   /\ table[v].entered >= start - ReadWindow

\* One part of an answer is in the next, but for staff.
Fits(part, whole) ==
    part # None /\ whole # None => \A v \in part \ whole : table[v].staff

\* The queries are made in their order.
AnswerInv ==
    answer # None =>
        /\ answer \in [start : Nat, people : Part, modes : Part, hours : Part]
        /\ answer.people = None => answer.modes = None
        /\ answer.modes = None => answer.hours = None
        /\ Selected(answer.people, answer.start)
        /\ Selected(answer.modes, answer.start)
        /\ Fits(answer.people, answer.modes)
        /\ Fits(answer.modes, answer.hours)

LEMMA AnswerStep ==
    ASSUME TableInv, AnswerInv, [Next]_vars
    PROVE  AnswerInv'
<1>1. DOMAIN table \subseteq Nat /\ ReadWindow \in Nat /\ now \in Nat
    BY ReportsAssumption DEF TableInv
<1>2. \A v \in DOMAIN table : /\ table[v].entered \in Nat
                              /\ table[v].bill # None =>
                                  /\ table[v].bill.till \in Nat
                                  /\ table[v].entered <= table[v].bill.till
    BY DEF TableInv, Recorded, Row
<1>3. CASE UNCHANGED answer
    <2>1. TableKept
        BY TableStep
    <2>2. ASSUME answer # None
          PROVE  /\ Selected(answer.people, answer.start)'
                 /\ Selected(answer.modes, answer.start)'
                 /\ Fits(answer.people, answer.modes)'
                 /\ Fits(answer.modes, answer.hours)'
        <3>1. /\ Selected(answer.people, answer.start)
              /\ Selected(answer.modes, answer.start)
              /\ Fits(answer.people, answer.modes)
              /\ Fits(answer.modes, answer.hours)
            BY <2>2 DEF AnswerInv
        <3> QED
            BY <1>3, <2>1, <3>1 DEF TableKept, Keeps, Selected, Fits
    <2> QED
        BY <1>3, <2>2 DEF AnswerInv
<1>4. CASE Asked
    BY <1>1, <1>4 DEF Asked, AnswerInv, Part, Selected, Fits
<1>5. CASE ByPeople
    BY <1>1, <1>5 DEF ByPeople, AnswerInv, Part, Selected, Fits, Billed, Since
<1>6. CASE ByMode
    BY <1>1, <1>6 DEF ByMode, AnswerInv, Part, Selected, Fits, Billed, Since
<1>7. CASE ByHour
    BY <1>1, <1>2, <1>7 DEF ByHour, AnswerInv, Part, Selected, Fits, Billed, Since
<1>8. CASE Answered
    BY <1>8 DEF Answered, AnswerInv
<1> QED
    BY <1>3, <1>4, <1>5, <1>6, <1>7, <1>8
       DEF Next, vars, Tick, Insert, Update, Detect, Report, ReportFails

LEMMA ReportsAlways == Spec => [](TableInv /\ AnswerInv)
<1>1. Init => TableInv /\ AnswerInv
    BY DEF Init, TableInv, AnswerInv
<1>2. TableInv /\ AnswerInv /\ [Next]_vars => (TableInv /\ AnswerInv)'
    BY TableStep, AnswerStep
<1> QED
    BY <1>1, <1>2, PTL DEF Spec

\* What a salesperson sold is in the modes of payment, and what is in these is
\* in the hours, but for staff found meanwhile (db.py:222-271).
THEOREM SalesFit == Spec => []SalesNest
<1>1. AnswerInv => SalesNest
    BY DEF AnswerInv, SalesNest, Fits
<1> QED
    BY <1>1, ReportsAlways, PTL

-----------------------------------------------------------------------------
(* The median of the hours.                                                *)

LEMMA LeastNumber ==
    ASSUME NEW S \in SUBSET Nat, S # {}
    PROVE  \E n \in S : \A m \in S : n <= m
<1>1. PICK R : IsWellFoundedOn(R, Nat) /\ \A x, y \in Nat : y < x => <<y, x>> \in R
    <2>1. \A x, y \in Nat : y < x => <<y, x>> \in OpToRel(<, Nat)
        BY DEF OpToRel
    <2> QED
        BY <2>1, NatLessThanWellFounded
<1>2. PICK n \in S : \A m \in S : ~ (<<m, n>> \in R)
    <2>1. \E n \in S : \A m \in S : ~ (<<m, n>> \in R)
        BY <1>1, WFMin
    <2> QED
        BY <2>1
<1>3. ASSUME NEW m \in S PROVE n <= m
    <2>1. n \in Nat /\ m \in Nat
        OBVIOUS
    <2>2. ~ (m < n)
        BY <1>1, <1>2, <2>1
    <2> QED
        BY <2>1, <2>2
<1> QED
    BY <1>3

\* The hours with fewer visitors than k, and with k at most.
Below(counts, k) == {h \in DOMAIN counts : counts[h] < k}
AtMost(counts, k) == {h \in DOMAIN counts : counts[h] <= k}

LEMMA NthIs ==
    ASSUME NEW counts, NEW copies \in Nat \ {0}, NEW top \in Nat,
           IsFiniteSet(DOMAIN counts), \A h \in DOMAIN counts : counts[h] \in 0..top,
           NEW n \in Nat, n < copies * Cardinality(DOMAIN counts)
    PROVE  /\ Nth(counts, copies, n) \in {counts[h] : h \in DOMAIN counts}
           /\ copies * Cardinality(Below(counts, Nth(counts, copies, n))) <= n
<1> DEFINE S == {k \in Nat : n < copies * Cardinality(AtMost(counts, k))}
<1>1. \A h \in DOMAIN counts : counts[h] \in Nat
    OBVIOUS
<1>2. AtMost(counts, top) = DOMAIN counts
    BY DEF AtMost
<1>3. top \in S
    BY <1>2
<1>4. PICK k \in S : \A m \in S : k <= m
    BY <1>3, LeastNumber
<1>5. k \in Nat /\ n < copies * Cardinality(AtMost(counts, k))
    BY <1>4
<1>6. ASSUME NEW j \in Nat
      PROVE  /\ IsFiniteSet(AtMost(counts, j)) /\ Cardinality(AtMost(counts, j)) \in Nat
             /\ copies * Cardinality(AtMost(counts, j)) \in Nat
    <2>1. IsFiniteSet(AtMost(counts, j))
        BY FS_Subset DEF AtMost
    <2>2. Cardinality(AtMost(counts, j)) \in Nat
        BY <2>1, FS_CardinalityType
    <2> QED
        BY <2>1, <2>2
<1>7. copies * Cardinality(Below(counts, k)) <= n
    <2>1. CASE k = 0
        <3>1. Below(counts, k) = {}
            BY <1>1, <2>1 DEF Below
        <3>2. Cardinality(Below(counts, k)) = 0
            BY <3>1, FS_EmptySet
        <3> QED
            BY <3>2
    <2>2. CASE k # 0
        <3>1. k - 1 \in Nat /\ k - 1 \notin S
            BY <1>4, <1>5, <2>2
        <3>2. Below(counts, k) = AtMost(counts, k - 1)
            BY <1>1, <1>5 DEF Below, AtMost
        <3>3. ~ (n < copies * Cardinality(AtMost(counts, k - 1)))
            BY <3>1
        <3> QED
            BY <1>6, <3>1, <3>2, <3>3
    <2> QED
        BY <2>1, <2>2
<1>8. k \in {counts[h] : h \in DOMAIN counts}
    <2> SUFFICES ASSUME k \notin {counts[h] : h \in DOMAIN counts} PROVE FALSE
        OBVIOUS
    <2>1. AtMost(counts, k) = Below(counts, k)
        BY <1>1, <1>5 DEF AtMost, Below
    <2>2. copies * Cardinality(AtMost(counts, k)) <= n
        BY <1>7, <2>1
    <2> QED
        BY <1>5, <1>6, <2>2
<1> DEFINE P(c) == /\ copies * Cardinality({h \in DOMAIN counts : counts[h] < c}) <= n
                   /\ n < copies * Cardinality({h \in DOMAIN counts : counts[h] <= c})
<1>9. P(k)
    BY <1>5, <1>7 DEF AtMost, Below
<1>10. Nth(counts, copies, n) = CHOOSE c \in {counts[h] : h \in DOMAIN counts} : P(c)
    BY DEF Nth
<1> HIDE DEF P, S
<1>11. /\ Nth(counts, copies, n) \in {counts[h] : h \in DOMAIN counts}
       /\ P(Nth(counts, copies, n))
    BY <1>8, <1>9, <1>10
<1> QED
    BY <1>11 DEF P, Below

\* At least half of the hours have at least as many as the upper of the two
\* elements in the middle.
LEMMA HalfAbove ==
    ASSUME NEW counts, NEW copies \in Nat \ {0}, NEW top \in Nat,
           IsFiniteSet(DOMAIN counts), DOMAIN counts # {},
           \A h \in DOMAIN counts : counts[h] \in 0..top
    PROVE  \E m \in Nat : /\ TwiceMedian(counts, copies) <= 2 * m
                          /\ TwiceMedian(counts, copies) \in Nat
                          /\ 2 * Cardinality(DOMAIN counts \ Below(counts, m))
                               >= Cardinality(DOMAIN counts)
<1> DEFINE N == Cardinality(DOMAIN counts)
           last == copies * N - 1
<1>1. N \in Nat \ {0}
    BY FS_CardinalityType, FS_EmptySet
<1> HIDE DEF N
<1>2. copies * N \in Nat \ {0}
    BY <1>1
<1>3. /\ last \div 2 \in Nat /\ last \div 2 < copies * N
      /\ (last + 1) \div 2 \in Nat /\ (last + 1) \div 2 < copies * N
      /\ 2 * (last \div 2) <= copies * N
      /\ 2 * ((last + 1) \div 2) <= copies * N
    BY <1>2
<1> DEFINE i == last \div 2
           j == (last + 1) \div 2
           a == Nth(counts, copies, i)
           b == Nth(counts, copies, j)
<1>4. TwiceMedian(counts, copies) = a + b
    BY DEF TwiceMedian, N
<1> HIDE DEF last, i, j
<1>5. /\ i \in Nat /\ i < copies * N /\ 2 * i <= copies * N
      /\ j \in Nat /\ j < copies * N /\ 2 * j <= copies * N
    BY <1>3 DEF i, j
<1>6. a \in {counts[h] : h \in DOMAIN counts} /\ copies * Cardinality(Below(counts, a)) <= i
    BY <1>5, NthIs DEF N
<1>7. b \in {counts[h] : h \in DOMAIN counts} /\ copies * Cardinality(Below(counts, b)) <= j
    BY <1>5, NthIs DEF N
<1> HIDE DEF a, b
<1>8. a \in Nat /\ b \in Nat
    BY <1>6, <1>7
<1>9. ASSUME NEW m \in Nat, NEW n \in Nat, 2 * n <= copies * N,
             copies * Cardinality(Below(counts, m)) <= n
      PROVE  2 * Cardinality(DOMAIN counts \ Below(counts, m)) >= N
    <2> DEFINE low == Below(counts, m)
    <2>1. low \subseteq DOMAIN counts
        BY DEF Below
    <2> HIDE DEF low
    <2>2. /\ IsFiniteSet(low)
          /\ Cardinality(low) \in Nat
          /\ Cardinality(DOMAIN counts \ low)
               = Cardinality(DOMAIN counts) - Cardinality(DOMAIN counts \cap low)
        BY <2>1, FS_Subset, FS_CardinalityType, FS_Difference
    <2>3. DOMAIN counts \cap low = low
        BY <2>1
    <2>4. PICK x \in Nat : x = Cardinality(low)
        BY <2>2
    <2>5. 2 * (copies * x) <= copies * N
        <3>1. copies * x \in Nat /\ copies * x <= n
            BY <1>9, <2>4 DEF low
        <3> QED
            BY <1>2, <1>9, <3>1
    <2>6. 2 * x <= N
        <3>1. ASSUME 2 * x > N PROVE FALSE
            <4>1. 2 * x - N \in Nat \ {0}
                BY <1>1, <3>1
            <4>2. copies * (2 * x - N) > 0
                BY <4>1
            <4>3. copies * (2 * x - N) = 2 * (copies * x) - copies * N
                BY <1>1
            <4> QED
                BY <1>2, <2>5, <4>2, <4>3
        <3> QED
            BY <1>1, <3>1
    <2>7. Cardinality(DOMAIN counts \ low) = N - x
        BY <2>2, <2>3, <2>4 DEF N
    <2> QED
        BY <1>1, <2>6, <2>7 DEF low
<1>10. CASE a <= b
    <2>1. 2 * Cardinality(DOMAIN counts \ Below(counts, b)) >= N
        BY <1>5, <1>7, <1>8, <1>9
    <2>2. a + b <= 2 * b /\ a + b \in Nat
        BY <1>8, <1>10
    <2> QED
        BY <1>4, <1>8, <2>1, <2>2 DEF N
<1>11. CASE b <= a
    <2>1. 2 * Cardinality(DOMAIN counts \ Below(counts, a)) >= N
        BY <1>5, <1>6, <1>8, <1>9
    <2>2. a + b <= 2 * a /\ a + b \in Nat
        BY <1>8, <1>11
    <2> QED
        BY <1>4, <1>8, <2>1, <2>2 DEF N
<1> QED
    BY <1>8, <1>10, <1>11
\* Who counts for the zone, and how many of them entered in an hour.
Counted(z) == Visitors(z, now - Baseline)
InHour(z, h) == {v \in Counted(z) : Hour(table[v].entered) = h}
HoursOf(z) == {Hour(table[v].entered) : v \in Counted(z)}

LEMMA HourlyCounts ==
    ASSUME TableInv, NEW z \in Zone, DOMAIN Hourly(z) # {}
    PROVE  /\ Copies(z) \in Nat \ {0}
           /\ IsFiniteSet(DOMAIN Hourly(z)) /\ DOMAIN Hourly(z) = HoursOf(z)
           /\ Cardinality(Counted(z)) \in Nat
           /\ \A h \in HoursOf(z) : /\ Hourly(z)[h] = Cardinality(InHour(z, h))
                                    /\ Hourly(z)[h] \in 0..Cardinality(Counted(z))
<1> DEFINE who == Counted(z)
           hour == [v \in who |-> Hour(table[v].entered)]
           visited == {v \in DOMAIN table : z \in table[v].zones}
<1>1. /\ DOMAIN Hourly(z) = HoursOf(z)
      /\ \A h \in HoursOf(z) : Hourly(z)[h] = Cardinality(InHour(z, h))
    BY DEF Hourly, HoursOf, InHour, Counted
<1>2. IsFiniteSet(DOMAIN table)
    <2>1. table \in Seq(Row)
        BY DEF TableInv
    <2>2. DOMAIN table = 1..Len(table) /\ Len(table) \in Nat
        BY <2>1
    <2> QED
        BY <2>2, FS_Interval
<1>3. who \subseteq visited /\ visited \subseteq DOMAIN table
    BY DEF Counted, Visitors
<1>4. who # {}
    BY <1>1 DEF HoursOf
<1>5. hour \in Surjection(who, HoursOf(z))
    BY DEF Surjection, HoursOf
<1>6. Copies(z) = Cardinality(visited)
    BY DEF Copies
<1>7. \A h \in HoursOf(z) : InHour(z, h) \subseteq who
    BY DEF InHour
<1> HIDE DEF who, hour, visited
<1>8. IsFiniteSet(who) /\ IsFiniteSet(visited)
    BY <1>2, <1>3, FS_Subset
<1>9. IsFiniteSet(HoursOf(z))
    BY <1>5, <1>8, FS_Surjection
<1>10. Cardinality(visited) \in Nat \ {0}
    BY <1>3, <1>4, <1>8, FS_CardinalityType, FS_EmptySet
<1>11. Cardinality(who) \in Nat
    BY <1>8, FS_CardinalityType
<1>12. ASSUME NEW h \in HoursOf(z) PROVE Hourly(z)[h] \in 0..Cardinality(who)
    <2>1. /\ IsFiniteSet(InHour(z, h)) /\ Cardinality(InHour(z, h)) \in Nat
          /\ Cardinality(InHour(z, h)) <= Cardinality(who)
        BY <1>7, <1>8, FS_Subset, FS_CardinalityType
    <2> QED
        BY <1>1, <1>11, <2>1
<1> QED
    BY <1>1, <1>6, <1>9, <1>10, <1>11, <1>12 DEF who

\* What is fetched of a dead zone is quiet.
LEMMA DeadIsQuiet ==
    ASSUME TableInv, NEW z \in DeadZones
    PROVE  LET recent == Cardinality(Visitors(z, now - HourTicks))
           IN  2 * Cardinality({h \in HoursOf(z) :
                                  100 * recent < Share * Cardinality(InHour(z, h))})
                 >= Cardinality(HoursOf(z))
<1> DEFINE recent == Cardinality(Visitors(z, now - HourTicks))
           counts == Hourly(z)
           median == TwiceMedian(counts, Copies(z))
           quiet == {h \in HoursOf(z) : 100 * recent < Share * Cardinality(InHour(z, h))}
<1>1. z \in Zone /\ DOMAIN counts # {} /\ 200 * recent < Share * median
    BY DEF DeadZones
<1>2. /\ Copies(z) \in Nat \ {0}
      /\ IsFiniteSet(DOMAIN counts) /\ DOMAIN counts = HoursOf(z)
      /\ Cardinality(Counted(z)) \in Nat
      /\ \A h \in HoursOf(z) : /\ counts[h] = Cardinality(InHour(z, h))
                               /\ counts[h] \in 0..Cardinality(Counted(z))
    BY <1>1, HourlyCounts
<1>3. recent \in Nat
    <2>1. Visitors(z, now - HourTicks) \subseteq DOMAIN table
        BY DEF Visitors
    <2>2. table \in Seq(Row)
        BY DEF TableInv
    <2>3. DOMAIN table = 1..Len(table) /\ Len(table) \in Nat
        BY <2>2
    <2>4. IsFiniteSet(DOMAIN table)
        BY <2>3, FS_Interval
    <2> QED
        BY <2>1, <2>4, FS_Subset, FS_CardinalityType
<1> HIDE DEF counts, recent
<1>4. PICK m \in Nat : /\ median <= 2 * m /\ median \in Nat
                       /\ 2 * Cardinality(DOMAIN counts \ Below(counts, m))
                            >= Cardinality(DOMAIN counts)
    BY <1>1, <1>2, HalfAbove
<1> HIDE DEF median
<1>5. Share \in Nat
    BY ReportsAssumption
<1>6. ASSUME NEW k \in Nat, k >= m PROVE 100 * recent < Share * k
    <2>1. ASSUME NEW x \in Nat, NEW y \in Nat, x <= y PROVE Share * x <= Share * y
        BY <1>5, <2>1
    <2>2. /\ Share * median \in Nat /\ Share * (2 * m) \in Nat
          /\ Share * m \in Nat /\ Share * k \in Nat
        BY <1>4, <1>5
    <2>3. Share * median <= Share * (2 * m) /\ Share * m <= Share * k
        BY <1>4, <1>6, <2>1
    <2>4. Share * (2 * m) = 2 * (Share * m)
        BY <1>5
    <2> QED
        BY <1>1, <1>3, <2>2, <2>3, <2>4
<1>7. DOMAIN counts \ Below(counts, m) \subseteq quiet
    <2> SUFFICES ASSUME NEW h \in DOMAIN counts, h \notin Below(counts, m)
                 PROVE  h \in quiet
        OBVIOUS
    <2>1. counts[h] \in Nat /\ ~ (counts[h] < m)
        BY <1>2 DEF Below
    <2>2. 100 * recent < Share * counts[h]
        BY <1>6, <2>1
    <2> QED
        BY <1>2, <2>2
<1>8. quiet \subseteq HoursOf(z)
    OBVIOUS
<1> HIDE DEF quiet
<1> DEFINE rest == DOMAIN counts \ Below(counts, m)
<1>9. rest \subseteq HoursOf(z) /\ rest \subseteq quiet
    BY <1>2, <1>7
<1>10. /\ IsFiniteSet(quiet) /\ IsFiniteSet(HoursOf(z)) /\ IsFiniteSet(rest)
    BY <1>2, <1>8, <1>9, FS_Subset
<1> HIDE DEF rest
<1>11. Cardinality(rest) <= Cardinality(quiet)
    BY <1>9, <1>10, FS_Subset
<1>12. /\ Cardinality(quiet) \in Nat /\ Cardinality(rest) \in Nat
       /\ Cardinality(HoursOf(z)) \in Nat
    BY <1>10, FS_CardinalityType
<1>13. 2 * Cardinality(rest) >= Cardinality(HoursOf(z))
    BY <1>2, <1>4 DEF rest
<1>14. 2 * Cardinality(quiet) >= Cardinality(HoursOf(z))
    BY <1>11, <1>12, <1>13
<1> QED
    BY <1>14 DEF quiet, recent

\* Whatever the join does to the hours, a zone is reported dead only if in at
\* least half of the hours of the baseline in which it had visitors they were
\* so many that the last hour's are less than Share per cent of them
\* (anomalies.py:131-162).
THEOREM DeadZonesAreQuiet == Spec => QuietZone
<1> DEFINE Quiet(f) ==
             LET who == {v \in DOMAIN table : /\ ~ table[v].staff
                                              /\ f.zone \in table[v].zones
                                              /\ table[v].entered >= now - Baseline}
                 count(h) == Cardinality({v \in who : Hour(table[v].entered) = h})
                 hours == {Hour(table[v].entered) : v \in who}
             IN  2 * Cardinality({h \in hours : 100 * f.recent < Share * count(h)})
                    >= Cardinality(hours)
<1>1. ASSUME TableInv, [Next]_vars, NEW f \in found' \ found
      PROVE  Quiet(f)
    <2>1. PICK z \in DeadZones :
             f = [zone |-> z, bucket |-> Hour(now),
                  recent |-> Cardinality(Visitors(z, now - HourTicks))]
        BY <1>1 DEF Next, vars, Tick, Insert, Update, Detect, Report, ReportFails, Asked,
                    ByPeople, ByMode, ByHour, Answered
    <2>2. /\ f.zone = z
          /\ f.recent = Cardinality(Visitors(z, now - HourTicks))
        BY <2>1
    <2>3. {v \in DOMAIN table : /\ ~ table[v].staff /\ z \in table[v].zones
                                /\ table[v].entered >= now - Baseline} = Counted(z)
        BY DEF Counted, Visitors
    <2>4. 2 * Cardinality({h \in HoursOf(z) :
                             100 * f.recent < Share * Cardinality(InHour(z, h))})
            >= Cardinality(HoursOf(z))
        BY <1>1, <2>2, DeadIsQuiet
    <2> QED
        BY <2>2, <2>3, <2>4 DEF HoursOf, InHour
<1>2. TableInv /\ [Next]_vars => \A f \in found' \ found : Quiet(f)
    BY <1>1
<1> QED
    BY <1>2, ReportsAlways, PTL DEF Spec, QuietZone
=============================================================================
