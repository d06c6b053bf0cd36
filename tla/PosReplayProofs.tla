--------------------------- MODULE PosReplayProofs ---------------------------
(***************************************************************************)
(* A run of the container publishes no receipt twice, and those of a file  *)
(* in order of their times, for any files, any pace and any number of      *)
(* failures and restarts.                                                  *)
(***************************************************************************)
EXTENDS PosReplay, SequenceTheorems, FiniteSetTheorems, TLAPS

\* A receipt of the run in hand lies behind the place the run has come to.
Behind(entry) ==
    entry.run = runs =>
        \/ status = "ended"
        \/ entry.file < file
        \/ status = "replay" /\ entry.file = file /\ entry.n < next

Sent(entry) ==
    /\ entry.run \in Nat /\ entry.run <= runs
    /\ entry.file \in Nat /\ entry.n \in Nat
    /\ Behind(entry)

\* OncePerRun without the sets it is stated with.
AllDistinct ==
    \A i, j \in DOMAIN published :
        /\ published[i].run = published[j].run
        /\ published[i].file = published[j].file
        /\ published[i].n = published[j].n
        => i = j

PlaceInv ==
    /\ runs \in Nat /\ file \in Nat /\ next \in Nat
    /\ \E S : published \in Seq(S)
    /\ \A i \in DOMAIN published : Sent(published[i])
    /\ AllDistinct

\* What one more element does to a sequence.
LEMMA Appended ==
    ASSUME NEW S, NEW seq \in Seq(S), NEW e
    PROVE  /\ Append(seq, e) \in Seq(S \cup {e})
           /\ DOMAIN Append(seq, e) = DOMAIN seq \cup {Len(seq) + 1}
           /\ Len(seq) + 1 \notin DOMAIN seq
           /\ Append(seq, e)[Len(seq) + 1] = e
           /\ \A i \in DOMAIN seq : Append(seq, e)[i] = seq[i]
<1>1. seq \in Seq(S \cup {e})
    OBVIOUS
<1> QED
    BY <1>1, AppendProperties

LEMMA PublishKeepsPlace ==
    ASSUME PlaceInv, Publish
    PROVE  PlaceInv'
<1>1. PICK e : /\ e.run = runs /\ e.file = file /\ e.n = next
               /\ published' = Append(published, e)
    BY DEF Publish
<1>2. /\ status = "replay" /\ runs' = runs
      /\ \/ next' = next + 1 /\ file' = file /\ status' = "replay"
         \/ next' = 1 /\ file' = file + 1 /\ status' = "parse"
    BY DEF Publish, NextFile
<1>3. runs \in Nat /\ file \in Nat /\ next \in Nat
    BY DEF PlaceInv
<1>4. /\ \E S : published' \in Seq(S)
      /\ \E last : /\ DOMAIN published' = DOMAIN published \cup {last}
                   /\ last \notin DOMAIN published /\ published'[last] = e
      /\ \A i \in DOMAIN published : published'[i] = published[i]
    <2>1. PICK S : published \in Seq(S)
        BY DEF PlaceInv
    <2>2. /\ Append(published, e) \in Seq(S \cup {e})
          /\ DOMAIN Append(published, e) = DOMAIN published \cup {Len(published) + 1}
          /\ Len(published) + 1 \notin DOMAIN published
          /\ Append(published, e)[Len(published) + 1] = e
          /\ \A i \in DOMAIN published : Append(published, e)[i] = published[i]
        BY <2>1, Appended
    <2> QED
        BY <1>1, <2>2
<1>5. \A i \in DOMAIN published : Sent(published[i])
    BY DEF PlaceInv
<1>6. Sent(e)'
    BY <1>1, <1>2, <1>3 DEF Sent, Behind
<1>7. ASSUME NEW i \in DOMAIN published'
      PROVE  Sent(published[i])'
    <2>1. CASE i \in DOMAIN published
        <3>1. published'[i] = published[i] /\ Sent(published[i])
            BY <1>4, <1>5, <2>1
        <3> QED
            BY <1>2, <1>3, <3>1 DEF Sent, Behind
    <2>2. CASE i \notin DOMAIN published
        <3>1. published'[i] = e
            BY <1>4, <1>7, <2>2
        <3> QED
            BY <1>6, <3>1 DEF Sent, Behind
    <2> QED
        BY <2>1, <2>2
<1>8. ASSUME NEW i \in DOMAIN published
      PROVE  ~ (/\ published[i].run = e.run
                /\ published[i].file = e.file
                /\ published[i].n = e.n)
    BY <1>1, <1>2, <1>3, <1>5 DEF Sent, Behind
<1>9. AllDistinct'
    BY <1>4, <1>8 DEF AllDistinct, PlaceInv
<1> QED
    BY <1>1, <1>2, <1>4, <1>7, <1>9 DEF PlaceInv

\* Every other step moves on without a receipt.
LEMMA OthersKeepPlace ==
    ASSUME PlaceInv, UNCHANGED published,
           runs' \in Nat, file' \in Nat, next' \in Nat,
           \/ UNCHANGED <<runs, file, next, status>>
           \/ UNCHANGED runs /\ status' = "ended"
           \/ UNCHANGED runs /\ status \in {"parse", "replay"} /\ file' > file
           \/ UNCHANGED <<runs, file>> /\ status = "parse"
           \/ runs' > runs
    PROVE  PlaceInv'
<1>1. AllDistinct'
    BY DEF PlaceInv, AllDistinct
<1>2. ASSUME NEW i \in DOMAIN published PROVE Sent(published[i])'
    BY DEF PlaceInv, Sent, Behind
<1> QED
    BY <1>1, <1>2 DEF PlaceInv

LEMMA PlaceStep == PlaceInv /\ [Next]_vars => PlaceInv'
<1> SUFFICES ASSUME PlaceInv, [Next]_vars PROVE PlaceInv'
    OBVIOUS
<1>1. runs \in Nat /\ file \in Nat /\ next \in Nat
    BY DEF PlaceInv
<1>2. CASE Publish
    BY <1>2, PublishKeepsPlace
<1>3. CASE Tick \/ UNCHANGED vars
    BY <1>1, <1>3, OthersKeepPlace DEF Tick, vars
<1>4. CASE SkipFile \/ PublishFails
    BY <1>1, <1>4, OthersKeepPlace DEF SkipFile, PublishFails, NextFile
<1>5. CASE OpenFile
    BY <1>1, <1>5, OthersKeepPlace DEF OpenFile
<1>6. CASE Stop \/ End
    BY <1>1, <1>6, OthersKeepPlace DEF Stop, End
<1>7. CASE Restart
    BY <1>1, <1>7, OthersKeepPlace DEF Restart
<1> QED
    BY <1>2, <1>3, <1>4, <1>5, <1>6, <1>7 DEF Next

\* A receipt is published once in a run of the container, whatever fails in
\* between (csv_replay.py:123-140, 169-180).
THEOREM PublishedOnce == Spec => []OncePerRun
<1>1. Init => PlaceInv
    <2>1. <<>> \in Seq({})
        OBVIOUS
    <2> QED
        BY <2>1 DEF Init, PlaceInv, AllDistinct
<1>2. PlaceInv /\ [Next]_vars => PlaceInv'
    BY PlaceStep
<1>3. PlaceInv => OncePerRun
    BY DEF PlaceInv, AllDistinct, OncePerRun, Of
<1> QED
    BY <1>1, <1>2, <1>3, PTL DEF Spec

-----------------------------------------------------------------------------
(* Sorting the rows of a file.                                             *)

\* How many usable rows come before row i.
Place(csv, i) == Cardinality({j \in Usable(csv) : Before(csv, j, i)})

\* The rows that are kept are rows, finitely many, with a time.
LEMMA UsableRows ==
    ASSUME NEW csv \in Seq(Row)
    PROVE  /\ Usable(csv) \subseteq DOMAIN csv /\ Usable(csv) \subseteq Nat
           /\ IsFiniteSet(Usable(csv)) /\ Cardinality(Usable(csv)) \in Nat
           /\ \A i \in Usable(csv) : csv[i] \in Row /\ csv[i].ts \in Nat
<1>1. Usable(csv) \subseteq DOMAIN csv /\ DOMAIN csv = 1..Len(csv) /\ Len(csv) \in Nat
    BY DEF Usable
<1>2. IsFiniteSet(1..Len(csv))
    BY <1>1, FS_Interval
<1>3. IsFiniteSet(Usable(csv))
    BY <1>1, <1>2, FS_Subset
<1>4. Cardinality(Usable(csv)) \in Nat
    BY <1>3, FS_CardinalityType
<1>5. \A i \in Usable(csv) : csv[i] \in Row /\ csv[i].ts # None
    BY DEF Usable
<1>6. \A row \in Row : row.ts # None => row.ts \in Nat
    BY DEF Row
<1> QED
    BY <1>1, <1>3, <1>4, <1>5, <1>6

\* An earlier row has a lower place.
LEMMA PlacesRise ==
    ASSUME NEW csv \in Seq(Row), NEW i \in Usable(csv), NEW j \in Usable(csv),
           Before(csv, i, j)
    PROVE  Place(csv, i) < Place(csv, j)
<1> DEFINE below(n) == {k \in Usable(csv) : Before(csv, k, n)}
<1>1. i \in Nat /\ j \in Nat /\ csv[i].ts \in Nat /\ csv[j].ts \in Nat
    BY UsableRows
<1>2. i \in below(j) /\ i \notin below(i)
    BY <1>1 DEF Before
<1>3. below(i) \subseteq below(j)
    BY <1>1, UsableRows DEF Before
<1>4. IsFiniteSet(below(j)) /\ IsFiniteSet(below(i))
    BY UsableRows, FS_Subset
<1>5. /\ Cardinality(below(i)) \in Nat /\ Cardinality(below(j)) \in Nat
      /\ Cardinality(below(i)) <= Cardinality(below(j))
      /\ Cardinality(below(i)) = Cardinality(below(j)) => below(i) = below(j)
    BY <1>3, <1>4, FS_Subset, FS_CardinalityType
<1>6. Place(csv, i) = Cardinality(below(i)) /\ Place(csv, j) = Cardinality(below(j))
    BY DEF Place
<1> HIDE DEF below
<1> QED
    BY <1>2, <1>5, <1>6

\* The places of the usable rows are the numbers from 0 on, one each.
LEMMA PlacesTaken ==
    ASSUME NEW csv \in Seq(Row)
    PROVE  \A n \in 1..Cardinality(Usable(csv)) :
             \E i \in Usable(csv) : Place(csv, i) = n - 1
<1> DEFINE U == Usable(csv)
           N == Cardinality(U)
           f == [i \in U |-> Place(csv, i)]
<1>1. IsFiniteSet(U) /\ N \in Nat /\ U \subseteq Nat
    BY UsableRows
<1>2. ASSUME NEW i \in U PROVE Place(csv, i) \in 0..(N - 1)
    <2> DEFINE below == {k \in U : Before(csv, k, i)}
    <2>1. i \notin below
        BY <1>2, UsableRows DEF Before
    <2>2. IsFiniteSet(below) /\ Cardinality(below) \in Nat
        BY <1>1, FS_Subset, FS_CardinalityType
    <2>3. Cardinality(below) <= N /\ Cardinality(below) # N
        BY <1>1, <2>1, FS_Subset
    <2> HIDE DEF below, N
    <2> QED
        BY <1>1, <2>2, <2>3 DEF Place, below
<1>3. ASSUME NEW i \in U, NEW j \in U, i # j PROVE Place(csv, i) # Place(csv, j)
    <2>1. i \in Nat /\ j \in Nat /\ csv[i].ts \in Nat /\ csv[j].ts \in Nat
        BY <1>3, UsableRows
    <2>2. Before(csv, i, j) \/ Before(csv, j, i)
        BY <1>3, <2>1 DEF Before
    <2>3. Place(csv, i) < Place(csv, j) \/ Place(csv, j) < Place(csv, i)
        BY <1>3, <2>2, PlacesRise
    <2>4. Place(csv, i) \in 0..(N - 1) /\ Place(csv, j) \in 0..(N - 1)
        BY <1>2, <1>3
    <2> QED
        BY <2>3, <2>4
<1>4. f \in Injection(U, 0..(N - 1))
    BY <1>2, <1>3 DEF Injection, IsInjective
<1>5. IsFiniteSet(0..(N - 1)) /\ Cardinality(0..(N - 1)) = N
    <2> HIDE DEF N
    <2>1. N - 1 \in Int /\ (IF 0 > N - 1 THEN 0 ELSE (N - 1) - 0 + 1) = N
        BY <1>1
    <2> QED
        BY <2>1, FS_Interval
<1>6. f \in Surjection(U, 0..(N - 1))
    BY <1>1, <1>4, <1>5, FS_Injection
<1>7. \A p \in 0..(N - 1) : \E i \in U : f[i] = p
    BY <1>6 DEF Surjection
<1>8. \A n \in 1..N : n - 1 \in 0..(N - 1)
    BY <1>1
<1> QED
    BY <1>7, <1>8

\* The row that comes nth.
Picked(csv, n) == CHOOSE i \in Usable(csv) : Place(csv, i) = n - 1

LEMMA PickedRows ==
    ASSUME NEW csv \in Seq(Row), NEW n \in 1..Cardinality(Usable(csv))
    PROVE  /\ Picked(csv, n) \in Usable(csv) /\ Place(csv, Picked(csv, n)) = n - 1
           /\ ParseCsv(csv)[n] = csv[Picked(csv, n)]
<1>1. \E i \in Usable(csv) : Place(csv, i) = n - 1
    BY PlacesTaken
<1>2. Picked(csv, n) \in Usable(csv) /\ Place(csv, Picked(csv, n)) = n - 1
    BY <1>1 DEF Picked
<1>3. ParseCsv(csv)[n] = csv[Picked(csv, n)]
    BY DEF ParseCsv, Picked, Place
<1> QED
    BY <1>2, <1>3

\* parse_csv keeps every usable row of a file, each at one place, and sorts
\* them by time (csv_replay.py:44-104).
THEOREM ParsedInOrder ==
    ASSUME NEW csv \in Seq(Row)
    PROVE  /\ ParseCsv(csv) \in Seq(Row)
           /\ Len(ParseCsv(csv)) = Cardinality(Usable(csv))
           /\ \A i \in Usable(csv) : \E n \in DOMAIN ParseCsv(csv) :
                Picked(csv, n) = i /\ ParseCsv(csv)[n] = csv[i]
           /\ \A m, n \in DOMAIN ParseCsv(csv) : m < n =>
                /\ Picked(csv, m) # Picked(csv, n)
                /\ ParseCsv(csv)[m].ts <= ParseCsv(csv)[n].ts
<1> DEFINE N == Cardinality(Usable(csv))
           p == ParseCsv(csv)
<1>1. N \in Nat
    BY UsableRows
<1>2. \A n \in 1..N : p[n] \in Row
    BY PickedRows, UsableRows
<1>3. DOMAIN p = 1..N
    BY DEF ParseCsv
<1>4. p \in Seq(Row) /\ Len(p) = N
    <2>1. p = [n \in 1..N |-> p[n]]
        BY DEF ParseCsv
    <2>2. p \in [1..N -> Row]
        BY <1>2, <2>1
    <2> QED
        BY <1>1, <2>2, SeqDef
<1> HIDE DEF p
<1>5. ASSUME NEW i \in Usable(csv)
      PROVE  \E n \in 1..N : Picked(csv, n) = i
    <2>1. PICK n \in 1..N : Place(csv, i) = n - 1
        <3> DEFINE below == {k \in Usable(csv) : Before(csv, k, i)}
        <3>1. i \notin below
            BY UsableRows DEF Before
        <3>2. IsFiniteSet(below) /\ Cardinality(below) \in Nat
            BY UsableRows, FS_Subset, FS_CardinalityType
        <3>3. Cardinality(below) <= N /\ Cardinality(below) # N
            BY UsableRows, <3>1, FS_Subset
        <3> HIDE DEF below, N
        <3>4. Place(csv, i) + 1 \in 1..N /\ Place(csv, i) = (Place(csv, i) + 1) - 1
            BY <1>1, <3>2, <3>3 DEF Place, below
        <3> QED
            BY <3>4
    <2>2. Picked(csv, n) \in Usable(csv) /\ Place(csv, Picked(csv, n)) = Place(csv, i)
        BY <2>1, PickedRows
    <2> DEFINE k == Picked(csv, n)
    <2>3. /\ k \in Nat /\ i \in Nat /\ csv[k].ts \in Nat /\ csv[i].ts \in Nat
        BY <2>2, UsableRows
    <2>4. ~ (Place(csv, k) < Place(csv, i)) /\ ~ (Place(csv, i) < Place(csv, k))
        BY <1>1, <2>1, <2>2
    <2>5. ~ Before(csv, k, i) /\ ~ Before(csv, i, k)
        BY <2>2, <2>4, PlacesRise
    <2>6. k = i
        BY <2>3, <2>5 DEF Before
    <2> QED
        BY <2>6
<1>6. ASSUME NEW m \in 1..N, NEW n \in 1..N, m < n
      PROVE  Picked(csv, m) # Picked(csv, n) /\ p[m].ts <= p[n].ts
    <2> DEFINE i == Picked(csv, m)
               j == Picked(csv, n)
    <2>1. /\ i \in Usable(csv) /\ j \in Usable(csv)
          /\ Place(csv, i) = m - 1 /\ Place(csv, j) = n - 1
          /\ p[m] = csv[i] /\ p[n] = csv[j]
        BY <1>6, PickedRows DEF p
    <2> HIDE DEF i, j
    <2>2. /\ csv[i].ts \in Nat /\ csv[j].ts \in Nat /\ m \in Nat /\ n \in Nat
        BY <1>1, <2>1, UsableRows
    <2>3. ~ Before(csv, j, i)
        BY <1>6, <2>1, <2>2, PlacesRise
    <2> QED
        BY <1>6, <2>1, <2>2, <2>3 DEF Before, i, j
<1>7. \A n \in 1..N : p[n] = csv[Picked(csv, n)]
    BY PickedRows DEF p
<1> QED
    BY <1>3, <1>4, <1>5, <1>6, <1>7 DEF p

-----------------------------------------------------------------------------
(* The receipts of one replay.                                             *)

\* A receipt sent is a row of its file, at its place, stamped in the past.
Stamped(entry) ==
    /\ entry \in [run : Nat, file : Nat, n : Nat, row : Row, ts : Nat]
    /\ entry.run \in 1..runs /\ entry.file \in DOMAIN Files
    /\ entry.n \in 1..Len(ParseCsv(Files[entry.file]))
    /\ entry.row = ParseCsv(Files[entry.file])[entry.n]
    /\ entry.ts \in 0..now

\* OrderKept of two receipts.
Ordered(a, b) == a.run = b.run /\ a.file = b.file => a.row.ts <= b.row.ts /\ a.ts <= b.ts

\* The rows in hand are those of the file in hand, while the task runs.
TaskInv ==
    /\ now \in Nat /\ start \in 0..now /\ runs \in 1..MaxRuns
    /\ file \in 1..(Len(Files) + 1)
    /\ status \in {"parse", "replay", "ended"}
    /\ status # "replay" => rows = <<>> /\ next = 1
    /\ status = "replay" =>
         /\ file \in DOMAIN Files /\ rows = ParseCsv(Files[file])
         /\ next \in DOMAIN rows

OrderInv ==
    /\ \A i \in DOMAIN published : Stamped(published[i])
    /\ \A i, j \in DOMAIN published : i < j => Ordered(published[i], published[j])

\* A file's rows when it is parsed.
LEMMA FileRows ==
    ASSUME NEW f \in DOMAIN Files
    PROVE  /\ ParseCsv(Files[f]) \in Seq(Row)
           /\ Len(ParseCsv(Files[f])) = Cardinality(Usable(Files[f]))
           /\ Len(ParseCsv(Files[f])) \in Nat
           /\ DOMAIN ParseCsv(Files[f]) = 1..Len(ParseCsv(Files[f]))
           /\ \A n \in DOMAIN ParseCsv(Files[f]) : ParseCsv(Files[f])[n].ts \in Nat
           /\ \A m, n \in DOMAIN ParseCsv(Files[f]) :
                m < n => ParseCsv(Files[f])[m].ts <= ParseCsv(Files[f])[n].ts
<1> DEFINE csv == Files[f]
           p == ParseCsv(csv)
<1>1. csv \in Seq(Row)
    BY PosAssumption
<1> HIDE DEF csv
<1>2. /\ p \in Seq(Row) /\ Len(p) = Cardinality(Usable(csv))
      /\ \A m, n \in DOMAIN p : m < n => p[m].ts <= p[n].ts
    BY <1>1, ParsedInOrder
<1>3. \A n \in 1..Cardinality(Usable(csv)) : p[n].ts \in Nat
    BY <1>1, PickedRows, UsableRows
<1> HIDE DEF p
<1>4. Len(p) \in Nat /\ DOMAIN p = 1..Len(p)
    BY <1>2
<1> QED
    BY <1>2, <1>3, <1>4 DEF p, csv

LEMMA TaskStep ==
    ASSUME TaskInv, [Next]_vars
    PROVE  /\ TaskInv' /\ now <= now' /\ runs <= runs' /\ runs' \in Nat /\ now' \in Nat
<1>1. /\ now \in Nat /\ runs \in Nat /\ MaxRuns \in Nat /\ Len(Files) \in Nat
      /\ DOMAIN Files = 1..Len(Files) /\ file \in Nat
    BY PosAssumption DEF TaskInv
<1>2. CASE Tick
    BY <1>1, <1>2 DEF Tick, TaskInv
<1>3. CASE SkipFile \/ End
    BY <1>1, <1>3 DEF SkipFile, End, TaskInv
<1>4. CASE OpenFile
    <2>1. file \in DOMAIN Files /\ Files[file] \in Seq(Row)
        BY <1>4, PosAssumption DEF OpenFile
    <2>2. Cardinality(Usable(Files[file])) # 0 /\ Cardinality(Usable(Files[file])) \in Nat
        BY <1>4, <2>1, UsableRows, FS_EmptySet DEF OpenFile
    <2>3. 1 \in DOMAIN ParseCsv(Files[file])
        BY <2>1, <2>2, FileRows
    <2> QED
        BY <1>1, <1>4, <2>1, <2>3 DEF OpenFile, TaskInv
<1>5. CASE Publish
    <2>1. /\ status = "replay" /\ file \in DOMAIN Files /\ rows = ParseCsv(Files[file])
          /\ next \in DOMAIN rows
        BY <1>5 DEF Publish, TaskInv
    <2>2. DOMAIN rows = 1..Len(rows) /\ Len(rows) \in Nat
        BY <2>1, FileRows
    <2>3. CASE next < Len(rows)
        <3>1. next + 1 \in DOMAIN rows
            BY <2>1, <2>2, <2>3
        <3> QED
            BY <1>1, <1>5, <2>1, <2>3, <3>1 DEF Publish, TaskInv
    <2>4. CASE ~ (next < Len(rows))
        BY <1>1, <1>5, <2>1, <2>4 DEF Publish, NextFile, TaskInv
    <2> QED
        BY <2>3, <2>4
<1>6. CASE PublishFails
    BY <1>1, <1>6 DEF PublishFails, NextFile, TaskInv
<1>7. CASE Stop
    BY <1>1, <1>7 DEF Stop, TaskInv
<1>8. CASE Restart
    BY <1>1, <1>8 DEF Restart, TaskInv
<1>9. CASE UNCHANGED vars
    BY <1>1, <1>9 DEF vars, TaskInv
<1> QED
    BY <1>2, <1>3, <1>4, <1>5, <1>6, <1>7, <1>8, <1>9 DEF Next

LEMMA OrderStep ==
    ASSUME TaskInv, PlaceInv, OrderInv, [Next]_vars
    PROVE  OrderInv'
<1>1. /\ now \in Nat /\ runs \in Nat /\ now <= now' /\ runs <= runs'
      /\ now' \in Nat /\ runs' \in Nat
    BY TaskStep DEF TaskInv
<1>2. \A e : Stamped(e) => Stamped(e)'
    BY <1>1 DEF Stamped
<1>3. CASE UNCHANGED published
    BY <1>2, <1>3 DEF OrderInv, Ordered
<1>4. CASE Publish
    <2> DEFINE e == [run |-> runs, file |-> file, n |-> next, row |-> rows[next], ts |-> now]
    <2>1. published' = Append(published, e)
        BY <1>4 DEF Publish
    <2>2. /\ status = "replay" /\ file \in DOMAIN Files /\ rows = ParseCsv(Files[file])
          /\ next \in DOMAIN rows /\ next \in Nat
        BY <1>4 DEF Publish, TaskInv, PlaceInv
    <2>3. Stamped(e)
        <3>1. next \in 1..Len(ParseCsv(Files[file])) /\ rows[next] \in Row
            BY <2>2, FileRows
        <3>2. file \in Nat
            BY DEF TaskInv
        <3> QED
            BY <1>1, <2>2, <3>1, <3>2 DEF Stamped, TaskInv
    <2>4. e.run = runs /\ e.file = file /\ e.n = next /\ e.row = rows[next] /\ e.ts = now
        OBVIOUS
    <2> HIDE DEF e
    <2>5. ASSUME NEW i \in DOMAIN published PROVE Ordered(published[i], e)
        <3> DEFINE d == published[i]
        <3>1. Stamped(d) /\ Sent(d)
            BY DEF OrderInv, PlaceInv
        <3> HIDE DEF d
        <3> SUFFICES ASSUME d.run = runs, d.file = file
                     PROVE  d.row.ts <= e.row.ts /\ d.ts <= e.ts
            BY <2>4 DEF Ordered, d
        <3>2. d.n < next
            BY <2>2, <3>1 DEF Sent, Behind, PlaceInv
        <3>3. d.n \in DOMAIN rows /\ d.row = rows[d.n] /\ d.ts \in 0..now
            BY <2>2, <3>1, FileRows DEF Stamped
        <3>4. d.row.ts <= e.row.ts
            BY <2>2, <2>4, <3>2, <3>3, FileRows
        <3> QED
            BY <1>1, <2>4, <3>3, <3>4
    <2>6. PICK S : published \in Seq(S)
        BY DEF PlaceInv
    <2>7. /\ DOMAIN published' = DOMAIN published \cup {Len(published) + 1}
          /\ published'[Len(published) + 1] = e
          /\ \A i \in DOMAIN published : published'[i] = published[i]
          /\ Len(published) \in Nat /\ DOMAIN published = 1..Len(published)
        BY <2>1, <2>6, Appended
    <2>8. ASSUME NEW i \in DOMAIN published' PROVE Stamped(published[i])'
        <3>1. published'[i] = e \/ (i \in DOMAIN published /\ published'[i] = published[i])
            BY <2>7
        <3>2. Stamped(published'[i])
            BY <2>3, <3>1 DEF OrderInv
        <3> QED
            BY <1>1, <3>2 DEF Stamped
    <2>9. ASSUME NEW i \in DOMAIN published', NEW j \in DOMAIN published', i < j
          PROVE  Ordered(published'[i], published'[j])
        <3>1. i \in DOMAIN published /\ published'[i] = published[i]
            BY <2>7, <2>9
        <3>2. CASE j \in DOMAIN published
            BY <2>7, <2>9, <3>1, <3>2 DEF OrderInv
        <3>3. CASE j = Len(published) + 1
            BY <2>5, <2>7, <3>1, <3>3
        <3> QED
            BY <2>7, <3>2, <3>3
    <2> QED
        BY <2>8, <2>9 DEF OrderInv, Ordered
<1> QED
    BY <1>3, <1>4 DEF Next, vars, Tick, SkipFile, OpenFile, PublishFails, Stop, End, Restart

LEMMA OrderAlways == Spec => [](TaskInv /\ PlaceInv /\ OrderInv)
<1>1. Init => PlaceInv
    <2>1. <<>> \in Seq({})
        OBVIOUS
    <2> QED
        BY <2>1 DEF Init, PlaceInv, AllDistinct
<1>2. Init => TaskInv /\ OrderInv
    BY PosAssumption DEF Init, TaskInv, OrderInv
<1>3. TaskInv /\ PlaceInv /\ OrderInv /\ [Next]_vars => (TaskInv /\ PlaceInv /\ OrderInv)'
    BY TaskStep, PlaceStep, OrderStep
<1> QED
    BY <1>1, <1>2, <1>3, PTL DEF Spec

\* In one replay of a file, receipts go out in order of their times, and their
\* stamps rise, whatever was out of order in the file (csv_replay.py:112, 123-140).
THEOREM ReplayedInOrder == Spec => []OrderKept
<1>1. OrderInv => OrderKept
    BY DEF OrderInv, Ordered, OrderKept, Of
<1> QED
    BY <1>1, OrderAlways, PTL

\* What the task holds and what it has sent: rows of the file in hand while it
\* replays and none otherwise, receipts stamped in the past (csv_replay.py:116-180).
THEOREM ReplayTypes == Spec => []TypeOK
<1>1. ASSUME TaskInv, PlaceInv, OrderInv PROVE TypeOK
    <2>1. rows \in Seq(Row) /\ next \in 1..(Len(rows) + 1) /\ (status = "replay" <=> rows # <<>>)
        <3>1. CASE status = "replay"
            <4>1. /\ rows \in Seq(Row) /\ DOMAIN rows = 1..Len(rows) /\ Len(rows) \in Nat
                  /\ next \in DOMAIN rows
                BY <1>1, <3>1, FileRows DEF TaskInv
            <4> QED
                BY <3>1, <4>1
        <3>2. CASE status # "replay"
            <4>1. rows = <<>> /\ next = 1
                BY <1>1, <3>2 DEF TaskInv
            <4> QED
                BY <3>2, <4>1
        <3> QED
            BY <3>1, <3>2
    <2> DEFINE Receipt == [run : 1..runs, file : DOMAIN Files, n : Nat, row : Row, ts : 0..now]
    <2>2. published \in Seq(Receipt)
        <3>1. ASSUME NEW i \in DOMAIN published PROVE published[i] \in Receipt
            BY <1>1 DEF OrderInv, Stamped
        <3>2. PICK S : published \in Seq(S)
            BY <1>1 DEF PlaceInv
        <3> HIDE DEF Receipt
        <3>3. Len(published) \in Nat /\ published \in [1..Len(published) -> Receipt]
            BY <3>1, <3>2
        <3> QED
            BY <3>3, SeqDef
    <2> QED
        BY <1>1, <2>1, <2>2 DEF TaskInv, TypeOK
<1> QED
    BY <1>1, OrderAlways, PTL
=============================================================================
