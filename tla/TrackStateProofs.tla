-------------------------- MODULE TrackStateProofs --------------------------
(***************************************************************************)
(* Zones, stays and dwell, for any number of tracks and zones and any      *)
(* spacing of the frames.                                                  *)
(***************************************************************************)
EXTENDS TrackState, SequenceTheorems, FiniteSetTheorems, WellFoundedInduction, TLAPS

-----------------------------------------------------------------------------
(* Sequences and sums.  What the recursive functions of the community      *)
(* modules compute is proved by their least counterexample.                *)

\* Every set of numbers has a least element.
LEMMA LeastNumber ==
    ASSUME NEW S \in SUBSET Nat, S # {}
    PROVE  \E n \in S : \A m \in S : n <= m
<1>1. PICK R : IsWellFoundedOn(R, Nat) /\ \A x, y \in Nat : y < x => <<y, x>> \in R
    <2>1. \A x, y \in Nat : y < x => <<y, x>> \in OpToRel(<, Nat)
        BY DEF OpToRel
    <2> QED
        BY <2>1, NatLessThanWellFounded
<1>2. PICK n \in S : \A m \in S : ~ (<<m, n>> \in R)
    <2>1. \E n \in S : \A m \in S : ~ (<<m, n>> \in R)
        BY <1>1, WFMin
    <2> QED
        BY <2>1
<1>3. ASSUME NEW m \in S PROVE n <= m
    <2>1. n \in Nat /\ m \in Nat
        OBVIOUS
    <2>2. ~ (m < n)
        BY <1>1, <1>2, <2>1
    <2> QED
        BY <2>1, <2>2
<1> QED
    BY <1>3

\* A set of numbers that has 1 and the successor of what it has.
LEMMA UpTo ==
    ASSUME NEW n \in Nat, NEW S, n >= 1, 1 \in S,
           \A i \in 1..(n - 1) : i \in S => i + 1 \in S
    PROVE  \A i \in 1..n : i \in S
<1> DEFINE Missing == {i \in 1..n : i \notin S}
<1> SUFFICES ASSUME Missing # {} PROVE FALSE
    OBVIOUS
<1>1. Missing \in SUBSET Nat
    OBVIOUS
<1>2. PICK i \in Missing : \A j \in Missing : i <= j
    BY <1>1, LeastNumber
<1>3. i \in 1..n /\ i # 1 /\ i \notin S
    BY <1>2
<1>4. i - 1 \in 1..(n - 1) /\ i - 1 \notin Missing
    BY <1>2, <1>3
<1>5. i - 1 \in S
    BY <1>4
<1> QED
    BY <1>3, <1>4, <1>5

\* flatten, as far as the n-th part.
Flattens(g, seqs, n) ==
    g = [i \in 1..n |-> IF i = 1 THEN seqs[i] ELSE g[i - 1] \o seqs[i]]

LEMMA FlattenSeqIs ==
    ASSUME NEW seqs, Len(seqs) \in Nat, Len(seqs) # 0
    PROVE  \E g : Flattens(g, seqs, Len(seqs)) /\ FlattenSeq(seqs) = g[Len(seqs)]
<1> DEFINE n == Len(seqs)
           S == {m \in 1..n : \E g : Flattens(g, seqs, m)}
<1>1. 1 \in S
    <2>1. Flattens([i \in 1..1 |-> seqs[i]], seqs, 1)
        BY DEF Flattens
    <2> QED
        BY <2>1
<1>2. ASSUME NEW m \in 1..(n - 1), m \in S PROVE m + 1 \in S
    <2>1. PICK g : Flattens(g, seqs, m)
        BY <1>2
    <2> DEFINE h == [i \in 1..(m + 1) |-> IF i = 1 THEN seqs[i] ELSE g[i - 1] \o seqs[i]]
    <2>2. \A i \in 1..m : g[i] = IF i = 1 THEN seqs[i] ELSE g[i - 1] \o seqs[i]
        BY <2>1 DEF Flattens
    <2>3. \A i \in 1..m : h[i] = g[i]
        BY <2>2
    <2>4. ASSUME NEW i \in 1..(m + 1), i # 1 PROVE h[i - 1] = g[i - 1]
        <3>1. i - 1 \in 1..m
            BY <2>4
        <3> HIDE DEF h
        <3> QED
            BY <2>3, <3>1
    <2>5. h = [i \in 1..(m + 1) |-> IF i = 1 THEN seqs[i] ELSE h[i - 1] \o seqs[i]]
        BY <2>4
    <2> HIDE DEF h
    <2>6. Flattens(h, seqs, m + 1)
        BY <2>5 DEF Flattens
    <2>7. m + 1 \in 1..n
        OBVIOUS
    <2> QED
        BY <2>6, <2>7
<1>3. n \in S
    <2> HIDE DEF S
    <2>1. n \in Nat /\ n >= 1
        OBVIOUS
    <2>2. \A i \in 1..n : i \in S
        BY <1>1, <1>2, <2>1, UpTo
    <2> QED
        BY <2>1, <2>2
<1>4. FlattenSeq(seqs) = (CHOOSE g : Flattens(g, seqs, n))[n]
    BY DEF FlattenSeq, Flattens
<1>5. \E g : Flattens(g, seqs, n)
    BY <1>3
<1> QED
    BY <1>4, <1>5

\* What is in no part is not in the whole.
LEMMA FlattenedNone ==
    ASSUME NEW S, NEW seqs \in Seq(Seq(S)), NEW Q,
           \A i \in DOMAIN seqs : \A j \in DOMAIN seqs[i] : seqs[i][j] \notin Q
    PROVE  /\ FlattenSeq(seqs) \in Seq(S)
           /\ \A k \in DOMAIN FlattenSeq(seqs) : FlattenSeq(seqs)[k] \notin Q
<1> DEFINE n == Len(seqs)
<1>1. CASE n = 0
    <2>1. FlattenSeq(seqs) = seqs
        BY <1>1 DEF FlattenSeq
    <2>2. seqs = <<>>
        BY <1>1
    <2>3. seqs \in Seq(S) /\ DOMAIN seqs = {}
        BY <2>2
    <2> QED
        BY <2>1, <2>3
<1>2. CASE n # 0
    <2>0. n \in Nat /\ n >= 1 /\ DOMAIN seqs = 1..n
        BY <1>2
    <2>1. PICK g : Flattens(g, seqs, n) /\ FlattenSeq(seqs) = g[n]
        BY <1>2, FlattenSeqIs
    <2>2. \A i \in 1..n : g[i] = IF i = 1 THEN seqs[i] ELSE g[i - 1] \o seqs[i]
        BY <2>1 DEF Flattens
    <2> DEFINE Good == {s \in Seq(S) : \A k \in DOMAIN s : s[k] \notin Q}
               T == {i \in 1..n : g[i] \in Good}
    <2>3. \A i \in 1..n : seqs[i] \in Good
        BY <2>0
    <2>4. ASSUME NEW s \in Good, NEW t \in Good PROVE s \o t \in Good
        <3>1. s \in Seq(S) /\ t \in Seq(S) /\ s \o t \in Seq(S)
            OBVIOUS
        <3>2. ASSUME NEW k \in DOMAIN (s \o t) PROVE (s \o t)[k] \notin Q
            <4>1. k \in 1..(Len(s) + Len(t)) /\ Len(s) \in Nat /\ Len(t) \in Nat
                BY <3>1, <3>2
            <4>2. CASE k \in 1..Len(s)
                BY <3>1, <4>2
            <4>3. CASE k \notin 1..Len(s)
                <5>1. (s \o t)[k] = t[k - Len(s)] /\ k - Len(s) \in DOMAIN t
                    BY <3>1, <4>1, <4>3
                <5> QED
                    BY <5>1
            <4> QED
                BY <4>2, <4>3
        <3> QED
            BY <3>1, <3>2
    <2> HIDE DEF Good, n
    <2>5. 1 \in T
        BY <2>0, <2>2, <2>3
    <2>6. ASSUME NEW i \in 1..(n - 1), i \in T PROVE i + 1 \in T
        <3>1. i + 1 \in 1..n /\ i + 1 # 1 /\ (i + 1) - 1 = i
            BY <2>0
        <3>2. g[i + 1] = g[i] \o seqs[i + 1]
            BY <2>2, <3>1
        <3> QED
            BY <2>3, <2>4, <2>6, <3>1, <3>2
    <2>7. n \in T
        <3> HIDE DEF T
        <3>1. \A i \in 1..n : i \in T
            BY <2>0, <2>5, <2>6, UpTo
        <3> QED
            BY <2>0, <3>1
    <2> QED
        BY <2>1, <2>7 DEF Good
<1> QED
    BY <1>1, <1>2

\* What is in one place of one part is in one place of the whole.
LEMMA FlattenedOne ==
    ASSUME NEW S, NEW seqs \in Seq(Seq(S)), NEW Q, NEW e \in Q, NEW k \in DOMAIN seqs,
           seqs[k] = <<e>>,
           \A i \in DOMAIN seqs : i # k => \A j \in DOMAIN seqs[i] : seqs[i][j] \notin Q
    PROVE  /\ FlattenSeq(seqs) \in Seq(S)
           /\ \E at \in DOMAIN FlattenSeq(seqs) :
                /\ FlattenSeq(seqs)[at] = e
                /\ \A j \in DOMAIN FlattenSeq(seqs) : FlattenSeq(seqs)[j] \in Q <=> j = at
<1> DEFINE n == Len(seqs)
           Free == {s \in Seq(S) : \A j \in DOMAIN s : s[j] \notin Q}
           Single == {s \in Seq(S) : \E at \in DOMAIN s :
                        s[at] = e /\ \A j \in DOMAIN s : s[j] \in Q <=> j = at}
<1>0. n \in Nat /\ n >= 1 /\ n # 0 /\ DOMAIN seqs = 1..n /\ k \in 1..n
    OBVIOUS
<1>1. \A i \in 1..n : seqs[i] \in Seq(S)
    OBVIOUS
<1>2. PICK g : Flattens(g, seqs, n) /\ FlattenSeq(seqs) = g[n]
    BY <1>0, FlattenSeqIs
<1>3. \A i \in 1..n : g[i] = IF i = 1 THEN seqs[i] ELSE g[i - 1] \o seqs[i]
    BY <1>2 DEF Flattens
<1> DEFINE T == {i \in 1..n : IF i < k THEN g[i] \in Free ELSE g[i] \in Single}
<1>4. \A i \in 1..n : i # k => seqs[i] \in Free
    <2> SUFFICES ASSUME NEW i \in 1..n, i # k PROVE \A j \in DOMAIN seqs[i] : seqs[i][j] \notin Q
        BY <1>1
    <2>1. i \in DOMAIN seqs
        BY <1>0
    <2> QED
        BY <2>1
<1>5. ASSUME NEW s \in Seq(S), NEW at \in DOMAIN s, s[at] = e,
             \A j \in DOMAIN s : s[j] \in Q => j = at
      PROVE  s \in Single
    <2>1. \A j \in DOMAIN s : s[j] \in Q <=> j = at
        BY <1>5
    <2> QED
        BY <1>5, <2>1
<1>6. seqs[k] \in Single
    <2>1. seqs[k] \in Seq(S)
        BY <1>0, <1>1
    <2>2. /\ 1 \in DOMAIN seqs[k] /\ seqs[k][1] = e
          /\ \A j \in DOMAIN seqs[k] : seqs[k][j] \in Q => j = 1
        OBVIOUS
    <2> HIDE DEF Single
    <2> QED
        BY <1>5, <2>1, <2>2
<1>7. ASSUME NEW s \in Seq(S), NEW t \in Seq(S)
      PROVE  /\ s \o t \in Seq(S) /\ Len(s) \in Nat /\ Len(t) \in Nat
             /\ DOMAIN (s \o t) = 1..(Len(s) + Len(t))
             /\ DOMAIN s = 1..Len(s) /\ DOMAIN t = 1..Len(t)
             /\ \A j \in 1..Len(s) : (s \o t)[j] = s[j]
             /\ \A j \in 1..(Len(s) + Len(t)) : j \notin 1..Len(s) =>
                  j - Len(s) \in 1..Len(t) /\ (s \o t)[j] = t[j - Len(s)]
    OBVIOUS
<1>8. ASSUME NEW s \in Free, NEW t \in Free PROVE s \o t \in Free
    <2> SUFFICES ASSUME NEW j \in DOMAIN (s \o t) PROVE (s \o t)[j] \notin Q
        BY <1>7
    <2>1. CASE j \in 1..Len(s)
        BY <1>7, <2>1
    <2>2. CASE j \notin 1..Len(s)
        BY <1>7, <2>2
    <2> QED
        BY <2>1, <2>2
<1>9. ASSUME NEW s \in Single, NEW t \in Free PROVE s \o t \in Single
    <2>1. PICK at \in DOMAIN s : s[at] = e /\ \A j \in DOMAIN s : s[j] \in Q <=> j = at
        OBVIOUS
    <2>2. at \in DOMAIN (s \o t) /\ (s \o t)[at] = e
        BY <1>7, <2>1
    <2>3. ASSUME NEW j \in DOMAIN (s \o t), (s \o t)[j] \in Q PROVE j = at
        <3>1. j \in 1..Len(s)
            BY <1>7, <2>3
        <3> QED
            BY <1>7, <2>1, <2>3, <3>1
    <2>4. s \o t \in Seq(S)
        BY <1>7
    <2> HIDE DEF Single
    <2> QED
        BY <1>5, <2>2, <2>3, <2>4
<1>10. ASSUME NEW s \in Free, NEW t \in Single PROVE s \o t \in Single
    <2>1. PICK at \in DOMAIN t : t[at] = e /\ \A j \in DOMAIN t : t[j] \in Q <=> j = at
        OBVIOUS
    <2>2. s \in Seq(S) /\ t \in Seq(S) /\ at \in 1..Len(t) /\ Len(s) \in Nat /\ Len(t) \in Nat
        BY <1>7, <2>1
    <2>3. at + Len(s) \in 1..(Len(s) + Len(t)) /\ at + Len(s) \notin 1..Len(s)
          /\ (at + Len(s)) - Len(s) = at
        BY <2>2
    <2>4. at + Len(s) \in DOMAIN (s \o t) /\ (s \o t)[at + Len(s)] = e
        BY <1>7, <2>1, <2>2, <2>3
    <2>5. ASSUME NEW j \in DOMAIN (s \o t), (s \o t)[j] \in Q PROVE j = at + Len(s)
        <3>1. j \notin 1..Len(s)
            BY <1>7, <2>2, <2>5
        <3>2. j - Len(s) \in DOMAIN t /\ t[j - Len(s)] \in Q
            BY <1>7, <2>2, <2>5, <3>1
        <3>3. j - Len(s) = at
            BY <2>1, <3>2
        <3>4. j \in Int
            BY <1>7, <2>2
        <3> QED
            BY <2>2, <3>3, <3>4
    <2>6. s \o t \in Seq(S)
        BY <1>7, <2>2
    <2> HIDE DEF Single
    <2> QED
        BY <1>5, <2>4, <2>5, <2>6
<1> HIDE DEF Free, Single, n
<1>11. 1 \in T
    <2>1. g[1] = seqs[1]
        BY <1>0, <1>3
    <2>2. CASE k = 1
        BY <1>0, <1>6, <2>1, <2>2
    <2>3. CASE k # 1
        BY <1>0, <1>4, <2>1, <2>3
    <2> QED
        BY <2>2, <2>3
<1>12. ASSUME NEW i \in 1..(n - 1), i \in T PROVE i + 1 \in T
    <2>1. i + 1 \in 1..n /\ i + 1 # 1 /\ (i + 1) - 1 = i /\ i \in 1..n
        BY <1>0
    <2>2. g[i + 1] = g[i] \o seqs[i + 1]
        BY <1>3, <2>1
    <2>3. CASE i + 1 < k
        <3>1. i < k /\ i + 1 # k
            BY <1>0, <2>3
        <3>2. g[i] \in Free
            BY <1>12, <3>1
        <3> QED
            BY <1>4, <1>8, <2>1, <2>2, <2>3, <3>1, <3>2
    <2>4. CASE i + 1 = k
        <3>1. i < k /\ ~ (i + 1 < k)
            BY <1>0, <2>4
        <3>2. g[i] \in Free
            BY <1>12, <3>1
        <3> QED
            BY <1>6, <1>10, <2>1, <2>2, <2>4, <3>1, <3>2
    <2>5. CASE i + 1 > k
        <3>1. ~ (i < k) /\ ~ (i + 1 < k) /\ i + 1 # k
            BY <1>0, <2>5
        <3>2. g[i] \in Single
            BY <1>12, <3>1
        <3> QED
            BY <1>4, <1>9, <2>1, <2>2, <3>1, <3>2
    <2> QED
        BY <1>0, <2>1, <2>3, <2>4, <2>5
<1>13. n \in T
    <2> HIDE DEF T
    <2>1. \A i \in 1..n : i \in T
        BY <1>0, <1>11, <1>12, UpTo
    <2> QED
        BY <1>0, <2>1
<1>14. g[n] \in Single
    <2>1. ~ (n < k)
        BY <1>0
    <2> QED
        BY <1>13, <2>1
<1>15. FlattenSeq(seqs) \in Single
    BY <1>2, <1>14
<1> QED
    BY <1>15 DEF Single

\* The sums of no number and of one.
LEMMA SumOfNone ==
    ASSUME NEW fun
    PROVE  SumFunctionOnSet(fun, {}) = 0
<1> DEFINE Is(f) == f = [s \in SUBSET {} |->
                            IF s = {} THEN 0
                            ELSE fun[CHOOSE x \in s : TRUE] + f[s \ {CHOOSE x \in s : TRUE}]]
<1>1. SumFunctionOnSet(fun, {}) = (CHOOSE f : Is(f))[{}]
    BY DEF SumFunctionOnSet, FoldFunctionOnSet, MapThenFoldSet
<1>2. Is([s \in SUBSET {} |-> 0])
    BY Zenon
<1>3. Is(CHOOSE f : Is(f))
    BY <1>2
<1>4. \A f : Is(f) => f[{}] = 0
    BY Zenon
<1> QED
    BY <1>1, <1>3, <1>4

LEMMA SumOfOne ==
    ASSUME NEW fun, NEW k, fun[k] \in Int
    PROVE  SumFunctionOnSet(fun, {k}) = fun[k]
<1> DEFINE Is(f) == f = [s \in SUBSET {k} |->
                            IF s = {} THEN 0
                            ELSE fun[CHOOSE x \in s : TRUE] + f[s \ {CHOOSE x \in s : TRUE}]]
           g == [s \in SUBSET {k} |-> IF s = {} THEN 0 ELSE fun[k] + 0]
<1>1. SumFunctionOnSet(fun, {k}) = (CHOOSE f : Is(f))[{k}]
    BY DEF SumFunctionOnSet, FoldFunctionOnSet, MapThenFoldSet
<1>2. \A s \in SUBSET {k} : s # {} => (CHOOSE x \in s : TRUE) = k /\ s \ {k} = {}
    OBVIOUS
<1>3. {} \in SUBSET {k} /\ {k} \in SUBSET {k} /\ {k} # {}
    OBVIOUS
<1>4. Is(g)
    <2>1. g[{}] = 0
        BY <1>3
    <2>2. ASSUME NEW s \in SUBSET {k}, s # {}
          PROVE fun[CHOOSE x \in s : TRUE] + g[s \ {CHOOSE x \in s : TRUE}] = fun[k] + 0
        <3> HIDE DEF g
        <3>1. (CHOOSE x \in s : TRUE) = k /\ s \ {k} = {}
            BY <1>2, <2>2
        <3> QED
            BY <2>1, <3>1
    <2> QED
        BY <2>2
<1>5. Is(CHOOSE f : Is(f))
    BY <1>4
<1>6. ASSUME NEW f, Is(f) PROVE f[{k}] = fun[k]
    <2>1. f[{}] = 0
        BY <1>3, <1>6
    <2>2. f[{k}] = fun[CHOOSE x \in {k} : TRUE] + f[{k} \ {CHOOSE x \in {k} : TRUE}]
        BY <1>3, <1>6
    <2>3. f[{k}] = fun[k] + 0
        BY <1>2, <1>3, <2>1, <2>2
    <2> QED
        BY <2>3
<1> QED
    BY <1>1, <1>5, <1>6

\* An order of a finite set misses none of its members and repeats none.
LEMMA OrderIsComplete ==
    ASSUME NEW S, IsFiniteSet(S), NEW order \in SetToSeqs(S)
    PROVE  /\ order \in Seq(S) /\ DOMAIN order = 1..Len(order)
           /\ \A x \in S : \E k \in DOMAIN order : order[k] = x
           /\ \A i, j \in DOMAIN order : order[i] = order[j] => i = j
<1> DEFINE n == Cardinality(S)
<1>1. n \in Nat
    BY FS_CardinalityType
<1>2. order \in [1..n -> S] /\ \A i, j \in 1..n : i # j => order[i] # order[j]
    BY DEF SetToSeqs
<1>3. order \in Seq(S) /\ Len(order) = n
    BY <1>1, <1>2
<1>4. order \in Injection(1..n, S)
    BY <1>2 DEF Injection, IsInjective
<1>5. IsFiniteSet(1..n) /\ Cardinality(1..n) = n
    BY <1>1, FS_Interval
<1>6. order \in Surjection(1..n, S)
    BY <1>4, <1>5, FS_Injection
<1> QED
    BY <1>2, <1>3, <1>6 DEF Surjection

-----------------------------------------------------------------------------
(* Types. *)

TracksOK ==
    /\ now \in Nat
    /\ tracks \in [Track -> TrackInfo \cup {None}]
    /\ \A t \in Track : Tracked(t) => tracks[t].seen <= now

\* Entering a zone.
LEMMA WithZone ==
    ASSUME NEW zones \in ZonesActive, NEW z \in Zone \cup {Counter, Announced},
           NEW at \in Nat
    PROVE  /\ With(zones, z, at) \in ZonesActive
           /\ DOMAIN With(zones, z, at) = DOMAIN zones \cup {z}
           /\ With(zones, z, at)[z] = at
           /\ \A y \in DOMAIN zones \ {z} : With(zones, z, at)[y] = zones[y]
<1>1. PICK D \in SUBSET (Zone \cup {Counter, Announced}) : zones \in [D -> Nat]
    BY DEF ZonesActive
<1>2. D \cup {z} \in SUBSET (Zone \cup {Counter, Announced})
    OBVIOUS
<1>3. With(zones, z, at) \in [D \cup {z} -> Nat]
    BY <1>1 DEF With
<1> QED
    BY <1>1, <1>2, <1>3 DEF With, ZonesActive

\* Leaving the zones where a track is not.
LEMMA KeptZones ==
    ASSUME NEW zones \in ZonesActive, NEW place
    PROVE  /\ Kept(zones, place) \in ZonesActive
           /\ DOMAIN Kept(zones, place) = DOMAIN zones \cap {place}
<1>1. PICK D \in SUBSET (Zone \cup {Counter, Announced}) : zones \in [D -> Nat]
    BY DEF ZonesActive
<1>2. Kept(zones, place) \in [D \cap {place} -> Nat]
    BY <1>1 DEF Kept, Restrict
<1>3. D \cap {place} \in SUBSET (Zone \cup {Counter, Announced})
    OBVIOUS
<1> QED
    BY <1>1, <1>2, <1>3 DEF ZonesActive

LEMMA NoZones == <<>> \in ZonesActive /\ DOMAIN <<>> = {}
<1>1. <<>> \in [{} -> Nat]
    OBVIOUS
<1> QED
    BY <1>1 DEF ZonesActive

\* What a frame starts from.
LEMMA KnownType ==
    ASSUME TracksOK, NEW t \in Track, NEW place \in Place
    PROVE  /\ Known(t, place) \in TrackInfo /\ Known(t, place).seen <= now
           /\ ~ Tracked(t) => Known(t, place).zones = <<>> /\ Known(t, place).point = place
           /\ Tracked(t) => Known(t, place) = tracks[t]
BY NoZones DEF TracksOK, Known, Tracked, Info, TrackInfo

-----------------------------------------------------------------------------
(* Steps. *)

\* A detection replaces one track's info by one of the frame in hand.
Sees(t, place, zones) ==
    \E info \in TrackInfo :
        /\ info.point = place /\ info.seen = now /\ info.zones = zones
        /\ tracks' = [tracks EXCEPT ![t] = info]

\* Frames and retirements change no track that stays.
Rests == \A t \in Track : tracks'[t] \in {None, tracks[t]}

ShelfZones(zones, place) ==
    IF place # None /\ place \notin DOMAIN zones
    THEN With(Kept(zones, place), place, now)
    ELSE Kept(zones, place)

Arrives(zones, place) == place = Counter /\ Counter \notin DOMAIN zones

Announces(zones, place) ==
    /\ place = Counter /\ Counter \in DOMAIN zones /\ Announced \notin DOMAIN zones
    /\ now - zones[Counter] >= CheckoutDwell

\* What has been published of a stay.
Reported == <<"checkout_observed">>

TillZones(zones, place) ==
    IF place = None THEN <<>>
    ELSE IF Arrives(zones, place) THEN With(zones, Counter, now)
    ELSE IF Announces(zones, place) THEN With(zones, Announced, now)
    ELSE zones

LEMMA SeesType ==
    ASSUME TracksOK, NEW t \in Track, NEW place, NEW zones, Sees(t, place, zones), now' = now
    PROVE  TracksOK'
<1>1. PICK info \in TrackInfo :
         info.seen = now /\ tracks' = [tracks EXCEPT ![t] = info]
    BY DEF Sees
<1>2. tracks' \in [Track -> TrackInfo \cup {None}]
    BY <1>1 DEF TracksOK
<1>3. \A u \in Track : tracks'[u] = IF u = t THEN info ELSE tracks[u]
    BY <1>1 DEF TracksOK
<1> QED
    BY <1>1, <1>2, <1>3 DEF TracksOK, Tracked

LEMMA RestsType ==
    ASSUME TracksOK, tracks' \in [Track -> TrackInfo \cup {None}], Rests,
           now' \in Nat, now <= now'
    PROVE  TracksOK'
<1>1. ASSUME NEW t \in Track, tracks'[t] # None PROVE tracks'[t].seen <= now'
    <2>1. tracks'[t] = tracks[t] /\ tracks[t] \in TrackInfo /\ tracks[t].seen <= now
        BY <1>1 DEF Rests, TracksOK, Tracked
    <2>2. tracks[t].seen \in Nat
        BY <2>1 DEF TrackInfo
    <2> QED
        BY <2>1, <2>2 DEF TracksOK
<1> QED
    BY <1>1 DEF TracksOK, Tracked

LEMMA ShelfStep ==
    ASSUME TracksOK, NEW t \in Track, NEW place \in Place, ShelfSees(t, place)
    PROVE  Sees(t, place, ShelfZones(Known(t, place).zones, place))
<1> DEFINE info == Known(t, place)
           zones == ShelfZones(info.zones, place)
<1>1. info \in TrackInfo /\ now \in Nat /\ place \in Zone \cup {None}
    BY KnownType DEF TracksOK, ShelfSees
<1>2. tracks' = [tracks EXCEPT ![t] =
                    [info EXCEPT !.point = place, !.seen = now, !.zones = zones]]
    BY DEF ShelfSees, ShelfZones
<1>3. zones \in ZonesActive
    <2>1. Kept(info.zones, place) \in ZonesActive
        BY <1>1, KeptZones DEF TrackInfo
    <2> QED
        BY <1>1, <2>1, WithZone DEF ShelfZones
<1> HIDE DEF info, zones
<1>4. [info EXCEPT !.point = place, !.seen = now, !.zones = zones] \in TrackInfo
    BY <1>1, <1>3 DEF TrackInfo
<1> QED
    BY <1>1, <1>2, <1>4 DEF Sees, TrackInfo, zones, info

\* The types of no envelope and of one.
LEMMA SaidNothing ==
    ASSUME out' = <<>>
    PROVE  Said = <<>>
BY DEF Said

LEMMA SaidOne ==
    ASSUME NEW e, out' = <<e>>
    PROVE  Said = <<e.type>>
<1>1. DOMAIN out' = 1..1 /\ out'[1] = e
    OBVIOUS
<1>2. Said = [i \in 1..1 |-> e.type]
    BY <1>1 DEF Said
<1> QED
    BY <1>2

LEMMA TillStep ==
    ASSUME TracksOK, NEW t \in Track, NEW place \in Place, TillSees(t, place)
    PROVE  /\ place \in {Counter, None}
           /\ Sees(t, place, TillZones(Known(t, place).zones, place))
           /\ Said = IF Announces(Known(t, place).zones, place) THEN Reported ELSE <<>>
<1> DEFINE info == Known(t, place)
           zones == TillZones(info.zones, place)
<1>1. info \in TrackInfo /\ now \in Nat /\ place \in {Counter, None}
    BY KnownType DEF TracksOK, TillSees
<1>2. tracks' = [tracks EXCEPT ![t] =
                    [info EXCEPT !.point = place, !.seen = now, !.zones = zones]]
    BY <1>1, TrackAssumption DEF TillSees, TillZones, Arrives, Announces, LongEnough
<1>5. Said = IF Announces(info.zones, place) THEN Reported ELSE <<>>
    <2>1. out' = IF Announces(info.zones, place)
                 THEN <<Event("checkout_observed", t, Counter, 0, now)>> ELSE <<>>
        BY DEF TillSees, Announces, LongEnough
    <2>2. Event("checkout_observed", t, Counter, 0, now).type = "checkout_observed"
        BY DEF Event
    <2> QED
        BY <2>1, <2>2, SaidNothing, SaidOne DEF Reported
<1>3. zones \in ZonesActive
    <2>1. info.zones \in ZonesActive
        BY <1>1 DEF TrackInfo
    <2> QED
        BY <1>1, <2>1, WithZone, NoZones DEF TillZones
<1> HIDE DEF info, zones
<1>4. [info EXCEPT !.point = place, !.seen = now, !.zones = zones] \in TrackInfo
    BY <1>1, <1>3 DEF TrackInfo
<1> QED
    BY <1>1, <1>2, <1>4, <1>5 DEF Sees, TrackInfo, zones, info

LEMMA DoorStep ==
    ASSUME TracksOK, NEW t \in Track, NEW place \in Place, DoorSees(t, place)
    PROVE  Sees(t, place, Known(t, place).zones)
<1> DEFINE info == Known(t, place)
<1>1. info \in TrackInfo /\ now \in Nat
    BY KnownType DEF TracksOK
<1>2. PICK crossed \in {"in", "out", None} :
         tracks' = [tracks EXCEPT ![t] =
                       [info EXCEPT !.point = place, !.seen = now, !.crossed = crossed]]
    BY <1>1 DEF DoorSees, TrackInfo
<1> HIDE DEF info
<1>3. /\ [info EXCEPT !.point = place, !.seen = now, !.crossed = crossed] \in TrackInfo
      /\ [info EXCEPT !.point = place, !.seen = now, !.crossed = crossed].zones = info.zones
    BY <1>1 DEF TrackInfo
<1>4. Sees(t, place, info.zones)
    BY <1>1, <1>2, <1>3 DEF Sees, TrackInfo
<1> QED
    BY <1>4 DEF info

LEMMA StaffStep ==
    ASSUME TracksOK, NEW t \in Track, NEW place \in Place, StaffSees(t, place)
    PROVE  \E zones \in {<<>>, Known(t, place).zones} : Sees(t, place, zones)
<1>1. now \in Nat
    BY DEF TracksOK
<1>2. CASE tracks' = [tracks EXCEPT ![t] = Info(place)]
    <2>1. /\ Info(place) \in TrackInfo /\ Info(place).point = place
          /\ Info(place).seen = now /\ Info(place).zones = <<>>
        BY <1>1, NoZones DEF Info, TrackInfo
    <2>2. Sees(t, place, <<>>)
        BY <1>2, <2>1 DEF Sees
    <2> QED
        BY <2>2
<1>3. CASE /\ Tracked(t)
           /\ tracks' = [tracks EXCEPT ![t].point = place, ![t].seen = now]
    <2> DEFINE info == [tracks[t] EXCEPT !.point = place, !.seen = now]
    <2>1. tracks[t] \in TrackInfo
        BY <1>3 DEF TracksOK, Tracked
    <2>2. tracks' = [tracks EXCEPT ![t] = info]
        BY <1>3 DEF TracksOK
    <2>3. /\ info \in TrackInfo /\ info.point = place /\ info.seen = now
          /\ info.zones = tracks[t].zones
        BY <1>1, <2>1 DEF TrackInfo
    <2> HIDE DEF info
    <2>4. Sees(t, place, tracks[t].zones)
        BY <2>2, <2>3 DEF Sees
    <2>5. Known(t, place) = tracks[t]
        BY <1>3 DEF Known
    <2> QED
        BY <2>4, <2>5
<1> QED
    BY <1>2, <1>3 DEF StaffSees

\* The clock, the frame loop and gc.
LEMMA LoopStep ==
    ASSUME TracksOK, NextFrame \/ NextFrameAfterGc \/ Stop \/ UNCHANGED vars
    PROVE  TracksOK' /\ Rests /\ camera' = camera
<1>1. now' \in Nat /\ now <= now'
    BY TrackAssumption
       DEF TracksOK, NextFrame, NextFrameAfterGc, Stop, Advance, vars
<1>2. camera' = camera
    BY DEF NextFrame, NextFrameAfterGc, Stop, Retire, vars
<1>3. tracks' \in [Track -> TrackInfo \cup {None}] /\ Rests
    <2>1. ASSUME NEW at, Retire(at)
          PROVE  tracks' \in [Track -> TrackInfo \cup {None}] /\ Rests
        <3>1. tracks' = [t \in Track |-> IF t \in Expired(at) THEN None ELSE tracks[t]]
            BY <2>1 DEF Retire
        <3> QED
            BY <3>1 DEF TracksOK, Rests
    <2>2. CASE UNCHANGED tracks
        BY <2>2 DEF TracksOK, Rests
    <2> QED
        BY <2>1, <2>2 DEF NextFrame, NextFrameAfterGc, Stop, vars
<1> QED
    BY <1>1, <1>2, <1>3, RestsType

\* The histories of the tracks.
HistoryTyped == DOMAIN walk = Track /\ DOMAIN stay = Track

LEMMA HistoryShape == HistoryTyped /\ [Next]_vars => HistoryTyped'
<1> SUFFICES ASSUME HistoryTyped, [Next]_vars PROVE HistoryTyped'
    OBVIOUS
<1>1. ASSUME NEW t \in Track, NEW place \in Place,
             \/ DoorSees(t, place) \/ ShelfSees(t, place)
             \/ TillSees(t, place) \/ StaffSees(t, place)
      PROVE  HistoryTyped'
    BY <1>1 DEF HistoryTyped, DoorSees, ShelfSees, TillSees, StaffSees, Walk, Stand
<1>2. CASE NextFrameAfterGc \/ Stop
    BY <1>2 DEF HistoryTyped, NextFrameAfterGc, Stop, Retire
<1>3. CASE NextFrame \/ UNCHANGED vars
    BY <1>3 DEF HistoryTyped, NextFrame, vars, history
<1> QED
    BY <1>1, <1>2, <1>3 DEF Next

LEMMA HistoriesTyped == Spec => []HistoryTyped
<1>1. Init => HistoryTyped
    BY DEF Init, HistoryTyped
<1> QED
    BY <1>1, HistoryShape, PTL DEF Spec

\* Frames and retirements change the history of no track that stays.
LEMMA LoopHistory ==
    ASSUME NextFrame \/ NextFrameAfterGc \/ Stop \/ UNCHANGED vars,
           NEW t \in Track, tracks'[t] # None
    PROVE  walk'[t] = walk[t] /\ stay'[t] = stay[t]
<1>1. ASSUME NEW at, Retire(at) PROVE walk'[t] = walk[t] /\ stay'[t] = stay[t]
    <2>1. t \notin Expired(at)
        BY <1>1 DEF Retire
    <2> QED
        BY <1>1, <2>1 DEF Retire
<1>2. CASE NextFrame \/ UNCHANGED vars
    BY <1>2 DEF NextFrame, vars, history
<1> QED
    BY <1>1, <1>2 DEF NextFrameAfterGc, Stop

LEMMA DetectionKeeps ==
    ASSUME NEW t, NEW place,
           \/ DoorSees(t, place) \/ ShelfSees(t, place)
           \/ TillSees(t, place) \/ StaffSees(t, place)
    PROVE  now' = now /\ camera' = camera
BY DEF DoorSees, ShelfSees, TillSees, StaffSees, InFrame

LEMMA TracksStep == TracksOK /\ [Next]_vars => TracksOK' /\ camera' = camera
<1> SUFFICES ASSUME TracksOK, [Next]_vars PROVE TracksOK' /\ camera' = camera
    OBVIOUS
<1>1. ASSUME NEW t \in Track, NEW place \in Place,
             \/ DoorSees(t, place) \/ ShelfSees(t, place)
             \/ TillSees(t, place) \/ StaffSees(t, place)
      PROVE  TracksOK' /\ camera' = camera
    <2>1. now' = now /\ camera' = camera
        BY <1>1, DetectionKeeps
    <2>2. \E zones : Sees(t, place, zones)
        BY <1>1, DoorStep, ShelfStep, TillStep, StaffStep
    <2> QED
        BY <2>1, <2>2, SeesType
<1>2. CASE NextFrame \/ NextFrameAfterGc \/ Stop \/ UNCHANGED vars
    BY <1>2, LoopStep
<1> QED
    BY <1>1, <1>2 DEF Next

LEMMA TracksTyped == Spec => []TracksOK
<1>1. Init => TracksOK
    BY DEF Init, TracksOK, Tracked
<1>2. TracksOK /\ [Next]_vars => TracksOK'
    BY TracksStep
<1> QED
    BY <1>1, <1>2, PTL DEF Spec

-----------------------------------------------------------------------------
(* Shelves. *)

InItsZone(info) == DOMAIN info.zones = {info.point} \ {None}

LEMMA ShelfZonesType ==
    ASSUME NEW zones \in ZonesActive, NEW place \in Zone \cup {None}, now \in Nat,
           DOMAIN zones \subseteq Zone
    PROVE  DOMAIN ShelfZones(zones, place) = {place} \ {None}
<1>1. Kept(zones, place) \in ZonesActive /\ DOMAIN Kept(zones, place) = DOMAIN zones \cap {place}
    BY KeptZones
<1>2. CASE place # None /\ place \notin DOMAIN zones
    BY <1>1, <1>2, WithZone DEF ShelfZones
<1>3. CASE ~ (place # None /\ place \notin DOMAIN zones)
    BY <1>1, <1>3, TrackAssumption DEF ShelfZones
<1> QED
    BY <1>2, <1>3

ShelvesOK ==
    camera.role = "shelves" =>
        \A t \in Track : Tracked(t) =>
            DOMAIN tracks[t].zones = {tracks[t].point} \ {None} /\ tracks[t].point \in Zone \cup {None}

LEMMA ShelvesStep == TracksOK /\ ShelvesOK /\ [Next]_vars => ShelvesOK'
<1> SUFFICES ASSUME TracksOK, ShelvesOK, [Next]_vars, camera'.role = "shelves"
             PROVE  ShelvesOK'
    BY DEF ShelvesOK
<1>1. camera' = camera /\ camera.role = "shelves"
    BY TracksStep
<1>2. ASSUME NEW t \in Track, NEW place \in Place, ShelfSees(t, place)
      PROVE  ShelvesOK'
    <2>1. place \in Zone \cup {None} /\ now \in Nat
        BY <1>2 DEF ShelfSees, TracksOK
    <2>2. Known(t, place) \in TrackInfo /\ DOMAIN Known(t, place).zones \subseteq Zone
        BY <1>1, KnownType, NoZones DEF ShelvesOK
    <2>3. Known(t, place).zones \in ZonesActive
        BY <2>2 DEF TrackInfo
    <2>4. DOMAIN ShelfZones(Known(t, place).zones, place) = {place} \ {None}
        BY <2>1, <2>2, <2>3, ShelfZonesType
    <2>5. Sees(t, place, ShelfZones(Known(t, place).zones, place))
        BY <1>2, ShelfStep
    <2>6. PICK info \in TrackInfo :
             /\ info.point = place /\ info.zones = ShelfZones(Known(t, place).zones, place)
             /\ tracks' = [tracks EXCEPT ![t] = info]
        BY <2>5 DEF Sees
    <2>7. \A u \in Track : tracks'[u] = IF u = t THEN info ELSE tracks[u]
        BY <2>6 DEF TracksOK
    <2> QED
        BY <1>1, <2>1, <2>4, <2>6, <2>7 DEF ShelvesOK, Tracked
<1>3. CASE NextFrame \/ NextFrameAfterGc \/ Stop \/ UNCHANGED vars
    <2>1. Rests
        BY <1>3, LoopStep
    <2> QED
        BY <1>1, <2>1 DEF Rests, ShelvesOK, Tracked
<1>4. ASSUME NEW t \in Track, NEW place \in Place,
             DoorSees(t, place) \/ TillSees(t, place) \/ StaffSees(t, place)
      PROVE  FALSE
    BY <1>1, <1>4 DEF DoorSees, TillSees, StaffSees
<1> QED
    BY <1>2, <1>3, <1>4 DEF Next

\* A shopper is in the zone the last frame showed and in no other, for any
\* number of tracks and zones (track_state.py:157-170).
THEOREM OneZone == Spec => []InOneZone
<1>1. Init => ShelvesOK
    BY DEF Init, ShelvesOK, Tracked
<1>2. TracksOK /\ ShelvesOK /\ [Next]_vars => ShelvesOK'
    BY ShelvesStep
<1>3. ShelvesOK => InOneZone
    BY DEF ShelvesOK, InOneZone
<1> QED
    BY <1>1, <1>2, <1>3, TracksTyped, PTL DEF Spec

-----------------------------------------------------------------------------
(* The counter. *)

\* A track is at the counter or nowhere; what is active says since when it has
\* been there, and whether that was published.
StayOK(info, visit) ==
    /\ info.point \in {Counter, None}
    /\ Counter \in DOMAIN info.zones <=> info.point = Counter
    /\ Announced \in DOMAIN info.zones <=>
         /\ info.point = Counter
         /\ info.seen - info.zones[Counter] >= CheckoutDwell
    /\ info.point = Counter => visit.since = info.zones[Counter]
    /\ visit.said = IF Announced \in DOMAIN info.zones THEN Reported ELSE <<>>

TillOK ==
    camera.role = "cash_counter" => \A t \in Track : Tracked(t) => StayOK(tracks[t], stay[t])

\* The stay after a frame in which the track is at place.
Stays(t, place, visit) ==
    IF Tracked(t) /\ tracks[t].point = place
    THEN visit.since = stay[t].since /\ visit.said = stay[t].said \o Said
    ELSE visit.since = now /\ visit.said = Said

LEMMA TillZonesOK ==
    ASSUME TracksOK, TillOK, camera.role = "cash_counter",
           NEW t \in Track, NEW place \in {Counter, None},
           NEW info \in TrackInfo, info.point = place, info.seen = now,
           info.zones = TillZones(Known(t, place).zones, place),
           Said = IF Announces(Known(t, place).zones, place) THEN Reported ELSE <<>>,
           NEW visit, Stays(t, place, visit)
    PROVE  StayOK(info, visit)
<1> DEFINE zones == Known(t, place).zones
<1>1. Known(t, place) \in TrackInfo /\ Known(t, place).seen <= now
    BY KnownType DEF Place
<1>2. now \in Nat /\ CheckoutDwell \in Nat /\ CheckoutDwell > 0 /\ Counter # None
      /\ Counter # Announced
    BY TrackAssumption DEF TracksOK
<1>3. zones \in ZonesActive /\ Known(t, place).seen \in Nat
    BY <1>1 DEF TrackInfo
<1>4. \/ ~ Tracked(t) /\ DOMAIN zones = {}
      \/ Tracked(t) /\ tracks[t] = Known(t, place) /\ StayOK(Known(t, place), stay[t])
    BY KnownType, NoZones DEF TillOK, Place
<1>5. \A z \in DOMAIN zones : zones[z] \in Nat
    BY <1>3 DEF ZonesActive
<1>6. Announced \in DOMAIN zones =>
        /\ Counter \in DOMAIN zones
        /\ now - zones[Counter] >= CheckoutDwell
    BY <1>1, <1>2, <1>3, <1>4, <1>5 DEF StayOK
<1>7. info.zones = TillZones(zones, place) /\ Said = IF Announces(zones, place) THEN Reported ELSE <<>>
    OBVIOUS
<1>8. Reported \o <<>> = Reported /\ <<>> \o Reported = Reported /\ <<>> \o <<>> = <<>>
    BY DEF Reported
<1>10. (Counter \in DOMAIN zones) <=> (Tracked(t) /\ tracks[t].point = Counter)
    BY <1>4 DEF StayOK
<1>11. (Tracked(t) /\ tracks[t].point = Counter) =>
         stay[t].since = zones[Counter]
         /\ stay[t].said = IF Announced \in DOMAIN zones THEN Reported ELSE <<>>
    BY <1>4 DEF StayOK
<1>12. (Tracked(t) /\ tracks[t].point = None) => stay[t].said = <<>>
    <2> SUFFICES ASSUME Tracked(t), tracks[t].point = None PROVE stay[t].said = <<>>
        OBVIOUS
    <2>1. Announced \notin DOMAIN zones
        BY <1>2, <1>6, <1>10
    <2> QED
        BY <1>4, <1>8, <2>1 DEF StayOK
<1> HIDE DEF zones
<1>13. CASE place = None
    <2>1. ~ Announces(zones, place) /\ info.zones = <<>>
        BY <1>2, <1>7, <1>13 DEF Announces, TillZones
    <2>2. Said = <<>>
        BY <1>7, <1>8, <2>1
    <2>3. visit.said = <<>>
        BY <1>8, <1>12, <1>13, <2>2 DEF Stays
    <2> QED
        BY <1>2, <1>8, <1>13, <2>1, <2>3, NoZones DEF StayOK
<1>14. CASE Arrives(zones, place)
    <2>1. /\ DOMAIN info.zones = DOMAIN zones \cup {Counter}
          /\ info.zones[Counter] = now
        <3>1. info.zones = With(zones, Counter, now)
            BY <1>2, <1>7, <1>14 DEF TillZones, Arrives
        <3>2. /\ DOMAIN With(zones, Counter, now) = DOMAIN zones \cup {Counter}
              /\ With(zones, Counter, now)[Counter] = now
            BY DEF With
        <3> QED
            BY <3>1, <3>2
    <2>2. Announced \notin DOMAIN zones /\ place = Counter
        BY <1>6, <1>14 DEF Arrives
    <2>3. Said = <<>>
        BY <1>7, <1>8, <1>14 DEF Arrives, Announces
    <2>4. visit.since = now /\ visit.said = <<>>
        BY <1>10, <1>14, <2>3 DEF Stays, Arrives
    <2> QED
        BY <1>2, <1>8, <2>1, <2>2, <2>4 DEF StayOK
<1>15. CASE Announces(zones, place) /\ place # None /\ ~ Arrives(zones, place)
    <2>1. /\ DOMAIN info.zones = DOMAIN zones \cup {Announced}
          /\ info.zones[Counter] = zones[Counter]
        <3>1. info.zones = With(zones, Announced, now)
            BY <1>7, <1>15 DEF TillZones
        <3>2. /\ DOMAIN With(zones, Announced, now) = DOMAIN zones \cup {Announced}
              /\ \A z \in DOMAIN zones \ {Announced} : With(zones, Announced, now)[z] = zones[z]
            BY DEF With
        <3>3. Counter \in DOMAIN zones \ {Announced}
            BY <1>2, <1>15 DEF Announces
        <3> QED
            BY <3>1, <3>2, <3>3
    <2>2. Counter \in DOMAIN zones /\ place = Counter /\ Announced \notin DOMAIN zones
        BY <1>15 DEF Announces
    <2>3. visit.since = zones[Counter] /\ visit.said = Reported
        <3>1. Tracked(t) /\ tracks[t].point = place
            BY <1>10, <2>2
        <3>2. stay[t].since = zones[Counter] /\ stay[t].said = <<>> /\ Said = Reported
            BY <1>7, <1>8, <1>11, <1>15, <2>2, <3>1
        <3> QED
            BY <1>8, <3>1, <3>2 DEF Stays
    <2> QED
        BY <1>2, <1>15, <2>1, <2>2, <2>3 DEF StayOK, Announces
<1>16. CASE ~ Announces(zones, place) /\ place # None /\ ~ Arrives(zones, place)
    <2>1. info.zones = zones /\ place = Counter /\ Counter \in DOMAIN zones
        BY <1>7, <1>16 DEF TillZones, Arrives
    <2>2. visit.since = zones[Counter] /\ visit.said = IF Announced \in DOMAIN zones THEN Reported ELSE <<>>
        <3>1. Tracked(t) /\ tracks[t].point = place
            BY <1>10, <2>1
        <3>2. Said = <<>>
            BY <1>7, <1>8, <1>16
        <3> QED
            BY <1>8, <1>11, <2>1, <3>1, <3>2 DEF Stays
    <2> QED
        BY <1>2, <1>6, <1>16, <2>1, <2>2 DEF StayOK, Announces
<1> QED
    BY <1>13, <1>14, <1>15, <1>16

LEMMA TillsStep == TracksOK /\ HistoryTyped /\ TillOK /\ [Next]_vars => TillOK'
<1> SUFFICES ASSUME TracksOK, HistoryTyped, TillOK, [Next]_vars, camera'.role = "cash_counter"
             PROVE  TillOK'
    BY DEF TillOK
<1>1. camera' = camera /\ camera.role = "cash_counter"
    BY TracksStep
<1>2. ASSUME NEW t \in Track, NEW place \in Place, TillSees(t, place)
      PROVE  TillOK'
    <2>1. /\ place \in {Counter, None}
          /\ Sees(t, place, TillZones(Known(t, place).zones, place))
          /\ Said = IF Announces(Known(t, place).zones, place) THEN Reported ELSE <<>>
        BY <1>2, TillStep
    <2>2. PICK info \in TrackInfo :
             /\ info.point = place /\ info.seen = now
             /\ info.zones = TillZones(Known(t, place).zones, place)
             /\ tracks' = [tracks EXCEPT ![t] = info]
        BY <2>1 DEF Sees
    <2>3. \A u \in Track : /\ tracks'[u] = IF u = t THEN info ELSE tracks[u]
                           /\ u # t => stay'[u] = stay[u]
        BY <1>2, <2>2 DEF TracksOK, HistoryTyped, TillSees, Stand
    <2>4. Stays(t, place, stay'[t])
        <3>1. stay'[t] = IF Tracked(t) /\ tracks[t].point = place
                         THEN [since |-> stay[t].since, said |-> stay[t].said \o Said]
                         ELSE [since |-> now, said |-> Said]
            BY <1>2 DEF HistoryTyped, TillSees, Stand
        <3> QED
            BY <3>1 DEF Stays
    <2>5. StayOK(info, stay'[t])
        BY <1>1, <2>1, <2>2, <2>4, TillZonesOK
    <2> QED
        BY <1>1, <2>3, <2>5 DEF TillOK, Tracked, StayOK
<1>3. CASE NextFrame \/ NextFrameAfterGc \/ Stop \/ UNCHANGED vars
    <2>1. Rests
        BY <1>3, LoopStep
    <2>2. \A t \in Track : tracks'[t] # None => tracks'[t] = tracks[t] /\ stay'[t] = stay[t]
        BY <1>3, <2>1, LoopHistory DEF Rests
    <2> QED
        BY <1>1, <2>2 DEF TillOK, Tracked, StayOK
<1>4. ASSUME NEW t \in Track, NEW place \in Place,
             DoorSees(t, place) \/ ShelfSees(t, place) \/ StaffSees(t, place)
      PROVE  FALSE
    BY <1>1, <1>4 DEF DoorSees, ShelfSees, StaffSees
<1> QED
    BY <1>2, <1>3, <1>4 DEF Next

\* Since a track came to the counter, one checkout_observed is published of it as
\* soon as a frame shows that it has been there for the threshold, and nothing
\* before that, nor while it is away (track_state.py:208-234).
THEOREM OnTime == Spec => []AnnouncedOnTime
<1>1. Init => TillOK
    BY DEF Init, TillOK, Tracked
<1>2. TracksOK /\ HistoryTyped /\ TillOK /\ [Next]_vars => TillOK'
    BY TillsStep
<1>3. ASSUME TillOK PROVE AnnouncedOnTime
    <2> SUFFICES ASSUME camera.role = "cash_counter", NEW t \in Track, Tracked(t)
                 PROVE  stay[t].said = IF /\ tracks[t].point = Counter
                                          /\ tracks[t].seen - stay[t].since >= CheckoutDwell
                                       THEN <<"checkout_observed">> ELSE <<>>
        BY DEF AnnouncedOnTime
    <2>1. StayOK(tracks[t], stay[t])
        BY <1>3 DEF TillOK
    <2> QED
        BY <2>1 DEF StayOK, Reported
<1> QED
    BY <1>1, <1>2, <1>3, TracksTyped, HistoriesTyped, PTL DEF Spec

-----------------------------------------------------------------------------
(* What a step publishes. *)

Envelope ==
    [type : {"person_entered", "person_exited", "zone_entered", "zone_dwell",
             "checkout_observed", "staff_observed"},
     track : Track, zone : Zone \cup {Counter, None}, dwell : Nat, ts : 0..now]

\* The dwells of one track in one zone.
Dwells(t, z) == {e \in Envelope : e.type = "zone_dwell" /\ e.track = t /\ e.zone = z}

LEMMA EventType ==
    ASSUME now \in Nat, NEW t \in Track, NEW zone \in Zone \cup {Counter, None},
           NEW dwell \in Nat, NEW ts \in 0..now,
           NEW type \in {"person_entered", "person_exited", "zone_entered", "zone_dwell",
                         "checkout_observed", "staff_observed"}
    PROVE  /\ Event(type, t, zone, dwell, ts) \in Envelope
           /\ <<Event(type, t, zone, dwell, ts)>> \in Seq(Envelope)
<1>1. Event(type, t, zone, dwell, ts) \in Envelope
    BY DEF Event, Envelope
<1> QED
    BY <1>1

\* Rounding moves a dwell by half a tenth at most.
LEMMA RoundedNear ==
    ASSUME NEW d \in Nat
    PROVE  /\ Rounded(d) \in Nat
           /\ 2 * (d - Rounded(d)) <= Tenth /\ -Tenth <= 2 * (d - Rounded(d))
<1> DEFINE rest == d % Tenth
<1>1. Tenth \in Nat /\ Tenth > 0
    BY TrackAssumption
<1>2. rest \in Nat /\ rest < Tenth
    BY <1>1
<1>3. rest <= d
    <2>1. CASE d < Tenth
        <3>1. d = Tenth * (d \div Tenth) + rest /\ d \div Tenth \in Nat
            BY <1>1
        <3>2. Tenth * (d \div Tenth) >= 0
            BY <1>1, <3>1
        <3> QED
            BY <1>1, <1>2, <3>1, <3>2
    <2>2. CASE d >= Tenth
        BY <1>1, <1>2, <2>2
    <2> QED
        BY <1>1, <2>1, <2>2
<1>4. Rounded(d) = IF 2 * rest > Tenth \/ (2 * rest = Tenth /\ d \in TiesUp)
                   THEN d - rest + Tenth ELSE d - rest
    BY DEF Rounded
<1> HIDE DEF rest
<1> QED
    BY <1>1, <1>2, <1>3, <1>4

\* The dwells of t in z among these envelopes come to d: one says so, but for
\* rounding, or there is none and d is 0.
Publishes(events, t, z, d) ==
    \/ d = 0 /\ \A j \in DOMAIN events : events[j] \notin Dwells(t, z)
    \/ \E at \in DOMAIN events :
         /\ events[at].dwell = Rounded(d)
         /\ \A j \in DOMAIN events : events[j] \in Dwells(t, z) <=> j = at

LEMMA DwellPublished ==
    ASSUME NEW events \in Seq(Envelope), NEW t, NEW z, NEW d, Publishes(events, t, z, d)
    PROVE  \/ d = 0 /\ DwellOf(events, t, z) = 0 /\ Cardinality(DwellsOf(events, t, z)) = 0
           \/ DwellOf(events, t, z) = Rounded(d) /\ Cardinality(DwellsOf(events, t, z)) = 1
<1> DEFINE fun == [i \in DOMAIN events |-> events[i].dwell]
           those == DwellsOf(events, t, z)
<1>1. those = {i \in DOMAIN events : events[i] \in Dwells(t, z)}
    BY DEF Dwells, DwellsOf
<1>2. DwellOf(events, t, z) = SumFunctionOnSet(fun, those)
    BY DEF DwellOf
<1>3. CASE d = 0 /\ \A j \in DOMAIN events : events[j] \notin Dwells(t, z)
    <2>1. those = {}
        BY <1>1, <1>3
    <2> QED
        BY <1>2, <1>3, <2>1, SumOfNone, FS_EmptySet
<1>4. ASSUME NEW at \in DOMAIN events, events[at].dwell = Rounded(d),
             \A j \in DOMAIN events : events[j] \in Dwells(t, z) <=> j = at
      PROVE  DwellOf(events, t, z) = Rounded(d) /\ Cardinality(those) = 1
    <2>1. those = {at}
        BY <1>1, <1>4
    <2>2. fun[at] = Rounded(d) /\ fun[at] \in Int
        <3>1. events[at] \in Envelope
            OBVIOUS
        <3> QED
            BY <1>4, <3>1 DEF Envelope
    <2> HIDE DEF fun, those
    <2> QED
        BY <1>2, <2>1, <2>2, SumOfOne, FS_Singleton
<1> QED
    BY <1>3, <1>4 DEF Publishes

LEMMA StillPublished ==
    ASSUME NEW events \in Seq(Envelope), NEW e \in Envelope, e.type # "zone_dwell",
           NEW t, NEW z, NEW d, Publishes(events, t, z, d)
    PROVE  Publishes(events \o <<e>>, t, z, d)
<1>1. /\ DOMAIN (events \o <<e>>) = 1..(Len(events) + 1) /\ Len(events) \in Nat
      /\ DOMAIN events = 1..Len(events)
      /\ \A j \in 1..Len(events) : (events \o <<e>>)[j] = events[j]
      /\ (events \o <<e>>)[Len(events) + 1] = e
    OBVIOUS
<1>2. e \notin Dwells(t, z)
    BY DEF Dwells
<1>3. CASE d = 0 /\ \A j \in DOMAIN events : events[j] \notin Dwells(t, z)
    <2> SUFFICES ASSUME NEW j \in DOMAIN (events \o <<e>>)
                 PROVE  (events \o <<e>>)[j] \notin Dwells(t, z)
        BY <1>3 DEF Publishes
    <2>1. j \in 1..Len(events) \/ j = Len(events) + 1
        BY <1>1
    <2> QED
        BY <1>1, <1>2, <1>3, <2>1
<1>4. ASSUME NEW at \in DOMAIN events, events[at].dwell = Rounded(d),
             \A j \in DOMAIN events : events[j] \in Dwells(t, z) <=> j = at
      PROVE  Publishes(events \o <<e>>, t, z, d)
    <2>1. at \in DOMAIN (events \o <<e>>) /\ (events \o <<e>>)[at].dwell = Rounded(d)
          /\ at # Len(events) + 1
        BY <1>1, <1>4
    <2>2. ASSUME NEW j \in DOMAIN (events \o <<e>>)
          PROVE  (events \o <<e>>)[j] \in Dwells(t, z) <=> j = at
        <3>1. j \in 1..Len(events) \/ j = Len(events) + 1
            BY <1>1
        <3> QED
            BY <1>1, <1>2, <1>4, <2>1, <3>1
    <2> QED
        BY <2>1, <2>2 DEF Publishes
<1> QED
    BY <1>3, <1>4 DEF Publishes

\* Visits closed one after the other, each of a track, in a zone, at a time.
Closing(order, of, in, dwell, ts) ==
    FlattenSeq([i \in DOMAIN order |->
        DwellEvents(of[order[i]], in[order[i]], dwell[order[i]], ts[order[i]])])

ToClose(S, of, in, dwell, ts) ==
    /\ of \in [S -> Track] /\ in \in [S -> Zone]
    /\ dwell \in [S -> Nat] /\ ts \in [S -> 0..now]
    /\ \A x, y \in S : of[x] = of[y] /\ in[x] = in[y] => x = y

\* Visits are closed in some order: every visit's dwell is published, once, and
\* nothing else is.
LEMMA DwellsPublished ==
    ASSUME now \in Nat, NEW S, IsFiniteSet(S), NEW order \in SetToSeqs(S),
           NEW of, NEW in, NEW dwell, NEW ts, ToClose(S, of, in, dwell, ts),
           NEW events, events = Closing(order, of, in, dwell, ts)
    PROVE  /\ events \in Seq(Envelope)
           /\ \A j \in DOMAIN events : events[j].type = "zone_dwell"
           /\ \A x \in S : Publishes(events, of[x], in[x], dwell[x])
           /\ \A t, z : (\A x \in S : of[x] # t \/ in[x] # z) => Publishes(events, t, z, 0)
<1> DEFINE parts == [i \in DOMAIN order |->
                        DwellEvents(of[order[i]], in[order[i]], dwell[order[i]], ts[order[i]])]
           Visit(x) == Event("zone_dwell", of[x], in[x], Rounded(dwell[x]), ts[x])
<1>0. /\ of \in [S -> Track] /\ in \in [S -> Zone]
      /\ dwell \in [S -> Nat] /\ ts \in [S -> 0..now]
      /\ \A x, y \in S : of[x] = of[y] /\ in[x] = in[y] => x = y
    BY DEF ToClose
<1>1. /\ order \in Seq(S) /\ DOMAIN order = 1..Len(order)
      /\ \A x \in S : \E k \in DOMAIN order : order[k] = x
      /\ \A i, j \in DOMAIN order : order[i] = order[j] => i = j
    BY OrderIsComplete
<1>2. \A i \in DOMAIN order : order[i] \in S
    BY <1>1
<1>3. \A x \in S : Visit(x) \in Envelope /\ <<Visit(x)>> \in Seq(Envelope)
                   /\ Visit(x).type = "zone_dwell" /\ Visit(x).track = of[x]
                   /\ Visit(x).zone = in[x] /\ Visit(x).dwell = Rounded(dwell[x])
    <2> SUFFICES ASSUME NEW x \in S
                 PROVE  /\ Visit(x) \in Envelope /\ <<Visit(x)>> \in Seq(Envelope)
                        /\ Visit(x).type = "zone_dwell" /\ Visit(x).track = of[x]
                        /\ Visit(x).zone = in[x] /\ Visit(x).dwell = Rounded(dwell[x])
        OBVIOUS
    <2>1. of[x] \in Track /\ in[x] \in Zone /\ Rounded(dwell[x]) \in Nat /\ ts[x] \in 0..now
        BY <1>0, RoundedNear
    <2> QED
        BY <2>1, EventType DEF Event
<1> HIDE DEF Visit
<1>4. ASSUME NEW i \in DOMAIN order
      PROVE  parts[i] = IF dwell[order[i]] > 0 THEN <<Visit(order[i])>> ELSE <<>>
    BY DEF DwellEvents, Visit
<1>5. DOMAIN parts = DOMAIN order
    OBVIOUS
<1> HIDE DEF parts
<1>6. \A i \in DOMAIN order : parts[i] \in Seq(Envelope)
    <2> SUFFICES ASSUME NEW i \in DOMAIN order PROVE parts[i] \in Seq(Envelope)
        OBVIOUS
    <2>1. <<Visit(order[i])>> \in Seq(Envelope) /\ <<>> \in Seq(Envelope)
        BY <1>2, <1>3
    <2> QED
        BY <1>4, <2>1
<1>7. parts \in Seq(Seq(Envelope))
    <2>1. parts = [i \in 1..Len(order) |-> parts[i]]
        BY <1>1, <1>5 DEF parts
    <2>2. Len(order) \in Nat
        BY <1>1
    <2> QED
        BY <1>1, <1>6, <2>1, <2>2
<1>8. events = FlattenSeq(parts)
    BY DEF parts, Closing
<1>9. ASSUME NEW Q, \A i \in DOMAIN parts : \A j \in DOMAIN parts[i] : parts[i][j] \notin Q
       PROVE  events \in Seq(Envelope) /\ \A j \in DOMAIN events : events[j] \notin Q
    <2>1. /\ FlattenSeq(parts) \in Seq(Envelope)
          /\ \A k \in DOMAIN FlattenSeq(parts) : FlattenSeq(parts)[k] \notin Q
        BY <1>7, <1>9, FlattenedNone, Zenon
    <2> QED
        BY <1>8, <2>1
<1>10. \A i \in DOMAIN parts : \A j \in DOMAIN parts[i] : j = 1 /\ parts[i][j] = Visit(order[i])
    BY <1>4, <1>5
<1>11. ASSUME NEW Q, NEW e \in Q, NEW k \in DOMAIN parts, parts[k] = <<e>>,
              \A i \in DOMAIN parts : i # k => \A j \in DOMAIN parts[i] : parts[i][j] \notin Q
       PROVE  /\ FlattenSeq(parts) \in Seq(Envelope)
              /\ \E at \in DOMAIN FlattenSeq(parts) :
                   /\ FlattenSeq(parts)[at] = e
                   /\ \A j \in DOMAIN FlattenSeq(parts) : FlattenSeq(parts)[j] \in Q <=> j = at
    BY <1>7, <1>11, FlattenedOne
<1>12. ASSUME NEW t, NEW z, \A x \in S : of[x] # t \/ in[x] # z
       PROVE  Publishes(events, t, z, 0)
    <2>1. \A i \in DOMAIN parts : \A j \in DOMAIN parts[i] : parts[i][j] \notin Dwells(t, z)
        BY <1>2, <1>3, <1>5, <1>10, <1>12 DEF Dwells
    <2>2. /\ events \in Seq(Envelope)
          /\ \A k \in DOMAIN events : events[k] \notin Dwells(t, z)
        BY <1>9, <2>1
    <2> QED
        BY <2>2 DEF Publishes
<1>13. ASSUME NEW x \in S
       PROVE  Publishes(events, of[x], in[x], dwell[x])
    <2>1. PICK k \in DOMAIN order : order[k] = x
        BY <1>1
    <2>2. \A i \in DOMAIN parts : i # k => \A j \in DOMAIN parts[i] :
            parts[i][j] \notin Dwells(of[x], in[x])
        BY <1>0, <1>1, <1>2, <1>3, <1>5, <1>10, <2>1 DEF Dwells
    <2>3. dwell[x] \in Nat
        BY <1>0
    <2>4. CASE dwell[x] > 0
        <3>1. parts[k] = <<Visit(x)>> /\ Visit(x) \in Dwells(of[x], in[x])
            BY <1>3, <1>4, <2>1, <2>4 DEF Dwells
        <3>2. /\ FlattenSeq(parts) \in Seq(Envelope)
              /\ \E at \in DOMAIN FlattenSeq(parts) :
                   /\ FlattenSeq(parts)[at] = Visit(x)
                   /\ \A j \in DOMAIN FlattenSeq(parts) :
                        FlattenSeq(parts)[j] \in Dwells(of[x], in[x]) <=> j = at
            <4>1. k \in DOMAIN parts
                BY <1>5
            <4> QED
                BY <1>11, <2>2, <3>1, <4>1
        <3>3. PICK at \in DOMAIN events :
                /\ events[at] = Visit(x)
                /\ \A j \in DOMAIN events : events[j] \in Dwells(of[x], in[x]) <=> j = at
            BY <1>8, <3>2
        <3>4. events[at].dwell = Rounded(dwell[x])
            BY <1>3, <3>3
        <3> QED
            BY <3>3, <3>4 DEF Publishes
    <2>5. CASE ~ (dwell[x] > 0)
        <3>1. parts[k] = <<>>
            BY <1>4, <2>1, <2>5
        <3>2. \A i \in DOMAIN parts : \A j \in DOMAIN parts[i] :
                parts[i][j] \notin Dwells(of[x], in[x])
            <4>1. DOMAIN parts[k] = {}
                BY <3>1
            <4> QED
                BY <2>2, <4>1
        <3>3. /\ events \in Seq(Envelope)
              /\ \A j \in DOMAIN events : events[j] \notin Dwells(of[x], in[x])
            BY <1>9, <3>2
        <3> QED
            BY <2>3, <2>5, <3>3 DEF Publishes
    <2> QED
        BY <2>4, <2>5
<1>14. /\ events \in Seq(Envelope)
       /\ \A j \in DOMAIN events : events[j].type = "zone_dwell"
    <2> DEFINE Others == {e \in Envelope : e.type # "zone_dwell"}
    <2>1. \A i \in DOMAIN parts : \A j \in DOMAIN parts[i] : parts[i][j] \notin Others
        BY <1>2, <1>3, <1>5, <1>10
    <2> HIDE DEF Others
    <2>2. /\ events \in Seq(Envelope)
          /\ \A j \in DOMAIN events : events[j] \notin Others
        BY <1>9, <2>1
    <2> QED
        BY <2>2 DEF Others
<1> QED
    BY <1>12, <1>13, <1>14

-----------------------------------------------------------------------------
(* Dwell. *)

\* Visits begin before the frame that last showed them, and no more tracks are
\* followed than were detected.
VisitsOK ==
    /\ \A t \in Track : Tracked(t) =>
         \A z \in DOMAIN tracks[t].zones : tracks[t].zones[z] <= tracks[t].seen
    /\ IsFiniteSet({t \in Track : Tracked(t)})

\* Cameras without shelves have no zones to dwell in.
ElsewhereOK ==
    camera.role # "shelves" =>
        \A t \in Track : Tracked(t) =>
            tracks[t].point \notin Zone /\ DOMAIN tracks[t].zones \cap Zone = {}

\* What a detection publishes of dwell: the visits that the track has left.
LEMMA ShelfPublishes ==
    ASSUME TracksOK, VisitsOK, ShelvesOK, NEW t \in Track, NEW place \in Place,
           ShelfSees(t, place)
    PROVE  /\ out' \in Seq(Envelope)
           /\ \A j \in DOMAIN out' : out'[j].type \in {"zone_dwell", "zone_entered"}
           /\ \A u \in Track : \A z \in Zone :
                Publishes(out', u, z,
                          IF u = t /\ Tracked(t) /\ z \in DOMAIN tracks[t].zones \ {place}
                          THEN now - tracks[t].zones[z] ELSE 0)
<1> DEFINE info == Known(t, place)
           left == DOMAIN info.zones \ {place}
           isNew == place # None /\ place \notin DOMAIN info.zones
<1>1. camera.role = "shelves" /\ place \in Zone \cup {None} /\ now \in Nat
    BY DEF ShelfSees, TracksOK
<1>2. info \in TrackInfo /\ info.seen <= now /\ info.seen \in Nat /\ info.zones \in ZonesActive
    BY KnownType DEF TrackInfo
<1>3. /\ Tracked(t) => info = tracks[t]
      /\ ~ Tracked(t) => DOMAIN info.zones = {}
    BY KnownType, NoZones
<1>4. IsFiniteSet(left) /\ left \subseteq Zone
    <2>1. CASE Tracked(t)
        <3>1. DOMAIN info.zones = {info.point} \ {None} /\ info.point \in Zone \cup {None}
            BY <1>1, <1>3, <2>1 DEF ShelvesOK
        <3>2. IsFiniteSet({info.point})
            BY FS_Singleton
        <3>3. left \in SUBSET {info.point}
            BY <3>1
        <3> QED
            BY <3>1, <3>2, <3>3, FS_Subset
    <2>2. CASE ~ Tracked(t)
        BY <1>3, <2>2, FS_EmptySet
    <2> QED
        BY <2>1, <2>2
<1>5. \A z \in left : info.zones[z] \in Nat /\ now - info.zones[z] \in Nat
    <2> SUFFICES ASSUME NEW z \in left PROVE info.zones[z] \in Nat /\ info.zones[z] <= now
        BY <1>1
    <2>1. info.zones[z] \in Nat
        BY <1>2 DEF ZonesActive
    <2>2. info.zones[z] <= info.seen
        BY <1>3 DEF VisitsOK
    <2> QED
        BY <1>1, <1>2, <2>1, <2>2
<1>6. PICK order \in SetToSeqs(left) :
        out' = FlattenSeq([i \in DOMAIN order |->
                   DwellEvents(t, order[i], now - info.zones[order[i]], now)])
               \o IF isNew THEN <<Event("zone_entered", t, place, 0, now)>> ELSE <<>>
    BY DEF ShelfSees
<1> HIDE DEF left, info
<1> DEFINE of == [z \in left |-> t]
           in == [z \in left |-> z]
           dwell == [z \in left |-> now - info.zones[z]]
           ts == [z \in left |-> now]
           events == Closing(order, of, in, dwell, ts)
<1>7. \A i \in DOMAIN order : order[i] \in left
    BY <1>4, OrderIsComplete
<1>8. FlattenSeq([i \in DOMAIN order |->
                   DwellEvents(t, order[i], now - info.zones[order[i]], now)]) = events
    <2>1. [i \in DOMAIN order |-> DwellEvents(t, order[i], now - info.zones[order[i]], now)]
          = [i \in DOMAIN order |->
               DwellEvents(of[order[i]], in[order[i]], dwell[order[i]], ts[order[i]])]
        BY <1>7
    <2> QED
        BY <2>1 DEF Closing
<1>9. ToClose(left, of, in, dwell, ts)
    BY <1>1, <1>4, <1>5 DEF ToClose
<1> HIDE DEF of, in, dwell, ts
<1>10. /\ events \in Seq(Envelope)
       /\ \A j \in DOMAIN events : events[j].type = "zone_dwell"
       /\ \A x \in left : Publishes(events, of[x], in[x], dwell[x])
       /\ \A u, z : (\A x \in left : of[x] # u \/ in[x] # z) => Publishes(events, u, z, 0)
    <2> HIDE DEF events
    <2>1. events = Closing(order, of, in, dwell, ts)
        BY DEF events
    <2>2. now \in Nat /\ IsFiniteSet(left) /\ order \in SetToSeqs(left)
        BY <1>1, <1>4
    <2> QED
        BY <1>9, <2>1, <2>2, DwellsPublished
<1> HIDE DEF events
<1>11. \A u \in Track : \A z \in Zone :
         Publishes(events, u, z, IF u = t /\ z \in left THEN now - info.zones[z] ELSE 0)
    <2> SUFFICES ASSUME NEW u \in Track, NEW z \in Zone
                 PROVE  Publishes(events, u, z,
                                  IF u = t /\ z \in left THEN now - info.zones[z] ELSE 0)
        OBVIOUS
    <2>1. CASE u = t /\ z \in left
        <3>1. of[z] = t /\ in[z] = z /\ dwell[z] = now - info.zones[z]
            BY <2>1 DEF of, in, dwell
        <3> QED
            BY <1>10, <2>1, <3>1
    <2>2. CASE ~ (u = t /\ z \in left)
        <3>1. \A x \in left : of[x] # u \/ in[x] # z
            BY <2>2 DEF of, in
        <3> QED
            BY <1>10, <2>2, <3>1
    <2> QED
        BY <2>1, <2>2
<1>12. \A u \in Track : \A z \in Zone :
         (IF u = t /\ z \in left THEN now - info.zones[z] ELSE 0)
         = IF u = t /\ Tracked(t) /\ z \in DOMAIN tracks[t].zones \ {place}
           THEN now - tracks[t].zones[z] ELSE 0
    BY <1>3 DEF left
<1>13. CASE ~ isNew
    <2>1. out' = events
        BY <1>6, <1>8, <1>10, <1>13
    <2> QED
        BY <1>10, <1>11, <1>12, <2>1
<1>14. CASE isNew
    <2> DEFINE e == Event("zone_entered", t, place, 0, now)
    <2>1. e \in Envelope /\ e.type = "zone_entered"
        <3>1. place \in Zone /\ 0 \in Nat /\ now \in 0..now
            BY <1>1, <1>14
        <3> QED
            BY <1>1, <3>1, EventType DEF Event
    <2> HIDE DEF e
    <2>2. out' = events \o <<e>>
        BY <1>6, <1>8, <1>14 DEF e
    <2>3. out' \in Seq(Envelope)
        BY <1>10, <2>1, <2>2
    <2>4. ASSUME NEW j \in DOMAIN out' PROVE out'[j].type \in {"zone_dwell", "zone_entered"}
        <3>1. /\ Len(events) \in Nat /\ DOMAIN events = 1..Len(events)
              /\ DOMAIN (events \o <<e>>) = 1..(Len(events) + 1)
              /\ \A i \in 1..Len(events) : (events \o <<e>>)[i] = events[i]
              /\ (events \o <<e>>)[Len(events) + 1] = e
            BY <1>10, <2>1
        <3>2. j \in 1..Len(events) \/ j = Len(events) + 1
            BY <2>2, <3>1
        <3> QED
            BY <1>10, <2>1, <2>2, <3>1, <3>2
    <2>5. \A u, z, d : Publishes(events, u, z, d) => Publishes(out', u, z, d)
        BY <1>10, <2>1, <2>2, StillPublished
    <2> QED
        BY <1>11, <1>12, <2>3, <2>4, <2>5
<1> QED
    BY <1>13, <1>14

\* What gc publishes: the visits of the tracks it retires, up to the time they
\* were last seen.
LEMMA GcPublishes ==
    ASSUME TracksOK, VisitsOK, ShelvesOK, ElsewhereOK, NEW at, Retire(at)
    PROVE  /\ out' \in Seq(Envelope)
           /\ \A j \in DOMAIN out' : out'[j].type = "zone_dwell"
           /\ \A u \in Track : \A z \in Zone :
                Publishes(out', u, z,
                          IF u \in Expired(at) /\ z \in DOMAIN tracks[u].zones
                          THEN tracks[u].seen - tracks[u].zones[z] ELSE 0)
<1> DEFINE S == {v \in Expired(at) \X Zone : v[2] \in DOMAIN tracks[v[1]].zones}
           of == [v \in S |-> v[1]]
           in == [v \in S |-> v[2]]
           dwell == [v \in S |-> tracks[v[1]].seen - tracks[v[1]].zones[v[2]]]
           ts == [v \in S |-> tracks[v[1]].seen]
<1>1. \A u \in Expired(at) :
        /\ u \in Track /\ Tracked(u) /\ tracks[u] \in TrackInfo
        /\ tracks[u].seen \in 0..now /\ tracks[u].zones \in ZonesActive
    <2> SUFFICES ASSUME NEW u \in Track, Tracked(u)
                 PROVE  /\ tracks[u] \in TrackInfo
                        /\ tracks[u].seen \in 0..now /\ tracks[u].zones \in ZonesActive
        BY DEF Expired
    <2>1. tracks[u] \in TrackInfo /\ tracks[u].seen <= now /\ now \in Nat
        BY DEF TracksOK, Tracked
    <2> QED
        BY <2>1 DEF TrackInfo
<1>2. \A v \in S : /\ v[1] \in Expired(at) /\ v[2] \in Zone /\ v = <<v[1], v[2]>>
                   /\ v[2] \in DOMAIN tracks[v[1]].zones
    OBVIOUS
<1>3. IsFiniteSet(S)
    <2> DEFINE followed == {t \in Track : Tracked(t)}
               Visit(t) == <<t, tracks[t].point>>
    <2>1. IsFiniteSet({Visit(t) : t \in followed})
        <3>1. IsFiniteSet(followed)
            BY DEF VisitsOK
        <3> HIDE DEF followed, Visit
        <3>2. [t \in followed |-> Visit(t)] \in Surjection(followed, {Visit(t) : t \in followed})
            BY DEF Surjection
        <3> QED
            BY <3>1, <3>2, FS_Surjection
    <2>2. ASSUME NEW v \in S PROVE v \in {Visit(t) : t \in followed}
        <3>1. v[1] \in followed /\ v[2] \in Zone /\ v[2] \in DOMAIN tracks[v[1]].zones
            BY <1>1, <1>2
        <3>2. v[2] = tracks[v[1]].point
            BY <3>1 DEF ShelvesOK, ElsewhereOK
        <3> QED
            BY <1>2, <3>1, <3>2
    <2> HIDE DEF S
    <2>3. S \in SUBSET {Visit(t) : t \in followed}
        BY <2>2
    <2> QED
        BY <2>1, <2>3, FS_Subset
<1>4. PICK order \in SetToSeqs(S) :
        out' = FlattenSeq([i \in DOMAIN order |->
                   DwellEvents(order[i][1], order[i][2],
                               tracks[order[i][1]].seen - tracks[order[i][1]].zones[order[i][2]],
                               tracks[order[i][1]].seen)])
    BY DEF Retire, VisitEnd
<1>5. \A v \in S : /\ tracks[v[1]].seen \in 0..now
                   /\ tracks[v[1]].seen - tracks[v[1]].zones[v[2]] \in Nat
    <2> SUFFICES ASSUME NEW v \in S
                 PROVE  /\ tracks[v[1]].seen \in 0..now
                        /\ tracks[v[1]].seen - tracks[v[1]].zones[v[2]] \in Nat
        OBVIOUS
    <2>1. tracks[v[1]].seen \in 0..now /\ now \in Nat
        BY <1>1, <1>2 DEF TracksOK
    <2>2. tracks[v[1]].zones[v[2]] \in Nat
        BY <1>1, <1>2 DEF ZonesActive
    <2>3. tracks[v[1]].zones[v[2]] <= tracks[v[1]].seen
        BY <1>1, <1>2 DEF VisitsOK
    <2> QED
        BY <2>1, <2>2, <2>3
<1> HIDE DEF S
<1>6. out' = Closing(order, of, in, dwell, ts)
    <2>1. \A i \in DOMAIN order : order[i] \in S
        BY <1>3, OrderIsComplete
    <2>2. [i \in DOMAIN order |->
                   DwellEvents(order[i][1], order[i][2],
                               tracks[order[i][1]].seen - tracks[order[i][1]].zones[order[i][2]],
                               tracks[order[i][1]].seen)]
          = [i \in DOMAIN order |->
               DwellEvents(of[order[i]], in[order[i]], dwell[order[i]], ts[order[i]])]
        BY <2>1
    <2> QED
        BY <1>4, <2>2 DEF Closing
<1>7. ToClose(S, of, in, dwell, ts)
    <2>1. of \in [S -> Track] /\ in \in [S -> Zone]
        BY <1>1, <1>2
    <2>2. dwell \in [S -> Nat] /\ ts \in [S -> 0..now]
        BY <1>5
    <2>3. ASSUME NEW x \in S, NEW y \in S, of[x] = of[y], in[x] = in[y] PROVE x = y
        BY <1>2, <2>3
    <2> HIDE DEF of, in, dwell, ts
    <2> QED
        BY <2>1, <2>2, <2>3 DEF ToClose
<1>8. \A v \in S : /\ of[v] = v[1] /\ in[v] = v[2]
                   /\ dwell[v] = tracks[v[1]].seen - tracks[v[1]].zones[v[2]]
    OBVIOUS
<1> HIDE DEF of, in, dwell, ts
<1>9. /\ out' \in Seq(Envelope)
      /\ \A j \in DOMAIN out' : out'[j].type = "zone_dwell"
      /\ \A x \in S : Publishes(out', of[x], in[x], dwell[x])
      /\ \A u, z : (\A x \in S : of[x] # u \/ in[x] # z) => Publishes(out', u, z, 0)
    <2>1. now \in Nat
        BY DEF TracksOK
    <2> QED
        BY <1>3, <1>6, <1>7, <2>1, DwellsPublished
<1>10. ASSUME NEW u \in Track, NEW z \in Zone
       PROVE  Publishes(out', u, z,
                        IF u \in Expired(at) /\ z \in DOMAIN tracks[u].zones
                        THEN tracks[u].seen - tracks[u].zones[z] ELSE 0)
    <2>1. CASE u \in Expired(at) /\ z \in DOMAIN tracks[u].zones
        <3>1. <<u, z>> \in S
            BY <2>1 DEF S
        <3>2. of[<<u, z>>] = u /\ in[<<u, z>>] = z
              /\ dwell[<<u, z>>] = tracks[u].seen - tracks[u].zones[z]
            BY <1>8, <3>1
        <3> QED
            BY <1>9, <2>1, <3>1, <3>2
    <2>2. CASE ~ (u \in Expired(at) /\ z \in DOMAIN tracks[u].zones)
        <3>1. \A x \in S : of[x] # u \/ in[x] # z
            BY <1>2, <1>8, <2>2
        <3> QED
            BY <1>9, <2>2, <3>1
    <2> QED
        BY <2>1, <2>2
<1> QED
    BY <1>9, <1>10

\* Envelopes of other kinds say nothing of dwell.
LEMMA OthersPublish ==
    ASSUME NEW events \in Seq(Envelope), \A j \in DOMAIN events : events[j].type # "zone_dwell"
    PROVE  \A t, z : Publishes(events, t, z, 0)
BY DEF Publishes, Dwells

LEMMA NothingPublished ==
    /\ <<>> \in Seq(Envelope) /\ DOMAIN <<>> = {}
    /\ \A t, z : Publishes(<<>>, t, z, 0)
<1>1. <<>> \in Seq(Envelope) /\ DOMAIN <<>> = {}
    OBVIOUS
<1> QED
    BY <1>1 DEF Publishes

\* The other handlers publish one envelope, or none.
LEMMA OthersPublished ==
    ASSUME TracksOK, NEW t \in Track, NEW place \in Place,
           DoorSees(t, place) \/ TillSees(t, place) \/ StaffSees(t, place)
    PROVE  /\ out' \in Seq(Envelope)
           /\ \A j \in DOMAIN out' : out'[j].type # "zone_dwell"
<1> DEFINE Types == {"person_entered", "person_exited", "checkout_observed", "staff_observed"}
<1>1. now \in Nat /\ 0 \in Nat /\ now \in 0..now
    BY DEF TracksOK
<1>2. \/ out' = <<>>
      \/ \E type \in Types : \E zone \in {Counter, None} : out' = <<Event(type, t, zone, 0, now)>>
    BY DEF DoorSees, TillSees, StaffSees
<1>3. CASE out' = <<>>
    BY <1>3, NothingPublished
<1>4. ASSUME NEW type \in Types, NEW zone \in {Counter, None},
             out' = <<Event(type, t, zone, 0, now)>>
      PROVE  /\ out' \in Seq(Envelope)
             /\ \A j \in DOMAIN out' : out'[j].type # "zone_dwell"
    <2>1. out' \in Seq(Envelope)
        BY <1>1, <1>4, EventType
    <2>2. Event(type, t, zone, 0, now).type # "zone_dwell"
        BY DEF Event
    <2>3. \A j \in DOMAIN out' : out'[j] = Event(type, t, zone, 0, now)
        BY <1>4
    <2> QED
        BY <2>1, <2>2, <2>3
<1> QED
    BY <1>2, <1>3, <1>4

\* The dwell of a visit so far.
Open(t, z) ==
    IF Tracked(t) /\ z \in DOMAIN tracks[t].zones
    THEN tracks[t].seen - tracks[t].zones[z] ELSE 0

Watched(t, z) ==
    IF Tracked(t) /\ tracks[t].point = z THEN now - tracks[t].seen ELSE 0

\* What is missing after n dwells were published.
Within(missing, n) == 2 * missing <= Tenth * n /\ -(Tenth * n) <= 2 * missing

Missing(t, z) == seenIn[t][z] - told[t][z] - Open(t, z)

HistoryOK ==
    /\ seenIn \in [Track -> [Zone -> Int]] /\ told \in [Track -> [Zone -> Int]]
    /\ dwells \in [Track -> [Zone -> Nat]]
    /\ \A t \in Track : \A z \in Zone : Within(Missing(t, z), dwells[t][z])

\* A dwell more, and half a tenth more may be missing.
LEMMA OneMoreDwell ==
    ASSUME NEW missing \in Int, NEW n \in Nat, Within(missing, n),
           NEW d \in Int, 2 * d <= Tenth, -Tenth <= 2 * d
    PROVE  Within(missing + d, n + 1)
<1>1. Tenth \in Nat
    BY TrackAssumption
<1>2. Tenth * (n + 1) = Tenth * n + Tenth /\ Tenth * n \in Int
    BY <1>1
<1> DEFINE allowed == Tenth * n
           more == Tenth * (n + 1)
<1>3. 2 * missing <= allowed /\ -allowed <= 2 * missing /\ more = allowed + Tenth /\ allowed \in Int
    BY <1>2 DEF Within
<1> HIDE DEF allowed, more
<1>4. 2 * (missing + d) <= more /\ -more <= 2 * (missing + d)
    BY <1>1, <1>3
<1> QED
    BY <1>4 DEF Within, more

LEMMA OpenType ==
    ASSUME TracksOK, NEW t \in Track, NEW z
    PROVE  Open(t, z) \in Int /\ Watched(t, z) \in Int
<1>1. now \in Nat
    BY DEF TracksOK
<1>2. CASE Tracked(t)
    <2>1. tracks[t] \in TrackInfo
        BY <1>2 DEF TracksOK, Tracked
    <2>2. tracks[t].seen \in Nat /\ tracks[t].zones \in ZonesActive
        BY <2>1 DEF TrackInfo
    <2>3. \A y \in DOMAIN tracks[t].zones : tracks[t].zones[y] \in Nat
        BY <2>2 DEF ZonesActive
    <2> QED
        BY <1>1, <2>2, <2>3 DEF Open, Watched
<1>3. CASE ~ Tracked(t)
    BY <1>3 DEF Open, Watched
<1> QED
    BY <1>2, <1>3

\* What was told of d: nothing if it is 0, or one dwell, rounded.
Paid(t, z, d) ==
    \/ d = 0 /\ told'[t][z] = told[t][z] /\ dwells'[t][z] = dwells[t][z]
    \/ told'[t][z] = told[t][z] + Rounded(d) /\ dwells'[t][z] = dwells[t][z] + 1

\* The envelopes of a step are told.
LEMMA Told ==
    ASSUME told \in [Track -> [Zone -> Int]], dwells \in [Track -> [Zone -> Nat]],
           Tell, out' \in Seq(Envelope),
           NEW d \in [Track -> [Zone -> Nat]],
           \A u \in Track : \A z \in Zone : Publishes(out', u, z, d[u][z])
    PROVE  /\ told' \in [Track -> [Zone -> Int]] /\ dwells' \in [Track -> [Zone -> Nat]]
           /\ \A u \in Track : \A z \in Zone : Paid(u, z, d[u][z])
<1> DEFINE paid(u, z) == DwellOf(out', u, z)
           more(u, z) == Cardinality(DwellsOf(out', u, z))
<1>1. ASSUME NEW u \in Track, NEW z \in Zone
      PROVE  /\ paid(u, z) \in Nat /\ more(u, z) \in Nat
             /\ \/ d[u][z] = 0 /\ paid(u, z) = 0 /\ more(u, z) = 0
                \/ paid(u, z) = Rounded(d[u][z]) /\ more(u, z) = 1
    <2>1. \/ d[u][z] = 0 /\ paid(u, z) = 0 /\ more(u, z) = 0
          \/ paid(u, z) = Rounded(d[u][z]) /\ more(u, z) = 1
        BY DwellPublished
    <2>2. Rounded(d[u][z]) \in Nat
        BY RoundedNear
    <2> HIDE DEF paid, more
    <2> QED
        BY <2>1, <2>2
<1>2. /\ told' = [u \in Track |-> [z \in Zone |-> told[u][z] + paid(u, z)]]
      /\ dwells' = [u \in Track |-> [z \in Zone |-> dwells[u][z] + more(u, z)]]
    BY DEF Tell
<1> HIDE DEF paid, more
<1>3. told' \in [Track -> [Zone -> Int]] /\ dwells' \in [Track -> [Zone -> Nat]]
    <2>1. ASSUME NEW u \in Track, NEW z \in Zone
          PROVE  told[u][z] + paid(u, z) \in Int /\ dwells[u][z] + more(u, z) \in Nat
        <3>1. told[u][z] \in Int /\ dwells[u][z] \in Nat
            OBVIOUS
        <3> QED
            BY <1>1, <3>1
    <2> QED
        BY <1>2, <2>1
<1>4. ASSUME NEW u \in Track, NEW z \in Zone PROVE Paid(u, z, d[u][z])
    <2>1. told'[u][z] = told[u][z] + paid(u, z) /\ dwells'[u][z] = dwells[u][z] + more(u, z)
        BY <1>2
    <2>2. told[u][z] \in Int /\ dwells[u][z] \in Nat
        OBVIOUS
    <2> QED
        BY <1>1, <2>1, <2>2 DEF Paid
<1> QED
    BY <1>3, <1>4

\* What is missing stays within bounds when what was watched is published or
\* still to be.
LEMMA PaidBalances ==
    ASSUME NEW seen \in Int, NEW says \in Int, NEW open \in Int, NEW n \in Nat,
           Within(seen - says - open, n),
           NEW watched \in Int, NEW d \in Nat, NEW stays \in Int, open + watched = d + stays,
           NEW saysNow \in Int, NEW m \in Nat,
           \/ d = 0 /\ saysNow = says /\ m = n
           \/ saysNow = says + Rounded(d) /\ m = n + 1
    PROVE  Within((seen + watched) - saysNow - stays, m)
<1>1. CASE d = 0 /\ saysNow = says /\ m = n
    <2>1. (seen + watched) - saysNow - stays = seen - says - open
        BY <1>1
    <2> QED
        BY <1>1, <2>1
<1>2. CASE saysNow = says + Rounded(d) /\ m = n + 1
    <2>1. /\ Rounded(d) \in Nat
          /\ 2 * (d - Rounded(d)) <= Tenth /\ -Tenth <= 2 * (d - Rounded(d))
        BY RoundedNear
    <2>2. (seen + watched) - saysNow - stays = (seen - says - open) + (d - Rounded(d))
        BY <1>2, <2>1
    <2>3. seen - says - open \in Int /\ d - Rounded(d) \in Int
        BY <2>1
    <2> QED
        BY <1>2, <2>1, <2>2, <2>3, OneMoreDwell
<1> QED
    BY <1>1, <1>2

\* With t's info replaced by this one, publishing d balances the books.
Settles(t, info, d) ==
    \A u \in Track : \A z \in Zone :
        IF u = t
        THEN Open(t, z) + Watched(t, z)
             = d[t][z] + IF z \in DOMAIN info.zones THEN now - info.zones[z] ELSE 0
        ELSE d[u][z] = 0

\* A detection: what t was watched for since its last frame is published, or
\* still to be.
LEMMA DetectionAccounts ==
    ASSUME TracksOK, HistoryOK, NEW t \in Track, NEW info \in TrackInfo,
           info.seen = now, tracks' = [tracks EXCEPT ![t] = info], InFrame(t),
           out' \in Seq(Envelope), NEW d \in [Track -> [Zone -> Nat]],
           \A u \in Track : \A z \in Zone : Publishes(out', u, z, d[u][z]),
           Settles(t, info, d)
    PROVE  HistoryOK'
<1>1. \A u \in Track : tracks'[u] = IF u = t THEN info ELSE tracks[u]
    BY DEF TracksOK
<1>2. info # None /\ now \in Nat
    BY TrackAssumption DEF TracksOK
<1>3. /\ told' \in [Track -> [Zone -> Int]] /\ dwells' \in [Track -> [Zone -> Nat]]
      /\ \A u \in Track : \A z \in Zone : Paid(u, z, d[u][z])
    BY Told DEF HistoryOK, InFrame
<1>4. /\ seenIn' \in [Track -> [Zone -> Int]]
      /\ \A u \in Track : \A z \in Zone :
           seenIn'[u][z] = seenIn[u][z] + IF u = t THEN Watched(t, z) ELSE 0
    <2>1. /\ seenIn \in [Track -> [Zone -> Int]]
          /\ \A u \in Track : \A z \in Zone : Watched(u, z) \in Int
        BY OpenType DEF HistoryOK
    <2>2. \A u \in Track : seenIn'[u] =
            IF u = t THEN [z \in Zone |-> IF Tracked(t) /\ tracks[t].point = z
                                         THEN seenIn[t][z] + (now - tracks[t].seen)
                                         ELSE seenIn[t][z]]
            ELSE seenIn[u]
        BY <2>1 DEF InFrame, Watch, Tracked
    <2>3. ASSUME NEW u \in Track, NEW z \in Zone
          PROVE  seenIn'[u][z] = seenIn[u][z] + IF u = t THEN Watched(t, z) ELSE 0
        <3>1. seenIn[u][z] \in Int
            BY <2>1
        <3>2. seenIn'[u][z] = IF u = t /\ Tracked(t) /\ tracks[t].point = z
                              THEN seenIn[u][z] + (now - tracks[t].seen) ELSE seenIn[u][z]
            BY <2>2
        <3>3. CASE u = t /\ Tracked(t) /\ tracks[t].point = z
            BY <3>2, <3>3 DEF Watched
        <3>4. CASE ~ (u = t /\ Tracked(t) /\ tracks[t].point = z)
            <4>1. (IF u = t THEN Watched(t, z) ELSE 0) = 0
                BY <3>4 DEF Watched
            <4> QED
                BY <3>1, <3>2, <3>4, <4>1
        <3> QED
            BY <3>3, <3>4
    <2>4. \A u \in Track : seenIn'[u] = [z \in Zone |-> seenIn'[u][z]]
        BY <2>1, <2>2
    <2>5. ASSUME NEW u \in Track, NEW z \in Zone PROVE seenIn'[u][z] \in Int
        <3>1. seenIn[u][z] \in Int /\ Watched(t, z) \in Int
            BY <2>1
        <3>2. seenIn'[u][z] = seenIn[u][z] + IF u = t THEN Watched(t, z) ELSE 0
            BY <2>3
        <3> DEFINE adds == IF u = t THEN Watched(t, z) ELSE 0
        <3>3. adds \in Int
            BY <3>1
        <3>4. seenIn'[u][z] = seenIn[u][z] + adds
            BY <3>2
        <3> HIDE DEF adds
        <3> QED
            BY <3>1, <3>3, <3>4
    <2>6. seenIn' = [u \in Track |-> seenIn'[u]]
        BY <2>1 DEF InFrame, Watch
    <2> QED
        BY <2>3, <2>4, <2>5, <2>6
<1>5. ASSUME NEW u \in Track, NEW z \in Zone
      PROVE  Within(Missing(u, z)', dwells'[u][z])
    <2> DEFINE watched == IF u = t THEN Watched(u, z) ELSE 0
    <2>1. /\ seenIn[u][z] \in Int /\ told[u][z] \in Int /\ told'[u][z] \in Int
          /\ dwells[u][z] \in Nat /\ dwells'[u][z] \in Nat
          /\ Open(u, z) \in Int /\ d[u][z] \in Nat /\ watched \in Int
        BY <1>3, OpenType DEF HistoryOK
    <2>2. Within(seenIn[u][z] - told[u][z] - Open(u, z), dwells[u][z])
        BY DEF HistoryOK, Missing
    <2>3. Open(u, z)' \in Int /\ Open(u, z) + watched = d[u][z] + Open(u, z)'
        <3>1. CASE u = t
            <4>1. Open(u, z)' = IF z \in DOMAIN info.zones THEN now - info.zones[z] ELSE 0
                BY <1>1, <1>2, <3>1 DEF Open, Tracked
            <4>2. Open(u, z) + watched = d[u][z] + Open(u, z)'
                BY <3>1, <4>1 DEF Settles
            <4>3. info.zones \in ZonesActive
                BY DEF TrackInfo
            <4>4. Open(u, z)' \in Int
                BY <1>2, <4>1, <4>3 DEF ZonesActive
            <4> QED
                BY <4>2, <4>4
        <3>2. CASE u # t
            <4>1. Open(u, z)' = Open(u, z)
                BY <1>1, <3>2 DEF Open, Tracked
            <4>2. watched = 0 /\ d[u][z] = 0
                BY <3>2 DEF Settles
            <4> HIDE DEF watched
            <4> QED
                BY <2>1, <4>1, <4>2
        <3> QED
            BY <3>1, <3>2
    <2>4. seenIn'[u][z] = seenIn[u][z] + watched
        BY <1>4
    <2>5. \/ d[u][z] = 0 /\ told'[u][z] = told[u][z] /\ dwells'[u][z] = dwells[u][z]
          \/ told'[u][z] = told[u][z] + Rounded(d[u][z]) /\ dwells'[u][z] = dwells[u][z] + 1
        BY <1>3 DEF Paid
    <2>6. Missing(u, z)' = seenIn'[u][z] - told'[u][z] - Open(u, z)'
        BY DEF Missing
    <2> HIDE DEF watched
    <2>7. Within((seenIn[u][z] + watched) - told'[u][z] - Open(u, z)', dwells'[u][z])
        BY <2>1, <2>2, <2>3, <2>5, PaidBalances
    <2> QED
        BY <2>4, <2>6, <2>7
<1> QED
    BY <1>3, <1>4, <1>5 DEF HistoryOK

\* A visit has run up to something, or nothing.
LEMMA OpenIsSpent ==
    ASSUME TracksOK, VisitsOK, NEW t \in Track, NEW z
    PROVE  Open(t, z) \in Nat
<1>1. CASE Tracked(t) /\ z \in DOMAIN tracks[t].zones
    <2>1. tracks[t] \in TrackInfo
        BY <1>1 DEF TracksOK, Tracked
    <2>2. tracks[t].seen \in Nat /\ tracks[t].zones \in ZonesActive
        BY <2>1 DEF TrackInfo
    <2>3. tracks[t].zones[z] \in Nat
        BY <1>1, <2>2 DEF ZonesActive
    <2>4. tracks[t].zones[z] <= tracks[t].seen
        BY <1>1 DEF VisitsOK
    <2> QED
        BY <1>1, <2>2, <2>3, <2>4 DEF Open
<1>2. CASE ~ (Tracked(t) /\ z \in DOMAIN tracks[t].zones)
    BY <1>2 DEF Open
<1> QED
    BY <1>1, <1>2

\* gc: what a retired track's visits came to is published.
LEMMA GcAccounts ==
    ASSUME TracksOK, VisitsOK, ShelvesOK, ElsewhereOK, HistoryOK, NEW at, Retire(at)
    PROVE  HistoryOK'
<1> DEFINE d == [u \in Track |-> [z \in Zone |-> IF u \in Expired(at) THEN Open(u, z) ELSE 0]]
<1>1. d \in [Track -> [Zone -> Nat]]
    BY OpenIsSpent
<1>2. out' \in Seq(Envelope)
    BY GcPublishes
<1>3. \A u \in Track : \A z \in Zone : d[u][z] = IF u \in Expired(at) THEN Open(u, z) ELSE 0
    OBVIOUS
<1> HIDE DEF d
<1>4. ASSUME NEW u \in Track, NEW z \in Zone PROVE Publishes(out', u, z, d[u][z])
    <2>1. d[u][z] = IF u \in Expired(at) /\ z \in DOMAIN tracks[u].zones
                    THEN tracks[u].seen - tracks[u].zones[z] ELSE 0
        BY <1>3 DEF Open, Expired
    <2> QED
        BY <2>1, GcPublishes
<1>5. /\ told' \in [Track -> [Zone -> Int]] /\ dwells' \in [Track -> [Zone -> Nat]]
      /\ \A u \in Track : \A z \in Zone : Paid(u, z, d[u][z])
    BY <1>1, <1>2, <1>4, Told DEF Retire, HistoryOK
<1>6. seenIn' = seenIn
    BY DEF Retire
<1>7. \A u \in Track : tracks'[u] = IF u \in Expired(at) THEN None ELSE tracks[u]
    BY DEF Retire
<1>8. ASSUME NEW u \in Track, NEW z \in Zone
      PROVE  Within(Missing(u, z)', dwells'[u][z])
    <2>1. /\ seenIn[u][z] \in Int /\ told[u][z] \in Int /\ told'[u][z] \in Int
          /\ dwells[u][z] \in Nat /\ dwells'[u][z] \in Nat
          /\ Open(u, z) \in Int /\ d[u][z] \in Nat
        BY <1>1, <1>5, OpenType DEF HistoryOK
    <2>2. Within(seenIn[u][z] - told[u][z] - Open(u, z), dwells[u][z])
        BY DEF HistoryOK, Missing
    <2>3. Open(u, z)' = IF u \in Expired(at) THEN 0 ELSE Open(u, z)
        BY <1>7 DEF Open, Tracked
    <2>4. d[u][z] = IF u \in Expired(at) THEN Open(u, z) ELSE 0
        BY <1>3
    <2>5. Open(u, z)' \in Int /\ Open(u, z) + 0 = d[u][z] + Open(u, z)'
        BY <2>1, <2>3, <2>4
    <2>6. \/ d[u][z] = 0 /\ told'[u][z] = told[u][z] /\ dwells'[u][z] = dwells[u][z]
          \/ told'[u][z] = told[u][z] + Rounded(d[u][z]) /\ dwells'[u][z] = dwells[u][z] + 1
        BY <1>5 DEF Paid
    <2>7. Missing(u, z)' = seenIn[u][z] - told'[u][z] - Open(u, z)'
        BY <1>6 DEF Missing
    <2>8. 0 \in Int /\ seenIn[u][z] + 0 = seenIn[u][z]
        BY <2>1
    <2>9. Within((seenIn[u][z] + 0) - told'[u][z] - Open(u, z)', dwells'[u][z])
        BY <2>1, <2>2, <2>5, <2>6, <2>8, PaidBalances
    <2> QED
        BY <2>7, <2>8, <2>9
<1> QED
    BY <1>5, <1>6, <1>8 DEF HistoryOK

\* The zones a handler leaves a track in are entered by now; without shelves
\* they are no shelf zones.
LEMMA ZonesAfter ==
    ASSUME TracksOK, VisitsOK, ShelvesOK, ElsewhereOK, NEW t \in Track, NEW place \in Place,
           \/ DoorSees(t, place) \/ ShelfSees(t, place)
           \/ TillSees(t, place) \/ StaffSees(t, place)
    PROVE  \E zones :
             /\ Sees(t, place, zones)
             /\ \A z \in DOMAIN zones : zones[z] <= now
             /\ camera.role = "shelves" => zones = ShelfZones(Known(t, place).zones, place)
             /\ camera.role # "shelves" => place \notin Zone /\ DOMAIN zones \cap Zone = {}
<1> DEFINE before == Known(t, place).zones
<1>1. /\ Known(t, place) \in TrackInfo /\ before \in ZonesActive
      /\ Known(t, place).seen <= now /\ Known(t, place).seen \in Nat /\ now \in Nat
    BY KnownType DEF TrackInfo, TracksOK
<1>2. ASSUME NEW z \in DOMAIN before PROVE before[z] <= now
    <2>1. before[z] \in Nat
        BY <1>1 DEF ZonesActive
    <2>2. Tracked(t) /\ Known(t, place) = tracks[t]
        BY KnownType, NoZones
    <2>3. before[z] <= Known(t, place).seen
        BY <2>2 DEF VisitsOK
    <2> QED
        BY <1>1, <2>1, <2>3
<1>3. camera.role # "shelves" => DOMAIN before \cap Zone = {}
    BY KnownType, NoZones DEF ElsewhereOK
<1>4. \A z \in {Counter, Announced} : z \notin Zone
    BY TrackAssumption
<1>5. \A at : at = now => at <= now
    BY <1>1
<1> HIDE DEF before
<1>6. CASE DoorSees(t, place)
    <2>1. Sees(t, place, before)
        BY <1>6, DoorStep DEF before
    <2>2. camera.role # "shelves" /\ place \notin Zone
        BY <1>6, TrackAssumption DEF DoorSees
    <2> QED
        BY <1>2, <1>3, <2>1, <2>2
<1>7. CASE StaffSees(t, place)
    <2>1. PICK zones \in {<<>>, before} : Sees(t, place, zones)
        BY <1>7, StaffStep DEF before
    <2>2. camera.role # "shelves" /\ place \notin Zone
        BY <1>7, TrackAssumption DEF StaffSees
    <2>3. /\ \A z \in DOMAIN zones : zones[z] <= now
          /\ DOMAIN zones \cap Zone = {}
        BY <1>2, <1>3, <2>1, <2>2, NoZones
    <2> QED
        BY <2>1, <2>2, <2>3
<1>8. ASSUME NEW z \in Zone \cup {Counter, Announced}, NEW zones \in ZonesActive,
             \A y \in DOMAIN zones : zones[y] <= now
      PROVE  \A y \in DOMAIN With(zones, z, now) : With(zones, z, now)[y] <= now
    BY <1>1, <1>8 DEF With
<1>9. CASE TillSees(t, place)
    <2> DEFINE zones == TillZones(before, place)
    <2>1. place \in {Counter, None} /\ Sees(t, place, zones)
        BY <1>9, TillStep DEF before
    <2>2. camera.role # "shelves" /\ place \notin Zone
        BY <1>4, <1>9, <2>1, TrackAssumption DEF TillSees
    <2>3. /\ \A y \in DOMAIN zones : zones[y] <= now
          /\ DOMAIN zones \subseteq DOMAIN before \cup {Counter, Announced}
        <3>1. CASE zones = <<>>
            BY <3>1, NoZones
        <3>2. CASE zones = before
            BY <1>2, <3>2
        <3>3. ASSUME NEW z \in {Counter, Announced}, zones = With(before, z, now)
              PROVE  /\ \A y \in DOMAIN zones : zones[y] <= now
                     /\ DOMAIN zones \subseteq DOMAIN before \cup {Counter, Announced}
            <4>1. DOMAIN With(before, z, now) = DOMAIN before \cup {z}
                BY DEF With
            <4>2. \A y \in DOMAIN With(before, z, now) : With(before, z, now)[y] <= now
                BY <1>1, <1>2, <1>8
            <4> HIDE DEF zones
            <4> QED
                BY <3>3, <4>1, <4>2
        <3>4. \/ zones = <<>> \/ zones = before
              \/ zones = With(before, Counter, now) \/ zones = With(before, Announced, now)
            BY DEF TillZones
        <3> HIDE DEF zones
        <3> QED
            BY <3>1, <3>2, <3>3, <3>4
    <2>4. DOMAIN zones \cap Zone = {}
        BY <1>3, <1>4, <2>2, <2>3
    <2> HIDE DEF zones
    <2> QED
        BY <2>1, <2>2, <2>3, <2>4
<1>10. CASE ShelfSees(t, place)
    <2> DEFINE zones == ShelfZones(before, place)
               kept == Kept(before, place)
    <2>1. /\ Sees(t, place, zones) /\ zones = ShelfZones(Known(t, place).zones, place)
          /\ camera.role = "shelves" /\ place \in Zone \cup {None}
        BY <1>10, ShelfStep DEF before, ShelfSees
    <2>2. kept \in ZonesActive /\ \A y \in DOMAIN kept : kept[y] <= now
        <3>1. kept \in ZonesActive /\ DOMAIN kept = DOMAIN before \cap {place}
            BY <1>1, KeptZones
        <3>2. \A y \in DOMAIN before \cap {place} : kept[y] = before[y]
            BY DEF Kept, Restrict
        <3> HIDE DEF kept
        <3> QED
            BY <1>2, <3>1, <3>2
    <2>3. \A y \in DOMAIN zones : zones[y] <= now
        <3>1. CASE zones = kept
            BY <2>2, <3>1
        <3>2. CASE zones = With(kept, place, now) /\ place \in Zone
            <4> HIDE DEF zones, kept
            <4>1. \A y \in DOMAIN With(kept, place, now) : With(kept, place, now)[y] <= now
                BY <1>8, <2>2, <3>2
            <4> QED
                BY <3>2, <4>1
        <3> QED
            BY <2>1, <3>1, <3>2 DEF ShelfZones
    <2> HIDE DEF zones
    <2> QED
        BY <2>1, <2>3
<1> QED
    BY <1>6, <1>7, <1>9, <1>10

\* A detection preserves what is said of visits, here and elsewhere.
LEMMA DetectionVisits ==
    ASSUME TracksOK, VisitsOK, ShelvesOK, ElsewhereOK, NEW t \in Track, NEW place \in Place,
           \/ DoorSees(t, place) \/ ShelfSees(t, place)
           \/ TillSees(t, place) \/ StaffSees(t, place)
    PROVE  VisitsOK' /\ ElsewhereOK'
<1>1. PICK zones :
        /\ Sees(t, place, zones)
        /\ \A z \in DOMAIN zones : zones[z] <= now
        /\ camera.role # "shelves" => place \notin Zone /\ DOMAIN zones \cap Zone = {}
    BY ZonesAfter
<1>2. PICK info \in TrackInfo :
        /\ info.point = place /\ info.seen = now /\ info.zones = zones
        /\ tracks' = [tracks EXCEPT ![t] = info]
    BY <1>1 DEF Sees
<1>3. \A u \in Track : tracks'[u] = IF u = t THEN info ELSE tracks[u]
    BY <1>2 DEF TracksOK
<1>4. camera' = camera
    BY DetectionKeeps
<1>5. IsFiniteSet({u \in Track : Tracked(u)'})
    <2>1. IsFiniteSet({u \in Track : Tracked(u)} \cup {t})
        BY FS_AddElement DEF VisitsOK
    <2>2. {u \in Track : Tracked(u)'} \in SUBSET ({u \in Track : Tracked(u)} \cup {t})
        BY <1>3 DEF Tracked
    <2> QED
        BY <2>1, <2>2, FS_Subset
<1>6. VisitsOK'
    <2>1. ASSUME NEW u \in Track, Tracked(u)', NEW z \in DOMAIN tracks'[u].zones
          PROVE  tracks'[u].zones[z] <= tracks'[u].seen
        <3>1. CASE u = t
            BY <1>1, <1>2, <1>3, <2>1, <3>1
        <3>2. CASE u # t
            BY <1>3, <2>1, <3>2 DEF VisitsOK, Tracked
        <3> QED
            BY <3>1, <3>2
    <2> QED
        BY <1>5, <2>1 DEF VisitsOK
<1>7. ElsewhereOK'
    BY <1>1, <1>2, <1>3, <1>4 DEF ElsewhereOK, Tracked
<1> QED
    BY <1>6, <1>7

LEMMA LoopVisits ==
    ASSUME TracksOK, VisitsOK, ElsewhereOK, NextFrame \/ NextFrameAfterGc \/ Stop \/ UNCHANGED vars
    PROVE  VisitsOK' /\ ElsewhereOK'
<1>1. Rests /\ camera' = camera
    BY LoopStep
<1>2. IsFiniteSet({u \in Track : Tracked(u)'})
    <2>1. {u \in Track : Tracked(u)'} \in SUBSET {u \in Track : Tracked(u)}
        BY <1>1 DEF Rests, Tracked
    <2> QED
        BY <2>1, FS_Subset DEF VisitsOK
<1>3. VisitsOK'
    BY <1>1, <1>2 DEF VisitsOK, Rests, Tracked
<1>4. ElsewhereOK'
    BY <1>1 DEF ElsewhereOK, Rests, Tracked
<1> QED
    BY <1>3, <1>4

LEMMA ShelfAccounts ==
    ASSUME TracksOK, VisitsOK, ShelvesOK, HistoryOK, NEW t \in Track, NEW place \in Place,
           ShelfSees(t, place)
    PROVE  HistoryOK'
<1> DEFINE before == Known(t, place).zones
           left(z) == Tracked(t) /\ z \in DOMAIN tracks[t].zones \ {place}
           d == [u \in Track |-> [z \in Zone |->
                   IF u = t /\ left(z) THEN now - tracks[t].zones[z] ELSE 0]]
<1>1. /\ camera.role = "shelves" /\ place \in Zone \cup {None} /\ now \in Nat
      /\ InFrame(t)
    BY DEF ShelfSees, TracksOK
<1>2. PICK info \in TrackInfo :
        /\ info.point = place /\ info.seen = now /\ info.zones = ShelfZones(before, place)
        /\ tracks' = [tracks EXCEPT ![t] = info]
    BY ShelfStep DEF Sees
<1>3. /\ before \in ZonesActive
      /\ Tracked(t) => before = tracks[t].zones
      /\ ~ Tracked(t) => DOMAIN before = {}
    BY KnownType, NoZones DEF TrackInfo
<1>4. Tracked(t) => /\ tracks[t].seen \in Nat
                    /\ DOMAIN before = {tracks[t].point} \ {None}
                    /\ \A z \in DOMAIN before : before[z] \in Nat
    BY <1>1, <1>3 DEF TracksOK, Tracked, TrackInfo, ZonesActive, ShelvesOK
<1>5. \A z \in DOMAIN info.zones : z = place
    <2>1. DOMAIN before \subseteq Zone
        BY <1>1, <1>3, <1>4 DEF ShelvesOK
    <2> HIDE DEF before
    <2>2. DOMAIN ShelfZones(before, place) = {place} \ {None}
        BY <1>1, <1>3, <2>1, ShelfZonesType
    <2> QED
        BY <1>2, <2>2
<1>6. place \in Zone =>
        /\ place \in DOMAIN info.zones
        /\ info.zones[place] = IF place \in DOMAIN before THEN before[place] ELSE now
    <2> SUFFICES ASSUME place \in Zone
                 PROVE  /\ place \in DOMAIN info.zones
                        /\ info.zones[place] = IF place \in DOMAIN before THEN before[place] ELSE now
        OBVIOUS
    <2>1. place # None
        BY TrackAssumption
    <2>2. /\ Kept(before, place) \in ZonesActive
          /\ DOMAIN Kept(before, place) = DOMAIN before \cap {place}
        BY <1>3, KeptZones
    <2>3. CASE place \in DOMAIN before
        <3>1. Kept(before, place)[place] = before[place]
            BY <2>3 DEF Kept, Restrict
        <3> HIDE DEF before
        <3> QED
            BY <1>2, <2>2, <2>3, <3>1 DEF ShelfZones
    <2>4. CASE place \notin DOMAIN before
        <3> HIDE DEF before
        <3>1. /\ DOMAIN With(Kept(before, place), place, now) = DOMAIN Kept(before, place) \cup {place}
              /\ With(Kept(before, place), place, now)[place] = now
            BY DEF With
        <3> QED
            BY <1>2, <2>1, <2>4, <3>1 DEF ShelfZones
    <2> QED
        BY <2>3, <2>4
<1> HIDE DEF before
<1>7. \A u \in Track : \A z \in Zone :
        d[u][z] = IF u = t /\ left(z) THEN now - tracks[t].zones[z] ELSE 0
    OBVIOUS
<1>8. d \in [Track -> [Zone -> Nat]]
    <2>1. ASSUME NEW z \in Zone, left(z) PROVE now - tracks[t].zones[z] \in Nat
        <3>1. tracks[t].zones[z] \in Nat /\ tracks[t].seen \in Nat
            BY <1>3, <1>4, <2>1
        <3>2. tracks[t].zones[z] <= tracks[t].seen /\ tracks[t].seen <= now
            BY <2>1 DEF VisitsOK, TracksOK
        <3> QED
            BY <1>1, <3>1, <3>2
    <2> HIDE DEF left
    <2> QED
        BY <2>1
<1> HIDE DEF d
<1>9. \A u \in Track : \A z \in Zone : Publishes(out', u, z, d[u][z])
    BY <1>7, ShelfPublishes
<1>10. out' \in Seq(Envelope)
    BY ShelfPublishes
<1>11. ASSUME NEW z \in Zone
       PROVE  Open(t, z) + Watched(t, z)
              = d[t][z] + IF z \in DOMAIN info.zones THEN now - info.zones[z] ELSE 0
    <2> DEFINE stays == IF z \in DOMAIN info.zones THEN now - info.zones[z] ELSE 0
    <2>1. z # None
        BY TrackAssumption
    <2>2. CASE Tracked(t) /\ tracks[t].point = z /\ place = z
        <3>1. z \in DOMAIN before /\ info.zones[z] = before[z] /\ z \in DOMAIN info.zones
            BY <1>4, <1>6, <2>1, <2>2
        <3>2. /\ Open(t, z) = tracks[t].seen - before[z]
              /\ Watched(t, z) = now - tracks[t].seen
              /\ d[t][z] = 0 /\ stays = now - before[z]
            BY <1>3, <1>7, <2>2, <3>1 DEF Open, Watched
        <3> QED
            BY <1>1, <1>4, <2>2, <3>1, <3>2
    <2>3. CASE Tracked(t) /\ tracks[t].point = z /\ place # z
        <3>1. z \in DOMAIN before /\ z \notin DOMAIN info.zones
            BY <1>4, <1>5, <2>1, <2>3
        <3>2. /\ Open(t, z) = tracks[t].seen - before[z]
              /\ Watched(t, z) = now - tracks[t].seen
              /\ d[t][z] = now - before[z] /\ stays = 0
            BY <1>3, <1>7, <2>3, <3>1 DEF Open, Watched
        <3> QED
            BY <1>1, <1>4, <2>3, <3>1, <3>2
    <2>4. CASE ~ (Tracked(t) /\ tracks[t].point = z)
        <3>1. z \notin DOMAIN before
            BY <1>3, <1>4, <2>4
        <3>2. stays = 0
            <4>1. CASE place = z
                BY <1>1, <1>6, <3>1, <4>1
            <4>2. CASE place # z
                BY <1>5, <4>2
            <4> QED
                BY <4>1, <4>2
        <3>3. Open(t, z) = 0 /\ Watched(t, z) = 0 /\ d[t][z] = 0
            BY <1>3, <1>7, <2>4, <3>1 DEF Open, Watched
        <3> QED
            BY <3>2, <3>3
    <2> QED
        BY <2>2, <2>3, <2>4
<1>12. Settles(t, info, d)
    BY <1>7, <1>11 DEF Settles
<1> QED
    BY <1>1, <1>2, <1>8, <1>9, <1>10, <1>12, DetectionAccounts

LEMMA OthersAccount ==
    ASSUME TracksOK, VisitsOK, ShelvesOK, ElsewhereOK, HistoryOK,
           NEW t \in Track, NEW place \in Place,
           DoorSees(t, place) \/ TillSees(t, place) \/ StaffSees(t, place)
    PROVE  HistoryOK'
<1> DEFINE d == [u \in Track |-> [z \in Zone |-> 0]]
<1>1. camera.role # "shelves" /\ InFrame(t)
    BY DEF DoorSees, TillSees, StaffSees
<1>2. PICK zones : Sees(t, place, zones) /\ DOMAIN zones \cap Zone = {}
    BY <1>1, ZonesAfter
<1>3. PICK info \in TrackInfo :
        info.seen = now /\ info.zones = zones /\ tracks' = [tracks EXCEPT ![t] = info]
    BY <1>2 DEF Sees
<1>4. out' \in Seq(Envelope) /\ \A u, z : Publishes(out', u, z, 0)
    BY OthersPublished, OthersPublish
<1>5. d \in [Track -> [Zone -> Nat]] /\ \A u \in Track : \A z \in Zone : d[u][z] = 0
    OBVIOUS
<1> HIDE DEF d
<1>6. \A z \in Zone : Open(t, z) = 0 /\ Watched(t, z) = 0
    BY <1>1 DEF ElsewhereOK, Open, Watched
<1>7. \A z \in Zone : z \notin DOMAIN info.zones
    BY <1>2, <1>3
<1>8. Settles(t, info, d)
    BY <1>5, <1>6, <1>7 DEF Settles
<1>9. \A u \in Track : \A z \in Zone : Publishes(out', u, z, d[u][z])
    BY <1>4, <1>5
<1> QED
    BY <1>1, <1>3, <1>4, <1>5, <1>8, <1>9, DetectionAccounts

\* Frames without a gc say and see nothing.
LEMMA FrameAccounts ==
    ASSUME TracksOK, HistoryOK, NextFrame \/ UNCHANGED vars
    PROVE  HistoryOK'
BY DEF NextFrame, vars, history, HistoryOK, Missing, Open, Tracked

DwellInv == VisitsOK /\ ElsewhereOK /\ HistoryOK

LEMMA DwellStep == TracksOK /\ ShelvesOK /\ DwellInv /\ [Next]_vars => DwellInv'
<1> SUFFICES ASSUME TracksOK, ShelvesOK, DwellInv, [Next]_vars PROVE DwellInv'
    OBVIOUS
<1> USE DEF DwellInv
<1>1. ASSUME NEW t \in Track, NEW place \in Place,
             \/ DoorSees(t, place) \/ ShelfSees(t, place)
             \/ TillSees(t, place) \/ StaffSees(t, place)
      PROVE  DwellInv'
    <2>1. VisitsOK' /\ ElsewhereOK'
        BY <1>1, DetectionVisits
    <2>2. HistoryOK'
        BY <1>1, ShelfAccounts, OthersAccount
    <2> QED
        BY <2>1, <2>2
<1>2. CASE NextFrame \/ NextFrameAfterGc \/ Stop \/ UNCHANGED vars
    <2>1. VisitsOK' /\ ElsewhereOK'
        BY <1>2, LoopVisits
    <2>2. HistoryOK'
        BY <1>2, GcAccounts, FrameAccounts DEF NextFrameAfterGc, Stop
    <2> QED
        BY <2>1, <2>2
<1> QED
    BY <1>1, <1>2 DEF Next

LEMMA DwellInvariant == Spec => [](TracksOK /\ ShelvesOK /\ DwellInv)
<1>1. Init => ShelvesOK /\ DwellInv
    <2> SUFFICES ASSUME Init PROVE ShelvesOK /\ DwellInv
        OBVIOUS
    <2>1. \A t \in Track : ~ Tracked(t)
        BY DEF Init, Tracked
    <2>2. IsFiniteSet({t \in Track : Tracked(t)})
        <3>1. {t \in Track : Tracked(t)} = {}
            BY <2>1
        <3> QED
            BY <3>1, FS_EmptySet
    <2>3. HistoryOK
        <3>1. /\ seenIn \in [Track -> [Zone -> Int]] /\ told \in [Track -> [Zone -> Int]]
              /\ dwells \in [Track -> [Zone -> Nat]]
            BY DEF Init
        <3>2. ASSUME NEW t \in Track, NEW z \in Zone PROVE Within(Missing(t, z), dwells[t][z])
            <4>1. Missing(t, z) = 0 /\ dwells[t][z] = 0
                BY <2>1 DEF Init, Missing, Open
            <4>2. Tenth * 0 = 0
                BY TrackAssumption
            <4> QED
                BY <4>1, <4>2 DEF Within
        <3> QED
            BY <3>1, <3>2 DEF HistoryOK
    <2> QED
        BY <2>1, <2>2, <2>3 DEF ShelvesOK, DwellInv, VisitsOK, ElsewhereOK
<1>2. TracksOK /\ ShelvesOK /\ [Next]_vars => ShelvesOK'
    BY ShelvesStep
<1> QED
    BY <1>1, <1>2, DwellStep, TracksTyped, PTL DEF Spec

\* However tracks are lost and found, retired and flushed, the dwell published
\* for a track and zone and what its open visit has run up to are the time it
\* was watched there, but for half a tenth of a second of rounding per
\* zone_dwell (track_state.py:140-191).
THEOREM DwellKept == Spec => []DwellAccounted
<1>1. HistoryOK => DwellAccounted
    BY DEF HistoryOK, Missing, Within, Open, DwellAccounted
<1> QED
    BY <1>1, DwellInvariant, PTL DEF DwellInv

-----------------------------------------------------------------------------
(* Types. *)

\* The envelopes of a step are dated by the frame it handled or before.
LEMMA OutType ==
    ASSUME TracksOK, ShelvesOK, DwellInv, Next
    PROVE  out' \in Seq(Envelope)
<1>1. ASSUME NEW t \in Track, NEW place \in Place,
             \/ DoorSees(t, place) \/ ShelfSees(t, place)
             \/ TillSees(t, place) \/ StaffSees(t, place)
      PROVE  out' \in Seq(Envelope)
    BY <1>1, ShelfPublishes, OthersPublished DEF DwellInv
<1>2. CASE NextFrame
    BY <1>2, NothingPublished DEF NextFrame
<1>3. CASE NextFrameAfterGc \/ Stop
    BY <1>3, GcPublishes DEF NextFrameAfterGc, Stop, DwellInv
<1> QED
    BY <1>1, <1>2, <1>3 DEF Next

StampsOK ==
    /\ camera \in Camera /\ now \in 0..MaxTime /\ running \in BOOLEAN
    /\ \A i \in DOMAIN out : out[i].ts \in 0..now

LEMMA StampsStep ==
    TracksOK /\ ShelvesOK /\ DwellInv /\ StampsOK /\ [Next]_vars => StampsOK'
<1> SUFFICES ASSUME TracksOK, ShelvesOK, DwellInv, StampsOK, [Next]_vars PROVE StampsOK'
    OBVIOUS
<1>1. MaxTime \in Nat /\ \A d \in Steps : d \in Nat
    BY TrackAssumption
<1>2. CASE Next
    <2>1. /\ now' \in 0..MaxTime /\ now <= now' /\ running' \in BOOLEAN
        <3>1. ASSUME Advance PROVE now' \in 0..MaxTime /\ now <= now'
            BY <1>1, <3>1 DEF Advance, StampsOK
        <3>2. ASSUME NEW t, NEW place,
                     \/ DoorSees(t, place) \/ ShelfSees(t, place)
                     \/ TillSees(t, place) \/ StaffSees(t, place)
              PROVE  UNCHANGED <<now, running>>
            BY <3>2 DEF DoorSees, ShelfSees, TillSees, StaffSees, InFrame
        <3>3. CASE NextFrame \/ NextFrameAfterGc
            BY <3>1, <3>3 DEF NextFrame, NextFrameAfterGc, StampsOK
        <3>4. CASE Stop \/ UNCHANGED <<now, running>>
            <4>1. now \in 0..MaxTime /\ running \in BOOLEAN
                BY DEF StampsOK
            <4>2. now' = now /\ (running' = FALSE \/ running' = running)
                BY <3>4 DEF Stop
            <4>3. now' \in 0..MaxTime /\ now <= now'
                BY <1>1, <4>1, <4>2
            <4>4. running' \in BOOLEAN
                BY <4>1, <4>2, Zenon
            <4> QED
                BY <4>3, <4>4
        <3> QED
            BY <1>2, <3>2, <3>3, <3>4 DEF Next
    <2>2. camera' = camera
        BY <1>2, TracksStep
    <2>3. ASSUME NEW i \in DOMAIN out' PROVE out'[i].ts \in 0..now'
        <3>1. out'[i] \in Envelope
            BY <1>2, OutType
        <3>2. out'[i].ts \in 0..now
            BY <3>1 DEF Envelope
        <3> QED
            BY <2>1, <3>2 DEF StampsOK
    <2> QED
        BY <2>1, <2>2, <2>3 DEF StampsOK
<1>3. CASE UNCHANGED vars
    BY <1>3 DEF vars, StampsOK
<1> QED
    BY <1>2, <1>3

LEMMA CameraInvariant == Spec => [](TracksOK /\ ShelvesOK /\ DwellInv /\ StampsOK)
<1>1. Init => StampsOK
    BY TrackAssumption DEF Init, StampsOK
<1> QED
    BY <1>1, StampsStep, DwellInvariant, PTL DEF Spec

\* Visits begin before the frames that show them, which are in the past; so are
\* the envelopes' stamps.
THEOREM CameraTypes == Spec => []TypeOK
<1>1. ASSUME TracksOK, VisitsOK, StampsOK PROVE TypeOK
    <2>1. ASSUME NEW t \in Track, Tracked(t) PROVE InfoOK(tracks[t])
        <3> DEFINE info == tracks[t]
        <3>1. info \in TrackInfo /\ info.seen <= now /\ now \in Nat
            BY <1>1, <2>1 DEF TracksOK, Tracked
        <3>2. /\ info.point \in Place /\ info.seen \in Nat
              /\ info.crossed \in {"in", "out", None} /\ info.zones \in ZonesActive
            BY <3>1 DEF TrackInfo
        <3>3. DOMAIN info.zones \subseteq Zone \cup {Counter, Announced}
            BY <3>2 DEF ZonesActive
        <3>4. ASSUME NEW z \in DOMAIN info.zones PROVE info.zones[z] \in 0..info.seen
            <4>1. info.zones[z] \in Nat
                BY <3>2 DEF ZonesActive
            <4>2. info.zones[z] <= info.seen
                BY <1>1, <2>1 DEF VisitsOK
            <4> QED
                BY <3>2, <4>1, <4>2
        <3> HIDE DEF info
        <3>5. InfoOK(info)
            BY <3>1, <3>2, <3>3, <3>4 DEF InfoOK
        <3> QED
            BY <3>5 DEF info
    <2> QED
        BY <1>1, <2>1 DEF TypeOK, StampsOK
<1> QED
    BY <1>1, CameraInvariant, PTL DEF DwellInv

-----------------------------------------------------------------------------
(* The door. *)

LEMMA SignOfProduct ==
    ASSUME NEW k \in Int, NEW d \in Int, k # 0
    PROVE  /\ k * d \in Int /\ (k * d = 0 <=> d = 0)
           /\ d # 0 => (k * d > 0 <=> (k > 0 <=> d > 0))
<1>1. CASE k > 0 /\ d > 0
    BY <1>1
<1>2. CASE k > 0 /\ d < 0
    <2>1. k * (-d) > 0 /\ k * d = -(k * (-d)) /\ k * d \in Int
        BY <1>2
    <2> QED
        BY <1>2, <2>1
<1>3. CASE k < 0 /\ d > 0
    <2>1. (-k) * d > 0 /\ k * d = -((-k) * d) /\ k * d \in Int
        BY <1>3
    <2> QED
        BY <1>3, <2>1
<1>4. CASE k < 0 /\ d < 0
    <2>1. (-k) * (-d) > 0 /\ k * d = (-k) * (-d)
        BY <1>4
    <2> QED
        BY <1>4, <2>1
<1>5. CASE d = 0
    BY <1>5
<1> QED
    BY <1>1, <1>2, <1>3, <1>4, <1>5

\* The side of a tripwire on which a point is says in which half of the frame it
\* is: positive is in the half that inside_side names, for "left" and "top" if
\* the tripwire is drawn down the frame or from right to left, and for "right"
\* and "bottom" if it is not.
LEMMA SideOfFrame ==
    ASSUME NEW w \in Tripwires
    PROVE  /\ w.inside \in Door
           /\ \A p \in Foot : Depth(w, p) \in Int /\ SignedSide(w.segment, p) \in Int
           /\ \E k \in Int :
                /\ k # 0
                /\ k > 0 <=> (Aligned(w) <=> w.inside \in {"left", "top"})
                /\ \A p \in Foot : SignedSide(w.segment, p) = k * Depth(w, p)
<1>1. PICK ax \in Int, ay \in Int, bx \in Int, by \in Int :
        /\ w.segment = <<<<ax, ay>>, <<bx, by>>>> /\ w.inside \in Door
        /\ IF w.inside \in {"left", "right"} THEN ax = bx /\ ay # by ELSE ay = by /\ ax # bx
    <2>1. w \in Tripwire
        BY TrackAssumption
    <2>2. w.segment \in (Int \X Int) \X (Int \X Int) /\ w.inside \in Door
        BY <2>1 DEF Tripwire
    <2>3. IF w.inside \in {"left", "right"} THEN Vertical(w) ELSE Horizontal(w)
        BY TrackAssumption
    <2>4. /\ w.segment = <<<<w.segment[1][1], w.segment[1][2]>>, <<w.segment[2][1], w.segment[2][2]>>>>
          /\ w.segment[1][1] \in Int /\ w.segment[1][2] \in Int
          /\ w.segment[2][1] \in Int /\ w.segment[2][2] \in Int
        BY <2>2
    <2> QED
        BY <2>2, <2>3, <2>4 DEF Vertical, Horizontal
<1>2. ASSUME NEW p \in Foot
      PROVE  /\ p[1] \in Int /\ p[2] \in Int
             /\ SignedSide(w.segment, p) = (bx - ax) * (p[2] - ay) - (by - ay) * (p[1] - ax)
             /\ Depth(w, p) = CASE w.inside = "left"   -> ax - p[1]
                                [] w.inside = "right"  -> p[1] - ax
                                [] w.inside = "top"    -> ay - p[2]
                                [] w.inside = "bottom" -> p[2] - ay
    <2>1. p \in Int \X Int
        BY TrackAssumption
    <2> QED
        <3>1. w.segment[1] = <<ax, ay>> /\ w.segment[2] = <<bx, by>>
            BY <1>1
        <3>2. w.segment[1][1] = ax /\ w.segment[1][2] = ay
              /\ w.segment[2][1] = bx /\ w.segment[2][2] = by
            BY <3>1
        <3>3. SignedSide(w.segment, p) = (bx - ax) * (p[2] - ay) - (by - ay) * (p[1] - ax)
            BY <3>2, Zenon DEF SignedSide
        <3>4. Depth(w, p) = CASE w.inside = "left"   -> ax - p[1]
                              [] w.inside = "right"  -> p[1] - ax
                              [] w.inside = "top"    -> ay - p[2]
                              [] w.inside = "bottom" -> p[2] - ay
            BY <3>2 DEF Depth
        <3> QED
            BY <2>1, <3>3, <3>4
<1>3. Aligned(w) <=> IF w.inside \in {"left", "right"} THEN ay < by ELSE bx < ax
    BY <1>1 DEF Aligned
<1> DEFINE k == CASE w.inside = "left"   -> by - ay
                  [] w.inside = "right"  -> ay - by
                  [] w.inside = "top"    -> ax - bx
                  [] w.inside = "bottom" -> bx - ax
<1>4. w.inside = "left" \/ w.inside = "right" \/ w.inside = "top" \/ w.inside = "bottom"
    BY <1>1 DEF Door
<1>5. /\ k \in Int /\ k # 0
      /\ k > 0 <=> (Aligned(w) <=> w.inside \in {"left", "top"})
    BY <1>1, <1>3, <1>4
<1>6. ASSUME NEW p \in Foot PROVE Depth(w, p) \in Int /\ SignedSide(w.segment, p) = k * Depth(w, p)
    <2> DEFINE x == p[1]
               y == p[2]
    <2>1. x \in Int /\ y \in Int
        BY <1>2
    <2>2. CASE w.inside = "left"
        <3>1. /\ SignedSide(w.segment, p) = (bx - ax) * (y - ay) - (by - ay) * (x - ax)
              /\ Depth(w, p) = ax - x /\ k = by - ay /\ bx - ax = 0
            BY <1>1, <1>2, <2>2
        <3> HIDE DEF k, x, y
        <3>2. (bx - ax) * (y - ay) - (by - ay) * (x - ax) = (by - ay) * (ax - x)
            BY <1>1, <2>1, <3>1
        <3> QED
            BY <1>1, <2>1, <3>1, <3>2
    <2>3. CASE w.inside = "right"
        <3>1. /\ SignedSide(w.segment, p) = (bx - ax) * (y - ay) - (by - ay) * (x - ax)
              /\ Depth(w, p) = x - ax /\ k = ay - by /\ bx - ax = 0
            BY <1>1, <1>2, <2>3
        <3> HIDE DEF k, x, y
        <3>2. (bx - ax) * (y - ay) - (by - ay) * (x - ax) = (ay - by) * (x - ax)
            BY <1>1, <2>1, <3>1
        <3> QED
            BY <1>1, <2>1, <3>1, <3>2
    <2>4. CASE w.inside = "top"
        <3>1. /\ SignedSide(w.segment, p) = (bx - ax) * (y - ay) - (by - ay) * (x - ax)
              /\ Depth(w, p) = ay - y /\ k = ax - bx /\ by - ay = 0
            BY <1>1, <1>2, <2>4
        <3> HIDE DEF k, x, y
        <3>2. (bx - ax) * (y - ay) - (by - ay) * (x - ax) = (ax - bx) * (ay - y)
            BY <1>1, <2>1, <3>1
        <3> QED
            BY <1>1, <2>1, <3>1, <3>2
    <2>5. CASE w.inside = "bottom"
        <3>1. /\ SignedSide(w.segment, p) = (bx - ax) * (y - ay) - (by - ay) * (x - ax)
              /\ Depth(w, p) = y - ay /\ k = bx - ax /\ by - ay = 0
            BY <1>1, <1>2, <2>5
        <3> HIDE DEF k, x, y
        <3>2. (bx - ax) * (y - ay) - (by - ay) * (x - ax) = (bx - ax) * (y - ay)
            BY <1>1, <2>1, <3>1
        <3> QED
            BY <1>1, <2>1, <3>1, <3>2
    <2> QED
        BY <1>4, <2>2, <2>3, <2>4, <2>5
<1> HIDE DEF k
<1>7. \A p \in Foot : SignedSide(w.segment, p) \in Int
    BY <1>5, <1>6, SignOfProduct
<1> QED
    BY <1>1, <1>5, <1>6, <1>7

Inwards == IF Aligned(camera.tripwire) THEN "person_entered" ELSE "person_exited"
Outwards == IF Aligned(camera.tripwire) THEN "person_exited" ELSE "person_entered"

\* A step from one half of the frame to the other is a crossing, and what is
\* published of it says which half it leads to.
LEMMA CrossingIsSeen ==
    ASSUME camera.tripwire \in Tripwires, NEW p \in Foot, NEW q \in Foot,
           NEW direction, direction = Crossed(camera.tripwire.segment, p, q)
    PROVE  /\ Half(p) \in {"line", "store", "mall"} /\ Half(q) \in {"line", "store", "mall"}
           /\ direction # "none" <=>
                Half(p) # "line" /\ Half(q) # "line" /\ Half(p) # Half(q)
           /\ direction # "none" =>
                (IF IsEntry(camera.tripwire.inside, direction)
                 THEN "person_entered" ELSE "person_exited")
                = IF Half(q) = "store" THEN Inwards ELSE Outwards
<1> DEFINE w == camera.tripwire
           sp == SignedSide(w.segment, p)
           sc == SignedSide(w.segment, q)
           dp == Depth(w, p)
           dc == Depth(w, q)
           up == w.inside \in {"left", "top"}
<1>1. PICK k \in Int :
        /\ k # 0
        /\ k > 0 <=> (Aligned(w) <=> up)
        /\ sp = k * dp /\ sc = k * dc
    BY SideOfFrame
<1>2. dp \in Int /\ dc \in Int /\ sp \in Int /\ sc \in Int /\ w.inside \in Door
    BY SideOfFrame
<1>3. /\ Half(p) = IF dp = 0 THEN "line" ELSE IF dp > 0 THEN "store" ELSE "mall"
      /\ Half(q) = IF dc = 0 THEN "line" ELSE IF dc > 0 THEN "store" ELSE "mall"
    BY DEF Half
<1>4. direction = IF sp = 0 \/ sc = 0 \/ (sp > 0) = (sc > 0) THEN "none"
                  ELSE IF sp > 0 THEN "left_to_right" ELSE "right_to_left"
    BY DEF Crossed
<1>5. IsEntry(w.inside, direction) <=>
        \/ up /\ direction = "right_to_left"
        \/ ~ up /\ direction = "left_to_right"
    BY <1>2 DEF IsEntry, Door
<1>6. /\ Inwards = IF Aligned(w) THEN "person_entered" ELSE "person_exited"
      /\ Outwards = IF Aligned(w) THEN "person_exited" ELSE "person_entered"
    BY DEF Inwards, Outwards
<1> HIDE DEF w, sp, sc, dp, dc, up
<1>7. /\ sp = 0 <=> dp = 0
      /\ sc = 0 <=> dc = 0
      /\ dp # 0 => (sp > 0 <=> (k > 0 <=> dp > 0))
      /\ dc # 0 => (sc > 0 <=> (k > 0 <=> dc > 0))
    <2>1. /\ sp = 0 <=> dp = 0
          /\ dp # 0 => (sp > 0 <=> (k > 0 <=> dp > 0))
        <3>1. k \in Int /\ dp \in Int /\ k # 0
            BY <1>1, <1>2
        <3>2. (k * dp = 0 <=> dp = 0) /\ (dp # 0 => (k * dp > 0 <=> (k > 0 <=> dp > 0)))
            BY <3>1, SignOfProduct
        <3> QED
            BY <1>1, <3>2
    <2>2. /\ sc = 0 <=> dc = 0
          /\ dc # 0 => (sc > 0 <=> (k > 0 <=> dc > 0))
        <3>1. k \in Int /\ dc \in Int /\ k # 0
            BY <1>1, <1>2
        <3>2. (k * dc = 0 <=> dc = 0) /\ (dc # 0 => (k * dc > 0 <=> (k > 0 <=> dc > 0)))
            BY <3>1, SignOfProduct
        <3> QED
            BY <1>1, <3>2
    <2> QED
        BY <2>1, <2>2
<1>8. /\ Half(p) \in {"line", "store", "mall"} /\ Half(q) \in {"line", "store", "mall"}
      /\ direction # "none" <=> Half(p) # "line" /\ Half(q) # "line" /\ Half(p) # Half(q)
    BY <1>1, <1>2, <1>3, <1>4, <1>7
<1>9. ASSUME direction # "none"
      PROVE  IsEntry(w.inside, direction) <=> (Aligned(w) <=> Half(q) = "store")
    <2>1. sp # 0 /\ sc # 0 /\ dp # 0 /\ dc # 0 /\ (sp > 0 <=> ~ (sc > 0))
        BY <1>2, <1>4, <1>7, <1>9
    <2>2. direction = IF sc > 0 THEN "right_to_left" ELSE "left_to_right"
        BY <1>4, <1>9, <2>1
    <2>3. IsEntry(w.inside, direction) <=> (up <=> sc > 0)
        BY <1>5, <2>2
    <2>4. sc > 0 <=> ((Aligned(w) <=> up) <=> dc > 0)
        BY <1>1, <1>7, <2>1
    <2>5. Half(q) = "store" <=> dc > 0
        BY <1>2, <1>3, <2>1
    <2> QED
        BY <2>3, <2>4, <2>5
<1> QED
    BY <1>6, <1>8, <1>9 DEF w

\* What was published of a track, and where it has been.
PassageOK(info, w) ==
    /\ info.point \in Foot /\ Half(info.point) \in w.been
    /\ info.crossed = None <=> w.said = <<>>
    /\ w.said \in {<<>>, <<Inwards>>, <<Outwards>>}
    /\ w.said # <<>> => {"store", "mall"} \subseteq w.been
    /\ "line" \notin w.been =>
         IF w.said = <<>> THEN w.been = {w.from}
         ELSE w.said = <<IF w.from = "mall" THEN Inwards ELSE Outwards>>

DoorOK ==
    camera.role = "entry_exit" => \A t \in Track : Tracked(t) => PassageOK(tracks[t], walk[t])

\* The walk after a frame in which the track is at place.
Walks(t, place, w) ==
    IF Tracked(t)
    THEN /\ w.from = walk[t].from /\ w.been = walk[t].been \cup {Half(place)}
         /\ w.said = walk[t].said \o Said
    ELSE w.from = Half(place) /\ w.been = {Half(place)} /\ w.said = Said

LEMMA PassageKept ==
    ASSUME TracksOK, DoorOK, camera.role = "entry_exit", camera.tripwire \in Tripwires,
           NEW t \in Track, NEW place \in Foot, NEW before, before = Known(t, place),
           NEW direction, direction = Crossed(camera.tripwire.segment, before.point, place),
           NEW publish \in BOOLEAN, publish <=> direction # "none" /\ before.crossed = None,
           NEW type, type = IF IsEntry(camera.tripwire.inside, direction)
                            THEN "person_entered" ELSE "person_exited",
           Said = IF publish THEN <<type>> ELSE <<>>,
           NEW info, info.point = place,
           info.crossed = None <=> ~ publish /\ before.crossed = None,
           NEW w, Walks(t, place, w)
    PROVE  PassageOK(info, w)
<1>1. before.point \in Foot
    BY KnownType DEF DoorOK, PassageOK, Place
<1>2. /\ Half(before.point) \in {"line", "store", "mall"}
      /\ Half(place) \in {"line", "store", "mall"}
      /\ direction # "none" <=>
           Half(before.point) # "line" /\ Half(place) # "line" /\ Half(before.point) # Half(place)
      /\ direction # "none" => type = IF Half(place) = "store" THEN Inwards ELSE Outwards
    BY <1>1, CrossingIsSeen
<1>3. CASE ~ Tracked(t)
    <2>1. before.point = place /\ before.crossed = None
        BY <1>3 DEF Known, Info
    <2>2. ~ publish /\ Said = <<>>
        BY <1>2, <2>1
    <2> QED
        BY <1>3, <2>1, <2>2 DEF PassageOK, Walks
<1>4. CASE Tracked(t)
    <2> DEFINE old == walk[t]
    <2>1. /\ before = tracks[t] /\ PassageOK(before, old)
          /\ w.from = old.from /\ w.been = old.been \cup {Half(place)} /\ w.said = old.said \o Said
        BY <1>4 DEF Known, DoorOK, Walks
    <2> HIDE DEF old
    <2>2. CASE publish
        <3>1. old.said = <<>> /\ Half(before.point) \in old.been
            BY <2>1, <2>2 DEF PassageOK
        <3>7. Said = <<type>> /\ <<>> \o <<type>> = <<type>>
            BY <2>2
        <3>8. w.said = <<type>>
            BY <2>1, <3>1, <3>7
        <3>2. \/ Half(before.point) = "mall" /\ Half(place) = "store" /\ type = Inwards
              \/ Half(before.point) = "store" /\ Half(place) = "mall" /\ type = Outwards
            BY <1>2, <2>2
        <3>3. {"store", "mall"} \subseteq w.been
            BY <2>1, <3>1, <3>2
        <3>4. "line" \notin w.been => w.from = Half(before.point)
            BY <2>1, <3>1 DEF PassageOK
        <3>5. w.said # <<>> /\ w.said \in {<<>>, <<Inwards>>, <<Outwards>>}
            BY <3>2, <3>8
        <3>6. "line" \notin w.been => w.said = <<IF w.from = "mall" THEN Inwards ELSE Outwards>>
            BY <3>2, <3>4, <3>8
        <3> QED
            BY <2>1, <2>2, <3>3, <3>5, <3>6 DEF PassageOK
    <2>3. CASE ~ publish
        <3>1. w.said = old.said
            BY <2>1, <2>3 DEF PassageOK
        <3>2. ASSUME "line" \notin w.been, old.said = <<>> PROVE w.been = {w.from}
            <4>1. direction = "none" /\ old.been = {old.from} /\ Half(before.point) \in old.been
                BY <2>1, <2>3, <3>2 DEF PassageOK
            <4>2. Half(before.point) = Half(place)
                BY <1>2, <2>1, <3>2, <4>1
            <4> QED
                BY <2>1, <4>1, <4>2
        <3> QED
            BY <2>1, <2>3, <3>1, <3>2 DEF PassageOK
    <2> QED
        BY <2>2, <2>3
<1> QED
    BY <1>3, <1>4

LEMMA DoorsStep ==
    TracksOK /\ HistoryTyped /\ StampsOK /\ DoorOK /\ [Next]_vars => DoorOK'
<1> SUFFICES ASSUME TracksOK, HistoryTyped, StampsOK, DoorOK, [Next]_vars,
                    camera'.role = "entry_exit"
             PROVE  DoorOK'
    BY DEF DoorOK
<1>1. camera' = camera /\ camera.role = "entry_exit"
    BY TracksStep
<1>2. camera.tripwire \in Tripwires
    BY <1>1 DEF StampsOK, Camera
<1>3. \A info, w : PassageOK(info, w)' <=> PassageOK(info, w)
    BY <1>1 DEF PassageOK, Half, Inwards, Outwards
<1>4. ASSUME NEW t \in Track, NEW place \in Place, DoorSees(t, place)
      PROVE  DoorOK'
    <2> DEFINE before == Known(t, place)
               direction == Crossed(camera.tripwire.segment, before.point, place)
               publish == direction # "none" /\ before.crossed = None
               entry == IsEntry(camera.tripwire.inside, direction)
               type == IF entry THEN "person_entered" ELSE "person_exited"
               info == [before EXCEPT !.point = place, !.seen = now,
                           !.crossed = IF publish THEN (IF entry THEN "in" ELSE "out") ELSE @]
    <2>1. /\ place \in Foot /\ before \in TrackInfo /\ now \in Nat
          /\ None \notin {"in", "out"} /\ camera.role = "entry_exit"
        BY <1>4, KnownType, TrackAssumption DEF DoorSees, TracksOK
    <2>2. tracks' = [tracks EXCEPT ![t] = info]
        BY <1>4 DEF DoorSees
    <2>3. out' = IF publish THEN <<Event(type, t, None, 0, now)>> ELSE <<>>
        BY <1>4 DEF DoorSees
    <2>4. /\ walk'[t] = IF Tracked(t)
                        THEN [from |-> walk[t].from, been |-> walk[t].been \cup {Half(place)},
                              said |-> walk[t].said \o Said]
                        ELSE [from |-> Half(place), been |-> {Half(place)}, said |-> Said]
          /\ \A u \in Track \ {t} : walk'[u] = walk[u]
        BY <1>4 DEF DoorSees, Walk, HistoryTyped
    <2>5. Walks(t, place, walk'[t])
        BY <2>4 DEF Walks
    <2>6. publish \in BOOLEAN /\ entry \in BOOLEAN
        BY Zenon DEF IsEntry
    <2>7. /\ info.point = place
          /\ info.crossed = IF publish THEN (IF entry THEN "in" ELSE "out") ELSE before.crossed
        BY <2>1 DEF TrackInfo
    <2>8. info.crossed = None <=> ~ publish /\ before.crossed = None
        BY <2>1, <2>7
    <2>9. Said = IF publish THEN <<type>> ELSE <<>>
        <3>1. Event(type, t, None, 0, now).type = type
            BY DEF Event
        <3> HIDE DEF publish, type
        <3> QED
            BY <2>3, <3>1, SaidNothing, SaidOne
    <2>10. \A u \in Track : tracks'[u] = IF u = t THEN info ELSE tracks[u]
        BY <2>2 DEF TracksOK
    <2> HIDE DEF info, before
    <2>11. PassageOK(info, walk'[t])
        <3> DEFINE is == publish
                   said == type
                   by == direction
                   w == walk'[t]
        <3>1. /\ before = Known(t, place)
              /\ by = Crossed(camera.tripwire.segment, before.point, place)
              /\ is \in BOOLEAN
              /\ is <=> by # "none" /\ before.crossed = None
              /\ said = IF IsEntry(camera.tripwire.inside, by)
                        THEN "person_entered" ELSE "person_exited"
            BY <2>6 DEF before
        <3>2. Said = IF is THEN <<said>> ELSE <<>>
            BY <2>9
        <3>3. /\ info.point = place
              /\ info.crossed = None <=> ~ is /\ before.crossed = None
            BY <2>7, <2>8
        <3>4. Walks(t, place, w)
            BY <2>5
        <3> HIDE DEF is, said, by, w
        <3>5. PassageOK(info, w)
            BY <1>1, <1>2, <2>1, <3>1, <3>2, <3>3, <3>4, PassageKept
        <3> QED
            BY <3>5 DEF w
    <2>12. ASSUME NEW u \in Track, Tracked(u)' PROVE PassageOK(tracks'[u], walk'[u])
        <3>1. CASE u = t
            BY <2>10, <2>11, <3>1
        <3>2. CASE u # t
            BY <1>1, <2>4, <2>10, <2>12, <3>2 DEF DoorOK, Tracked
        <3> QED
            BY <3>1, <3>2
    <2> QED
        BY <1>3, <2>12 DEF DoorOK
<1>5. CASE NextFrame \/ NextFrameAfterGc \/ Stop \/ UNCHANGED vars
    <2>1. Rests
        BY <1>5, LoopStep
    <2>2. \A t \in Track : tracks'[t] # None => tracks'[t] = tracks[t] /\ walk'[t] = walk[t]
        BY <1>5, <2>1, LoopHistory DEF Rests
    <2>3. \A t \in Track : Tracked(t)' => PassageOK(tracks'[t], walk'[t])
        BY <1>1, <2>2 DEF DoorOK, Tracked
    <2> QED
        BY <1>3, <2>3 DEF DoorOK
<1>6. ASSUME NEW t \in Track, NEW place \in Place,
             ShelfSees(t, place) \/ TillSees(t, place) \/ StaffSees(t, place)
      PROVE  FALSE
    BY <1>1, <1>6 DEF ShelfSees, TillSees, StaffSees
<1> QED
    BY <1>4, <1>5, <1>6 DEF Next

\* Whichever way the tripwire is drawn and whichever half of the frame the store
\* is in, what is published of a track agrees with the halves it was seen in: it
\* is reported once, by its first way across, and not without having been in
\* both; and an entry leads into the half that inside_side names just when the
\* tripwire is drawn down the frame or from its right to its left
\* (track_state.py:83-119, geom.py:18-44).
THEOREM DoorReportsPassages == Spec => []DoorReports
<1>1. Init => DoorOK
    BY DEF Init, DoorOK, Tracked
<1>2. TracksOK /\ HistoryTyped /\ StampsOK /\ DoorOK /\ [Next]_vars => DoorOK'
    BY DoorsStep
<1>3. ASSUME DoorOK PROVE DoorReports
    <2> SUFFICES ASSUME camera.role = "entry_exit", NEW t \in Track, Tracked(t)
                 PROVE  LET w == walk[t]
                            both == {"store", "mall"} \subseteq w.been
                        IN  /\ w.said \in {<<>>, <<Inwards>>, <<Outwards>>}
                            /\ w.said # <<>> => both
                            /\ both /\ "line" \notin w.been =>
                                 w.said = <<IF w.from = "mall" THEN Inwards ELSE Outwards>>
        BY DEF DoorReports, Inwards, Outwards
    <2>1. PassageOK(tracks[t], walk[t])
        BY <1>3 DEF DoorOK
    <2>2. {"store", "mall"} \subseteq walk[t].been => walk[t].been # {walk[t].from}
        <3>1. "store" # "mall"
            OBVIOUS
        <3> QED
            BY <3>1
    <2> QED
        BY <2>1, <2>2 DEF PassageOK
<1> QED
    BY <1>1, <1>2, <1>3, CameraInvariant, HistoriesTyped, PTL DEF Spec
=============================================================================
