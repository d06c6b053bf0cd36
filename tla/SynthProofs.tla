---------------------------- MODULE SynthProofs ----------------------------
(***************************************************************************)
(* A timeline of any length leaves nobody in the store, and what cut runs  *)
(* abandon there is bounded, for any customers, trips and pauses, at any   *)
(* pace, with any number of failures, signals, kills and restarts; and the *)
(* first timeline teaches the store what the simulator knows.              *)
(***************************************************************************)
EXTENDS Synth, SessionStoreProofs, FiniteSetTheorems, WellFoundedInduction

-----------------------------------------------------------------------------
(* Counting up.                                                            *)

\* A set of numbers has a least one.
LEMMA LeastNumber ==
    ASSUME NEW S \in SUBSET Nat, S # {}
    PROVE  \E n \in S : \A m \in S : n <= m
<1>1. PICK R : IsWellFoundedOn(R, Nat) /\ \A x, y \in Nat : y < x => <<y, x>> \in R
    <2>1. \A x, y \in Nat : y < x => <<y, x>> \in OpToRel(<, Nat)
        BY DEF OpToRel
    <2> QED
        BY <2>1, NatLessThanWellFounded
<1>2. PICK n \in S : \A m \in S : ~ (<<m, n>> \in R)
    <2>1. \E n \in S : \A m \in S : ~ (<<m, n>> \in R)
        BY <1>1, WFMin
    <2> QED
        BY <2>1
<1>3. ASSUME NEW m \in S PROVE n <= m
    <2>1. n \in Nat /\ m \in Nat
        OBVIOUS
    <2>2. ~ (m < n)
        BY <1>1, <1>2, <2>1
    <2> QED
        BY <2>1, <2>2
<1> QED
    BY <1>3

\* A set of numbers that has 0 and the successor of what it has.
LEMMA CountUp ==
    ASSUME NEW n \in Nat, NEW S, 0 \in S,
           \A i \in 0..(n - 1) : i \in S => i + 1 \in S
    PROVE  \A i \in 0..n : i \in S
<1> DEFINE Missing == {i \in 0..n : i \notin S}
<1> SUFFICES ASSUME Missing # {} PROVE FALSE
    OBVIOUS
<1>1. Missing \in SUBSET Nat
    OBVIOUS
<1>2. PICK i \in Missing : \A j \in Missing : i <= j
    BY <1>1, LeastNumber
<1>3. i \in 0..n /\ i # 0 /\ i \notin S
    BY <1>2
<1>4. i - 1 \in 0..(n - 1) /\ i - 1 \notin Missing
    BY <1>2, <1>3
<1>5. i - 1 \in S
    BY <1>4
<1> QED
    BY <1>3, <1>4, <1>5

-----------------------------------------------------------------------------
(* A session's events.                                                     *)

Item == [type : EventType, label : Label \cup {None}, at : Nat,
         zone : Zone \cup {None}, dwell : Nat]

\* What a timeline may hold: the events of a zone name it, and only a dwell lasts.
Items == {ev \in Item : /\ ev.type \in {"zone_entered", "zone_dwell"} => ev.zone \in Zone
                        /\ ev.type # "zone_dwell" => ev.dwell = 0}

\* The moments at which a trip's stations are reached, as far as the n-th.
Moments(c, trip, enter, n) ==
    c = [v \in 0..n |->
            IF v = 0 THEN enter + Pauses["walk"]
            ELSE c[v - 1] + trip.stroll[v].dwell + Pauses["hop"]]

LEMMA CursorIs ==
    ASSUME NEW trip \in Trip, NEW enter
    PROVE  Moments(Cursor(trip, enter), trip, enter, Len(trip.stroll))
<1> DEFINE n == Len(trip.stroll)
           S == {m \in 0..n : \E c : Moments(c, trip, enter, m)}
<1>0. n \in Nat
    BY DEF Trip, Stroll
<1>1. 0 \in S
    <2>1. Moments([v \in 0..0 |-> enter + Pauses["walk"]], trip, enter, 0)
        BY DEF Moments
    <2> QED
        BY <1>0, <2>1
<1>2. ASSUME NEW m \in 0..(n - 1), m \in S PROVE m + 1 \in S
    <2>1. PICK c : Moments(c, trip, enter, m)
        BY <1>2
    <2> DEFINE d == [v \in 0..(m + 1) |->
                        IF v = 0 THEN enter + Pauses["walk"]
                        ELSE c[v - 1] + trip.stroll[v].dwell + Pauses["hop"]]
    <2>2. \A v \in 0..m : c[v] = IF v = 0 THEN enter + Pauses["walk"]
                                 ELSE c[v - 1] + trip.stroll[v].dwell + Pauses["hop"]
        BY <2>1 DEF Moments
    <2>3. \A v \in 0..m : d[v] = c[v]
        BY <2>2
    <2>4. ASSUME NEW v \in 0..(m + 1), v # 0 PROVE d[v - 1] = c[v - 1]
        <3>1. v - 1 \in 0..m
            BY <2>4
        <3> HIDE DEF d
        <3> QED
            BY <2>3, <3>1
    <2>5. d = [v \in 0..(m + 1) |->
                  IF v = 0 THEN enter + Pauses["walk"]
                  ELSE d[v - 1] + trip.stroll[v].dwell + Pauses["hop"]]
        BY <2>4
    <2> HIDE DEF d
    <2>6. Moments(d, trip, enter, m + 1)
        BY <2>5 DEF Moments
    <2>7. m + 1 \in 0..n
        BY <1>0
    <2> QED
        BY <2>6, <2>7
<1>3. n \in S
    <2> HIDE DEF S
    <2>1. \A i \in 0..n : i \in S
        BY <1>0, <1>1, <1>2, CountUp
    <2> HIDE DEF n
    <2> QED
        BY <1>0, <2>1
<1>4. Cursor(trip, enter) = CHOOSE c : Moments(c, trip, enter, n)
    BY DEF Cursor, Moments
<1> QED
    BY <1>3, <1>4

\* They are moments after the customer entered, and time passes from each to the
\* last: that spent at the shelf.
LEMMA CursorGrows ==
    ASSUME NEW trip \in Trip, NEW enter \in Nat
    PROVE  LET n == Len(trip.stroll)
               c == Cursor(trip, enter)
           IN  /\ \A v \in 0..n : c[v] \in Nat /\ c[v] >= enter
               /\ \A v \in 1..n : c[v - 1] + trip.stroll[v].dwell <= c[n]
<1> DEFINE n == Len(trip.stroll)
           c == Cursor(trip, enter)
           S == {m \in 0..n : /\ c[m] \in Nat /\ c[m] >= enter
                              /\ \A v \in 1..m : /\ c[v - 1] + trip.stroll[v].dwell <= c[m]
                                                 /\ c[v - 1] \in Nat}
<1>0. /\ n \in Nat /\ \A v \in 1..n : trip.stroll[v].dwell \in Nat
      /\ Pauses["walk"] \in Nat /\ Pauses["hop"] \in Nat
    <2> DEFINE Station == [zone : Zone, dwell : Nat \ {0}]
    <2>1. trip.stroll \in Seq(Station)
        BY DEF Trip, Stroll
    <2>2. n \in Nat /\ \A v \in 1..n : trip.stroll[v] \in Station
        <3> HIDE DEF Station
        <3> QED
            BY <2>1
    <2>3. Pauses["walk"] \in Nat /\ Pauses["hop"] \in Nat
        BY SynthAssumption
    <2> QED
        BY <2>2, <2>3
<1>1. \A v \in 0..n : c[v] = IF v = 0 THEN enter + Pauses["walk"]
                             ELSE c[v - 1] + trip.stroll[v].dwell + Pauses["hop"]
    <2>1. Moments(c, trip, enter, n)
        BY CursorIs
    <2> HIDE DEF c, n
    <2> QED
        BY <2>1 DEF Moments
<1> HIDE DEF c, n
<1>2. 0 \in S
    BY <1>0, <1>1
<1>3. ASSUME NEW m \in 0..(n - 1), m \in S PROVE m + 1 \in S
    <2>1. m + 1 \in 1..n /\ m + 1 \in 0..n /\ m + 1 # 0 /\ (m + 1) - 1 = m
        BY <1>0
    <2>2. c[m + 1] = c[m] + trip.stroll[m + 1].dwell + Pauses["hop"]
        BY <1>1, <2>1
    <2>3. c[m] \in Nat /\ c[m] >= enter
        BY <1>3
    <2>4. trip.stroll[m + 1].dwell \in Nat
        BY <1>0, <2>1
    <2>5. c[m + 1] \in Nat /\ c[m + 1] >= enter /\ c[m] + trip.stroll[m + 1].dwell <= c[m + 1]
          /\ c[m] <= c[m + 1]
        BY <1>0, <2>2, <2>3, <2>4
    <2>6. ASSUME NEW v \in 1..(m + 1)
          PROVE  c[v - 1] + trip.stroll[v].dwell <= c[m + 1] /\ c[v - 1] \in Nat
        <3>1. CASE v = m + 1
            <4>1. v - 1 = m
                BY <1>0, <3>1
            <4> QED
                BY <2>3, <2>5, <3>1, <4>1
        <3>2. CASE v # m + 1
            <4>1. v \in 1..m /\ v \in 1..n
                BY <1>0, <3>2
            <4>2. c[v - 1] + trip.stroll[v].dwell <= c[m] /\ c[v - 1] \in Nat
                BY <1>3, <4>1
            <4>3. trip.stroll[v].dwell \in Nat
                BY <1>0, <4>1
            <4> QED
                BY <2>3, <2>5, <4>2, <4>3
        <3> QED
            BY <3>1, <3>2
    <2> QED
        BY <2>1, <2>5, <2>6
<1>4. \A i \in 0..n : i \in S
    <2> HIDE DEF S
    <2> QED
        BY <1>0, <1>2, <1>3, CountUp
<1>5. n \in 0..n
    BY <1>0
<1> QED
    BY <1>4, <1>5 DEF c, n

\* What At makes, and Shelf.
LEMMA AtItem ==
    ASSUME NEW type \in EventType \ {"zone_entered", "zone_dwell"},
           NEW label \in Label \cup {None}, NEW at \in Nat
    PROVE  /\ At(type, label, at) \in Items
           /\ At(type, label, at).type = type /\ At(type, label, at).label = label
           /\ At(type, label, at).at = at
BY DEF At, Item, Items

Station == [zone : Zone, dwell : Nat \ {0}]

LEMMA ShelfItems ==
    ASSUME NEW visit \in Station, NEW label \in Label, NEW at \in Nat, NEW j \in 1..2
    PROVE  LET ev == Shelf(visit, label, at)[j]
           IN  /\ ev \in Items /\ ev.type \in {"zone_entered", "zone_dwell"}
               /\ ev.label = label /\ ev.at \in at..(at + visit.dwell)
<1> DEFINE a == [At("zone_entered", label, at) EXCEPT !.zone = visit.zone]
           b == [At("zone_dwell", label, at + visit.dwell)
                    EXCEPT !.zone = visit.zone, !.dwell = visit.dwell]
<1>0. visit.dwell \in Nat
    BY DEF Station
<1>1. /\ a \in Items /\ a.type = "zone_entered"
      /\ a.label = label /\ a.at \in at..(at + visit.dwell)
    BY <1>0 DEF At, Item, Items, Station, EventType, PersonEvent
<1>2. /\ b \in Items /\ b.type = "zone_dwell"
      /\ b.label = label /\ b.at \in at..(at + visit.dwell)
    <2>1. /\ visit.zone \in Zone /\ visit.dwell \in Nat
          /\ at + visit.dwell \in Nat /\ "zone_dwell" \in EventType
        BY DEF Station, EventType, PersonEvent
    <2>2. b = [type |-> "zone_dwell", label |-> label, at |-> at + visit.dwell,
               zone |-> visit.zone, dwell |-> visit.dwell]
        <3> DEFINE e == [type |-> "zone_dwell", label |-> label, at |-> at + visit.dwell,
                         zone |-> None, dwell |-> 0]
                   f == [type |-> "zone_dwell", label |-> label, at |-> at + visit.dwell,
                         zone |-> visit.zone, dwell |-> 0]
        <3>1. At("zone_dwell", label, at + visit.dwell) = e
            BY DEF At
        <3>2. [e EXCEPT !.zone = visit.zone] = f
            OBVIOUS
        <3>3. [f EXCEPT !.dwell = visit.dwell]
                = [type |-> "zone_dwell", label |-> label, at |-> at + visit.dwell,
                   zone |-> visit.zone, dwell |-> visit.dwell]
            OBVIOUS
        <3> HIDE DEF e, f
        <3>4. b = [[e EXCEPT !.zone = visit.zone] EXCEPT !.dwell = visit.dwell]
            BY <3>1
        <3> QED
            BY <3>2, <3>3, <3>4
    <2> HIDE DEF b
    <2>3. b \in Item /\ b.type = "zone_dwell" /\ b.zone \in Zone /\ b.label = label
          /\ b.at \in at..(at + visit.dwell)
        BY <1>0, <2>1, <2>2 DEF Item
    <2> QED
        BY <2>3 DEF Items
<1>3. Shelf(visit, label, at) = <<a, b>>
    BY DEF Shelf
<1> HIDE DEF a, b
<1>4. j = 1 \/ j = 2
    OBVIOUS
<1> QED
    BY <1>1, <1>2, <1>3, <1>4

\* Browsing is neither entering nor leaving.
LEMMA BrowsedItems ==
    ASSUME NEW trip \in Trip, NEW label \in Label, NEW cursor, NEW from \in Nat, NEW to \in Nat,
           \A v \in 1..Len(trip.stroll) :
              /\ cursor[v - 1] \in Nat /\ cursor[v - 1] >= from
              /\ cursor[v - 1] + trip.stroll[v].dwell <= to
    PROVE  LET b == Browsed(trip, label, cursor)
           IN  /\ b \in Seq(Items)
               /\ \A k \in DOMAIN b : /\ b[k].type \in {"zone_entered", "zone_dwell"}
                                      /\ b[k].label = label /\ b[k].at \in from..to
<1> DEFINE n == Len(trip.stroll)
           b == Browsed(trip, label, cursor)
<1>1. n \in Nat /\ \A v \in 1..n : trip.stroll[v] \in Station
    <2>1. trip.stroll \in Seq(Station)
        BY DEF Trip, Stroll, Station
    <2> QED
        BY <2>1
<1>2. ASSUME NEW k \in 1..(2 * n)
      PROVE  /\ b[k] \in Items /\ b[k].type \in {"zone_entered", "zone_dwell"}
             /\ b[k].label = label /\ b[k].at \in from..to
    <2> DEFINE v == (k + 1) \div 2
               j == k - 2 * (v - 1)
    <2>1. v \in 1..n /\ j \in 1..2
        <3> HIDE DEF n
        <3> QED
            BY <1>1
    <2>2. b[k] = Shelf(trip.stroll[v], label, cursor[v - 1])[j]
        BY DEF Browsed
    <2> HIDE DEF b, v, j, n
    <2>3. /\ trip.stroll[v] \in Station /\ cursor[v - 1] \in Nat /\ cursor[v - 1] >= from
          /\ cursor[v - 1] + trip.stroll[v].dwell <= to
        BY <1>1, <2>1 DEF n
    <2>4. trip.stroll[v].dwell \in Nat
        BY <2>3 DEF Station
    <2>5. /\ b[k] \in Items /\ b[k].type \in {"zone_entered", "zone_dwell"} /\ b[k].label = label
          /\ b[k].at \in cursor[v - 1]..(cursor[v - 1] + trip.stroll[v].dwell)
        BY <2>1, <2>2, <2>3, ShelfItems
    <2> QED
        BY <2>3, <2>4, <2>5
<1>3. b = [k \in 1..(2 * n) |-> b[k]] /\ DOMAIN b = 1..(2 * n)
    BY DEF Browsed
<1> HIDE DEF b, n
<1>4. 2 * n \in Nat
    BY <1>1
<1>5. b \in [1..(2 * n) -> Items]
    BY <1>2, <1>3
<1>6. b \in Seq(Items)
    BY <1>4, <1>5, SeqDef
<1> QED
    BY <1>2, <1>3, <1>6 DEF b

\* Short sequences, put together.
LEMMA Joined ==
    /\ \A x : <<>> \o <<x>> = <<x>> /\ <<x>> \o <<>> = <<x>>
    /\ \A x, y : <<x>> \o <<y>> = <<x, y>>
    /\ \A x, y, z : <<x, y>> \o <<z>> = <<x, y, z>>
<1>1. \A x : <<>> \o <<x>> = <<x>>
    OBVIOUS
<1>2. \A x : <<x>> \o <<>> = <<x>>
    OBVIOUS
<1>3. ASSUME NEW x, NEW y PROVE <<x>> \o <<y>> = <<x, y>>
    <2> DEFINE S == {x, y}
               s == <<x>> \o <<y>>
               t == <<x, y>>
    <2>1. /\ s \in Seq(S) /\ Len(s) = 2
          /\ s[1] = x /\ s[2] = y
        <3>1. <<x>> \in Seq(S) /\ <<y>> \in Seq(S)
            OBVIOUS
        <3> QED
            BY <3>1, ConcatProperties
    <2>2. t \in Seq(S) /\ Len(t) = 2 /\ t[1] = x /\ t[2] = y
        OBVIOUS
    <2> HIDE DEF s, t, S
    <2>3. \A i \in 1..2 : s[i] = t[i]
        BY <2>1, <2>2
    <2>4. s = t
        BY <2>1, <2>2, <2>3, SeqEqual
    <2> QED
        BY <2>4 DEF s, t
<1>4. ASSUME NEW x, NEW y, NEW z PROVE <<x, y>> \o <<z>> = <<x, y, z>>
    <2> DEFINE S == {x, y, z}
               s == <<x, y>> \o <<z>>
               t == <<x, y, z>>
    <2>1. /\ s \in Seq(S) /\ Len(s) = 3
          /\ s[1] = x /\ s[2] = y /\ s[3] = z
        <3>1. <<x, y>> \in Seq(S) /\ <<z>> \in Seq(S)
            OBVIOUS
        <3> QED
            BY <3>1, ConcatProperties
    <2>2. t \in Seq(S) /\ Len(t) = 3 /\ t[1] = x /\ t[2] = y /\ t[3] = z
        OBVIOUS
    <2> HIDE DEF s, t, S
    <2>3. \A i \in 1..3 : s[i] = t[i]
        BY <2>1, <2>2
    <2>4. s = t
        BY <2>1, <2>2, <2>3, SeqEqual
    <2> QED
        BY <2>4 DEF s, t
<1> QED
    BY <1>1, <1>2, <1>3, <1>4

\* What a customer does is told under his label; the receipt names nobody.
CustomerEvent ==
    {"person_entered", "person_exited", "zone_entered", "zone_dwell", "checkout_observed"}

Telling(ev, label) ==
    \/ ev.type \in CustomerEvent /\ ev.label = label
    \/ ev.type = "pos_receipt" /\ ev.label = None

\* What follows the shelves: till, receipt and exit, of which the last comes last.
Leaves(r, label, from) ==
    /\ r \in Seq(Items) /\ Len(r) >= 1
    /\ \A k \in DOMAIN r : /\ r[k].type \in {"checkout_observed", "pos_receipt", "person_exited"}
                           /\ r[k].type = "person_exited" <=> k = Len(r)
                           /\ Telling(r[k], label)
                           /\ r[k].at \in from..r[Len(r)].at
    /\ \A j, k \in DOMAIN r : r[j].type = r[k].type => j = k

LEMMA TillItems ==
    ASSUME NEW trip \in Trip, NEW label \in Label, NEW at \in Nat
    PROVE  Leaves(TillAndExit(trip, label, at), label, at)
<1> DEFINE till == at + Pauses["queue"]
           leave == IF ~ trip.queues THEN at
                    ELSE IF trip.receipt = None THEN till + Pauses["browse"]
                    ELSE till + trip.receipt + Pauses["linger"]
           a == At("checkout_observed", label, till)
           b == At("pos_receipt", None, till + trip.receipt)
           c == At("person_exited", label, leave + Pauses["out"])
<1>1. /\ Pauses["queue"] \in Nat /\ Pauses["browse"] \in Nat /\ Pauses["linger"] \in Nat
      /\ Pauses["out"] \in Nat
    BY SynthAssumption
<1>2. trip.receipt # None => trip.receipt \in Nat
    BY DEF Trip
<1>3. /\ till \in Nat /\ till >= at /\ leave \in Nat /\ leave >= at
      /\ trip.queues => leave >= till
      /\ trip.queues /\ trip.receipt # None => leave >= till + trip.receipt
    BY <1>1, <1>2
<1>4. /\ a \in Items /\ a.type = "checkout_observed" /\ a.label = label /\ a.at = till
    BY <1>3, AtItem DEF EventType, PersonEvent
<1>5. trip.receipt # None =>
        /\ b \in Items /\ b.type = "pos_receipt" /\ b.label = None
        /\ b.at = till + trip.receipt
    <2> SUFFICES ASSUME trip.receipt # None
                 PROVE  /\ b \in Items /\ b.type = "pos_receipt" /\ b.label = None
                        /\ b.at = till + trip.receipt
        OBVIOUS
    <2> DEFINE w == till + trip.receipt
    <2>1. w \in Nat
        BY <1>2, <1>3
    <2>2. b = At("pos_receipt", None, w)
        OBVIOUS
    <2> HIDE DEF b, w
    <2>3. b \in Items /\ b.type = "pos_receipt" /\ b.label = None /\ b.at = w
        BY <2>1, <2>2, AtItem DEF EventType, PersonEvent
    <2> QED
        BY <2>3 DEF w
<1>6. /\ c \in Items /\ c.type = "person_exited" /\ c.label = label
      /\ c.at \in Nat /\ c.at >= leave
    <2>1. leave + Pauses["out"] \in Nat /\ leave + Pauses["out"] >= leave
        BY <1>1, <1>3
    <2> HIDE DEF leave
    <2> QED
        BY <2>1, AtItem DEF EventType, PersonEvent
<1>7. \/ TillAndExit(trip, label, at) = <<c>>
      \/ trip.queues /\ TillAndExit(trip, label, at) = <<a, c>>
      \/ trip.queues /\ trip.receipt # None /\ TillAndExit(trip, label, at) = <<a, b, c>>
    <2>1. TillAndExit(trip, label, at)
            = (IF trip.queues THEN <<a>> ELSE <<>>)
              \o (IF trip.queues /\ trip.receipt # None THEN <<b>> ELSE <<>>) \o <<c>>
        BY DEF TillAndExit
    <2> HIDE DEF a, b, c
    <2>2. CASE ~ trip.queues
        <3>1. TillAndExit(trip, label, at) = <<>> \o <<>> \o <<c>>
            BY <2>1, <2>2
        <3> QED
            BY <3>1
    <2>3. CASE trip.queues /\ trip.receipt = None
        <3>1. TillAndExit(trip, label, at) = (<<a>> \o <<>>) \o <<c>>
            BY <2>1, <2>3
        <3> QED
            BY <2>3, <3>1, Joined
    <2>4. CASE trip.queues /\ trip.receipt # None
        <3>1. TillAndExit(trip, label, at) = (<<a>> \o <<b>>) \o <<c>>
            BY <2>1, <2>4
        <3> QED
            BY <2>4, <3>1, Joined
    <2> QED
        BY <2>2, <2>3, <2>4
<1> HIDE DEF a, b, c, till, leave
<1>8. Leaves(<<c>>, label, at)
    BY <1>3, <1>6 DEF Leaves, Telling, CustomerEvent
<1>9. trip.queues => Leaves(<<a, c>>, label, at)
    BY <1>3, <1>4, <1>6 DEF Leaves, Telling, CustomerEvent
<1>10. trip.queues /\ trip.receipt # None => Leaves(<<a, b, c>>, label, at)
    BY <1>2, <1>3, <1>4, <1>5, <1>6 DEF Leaves, Telling, CustomerEvent
<1> QED
    BY <1>7, <1>8, <1>9, <1>10

\* A session begins with the only entry of its customer and ends with the only
\* exit, no event is earlier or later, and there are a checkout and a receipt at
\* most.
Shape(s, label) ==
    /\ s \in Seq(Items) /\ Len(s) >= 2
    /\ \A k \in DOMAIN s : /\ s[k].type = "person_entered" <=> k = 1
                           /\ s[k].type = "person_exited" <=> k = Len(s)
                           /\ Telling(s[k], label)
                           /\ s[k].at \in s[1].at..s[Len(s)].at
    /\ \A j, k \in DOMAIN s :
         /\ s[j].type = s[k].type
         /\ s[j].type \in {"checkout_observed", "pos_receipt"}
         => j = k

LEMMA ShapeEnds ==
    ASSUME NEW s, NEW label, Shape(s, label)
    PROVE  /\ s \in Seq(Items) /\ Len(s) >= 2
           /\ s[1].type = "person_entered" /\ s[1].label = label /\ s[1].at \in Nat
           /\ s[Len(s)].type = "person_exited" /\ s[Len(s)].label = label
           /\ s[Len(s)].at \in Nat /\ s[1].at <= s[Len(s)].at
<1> DEFINE n == Len(s)
<1>1. s \in Seq(Items) /\ n >= 2
    BY DEF Shape
<1>2. n \in Nat /\ DOMAIN s = 1..n /\ \A k \in 1..n : s[k] \in Items
    BY <1>1
<1>3. ASSUME NEW k \in 1..n
      PROVE  /\ k = 1 => s[k].type = "person_entered"
             /\ k = n => s[k].type = "person_exited"
             /\ Telling(s[k], label) /\ s[k].at \in s[1].at..s[n].at
             /\ s[k] \in Items
    BY <1>2 DEF Shape
<1> HIDE DEF n
<1>4. 1 \in 1..n /\ n \in 1..n
    BY <1>1, <1>2
<1>5. s[1] \in Items /\ s[1].type = "person_entered" /\ Telling(s[1], label)
    BY <1>3, <1>4
<1>6. /\ s[n] \in Items /\ s[n].type = "person_exited" /\ Telling(s[n], label)
      /\ s[n].at \in s[1].at..s[n].at
    BY <1>3, <1>4
<1>7. s[1].label = label /\ s[n].label = label
    BY <1>5, <1>6 DEF Telling
<1>8. s[1].at \in Nat /\ s[n].at \in Nat
    BY <1>5, <1>6 DEF Items, Item
<1> QED
    BY <1>1, <1>5, <1>6, <1>7, <1>8 DEF n

LEMMA HeadJoined ==
    ASSUME NEW S, NEW x \in S, NEW b \in Seq(S)
    PROVE  /\ <<x>> \o b \in Seq(S) /\ Len(<<x>> \o b) = 1 + Len(b)
           /\ \A k \in 1..(1 + Len(b)) : (<<x>> \o b)[k] = IF k <= 1 THEN x ELSE b[k - 1]
<1> DEFINE o == <<x>>
<1>1. o \in Seq(S) /\ Len(o) = 1 /\ o[1] = x
    OBVIOUS
<1> HIDE DEF o
<1>2. /\ o \o b \in Seq(S) /\ Len(o \o b) = Len(o) + Len(b)
      /\ \A k \in 1..(Len(o) + Len(b)) :
            (o \o b)[k] = IF k <= Len(o) THEN o[k] ELSE b[k - Len(o)]
    BY <1>1, ConcatProperties
<1>3. \A k \in 1..(1 + Len(b)) : k <= 1 => k = 1
    OBVIOUS
<1> QED
    BY <1>1, <1>2, <1>3 DEF o

LEMMA JoinedShape ==
    ASSUME NEW label, NEW from \in Nat, NEW to \in Nat, from <= to,
           NEW h \in Items, h.type = "person_entered", h.label = label, h.at = from,
           NEW b \in Seq(Items),
           \A k \in DOMAIN b : /\ b[k].type \in {"zone_entered", "zone_dwell"}
                               /\ b[k].label = label /\ b[k].at \in from..to,
           NEW r, Leaves(r, label, to)
    PROVE  Shape(<<h>> \o b \o r, label)
<1> DEFINE hb == <<h>> \o b
           s == hb \o r
           out == r[Len(r)].at
<1>2. /\ r \in Seq(Items) /\ Len(r) \in Nat /\ Len(r) >= 1
      /\ \A k \in 1..Len(r) : /\ r[k].type \in {"checkout_observed", "pos_receipt", "person_exited"}
                              /\ r[k].type = "person_exited" <=> k = Len(r)
                              /\ Telling(r[k], label)
                              /\ r[k].at \in to..out
      /\ \A j, k \in 1..Len(r) : r[j].type = r[k].type => j = k
    BY DEF Leaves
<1>3. /\ Len(b) \in Nat
      /\ \A k \in 1..Len(b) : /\ b[k].type \in {"zone_entered", "zone_dwell"}
                              /\ b[k].label = label /\ b[k].at \in from..to
    OBVIOUS
<1>4. out \in Nat /\ out >= to
    <2>1. r[Len(r)] \in Items /\ r[Len(r)].at \in to..out
        BY <1>2
    <2>2. r[Len(r)].at \in Nat
        BY <2>1 DEF Items, Item
    <2> QED
        BY <2>1, <2>2
<1>5. /\ hb \in Seq(Items) /\ Len(hb) = 1 + Len(b)
      /\ \A k \in 1..(1 + Len(b)) : hb[k] = IF k <= 1 THEN h ELSE b[k - 1]
    BY HeadJoined
<1> HIDE DEF hb
<1>6. /\ s \in Seq(Items) /\ Len(s) = Len(hb) + Len(r)
      /\ \A k \in 1..(Len(hb) + Len(r)) : s[k] = IF k <= Len(hb) THEN hb[k] ELSE r[k - Len(hb)]
    <2>1. hb \in Seq(Items) /\ r \in Seq(Items)
        BY <1>2, <1>5
    <2> QED
        BY <2>1, ConcatProperties
<1> HIDE DEF s
<1>7. Len(s) = 1 + Len(b) + Len(r) /\ DOMAIN s = 1..Len(s) /\ Len(s) >= 2
    BY <1>2, <1>3, <1>5, <1>6
<1>8. /\ s[1] = h
      /\ \A k \in 1..Len(s) : 1 < k /\ k <= 1 + Len(b) => k - 1 \in 1..Len(b) /\ s[k] = b[k - 1]
      /\ \A k \in 1..Len(s) : k > 1 + Len(b) =>
            /\ k - (1 + Len(b)) \in 1..Len(r)
            /\ s[k] = r[k - (1 + Len(b))]
    BY <1>2, <1>3, <1>5, <1>6, <1>7
<1>9. s[Len(s)] = r[Len(r)]
    <2> DEFINE n == Len(s)
    <2>1. n \in 1..Len(s) /\ n > 1 + Len(b) /\ n - (1 + Len(b)) = Len(r)
        BY <1>2, <1>3, <1>7
    <2> HIDE DEF n
    <2>2. s[n] = r[n - (1 + Len(b))]
        BY <1>8, <2>1
    <2> QED
        BY <2>1, <2>2 DEF n
<1>10. s[1].at = from /\ s[Len(s)].at = out
    BY <1>8, <1>9
<1> HIDE DEF out
<1>11. ASSUME NEW k \in 1..Len(s)
       PROVE  /\ s[k].type = "person_entered" <=> k = 1
              /\ s[k].type = "person_exited" <=> k = Len(s)
              /\ Telling(s[k], label)
              /\ s[k].at \in from..out
              /\ s[k].type \in {"checkout_observed", "pos_receipt"} => k > 1 + Len(b)
    <2>1. CASE k = 1
        BY <1>2, <1>3, <1>4, <1>7, <1>8, <2>1 DEF Telling, CustomerEvent
    <2>2. CASE 1 < k /\ k <= 1 + Len(b)
        <3>1. k - 1 \in 1..Len(b) /\ s[k] = b[k - 1] /\ k # Len(s) /\ k # 1
            BY <1>2, <1>3, <1>7, <1>8, <2>2
        <3>2. /\ s[k].type \in {"zone_entered", "zone_dwell"}
              /\ s[k].label = label /\ s[k].at \in from..to
            BY <1>3, <3>1
        <3> QED
            BY <1>4, <3>1, <3>2 DEF Telling, CustomerEvent
    <2>3. CASE k > 1 + Len(b)
        <3> DEFINE m == k - (1 + Len(b))
        <3>1. m \in 1..Len(r) /\ s[k] = r[m] /\ k # 1 /\ (m = Len(r) <=> k = Len(s))
            BY <1>2, <1>3, <1>7, <1>8, <2>3
        <3> HIDE DEF m
        <3>2. /\ s[k].type \in {"checkout_observed", "pos_receipt", "person_exited"}
              /\ s[k].type = "person_exited" <=> m = Len(r)
              /\ Telling(s[k], label)
              /\ s[k].at \in to..out
            BY <1>2, <3>1
        <3> QED
            BY <1>4, <2>3, <3>1, <3>2
    <2> QED
        BY <1>3, <2>1, <2>2, <2>3
<1>12. ASSUME NEW j \in 1..Len(s), NEW k \in 1..Len(s), s[j].type = s[k].type,
              s[j].type \in {"checkout_observed", "pos_receipt"}
       PROVE  j = k
    <2>1. j > 1 + Len(b) /\ k > 1 + Len(b)
        BY <1>11, <1>12
    <2> DEFINE m == j - (1 + Len(b))
               n == k - (1 + Len(b))
    <2>2. m \in 1..Len(r) /\ n \in 1..Len(r) /\ s[j] = r[m] /\ s[k] = r[n]
        BY <1>8, <2>1
    <2>3. m = n => j = k
        BY <1>3
    <2> HIDE DEF m, n
    <2> QED
        BY <1>2, <1>12, <2>2, <2>3
<1>13. Shape(s, label)
    BY <1>6, <1>7, <1>10, <1>11, <1>12 DEF Shape
<1> QED
    BY <1>13 DEF s, hb

LEMMA SessionIs ==
    ASSUME NEW i \in DOMAIN Customer, NEW trip \in Trip
    PROVE  Shape(SessionEvents(i, trip), Customer[i])
<1> DEFINE enter == EnterTime(i, trip)
           cursor == Cursor(trip, enter)
           last == cursor[Len(trip.stroll)]
           h == At("person_entered", Customer[i], enter)
           b == Browsed(trip, Customer[i], cursor)
           r == TillAndExit(trip, Customer[i], last)
<1>1. Customer[i] \in Label /\ i - 1 \in Nat
    BY SynthAssumption
<1>2. enter \in Nat
    <2>1. Slot \in Nat /\ trip.enter \in Nat
        BY SynthAssumption DEF Trip
    <2>2. (i - 1) * Slot \in Nat
        BY <1>1, <2>1
    <2> QED
        BY <2>1, <2>2 DEF EnterTime
<1> HIDE DEF enter
<1>3. /\ \A v \in 0..Len(trip.stroll) : cursor[v] \in Nat /\ cursor[v] >= enter
      /\ \A v \in 1..Len(trip.stroll) : cursor[v - 1] + trip.stroll[v].dwell <= last
    BY <1>2, CursorGrows
<1>4. last \in Nat /\ enter <= last
    <2>1. Len(trip.stroll) \in Nat
        BY DEF Trip, Stroll
    <2> HIDE DEF cursor
    <2> QED
        BY <1>2, <1>3, <2>1
<1> HIDE DEF cursor, last
<1>5. /\ h \in Items /\ h.type = "person_entered" /\ h.label = Customer[i] /\ h.at = enter
    BY <1>1, <1>2, AtItem DEF EventType, PersonEvent
<1>6. /\ b \in Seq(Items)
      /\ \A k \in DOMAIN b : /\ b[k].type \in {"zone_entered", "zone_dwell"}
                             /\ b[k].label = Customer[i] /\ b[k].at \in enter..last
    <2>1. Len(trip.stroll) \in Nat
        BY DEF Trip, Stroll
    <2>2. \A v \in 1..Len(trip.stroll) : v - 1 \in 0..Len(trip.stroll)
        BY <2>1
    <2> QED
        BY <1>1, <1>2, <1>3, <1>4, <2>2, BrowsedItems
<1>7. Leaves(r, Customer[i], last)
    BY <1>1, <1>4, TillItems
<1>8. SessionEvents(i, trip) = <<h>> \o b \o r
    BY DEF SessionEvents, enter, cursor, last
<1> HIDE DEF h, b, r
<1> QED
    BY <1>1, <1>2, <1>4, <1>5, <1>6, <1>7, <1>8, JoinedShape

-----------------------------------------------------------------------------
(* What generate_timeline collects.                                        *)

Staff == Len(Customer) + 1

Collected(gen) ==
    /\ DOMAIN gen = 1..Staff
    /\ \A i \in DOMAIN Customer : Shape(gen[i], Customer[i])
    /\ gen[Staff] \in Seq(Items)
    /\ \A k \in DOMAIN gen[Staff] : /\ gen[Staff][k].type = "staff_observed"
                                    /\ gen[Staff][k].label \in Label \ Range(Customer)

LEMMA GeneratedIs ==
    ASSUME NEW trips \in [DOMAIN Customer -> Trips]
    PROVE  Collected(Generated(trips))
<1> DEFINE gen == Generated(trips)
           N == Len(Customer)
<1>1. N \in Nat /\ DOMAIN Customer = 1..N /\ Customer \in Seq(Label)
    BY SynthAssumption
<1>2. \A i \in 1..(N + 1) : gen[i] = IF i <= N THEN SessionEvents(i, trips[i]) ELSE StaffTracks
    BY DEF Generated
<1>3. DOMAIN gen = 1..(N + 1)
    BY DEF Generated
<1> HIDE DEF gen, N
<1>4. ASSUME NEW i \in DOMAIN Customer
      PROVE  Shape(gen[i], Customer[i])
    <2>1. gen[i] = SessionEvents(i, trips[i])
        BY <1>1, <1>2
    <2>2. trips[i] \in Trip
        BY SynthAssumption
    <2> QED
        BY <2>1, <2>2, SessionIs
<1>5. gen[N + 1] = StaffTracks
    BY <1>1, <1>2
<1>6. /\ StaffTracks \in Seq(Items)
      /\ \A k \in DOMAIN StaffTracks : /\ StaffTracks[k].type = "staff_observed"
                                       /\ StaffTracks[k].label \in Label \ Range(Customer)
    <2> DEFINE Ping == [label : Label \ Range(Customer), at : Nat]
               n == Len(StaffPings)
    <2>1. StaffPings \in Seq(Ping)
        BY SynthAssumption
    <2>2. n \in Nat /\ DOMAIN StaffPings = 1..n /\ \A k \in 1..n : StaffPings[k] \in Ping
        <3> HIDE DEF Ping
        <3> QED
            BY <2>1
    <2>3. ASSUME NEW k \in 1..n
          PROVE  /\ StaffTracks[k] \in Items /\ StaffTracks[k].type = "staff_observed"
                 /\ StaffTracks[k].label \in Label \ Range(Customer)
        <3>1. StaffTracks[k] = At("staff_observed", StaffPings[k].label, StaffPings[k].at)
            BY <2>2 DEF StaffTracks
        <3>2. StaffPings[k].label \in Label \ Range(Customer) /\ StaffPings[k].at \in Nat
            BY <2>2
        <3> QED
            BY <3>1, <3>2, AtItem DEF EventType, PersonEvent
    <2>4. StaffTracks = [k \in 1..n |-> StaffTracks[k]]
        BY <2>2 DEF StaffTracks
    <2>5. StaffTracks \in [1..n -> Items]
        BY <2>3, <2>4
    <2>6. StaffTracks \in Seq(Items)
        BY <2>2, <2>5, SeqDef
    <2> QED
        BY <2>2, <2>3, <2>4, <2>6
<1> QED
    BY <1>3, <1>4, <1>5, <1>6 DEF Collected, Staff, gen, N

\* The positions are those of the events: finitely many, each with a time.
LEMMA PositionsAre ==
    ASSUME NEW gen, Collected(gen)
    PROVE  /\ IsFiniteSet(Positions(gen)) /\ Cardinality(Positions(gen)) \in Nat
           /\ \A a \in Positions(gen) :
                /\ a[1] \in 1..Staff /\ a[2] \in DOMAIN gen[a[1]]
                /\ a[1] \in Nat /\ a[2] \in Nat /\ a = <<a[1], a[2]>>
                /\ EventAt(gen, a) \in Items /\ EventAt(gen, a).at \in Nat
           /\ \A i \in 1..Staff : \A k \in DOMAIN gen[i] : <<i, k>> \in Positions(gen)
<1> DEFINE row(i) == {i} \X DOMAIN gen[i]
           f == [i \in 1..Staff |-> row(i)]
           rows == {row(i) : i \in DOMAIN gen}
<1>1. /\ Staff \in Nat /\ DOMAIN gen = 1..Staff
      /\ \A i \in 1..Staff : i \in DOMAIN Customer \/ i = Staff
    BY SynthAssumption DEF Staff, Collected
<1>2. ASSUME NEW i \in 1..Staff PROVE gen[i] \in Seq(Items)
    BY <1>1 DEF Collected, Shape
<1>3. ASSUME NEW i \in 1..Staff
      PROVE  IsFiniteSet(row(i))
    <2>1. Len(gen[i]) \in Nat /\ DOMAIN gen[i] = 1..Len(gen[i])
        BY <1>2
    <2>2. IsFiniteSet(DOMAIN gen[i])
        BY <2>1, FS_Interval
    <2> QED
        BY <2>2, FS_Singleton, FS_Product
<1>4. f \in Surjection(1..Staff, rows)
    BY <1>1 DEF Surjection
<1>5. IsFiniteSet(rows)
    <2>1. IsFiniteSet(1..Staff)
        BY <1>1, FS_Interval
    <2> HIDE DEF f, rows
    <2> QED
        BY <1>4, <2>1, FS_Surjection
<1>6. \A T \in rows : IsFiniteSet(T)
    BY <1>1, <1>3
<1>7. Positions(gen) = UNION rows
    BY DEF Positions
<1>8. IsFiniteSet(Positions(gen))
    <2> HIDE DEF rows
    <2> QED
        BY <1>5, <1>6, <1>7, FS_UNION
<1>9. Cardinality(Positions(gen)) \in Nat
    BY <1>8, FS_CardinalityType
<1>10. ASSUME NEW a \in Positions(gen)
       PROVE  /\ a[1] \in 1..Staff /\ a[2] \in DOMAIN gen[a[1]]
              /\ a[1] \in Nat /\ a[2] \in Nat /\ a = <<a[1], a[2]>>
              /\ EventAt(gen, a) \in Items /\ EventAt(gen, a).at \in Nat
    <2>1. PICK i \in 1..Staff : a \in row(i)
        BY <1>1, <1>7
    <2>2. a[1] = i /\ a[2] \in DOMAIN gen[i] /\ a = <<a[1], a[2]>>
        BY <2>1
    <2>3. gen[i] \in Seq(Items)
        BY <1>2
    <2>4. a[2] \in Nat /\ gen[i][a[2]] \in Items
        BY <2>2, <2>3
    <2>5. gen[i][a[2]].at \in Nat
        BY <2>4 DEF Items, Item
    <2> QED
        BY <1>1, <2>2, <2>4, <2>5 DEF EventAt
<1>11. ASSUME NEW i \in 1..Staff, NEW k \in DOMAIN gen[i]
       PROVE  <<i, k>> \in Positions(gen)
    <2>1. <<i, k>> \in row(i)
        OBVIOUS
    <2> QED
        BY <1>1, <1>7, <2>1
<1> QED
    BY <1>8, <1>9, <1>10, <1>11

\* Before is a total order: of two events one comes first.
LEMMA SoonerTotal ==
    ASSUME NEW gen, Collected(gen), NEW a \in Positions(gen), NEW b \in Positions(gen)
    PROVE  /\ ~ Sooner(gen, a, a)
           /\ a # b => Sooner(gen, a, b) \/ Sooner(gen, b, a)
           /\ Sooner(gen, a, b) => EventAt(gen, a).at <= EventAt(gen, b).at
           /\ \A c \in Positions(gen) : Sooner(gen, c, a) /\ Sooner(gen, a, b) => Sooner(gen, c, b)
<1>1. /\ a[1] \in Nat /\ a[2] \in Nat /\ a = <<a[1], a[2]>> /\ EventAt(gen, a).at \in Nat
      /\ b[1] \in Nat /\ b[2] \in Nat /\ b = <<b[1], b[2]>> /\ EventAt(gen, b).at \in Nat
    BY PositionsAre
<1>2. \A c \in Positions(gen) : c[1] \in Nat /\ c[2] \in Nat /\ EventAt(gen, c).at \in Nat
    BY PositionsAre
<1>3. ~ Sooner(gen, a, a)
    BY <1>1 DEF Sooner
<1>4. a # b => Sooner(gen, a, b) \/ Sooner(gen, b, a)
    BY <1>1 DEF Sooner
<1>5. Sooner(gen, a, b) => EventAt(gen, a).at <= EventAt(gen, b).at
    BY <1>1 DEF Sooner
<1>6. ASSUME NEW c \in Positions(gen), Sooner(gen, c, a), Sooner(gen, a, b)
      PROVE  Sooner(gen, c, b)
    BY <1>1, <1>2, <1>6 DEF Sooner
<1> QED
    BY <1>3, <1>4, <1>5, <1>6

\* An earlier event has a lower place.
LEMMA PlacesRise ==
    ASSUME NEW gen, Collected(gen), NEW a \in Positions(gen), NEW b \in Positions(gen),
           Sooner(gen, a, b)
    PROVE  Place(gen, a) < Place(gen, b)
<1> DEFINE P == Positions(gen)
           below(n) == {c \in P : Sooner(gen, c, n)}
<1>1. a \in below(b) /\ a \notin below(a)
    BY SoonerTotal
<1>2. below(a) \subseteq below(b)
    BY SoonerTotal
<1>3. IsFiniteSet(below(b)) /\ IsFiniteSet(below(a))
    <2>1. IsFiniteSet(P)
        BY PositionsAre
    <2> HIDE DEF P
    <2> QED
        BY <2>1, FS_Subset
<1>4. /\ Cardinality(below(a)) \in Nat /\ Cardinality(below(b)) \in Nat
      /\ Cardinality(below(a)) <= Cardinality(below(b))
      /\ Cardinality(below(a)) = Cardinality(below(b)) => below(a) = below(b)
    BY <1>2, <1>3, FS_Subset, FS_CardinalityType
<1>5. Place(gen, a) = Cardinality(below(a)) /\ Place(gen, b) = Cardinality(below(b))
    BY DEF Place
<1> HIDE DEF below
<1> QED
    BY <1>1, <1>4, <1>5

\* The places of the events are the numbers from 0 on, one each.
LEMMA PlacesTaken ==
    ASSUME NEW gen, Collected(gen)
    PROVE  /\ \A a \in Positions(gen) : Place(gen, a) \in 0..(Cardinality(Positions(gen)) - 1)
           /\ \A n \in 1..Cardinality(Positions(gen)) :
                \E a \in Positions(gen) : Place(gen, a) = n - 1
<1> DEFINE P == Positions(gen)
           N == Cardinality(P)
           f == [a \in P |-> Place(gen, a)]
<1>1. IsFiniteSet(P) /\ N \in Nat
    BY PositionsAre
<1>2. ASSUME NEW a \in P PROVE Place(gen, a) \in 0..(N - 1)
    <2> DEFINE below == {c \in P : Sooner(gen, c, a)}
    <2>1. a \notin below
        BY SoonerTotal
    <2>2. Place(gen, a) = Cardinality(below)
        BY DEF Place
    <2> HIDE DEF P
    <2>3. IsFiniteSet(below) /\ Cardinality(below) \in Nat
        BY <1>1, FS_Subset, FS_CardinalityType
    <2>4. Cardinality(below) <= N /\ Cardinality(below) # N
        BY <1>1, <1>2, <2>1, FS_Subset
    <2> HIDE DEF below, N
    <2> QED
        BY <1>1, <2>2, <2>3, <2>4
<1>3. ASSUME NEW a \in P, NEW b \in P, a # b PROVE Place(gen, a) # Place(gen, b)
    <2>1. Sooner(gen, a, b) \/ Sooner(gen, b, a)
        BY <1>3, SoonerTotal
    <2>2. Place(gen, a) < Place(gen, b) \/ Place(gen, b) < Place(gen, a)
        BY <1>3, <2>1, PlacesRise
    <2>3. Place(gen, a) \in 0..(N - 1) /\ Place(gen, b) \in 0..(N - 1)
        BY <1>2, <1>3
    <2> QED
        BY <2>2, <2>3
<1>4. f \in Injection(P, 0..(N - 1))
    BY <1>2, <1>3 DEF Injection, IsInjective
<1>5. IsFiniteSet(0..(N - 1)) /\ Cardinality(0..(N - 1)) = N
    <2> HIDE DEF N
    <2>1. N - 1 \in Int /\ (IF 0 > N - 1 THEN 0 ELSE (N - 1) - 0 + 1) = N
        BY <1>1
    <2> QED
        BY <2>1, FS_Interval
<1>6. f \in Surjection(P, 0..(N - 1))
    BY <1>1, <1>4, <1>5, FS_Injection
<1>7. \A p \in 0..(N - 1) : \E a \in P : f[a] = p
    BY <1>6 DEF Surjection
<1>8. \A n \in 1..N : n - 1 \in 0..(N - 1)
    BY <1>1
<1> QED
    BY <1>2, <1>7, <1>8

\* The position of the event that comes nth.
Picked(gen, n) == CHOOSE pos \in Positions(gen) : Place(gen, pos) = n - 1

\* Sorting keeps every event, each at one place, in order of time, and those of
\* one time as they were generated.
SortedFrom(t, gen) ==
    /\ t \in Seq(Items)
    /\ \A n \in DOMAIN t : Picked(gen, n) \in Positions(gen) /\ t[n] = EventAt(gen, Picked(gen, n))
    /\ \A a \in Positions(gen) : \E n \in DOMAIN t : Picked(gen, n) = a
    /\ \A m, n \in DOMAIN t : Sooner(gen, Picked(gen, m), Picked(gen, n)) => m < n
    /\ \A m, n \in DOMAIN t : Picked(gen, m) = Picked(gen, n) => m = n
    /\ \A m, n \in DOMAIN t : m < n => t[m].at <= t[n].at

LEMMA SortedIs ==
    ASSUME NEW gen, Collected(gen)
    PROVE  SortedFrom(Sorted(gen), gen)
<1> DEFINE P == Positions(gen)
           N == Cardinality(P)
           t == Sorted(gen)
           at(n) == Picked(gen, n)
<1>1. N \in Nat
    BY PositionsAre
<1>2. ASSUME NEW n \in 1..N
      PROVE  at(n) \in P /\ Place(gen, at(n)) = n - 1
    <2>1. \E a \in P : Place(gen, a) = n - 1
        BY PlacesTaken
    <2> QED
        BY <2>1 DEF Picked
<1>3. DOMAIN t = 1..N /\ \A n \in 1..N : t[n] = EventAt(gen, at(n))
    BY DEF Sorted, Picked
<1>4. t \in Seq(Items)
    <2>1. \A n \in 1..N : t[n] \in Items
        BY <1>2, <1>3, PositionsAre
    <2>2. t = [n \in 1..N |-> t[n]]
        BY DEF Sorted
    <2> HIDE DEF t, N
    <2>3. t \in [1..N -> Items]
        BY <2>1, <2>2
    <2> QED
        BY <1>1, <2>3, SeqDef
<1> HIDE DEF t
<1>5. ASSUME NEW a \in P PROVE \E n \in 1..N : at(n) = a
    <2> DEFINE n == Place(gen, a) + 1
    <2>1. Place(gen, a) \in 0..(N - 1)
        BY PlacesTaken
    <2>2. n \in 1..N /\ n - 1 = Place(gen, a)
        <3> HIDE DEF N
        <3> QED
            BY <1>1, <2>1
    <2> HIDE DEF n
    <2>3. at(n) \in P /\ Place(gen, at(n)) = Place(gen, a)
        BY <1>2, <2>2
    <2>4. ~ Sooner(gen, at(n), a) /\ ~ Sooner(gen, a, at(n))
        BY <2>1, <2>3, PlacesRise
    <2>5. at(n) = a
        BY <2>3, <2>4, SoonerTotal
    <2> QED
        BY <2>2, <2>5
<1>6. ASSUME NEW m \in 1..N, NEW n \in 1..N, Sooner(gen, at(m), at(n)) PROVE m < n
    <2>1. Place(gen, at(m)) = m - 1 /\ Place(gen, at(n)) = n - 1
        BY <1>2
    <2>2. Place(gen, at(m)) < Place(gen, at(n))
        BY <1>2, <1>6, PlacesRise
    <2> HIDE DEF at, N
    <2> QED
        BY <1>1, <2>1, <2>2
<1>7. ASSUME NEW m \in 1..N, NEW n \in 1..N, at(m) = at(n) PROVE m = n
    <2>1. m - 1 = n - 1
        BY <1>2, <1>7
    <2> QED
        BY <1>1, <2>1
<1>8. ASSUME NEW m \in 1..N, NEW n \in 1..N, m < n PROVE t[m].at <= t[n].at
    <2>1. at(m) # at(n)
        BY <1>1, <1>7, <1>8
    <2>2. Sooner(gen, at(m), at(n)) \/ Sooner(gen, at(n), at(m))
        BY <1>2, <2>1, SoonerTotal
    <2>3. ~ Sooner(gen, at(n), at(m))
        BY <1>1, <1>6, <1>8
    <2>4. EventAt(gen, at(m)).at <= EventAt(gen, at(n)).at
        BY <1>2, <2>2, <2>3, SoonerTotal
    <2> QED
        BY <1>3, <2>4
<1>9. /\ \A n \in 1..N : at(n) \in P
      /\ \A a \in P : \E n \in 1..N : at(n) = a
      /\ \A m, n \in 1..N : Sooner(gen, at(m), at(n)) => m < n
      /\ \A m, n \in 1..N : at(m) = at(n) => m = n
      /\ \A m, n \in 1..N : m < n => t[m].at <= t[n].at
    BY <1>2, <1>5, <1>6, <1>7, <1>8
<1> HIDE DEF N
<1> QED
    BY <1>3, <1>4, <1>9 DEF SortedFrom, t

\* t[n] lets a customer in; t[n] lets the person with the label out.
Enters(t, n) == n \in DOMAIN t /\ t[n].type = "person_entered"
Exits(t, n, label) == n \in DOMAIN t /\ t[n].type = "person_exited" /\ t[n].label = label

\* A customer enters once in a timeline, and leaves after that.
Coherent(t) ==
    /\ t \in Seq(Items)
    /\ \A m, n \in DOMAIN t : m < n => t[m].at <= t[n].at
    /\ \A n : Enters(t, n) =>
         t[n].label \in Range(Customer) /\ \E m : m > n /\ Exits(t, m, t[n].label)
    /\ \A m, n : Enters(t, m) /\ Enters(t, n) /\ t[m].label = t[n].label => m = n

\* Only the first event of a customer's session is an entry.
LEMMA EntryIs ==
    ASSUME NEW gen, Collected(gen), NEW a \in Positions(gen),
           EventAt(gen, a).type = "person_entered"
    PROVE  /\ a[1] \in DOMAIN Customer /\ a[2] = 1 /\ a = <<a[1], 1>>
           /\ EventAt(gen, a).label = Customer[a[1]]
<1>1. /\ a[1] \in 1..Staff /\ a[2] \in DOMAIN gen[a[1]] /\ a = <<a[1], a[2]>>
      /\ EventAt(gen, a) = gen[a[1]][a[2]]
    BY PositionsAre DEF EventAt
<1>2. a[1] # Staff
    BY <1>1 DEF Collected
<1>3. a[1] \in DOMAIN Customer
    BY <1>1, <1>2, SynthAssumption DEF Staff
<1>4. a[2] = 1 /\ Telling(EventAt(gen, a), Customer[a[1]])
    BY <1>1, <1>3 DEF Collected, Shape
<1> QED
    BY <1>1, <1>3, <1>4 DEF Telling

\* Whatever is drawn, the timeline is in order of time, and every customer
\* enters once and leaves later (synth.py:118-257).
THEOREM TimelineCoherent ==
    ASSUME NEW trips \in [DOMAIN Customer -> Trips]
    PROVE  Coherent(Timeline(trips))
<1> DEFINE gen == Generated(trips)
           t == Timeline(trips)
           at(n) == Picked(gen, n)
<1>1. Collected(gen)
    BY GeneratedIs
<1>2. SortedFrom(t, gen)
    BY <1>1, SortedIs DEF Timeline
<1> HIDE DEF gen, t
<1>3. /\ t \in Seq(Items) /\ DOMAIN t = 1..Len(t) /\ Len(t) \in Nat
      /\ \A n \in DOMAIN t : at(n) \in Positions(gen) /\ t[n] = EventAt(gen, at(n))
      /\ \A m, n \in DOMAIN t : at(m) = at(n) => m = n
      /\ \A m, n \in DOMAIN t : m < n => t[m].at <= t[n].at
    BY <1>2 DEF SortedFrom
<1>4. ASSUME NEW n, Enters(t, n)
      PROVE  /\ at(n)[1] \in DOMAIN Customer /\ at(n) = <<at(n)[1], 1>>
             /\ t[n].label = Customer[at(n)[1]]
    <2>1. n \in DOMAIN t /\ at(n) \in Positions(gen) /\ t[n] = EventAt(gen, at(n))
        BY <1>3, <1>4 DEF Enters
    <2>2. EventAt(gen, at(n)).type = "person_entered"
        BY <1>4, <2>1 DEF Enters
    <2> HIDE DEF at
    <2> QED
        BY <1>1, <2>1, <2>2, EntryIs
<1>5. ASSUME NEW n, Enters(t, n)
      PROVE  t[n].label \in Range(Customer) /\ \E m : m > n /\ Exits(t, m, t[n].label)
    <2> DEFINE i == at(n)[1]
               b == <<i, Len(gen[i])>>
    <2>1. n \in DOMAIN t /\ i \in DOMAIN Customer /\ at(n) = <<i, 1>> /\ t[n].label = Customer[i]
        BY <1>4, <1>5 DEF Enters
    <2>2. at(n) \in Positions(gen)
        BY <1>3, <2>1
    <2> HIDE DEF at, i
    <2>3. i \in 1..Staff
        BY <2>1, SynthAssumption DEF Staff
    <2>4. /\ gen[i] \in Seq(Items) /\ Len(gen[i]) >= 2
          /\ gen[i][Len(gen[i])].type = "person_exited"
          /\ gen[i][Len(gen[i])].label = Customer[i]
          /\ gen[i][1].at <= gen[i][Len(gen[i])].at
        BY <1>1, <2>1, ShapeEnds DEF Collected
    <2>5. Len(gen[i]) \in DOMAIN gen[i] /\ Len(gen[i]) \in Nat
        BY <2>4
    <2>6. b \in Positions(gen)
        BY <1>1, <2>3, <2>5, PositionsAre
    <2>7. EventAt(gen, b) = gen[i][Len(gen[i])] /\ EventAt(gen, at(n)) = gen[i][1]
        BY <2>1 DEF EventAt
    <2>8. EventAt(gen, b).at \in Nat /\ EventAt(gen, at(n)).at \in Nat
        BY <1>1, <2>2, <2>6, PositionsAre
    <2>9. b[1] = i /\ b[2] = Len(gen[i]) /\ at(n)[1] = i /\ at(n)[2] = 1
        BY <2>1
    <2> HIDE DEF b
    <2>10. Sooner(gen, at(n), b)
        BY <2>4, <2>5, <2>7, <2>8, <2>9 DEF Sooner
    <2>11. PICK m \in DOMAIN t : at(m) = b
        BY <1>2, <2>6 DEF SortedFrom, at
    <2>12. n < m
        BY <1>2, <2>1, <2>10, <2>11 DEF SortedFrom, at
    <2>13. t[m] = EventAt(gen, b)
        BY <1>3, <2>11
    <2>14. m > n /\ Exits(t, m, t[n].label)
        BY <1>3, <2>1, <2>4, <2>7, <2>11, <2>12, <2>13 DEF Exits
    <2> QED
        BY <2>1, <2>14 DEF Range
<1>6. ASSUME NEW m, NEW n, Enters(t, m), Enters(t, n), t[m].label = t[n].label
      PROVE  m = n
    <2>1. at(m)[1] = at(n)[1]
        BY <1>4, <1>6, SynthAssumption
    <2>2. at(m) = at(n)
        BY <1>4, <1>6, <2>1
    <2> QED
        BY <1>3, <1>6, <2>2 DEF Enters
<1>7. Coherent(t)
    BY <1>3, <1>5, <1>6 DEF Coherent
<1> QED
    BY <1>7 DEF t

\* c's events in the timeline: m is the first of them and the only entry, x the
\* last and the only exit.
Stays(t, c, m, x) ==
    /\ m \in DOMAIN t /\ t[m].type = "person_entered" /\ t[m].label = c
    /\ x \in DOMAIN t /\ t[x].type = "person_exited" /\ t[x].label = c
    /\ \A n \in DOMAIN t : t[n].label = c =>
         /\ m <= n /\ n <= x
         /\ t[n].type = "person_entered" => n = m
         /\ t[n].type = "person_exited" => n = x

Receipts(t) == {n \in DOMAIN t : t[n].type = "pos_receipt"}

\* Every customer's events lie between entry and exit, with a checkout at most,
\* and there are no more receipts than customers.
Orderly(t) ==
    /\ \A n \in DOMAIN t :
         \/ t[n].type \in CustomerEvent /\ t[n].label \in Range(Customer)
         \/ t[n].type = "staff_observed" /\ t[n].label \in Label \ Range(Customer)
         \/ t[n].type = "pos_receipt" /\ t[n].label = None
    /\ \A c \in Range(Customer) : \E m, x : Stays(t, c, m, x)
    /\ \A m, n \in DOMAIN t :
         /\ t[m].type = "checkout_observed" /\ t[n].type = "checkout_observed"
         /\ t[m].label = t[n].label
         => m = n
    /\ IsFiniteSet(Receipts(t)) /\ Cardinality(Receipts(t)) <= Len(Customer)

\* Whose an event is.
LEMMA EventOf ==
    ASSUME NEW gen, Collected(gen), NEW a \in Positions(gen)
    PROVE  LET ev == EventAt(gen, a)
           IN  \/ ev.type = "staff_observed" /\ ev.label \in Label \ Range(Customer)
               \/ /\ a[1] \in DOMAIN Customer /\ a[2] \in DOMAIN gen[a[1]]
                  /\ ev = gen[a[1]][a[2]] /\ Telling(ev, Customer[a[1]])
<1>1. /\ a[1] \in 1..Staff /\ a[2] \in DOMAIN gen[a[1]]
      /\ EventAt(gen, a) = gen[a[1]][a[2]]
    BY PositionsAre DEF EventAt
<1>2. CASE a[1] = Staff
    BY <1>1, <1>2 DEF Collected
<1>3. CASE a[1] # Staff
    <2>1. a[1] \in DOMAIN Customer
        BY <1>1, <1>3, SynthAssumption DEF Staff
    <2>2. Shape(gen[a[1]], Customer[a[1]])
        BY <2>1 DEF Collected
    <2>3. Telling(gen[a[1]][a[2]], Customer[a[1]])
        BY <1>1, <2>2 DEF Shape
    <2> QED
        BY <1>1, <2>1, <2>3
<1> QED
    BY <1>2, <1>3

\* An event under a customer's label is one of the customer's.
LEMMA EventOfCustomer ==
    ASSUME NEW gen, Collected(gen), NEW a \in Positions(gen), NEW i \in DOMAIN Customer,
           EventAt(gen, a).label = Customer[i]
    PROVE  a = <<i, a[2]>> /\ a[2] \in DOMAIN gen[i] /\ EventAt(gen, a) = gen[i][a[2]]
<1>1. Customer[i] \in Range(Customer) /\ Customer[i] \in Label /\ Customer[i] # None
    BY SynthAssumption, NoneAssumption DEF Range
<1>2. /\ a[1] \in DOMAIN Customer /\ a[2] \in DOMAIN gen[a[1]]
      /\ EventAt(gen, a) = gen[a[1]][a[2]] /\ Telling(EventAt(gen, a), Customer[a[1]])
    BY <1>1, EventOf
<1>3. Customer[a[1]] = Customer[i]
    BY <1>1, <1>2 DEF Telling
<1>4. a[1] = i
    BY <1>2, <1>3, SynthAssumption
<1> QED
    BY <1>2, <1>4, PositionsAre

LEMMA CustomersCounted ==
    IsFiniteSet(DOMAIN Customer) /\ Cardinality(DOMAIN Customer) = Len(Customer)
<1> DEFINE n == Len(Customer)
<1>1. n \in Nat /\ DOMAIN Customer = 1..n
    BY SynthAssumption
<1> HIDE DEF n
<1>2. n \in Int /\ 1 \in Int /\ (IF 1 > n THEN 0 ELSE n - 1 + 1) = n
    BY <1>1
<1>3. IsFiniteSet(1..n) /\ Cardinality(1..n) = IF 1 > n THEN 0 ELSE n - 1 + 1
    BY <1>2, FS_Interval
<1> QED
    BY <1>1, <1>2, <1>3 DEF n

LEMMA TimelineOrderly ==
    ASSUME NEW trips \in [DOMAIN Customer -> Trips]
    PROVE  Orderly(Timeline(trips))
<1> DEFINE gen == Generated(trips)
           t == Timeline(trips)
           at(n) == Picked(gen, n)
<1>1. Collected(gen)
    BY GeneratedIs
<1>2. SortedFrom(t, gen)
    BY <1>1, SortedIs DEF Timeline
<1> HIDE DEF gen, t
<1>3. /\ t \in Seq(Items) /\ DOMAIN t = 1..Len(t) /\ Len(t) \in Nat
      /\ \A n \in DOMAIN t : at(n) \in Positions(gen) /\ t[n] = EventAt(gen, at(n))
      /\ \A a \in Positions(gen) : \E n \in DOMAIN t : at(n) = a
      /\ \A m, n \in DOMAIN t : at(m) = at(n) => m = n
      /\ \A m, n \in DOMAIN t : Sooner(gen, at(m), at(n)) => m < n
    BY <1>2 DEF SortedFrom
<1> HIDE DEF at
<1>4. ASSUME NEW n \in DOMAIN t
      PROVE  \/ t[n].type \in CustomerEvent /\ t[n].label \in Range(Customer)
             \/ t[n].type = "staff_observed" /\ t[n].label \in Label \ Range(Customer)
             \/ t[n].type = "pos_receipt" /\ t[n].label = None
    <2>1. at(n) \in Positions(gen) /\ t[n] = EventAt(gen, at(n))
        BY <1>3
    <2>2. \A i \in DOMAIN Customer : Customer[i] \in Range(Customer)
        BY DEF Range
    <2> QED
        BY <1>1, <2>1, <2>2, EventOf DEF Telling
<1>5. ASSUME NEW c \in Range(Customer)
      PROVE  \E m, x : Stays(t, c, m, x)
    <2>1. PICK i \in DOMAIN Customer : c = Customer[i]
        BY DEF Range
    <2> DEFINE last == Len(gen[i])
    <2>2. i \in 1..Staff /\ Shape(gen[i], c)
        BY <1>1, <2>1, SynthAssumption DEF Staff, Collected
    <2>3. /\ gen[i] \in Seq(Items) /\ last \in Nat /\ last >= 2 /\ DOMAIN gen[i] = 1..last
          /\ gen[i][1].type = "person_entered" /\ gen[i][1].label = c
          /\ gen[i][last].type = "person_exited" /\ gen[i][last].label = c
        BY <2>2, ShapeEnds
    <2>4. ASSUME NEW k \in 1..last
          PROVE  /\ gen[i][k].type = "person_entered" => k = 1
                 /\ gen[i][k].type = "person_exited" => k = last
                 /\ gen[i][k].at \in Nat
                 /\ gen[i][1].at <= gen[i][k].at /\ gen[i][k].at <= gen[i][last].at
        <3>1. gen[i][k] \in Items
            BY <2>3
        <3>2. gen[i][k].at \in Nat
            BY <3>1 DEF Items, Item
        <3>3. /\ gen[i][k].type = "person_entered" => k = 1
              /\ gen[i][k].type = "person_exited" => k = last
              /\ gen[i][k].at \in gen[i][1].at..gen[i][last].at
            BY <2>2, <2>3 DEF Shape
        <3> QED
            BY <3>2, <3>3
    <2> HIDE DEF last
    <2>5. ASSUME NEW k \in 1..last PROVE <<i, k>> \in Positions(gen)
        BY <1>1, <2>2, <2>3, PositionsAre
    <2>6. 1 \in 1..last /\ last \in 1..last
        BY <2>3
    <2>7. PICK m \in DOMAIN t : at(m) = <<i, 1>>
        BY <1>3, <2>5, <2>6
    <2>8. PICK x \in DOMAIN t : at(x) = <<i, last>>
        BY <1>3, <2>5, <2>6
    <2>9. /\ t[m].type = "person_entered" /\ t[m].label = c
          /\ t[x].type = "person_exited" /\ t[x].label = c
        BY <1>3, <2>3, <2>7, <2>8 DEF EventAt
    <2>10. ASSUME NEW n \in DOMAIN t, t[n].label = c
           PROVE  /\ m <= n /\ n <= x
                  /\ t[n].type = "person_entered" => n = m
                  /\ t[n].type = "person_exited" => n = x
        <3> DEFINE k == at(n)[2]
        <3>1. at(n) = <<i, k>> /\ k \in 1..last /\ t[n] = gen[i][k]
            BY <1>1, <1>3, <2>1, <2>3, <2>10, EventOfCustomer
        <3> HIDE DEF k
        <3>2. k = 1 => n = m
            BY <1>3, <2>7, <3>1
        <3>3. k = last => n = x
            BY <1>3, <2>8, <3>1
        <3>4. k # 1 => Sooner(gen, at(m), at(n))
            <4>1. /\ at(m)[1] = i /\ at(m)[2] = 1 /\ at(n)[1] = i /\ at(n)[2] = k
                  /\ EventAt(gen, at(m)) = gen[i][1] /\ EventAt(gen, at(n)) = gen[i][k]
                BY <2>7, <3>1 DEF EventAt
            <4> QED
                BY <2>4, <2>6, <3>1, <4>1 DEF Sooner
        <3>5. k # last => Sooner(gen, at(n), at(x))
            <4>1. /\ at(x)[1] = i /\ at(x)[2] = last /\ at(n)[1] = i /\ at(n)[2] = k
                  /\ EventAt(gen, at(x)) = gen[i][last] /\ EventAt(gen, at(n)) = gen[i][k]
                BY <2>8, <3>1 DEF EventAt
            <4> QED
                BY <2>3, <2>4, <2>6, <3>1, <4>1 DEF Sooner
        <3>6. m <= n /\ n <= x
            BY <1>3, <3>2, <3>3, <3>4, <3>5
        <3> QED
            BY <2>4, <3>1, <3>2, <3>3, <3>6
    <2>11. Stays(t, c, m, x)
        BY <2>9, <2>10 DEF Stays
    <2> QED
        BY <2>11
<1>6. ASSUME NEW m \in DOMAIN t, NEW n \in DOMAIN t,
             t[m].type = "checkout_observed", t[n].type = "checkout_observed",
             t[m].label = t[n].label
      PROVE  m = n
    <2>1. PICK i \in DOMAIN Customer : t[m].label = Customer[i]
        BY <1>4, <1>6 DEF Range
    <2>2. ASSUME NEW k \in DOMAIN t, t[k].label = Customer[i]
          PROVE  at(k) = <<i, at(k)[2]>> /\ at(k)[2] \in DOMAIN gen[i] /\ t[k] = gen[i][at(k)[2]]
        <3>1. at(k) \in Positions(gen) /\ t[k] = EventAt(gen, at(k))
            BY <1>3
        <3> QED
            BY <1>1, <2>2, <3>1, EventOfCustomer
    <2>3. /\ at(m) = <<i, at(m)[2]>> /\ at(m)[2] \in DOMAIN gen[i] /\ t[m] = gen[i][at(m)[2]]
          /\ at(n) = <<i, at(n)[2]>> /\ at(n)[2] \in DOMAIN gen[i] /\ t[n] = gen[i][at(n)[2]]
        BY <1>6, <2>1, <2>2
    <2>4. Shape(gen[i], Customer[i])
        BY <1>1 DEF Collected
    <2>5. at(m)[2] = at(n)[2]
        BY <1>6, <2>3, <2>4 DEF Shape
    <2> QED
        BY <1>3, <2>3, <2>5
<1>7. IsFiniteSet(Receipts(t)) /\ Cardinality(Receipts(t)) <= Len(Customer)
    <2> DEFINE f == [n \in Receipts(t) |-> at(n)[1]]
    <2>1. ASSUME NEW n \in Receipts(t)
          PROVE  /\ n \in DOMAIN t /\ at(n)[1] \in DOMAIN Customer
                 /\ at(n)[2] \in DOMAIN gen[at(n)[1]] /\ t[n] = gen[at(n)[1]][at(n)[2]]
                 /\ at(n) = <<at(n)[1], at(n)[2]>>
                 /\ t[n].type = "pos_receipt"
        <3>1. n \in DOMAIN t /\ t[n].type = "pos_receipt"
            BY DEF Receipts
        <3>2. at(n) \in Positions(gen) /\ t[n] = EventAt(gen, at(n))
            BY <1>3, <3>1
        <3>3. /\ at(n)[1] \in DOMAIN Customer /\ at(n)[2] \in DOMAIN gen[at(n)[1]]
              /\ EventAt(gen, at(n)) = gen[at(n)[1]][at(n)[2]]
            BY <1>1, <3>1, <3>2, EventOf
        <3>4. at(n) = <<at(n)[1], at(n)[2]>>
            BY <1>1, <3>2, PositionsAre
        <3> QED
            BY <3>1, <3>2, <3>3, <3>4
    <2>2. ASSUME NEW m \in Receipts(t), NEW n \in Receipts(t), f[m] = f[n] PROVE m = n
        <3>1. at(m)[1] = at(n)[1] /\ Shape(gen[at(m)[1]], Customer[at(m)[1]])
            BY <1>1, <2>1, <2>2 DEF Collected
        <3>2. at(m)[2] = at(n)[2]
            BY <2>1, <3>1 DEF Shape
        <3> QED
            BY <1>3, <2>1, <3>1, <3>2
    <2>3. f \in Injection(Receipts(t), DOMAIN Customer)
        BY <2>1, <2>2 DEF Injection, IsInjective
    <2>4. Len(Customer) \in Nat /\ DOMAIN Customer = 1..Len(Customer)
        BY SynthAssumption
    <2>5. IsFiniteSet(DOMAIN Customer) /\ Cardinality(DOMAIN Customer) = Len(Customer)
        BY CustomersCounted
    <2> HIDE DEF f
    <2> QED
        BY <2>3, <2>5, FS_Injection
<1>8. Orderly(t)
    BY <1>4, <1>5, <1>6, <1>7 DEF Orderly
<1> QED
    BY <1>8 DEF t

-----------------------------------------------------------------------------
(* What an event does to the sessions inside.                              *)

\* A step of the store that lets a shopper in: one session, sid, is filed in
\* _by_key, new or reopened, in the place of what was open under its key.
LetsIn(key, sid) ==
    /\ DOMAIN sess' = DOMAIN sess \cup {sid}
    /\ sess'[sid].key = key
    /\ \A v \in DOMAIN sess \ {sid} : sess'[v] = sess[v]
    /\ sid \in Range(open')
    /\ \A j \in DOMAIN open' : open'[j] # sid =>
         \E i \in DOMAIN open : open'[j] = open[i] /\ sess[open[i]].key # key /\ open[i] # sid
    /\ \A i \in DOMAIN open : sess[open[i]].key # key => open[i] \in Range(open')

\* One that lets a shopper out: sid leaves _by_key with an exit time.
LetsOut(key, sid) ==
    /\ DOMAIN sess' = DOMAIN sess
    /\ sess[sid].key = key /\ sess'[sid].exited # None
    /\ \A v \in DOMAIN sess \ {sid} : sess'[v] = sess[v]
    /\ \A j \in DOMAIN open' : \E i \in DOMAIN open :
         open'[j] = open[i] /\ sess[open[i]].key # key /\ open[i] # sid
    /\ \A i \in DOMAIN open : open[i] # sid => open[i] \in Range(open')

\* One that does neither.
LetsBe ==
    /\ DOMAIN sess' = DOMAIN sess /\ open' = open
    /\ \A v \in DOMAIN sess : sess'[v].key = sess[v].key /\ sess'[v].exited = sess[v].exited

\* Put, as far as the open sessions see it.
LEMMA PutLetsIn ==
    ASSUME NEW S, open \in Seq(S), UniqueIn(open, sess), NEW key, NEW sid \in S,
           open' = Put(open, key, sid), \A i \in DOMAIN open : open[i] # sid
    PROVE  /\ sid \in Range(open')
           /\ \A j \in DOMAIN open' : open'[j] # sid =>
                \E i \in DOMAIN open :
                    open'[j] = open[i] /\ sess[open[i]].key # key /\ open[i] # sid
           /\ \A i \in DOMAIN open : sess[open[i]].key # key => open[i] \in Range(open')
<1>1. OneEntry(open', open, key, sid)
    BY PutEntries
<1>2. \A i \in DOMAIN open :
        \/ \E k \in DOMAIN open' : open'[k] = open[i]
        \/ sess[open[i]].key = key
    BY PutKeeps
<1>3. PICK k \in DOMAIN open' :
        /\ open'[k] = sid
        /\ \A j \in DOMAIN open' \ {k} :
             j \in DOMAIN open /\ open'[j] = open[j] /\ sess[open[j]].key # key
    BY <1>1 DEF OneEntry
<1>4. sid \in Range(open')
    BY <1>3 DEF Range
<1>5. ASSUME NEW j \in DOMAIN open', open'[j] # sid
      PROVE  \E i \in DOMAIN open :
                 open'[j] = open[i] /\ sess[open[i]].key # key /\ open[i] # sid
    BY <1>3, <1>5
<1>6. ASSUME NEW i \in DOMAIN open, sess[open[i]].key # key
      PROVE  open[i] \in Range(open')
    BY <1>2, <1>6 DEF Range
<1> QED
    BY <1>4, <1>5, <1>6

LEMMA EnteringLetsIn ==
    ASSUME TypeOK, FiledOnce, NEW env \in WellFormed, Reopened(env) \/ Opened(env)
    PROVE  \E sid \in DOMAIN sess' : LetsIn(Key(env), sid)
<1>1. /\ UniqueIn(open, sess) /\ open \in Seq(DOMAIN sess)
      /\ \A i \in DOMAIN open : open[i] \in DOMAIN sess /\ sess[open[i]].exited = None
    BY DEF FiledOnce, UniqueIn, TypeOK
<1>2. CASE Reopened(env)
    <2>1. PICK i \in Filed(closed, Key(env)) :
             /\ open' = Put(open, Key(env), closed[i])
             /\ sess' = [sess EXCEPT ![closed[i]] = [sess[closed[i]] EXCEPT !.exited = None]]
        BY <1>2 DEF Reopened, Update
    <2> DEFINE sid == closed[i]
    <2>2. /\ sid \in DOMAIN sess /\ sess[sid].key = Key(env) /\ sess[sid].exited # None
          /\ sess[sid] \in Session
        BY FiledType DEF FiledOnce, TypeOK
    <2>3. /\ DOMAIN sess' = DOMAIN sess /\ sess'[sid].key = Key(env)
          /\ \A v \in DOMAIN sess \ {sid} : sess'[v] = sess[v]
        BY <2>1, <2>2 DEF Session
    <2>4. open' = Put(open, Key(env), sid)
        BY <2>1
    <2> HIDE DEF sid
    <2>5. \A j \in DOMAIN open : open[j] # sid
        BY <1>1, <2>2
    <2> DEFINE S == DOMAIN sess
    <2>6. open \in Seq(S) /\ sid \in S
        BY <1>1, <2>2
    <2> HIDE DEF S
    <2>7. /\ sid \in Range(open')
          /\ \A j \in DOMAIN open' : open'[j] # sid =>
               \E k \in DOMAIN open :
                   open'[j] = open[k] /\ sess[open[k]].key # Key(env) /\ open[k] # sid
          /\ \A j \in DOMAIN open : sess[open[j]].key # Key(env) => open[j] \in Range(open')
        BY <1>1, <2>4, <2>5, <2>6, PutLetsIn
    <2>8. DOMAIN sess' = DOMAIN sess \cup {sid}
        BY <2>2, <2>3
    <2>9. LetsIn(Key(env), sid)
        BY <2>3, <2>7, <2>8 DEF LetsIn
    <2> QED
        BY <2>2, <2>3, <2>9
<1>3. CASE Opened(env)
    <2> DEFINE sid == Len(sess) + 1
    <2>1. /\ sess' = Append(sess, NewSession(Key(env), env))
          /\ open' = Put(open, Key(env), sid)
        BY <1>3 DEF Opened
    <2>2. /\ sess'[sid] = NewSession(Key(env), env)
          /\ \A v \in DOMAIN sess : sess'[v] = sess[v]
          /\ sid \notin DOMAIN sess /\ DOMAIN sess' = DOMAIN sess \cup {sid}
        BY <2>1 DEF TypeOK
    <2> HIDE DEF sid
    <2>3. sess'[sid].key = Key(env)
        BY <2>2 DEF NewSession
    <2>4. \A j \in DOMAIN open : open[j] # sid
        BY <1>1, <2>2
    <2>5. open \in Seq(DOMAIN sess') /\ sid \in DOMAIN sess'
        BY <1>1, <2>2, SeqMonotonic
    <2> DEFINE S == DOMAIN sess'
    <2>6. open \in Seq(S) /\ sid \in S
        BY <2>5
    <2> HIDE DEF S
    <2>7. LetsIn(Key(env), sid)
        BY <1>1, <2>1, <2>2, <2>3, <2>4, <2>6, PutLetsIn DEF LetsIn
    <2> QED
        BY <2>5, <2>7
<1> QED
    BY <1>2, <1>3

LEMMA ExitedLetsOut ==
    ASSUME TypeOK, FiledOnce, NEW env \in WellFormed, Exited(env)
    PROVE  \E sid \in DOMAIN sess : LetsOut(Key(env), sid)
<1>1. PICK i \in Filed(open, Key(env)) :
         /\ sess' = [sess EXCEPT ![open[i]] =
                        Restaged([sess[open[i]] EXCEPT !.exited = env.ts])]
         /\ open' = RemoveAt(open, i)
    BY DEF Exited
<1> DEFINE sid == open[i]
<1>2. /\ i \in DOMAIN open /\ sid \in DOMAIN sess
      /\ sess[sid] \in Session /\ sess[sid].key = Key(env)
    BY FiledType DEF TypeOK
<1>3. /\ DOMAIN sess' = DOMAIN sess /\ sess'[sid].exited = env.ts
      /\ \A v \in DOMAIN sess \ {sid} : sess'[v] = sess[v]
    BY <1>1, <1>2 DEF Session, Restaged
<1>4. env.ts # None
    BY EnvelopeType, NoneAssumption
<1>5. open \in Seq(DOMAIN sess) /\ UniqueIn(open, sess)
    BY DEF TypeOK, FiledOnce, UniqueIn
<1>6. ASSUME NEW j \in DOMAIN open'
      PROVE  \E k \in DOMAIN open :
                 open'[j] = open[k] /\ sess[open[k]].key # Key(env) /\ open[k] # sid
    <2>1. PICK k \in DOMAIN open \ {i} : open'[j] = open[k]
        BY <1>1, <1>2, <1>5, <1>6, RemoveAtFrom
    <2> QED
        BY <1>2, <1>5, <2>1 DEF UniqueIn
<1>7. ASSUME NEW j \in DOMAIN open, open[j] # sid
      PROVE  open[j] \in Range(open')
    <2>1. \E k \in DOMAIN open' : open'[k] = open[j]
        BY <1>1, <1>2, <1>5, <1>7, RemoveAtKeeps
    <2> QED
        BY <2>1 DEF Range
<1> HIDE DEF sid
<1>8. LetsOut(Key(env), sid)
    BY <1>2, <1>3, <1>4, <1>6, <1>7 DEF LetsOut
<1> QED
    BY <1>2, <1>8

LEMMA OthersLetBe ==
    ASSUME TypeOK, NEW env \in WellFormed, Others(env)
    PROVE  LetsBe /\ (env.type = "person_exited" => Filed(open, Key(env)) = {})
<1>1. DOMAIN sess' = DOMAIN sess
    BY DEF Others, ZoneEntered, ZoneDwell, StaffObserved, CheckoutObserved, ReceiptJoined,
           ReceiptBuffered, Ignored, Update, memory
<1>2. /\ open' = open
      /\ \A v \in DOMAIN sess : sess'[v].key = sess[v].key /\ sess'[v].exited = sess[v].exited
    BY OthersKeepExit DEF Evolution, Evolves
<1>3. ASSUME env.type = "person_exited" PROVE Filed(open, Key(env)) = {}
    <2>1. Ignored(env)
        BY <1>3 DEF Others, ZoneEntered, ZoneDwell, StaffObserved, CheckoutObserved,
                    ReceiptJoined, ReceiptBuffered, On
    <2>2. Lookup(env) = {}
        BY <1>3, <2>1 DEF Ignored, On
    <2> QED
        BY <2>2 DEF Lookup
<1> QED
    BY <1>1, <1>2, <1>3 DEF LetsBe

-----------------------------------------------------------------------------
(* The process.                                                            *)

Running == phase \in {"first", "loop"}

\* The process is where it may be in its timeline, and a run that goes on has
\* not been cut.
MainInv ==
    /\ Coherent(timeline)
    /\ now \in Nat /\ start \in 0..now /\ runs \in 1..MaxRuns
    /\ next \in 1..(Len(timeline) + 1)
    /\ phase \in {"first", "loop", "stopped", "down"}
    /\ stop => phase # "first"
    /\ cut \subseteq 1..runs /\ (Running => runs \notin cut)

LEMMA MainInit == SynthInit => MainInv
<1> SUFFICES ASSUME SynthInit PROVE MainInv
    OBVIOUS
<1>1. PICK trips \in [DOMAIN Customer -> Trips] : timeline = Timeline(trips)
    BY DEF SynthInit
<1>2. Coherent(timeline)
    BY <1>1, TimelineCoherent
<1>3. Len(timeline) \in Nat
    BY <1>2 DEF Coherent
<1>4. MaxRuns \in Nat \ {0}
    BY SynthAssumption
<1> QED
    BY <1>2, <1>3, <1>4 DEF SynthInit, MainInv, Running

LEMMA MainStep == MainInv /\ [SynthNext]_synthVars => MainInv'
<1> SUFFICES ASSUME MainInv, [SynthNext]_synthVars PROVE MainInv'
    OBVIOUS
<1>1. timeline' = timeline
    BY DEF SynthNext, Tick, Publish, Loop, RunFails, Signal, Kill, Restart, synth, synthVars
<1>2. Coherent(timeline)' /\ Len(timeline) \in Nat
    BY <1>1 DEF MainInv, Coherent, Enters, Exits
<1>3. MaxRuns \in Nat \ {0} /\ Downtimes \subseteq Nat
    BY SynthAssumption
<1>4. /\ now \in Nat /\ start \in 0..now /\ runs \in 1..MaxRuns
      /\ next \in 1..(Len(timeline) + 1)
      /\ stop => phase # "first"
      /\ cut \subseteq 1..runs /\ (Running => runs \notin cut)
      /\ phase \in {"first", "loop", "stopped", "down"}
    BY DEF MainInv
<1>5. CASE Tick
    BY <1>1, <1>2, <1>3, <1>4, <1>5 DEF Tick, main, MainInv, Running
<1>6. CASE Publish
    BY <1>1, <1>2, <1>3, <1>4, <1>6 DEF Publish, Due, Replaying, MainInv, Running
<1>7. CASE Loop
    BY <1>1, <1>2, <1>3, <1>4, <1>7 DEF Loop, Begin, MainInv, Running
<1>8. CASE RunFails
    BY <1>1, <1>2, <1>3, <1>4, <1>8 DEF RunFails, Due, Replaying, Ended, Begin, MainInv, Running
<1>9. CASE Signal
    <2>1. UNCHANGED <<next, start, runs, now>> /\ Running
        BY <1>9 DEF Signal, Replaying, Running
    <2>2. CASE phase = "first"
        <3>1. phase' = "stopped" /\ cut' = cut \cup {runs}
            BY <1>9, <2>2 DEF Signal
        <3> QED
            BY <1>1, <1>2, <1>4, <2>1, <3>1 DEF MainInv, Running
    <2>3. CASE phase # "first"
        <3>1. phase' = phase /\ cut' = cut
            BY <1>9, <2>3 DEF Signal
        <3> QED
            BY <1>1, <1>2, <1>4, <2>1, <2>3, <3>1 DEF MainInv, Running
    <2> QED
        BY <2>2, <2>3
<1>10. CASE Kill
    BY <1>1, <1>2, <1>3, <1>4, <1>10 DEF Kill, Replaying, Ended, MainInv, Running
<1>11. CASE Restart
    BY <1>1, <1>2, <1>3, <1>4, <1>11 DEF Restart, Begin, MainInv, Running
<1>12. CASE UNCHANGED synthVars
    BY <1>1, <1>2, <1>4, <1>12 DEF synthVars, main, MainInv, Running
<1> QED
    BY <1>5, <1>6, <1>7, <1>8, <1>9, <1>10, <1>11, <1>12 DEF SynthNext

\* What is published is an envelope the store can read, filed under the label
\* of the event where it has one.
LEMMA PublishedIs ==
    ASSUME MainInv, Due
    PROVE  LET ev == timeline[next]
               env == Published(ev)
           IN  /\ next \in DOMAIN timeline /\ next \in Nat
               /\ env \in WellFormed /\ env.type = ev.type
               /\ ev.label \in Label => Key(env) = ev.label
<1> DEFINE ev == timeline[next]
           env == Published(ev)
<1>1. /\ timeline \in Seq(Items) /\ next \in 1..(Len(timeline) + 1) /\ next <= Len(timeline)
      /\ runs \in Nat /\ now \in Nat
    BY SynthAssumption DEF MainInv, Coherent, Due, Replaying
<1>2. next \in DOMAIN timeline /\ next \in Nat /\ ev \in Items /\ Len(timeline) \in Nat
    BY <1>1
<1>3. runs * (Len(timeline) + 1) + next \in Nat
    <2> DEFINE m == Len(timeline) + 1
    <2>1. m \in Nat
        BY <1>2
    <2> HIDE DEF m
    <2>2. runs * m \in Nat
        BY <1>1, <2>1
    <2> QED
        BY <1>2, <2>2 DEF m
<1>4. CamTrack \in Label
    BY SynthAssumption
<1>5. /\ env.type = ev.type /\ env.embedding = ev.label
      /\ env.zone = ev.zone /\ env \in Event
    BY <1>1, <1>2, <1>3, <1>4 DEF Published, Event, Items, Item, Role
<1>6. env \in WellFormed
    BY <1>2, <1>5 DEF WellFormed, Items
<1>7. ev.label \in Label => Key(env) = ev.label
    BY <1>5, NoneAssumption DEF Key
<1> QED
    BY <1>2, <1>5, <1>6, <1>7

\* A run publishes, or leaves the store alone.
LEMMA StoreSteps ==
    ASSUME [SynthNext]_synthVars
    PROVE  Publish \/ UNCHANGED vars
BY DEF SynthNext, Tick, Loop, RunFails, Signal, Kill, Restart, synthVars

StoreInv == TypeOK /\ FiledOnce

LEMMA StoreStep == MainInv /\ StoreInv /\ [SynthNext]_synthVars => StoreInv'
<1>1. ASSUME MainInv, StoreInv, Publish PROVE StoreInv'
    <2>1. PICK env \in WellFormed : Apply(env)
        BY <1>1, PublishedIs DEF Publish
    <2> QED
        BY <1>1, <2>1, TypeOKStep, FilingStep DEF StoreInv
<1>2. ASSUME StoreInv, UNCHANGED vars PROVE StoreInv'
    BY <1>2 DEF vars, memory, StoreInv, TypeOK, FiledOnce
<1> QED
    BY <1>1, <1>2, StoreSteps

\* The process stays within its timeline, which is sorted, and is told to stop
\* in the loop only (synth.py:231-257, 318-357).
THEOREM SynthTypes == SynthSpec => []SynthTypeOK
<1>1. SynthInit => MainInv /\ StoreInv
    <2>1. Init => FiledOnce
        BY DEF Init, FiledOnce
    <2> QED
        BY <2>1, MainInit, TypeOKInit DEF SynthInit, StoreInv
<1>2. MainInv /\ StoreInv /\ [SynthNext]_synthVars => (MainInv /\ StoreInv)'
    BY MainStep, StoreStep
<1>3. MainInv /\ StoreInv => SynthTypeOK
    <2> SUFFICES ASSUME MainInv, StoreInv PROVE SynthTypeOK
        OBVIOUS
    <2>1. \A n \in 1..(Len(timeline) - 1) : timeline[n].at <= timeline[n + 1].at
        BY DEF MainInv, Coherent
    <2>2. applied \subseteq Event
        BY DEF StoreInv, TypeOK, WellFormed
    <2> QED
        BY <2>1, <2>2 DEF MainInv, SynthTypeOK
<1> QED
    BY <1>1, <1>2, <1>3, PTL DEF SynthSpec

-----------------------------------------------------------------------------
(* Nobody is left inside.                                                  *)

\* The shopper is a customer who is still to leave in the run.
ToLeave(key, n) ==
    key \in Range(Customer) /\ \E m : m >= n /\ Exits(timeline, m, key)

InsideInv == \A i \in DOMAIN open : ToLeave(sess[open[i]].key, next)

\* Who is still to leave after the event at n is still to leave after any
\* other event, unless that one lets him out; and who is to leave at all is
\* to leave when the timeline begins again.
LEMMA ToLeaveMoves ==
    ASSUME Coherent(timeline), NEW n \in Nat, NEW key, ToLeave(key, n)
    PROVE  /\ ~ Exits(timeline, n, key) => ToLeave(key, n + 1)
           /\ ToLeave(key, 1)
<1>1. PICK m : m >= n /\ Exits(timeline, m, key)
    BY DEF ToLeave
<1>2. m \in Nat /\ m >= 1
    BY <1>1 DEF Coherent, Exits
<1>3. ~ Exits(timeline, n, key) => m >= n + 1
    BY <1>1, <1>2
<1> QED
    BY <1>1, <1>2, <1>3 DEF ToLeave

LEMMA PublishKeepsInside ==
    ASSUME MainInv, StoreInv, InsideInv, Publish
    PROVE  InsideInv'
<1> DEFINE ev == timeline[next]
           env == Published(ev)
<1>1. /\ next \in DOMAIN timeline /\ next \in Nat
      /\ env \in WellFormed /\ env.type = ev.type
      /\ ev.label \in Label => Key(env) = ev.label
    BY PublishedIs DEF Publish
<1>2. Apply(env) /\ next' = next + 1 /\ timeline' = timeline
    BY DEF Publish, synth
<1> HIDE DEF env
<1>3. Coherent(timeline) /\ TypeOK /\ FiledOnce
    BY DEF MainInv, StoreInv
<1>4. \A i \in DOMAIN open :
        open[i] \in DOMAIN sess /\ sess[open[i]].key \in Label /\ ToLeave(sess[open[i]].key, next)
    <2>1. \A i \in DOMAIN open : open[i] \in DOMAIN sess /\ ToLeave(sess[open[i]].key, next)
        BY <1>3 DEF TypeOK, InsideInv
    <2>2. \A v \in DOMAIN sess : sess[v] \in Session
        BY <1>3 DEF TypeOK
    <2>3. \A v \in DOMAIN sess : sess[v].key \in Label
        BY <2>2 DEF Session
    <2> QED
        BY <2>1, <2>3
<1>5. SUFFICES \A j \in DOMAIN open' : ToLeave(sess'[open'[j]].key, next + 1)
    BY <1>2 DEF InsideInv, ToLeave, Exits
<1>6. CASE Reopened(env) \/ Opened(env)
    <2>1. ev.type = "person_entered"
        BY <1>1, <1>6 DEF Reopened, Opened, On
    <2>2. /\ ev.label \in Range(Customer) /\ \E m : m > next /\ Exits(timeline, m, ev.label)
        BY <1>1, <1>3, <2>1 DEF Coherent, Enters
    <2>3. ev.label \in Label
        BY <2>2, SynthAssumption DEF Range
    <2>4. ToLeave(Key(env), next + 1)
        <3>1. PICK m : m > next /\ Exits(timeline, m, ev.label)
            BY <2>2
        <3>2. m \in Nat
            BY <1>3, <3>1 DEF Coherent, Exits
        <3>3. m >= next + 1
            BY <1>1, <3>1, <3>2
        <3>4. ToLeave(ev.label, next + 1)
            BY <2>2, <3>1, <3>3 DEF ToLeave
        <3> QED
            BY <1>1, <2>3, <3>4
    <2>5. PICK sid : LetsIn(Key(env), sid)
        BY <1>1, <1>3, <1>6, EnteringLetsIn
    <2>6. ASSUME NEW j \in DOMAIN open' PROVE ToLeave(sess'[open'[j]].key, next + 1)
        <3>1. CASE open'[j] = sid
            BY <2>4, <2>5, <3>1 DEF LetsIn
        <3>2. CASE open'[j] # sid
            <4>1. PICK i \in DOMAIN open : open'[j] = open[i] /\ open[i] # sid
                BY <2>5, <2>6, <3>2 DEF LetsIn
            <4>2. sess'[open'[j]].key = sess[open[i]].key
                BY <1>4, <2>5, <4>1 DEF LetsIn
            <4>3. ToLeave(sess[open[i]].key, next + 1)
                <5>1. ~ Exits(timeline, next, sess[open[i]].key)
                    BY <2>1 DEF Exits
                <5> QED
                    BY <1>1, <1>3, <1>4, <5>1, ToLeaveMoves
            <4> QED
                BY <4>2, <4>3
        <3> QED
            BY <3>1, <3>2
    <2> QED
        BY <2>6
<1>7. CASE Exited(env)
    <2>1. PICK sid : LetsOut(Key(env), sid)
        BY <1>1, <1>3, <1>7, ExitedLetsOut
    <2>2. ASSUME NEW j \in DOMAIN open' PROVE ToLeave(sess'[open'[j]].key, next + 1)
        <3>1. PICK i \in DOMAIN open :
                open'[j] = open[i] /\ sess[open[i]].key # Key(env) /\ open[i] # sid
            BY <2>1, <2>2 DEF LetsOut
        <3>2. sess'[open'[j]].key = sess[open[i]].key
            BY <1>4, <2>1, <3>1 DEF LetsOut
        <3>3. ToLeave(sess[open[i]].key, next + 1)
            <4>1. ~ Exits(timeline, next, sess[open[i]].key)
                BY <1>1, <1>4, <3>1 DEF Exits
            <4> QED
                BY <1>1, <1>3, <1>4, <4>1, ToLeaveMoves
        <3> QED
            BY <3>2, <3>3
    <2> QED
        BY <2>2
<1>8. CASE Others(env)
    <2>1. LetsBe /\ (env.type = "person_exited" => Filed(open, Key(env)) = {})
        BY <1>1, <1>3, <1>8, OthersLetBe
    <2>2. ASSUME NEW j \in DOMAIN open' PROVE ToLeave(sess'[open'[j]].key, next + 1)
        <3>1. j \in DOMAIN open /\ open'[j] = open[j] /\ sess'[open'[j]].key = sess[open[j]].key
            BY <1>4, <2>1, <2>2 DEF LetsBe
        <3>2. ~ Exits(timeline, next, sess[open[j]].key)
            BY <1>1, <1>4, <2>1, <3>1 DEF Exits, Filed
        <3>3. ToLeave(sess[open[j]].key, next + 1)
            BY <1>1, <1>3, <1>4, <3>1, <3>2, ToLeaveMoves
        <3> QED
            BY <3>1, <3>3
    <2> QED
        BY <2>2
<1> QED
    BY <1>2, <1>6, <1>7, <1>8 DEF Apply, Others

LEMMA InsideStep == MainInv /\ StoreInv /\ InsideInv /\ [SynthNext]_synthVars => InsideInv'
<1>1. ASSUME MainInv, StoreInv, InsideInv, [SynthNext]_synthVars, ~ Publish
      PROVE  InsideInv'
    <2>1. /\ UNCHANGED <<sess, open, timeline>> /\ next' \in {next, 1}
        BY <1>1 DEF SynthNext, Tick, Loop, RunFails, Signal, Kill, Restart, Begin,
                    synthVars, synth, main, vars, memory
    <2>2. Coherent(timeline) /\ next \in Nat
        BY <1>1 DEF MainInv
    <2>3. \A key : ToLeave(key, next) => ToLeave(key, next')
        BY <2>1, <2>2, ToLeaveMoves
    <2>4. \A i \in DOMAIN open' : ToLeave(sess'[open'[i]].key, next')
        BY <1>1, <2>1, <2>3 DEF InsideInv
    <2> QED
        BY <2>1, <2>4 DEF InsideInv, ToLeave, Exits
<1> QED
    BY <1>1, PublishKeepsInside

LEMMA InsideInit == SynthInit => MainInv /\ StoreInv /\ InsideInv
<1>1. Init => FiledOnce /\ InsideInv
    BY DEF Init, FiledOnce, InsideInv
<1> QED
    BY <1>1, MainInit, TypeOKInit DEF SynthInit, StoreInv

LEMMA InsideEmpty ==
    ASSUME MainInv, StoreInv, InsideInv, Complete
    PROVE  open = <<>>
<1>1. timeline \in Seq(Items) /\ next > Len(timeline) /\ next \in Nat
    BY DEF MainInv, Coherent, Complete
<1>2. \A key, m : m >= next => ~ Exits(timeline, m, key)
    BY <1>1 DEF Exits
<1>3. DOMAIN open = {}
    BY <1>2 DEF InsideInv, ToLeave
<1>4. open \in Seq(DOMAIN sess)
    BY DEF StoreInv, TypeOK
<1> QED
    BY <1>3, <1>4

\* The customers of a timeline are all out at its end, also those that an
\* earlier run left inside (synth.py:214-228, 345-352).
THEOREM NobodyStaysInside == SynthSpec => []NobodyLeftInside
<1>1. MainInv /\ StoreInv /\ InsideInv /\ [SynthNext]_synthVars
        => (MainInv /\ StoreInv /\ InsideInv)'
    BY MainStep, StoreStep, InsideStep
<1>2. MainInv /\ StoreInv /\ InsideInv => NobodyLeftInside
    BY InsideEmpty DEF NobodyLeftInside
<1> QED
    BY <1>1, <1>2, InsideInit, PTL DEF SynthSpec

-----------------------------------------------------------------------------
(* Orphans come of cut runs.                                               *)

\* The shopper is still to enter in the run.
ToEnter(key, n) ==
    \E m : m >= n /\ Enters(timeline, m) /\ timeline[m].label = key

Unclosed == {v \in DOMAIN sess : sess[v].exited = None}

\* Who was inside when an earlier run was cut, orphaned already or as soon as
\* the customer enters again.
Abandoned == {v \in Unclosed : v \in Range(open) => ToEnter(sess[v].key, next)}

Lost == IF Running THEN Abandoned ELSE Unclosed

CutInv == Cardinality(Lost) <= Cardinality(cut) * Len(Customer)

\* The store holds finitely many sessions, of which one per customer is open.
LEMMA OpenFew ==
    ASSUME StoreInv, InsideInv
    PROVE  /\ IsFiniteSet(Unclosed) /\ IsFiniteSet(Range(open))
           /\ Cardinality(Range(open)) <= Len(Customer)
<1> DEFINE f == [v \in Range(open) |-> CHOOSE i \in DOMAIN Customer : Customer[i] = sess[v].key]
           D == DOMAIN Customer
           N == Len(Customer)
<1>1. N \in Nat /\ D = 1..N
    BY SynthAssumption
<1>2. IsFiniteSet(D) /\ Cardinality(D) = N
    <2>1. IsFiniteSet(1..N) /\ Cardinality(1..N) = IF 1 > N THEN 0 ELSE N - 1 + 1
        BY <1>1, FS_Interval
    <2> HIDE DEF N, D
    <2> QED
        BY <1>1, <2>1
<1>3. ASSUME NEW v \in Range(open)
      PROVE  f[v] \in D /\ Customer[f[v]] = sess[v].key
    <2>1. \E i \in D : Customer[i] = sess[v].key
        BY <1>3 DEF InsideInv, ToLeave, Range
    <2> QED
        BY <2>1
<1>4. ASSUME NEW v \in Range(open), NEW w \in Range(open), sess[v].key = sess[w].key
      PROVE  v = w
    BY <1>4 DEF StoreInv, FiledOnce, Range
<1>5. f \in Injection(Range(open), D)
    <2>1. f \in [Range(open) -> D]
        BY <1>3
    <2>2. \A v, w \in Range(open) : f[v] = f[w] => v = w
        BY <1>3, <1>4
    <2> HIDE DEF f, D
    <2> QED
        BY <2>1, <2>2 DEF Injection, IsInjective
<1>6. IsFiniteSet(Range(open)) /\ Cardinality(Range(open)) <= Cardinality(D)
    <2> HIDE DEF f, D
    <2> QED
        BY <1>2, <1>5, FS_Injection
<1>7. IsFiniteSet(Unclosed)
    <2>1. Len(sess) \in Nat /\ DOMAIN sess = 1..Len(sess)
        BY DEF StoreInv, TypeOK
    <2>2. IsFiniteSet(DOMAIN sess)
        BY <2>1, FS_Interval
    <2>3. Unclosed \subseteq DOMAIN sess
        BY DEF Unclosed
    <2> QED
        BY <2>2, <2>3, FS_Subset
<1> QED
    BY <1>2, <1>6, <1>7

\* An event of a run abandons nobody.
LEMMA PublishAbandonsNone ==
    ASSUME MainInv, StoreInv, Publish
    PROVE  Abandoned' \subseteq Abandoned
<1> DEFINE ev == timeline[next]
           env == Published(ev)
<1>1. /\ next \in DOMAIN timeline /\ next \in Nat
      /\ env \in WellFormed /\ env.type = ev.type
      /\ ev.label \in Label => Key(env) = ev.label
    BY PublishedIs DEF Publish
<1>2. Apply(env) /\ next' = next + 1 /\ timeline' = timeline
    BY DEF Publish, synth
<1> HIDE DEF env
<1>3. Coherent(timeline) /\ TypeOK /\ FiledOnce
    BY DEF MainInv, StoreInv
<1>4. \A v : v \in Abandoned' <=>
        /\ v \in DOMAIN sess' /\ sess'[v].exited = None
        /\ v \in Range(open') => ToEnter(sess'[v].key, next + 1)
    BY <1>2 DEF Abandoned, Unclosed, ToEnter, Enters
<1>5. \A v : v \in Abandoned <=>
        /\ v \in DOMAIN sess /\ sess[v].exited = None
        /\ v \in Range(open) => ToEnter(sess[v].key, next)
    BY DEF Abandoned, Unclosed
<1>6. \A key : ToEnter(key, next + 1) => ToEnter(key, next)
    <2> SUFFICES ASSUME NEW key, NEW m, m >= next + 1, Enters(timeline, m), timeline[m].label = key
                 PROVE  ToEnter(key, next)
        BY DEF ToEnter
    <2>1. m \in Nat
        BY <1>3 DEF Coherent, Enters
    <2>2. m >= next
        BY <1>1, <2>1
    <2> QED
        BY <2>2 DEF ToEnter
<1> SUFFICES ASSUME NEW v \in Abandoned' PROVE v \in Abandoned
    OBVIOUS
<1>7. CASE Reopened(env) \/ Opened(env)
    <2>1. ev.type = "person_entered"
        BY <1>1, <1>7 DEF Reopened, Opened, On
    <2>2. Enters(timeline, next) /\ Key(env) = ev.label
        <3>1. ev.label \in Range(Customer)
            BY <1>1, <1>3, <2>1 DEF Coherent, Enters
        <3>2. ev.label \in Label
            BY <3>1, SynthAssumption DEF Range
        <3> QED
            BY <1>1, <2>1, <3>2 DEF Enters
    <2>3. ToEnter(Key(env), next)
        BY <1>1, <2>2 DEF ToEnter
    <2>4. ~ ToEnter(Key(env), next + 1)
        <3> SUFFICES ASSUME NEW m, m >= next + 1, Enters(timeline, m), timeline[m].label = Key(env)
                     PROVE  FALSE
            BY DEF ToEnter
        <3>1. m = next
            BY <1>3, <2>2 DEF Coherent
        <3> QED
            BY <1>1, <3>1
    <2>5. PICK sid : LetsIn(Key(env), sid)
        BY <1>1, <1>3, <1>7, EnteringLetsIn
    <2>6. v # sid
        BY <1>4, <2>4, <2>5 DEF LetsIn
    <2>7. v \in DOMAIN sess /\ sess'[v] = sess[v] /\ sess[v].exited = None
        BY <1>4, <2>5, <2>6 DEF LetsIn
    <2>8. ASSUME v \in Range(open) PROVE ToEnter(sess[v].key, next)
        <3>1. CASE sess[v].key = Key(env)
            BY <2>3, <3>1
        <3>2. CASE sess[v].key # Key(env)
            <4>1. v \in Range(open')
                BY <2>5, <2>8, <3>2 DEF LetsIn, Range
            <4> QED
                BY <1>4, <1>6, <2>7, <4>1
        <3> QED
            BY <3>1, <3>2
    <2> QED
        BY <1>5, <2>7, <2>8
<1>8. CASE Exited(env)
    <2>1. PICK sid : LetsOut(Key(env), sid)
        BY <1>1, <1>3, <1>8, ExitedLetsOut
    <2>2. v \in DOMAIN sess /\ v # sid /\ sess'[v] = sess[v] /\ sess[v].exited = None
        BY <1>4, <2>1 DEF LetsOut
    <2>3. v \in Range(open) => v \in Range(open')
        BY <2>1, <2>2 DEF LetsOut, Range
    <2> QED
        BY <1>4, <1>5, <1>6, <2>2, <2>3
<1>9. CASE Others(env)
    <2>1. LetsBe
        BY <1>1, <1>3, <1>9, OthersLetBe
    <2> QED
        BY <1>4, <1>5, <1>6, <2>1 DEF LetsBe
<1> QED
    BY <1>2, <1>7, <1>8, <1>9 DEF Apply, Others

\* Lost sessions and cut runs can be counted.
LEMMA CutCounted ==
    ASSUME MainInv, StoreInv, InsideInv
    PROVE  /\ IsFiniteSet(cut) /\ Cardinality(cut) \in Nat
           /\ Cardinality(cut) * Len(Customer) \in Nat
           /\ IsFiniteSet(Lost) /\ Cardinality(Lost) \in Nat
<1>1. cut \subseteq 1..runs /\ runs \in Nat
    BY SynthAssumption DEF MainInv
<1>2. IsFiniteSet(cut)
    <2>1. IsFiniteSet(1..runs)
        BY <1>1, FS_Interval
    <2> QED
        BY <1>1, <2>1, FS_Subset
<1>3. Cardinality(cut) \in Nat
    BY <1>2, FS_CardinalityType
<1>4. Len(Customer) \in Nat
    BY SynthAssumption
<1>5. Cardinality(cut) * Len(Customer) \in Nat
    <2> DEFINE c == Cardinality(cut)
               n == Len(Customer)
    <2> HIDE DEF c, n
    <2>1. c \in Nat /\ n \in Nat => c * n \in Nat
        OBVIOUS
    <2> QED
        BY <1>3, <1>4, <2>1 DEF c, n
<1>6. Lost \subseteq Unclosed
    BY DEF Lost, Abandoned
<1>7. IsFiniteSet(Lost)
    BY <1>6, OpenFew, FS_Subset
<1>8. Cardinality(Lost) \in Nat
    BY <1>7, FS_CardinalityType
<1> QED
    BY <1>2, <1>3, <1>5, <1>7, <1>8

\* No more are lost, or one more run is cut, which makes room for a shopper
\* each.
LEMMA FewerLost ==
    ASSUME MainInv, StoreInv, InsideInv, CutInv, Lost' \subseteq Lost, cut' = cut
    PROVE  CutInv'
<1> DEFINE a == Cardinality(Lost)
           b == Cardinality(Lost')
           c == Cardinality(cut) * Len(Customer)
<1>1. a \in Nat /\ b \in Nat /\ b <= a /\ c \in Nat
    BY CutCounted, FS_Subset, FS_CardinalityType
<1>2. a <= c
    BY DEF CutInv
<1>3. b <= c
    <2> HIDE DEF a, b, c
    <2> QED
        BY <1>1, <1>2
<1> QED
    BY <1>3 DEF CutInv

LEMMA OneMoreCut ==
    ASSUME MainInv, StoreInv, InsideInv, CutInv, Running, Lost' \subseteq Unclosed,
           cut' = cut \cup {runs}
    PROVE  CutInv'
<1> DEFINE a == Cardinality(Abandoned)
           b == Cardinality(Lost')
           o == Cardinality(Range(open))
           c == Cardinality(cut)
           d == Cardinality(cut')
           n == Len(Customer)
           u == Abandoned \cup Range(open)
<1>1. Lost = Abandoned
    BY DEF Lost
<1>2. d = c + 1 /\ c \in Nat /\ n \in Nat
    <2>1. IsFiniteSet(cut) /\ c \in Nat /\ runs \notin cut
        BY CutCounted DEF MainInv
    <2>2. Cardinality(cut \cup {runs}) = c + 1
        BY <2>1, FS_AddElement
    <2>3. n \in Nat
        BY SynthAssumption
    <2> QED
        BY <2>1, <2>2, <2>3
<1>3. IsFiniteSet(Abandoned) /\ a \in Nat /\ a <= c * n
    BY <1>1, CutCounted DEF CutInv
<1>4. IsFiniteSet(Range(open)) /\ o \in Nat /\ o <= n
    BY OpenFew, FS_CardinalityType
<1>5. Lost' \subseteq u
    BY DEF Abandoned
<1>6. IsFiniteSet(u) /\ Cardinality(u) \in Nat /\ Cardinality(u) <= a + o
    <2>1. /\ IsFiniteSet(u)
          /\ Cardinality(u) = a + o - Cardinality(Abandoned \cap Range(open))
        BY <1>3, <1>4, FS_Union
    <2>2. Cardinality(Abandoned \cap Range(open)) \in Nat
        BY <1>3, FS_Intersection, FS_CardinalityType
    <2>3. Cardinality(u) \in Nat
        BY <2>1, FS_CardinalityType
    <2> HIDE DEF a, o, u
    <2> QED
        BY <1>3, <1>4, <2>1, <2>2, <2>3
<1> HIDE DEF u
<1>7. b \in Nat /\ b <= Cardinality(u)
    BY <1>5, <1>6, FS_Subset, FS_CardinalityType
<1>8. b <= d * n
    <2> HIDE DEF a, b, c, d, n, o
    <2>1. c * n \in Nat /\ (c + 1) * n = c * n + n
        BY <1>2
    <2> DEFINE x == c * n
    <2>2. x \in Nat /\ d * n = x + n /\ a <= x
        BY <1>2, <1>3, <2>1
    <2> HIDE DEF x
    <2> QED
        BY <1>2, <1>3, <1>4, <1>6, <1>7, <2>2
<1> QED
    BY <1>8 DEF CutInv

LEMMA CutStep ==
    MainInv /\ StoreInv /\ InsideInv /\ CutInv /\ [SynthNext]_synthVars => CutInv'
<1> SUFFICES ASSUME MainInv, StoreInv, InsideInv, CutInv, [SynthNext]_synthVars
             PROVE  CutInv'
    OBVIOUS
<1>1. CASE Publish
    <2>1. Abandoned' \subseteq Abandoned
        BY <1>1, PublishAbandonsNone
    <2>2. Running /\ phase' = phase /\ cut' = cut
        BY <1>1 DEF Publish, Due, Replaying, Running
    <2>3. Lost' \subseteq Lost
        BY <2>1, <2>2 DEF Lost, Running
    <2> QED
        BY <2>2, <2>3, FewerLost
<1>2. ASSUME UNCHANGED <<sess, open, timeline>>
      PROVE  /\ Unclosed' = Unclosed /\ Lost' \subseteq Unclosed
             /\ next' = next => Abandoned' = Abandoned
    BY <1>2 DEF Unclosed, Abandoned, Lost, ToEnter, Enters
<1>3. CASE Tick \/ UNCHANGED synthVars
    <2>1. UNCHANGED <<sess, open, timeline, next, phase, cut>>
        BY <1>3 DEF Tick, synthVars, vars, memory, synth, main
    <2>2. Lost' = Lost
        BY <1>2, <2>1 DEF Lost, Running
    <2> QED
        BY <2>1, <2>2, FewerLost
<1>4. CASE Loop
    <2>1. UNCHANGED <<sess, open, timeline, cut>> /\ Running /\ Complete
        BY <1>4 DEF Loop, vars, memory, synth, Running, Complete
    <2>2. open = <<>>
        BY <2>1, InsideEmpty
    <2>3. Abandoned = Unclosed
        BY <2>2 DEF Abandoned, Range
    <2>4. Lost' \subseteq Lost
        BY <1>2, <2>1, <2>3 DEF Lost
    <2> QED
        BY <2>1, <2>4, FewerLost
<1>5. CASE RunFails \/ Kill
    <2>1. UNCHANGED <<sess, open, timeline>> /\ Running /\ cut' = cut \cup {runs}
        BY <1>5 DEF RunFails, Kill, Due, Replaying, vars, memory, synth, Running
    <2> QED
        BY <1>2, <2>1, OneMoreCut
<1>6. CASE Signal
    <2>1. UNCHANGED <<sess, open, timeline, next>> /\ Running
        BY <1>6 DEF Signal, Replaying, vars, memory, synth, Running
    <2>2. \/ cut' = cut \cup {runs}
          \/ cut' = cut /\ phase' = phase
        BY <1>6 DEF Signal
    <2>3. CASE cut' = cut \cup {runs}
        BY <1>2, <2>1, <2>3, OneMoreCut
    <2>4. CASE cut' = cut /\ phase' = phase
        <3>1. Lost' = Lost
            BY <1>2, <2>1, <2>4 DEF Lost, Running
        <3> QED
            BY <2>4, <3>1, FewerLost
    <2> QED
        BY <2>2, <2>3, <2>4
<1>7. CASE Restart
    <2>1. UNCHANGED <<sess, open, timeline, cut>> /\ ~ Running
        BY <1>7 DEF Restart, vars, memory, synth, Running
    <2>2. Lost = Unclosed
        BY <2>1 DEF Lost
    <2> QED
        BY <1>2, <2>1, <2>2, FewerLost
<1> QED
    BY <1>1, <1>3, <1>4, <1>5, <1>6, <1>7 DEF SynthNext

\* Whatever is done to the publisher, and however often, it leaves no more
\* sessions without an exit than there are customers to a cut run
\* (synth.py:118-228, 345-357, session.py:135).
THEOREM OrphansBounded == SynthSpec => []OrphanedByCut
<1>1. SynthInit => MainInv /\ StoreInv /\ InsideInv /\ CutInv
    <2> SUFFICES ASSUME SynthInit PROVE MainInv /\ StoreInv /\ InsideInv /\ CutInv
        OBVIOUS
    <2>1. MainInv /\ StoreInv /\ InsideInv
        BY InsideInit
    <2>2. Lost = {} /\ cut = {}
        BY DEF SynthInit, Init, Lost, Abandoned, Unclosed
    <2>3. Cardinality(Lost) = 0
        BY <2>2, FS_EmptySet
    <2>4. Cardinality(cut) * Len(Customer) \in Nat
        BY <2>1, CutCounted
    <2> QED
        BY <2>1, <2>3, <2>4 DEF CutInv
<1>2. MainInv /\ StoreInv /\ InsideInv /\ CutInv /\ [SynthNext]_synthVars
        => (MainInv /\ StoreInv /\ InsideInv /\ CutInv)'
    BY MainStep, StoreStep, InsideStep, CutStep
<1>3. MainInv /\ StoreInv /\ InsideInv /\ CutInv => OrphanedByCut
    <2> SUFFICES ASSUME MainInv, StoreInv, InsideInv, CutInv PROVE OrphanedByCut
        OBVIOUS
    <2>1. Orphans \subseteq Lost
        BY DEF Orphans, Lost, Abandoned, Unclosed
    <2>2. /\ Cardinality(Orphans) \in Nat /\ Cardinality(Lost) \in Nat
          /\ Cardinality(Orphans) <= Cardinality(Lost)
          /\ Cardinality(cut) * Len(Customer) \in Nat
        BY <2>1, CutCounted, FS_Subset, FS_CardinalityType
    <2> QED
        BY <2>2 DEF CutInv, OrphanedByCut
<1> QED
    BY <1>1, <1>2, <1>3, PTL DEF SynthSpec

-----------------------------------------------------------------------------
(* What the store promises of every feed holds of this one.                *)

Promises == StageAgrees /\ NoSplitVisit /\ NoMissedJoin /\ JoinSound /\ ReceiptInv

LEMMA PromisesStep ==
    MainInv /\ StoreInv /\ Promises /\ [SynthNext]_synthVars => Promises'
<1>1. ASSUME MainInv, StoreInv, Promises, Publish PROVE Promises'
    <2>1. PICK env \in WellFormed : Apply(env)
        BY <1>1, PublishedIs DEF Publish
    <2>2. Evolution(env)
        BY <1>1, <2>1, EvolutionStep DEF StoreInv
    <2> QED
        BY <1>1, <2>1, <2>2, StageStep, JoinStep, FilingStep, NoMissedJoinStep, ReceiptStep
           DEF StoreInv, Promises
<1>2. ASSUME Promises, UNCHANGED vars PROVE Promises'
    BY <1>2 DEF vars, memory, Promises, StageAgrees, NoSplitVisit, NoMissedJoin, JoinSound,
                ReceiptInv, ReceiptOnce, ReceiptsApplied, Range
<1> QED
    BY <1>1, <1>2, StoreSteps

\* The same customers coming back in run after run, with other customers' bills
\* in between, break none of the store's promises (synth.py:214-228, 345-352,
\* session.py:87-256).
THEOREM PromisesToSynth ==
    SynthSpec => [](/\ StageAgrees /\ FiledOnce /\ NoSplitVisit
                    /\ NoMissedJoin /\ JoinSound /\ ReceiptOnce)
<1>1. SynthInit => MainInv /\ StoreInv /\ Promises
    <2>1. Init => Promises
        BY DEF Init, Promises, StageAgrees, NoSplitVisit, NoMissedJoin, JoinSound,
               ReceiptInv, ReceiptOnce, ReceiptsApplied, Range
    <2> QED
        BY <2>1, InsideInit DEF SynthInit
<1>2. MainInv /\ StoreInv /\ Promises /\ [SynthNext]_synthVars
        => (MainInv /\ StoreInv /\ Promises)'
    BY MainStep, StoreStep, PromisesStep
<1>3. MainInv /\ StoreInv /\ Promises
        => /\ StageAgrees /\ FiledOnce /\ NoSplitVisit
           /\ NoMissedJoin /\ JoinSound /\ ReceiptOnce
    BY DEF StoreInv, Promises, ReceiptInv
<1> QED
    BY <1>1, <1>2, <1>3, PTL DEF SynthSpec

-----------------------------------------------------------------------------
(* What the store has learned in the first run.                            *)

\* The dwell of label in z told by the first n events.
Totals(c, label, z, n) ==
    c = [k \in 0..n |->
            IF k = 0 THEN 0
            ELSE c[k - 1]
                   + IF timeline[k].label = label /\ timeline[k].zone = z
                     THEN timeline[k].dwell ELSE 0]

LEMMA DweltIs ==
    ASSUME Len(timeline) \in Nat, NEW label, NEW z
    PROVE  Totals(Dwelt(label, z), label, z, Len(timeline))
<1> DEFINE n == Len(timeline)
           S == {m \in 0..n : \E c : Totals(c, label, z, m)}
           Add(k) == IF timeline[k].label = label /\ timeline[k].zone = z
                     THEN timeline[k].dwell ELSE 0
<1>1. 0 \in S
    <2>1. Totals([k \in 0..0 |-> 0], label, z, 0)
        BY DEF Totals
    <2> QED
        BY <2>1
<1>2. ASSUME NEW m \in 0..(n - 1), m \in S PROVE m + 1 \in S
    <2>1. PICK c : Totals(c, label, z, m)
        BY <1>2
    <2> HIDE DEF Add
    <2> DEFINE d == [k \in 0..(m + 1) |-> IF k = 0 THEN 0 ELSE c[k - 1] + Add(k)]
    <2>2. \A k \in 0..m : c[k] = IF k = 0 THEN 0 ELSE c[k - 1] + Add(k)
        BY <2>1 DEF Totals, Add
    <2>3. \A k \in 0..m : d[k] = c[k]
        BY <2>2
    <2>4. ASSUME NEW k \in 0..(m + 1), k # 0 PROVE d[k - 1] = c[k - 1]
        <3>1. k - 1 \in 0..m
            BY <2>4
        <3> HIDE DEF d
        <3> QED
            BY <2>3, <3>1
    <2>5. d = [k \in 0..(m + 1) |-> IF k = 0 THEN 0 ELSE d[k - 1] + Add(k)]
        BY <2>4
    <2> HIDE DEF d
    <2>6. Totals(d, label, z, m + 1)
        BY <2>5 DEF Totals, Add
    <2>7. m + 1 \in 0..n
        OBVIOUS
    <2> QED
        BY <2>6, <2>7
<1>3. n \in S
    <2> HIDE DEF S
    <2>1. \A i \in 0..n : i \in S
        BY <1>1, <1>2, CountUp
    <2> HIDE DEF n
    <2> QED
        BY <2>1 DEF n
<1>4. Dwelt(label, z) = CHOOSE c : Totals(c, label, z, n)
    BY DEF Dwelt, Totals
<1> QED
    BY <1>3, <1>4

DwellOf(s, z) == IF s.zones[z] = None THEN 0 ELSE s.zones[z].dwell

\* Something of the kind was told of label before the nth event.
Passed(n, type, label) ==
    \E m \in DOMAIN timeline :
        m < n /\ timeline[m].type = type /\ timeline[m].label = label

Holding == {v \in DOMAIN sess : sess[v].receipt # None}

\* Each customer who has entered has one session, and no one else; it is open
\* until the customer leaves.
Arrivals ==
    /\ \A v \in DOMAIN sess :
         /\ sess[v].key \in Range(Customer) /\ Passed(next, "person_entered", sess[v].key)
         /\ sess[v].exited # None <=> Passed(next, "person_exited", sess[v].key)
         /\ sess[v].exited = None => v \in Range(open)
    /\ \A v, w \in DOMAIN sess : sess[v].key = sess[w].key => v = w
    /\ \A c \in Range(Customer) :
         Passed(next, "person_entered", c) => \E v \in DOMAIN sess : sess[v].key = c

\* Who has reached the till queues.
Queues ==
    \A v \in DOMAIN sess :
        /\ sess[v].checkout # None <=> Passed(next, "checkout_observed", sess[v].key)
        /\ sess[v].receipt # None => sess[v].checkout # None

\* Zones have the dwell that was told of them.
Watches ==
    \A c \in Range(Customer) : \A z \in Zone :
        /\ \A v \in DOMAIN sess :
             sess[v].key = c => DwellOf(sess[v], z) = Dwelt(c, z)[next - 1]
        /\ (\A v \in DOMAIN sess : sess[v].key # c) => Dwelt(c, z)[next - 1] = 0

\* Each receipt is held or waits.
Bills ==
    Cardinality(Holding) + Len(pending)
        = Cardinality({n \in Receipts(timeline) : n < next})

Learned == Arrivals /\ Queues /\ Watches /\ Bills

LEMMA PassedNext ==
    ASSUME MainInv, next \in DOMAIN timeline, NEW type, NEW label
    PROVE  Passed(next + 1, type, label)
             <=> \/ Passed(next, type, label)
                 \/ timeline[next].type = type /\ timeline[next].label = label
<1>1. DOMAIN timeline \subseteq Nat /\ next \in Nat
    BY DEF MainInv, Coherent
<1> QED
    BY <1>1 DEF Passed

\* An event of a customer who does not enter is one of somebody inside.
LEMMA Present ==
    ASSUME MainInv, Orderly(timeline), Arrivals, next \in DOMAIN timeline,
           NEW c \in Range(Customer), timeline[next].label = c,
           timeline[next].type # "person_entered"
    PROVE  \E i \in DOMAIN open : sess[open[i]].key = c
<1>1. DOMAIN timeline \subseteq Nat /\ next \in Nat
    BY DEF MainInv, Coherent
<1>2. PICK m, x : Stays(timeline, c, m, x)
    BY DEF Orderly
<1>3. m \in DOMAIN timeline /\ m < next /\ next <= x
    BY <1>1, <1>2 DEF Stays
<1>4. Passed(next, "person_entered", c)
    BY <1>2, <1>3 DEF Passed, Stays
<1>5. PICK v \in DOMAIN sess : sess[v].key = c
    BY <1>4 DEF Arrivals
<1>6. ~ Passed(next, "person_exited", c)
    BY <1>1, <1>2, <1>3 DEF Passed, Stays
<1>7. v \in Range(open)
    BY <1>5, <1>6 DEF Arrivals
<1> QED
    BY <1>5, <1>7 DEF Range

\* Nobody is known before the entry.
LEMMA Absent ==
    ASSUME MainInv, Orderly(timeline), Arrivals, next \in DOMAIN timeline,
           timeline[next].type = "person_entered"
    PROVE  LET c == timeline[next].label
           IN  /\ c \in Range(Customer) /\ \A v \in DOMAIN sess : sess[v].key # c
               /\ \A type : ~ Passed(next, type, c)
<1> DEFINE c == timeline[next].label
<1>1. DOMAIN timeline \subseteq Nat /\ next \in Nat
    BY DEF MainInv, Coherent
<1>2. c \in Range(Customer)
    BY DEF Orderly, CustomerEvent
<1>3. PICK m, x : Stays(timeline, c, m, x)
    BY <1>2 DEF Orderly
<1>4. m = next
    BY <1>3 DEF Stays
<1>5. \A type : ~ Passed(next, type, c)
    BY <1>1, <1>3, <1>4 DEF Passed, Stays
<1> QED
    BY <1>2, <1>5 DEF Arrivals

\* What the store does with an event, but for its entries and exits: a checkout
\* is noted, a dwell is added, and a receipt is held or waits.
Follows(ev) ==
    /\ DOMAIN sess' = DOMAIN sess
    /\ \A v \in DOMAIN sess :
         /\ sess'[v].key = sess[v].key
         /\ sess'[v].checkout # None <=>
              \/ sess[v].checkout # None
              \/ ev.type = "checkout_observed" /\ sess[v].key = ev.label
         /\ sess'[v].receipt # None => sess'[v].checkout # None
         /\ \A z \in Zone :
              DwellOf(sess'[v], z) = DwellOf(sess[v], z)
                  + IF sess[v].key = ev.label /\ ev.zone = z THEN ev.dwell ELSE 0
    /\ Cardinality(Holding') + Len(pending')
         = Cardinality(Holding) + Len(pending) + IF ev.type = "pos_receipt" THEN 1 ELSE 0

LEMMA DwellOfType ==
    ASSUME TypeOK, NEW v \in DOMAIN sess, NEW z \in Zone
    PROVE  DwellOf(sess[v], z) \in Nat
<1>1. sess[v] \in Session
    BY DEF TypeOK
<1>2. sess[v].zones[z] \in Visit \cup {None}
    BY <1>1 DEF Session
<1> QED
    BY <1>2 DEF DwellOf, Visit

LEMMA HoldingFinite ==
    ASSUME TypeOK
    PROVE  IsFiniteSet(Holding) /\ Cardinality(Holding) \in Nat
<1> DEFINE n == Len(sess)
<1>1. n \in Nat /\ DOMAIN sess = 1..n
    BY DEF TypeOK
<1> HIDE DEF n
<1>2. IsFiniteSet(DOMAIN sess)
    BY <1>1, FS_Interval
<1>3. Holding \subseteq DOMAIN sess
    BY DEF Holding
<1> QED
    BY <1>2, <1>3, FS_Subset, FS_CardinalityType

\* One session is replaced: it still has its receipt, or has one now.
LEMMA HoldingOne ==
    ASSUME TypeOK, NEW sid \in DOMAIN sess, NEW s, sess' = [sess EXCEPT ![sid] = s]
    PROVE  /\ (s.receipt = None <=> sess[sid].receipt = None) => Holding' = Holding
           /\ s.receipt # None /\ sess[sid].receipt = None =>
                Cardinality(Holding') = Cardinality(Holding) + 1
<1>1. /\ DOMAIN sess' = DOMAIN sess /\ sess'[sid] = s
      /\ \A v \in DOMAIN sess \ {sid} : sess'[v] = sess[v]
    BY DEF TypeOK
<1>2. (s.receipt = None <=> sess[sid].receipt = None) => Holding' = Holding
    BY <1>1 DEF Holding
<1>3. ASSUME s.receipt # None, sess[sid].receipt = None
      PROVE  Cardinality(Holding') = Cardinality(Holding) + 1
    <2>1. sid \notin Holding /\ Holding' = Holding \cup {sid}
        BY <1>1, <1>3 DEF Holding
    <2> QED
        BY <2>1, HoldingFinite, FS_AddElement
<1> QED
    BY <1>2, <1>3

\* One session is replaced, in the way the event says.
LEMMA OneFollows ==
    ASSUME TypeOK, Queues, NEW ev, NEW sid \in DOMAIN sess, NEW s,
           sess' = [sess EXCEPT ![sid] = s],
           \A v \in DOMAIN sess : sess[v].key = sess[sid].key => v = sid,
           s.key = sess[sid].key,
           ev.type \in PersonEvent => sess[sid].key = ev.label,
           s.checkout # None <=> \/ sess[sid].checkout # None
                                 \/ ev.type = "checkout_observed",
           s.receipt # None => s.checkout # None,
           ev.dwell # 0 => ev.type = "zone_dwell",
           \A z \in Zone : DwellOf(s, z) = DwellOf(sess[sid], z)
                             + IF sess[sid].key = ev.label /\ ev.zone = z THEN ev.dwell ELSE 0,
           Cardinality(Holding') + Len(pending')
             = Cardinality(Holding) + Len(pending)
                 + IF ev.type = "pos_receipt" THEN 1 ELSE 0
    PROVE  Follows(ev)
<1>1. /\ DOMAIN sess' = DOMAIN sess /\ sess'[sid] = s
      /\ \A v \in DOMAIN sess \ {sid} : sess'[v] = sess[v]
    BY DEF TypeOK
<1>2. "checkout_observed" \in PersonEvent /\ "zone_dwell" \in PersonEvent
    BY DEF PersonEvent
<1>3. ASSUME NEW v \in DOMAIN sess
      PROVE  /\ sess'[v].key = sess[v].key
             /\ sess'[v].checkout # None <=>
                  \/ sess[v].checkout # None
                  \/ ev.type = "checkout_observed" /\ sess[v].key = ev.label
             /\ sess'[v].receipt # None => sess'[v].checkout # None
             /\ \A z \in Zone :
                  DwellOf(sess'[v], z) = DwellOf(sess[v], z)
                      + IF sess[v].key = ev.label /\ ev.zone = z THEN ev.dwell ELSE 0
    <2>1. CASE v = sid
        BY <1>1, <1>2, <2>1
    <2>2. CASE v # sid
        <3>1. sess'[v] = sess[v]
            BY <1>1, <2>2
        <3>2. ev.type \in PersonEvent => sess[v].key # ev.label
            BY <2>2
        <3>3. sess[v].key = ev.label => ev.dwell = 0
            BY <1>2, <3>2
        <3>4. ev.type = "checkout_observed" => sess[v].key # ev.label
            BY <1>2, <3>2
        <3>5. sess[v].receipt # None => sess[v].checkout # None
            BY DEF Queues
        <3> QED
            BY <3>1, <3>3, <3>4, <3>5, DwellOfType
    <2> QED
        BY <2>1, <2>2
<1> QED
    BY <1>1, <1>3 DEF Follows

\* The sessions stay as they are, and the event asks for nothing.
LEMMA NoneFollows ==
    ASSUME TypeOK, Queues, NEW ev, sess' = sess, ev.dwell = 0, ev.type # "checkout_observed",
           Len(pending') = Len(pending) + IF ev.type = "pos_receipt" THEN 1 ELSE 0
    PROVE  Follows(ev)
<1>1. Holding' = Holding
    BY DEF Holding
<1>2. \A v \in DOMAIN sess : \A z \in Zone : DwellOf(sess[v], z) \in Nat
    BY DwellOfType
<1>3. Cardinality(Holding) \in Nat /\ Len(pending) \in Nat
    BY HoldingFinite DEF TypeOK
<1> QED
    BY <1>1, <1>2, <1>3 DEF Follows, Queues

-----------------------------------------------------------------------------
(* How an event changes what the store has learned.                        *)

\* What the envelope of the next event carries, and whose it is.
LEMMA SentIs ==
    ASSUME MainInv, Orderly(timeline), Due
    PROVE  LET ev == timeline[next]
               env == Published(ev)
           IN  /\ env.zone = ev.zone /\ env.dwell = ev.dwell /\ ev.dwell \in Nat
               /\ ev.type # "zone_dwell" => ev.dwell = 0
               /\ ev.type \in {"zone_entered", "zone_dwell"} => ev.zone \in Zone
               /\ \/ /\ ev.type \in CustomerEvent /\ ev.label \in Range(Customer)
                     /\ Key(env) = ev.label
                  \/ /\ ev.type = "staff_observed" /\ ev.label \notin Range(Customer)
                     /\ Key(env) = ev.label
                  \/ ev.type = "pos_receipt" /\ ev.label \notin Range(Customer)
<1> DEFINE ev == timeline[next]
           env == Published(ev)
<1>1. next \in DOMAIN timeline /\ (ev.label \in Label => Key(env) = ev.label)
    BY PublishedIs
<1>2. ev \in Items
    BY <1>1 DEF MainInv, Coherent
<1>3. env.zone = ev.zone /\ env.dwell = ev.dwell
    BY DEF Published
<1>4. \A c \in Range(Customer) : c \in Label /\ c # None
    BY SynthAssumption, NoneAssumption DEF Range
<1>5. /\ ev.dwell \in Nat /\ (ev.type # "zone_dwell" => ev.dwell = 0)
      /\ ev.type \in {"zone_entered", "zone_dwell"} => ev.zone \in Zone
    BY <1>2 DEF Items, Item
<1> HIDE DEF ev, env
<1>6. \/ ev.type \in CustomerEvent /\ ev.label \in Range(Customer)
      \/ ev.type = "staff_observed" /\ ev.label \in Label \ Range(Customer)
      \/ ev.type = "pos_receipt" /\ ev.label = None
    BY <1>1 DEF Orderly, ev
<1> QED
    BY <1>1, <1>3, <1>4, <1>5, <1>6 DEF ev, env

\* A zone event lengthens the visit that it names by its dwell.
LEMMA ZoneFollows ==
    ASSUME StoreInv, Arrivals, Queues, NEW ev, NEW env \in WellFormed,
           env.type = ev.type, env.zone = ev.zone, env.dwell = ev.dwell, Key(env) = ev.label,
           ev.type # "zone_dwell" => ev.dwell = 0,
           ZoneEntered(env) \/ ZoneDwell(env)
    PROVE  Follows(ev)
<1>1. TypeOK /\ env.zone \in Zone /\ env.dwell \in Nat /\ env.ts \in Int
    BY EnvelopeType DEF StoreInv, ZoneEntered, ZoneDwell, On
<1>2. ASSUME NEW sid \in Lookup(env), NEW visit \in Visit,
             visit.dwell = DwellOf(sess[sid], env.zone) + env.dwell,
             Update(sid, Restaged([sess[sid] EXCEPT !.zones[env.zone] = visit]), FALSE),
             pending' = pending, env.type \in {"zone_entered", "zone_dwell"}
      PROVE  Follows(ev)
    <2> DEFINE t == [sess[sid] EXCEPT !.zones[env.zone] = visit]
               s == Restaged(t)
    <2>1. sid \in DOMAIN sess /\ sess[sid] \in Session /\ sess[sid].key = ev.label
        BY <1>1, FiledType DEF Lookup
    <2>2. /\ t \in Session /\ t.key = sess[sid].key
          /\ t.checkout = sess[sid].checkout /\ t.receipt = sess[sid].receipt
          /\ t.zones[env.zone] = visit
          /\ \A z \in Zone \ {env.zone} : t.zones[z] = sess[sid].zones[z]
        BY <1>1, <2>1 DEF Session
    <2> HIDE DEF t
    <2>3. /\ s.key = t.key /\ s.checkout = t.checkout /\ s.receipt = t.receipt
          /\ s.zones = t.zones
        BY <2>2 DEF Restaged, Session
    <2> HIDE DEF s
    <2>4. sess' = [sess EXCEPT ![sid] = s]
        BY <1>2 DEF Update, s, t
    <2>5. visit # None
        BY NoneAssumption
    <2>6. \A z \in Zone : DwellOf(s, z) = DwellOf(sess[sid], z)
                            + IF sess[sid].key = ev.label /\ ev.zone = z THEN ev.dwell ELSE 0
        <3> SUFFICES ASSUME NEW z \in Zone
                     PROVE  DwellOf(s, z) = DwellOf(sess[sid], z)
                              + IF ev.zone = z THEN ev.dwell ELSE 0
            BY <2>1
        <3>1. CASE z = env.zone
            <4>1. s.zones[z] = visit
                BY <2>2, <2>3, <3>1
            <4> QED
                BY <1>2, <2>5, <3>1, <4>1 DEF DwellOf
        <3>2. CASE z # env.zone
            <4>1. s.zones[z] = sess[sid].zones[z]
                BY <2>2, <2>3, <3>2
            <4>2. DwellOf(s, z) = DwellOf(sess[sid], z)
                BY <4>1 DEF DwellOf
            <4>3. DwellOf(sess[sid], z) \in Nat
                BY <1>1, <2>1, DwellOfType
            <4> QED
                BY <3>2, <4>2, <4>3
        <3> QED
            BY <3>1, <3>2
    <2>7. /\ s.checkout # None <=> \/ sess[sid].checkout # None
                                   \/ ev.type = "checkout_observed"
          /\ s.receipt # None => s.checkout # None
          /\ s.key = sess[sid].key
        BY <1>2, <2>1, <2>2, <2>3 DEF Queues
    <2>8. Holding' = Holding
        <3>1. s.receipt = None <=> sess[sid].receipt = None
            BY <2>2, <2>3
        <3> QED
            BY <1>1, <2>1, <2>4, <3>1, HoldingOne
    <2>9. Cardinality(Holding) \in Nat /\ Len(pending) \in Nat
        BY <1>1, HoldingFinite DEF TypeOK
    <2>10. Cardinality(Holding') + Len(pending')
             = Cardinality(Holding) + Len(pending)
                 + IF ev.type = "pos_receipt" THEN 1 ELSE 0
        BY <1>2, <2>8, <2>9
    <2>11. \A v \in DOMAIN sess : sess[v].key = sess[sid].key => v = sid
        BY <2>1 DEF Arrivals
    <2>12. (ev.type \in PersonEvent => sess[sid].key = ev.label)
           /\ (ev.dwell # 0 => ev.type = "zone_dwell")
        BY <2>1
    <2> QED
        BY <1>1, <2>1, <2>4, <2>6, <2>7, <2>10, <2>11, <2>12, OneFollows
<1>3. ASSUME NEW sid \in Lookup(env)
      PROVE  LET visit == EnterZone(sess[sid].zones[env.zone], env.ts)
             IN  visit \in Visit /\ visit.dwell = DwellOf(sess[sid], env.zone)
    <2>1. sess[sid].zones[env.zone] \in Visit \cup {None}
        BY <1>1, FiledType DEF Session
    <2> QED
        BY <1>1, <2>1, EnterZoneType DEF EnterZone, DwellOf, Visit
<1>4. CASE ZoneEntered(env)
    <2>1. PICK sid \in Lookup(env) :
             Update(sid, Restaged([sess[sid] EXCEPT
                        !.zones[env.zone] = EnterZone(sess[sid].zones[env.zone], env.ts)]), FALSE)
        BY <1>1, <1>4, FiledType DEF ZoneEntered, Session
    <2> DEFINE visit == EnterZone(sess[sid].zones[env.zone], env.ts)
    <2>2. visit \in Visit /\ visit.dwell = DwellOf(sess[sid], env.zone) /\ visit.dwell \in Nat
        BY <1>3 DEF Visit
    <2>3. env.dwell = 0 /\ env.type \in {"zone_entered", "zone_dwell"} /\ pending' = pending
        BY <1>4 DEF ZoneEntered, On
    <2> HIDE DEF visit
    <2>4. visit.dwell = DwellOf(sess[sid], env.zone) + env.dwell
        BY <2>2, <2>3
    <2> QED
        BY <1>2, <2>1, <2>2, <2>3, <2>4 DEF visit
<1>5. CASE ZoneDwell(env)
    <2> DEFINE entered(sid) == EnterZone(sess[sid].zones[env.zone], env.ts)
               dwelt(sid) == [entered(sid) EXCEPT !.dwell = @ + env.dwell]
    <2>1. PICK sid \in Lookup(env) :
             Update(sid, Restaged([sess[sid] EXCEPT !.zones[env.zone] = dwelt(sid)]), FALSE)
        BY <1>5 DEF ZoneDwell
    <2>2. entered(sid) \in Visit /\ entered(sid).dwell = DwellOf(sess[sid], env.zone)
        BY <1>3
    <2>3. env.type \in {"zone_entered", "zone_dwell"} /\ pending' = pending
        BY <1>5 DEF ZoneDwell, On
    <2> HIDE DEF entered
    <2>4. dwelt(sid) \in Visit /\ dwelt(sid).dwell = DwellOf(sess[sid], env.zone) + env.dwell
        BY <1>1, <2>2 DEF Visit
    <2> HIDE DEF dwelt
    <2> QED
        BY <1>2, <2>1, <2>3, <2>4
<1> QED
    BY <1>4, <1>5

\* A first checkout is noted; the receipt it may take has been waiting.
LEMMA CheckoutFollows ==
    ASSUME StoreInv, Arrivals, Queues, NEW ev, NEW env \in WellFormed,
           env.type = ev.type, Key(env) = ev.label, ev.dwell = 0,
           \A sid \in Lookup(env) : sess[sid].checkout = None,
           CheckoutObserved(env)
    PROVE  Follows(ev)
<1> DEFINE seen(sid) == [sess[sid] EXCEPT !.checkout = IF @ = None THEN env.ts ELSE @]
           near(sid) == {j \in DOMAIN pending : Gap(pending[j], seen(sid)) <= PosJoinWindow}
<1>1. PICK sid \in Lookup(env) :
         \/ Update(sid, Restaged(seen(sid)), FALSE) /\ pending' = pending
         \/ \E j \in LastClosest([k \in near(sid) |-> Gap(pending[k], seen(sid))]) :
              /\ Update(sid, Restaged([seen(sid) EXCEPT !.receipt = pending[j]]), TRUE)
              /\ pending' = RemoveAt(pending, j)
    BY DEF CheckoutObserved
<1>2. /\ TypeOK /\ ev.type = "checkout_observed" /\ env.ts \in Int /\ env.ts # None
      /\ sid \in DOMAIN sess /\ sess[sid] \in Session /\ sess[sid].key = ev.label
      /\ sess[sid].checkout = None
    <2>1. TypeOK /\ ev.type = "checkout_observed"
        BY DEF StoreInv, CheckoutObserved, On
    <2>2. env.ts \in Int /\ env.ts # None
        BY EnvelopeType, NoneAssumption
    <2>3. sid \in DOMAIN sess /\ sess[sid] \in Session
        BY <2>1, FiledType
    <2>4. sess[sid].key = ev.label
        BY <2>1, FiledType DEF Lookup
    <2> QED
        BY <2>1, <2>2, <2>3, <2>4
<1>3. /\ seen(sid) \in Session /\ seen(sid).key = sess[sid].key
      /\ seen(sid).checkout # None
      /\ seen(sid).receipt = sess[sid].receipt /\ seen(sid).zones = sess[sid].zones
    BY <1>2 DEF Session
<1>4. sess[sid].receipt = None
    BY <1>2 DEF Queues
<1>5. /\ Cardinality(Holding) \in Nat /\ Len(pending) \in Nat
      /\ \A v \in DOMAIN sess : sess[v].key = sess[sid].key => v = sid
    BY <1>2, HoldingFinite DEF TypeOK, Arrivals
<1> HIDE DEF seen
<1>6. ASSUME NEW t \in Session, t.key = sess[sid].key, t.checkout # None,
             t.zones = sess[sid].zones, NEW matched, Update(sid, Restaged(t), matched),
             \/ t.receipt = None /\ pending' = pending
             \/ t.receipt # None /\ Len(pending') = Len(pending) - 1
      PROVE  Follows(ev)
    <2> DEFINE s == Restaged(t)
    <2>1. s.key = t.key /\ s.checkout = t.checkout /\ s.receipt = t.receipt /\ s.zones = t.zones
        BY <1>6 DEF Restaged, Session
    <2>2. sess' = [sess EXCEPT ![sid] = s]
        BY <1>6 DEF Update
    <2> HIDE DEF s
    <2>3. /\ s.receipt = None => Holding' = Holding
          /\ s.receipt # None => Cardinality(Holding') = Cardinality(Holding) + 1
        BY <1>2, <1>4, <2>2, HoldingOne
    <2>4. Cardinality(Holding') + Len(pending')
            = Cardinality(Holding) + Len(pending)
                + IF ev.type = "pos_receipt" THEN 1 ELSE 0
        <3>1. CASE t.receipt = None /\ pending' = pending
            <4>1. Holding' = Holding
                BY <2>1, <2>3, <3>1
            <4> QED
                BY <1>2, <1>5, <3>1, <4>1
        <3>2. CASE t.receipt # None /\ Len(pending') = Len(pending) - 1
            <4>1. Cardinality(Holding') = Cardinality(Holding) + 1
                BY <2>1, <2>3, <3>2
            <4> QED
                BY <1>2, <1>5, <3>2, <4>1
        <3> QED
            BY <1>6, <3>1, <3>2
    <2>5. \A z \in Zone : DwellOf(s, z) = DwellOf(sess[sid], z)
                            + IF sess[sid].key = ev.label /\ ev.zone = z THEN ev.dwell ELSE 0
        <3> SUFFICES ASSUME NEW z \in Zone PROVE DwellOf(s, z) = DwellOf(sess[sid], z) + 0
            OBVIOUS
        <3>1. DwellOf(s, z) = DwellOf(sess[sid], z)
            BY <1>6, <2>1 DEF DwellOf
        <3> QED
            BY <1>2, <3>1, DwellOfType
    <2>6. /\ s.key = sess[sid].key /\ s.checkout # None
          /\ ev.type \in PersonEvent => sess[sid].key = ev.label
        BY <1>2, <1>6, <2>1
    <2> QED
        BY <1>2, <1>5, <2>2, <2>4, <2>5, <2>6, OneFollows
<1>7. CASE Update(sid, Restaged(seen(sid)), FALSE) /\ pending' = pending
    BY <1>3, <1>4, <1>6, <1>7
<1>8. ASSUME NEW j \in LastClosest([k \in near(sid) |-> Gap(pending[k], seen(sid))]),
             Update(sid, Restaged([seen(sid) EXCEPT !.receipt = pending[j]]), TRUE),
             pending' = RemoveAt(pending, j)
      PROVE  Follows(ev)
    <2> DEFINE t == [seen(sid) EXCEPT !.receipt = pending[j]]
    <2>1. j \in DOMAIN pending
        BY DEF LastClosest
    <2>2. pending[j] \in WellFormed /\ pending[j] # None
        BY <1>2, <2>1, NoneAssumption DEF TypeOK
    <2>3. /\ t \in Session /\ t.key = sess[sid].key /\ t.checkout # None
          /\ t.zones = sess[sid].zones /\ t.receipt = pending[j]
        BY <1>3, <2>2 DEF Session
    <2> HIDE DEF t
    <2>4. Len(pending') = Len(pending) - 1
        BY <1>2, <1>8, <2>1, RemoveAtProperties DEF TypeOK
    <2> QED
        BY <1>6, <1>8, <2>2, <2>3, <2>4 DEF t
<1> QED
    BY <1>1, <1>7, <1>8

\* A receipt is held by a session that had none, or waits.
LEMMA ReceiptFollows ==
    ASSUME StoreInv, Arrivals, Queues, NEW ev, NEW env \in WellFormed,
           env.type = ev.type, ev.dwell = 0,
           Len(pending) < MaxPending, ReceiptJoined(env) \/ ReceiptBuffered(env)
    PROVE  Follows(ev)
<1>1. TypeOK /\ ev.type = "pos_receipt"
    BY DEF StoreInv, ReceiptJoined, ReceiptBuffered, On
<1>2. Cardinality(Holding) \in Nat /\ Len(pending) \in Nat
    BY <1>1, HoldingFinite DEF TypeOK
<1>3. CASE ReceiptJoined(env)
    <2>1. PICK i \in LastClosest([k \in Joinable(env) |-> Gap(env, sess[Known[k]])]) :
             Update(Known[i], Restaged([sess[Known[i]] EXCEPT !.receipt = env]), TRUE)
        BY <1>3 DEF ReceiptJoined
    <2>2. i \in DOMAIN Known /\ Awaiting(sess[Known[i]])
        BY DEF LastClosest, Joinable
    <2> DEFINE sid == Known[i]
               t == [sess[sid] EXCEPT !.receipt = env]
               s == Restaged(t)
    <2>3. sid \in DOMAIN sess /\ sess[sid] \in Session
        BY <1>1, <2>2, FiledType
    <2>4. /\ t \in Session /\ t.key = sess[sid].key /\ t.checkout = sess[sid].checkout
          /\ t.zones = sess[sid].zones /\ t.receipt = env
        BY <2>3 DEF Session
    <2>5. sess' = [sess EXCEPT ![sid] = s]
        BY <2>1 DEF Update
    <2> HIDE DEF t, sid
    <2>6. s.key = t.key /\ s.checkout = t.checkout /\ s.receipt = t.receipt /\ s.zones = t.zones
        BY <2>4 DEF Restaged, Session
    <2> HIDE DEF s
    <2>7. /\ s.receipt # None /\ sess[sid].receipt = None
          /\ s.checkout # None /\ sess[sid].checkout # None /\ s.key = sess[sid].key
        BY <2>2, <2>4, <2>6, NoneAssumption DEF Awaiting, sid
    <2>8. Cardinality(Holding') = Cardinality(Holding) + 1
        BY <1>1, <2>3, <2>5, <2>7, HoldingOne
    <2>9. pending' = pending
        BY <1>3 DEF ReceiptJoined
    <2>10. Cardinality(Holding') + Len(pending')
             = Cardinality(Holding) + Len(pending)
                 + IF ev.type = "pos_receipt" THEN 1 ELSE 0
        BY <1>1, <1>2, <2>8, <2>9
    <2>11. \A z \in Zone : DwellOf(s, z) = DwellOf(sess[sid], z)
                             + IF sess[sid].key = ev.label /\ ev.zone = z THEN ev.dwell ELSE 0
        <3> SUFFICES ASSUME NEW z \in Zone PROVE DwellOf(s, z) = DwellOf(sess[sid], z) + 0
            OBVIOUS
        <3>1. DwellOf(s, z) = DwellOf(sess[sid], z)
            BY <2>4, <2>6 DEF DwellOf
        <3> QED
            BY <1>1, <2>3, <3>1, DwellOfType
    <2>12. /\ \A v \in DOMAIN sess : sess[v].key = sess[sid].key => v = sid
           /\ ev.type \notin PersonEvent
        BY <1>1, <2>3 DEF Arrivals, PersonEvent
    <2> QED
        BY <1>1, <2>3, <2>5, <2>7, <2>10, <2>11, <2>12, OneFollows
<1>4. CASE ReceiptBuffered(env)
    <2>1. sess' = sess /\ pending' = Buffer(pending, env)
        BY <1>4 DEF ReceiptBuffered
    <2>2. pending' = Append(pending, env)
        BY <2>1 DEF Buffer
    <2>3. Len(pending') = Len(pending) + 1
        BY <1>1, <2>2 DEF TypeOK
    <2> QED
        BY <1>1, <2>1, <2>3, NoneFollows
<1> QED
    BY <1>3, <1>4

\* The receipts before the nth event.
Before(n) == {m \in Receipts(timeline) : m < n}

LEMMA BeforeNext ==
    ASSUME MainInv, Orderly(timeline), next \in DOMAIN timeline
    PROVE  /\ IsFiniteSet(Before(next)) /\ Cardinality(Before(next)) \in Nat
           /\ Cardinality(Before(next + 1))
                = Cardinality(Before(next))
                    + IF timeline[next].type = "pos_receipt" THEN 1 ELSE 0
           /\ Cardinality(Before(next + 1)) <= Len(Customer)
<1>1. DOMAIN timeline \subseteq Nat /\ next \in Nat /\ Len(Customer) \in Nat
    BY SynthAssumption DEF MainInv, Coherent
<1>2. IsFiniteSet(Receipts(timeline)) /\ Cardinality(Receipts(timeline)) <= Len(Customer)
    BY DEF Orderly
<1>3. Before(next) \subseteq Receipts(timeline) /\ Before(next + 1) \subseteq Receipts(timeline)
    BY DEF Before
<1>4. /\ IsFiniteSet(Before(next)) /\ Cardinality(Before(next)) \in Nat
      /\ Cardinality(Before(next + 1)) \in Nat /\ Cardinality(Receipts(timeline)) \in Nat
      /\ Cardinality(Before(next + 1)) <= Cardinality(Receipts(timeline))
    BY <1>2, <1>3, FS_Subset, FS_CardinalityType
<1>5. CASE timeline[next].type = "pos_receipt"
    <2>1. next \notin Before(next) /\ Before(next + 1) = Before(next) \cup {next}
        BY <1>1, <1>5 DEF Before, Receipts
    <2>2. Cardinality(Before(next + 1)) = Cardinality(Before(next)) + 1
        BY <1>4, <2>1, FS_AddElement
    <2> QED
        BY <1>1, <1>2, <1>4, <1>5, <2>2
<1>6. CASE timeline[next].type # "pos_receipt"
    <2>1. Before(next + 1) = Before(next)
        BY <1>1, <1>6 DEF Before, Receipts
    <2> QED
        BY <1>1, <1>2, <1>4, <1>6, <2>1
<1> QED
    BY <1>5, <1>6

\* An event of anybody but a customer at the doors does as Follows says.
LEMMA OthersFollow ==
    ASSUME MainInv, StoreInv, Orderly(timeline), Learned, Due,
           Len(Customer) <= MaxPending, Others(Published(timeline[next]))
    PROVE  Follows(timeline[next]) /\ timeline[next].type \notin {"person_entered", "person_exited"}
<1> DEFINE ev == timeline[next]
           env == Published(ev)
<1>1. next \in DOMAIN timeline /\ env \in WellFormed /\ env.type = ev.type
    BY PublishedIs
<1>2. /\ env.zone = ev.zone /\ env.dwell = ev.dwell /\ ev.dwell \in Nat
      /\ ev.type # "zone_dwell" => ev.dwell = 0
      /\ ev.type \in {"zone_entered", "zone_dwell"} => ev.zone \in Zone
      /\ \/ /\ ev.type \in CustomerEvent /\ ev.label \in Range(Customer)
            /\ Key(env) = ev.label
         \/ /\ ev.type = "staff_observed" /\ ev.label \notin Range(Customer)
            /\ Key(env) = ev.label
         \/ ev.type = "pos_receipt" /\ ev.label \notin Range(Customer)
    BY SentIs
<1>3. TypeOK /\ Arrivals /\ Queues /\ Bills /\ Others(env)
    BY DEF StoreInv, Learned
<1>4. ASSUME ev.type \in CustomerEvent \ {"person_entered"}
      PROVE  Lookup(env) # {}
    <2>1. ev.label \in Range(Customer) /\ Key(env) = ev.label
        BY <1>2, <1>4 DEF CustomerEvent
    <2>2. PICK i \in DOMAIN open : sess[open[i]].key = ev.label
        BY <1>1, <1>3, <1>4, <2>1, Present
    <2> HIDE DEF env
    <2> QED
        BY <2>1, <2>2 DEF Lookup, Filed
<1> HIDE DEF ev, env
<1>5. CASE ZoneEntered(env) \/ ZoneDwell(env)
    <2>1. ev.type \in {"zone_entered", "zone_dwell"}
        BY <1>1, <1>5 DEF ZoneEntered, ZoneDwell, On
    <2>2. Key(env) = ev.label
        BY <1>2, <2>1
    <2>3. Follows(ev)
        BY <1>1, <1>2, <1>3, <1>5, <2>2, ZoneFollows
    <2> QED
        BY <2>1, <2>3 DEF ev
<1>6. CASE StaffObserved(env)
    <2>1. ev.type = "staff_observed" /\ Lookup(env) # {}
        BY <1>1, <1>6 DEF StaffObserved, On
    <2>2. PICK sid \in DOMAIN sess : sess[sid].key = Key(env)
        BY <1>3, <2>1, FiledType DEF Lookup
    <2>3. Key(env) \notin Range(Customer)
        BY <1>2, <2>1 DEF CustomerEvent
    <2> QED
        BY <1>3, <2>2, <2>3 DEF Arrivals
<1>7. CASE CheckoutObserved(env)
    <2>1. ev.type = "checkout_observed"
        BY <1>1, <1>7 DEF CheckoutObserved, On
    <2>2. Key(env) = ev.label /\ ev.dwell = 0
        BY <1>2, <2>1
    <2>3. ~ Passed(next, "checkout_observed", ev.label)
        <3>1. DOMAIN timeline \subseteq Nat
            BY DEF MainInv, Coherent
        <3> QED
            BY <1>1, <2>1, <3>1 DEF Passed, Orderly, ev
    <2>4. \A sid \in Lookup(env) : sess[sid].checkout = None
        <3>1. \A sid \in Lookup(env) : sid \in DOMAIN sess /\ sess[sid].key = ev.label
            BY <1>3, <2>2, FiledType DEF Lookup
        <3> QED
            BY <1>3, <2>3, <3>1 DEF Queues
    <2>5. Follows(ev)
        BY <1>1, <1>3, <1>7, <2>2, <2>4, CheckoutFollows
    <2> QED
        BY <2>1, <2>5 DEF ev
<1>8. CASE ReceiptJoined(env) \/ ReceiptBuffered(env)
    <2>1. ev.type = "pos_receipt"
        BY <1>1, <1>8 DEF ReceiptJoined, ReceiptBuffered, On
    <2>2. ev.dwell = 0
        BY <1>2, <2>1
    <2>3. Len(pending) < MaxPending
        <3> DEFINE b == Cardinality(Before(next))
                   c == Cardinality(Before(next + 1))
                   h == Cardinality(Holding)
                   p == Len(pending)
        <3>1. b \in Nat /\ c = b + 1 /\ c <= Len(Customer)
            BY <1>1, <2>1, BeforeNext DEF ev
        <3>2. h + p = b
            BY <1>3 DEF Bills, Before
        <3>3. h \in Nat /\ p \in Nat
            BY <1>3, HoldingFinite DEF TypeOK
        <3>4. Len(Customer) \in Nat /\ MaxPending \in Nat
            BY SynthAssumption, TunableAssumption
        <3> HIDE DEF b, c, h, p
        <3>5. p < MaxPending
            BY <3>1, <3>2, <3>3, <3>4
        <3> QED
            BY <3>5 DEF p
    <2>4. Follows(ev)
        BY <1>1, <1>3, <1>8, <2>2, <2>3, ReceiptFollows
    <2> QED
        BY <2>1, <2>4 DEF ev
<1>9. CASE Ignored(env)
    <2>1. sess' = sess /\ pending' = pending
        BY <1>9 DEF Ignored, memory
    <2>2. ev.type \notin CustomerEvent
        <3> SUFFICES ASSUME ev.type \in CustomerEvent PROVE FALSE
            OBVIOUS
        <3>1. CASE ev.type = "person_entered"
            <4>1. Key(env) \in Range(Customer)
                BY <1>2, <3>1
            <4>2. Key(env) # None
                BY <4>1, SynthAssumption, NoneAssumption DEF Range
            <4> QED
                BY <1>1, <1>9, <3>1, <4>2 DEF Ignored, On
        <3>2. CASE ev.type # "person_entered"
            <4>1. Lookup(env) # {}
                BY <1>4, <3>2
            <4>2. ev.type # "health_warning"
                BY DEF CustomerEvent
            <4> QED
                BY <1>1, <1>9, <3>2, <4>1, <4>2 DEF Ignored, On
        <3> QED
            BY <3>1, <3>2
    <2>3. ev.type = "staff_observed"
        <3>1. ev.type # "pos_receipt"
            BY <1>1, <1>9 DEF Ignored, On, PersonEvent
        <3> QED
            BY <1>2, <2>2, <3>1
    <2>4. Len(pending') = Len(pending) + IF ev.type = "pos_receipt" THEN 1 ELSE 0
        BY <1>3, <2>1, <2>3 DEF TypeOK
    <2>5. Follows(ev)
        BY <1>2, <1>3, <2>1, <2>3, <2>4, NoneFollows
    <2> QED
        BY <2>3, <2>5 DEF ev
<1> QED
    BY <1>3, <1>5, <1>6, <1>7, <1>8, <1>9 DEF Others

LEMMA ExitFollows ==
    ASSUME StoreInv, Arrivals, Queues, NEW ev, NEW env \in WellFormed,
           env.type = ev.type, Key(env) = ev.label, ev.dwell = 0, Exited(env)
    PROVE  Follows(ev)
<1>1. PICK i \in Filed(open, Key(env)) :
         sess' = [sess EXCEPT ![open[i]] = Restaged([sess[open[i]] EXCEPT !.exited = env.ts])]
    BY DEF Exited
<1> DEFINE sid == open[i]
           t == [sess[sid] EXCEPT !.exited = env.ts]
           s == Restaged(t)
<1>2. TypeOK /\ ev.type = "person_exited" /\ pending' = pending
    BY DEF StoreInv, Exited, On
<1>3. sid \in DOMAIN sess /\ sess[sid] \in Session /\ sess[sid].key = ev.label
    BY <1>2, FiledType DEF TypeOK
<1>4. /\ t \in Session /\ t.key = sess[sid].key /\ t.checkout = sess[sid].checkout
      /\ t.zones = sess[sid].zones /\ t.receipt = sess[sid].receipt
    BY <1>3, EnvelopeType DEF Session
<1>5. sess' = [sess EXCEPT ![sid] = s]
    BY <1>1
<1> HIDE DEF t, sid
<1>6. /\ s.key = sess[sid].key /\ s.checkout = sess[sid].checkout
      /\ s.zones = sess[sid].zones /\ s.receipt = sess[sid].receipt
    BY <1>4 DEF Restaged, Session
<1> HIDE DEF s
<1>7. Holding' = Holding
    <2>1. s.receipt = None <=> sess[sid].receipt = None
        BY <1>6
    <2> QED
        BY <1>2, <1>3, <1>5, <2>1, HoldingOne
<1>8. Cardinality(Holding') + Len(pending')
        = Cardinality(Holding) + Len(pending)
            + IF ev.type = "pos_receipt" THEN 1 ELSE 0
    BY <1>2, <1>7, HoldingFinite DEF TypeOK
<1>9. \A z \in Zone : DwellOf(s, z) = DwellOf(sess[sid], z)
                        + IF sess[sid].key = ev.label /\ ev.zone = z THEN ev.dwell ELSE 0
    <2> SUFFICES ASSUME NEW z \in Zone PROVE DwellOf(s, z) = DwellOf(sess[sid], z) + 0
        OBVIOUS
    <2>1. DwellOf(s, z) = DwellOf(sess[sid], z)
        BY <1>6 DEF DwellOf
    <2> QED
        BY <1>2, <1>3, <2>1, DwellOfType
<1>10. /\ s.checkout # None <=> sess[sid].checkout # None \/ ev.type = "checkout_observed"
       /\ s.receipt # None => s.checkout # None
       /\ \A v \in DOMAIN sess : sess[v].key = sess[sid].key => v = sid
    BY <1>2, <1>3, <1>6 DEF Queues, Arrivals
<1> QED
    BY <1>2, <1>3, <1>5, <1>6, <1>8, <1>9, <1>10, OneFollows

\* The dwell told by no event, and by one more.
LEMMA DweltSteps ==
    ASSUME MainInv, NEW label, NEW z
    PROVE  /\ Dwelt(label, z)[0] = 0
           /\ next \in DOMAIN timeline =>
                Dwelt(label, z)[next] = Dwelt(label, z)[next - 1]
                  + IF timeline[next].label = label /\ timeline[next].zone = z
                    THEN timeline[next].dwell ELSE 0
<1> DEFINE d == Dwelt(label, z)
           n == Len(timeline)
           f(k) == IF k = 0 THEN 0
                   ELSE d[k - 1] + IF timeline[k].label = label /\ timeline[k].zone = z
                                   THEN timeline[k].dwell ELSE 0
<1>1. n \in Nat /\ DOMAIN timeline = 1..n
    BY DEF MainInv, Coherent
<1>2. d = [k \in 0..n |-> f(k)]
    BY <1>1, DweltIs DEF Totals
<1>3. 0 \in 0..n /\ (next \in DOMAIN timeline => next \in 0..n /\ next # 0)
    BY <1>1
<1> HIDE DEF d, n
<1>4. d[0] = f(0) /\ (next \in DOMAIN timeline => d[next] = f(next))
    BY <1>2, <1>3
<1> QED
    BY <1>3, <1>4 DEF d

\* What the sessions and the buffer know when the event has been followed.
LEMMA Followed ==
    ASSUME MainInv, StoreInv, Orderly(timeline), Learned, next \in DOMAIN timeline,
           timeline' = timeline, next' = next + 1, Follows(timeline[next]),
           timeline[next].type = "person_entered" => timeline[next].dwell = 0
    PROVE  (Queues /\ Watches /\ Bills)'
<1> DEFINE ev == timeline[next]
<1>1. /\ DOMAIN sess' = DOMAIN sess
      /\ \A v \in DOMAIN sess : sess'[v].key = sess[v].key
    BY DEF Follows
<1>2. Queues'
    <2> SUFFICES ASSUME NEW v \in DOMAIN sess
                 PROVE  /\ sess'[v].checkout # None
                             <=> Passed(next + 1, "checkout_observed", sess[v].key)
                        /\ sess'[v].receipt # None => sess'[v].checkout # None
        BY <1>1 DEF Queues, Passed
    <2>1. Passed(next + 1, "checkout_observed", sess[v].key)
            <=> \/ Passed(next, "checkout_observed", sess[v].key)
                \/ ev.type = "checkout_observed" /\ ev.label = sess[v].key
        BY PassedNext
    <2>2. sess[v].checkout # None <=> Passed(next, "checkout_observed", sess[v].key)
        BY DEF Learned, Queues
    <2>3. /\ sess'[v].checkout # None <=>
               sess[v].checkout # None \/ (ev.type = "checkout_observed" /\ sess[v].key = ev.label)
          /\ sess'[v].receipt # None => sess'[v].checkout # None
        BY DEF Follows
    <2> QED
        BY <2>1, <2>2, <2>3
<1>3. Watches'
    <2>1. \A c, z : Dwelt(c, z)' = Dwelt(c, z)
        BY DEF Dwelt
    <2>2. (next + 1) - 1 = next
        BY DEF MainInv
    <2> SUFFICES ASSUME NEW c \in Range(Customer), NEW z \in Zone
                 PROVE  /\ \A v \in DOMAIN sess :
                             sess[v].key = c => DwellOf(sess'[v], z) = Dwelt(c, z)[next]
                        /\ (\A v \in DOMAIN sess : sess[v].key # c) => Dwelt(c, z)[next] = 0
        BY <1>1, <2>1, <2>2 DEF Watches, DwellOf
    <2>3. Dwelt(c, z)[next] = Dwelt(c, z)[next - 1]
                                + IF ev.label = c /\ ev.zone = z THEN ev.dwell ELSE 0
        BY DweltSteps
    <2>4. ASSUME NEW v \in DOMAIN sess, sess[v].key = c
          PROVE  DwellOf(sess'[v], z) = Dwelt(c, z)[next]
        <3>1. DwellOf(sess[v], z) = Dwelt(c, z)[next - 1]
            BY <2>4 DEF Learned, Watches
        <3>2. DwellOf(sess'[v], z) = DwellOf(sess[v], z)
                + IF c = ev.label /\ ev.zone = z THEN ev.dwell ELSE 0
            BY <2>4 DEF Follows
        <3> QED
            BY <2>3, <3>1, <3>2
    <2>5. ASSUME \A v \in DOMAIN sess : sess[v].key # c
          PROVE  Dwelt(c, z)[next] = 0
        <3>1. Dwelt(c, z)[next - 1] = 0
            BY <2>5 DEF Learned, Watches
        <3>2. ev.label = c => ev.dwell = 0
            <4> SUFFICES ASSUME ev.label = c, ev.type # "person_entered" PROVE FALSE
                OBVIOUS
            <4>1. \E i \in DOMAIN open : sess[open[i]].key = c
                BY Present DEF Learned
            <4>2. \A i \in DOMAIN open : open[i] \in DOMAIN sess
                BY DEF StoreInv, TypeOK
            <4> QED
                BY <2>5, <4>1, <4>2
        <3> QED
            BY <2>3, <3>1, <3>2
    <2> QED
        BY <2>4, <2>5
<1>4. Bills'
    <2>1. Cardinality(Holding) + Len(pending) = Cardinality(Before(next))
        BY DEF Learned, Bills, Before
    <2>2. Cardinality(Before(next + 1))
            = Cardinality(Before(next)) + IF ev.type = "pos_receipt" THEN 1 ELSE 0
        BY BeforeNext
    <2>3. Cardinality(Holding') + Len(pending')
            = Cardinality(Holding) + Len(pending)
                + IF ev.type = "pos_receipt" THEN 1 ELSE 0
        BY DEF Follows
    <2>4. Cardinality(Holding') + Len(pending') = Cardinality(Before(next + 1))
        BY <2>1, <2>2, <2>3
    <2> QED
        BY <2>4 DEF Bills, Before, Receipts
<1> QED
    BY <1>2, <1>3, <1>4

-----------------------------------------------------------------------------
(* At the doors.                                                           *)

\* A customer enters, for the first time.
LEMMA EntryLearned ==
    ASSUME MainInv, StoreInv, Orderly(timeline), Learned, Publish,
           Reopened(Published(timeline[next])) \/ Opened(Published(timeline[next]))
    PROVE  Learned'
<1> DEFINE ev == timeline[next]
           env == Published(ev)
           c == ev.label
           new == Len(sess) + 1
<1>1. /\ next \in DOMAIN timeline /\ env \in WellFormed /\ env.type = ev.type
      /\ next' = next + 1 /\ timeline' = timeline
    BY PublishedIs DEF Publish, synth
<1>2. TypeOK /\ FiledOnce /\ Arrivals /\ Queues /\ Watches /\ Bills
    BY DEF StoreInv, Learned
<1>3. ev.type = "person_entered" /\ ev.dwell = 0 /\ Key(env) = c /\ c \in Range(Customer)
    <2>1. ev.type = "person_entered"
        BY <1>1 DEF Reopened, Opened, On
    <2> QED
        BY <2>1, SentIs DEF Publish
<1>4. (\A v \in DOMAIN sess : sess[v].key # c) /\ \A type : ~ Passed(next, type, c)
    BY <1>1, <1>2, <1>3, Absent
<1> HIDE DEF env
<1>5. /\ sess' = Append(sess, NewSession(c, env)) /\ pending' = pending
    <2>1. ~ Reopened(env)
        BY <1>2, <1>3, <1>4, FiledType DEF Reopened
    <2> QED
        BY <1>3, <2>1 DEF Opened, env
<1>6. /\ DOMAIN sess' = DOMAIN sess \cup {new} /\ new \notin DOMAIN sess
      /\ sess'[new] = NewSession(c, env)
      /\ \A v \in DOMAIN sess : sess'[v] = sess[v]
    BY <1>2, <1>5 DEF TypeOK
<1>7. /\ sess'[new].key = c /\ sess'[new].exited = None /\ sess'[new].checkout = None
      /\ sess'[new].receipt = None /\ \A z \in Zone : DwellOf(sess'[new], z) = 0
    BY <1>6 DEF NewSession, DwellOf
<1>8. \A v \in Range(open) : v \in DOMAIN sess
    BY <1>2 DEF TypeOK, Range
<1>9. /\ new \in Range(open')
      /\ \A v \in Range(open) : v \in Range(open')
    <2>1. PICK sid \in DOMAIN sess' : LetsIn(c, sid)
        BY <1>1, <1>2, <1>3, EnteringLetsIn DEF env
    <2>2. sid = new
        BY <1>4, <1>6, <2>1 DEF LetsIn
    <2> QED
        BY <1>4, <1>8, <2>1, <2>2 DEF LetsIn, Range
<1> HIDE DEF new
<1>10. \A type, label : Passed(next + 1, type, label)
           <=> Passed(next, type, label) \/ (type = "person_entered" /\ label = c)
    BY <1>1, <1>3, PassedNext
<1>11. Arrivals'
    <2>1. ASSUME NEW v \in DOMAIN sess'
          PROVE  /\ sess'[v].key \in Range(Customer)
                 /\ Passed(next + 1, "person_entered", sess'[v].key)
                 /\ sess'[v].exited # None <=> Passed(next + 1, "person_exited", sess'[v].key)
                 /\ sess'[v].exited = None => v \in Range(open')
        <3>1. CASE v = new
            BY <1>3, <1>4, <1>7, <1>9, <1>10, <3>1
        <3>2. CASE v \in DOMAIN sess
            <4>1. sess'[v] = sess[v]
                BY <1>6, <3>2
            <4> QED
                BY <1>2, <1>9, <1>10, <3>2, <4>1 DEF Arrivals
        <3> QED
            BY <1>6, <3>1, <3>2
    <2>2. ASSUME NEW v \in DOMAIN sess', NEW w \in DOMAIN sess', sess'[v].key = sess'[w].key
          PROVE  v = w
        BY <1>2, <1>4, <1>6, <1>7, <2>2 DEF Arrivals
    <2>3. ASSUME NEW d \in Range(Customer), Passed(next + 1, "person_entered", d)
          PROVE  \E v \in DOMAIN sess' : sess'[v].key = d
        <3>1. CASE d = c
            BY <1>6, <1>7, <3>1
        <3>2. CASE d # c
            <4>1. Passed(next, "person_entered", d)
                BY <1>10, <2>3, <3>2
            <4>2. PICK v \in DOMAIN sess : sess[v].key = d
                BY <1>2, <4>1 DEF Arrivals
            <4> QED
                BY <1>6, <4>2
        <3> QED
            BY <3>1, <3>2
    <2> QED
        BY <1>1, <2>1, <2>2, <2>3 DEF Arrivals, Passed
<1>12. Queues'
    <2> SUFFICES ASSUME NEW v \in DOMAIN sess'
                 PROVE  /\ sess'[v].checkout # None
                             <=> Passed(next + 1, "checkout_observed", sess'[v].key)
                        /\ sess'[v].receipt # None => sess'[v].checkout # None
        BY <1>1 DEF Queues, Passed
    <2>1. CASE v = new
        BY <1>4, <1>7, <1>10, <2>1
    <2>2. CASE v \in DOMAIN sess
        <3>1. sess'[v] = sess[v]
            BY <1>6, <2>2
        <3> QED
            BY <1>2, <1>10, <2>2, <3>1 DEF Queues
    <2> QED
        BY <1>6, <2>1, <2>2
<1>13. Watches'
    <2>1. \A d, z : Dwelt(d, z)' = Dwelt(d, z)
        BY <1>1 DEF Dwelt
    <2>2. (next + 1) - 1 = next
        BY DEF MainInv
    <2> SUFFICES ASSUME NEW d \in Range(Customer), NEW z \in Zone
                 PROVE  /\ \A v \in DOMAIN sess' :
                             sess'[v].key = d => DwellOf(sess'[v], z) = Dwelt(d, z)[next]
                        /\ (\A v \in DOMAIN sess' : sess'[v].key # d) => Dwelt(d, z)[next] = 0
        BY <1>1, <2>1, <2>2 DEF Watches, DwellOf
    <2>3. Dwelt(d, z)[next] = Dwelt(d, z)[next - 1] + 0
        BY <1>1, <1>3, DweltSteps
    <2>4. CASE \A v \in DOMAIN sess : sess[v].key # d
        <3>1. Dwelt(d, z)[next - 1] = 0
            BY <1>2, <2>4 DEF Watches
        <3>2. Dwelt(d, z)[next] = 0
            BY <2>3, <3>1
        <3> QED
            BY <1>6, <1>7, <2>4, <3>2
    <2>5. ASSUME NEW w \in DOMAIN sess, sess[w].key = d
          PROVE  /\ \A v \in DOMAIN sess' :
                      sess'[v].key = d => DwellOf(sess'[v], z) = Dwelt(d, z)[next]
                 /\ (\A v \in DOMAIN sess' : sess'[v].key # d) => Dwelt(d, z)[next] = 0
        <3>1. DwellOf(sess[w], z) = Dwelt(d, z)[next - 1] /\ DwellOf(sess[w], z) \in Nat
            BY <1>2, <2>5, DwellOfType DEF Watches
        <3>2. DwellOf(sess[w], z) = Dwelt(d, z)[next]
            BY <2>3, <3>1
        <3>3. \A v \in DOMAIN sess' : sess'[v].key = d => v \in DOMAIN sess /\ v = w
            BY <1>2, <1>4, <1>6, <1>7, <2>5 DEF Arrivals
        <3>4. w \in DOMAIN sess' /\ sess'[w] = sess[w]
            BY <1>6, <2>5
        <3> QED
            BY <2>5, <3>2, <3>3, <3>4
    <2> QED
        BY <2>4, <2>5
<1>14. Bills'
    <2>1. Holding' = Holding
        BY <1>6, <1>7 DEF Holding
    <2>2. Cardinality(Before(next + 1)) = Cardinality(Before(next))
        BY <1>1, <1>3, BeforeNext
    <2> QED
        BY <1>1, <1>2, <1>5, <2>1, <2>2 DEF Bills, Before, Receipts
<1> QED
    BY <1>11, <1>12, <1>13, <1>14 DEF Learned

\* An event at no door leaves keys, exits and the open sessions alone.
LEMMA OthersArrive ==
    ASSUME MainInv, Arrivals, next \in DOMAIN timeline,
           timeline' = timeline, next' = next + 1, LetsBe,
           timeline[next].type \notin {"person_entered", "person_exited"}
    PROVE  Arrivals'
<1>1. \A label : \A type \in {"person_entered", "person_exited"} :
        Passed(next + 1, type, label) <=> Passed(next, type, label)
    BY PassedNext
<1>2. /\ \A v \in DOMAIN sess' :
           /\ sess'[v].key \in Range(Customer) /\ Passed(next + 1, "person_entered", sess'[v].key)
           /\ sess'[v].exited # None <=> Passed(next + 1, "person_exited", sess'[v].key)
           /\ sess'[v].exited = None => v \in Range(open')
      /\ \A v, w \in DOMAIN sess' : sess'[v].key = sess'[w].key => v = w
      /\ \A c \in Range(Customer) :
           Passed(next + 1, "person_entered", c) => \E v \in DOMAIN sess' : sess'[v].key = c
    BY <1>1 DEF Arrivals, LetsBe
<1> QED
    BY <1>2 DEF Arrivals, Passed

\* A customer leaves.
LEMMA ExitArrive ==
    ASSUME MainInv, StoreInv, Arrivals, next \in DOMAIN timeline,
           timeline' = timeline, next' = next + 1, Follows(timeline[next]),
           timeline[next].type = "person_exited",
           NEW sid \in DOMAIN sess, LetsOut(timeline[next].label, sid)
    PROVE  Arrivals'
<1> DEFINE c == timeline[next].label
<1>1. \A type, label : Passed(next + 1, type, label)
          <=> Passed(next, type, label) \/ (type = "person_exited" /\ label = c)
    BY PassedNext
<1>2. /\ DOMAIN sess' = DOMAIN sess /\ \A v \in DOMAIN sess : sess'[v].key = sess[v].key
    BY DEF Follows
<1>3. /\ sess[sid].key = c /\ sess'[sid].exited # None
      /\ \A v \in DOMAIN sess \ {sid} : sess'[v] = sess[v] /\ sess[v].key # c
    BY DEF LetsOut, Arrivals
<1>4. \A v \in Range(open) \ {sid} : v \in Range(open')
    BY DEF LetsOut, Range
<1>5. /\ \A v \in DOMAIN sess' :
           /\ sess'[v].key \in Range(Customer) /\ Passed(next + 1, "person_entered", sess'[v].key)
           /\ sess'[v].exited # None <=> Passed(next + 1, "person_exited", sess'[v].key)
           /\ sess'[v].exited = None => v \in Range(open')
      /\ \A v, w \in DOMAIN sess' : sess'[v].key = sess'[w].key => v = w
      /\ \A d \in Range(Customer) :
           Passed(next + 1, "person_entered", d) => \E v \in DOMAIN sess' : sess'[v].key = d
    <2> SUFFICES ASSUME NEW v \in DOMAIN sess
                 PROVE  /\ sess'[v].key \in Range(Customer)
                        /\ Passed(next + 1, "person_entered", sess'[v].key)
                        /\ sess'[v].exited # None
                             <=> Passed(next + 1, "person_exited", sess'[v].key)
                        /\ sess'[v].exited = None => v \in Range(open')
        BY <1>1, <1>2 DEF Arrivals
    <2>1. CASE v = sid
        BY <1>1, <1>2, <1>3, <2>1 DEF Arrivals
    <2>2. CASE v # sid
        BY <1>1, <1>2, <1>3, <1>4, <2>2 DEF Arrivals
    <2> QED
        BY <2>1, <2>2
<1> QED
    BY <1>5 DEF Arrivals, Passed

LEMMA PublishLearns ==
    ASSUME MainInv, StoreInv, Orderly(timeline), Learned, Publish, Len(Customer) <= MaxPending
    PROVE  Learned'
<1> DEFINE ev == timeline[next]
           env == Published(ev)
<1>1. /\ next \in DOMAIN timeline /\ env \in WellFormed /\ env.type = ev.type
      /\ next' = next + 1 /\ timeline' = timeline /\ Apply(env) /\ Due
    BY PublishedIs DEF Publish, synth
<1>2. TypeOK /\ FiledOnce /\ Arrivals /\ Queues
    BY DEF StoreInv, Learned
<1>3. ev.type # "zone_dwell" => ev.dwell = 0
    BY <1>1, SentIs
<1>4. CASE Reopened(env) \/ Opened(env)
    BY <1>4, EntryLearned
<1>5. CASE Exited(env)
    <2>1. ev.type = "person_exited" /\ ev.dwell = 0
        BY <1>1, <1>3, <1>5 DEF Exited, On
    <2>2. Key(env) = ev.label
        BY <1>1, <2>1, SentIs
    <2> HIDE DEF env
    <2>3. Follows(ev)
        BY <1>1, <1>2, <1>5, <2>1, <2>2, ExitFollows
    <2>4. PICK sid \in DOMAIN sess : LetsOut(ev.label, sid)
        BY <1>1, <1>2, <1>5, <2>2, ExitedLetsOut
    <2>5. Arrivals'
        BY <1>1, <1>2, <2>1, <2>3, <2>4, ExitArrive
    <2>6. (Queues /\ Watches /\ Bills)'
        BY <1>1, <2>1, <2>3, Followed
    <2> QED
        BY <2>5, <2>6 DEF Learned
<1>6. CASE Others(env)
    <2>1. Follows(ev) /\ ev.type \notin {"person_entered", "person_exited"}
        BY <1>1, <1>6, OthersFollow
    <2>2. LetsBe
        BY <1>1, <1>2, <1>6, OthersLetBe
    <2>3. Arrivals'
        BY <1>1, <1>2, <2>1, <2>2, OthersArrive
    <2>4. (Queues /\ Watches /\ Bills)'
        BY <1>1, <2>1, Followed
    <2> QED
        BY <2>3, <2>4 DEF Learned
<1> QED
    BY <1>1, <1>4, <1>5, <1>6 DEF Apply, Others

-----------------------------------------------------------------------------
(* The truth is recovered.                                                 *)

\* The store has learned the truth as far as it was told, while it is fed for
\* the first time.
TruthInv ==
    /\ MainInv /\ StoreInv /\ Orderly(timeline)
    /\ runs = 1 => Learned

LEMMA TruthInit == SynthInit => TruthInv
<1> SUFFICES ASSUME SynthInit PROVE TruthInv
    OBVIOUS
<1>1. MainInv /\ StoreInv
    BY InsideInit
<1>2. Orderly(timeline)
    BY TimelineOrderly DEF SynthInit
<1>3. sess = <<>> /\ pending = <<>> /\ next = 1
    BY DEF SynthInit, Init
<1>4. DOMAIN timeline \subseteq Nat \ {0}
    BY <1>1 DEF MainInv, Coherent
<1>5. \A type, label : ~ Passed(next, type, label)
    BY <1>3, <1>4 DEF Passed
<1>6. Arrivals /\ Queues
    BY <1>3, <1>5 DEF Arrivals, Queues
<1>7. Watches
    <2>1. next - 1 = 0 /\ DOMAIN sess = {}
        BY <1>3
    <2>2. \A c, z : Dwelt(c, z)[0] = 0
        BY <1>1, DweltSteps
    <2> QED
        BY <2>1, <2>2 DEF Watches
<1>8. Bills
    <2>1. Holding = {} /\ {n \in Receipts(timeline) : n < next} = {}
        BY <1>3, <1>4 DEF Holding, Receipts
    <2> QED
        BY <1>3, <2>1, FS_EmptySet DEF Bills
<1> QED
    BY <1>1, <1>2, <1>6, <1>7, <1>8 DEF TruthInv, Learned

LEMMA TruthStep ==
    ASSUME Len(Customer) <= MaxPending, TruthInv, [SynthNext]_synthVars
    PROVE  TruthInv'
<1>1. (MainInv /\ StoreInv)'
    BY MainStep, StoreStep DEF TruthInv
<1>2. timeline' = timeline
    BY DEF SynthNext, Tick, Publish, Loop, RunFails, Signal, Kill, Restart, synth, synthVars
<1>3. Orderly(timeline)'
    BY <1>2 DEF TruthInv, Orderly, Stays, Receipts
<1>4. CASE Publish
    <2>1. runs' = runs
        BY <1>4 DEF Publish
    <2> QED
        BY <1>1, <1>3, <1>4, <2>1, PublishLearns DEF TruthInv
<1>5. CASE ~ Publish
    <2>1. \/ UNCHANGED <<sess, open, pending, next, runs>>
          \/ runs' = runs + 1
        BY <1>5 DEF SynthNext, Tick, Loop, RunFails, Signal, Kill, Restart, Begin,
                    synthVars, main, vars, memory
    <2>2. CASE UNCHANGED <<sess, open, pending, next, runs>>
        <3>1. Learned => Learned'
            BY <1>2, <2>2 DEF Learned, Arrivals, Queues, Watches, Bills, Passed, Holding,
                              Receipts, DwellOf, Dwelt
        <3> QED
            BY <1>1, <1>3, <2>2, <3>1 DEF TruthInv
    <2>3. CASE runs' = runs + 1
        <3>1. runs' # 1
            BY <2>3, SynthAssumption DEF TruthInv, MainInv
        <3> QED
            BY <1>1, <1>3, <3>1 DEF TruthInv
    <2> QED
        BY <2>1, <2>2, <2>3
<1> QED
    BY <1>4, <1>5

\* One session per customer.
LEMMA OneEach ==
    ASSUME TypeOK, \A v \in DOMAIN sess : sess[v].key \in Range(Customer),
           \A v, w \in DOMAIN sess : sess[v].key = sess[w].key => v = w,
           \A c \in Range(Customer) : \E v \in DOMAIN sess : sess[v].key = c
    PROVE  Len(sess) = Len(Customer)
<1> DEFINE S == DOMAIN sess
           D == DOMAIN Customer
           f == [v \in S |-> CHOOSE i \in D : Customer[i] = sess[v].key]
           n == Len(sess)
<1>1. n \in Nat /\ S = 1..n
    BY DEF TypeOK
<1>2. IsFiniteSet(S) /\ Cardinality(S) = n
    <2> HIDE DEF n, S
    <2>1. n \in Int /\ 1 \in Int /\ (IF 1 > n THEN 0 ELSE n - 1 + 1) = n
        BY <1>1
    <2> QED
        BY <1>1, <2>1, FS_Interval
<1>3. IsFiniteSet(D) /\ Cardinality(D) = Len(Customer)
    BY CustomersCounted
<1>4. ASSUME NEW v \in S PROVE f[v] \in D /\ Customer[f[v]] = sess[v].key
    <2>1. \E i \in D : Customer[i] = sess[v].key
        BY DEF Range
    <2> QED
        BY <2>1
<1>5. f \in [S -> D]
    BY <1>4
<1>6. \A v, w \in S : f[v] = f[w] => v = w
    BY <1>4
<1>7. ASSUME NEW i \in D PROVE \E v \in S : f[v] = i
    <2>1. Customer[i] \in Range(Customer)
        BY DEF Range
    <2>2. PICK v \in S : sess[v].key = Customer[i]
        BY <2>1
    <2>3. f[v] \in D /\ Customer[f[v]] = Customer[i]
        BY <1>4, <2>2
    <2> HIDE DEF f
    <2>4. f[v] = i
        BY <2>3, SynthAssumption
    <2> QED
        BY <2>4
<1> HIDE DEF f, S, D
<1>8. f \in Injection(S, D) /\ f \in Surjection(S, D)
    BY <1>5, <1>6, <1>7 DEF Injection, IsInjective, Surjection
<1>9. Cardinality(S) = Cardinality(D)
    BY <1>3, <1>8, FS_Injection
<1> QED
    BY <1>2, <1>3, <1>9 DEF n

LEMMA LearnedIsTruth ==
    ASSUME TruthInv, Complete, runs = 1
    PROVE  GroundTruth
<1>1. /\ MainInv /\ TypeOK /\ Orderly(timeline)
      /\ Arrivals /\ Queues /\ Watches /\ Bills
    BY DEF TruthInv, StoreInv, Learned
<1>2. /\ Len(timeline) \in Nat /\ DOMAIN timeline = 1..Len(timeline)
      /\ next = Len(timeline) + 1 /\ next - 1 = Len(timeline)
    BY <1>1 DEF MainInv, Coherent, Complete
<1>3. \A n \in DOMAIN timeline : n < next
    BY <1>2
<1>4. \A type, label : Passed(next, type, label) <=>
        \E n \in DOMAIN timeline : timeline[n].type = type /\ timeline[n].label = label
    BY <1>3 DEF Passed
<1>5. ASSUME NEW c \in Range(Customer)
      PROVE  \E v \in DOMAIN sess : sess[v].key = c /\ sess[v].exited # None
    <2>1. \E m, x : Stays(timeline, c, m, x)
        BY <1>1 DEF Orderly
    <2>2. Passed(next, "person_entered", c) /\ Passed(next, "person_exited", c)
        BY <1>4, <2>1 DEF Stays
    <2> QED
        BY <1>1, <2>2 DEF Arrivals
<1>6. Len(sess) = Len(Customer)
    BY <1>1, <1>5, OneEach DEF Arrivals
<1>7. ASSUME NEW i \in DOMAIN Customer
      PROVE  \E v \in DOMAIN sess :
               LET s == sess[v]
                   trip == {timeline[n].type : n \in Of(Customer[i])}
               IN  /\ s.key = Customer[i] /\ s.exited # None
                   /\ s.checkout # None <=> "checkout_observed" \in trip
                   /\ \A z \in Zone :
                        TotalDwell(s.key, z)
                            = IF s.zones[z] = None THEN 0 ELSE s.zones[z].dwell
    <2>1. Customer[i] \in Range(Customer)
        BY DEF Range
    <2>2. PICK v \in DOMAIN sess : sess[v].key = Customer[i] /\ sess[v].exited # None
        BY <1>5, <2>1
    <2>3. sess[v].checkout # None <=> Passed(next, "checkout_observed", Customer[i])
        BY <1>1, <2>2 DEF Queues
    <2>4. Passed(next, "checkout_observed", Customer[i])
            <=> "checkout_observed" \in {timeline[n].type : n \in Of(Customer[i])}
        BY <1>4 DEF Of
    <2>5. ASSUME NEW z \in Zone
          PROVE  TotalDwell(sess[v].key, z) = DwellOf(sess[v], z)
        BY <1>1, <1>2, <2>1, <2>2 DEF Watches, TotalDwell
    <2> QED
        BY <2>2, <2>3, <2>4, <2>5 DEF DwellOf
<1>8. Cardinality({v \in DOMAIN sess : sess[v].receipt # None}) + Len(pending)
        = Cardinality({n \in DOMAIN timeline : timeline[n].type = "pos_receipt"})
    <2>1. {n \in Receipts(timeline) : n < next} = Receipts(timeline)
        BY <1>3 DEF Receipts
    <2> QED
        BY <1>1, <2>1 DEF Bills, Holding, Receipts
<1> QED
    BY <1>6, <1>7, <1>8 DEF GroundTruth

\* As long as the receipts of all customers find room in the buffer (thirty
\* customers by default, and room for two hundred), the store recovers what the
\* simulator knows, for any customers, trips and staff, at any pace: a session
\* each, its zones and dwell, the till and the bills (synth.py:118-257,
\* session.py:87-256).
THEOREM TruthRecovered ==
    ASSUME Len(Customer) <= MaxPending
    PROVE  SynthSpec => []GroundTruth
<1>1. TruthInv /\ [SynthNext]_synthVars => TruthInv'
    BY TruthStep
<1>2. TruthInv => GroundTruth
    BY LearnedIsTruth DEF GroundTruth
<1> QED
    BY <1>1, <1>2, TruthInit, PTL DEF SynthSpec
=============================================================================
