------------------------- MODULE SessionStoreProofs -------------------------
(***************************************************************************)
(* Theorems about the session store, for every set of envelopes and every  *)
(* value of the tunables.                                                  *)
(***************************************************************************)
EXTENDS SessionStore, SequenceTheorems, TLAPS

-----------------------------------------------------------------------------
(* Sequences and the dictionaries made of them. *)

\* Taking an element out of a sequence.
LEMMA RemoveAtProperties ==
    ASSUME NEW S, NEW s \in Seq(S), NEW i \in DOMAIN s
    PROVE  /\ RemoveAt(s, i) \in Seq(S)
           /\ Len(RemoveAt(s, i)) = Len(s) - 1
           /\ \A j \in 1..(Len(s) - 1) :
                RemoveAt(s, i)[j] = IF j < i THEN s[j] ELSE s[j + 1]
<1> DEFINE l == SubSeq(s, 1, i - 1)
           r == SubSeq(s, i + 1, Len(s))
<1>1. i \in 1..Len(s) /\ Len(s) \in Nat
    OBVIOUS
<1>2. /\ l \in Seq(S) /\ Len(l) = i - 1
      /\ \A j \in 1..(i - 1) : l[j] = s[j]
    BY <1>1
<1>3. /\ r \in Seq(S) /\ Len(r) = Len(s) - i
      /\ \A j \in 1..(Len(s) - i) : r[j] = s[i + j]
    BY <1>1
<1>4. RemoveAt(s, i) = l \o r
    BY DEF RemoveAt
<1> HIDE DEF l, r
<1>5. /\ l \o r \in Seq(S) /\ Len(l \o r) = Len(s) - 1
      /\ \A j \in 1..(Len(s) - 1) :
           (l \o r)[j] = IF j <= Len(l) THEN l[j] ELSE r[j - Len(l)]
    <2>1. Len(l) + Len(r) = Len(s) - 1
        BY <1>1, <1>2, <1>3
    <2>2. l \o r \in Seq(S) /\ Len(l \o r) = Len(l) + Len(r)
        BY <1>2, <1>3, ConcatProperties
    <2>3. \A j \in 1..(Len(l) + Len(r)) :
            (l \o r)[j] = IF j <= Len(l) THEN l[j] ELSE r[j - Len(l)]
        BY <1>2, <1>3, ConcatProperties
    <2> QED
        BY <2>1, <2>2, <2>3
<1>6. ASSUME NEW j \in 1..(Len(s) - 1)
      PROVE  (l \o r)[j] = IF j < i THEN s[j] ELSE s[j + 1]
    <2>1. CASE j < i
        <3>1. j \in 1..(i - 1) /\ j <= Len(l)
            BY <1>1, <1>2, <2>1
        <3>2. (l \o r)[j] = l[j]
            BY <1>5, <3>1
        <3> QED
            BY <1>2, <2>1, <3>1, <3>2
    <2>2. CASE ~ (j < i)
        <3>1. /\ j - Len(l) \in 1..(Len(s) - i) /\ ~ (j <= Len(l))
              /\ i + (j - Len(l)) = j + 1
            BY <1>1, <1>2, <2>2
        <3>2. (l \o r)[j] = r[j - Len(l)]
            BY <1>5, <3>1
        <3>3. r[j - Len(l)] = s[i + (j - Len(l))]
            BY <1>3, <3>1
        <3> QED
            BY <2>2, <3>1, <3>2, <3>3
    <2> QED
        BY <2>1, <2>2
<1> QED
    BY <1>4, <1>5, <1>6

\* Positions that are left.
LEMMA RemoveAtDomain ==
    ASSUME NEW S, NEW s \in Seq(S), NEW i \in DOMAIN s
    PROVE  DOMAIN RemoveAt(s, i) = 1..(Len(s) - 1)
<1> DEFINE m == RemoveAt(s, i)
<1>1. m \in Seq(S) /\ Len(m) = Len(s) - 1
    BY RemoveAtProperties
<1> HIDE DEF m
<1>2. DOMAIN m = 1..(Len(s) - 1)
    BY <1>1
<1> QED
    BY <1>2 DEF m

\* What is left was there before, each element at its own place.
LEMMA RemoveAtOld ==
    ASSUME NEW S, NEW s \in Seq(S), NEW i \in DOMAIN s,
           NEW j \in DOMAIN RemoveAt(s, i)
    PROVE  LET k == IF j < i THEN j ELSE j + 1
           IN  k \in DOMAIN s \ {i} /\ RemoveAt(s, i)[j] = s[k]
<1>1. j \in 1..(Len(s) - 1) /\ i \in 1..Len(s) /\ Len(s) \in Nat
    BY RemoveAtDomain
<1>2. RemoveAt(s, i)[j] = IF j < i THEN s[j] ELSE s[j + 1]
    BY <1>1, RemoveAtProperties
<1> QED
    BY <1>1, <1>2

\* An element that is left came from some position.
LEMMA RemoveAtFrom ==
    ASSUME NEW S, NEW s \in Seq(S), NEW i \in DOMAIN s
    PROVE  \A j \in DOMAIN RemoveAt(s, i) : \E k \in DOMAIN s \ {i} : RemoveAt(s, i)[j] = s[k]
<1> SUFFICES ASSUME NEW j \in DOMAIN RemoveAt(s, i)
             PROVE  \E k \in DOMAIN s \ {i} : RemoveAt(s, i)[j] = s[k]
    OBVIOUS
<1> QED
    BY RemoveAtOld

\* Python's d[key] = sid leaves a dictionary of the same type ...
LEMMA PutType ==
    ASSUME NEW S, NEW cache \in Seq(S), NEW key, NEW sid \in S
    PROVE  /\ Put(cache, key, sid) \in Seq(S)
           /\ Len(Put(cache, key, sid)) \in {Len(cache), Len(cache) + 1}
<1>1. CASE Filed(cache, key) = {}
    BY <1>1 DEF Put
<1>2. CASE Filed(cache, key) # {}
    <2> DEFINE m == [i \in DOMAIN cache |-> IF i \in Filed(cache, key) THEN sid ELSE cache[i]]
    <2>1. m \in Seq(S) /\ Len(m) = Len(cache)
        OBVIOUS
    <2> QED
        BY <1>2, <2>1 DEF Put
<1> QED
    BY <1>1, <1>2

UniqueIn(cache, s) ==
    \A i, j \in DOMAIN cache : s[cache[i]].key = s[cache[j]].key => i = j

\* m is `cache' but for one entry, sid, and nothing else is under the key.
OneEntry(m, cache, key, sid) ==
    \E k \in DOMAIN m :
        /\ m[k] = sid
        /\ \A j \in DOMAIN m \ {k} :
             j \in DOMAIN cache /\ m[j] = cache[j] /\ sess[cache[j]].key # key

\* ... with one entry under the key, when there was at most one.
LEMMA PutEntries ==
    ASSUME NEW S, NEW cache \in Seq(S), NEW key, NEW sid \in S, UniqueIn(cache, sess)
    PROVE  OneEntry(Put(cache, key, sid), cache, key, sid)
<1>1. CASE Filed(cache, key) = {}
    <2> DEFINE m == Append(cache, sid)
    <2>1. Put(cache, key, sid) = m
        BY <1>1 DEF Put
    <2>2. \A j \in DOMAIN cache : sess[cache[j]].key # key
        BY <1>1 DEF Filed
    <2>3. /\ Len(cache) + 1 \in DOMAIN m /\ m[Len(cache) + 1] = sid
          /\ \A j \in DOMAIN m \ {Len(cache) + 1} : j \in DOMAIN cache /\ m[j] = cache[j]
        OBVIOUS
    <2> HIDE DEF m
    <2> QED
        BY <2>1, <2>2, <2>3 DEF OneEntry
<1>2. CASE Filed(cache, key) # {}
    <2> DEFINE m == [i \in DOMAIN cache |-> IF i \in Filed(cache, key) THEN sid ELSE cache[i]]
    <2>1. Put(cache, key, sid) = m /\ DOMAIN m = DOMAIN cache
        BY <1>2 DEF Put
    <2>2. PICK k \in Filed(cache, key) : TRUE
        BY <1>2
    <2>3. \A j \in DOMAIN cache \ {k} : j \notin Filed(cache, key) /\ sess[cache[j]].key # key
        BY <2>2 DEF Filed, UniqueIn
    <2>4. k \in DOMAIN m /\ m[k] = sid /\ \A j \in DOMAIN m \ {k} : m[j] = cache[j]
        BY <2>2, <2>3 DEF Filed
    <2> HIDE DEF m
    <2> QED
        BY <2>1, <2>3, <2>4 DEF OneEntry
<1> QED
    BY <1>1, <1>2

\* The bound of the closed cache.
LEMMA BoundedType ==
    ASSUME NEW S, NEW cache \in Seq(S), NEW s, Len(cache) <= MaxClosed + 1,
           NEW kept \in Bounded(cache, s)
    PROVE  kept \in Seq(S) /\ Len(kept) <= MaxClosed
<1>1. CASE Len(cache) <= MaxClosed
    BY <1>1 DEF Bounded
<1>2. CASE ~ (Len(cache) <= MaxClosed)
    <2>1. PICK i \in DOMAIN cache : kept = RemoveAt(cache, i)
        BY <1>2 DEF Bounded, Oldest
    <2>2. kept \in Seq(S) /\ Len(kept) = Len(cache) - 1
        BY <2>1, RemoveAtProperties
    <2> QED
        BY <2>2, TunableAssumption
<1> QED
    BY <1>1, <1>2

\* The deque keeps its bound, and holds what it held and the newcomer.
LEMMA BufferProperties ==
    ASSUME NEW S, NEW queue \in Seq(S), NEW env \in S, Len(queue) <= MaxPending
    PROVE  /\ Buffer(queue, env) \in Seq(S)
           /\ Len(Buffer(queue, env)) <= MaxPending
           /\ \A j \in DOMAIN Buffer(queue, env) :
                \/ Buffer(queue, env)[j] = env
                \/ \E k \in DOMAIN queue : Buffer(queue, env)[j] = queue[k]
<1>1. CASE Len(queue) < MaxPending
    BY <1>1, TunableAssumption DEF Buffer
<1>2. CASE ~ (Len(queue) < MaxPending)
    <2>1. queue # <<>> /\ Len(queue) = MaxPending
        BY <1>2, TunableAssumption
    <2> DEFINE t == Tail(queue)
    <2>2. t \in Seq(S) /\ Len(t) = Len(queue) - 1
          /\ \A j \in 1..Len(t) : t[j] = queue[j + 1] /\ j + 1 \in DOMAIN queue
        BY <2>1
    <2>3. Buffer(queue, env) = Append(t, env)
        BY <1>2 DEF Buffer
    <2> HIDE DEF t
    <2> QED
        BY <2>1, <2>2, <2>3
<1> QED
    BY <1>1, <1>2

-----------------------------------------------------------------------------
(* Sessions. *)

\* A stage is always one of the funnel's.
LEMMA StageType == \A s : Stage(s) \in FunnelStage
BY DEF Stage, FunnelStage, Stages, Range

\* recompute_stage changes the stage, to the one the evidence supports.
LEMMA RestagedType ==
    ASSUME NEW s \in Session
    PROVE  Restaged(s) \in Session /\ Restaged(s).stage = Stage(Restaged(s))
BY StageType DEF Restaged, Session, Stage, Visited

\* A zone visit that a zone event leaves is one.
LEMMA EnterZoneType ==
    ASSUME NEW visit \in Visit \cup {None}, NEW ts \in Int
    PROVE  EnterZone(visit, ts) \in Visit
BY NoneAssumption DEF EnterZone, Visit

\* The step most handlers end in: one known session replaced.
LEMMA UpdateType ==
    ASSUME TypeOK, NEW sid \in DOMAIN sess, NEW s \in Session, NEW matched \in BOOLEAN,
           Update(sid, s, matched)
    PROVE  /\ sess' \in Seq(Session) /\ DOMAIN sess' = DOMAIN sess
           /\ delta' \in [action : {"opened", "updated", "closed", "noop"},
                          session : (DOMAIN sess') \cup {None}, matched : BOOLEAN]
BY DEF TypeOK, Update, Delta

\* What the assumptions say of an envelope.
LEMMA EnvelopeType ==
    ASSUME NEW env \in WellFormed
    PROVE  /\ env.ts \in Int /\ env.dwell \in Nat
           /\ env.role \in Role
           /\ Key(env) \in Label \cup {None}
           /\ env.type \in {"zone_entered", "zone_dwell"} => env.zone \in Zone
BY DEF Key, Event, WellFormed

LEMMA NextApplies == Next => \E env \in WellFormed : Apply(env)
BY EnvelopeAssumption DEF Next

\* What Filed and Known point at.
LEMMA FiledType ==
    ASSUME TypeOK
    PROVE  /\ \A key : \A i \in Filed(open, key) :
                i \in DOMAIN open /\ open[i] \in DOMAIN sess /\ sess[open[i]].key = key
           /\ \A key : \A i \in Filed(closed, key) :
                i \in DOMAIN closed /\ closed[i] \in DOMAIN sess /\ sess[closed[i]].key = key
           /\ \A env : \A sid \in Lookup(env) :
                sid \in DOMAIN sess /\ sess[sid] \in Session
           /\ \A i \in DOMAIN Known : Known[i] \in DOMAIN sess /\ sess[Known[i]] \in Session
<1>1. /\ \A i \in DOMAIN open : open[i] \in DOMAIN sess
      /\ \A i \in DOMAIN closed : closed[i] \in DOMAIN sess
      /\ \A v \in DOMAIN sess : sess[v] \in Session
    BY DEF TypeOK
<1>2. Known \in Seq(DOMAIN sess)
    BY DEF TypeOK, Known
<1>3. \A i \in DOMAIN Known : Known[i] \in DOMAIN sess
    BY <1>2
<1> QED
    BY <1>1, <1>3 DEF Filed, Lookup

-----------------------------------------------------------------------------
(* Type correctness. *)

\* The empty store is well typed.
LEMMA TypeOKInit == Init => TypeOK
BY TunableAssumption DEF Init, TypeOK, Noop, Delta

\* Every handler keeps the types and the bounds.
LEMMA TypeOKStep ==
    ASSUME TypeOK, NEW env \in WellFormed, Apply(env)
    PROVE  TypeOK'
<1> DEFINE Receipts == {e \in WellFormed : e.type = "pos_receipt"}
<1>1. applied' \subseteq WellFormed
    BY DEF TypeOK, Apply, Reopened, Opened, Exited, ZoneEntered, ZoneDwell, StaffObserved,
           CheckoutObserved, ReceiptJoined, ReceiptBuffered, Ignored, On
<1>2. CASE Reopened(env)
    <2>1. PICK i \in Filed(closed, Key(env)) :
             /\ closed' = RemoveAt(closed, i)
             /\ open' = Put(open, Key(env), closed[i])
             /\ Update(closed[i], [sess[closed[i]] EXCEPT !.exited = None], FALSE)
        BY <1>2 DEF Reopened
    <2>2. /\ i \in DOMAIN closed /\ closed[i] \in DOMAIN sess
          /\ sess[closed[i]] \in Session
        BY FiledType DEF TypeOK
    <2>3. [sess[closed[i]] EXCEPT !.exited = None] \in Session
        BY <2>2 DEF Session
    <2>4. /\ sess' \in Seq(Session) /\ DOMAIN sess' = DOMAIN sess
          /\ delta' \in [action : {"opened", "updated", "closed", "noop"},
                         session : (DOMAIN sess') \cup {None}, matched : BOOLEAN]
        BY <2>1, <2>2, <2>3, UpdateType
    <2>5. open' \in Seq(DOMAIN sess)
        BY <2>1, <2>2, PutType DEF TypeOK
    <2>6. closed' \in Seq(DOMAIN sess) /\ Len(closed') <= MaxClosed
        BY <2>1, <2>2, RemoveAtProperties, TunableAssumption DEF TypeOK
    <2>7. pending' = pending
        BY <1>2 DEF Reopened
    <2> QED
        BY <1>1, <2>4, <2>5, <2>6, <2>7 DEF TypeOK
<1>3. CASE Opened(env)
    <2>1. /\ Key(env) # None
          /\ sess' = Append(sess, NewSession(Key(env), env))
          /\ open' = Put(open, Key(env), Len(sess) + 1)
          /\ delta' = Delta("opened", Len(sess) + 1, FALSE)
          /\ UNCHANGED <<closed, pending>>
        BY <1>3 DEF Opened
    <2>2. NewSession(Key(env), env) \in Session
        BY <2>1, EnvelopeType DEF NewSession, Session, FunnelStage, Stages, Range
    <2>3. /\ sess' \in Seq(Session) /\ DOMAIN sess \subseteq DOMAIN sess'
          /\ Len(sess) + 1 \in DOMAIN sess'
        BY <2>1, <2>2 DEF TypeOK
    <2>4. open \in Seq(DOMAIN sess') /\ closed' \in Seq(DOMAIN sess')
        BY <2>1, <2>3, SeqMonotonic DEF TypeOK
    <2>5. open' \in Seq(DOMAIN sess')
        BY <2>1, <2>3, <2>4, PutType
    <2>6. delta' \in [action : {"opened", "updated", "closed", "noop"},
                      session : (DOMAIN sess') \cup {None}, matched : BOOLEAN]
        BY <2>1, <2>3 DEF Delta
    <2> QED
        BY <1>1, <2>1, <2>3, <2>4, <2>5, <2>6 DEF TypeOK
<1>4. CASE Exited(env)
    <2>1. PICK i \in Filed(open, Key(env)) :
             /\ sess' = [sess EXCEPT ![open[i]] =
                            Restaged([sess[open[i]] EXCEPT !.exited = env.ts])]
             /\ open' = RemoveAt(open, i)
             /\ closed' \in Bounded(Put(closed, Key(env), open[i]), sess')
             /\ delta' = Delta("closed", open[i], FALSE)
        BY <1>4 DEF Exited
    <2>2. /\ i \in DOMAIN open /\ open[i] \in DOMAIN sess
          /\ sess[open[i]] \in Session
        BY FiledType DEF TypeOK
    <2>3. [sess[open[i]] EXCEPT !.exited = env.ts] \in Session
        BY <2>2, EnvelopeType DEF Session
    <2>4. /\ sess' \in Seq(Session) /\ DOMAIN sess' = DOMAIN sess
        BY <2>1, <2>2, <2>3, RestagedType DEF TypeOK
    <2>5. open' \in Seq(DOMAIN sess)
        BY <2>1, <2>2, RemoveAtProperties DEF TypeOK
    <2> DEFINE grown == Put(closed, Key(env), open[i])
    <2>6. grown \in Seq(DOMAIN sess) /\ Len(grown) <= MaxClosed + 1
        <3>1. closed \in Seq(DOMAIN sess) /\ Len(closed) <= MaxClosed
            BY DEF TypeOK
        <3>2. grown \in Seq(DOMAIN sess) /\ Len(grown) \in {Len(closed), Len(closed) + 1}
            BY <2>2, <3>1, PutType
        <3> HIDE DEF grown
        <3> QED
            BY <3>1, <3>2, TunableAssumption
    <2>7. closed' \in Seq(DOMAIN sess) /\ Len(closed') <= MaxClosed
        BY <2>1, <2>6, BoundedType
    <2>8. pending' = pending
        BY <1>4 DEF Exited
    <2>9. delta' \in [action : {"opened", "updated", "closed", "noop"},
                      session : (DOMAIN sess') \cup {None}, matched : BOOLEAN]
        BY <2>1, <2>2, <2>4 DEF Delta
    <2> QED
        BY <1>1, <2>4, <2>5, <2>7, <2>8, <2>9 DEF TypeOK
<1>5. ASSUME NEW sid \in DOMAIN sess, NEW s \in Session, NEW matched \in BOOLEAN,
             Update(sid, s, matched), UNCHANGED <<open, closed>>,
             pending' \in Seq(Receipts), Len(pending') <= MaxPending
      PROVE  TypeOK'
    <2>1. /\ sess' \in Seq(Session) /\ DOMAIN sess' = DOMAIN sess
          /\ delta' \in [action : {"opened", "updated", "closed", "noop"},
                         session : (DOMAIN sess') \cup {None}, matched : BOOLEAN]
        BY <1>5, UpdateType
    <2> QED
        BY <1>1, <1>5, <2>1 DEF TypeOK
<1>6. pending \in Seq(Receipts) /\ Len(pending) <= MaxPending
    BY DEF TypeOK
<1>7. CASE ZoneEntered(env)
    <2>1. PICK sid \in Lookup(env) :
             Update(sid, Restaged([sess[sid] EXCEPT
                        !.zones[env.zone] = EnterZone(@, env.ts)]), FALSE)
        BY <1>7 DEF ZoneEntered
    <2>2. sid \in DOMAIN sess /\ sess[sid] \in Session /\ env.zone \in Zone
        BY <1>7, FiledType, EnvelopeType DEF ZoneEntered, On
    <2>3. EnterZone(sess[sid].zones[env.zone], env.ts) \in Visit
        BY <2>2, EnterZoneType, EnvelopeType DEF Session
    <2>4. [sess[sid] EXCEPT !.zones[env.zone] = EnterZone(@, env.ts)] \in Session
        BY <2>2, <2>3 DEF Session
    <2>5. UNCHANGED <<open, closed, pending>>
        BY <1>7 DEF ZoneEntered
    <2> QED
        BY <1>5, <1>6, <2>1, <2>2, <2>4, <2>5, RestagedType
<1>8. CASE ZoneDwell(env)
    <2> DEFINE entered(sid) == EnterZone(sess[sid].zones[env.zone], env.ts)
               dwelt(sid) == [entered(sid) EXCEPT !.dwell = @ + env.dwell]
    <2>1. PICK sid \in Lookup(env) :
             Update(sid, Restaged([sess[sid] EXCEPT !.zones[env.zone] = dwelt(sid)]), FALSE)
        BY <1>8 DEF ZoneDwell
    <2>2. sid \in DOMAIN sess /\ sess[sid] \in Session /\ env.zone \in Zone
        BY <1>8, FiledType, EnvelopeType DEF ZoneDwell, On
    <2>3. entered(sid) \in Visit
        BY <2>2, EnterZoneType, EnvelopeType DEF Session
    <2>4. dwelt(sid) \in Visit
        BY <2>3, EnvelopeType DEF Visit
    <2> HIDE DEF dwelt
    <2>5. [sess[sid] EXCEPT !.zones[env.zone] = dwelt(sid)] \in Session
        BY <2>2, <2>4 DEF Session
    <2>6. UNCHANGED <<open, closed, pending>>
        BY <1>8 DEF ZoneDwell
    <2> QED
        BY <1>5, <1>6, <2>1, <2>2, <2>5, <2>6, RestagedType
<1>9. CASE StaffObserved(env)
    <2>1. PICK sid \in Lookup(env) : Update(sid, [sess[sid] EXCEPT !.role = "staff"], FALSE)
        BY <1>9 DEF StaffObserved
    <2>2. sid \in DOMAIN sess /\ [sess[sid] EXCEPT !.role = "staff"] \in Session
        BY FiledType DEF Session, Role
    <2>3. UNCHANGED <<open, closed, pending>>
        BY <1>9 DEF StaffObserved
    <2> QED
        BY <1>5, <1>6, <2>1, <2>2, <2>3
<1>10. CASE CheckoutObserved(env)
    <2> DEFINE seen(sid) == [sess[sid] EXCEPT !.checkout = IF @ = None THEN env.ts ELSE @]
               near(sid) == {j \in DOMAIN pending : Gap(pending[j], seen(sid)) <= PosJoinWindow}
    <2>1. PICK sid \in Lookup(env) :
             \/ /\ near(sid) = {}
                /\ Update(sid, Restaged(seen(sid)), FALSE)
                /\ UNCHANGED pending
             \/ \E j \in LastClosest([k \in near(sid) |-> Gap(pending[k], seen(sid))]) :
                  /\ Update(sid, Restaged([seen(sid) EXCEPT !.receipt = pending[j]]), TRUE)
                  /\ pending' = RemoveAt(pending, j)
        BY <1>10 DEF CheckoutObserved
    <2>2. UNCHANGED <<open, closed>>
        BY <1>10 DEF CheckoutObserved
    <2>3. sid \in DOMAIN sess /\ sess[sid] \in Session
        BY FiledType
    <2>4. seen(sid) \in Session
        BY <2>3, EnvelopeType DEF Session
    <2>5. CASE Update(sid, Restaged(seen(sid)), FALSE) /\ UNCHANGED pending
        BY <1>5, <1>6, <2>2, <2>3, <2>4, <2>5, RestagedType
    <2>6. ASSUME NEW j \in LastClosest([k \in near(sid) |-> Gap(pending[k], seen(sid))]),
                 Update(sid, Restaged([seen(sid) EXCEPT !.receipt = pending[j]]), TRUE),
                 pending' = RemoveAt(pending, j)
          PROVE  TypeOK'
        <3>1. j \in DOMAIN pending
            BY <2>6 DEF LastClosest
        <3>2. pending[j] \in WellFormed
            BY <1>6, <3>1
        <3> HIDE DEF seen
        <3>3. [seen(sid) EXCEPT !.receipt = pending[j]] \in Session
            BY <2>4, <3>2 DEF Session
        <3>4. pending' \in Seq(Receipts) /\ Len(pending') <= MaxPending
            BY <1>6, <2>6, <3>1, RemoveAtProperties, TunableAssumption
        <3> QED
            BY <1>5, <2>2, <2>3, <2>6, <3>3, <3>4, RestagedType
    <2> QED
        BY <2>1, <2>5, <2>6
<1>11. CASE ReceiptJoined(env)
    <2>1. PICK i \in LastClosest([k \in Joinable(env) |-> Gap(env, sess[Known[k]])]) :
             Update(Known[i], Restaged([sess[Known[i]] EXCEPT !.receipt = env]), TRUE)
        BY <1>11 DEF ReceiptJoined
    <2>2. i \in DOMAIN Known
        BY DEF LastClosest, Joinable
    <2>3. Known[i] \in DOMAIN sess /\ [sess[Known[i]] EXCEPT !.receipt = env] \in Session
        BY <2>2, FiledType DEF Session
    <2>4. UNCHANGED <<open, closed, pending>>
        BY <1>11 DEF ReceiptJoined
    <2> QED
        BY <1>5, <1>6, <2>1, <2>3, <2>4, RestagedType
<1>12. CASE ReceiptBuffered(env)
    <2>1. /\ pending' = Buffer(pending, env) /\ delta' = Noop
          /\ UNCHANGED <<sess, open, closed>> /\ env \in Receipts
        BY <1>12 DEF ReceiptBuffered, On
    <2>2. pending' \in Seq(Receipts) /\ Len(pending') <= MaxPending
        BY <1>6, <2>1, BufferProperties
    <2> QED
        BY <1>1, <2>1, <2>2 DEF TypeOK, Noop, Delta
<1>13. CASE Ignored(env)
    BY <1>1, <1>13 DEF Ignored, memory, TypeOK, Noop, Delta
<1> QED
    BY <1>2, <1>3, <1>4, <1>7, <1>8, <1>9, <1>10, <1>11, <1>12, <1>13 DEF Apply

\* The store's types and the bounds of its caches hold whatever arrives
\* (session.py:87-150, 221).
THEOREM Typing == Spec => []TypeOK
<1>1. TypeOK /\ UNCHANGED vars => TypeOK'
    BY DEF TypeOK, vars, memory
<1>2. TypeOK /\ [Next]_vars => TypeOK'
    BY <1>1, TypeOKStep, NextApplies
<1> QED
    BY <1>2, TypeOKInit, PTL DEF Spec

-----------------------------------------------------------------------------
(* What one step does to one session: evidence is only ever added, a       *)
(* receipt only within the join window, and the stage follows.             *)

JoinedInWindow(s) ==
    s.receipt # None => s.checkout # None /\ Gap(s.receipt, s) <= PosJoinWindow

\* A zone visit keeps its beginning and only lengthens.
Lengthens(visit, longer) ==
    longer # None /\ longer.first = visit.first /\ longer.dwell >= visit.dwell

Evolves(s, t) ==
    /\ t.key = s.key /\ t.entered = s.entered
    /\ s.checkout # None => t.checkout = s.checkout
    /\ s.receipt # None => t.receipt # None
    /\ t.receipt # s.receipt => JoinedInWindow(t)
    /\ \A z \in Zone : s.zones[z] # None => Lengthens(s.zones[z], t.zones[z])
    /\ t.stage = Stage(t) \/ (t.stage = s.stage /\ Stage(t) = Stage(s))

Fresh(s) ==
    /\ s.stage = "entered" /\ s.exited = None
    /\ s.checkout = None /\ s.receipt = None /\ s.zones = [z \in Zone |-> None]

Till == {"checkout_observed", "pos_receipt"}

Evolution(env) ==
    /\ \A v \in DOMAIN sess :
         /\ v \in DOMAIN sess' /\ Evolves(sess[v], sess'[v])
         /\ sess'[v] # sess[v] => delta'.session = v /\ delta'.action # "noop"
         /\ sess'[v].exited # sess[v].exited => open' # open \/ closed' # closed
         /\ \/ env.type \in Till
            \/ sess'[v].checkout = sess[v].checkout /\ sess'[v].receipt = sess[v].receipt
    /\ \A v \in DOMAIN sess' \ DOMAIN sess :
         Fresh(sess'[v]) /\ delta'.session = v /\ delta'.action # "noop"

\* A session that does not change has evolved.
LEMMA EvolvesReflexive == \A s \in Session : Evolves(s, s)
<1> SUFFICES ASSUME NEW s \in Session PROVE Evolves(s, s)
    OBVIOUS
<1>1. \A z \in Zone : s.zones[z] # None => Lengthens(s.zones[z], s.zones[z])
    BY DEF Session, Visit, Lengthens
<1> QED
    BY <1>1 DEF Evolves

\* A session that keeps all evidence and is restaged has evolved.
LEMMA RestagedEvolves ==
    ASSUME NEW s \in Session, NEW t \in Session,
           t.key = s.key, t.entered = s.entered,
           s.checkout # None => t.checkout = s.checkout,
           s.receipt # None => t.receipt # None,
           t.receipt # s.receipt => JoinedInWindow(t),
           \A z \in Zone : s.zones[z] # None => Lengthens(s.zones[z], t.zones[z])
    PROVE  /\ Evolves(s, Restaged(t)) /\ Restaged(t).exited = t.exited
           /\ Restaged(t).checkout = t.checkout /\ Restaged(t).receipt = t.receipt
<1> DEFINE r == Restaged(t)
<1>1. r \in Session /\ r.stage = Stage(r)
    BY RestagedType
<1>2. /\ r.key = t.key /\ r.entered = t.entered /\ r.checkout = t.checkout
      /\ r.receipt = t.receipt /\ r.zones = t.zones /\ r.exited = t.exited
    BY DEF Restaged, Session
<1>3. JoinedInWindow(t) => JoinedInWindow(r)
    BY <1>2 DEF JoinedInWindow, Gap
<1> HIDE DEF r
<1> QED
    BY <1>1, <1>2, <1>3 DEF Evolves, r

\* A change of one known session, named in the delta.
LEMMA OneEvolves ==
    ASSUME TypeOK, NEW env, NEW sid \in DOMAIN sess, NEW t, Evolves(sess[sid], t),
           t.exited = sess[sid].exited \/ open' # open \/ closed' # closed,
           \/ env.type \in Till
           \/ t.checkout = sess[sid].checkout /\ t.receipt = sess[sid].receipt,
           sess' = [sess EXCEPT ![sid] = t],
           delta'.session = sid, delta'.action # "noop"
    PROVE  Evolution(env)
<1>1. \A v \in DOMAIN sess : sess[v] \in Session
    BY DEF TypeOK
<1>2. DOMAIN sess' = DOMAIN sess /\ sess'[sid] = t
      /\ \A v \in DOMAIN sess \ {sid} : sess'[v] = sess[v]
    OBVIOUS
<1> QED
    BY <1>1, <1>2, EvolvesReflexive DEF Evolution

\* The same, for the handlers that end in Update.
LEMMA UpdateEvolves ==
    ASSUME TypeOK, NEW env, NEW sid \in DOMAIN sess, NEW t, NEW matched, Evolves(sess[sid], t),
           t.exited = sess[sid].exited \/ open' # open \/ closed' # closed,
           \/ env.type \in Till
           \/ t.checkout = sess[sid].checkout /\ t.receipt = sess[sid].receipt,
           Update(sid, t, matched)
    PROVE  Evolution(env)
BY OneEvolves DEF Update, Delta

\* Every handler lets the sessions evolve, and names in its delta the one that
\* changed.
LEMMA EvolutionStep ==
    ASSUME TypeOK, NEW env \in WellFormed, Apply(env)
    PROVE  Evolution(env)
<1>1. \A v \in DOMAIN sess : sess[v] \in Session /\ Evolves(sess[v], sess[v])
    BY EvolvesReflexive DEF TypeOK
<1>2. \A v \in DOMAIN sess : \A z \in Zone :
        /\ sess[v].zones[z] \in Visit \cup {None}
        /\ sess[v].zones[z] # None =>
             sess[v].zones[z].dwell \in Nat /\ Lengthens(sess[v].zones[z], sess[v].zones[z])
    BY <1>1 DEF Session, Visit, Lengthens
<1>3. CASE Reopened(env)
    <2>1. PICK i \in Filed(closed, Key(env)) :
             /\ closed' = RemoveAt(closed, i)
             /\ Update(closed[i], [sess[closed[i]] EXCEPT !.exited = None], FALSE)
        BY <1>3 DEF Reopened
    <2>2. closed[i] \in DOMAIN sess /\ closed' # closed
        BY <2>1, FiledType, RemoveAtProperties DEF TypeOK
    <2> DEFINE t == [sess[closed[i]] EXCEPT !.exited = None]
    <2>3. /\ Evolves(sess[closed[i]], t)
          /\ t.checkout = sess[closed[i]].checkout /\ t.receipt = sess[closed[i]].receipt
        BY <1>1, <1>2, <2>2 DEF Evolves, Session, Stage, Visited
    <2> HIDE DEF t
    <2> QED
        BY <2>1, <2>2, <2>3, UpdateEvolves DEF t
<1>4. CASE Opened(env)
    <2>1. sess' = Append(sess, NewSession(Key(env), env))
          /\ delta' = Delta("opened", Len(sess) + 1, FALSE)
        BY <1>4 DEF Opened
    <2>2. /\ \A v \in DOMAIN sess : v \in DOMAIN sess' /\ sess'[v] = sess[v]
          /\ \A v \in DOMAIN sess' \ DOMAIN sess :
               v = Len(sess) + 1 /\ sess'[v] = NewSession(Key(env), env)
        BY <2>1 DEF TypeOK
    <2>3. Fresh(NewSession(Key(env), env))
        BY DEF Fresh, NewSession
    <2> QED
        BY <1>1, <2>1, <2>2, <2>3 DEF Evolution, Delta
<1>5. CASE Exited(env)
    <2>1. PICK i \in Filed(open, Key(env)) :
             /\ sess' = [sess EXCEPT ![open[i]] =
                            Restaged([sess[open[i]] EXCEPT !.exited = env.ts])]
             /\ open' = RemoveAt(open, i)
             /\ delta' = Delta("closed", open[i], FALSE)
        BY <1>5 DEF Exited
    <2>2. open[i] \in DOMAIN sess /\ open' # open
        BY <2>1, FiledType, RemoveAtProperties DEF TypeOK
    <2> DEFINE t == [sess[open[i]] EXCEPT !.exited = env.ts]
    <2>3. t \in Session /\ t.key = sess[open[i]].key /\ t.entered = sess[open[i]].entered
          /\ t.checkout = sess[open[i]].checkout /\ t.receipt = sess[open[i]].receipt
          /\ t.zones = sess[open[i]].zones
        BY <1>1, <2>2, EnvelopeType DEF Session
    <2> HIDE DEF t
    <2>4. /\ Evolves(sess[open[i]], Restaged(t))
          /\ Restaged(t).checkout = t.checkout /\ Restaged(t).receipt = t.receipt
        BY <1>1, <1>2, <2>2, <2>3, RestagedEvolves
    <2> QED
        BY <2>1, <2>2, <2>3, <2>4, OneEvolves DEF t, Delta
<1>6. ASSUME NEW sid \in DOMAIN sess, env.zone \in Zone, NEW visit \in Visit,
             sess[sid].zones[env.zone] # None => Lengthens(sess[sid].zones[env.zone], visit),
             Update(sid, Restaged([sess[sid] EXCEPT !.zones[env.zone] = visit]), FALSE)
      PROVE  Evolution(env)
    <2> DEFINE t == [sess[sid] EXCEPT !.zones[env.zone] = visit]
    <2>1. t \in Session /\ t.key = sess[sid].key /\ t.entered = sess[sid].entered
          /\ t.checkout = sess[sid].checkout /\ t.receipt = sess[sid].receipt
          /\ t.zones[env.zone] = visit /\ t.exited = sess[sid].exited
          /\ \A z \in Zone \ {env.zone} : t.zones[z] = sess[sid].zones[z]
        BY <1>1, <1>6 DEF Session
    <2> HIDE DEF t
    <2>2. \A z \in Zone : sess[sid].zones[z] # None =>
            Lengthens(sess[sid].zones[z], t.zones[z])
        BY <1>2, <1>6, <2>1
    <2>3. /\ Evolves(sess[sid], Restaged(t)) /\ Restaged(t).exited = sess[sid].exited
          /\ Restaged(t).checkout = t.checkout /\ Restaged(t).receipt = t.receipt
        BY <1>1, <2>1, <2>2, RestagedEvolves
    <2> QED
        BY <1>6, <2>1, <2>3, UpdateEvolves DEF t
<1>7. CASE ZoneEntered(env)
    <2>1. PICK sid \in Lookup(env) :
             Update(sid, Restaged([sess[sid] EXCEPT
                        !.zones[env.zone] = EnterZone(sess[sid].zones[env.zone], env.ts)]), FALSE)
        BY <1>1, <1>7, FiledType, EnvelopeType DEF ZoneEntered, On, Session
    <2>2. sid \in DOMAIN sess /\ env.zone \in Zone
        BY <1>7, FiledType, EnvelopeType DEF ZoneEntered, On
    <2> DEFINE visit == EnterZone(sess[sid].zones[env.zone], env.ts)
    <2>3. visit \in Visit
        BY <1>2, <2>2, EnterZoneType, EnvelopeType
    <2>4. sess[sid].zones[env.zone] # None => Lengthens(sess[sid].zones[env.zone], visit)
        BY <1>2, <2>2, <2>3, NoneAssumption DEF EnterZone, Visit, Lengthens
    <2> HIDE DEF visit
    <2> QED
        BY <1>6, <2>1, <2>2, <2>3, <2>4 DEF visit
<1>8. CASE ZoneDwell(env)
    <2> DEFINE entered(sid) == EnterZone(sess[sid].zones[env.zone], env.ts)
               dwelt(sid) == [entered(sid) EXCEPT !.dwell = @ + env.dwell]
    <2>1. PICK sid \in Lookup(env) :
             Update(sid, Restaged([sess[sid] EXCEPT !.zones[env.zone] = dwelt(sid)]), FALSE)
        BY <1>8 DEF ZoneDwell
    <2>2. sid \in DOMAIN sess /\ env.zone \in Zone
        BY <1>8, FiledType, EnvelopeType DEF ZoneDwell, On
    <2>3. entered(sid) \in Visit
        BY <1>2, <2>2, EnterZoneType, EnvelopeType
    <2>4. sess[sid].zones[env.zone] # None => Lengthens(sess[sid].zones[env.zone], entered(sid))
        BY <1>2, <2>2, <2>3, NoneAssumption DEF EnterZone, Visit, Lengthens
    <2> HIDE DEF entered
    <2>5. /\ dwelt(sid) \in Visit /\ dwelt(sid).first = entered(sid).first
          /\ dwelt(sid).dwell >= entered(sid).dwell
        BY <2>3, EnvelopeType DEF Visit
    <2>6. entered(sid).dwell \in Nat /\ dwelt(sid).dwell \in Nat
        BY <2>3, <2>5 DEF Visit
    <2> HIDE DEF dwelt
    <2>7. sess[sid].zones[env.zone] # None => Lengthens(sess[sid].zones[env.zone], dwelt(sid))
        BY <1>2, <2>2, <2>4, <2>5, <2>6, NoneAssumption DEF Lengthens
    <2> QED
        BY <1>6, <2>1, <2>2, <2>5, <2>7
<1>9. CASE StaffObserved(env)
    <2>1. PICK sid \in Lookup(env) : Update(sid, [sess[sid] EXCEPT !.role = "staff"], FALSE)
        BY <1>9 DEF StaffObserved
    <2>2. sid \in DOMAIN sess
        BY FiledType
    <2> DEFINE t == [sess[sid] EXCEPT !.role = "staff"]
    <2>3. /\ Evolves(sess[sid], t) /\ t.exited = sess[sid].exited
          /\ t.checkout = sess[sid].checkout /\ t.receipt = sess[sid].receipt
        BY <1>1, <1>2, <2>2 DEF Evolves, Session, Stage, Visited
    <2> HIDE DEF t
    <2> QED
        BY <2>1, <2>2, <2>3, UpdateEvolves DEF t
<1>10. CASE CheckoutObserved(env)
    <2> DEFINE seen(sid) == [sess[sid] EXCEPT !.checkout = IF @ = None THEN env.ts ELSE @]
               near(sid) == {j \in DOMAIN pending : Gap(pending[j], seen(sid)) <= PosJoinWindow}
    <2>1. PICK sid \in Lookup(env) :
             \/ Update(sid, Restaged(seen(sid)), FALSE)
             \/ \E j \in LastClosest([k \in near(sid) |-> Gap(pending[k], seen(sid))]) :
                  Update(sid, Restaged([seen(sid) EXCEPT !.receipt = pending[j]]), TRUE)
        BY <1>10 DEF CheckoutObserved
    <2>2. sid \in DOMAIN sess /\ env.type \in Till
        BY <1>10, FiledType DEF CheckoutObserved, On, Till
    <2>3. /\ seen(sid) \in Session
          /\ seen(sid).key = sess[sid].key /\ seen(sid).entered = sess[sid].entered
          /\ sess[sid].checkout # None => seen(sid).checkout = sess[sid].checkout
          /\ seen(sid).checkout # None
          /\ seen(sid).receipt = sess[sid].receipt /\ seen(sid).zones = sess[sid].zones
          /\ seen(sid).exited = sess[sid].exited
        BY <1>1, <2>2, EnvelopeType, NoneAssumption DEF Session
    <2> HIDE DEF seen
    <2>4. CASE Update(sid, Restaged(seen(sid)), FALSE)
        <3>1. /\ Evolves(sess[sid], Restaged(seen(sid)))
              /\ Restaged(seen(sid)).exited = sess[sid].exited
            BY <1>1, <1>2, <2>2, <2>3, RestagedEvolves
        <3> QED
            BY <2>2, <2>4, <3>1, UpdateEvolves
    <2>5. ASSUME NEW j \in LastClosest([k \in near(sid) |-> Gap(pending[k], seen(sid))]),
                 Update(sid, Restaged([seen(sid) EXCEPT !.receipt = pending[j]]), TRUE)
          PROVE  Evolution(env)
        <3> DEFINE t == [seen(sid) EXCEPT !.receipt = pending[j]]
        <3>1. j \in DOMAIN pending /\ Gap(pending[j], seen(sid)) <= PosJoinWindow
            BY DEF LastClosest
        <3>2. pending[j] \in WellFormed /\ pending[j] # None
            BY <3>1, NoneAssumption DEF TypeOK
        <3>3. /\ t \in Session /\ t.receipt = pending[j] /\ t.checkout = seen(sid).checkout
              /\ t.key = seen(sid).key /\ t.entered = seen(sid).entered
              /\ t.zones = seen(sid).zones /\ t.exited = seen(sid).exited
            BY <2>3, <3>2 DEF Session
        <3> HIDE DEF t
        <3>4. JoinedInWindow(t)
            BY <2>3, <3>1, <3>3 DEF JoinedInWindow, Gap
        <3>5. Evolves(sess[sid], Restaged(t)) /\ Restaged(t).exited = sess[sid].exited
            BY <1>1, <1>2, <2>2, <2>3, <3>2, <3>3, <3>4, RestagedEvolves
        <3> QED
            BY <2>2, <2>5, <3>5, UpdateEvolves DEF t
    <2> QED
        BY <2>1, <2>4, <2>5
<1>11. CASE ReceiptJoined(env)
    <2>1. PICK i \in LastClosest([k \in Joinable(env) |-> Gap(env, sess[Known[k]])]) :
             Update(Known[i], Restaged([sess[Known[i]] EXCEPT !.receipt = env]), TRUE)
        BY <1>11 DEF ReceiptJoined
    <2>2. i \in DOMAIN Known /\ Awaiting(sess[Known[i]])
          /\ Gap(env, sess[Known[i]]) <= PosJoinWindow
        BY DEF LastClosest, Joinable
    <2>3. Known[i] \in DOMAIN sess /\ env.type \in Till
        BY <1>11, <2>2, FiledType DEF ReceiptJoined, On, Till
    <2> DEFINE t == [sess[Known[i]] EXCEPT !.receipt = env]
    <2>4. /\ t \in Session /\ t.receipt = env /\ t.checkout = sess[Known[i]].checkout
          /\ t.key = sess[Known[i]].key /\ t.entered = sess[Known[i]].entered
          /\ t.zones = sess[Known[i]].zones /\ t.exited = sess[Known[i]].exited
        BY <1>1, <2>3 DEF Session
    <2> HIDE DEF t
    <2>5. JoinedInWindow(t)
        BY <2>2, <2>4 DEF JoinedInWindow, Gap, Awaiting
    <2>6. Evolves(sess[Known[i]], Restaged(t)) /\ Restaged(t).exited = sess[Known[i]].exited
        BY <1>1, <1>2, <2>2, <2>3, <2>4, <2>5, RestagedEvolves DEF Awaiting
    <2> QED
        BY <2>1, <2>3, <2>6, UpdateEvolves DEF t
<1>12. CASE UNCHANGED sess
    BY <1>1, <1>12 DEF Evolution
<1>13. ReceiptBuffered(env) \/ Ignored(env) => UNCHANGED sess
    BY DEF ReceiptBuffered, Ignored, memory
<1> QED
    BY <1>3, <1>4, <1>5, <1>7, <1>8, <1>9, <1>10, <1>11, <1>12, <1>13 DEF Apply

\* A step that changes nothing keeps the types.
LEMMA Stuttering ==
    UNCHANGED vars => /\ UNCHANGED <<sess, open, closed, pending, delta, applied>>
                      /\ TypeOK => TypeOK'
BY DEF vars, memory, TypeOK

LEMMA StageStep ==
    ASSUME NEW env, StageAgrees, Evolution(env)
    PROVE  StageAgrees'
<1>1. ASSUME NEW s, Fresh(s) PROVE s.stage = Stage(s)
    BY <1>1 DEF Fresh, Stage, Visited
<1> QED
    BY <1>1 DEF StageAgrees, Evolution, Evolves

\* The stored stage is always the one the evidence supports
\* (session.py:52-66).
THEOREM StageCorrect == Spec => []StageAgrees
<1>1. Init => StageAgrees
    BY DEF Init, StageAgrees
<1>2. TypeOK /\ StageAgrees /\ [Next]_vars => StageAgrees'
    <2>1. StageAgrees /\ UNCHANGED sess => StageAgrees'
        BY DEF StageAgrees
    <2> QED
        BY <2>1, StageStep, EvolutionStep, Stuttering, NextApplies
<1> QED
    BY <1>1, <1>2, Typing, PTL DEF Spec

\* What lets the sessions evolve leaves no receipt without its checkout.
LEMMA JoinStep ==
    ASSUME NEW env, JoinSound, Evolution(env)
    PROVE  JoinSound'
<1>1. \A v \in DOMAIN sess : JoinedInWindow(sess[v])
    BY DEF JoinSound, JoinedInWindow
<1>2. ASSUME NEW s, NEW t, JoinedInWindow(s), Evolves(s, t)
      PROVE  JoinedInWindow(t)
    BY <1>2 DEF JoinedInWindow, Evolves, Gap
<1> SUFFICES ASSUME NEW v \in DOMAIN sess'
             PROVE  JoinedInWindow(sess'[v])
    BY DEF JoinSound, JoinedInWindow, Gap
<1>3. CASE v \in DOMAIN sess
    BY <1>1, <1>2, <1>3 DEF Evolution
<1>4. CASE v \notin DOMAIN sess
    BY <1>4 DEF Evolution, Fresh, JoinedInWindow
<1> QED
    BY <1>3, <1>4

\* A receipt is held only with a checkout within the join window
\* (session.py:198-256).
THEOREM JoinsInWindow == Spec => []JoinSound
<1>1. Init => JoinSound
    BY DEF Init, JoinSound
<1>2. TypeOK /\ JoinSound /\ [Next]_vars => JoinSound'
    <2>1. JoinSound /\ UNCHANGED sess => JoinSound'
        BY DEF JoinSound, Gap
    <2> QED
        BY <2>1, JoinStep, EvolutionStep, Stuttering, NextApplies
<1> QED
    BY <1>1, <1>2, Typing, PTL DEF Spec

\* Every session a step makes or changes is the one its delta hands to
\* persist_delta (session.py:69-75, handlers.py:16-58).
THEOREM DeltaComplete == Spec => DeltaCoversChange
<1> DEFINE Covered == \A v \in DOMAIN sess' :
                         v \notin DOMAIN sess \/ sess'[v] # sess[v]
                            => delta'.session = v /\ delta'.action # "noop"
<1>1. \A env : Evolution(env) => Covered
    BY DEF Evolution
<1>2. TypeOK /\ [Next]_vars => Covered \/ UNCHANGED vars
    BY <1>1, EvolutionStep, NextApplies
<1>3. TypeOK /\ [Next]_vars => [Covered]_vars
    BY <1>2
<1> QED
    BY <1>3, Typing, PTL DEF Spec, DeltaCoversChange

-----------------------------------------------------------------------------
(* The dictionaries: one entry per shopper, open or closed.                *)

\* Taking an entry out leaves the keys distinct.
LEMMA RemoveAtUnique ==
    ASSUME NEW S, NEW cache \in Seq(S), NEW i \in DOMAIN cache, NEW s, UniqueIn(cache, s)
    PROVE  UniqueIn(RemoveAt(cache, i), s)
<1> SUFFICES ASSUME NEW j \in DOMAIN RemoveAt(cache, i), NEW k \in DOMAIN RemoveAt(cache, i),
                    s[RemoveAt(cache, i)[j]].key = s[RemoveAt(cache, i)[k]].key
             PROVE  j = k
    BY DEF UniqueIn
<1>1. j \in Nat /\ k \in Nat /\ i \in Nat
    BY RemoveAtDomain
<1>2. /\ RemoveAt(cache, i)[j] = cache[IF j < i THEN j ELSE j + 1]
      /\ (IF j < i THEN j ELSE j + 1) \in DOMAIN cache
    BY RemoveAtOld
<1>3. /\ RemoveAt(cache, i)[k] = cache[IF k < i THEN k ELSE k + 1]
      /\ (IF k < i THEN k ELSE k + 1) \in DOMAIN cache
    BY RemoveAtOld
<1>4. (IF j < i THEN j ELSE j + 1) = (IF k < i THEN k ELSE k + 1)
    BY <1>2, <1>3 DEF UniqueIn
<1> QED
    BY <1>1, <1>4

\* Shrinking to the bound keeps the keys distinct.
LEMMA BoundedEntries ==
    ASSUME NEW S, NEW cache \in Seq(S), NEW s, NEW t, UniqueIn(cache, t),
           NEW kept \in Bounded(cache, s)
    PROVE  /\ UniqueIn(kept, t)
           /\ \A j \in DOMAIN kept : \E k \in DOMAIN cache : kept[j] = cache[k]
<1>1. CASE kept = cache
    BY <1>1
<1>2. ASSUME NEW i \in DOMAIN cache, kept = RemoveAt(cache, i)
      PROVE  /\ UniqueIn(kept, t)
             /\ \A j \in DOMAIN kept : \E k \in DOMAIN cache : kept[j] = cache[k]
    BY <1>2, RemoveAtUnique, RemoveAtOld
<1>3. kept = cache \/ \E i \in DOMAIN cache : kept = RemoveAt(cache, i)
    BY DEF Bounded, Oldest
<1> QED
    BY <1>1, <1>2, <1>3

\* Filing a session under its own key keeps the keys distinct.
LEMMA PutUnique ==
    ASSUME NEW S, NEW cache \in Seq(S), NEW key, NEW sid \in S, NEW s,
           UniqueIn(cache, sess), s[sid].key = key,
           \A i \in DOMAIN cache : s[cache[i]].key = sess[cache[i]].key
    PROVE  /\ UniqueIn(Put(cache, key, sid), s)
           /\ \A j \in DOMAIN Put(cache, key, sid) :
                \/ Put(cache, key, sid)[j] = sid
                \/ /\ j \in DOMAIN cache /\ Put(cache, key, sid)[j] = cache[j]
                   /\ sess[cache[j]].key # key
<1> DEFINE m == Put(cache, key, sid)
<1>1. OneEntry(m, cache, key, sid)
    BY PutEntries
<1> HIDE DEF m
<1>2. PICK k \in DOMAIN m :
        /\ m[k] = sid
        /\ \A j \in DOMAIN m \ {k} :
             j \in DOMAIN cache /\ m[j] = cache[j] /\ sess[cache[j]].key # key
    BY <1>1 DEF OneEntry
<1>3. UniqueIn(m, s)
    <2> SUFFICES ASSUME NEW i \in DOMAIN m, NEW j \in DOMAIN m, s[m[i]].key = s[m[j]].key
                 PROVE  i = j
        BY DEF UniqueIn
    <2>1. CASE i = k \/ j = k
        BY <1>2, <2>1
    <2>2. CASE i # k /\ j # k
        BY <1>2, <2>2 DEF UniqueIn
    <2> QED
        BY <2>1, <2>2
<1> QED
    BY <1>2, <1>3 DEF m

\* The handlers that neither open nor close a session.
Others(env) ==
    \/ ZoneEntered(env) \/ ZoneDwell(env) \/ StaffObserved(env)
    \/ CheckoutObserved(env)
    \/ ReceiptJoined(env) \/ ReceiptBuffered(env)
    \/ Ignored(env)

\* A handler that files nothing changes no key, entry or exit time.
LEMMA OthersKeepExit ==
    ASSUME TypeOK, NEW env \in WellFormed, Others(env)
    PROVE  /\ UNCHANGED <<open, closed>> /\ Evolution(env)
           /\ \A v \in DOMAIN sess : sess'[v].exited = sess[v].exited
<1>1. UNCHANGED <<open, closed>>
    BY DEF Others, ZoneEntered, ZoneDwell, StaffObserved, CheckoutObserved, ReceiptJoined,
           ReceiptBuffered, Ignored, memory
<1> QED
    BY <1>1, EvolutionStep DEF Others, Apply, Evolution

\* Each handler keeps one entry per shopper and splits no visit, and only
\* Opened brings in a session the dictionaries did not hold.
Findable == Range(open) \cup Range(closed)

\* Re-entry keeps the dictionaries consistent: the reopened session leaves the
\* closed cache and takes the place of what was open under its key.
LEMMA FilingReopened ==
    ASSUME TypeOK, FiledOnce, NEW env \in WellFormed, Reopened(env)
    PROVE  FiledOnce' /\ (NoSplitVisit => NoSplitVisit') /\ Findable' \subseteq Findable
<1>1. PICK i \in Filed(closed, Key(env)) :
         /\ closed' = RemoveAt(closed, i)
         /\ open' = Put(open, Key(env), closed[i])
         /\ sess' = [sess EXCEPT ![closed[i]] = [sess[closed[i]] EXCEPT !.exited = None]]
    BY DEF Reopened, Update
<1> DEFINE sid == closed[i]
<1>2. /\ i \in DOMAIN closed /\ sid \in DOMAIN sess
      /\ sess[sid] \in Session /\ sess[sid].key = Key(env)
    BY FiledType DEF TypeOK
<1>3. /\ sess'[sid].exited = None /\ sess'[sid].key = sess[sid].key
      /\ \A v \in DOMAIN sess \ {sid} : sess'[v] = sess[v]
    BY <1>1, <1>2 DEF Session
<1> HIDE DEF sid
<1>4. /\ UniqueIn(open, sess) /\ UniqueIn(closed, sess)
      /\ \A j \in DOMAIN open : open[j] \in DOMAIN sess /\ sess[open[j]].exited = None
      /\ \A j \in DOMAIN closed : closed[j] \in DOMAIN sess /\ sess[closed[j]].exited # None
    BY DEF FiledOnce, UniqueIn, TypeOK
<1>5. /\ \A j \in DOMAIN open : sess'[open[j]] = sess[open[j]]
      /\ \A j \in DOMAIN closed \ {i} : sess'[closed[j]] = sess[closed[j]]
    BY <1>2, <1>3, <1>4 DEF sid, UniqueIn
<1>6. /\ UniqueIn(open', sess')
      /\ \A j \in DOMAIN open' : open'[j] = sid \/ (j \in DOMAIN open /\ open'[j] = open[j])
    <2>1. open \in Seq(DOMAIN sess) /\ open' = Put(open, Key(env), sid)
        BY <1>1 DEF sid, TypeOK
    <2>2. /\ sess'[sid].key = Key(env)
          /\ \A j \in DOMAIN open : sess'[open[j]].key = sess[open[j]].key
        BY <1>2, <1>3, <1>5
    <2> QED
        BY <1>2, <1>4, <2>1, <2>2, PutUnique
<1>7. /\ UniqueIn(closed', sess)
      /\ \A j \in DOMAIN closed' : \E k \in DOMAIN closed \ {i} : closed'[j] = closed[k]
    <2>1. closed \in Seq(DOMAIN sess)
        BY DEF TypeOK
    <2>2. UniqueIn(closed', sess)
        BY <1>1, <1>2, <1>4, <2>1, RemoveAtUnique
    <2> QED
        BY <1>1, <1>2, <2>1, <2>2, RemoveAtFrom
<1>8. UniqueIn(closed', sess')
    BY <1>5, <1>7 DEF UniqueIn
<1>9. /\ \A j \in DOMAIN open' : sess'[open'[j]].exited = None
      /\ \A j \in DOMAIN closed' : sess'[closed'[j]].exited # None
    BY <1>3, <1>4, <1>5, <1>6, <1>7
<1>10. ASSUME NoSplitVisit, NEW j \in DOMAIN open', NEW k \in DOMAIN closed',
              sess'[open'[j]].key = sess'[closed'[k]].key
       PROVE  sess'[open'[j]].entered - sess'[closed'[k]].exited >= ReentryGap
    <2>1. PICK m \in DOMAIN closed \ {i} : closed'[k] = closed[m]
        BY <1>7
    <2>2. open'[j] # sid
        BY <1>2, <1>3, <1>4, <1>5, <1>10, <2>1 DEF UniqueIn, sid
    <2> QED
        BY <1>5, <1>6, <1>10, <2>1, <2>2 DEF NoSplitVisit
<1>11. Findable' \subseteq Findable
    BY <1>2, <1>6, <1>7 DEF Findable, Range, sid
<1> QED
    BY <1>6, <1>8, <1>9, <1>10, <1>11 DEF FiledOnce, UniqueIn, NoSplitVisit

\* So does a new session, which is filed only when no recent exit is cached.
LEMMA FilingOpened ==
    ASSUME TypeOK, FiledOnce, NEW env \in WellFormed, Opened(env)
    PROVE  /\ FiledOnce' /\ (NoSplitVisit => NoSplitVisit')
           /\ Findable' \subseteq Findable \cup {Len(sess) + 1}
<1> DEFINE sid == Len(sess) + 1
           new == NewSession(Key(env), env)
<1>1. /\ sess' = Append(sess, new) /\ closed' = closed
      /\ open' = Put(open, Key(env), sid)
    BY DEF Opened
<1>2. /\ sess'[sid] = new /\ \A v \in DOMAIN sess : sess'[v] = sess[v]
      /\ sid \in DOMAIN sess' /\ DOMAIN sess \subseteq DOMAIN sess'
    BY <1>1 DEF TypeOK
<1>3. new.key = Key(env) /\ new.exited = None
    BY DEF NewSession
<1> HIDE DEF sid, new
<1>4. /\ UniqueIn(open, sess)
      /\ \A j \in DOMAIN open : open[j] \in DOMAIN sess /\ sess[open[j]].exited = None
      /\ \A j \in DOMAIN closed : closed[j] \in DOMAIN sess
      /\ open \in Seq(DOMAIN sess')
    BY <1>2, SeqMonotonic DEF FiledOnce, UniqueIn, TypeOK
<1>5. /\ UniqueIn(open', sess')
      /\ \A j \in DOMAIN open' : open'[j] = sid \/ (j \in DOMAIN open /\ open'[j] = open[j])
    <2>1. /\ sess'[sid].key = Key(env)
          /\ \A j \in DOMAIN open : sess'[open[j]].key = sess[open[j]].key
        BY <1>2, <1>3, <1>4
    <2> DEFINE ids == DOMAIN sess'
    <2>2. open \in Seq(ids) /\ sid \in ids /\ UniqueIn(open, sess)
        BY <1>2, <1>4
    <2> HIDE DEF ids
    <2>3. open' = Put(open, Key(env), sid)
        BY <1>1
    <2> QED
        BY <2>1, <2>2, <2>3, PutUnique
<1>6. \A j \in DOMAIN open' : sess'[open'[j]].exited = None
    BY <1>2, <1>3, <1>4, <1>5
<1>7. ASSUME NoSplitVisit, NEW j \in DOMAIN open', NEW k \in DOMAIN closed',
             sess'[open'[j]].key = sess'[closed'[k]].key
      PROVE  sess'[open'[j]].entered - sess'[closed'[k]].exited >= ReentryGap
    <2>1. k \in DOMAIN closed /\ closed'[k] = closed[k] /\ sess'[closed[k]] = sess[closed[k]]
        BY <1>1, <1>2, <1>4
    <2>2. CASE open'[j] = sid
        <3>1. k \in Filed(closed, Key(env))
            BY <1>2, <1>3, <1>7, <2>1, <2>2 DEF Filed
        <3>2. new.entered = env.ts /\ env.ts - sess[closed[k]].exited >= ReentryGap
            BY <3>1 DEF Opened, NewSession, new
        <3> QED
            BY <1>2, <2>1, <2>2, <3>2
    <2>3. CASE open'[j] # sid
        BY <1>2, <1>4, <1>5, <1>7, <2>1, <2>3 DEF NoSplitVisit
    <2> QED
        BY <2>2, <2>3
<1>8. Findable' \subseteq Findable \cup {sid}
    BY <1>1, <1>5 DEF Findable, Range
<1>9. FiledOnce'
    BY <1>1, <1>2, <1>4, <1>5, <1>6 DEF FiledOnce, UniqueIn
<1>10. NoSplitVisit => NoSplitVisit'
    BY <1>7 DEF NoSplitVisit
<1> QED
    BY <1>8, <1>9, <1>10 DEF sid

\* So does an exit, which takes the session from one dictionary to the other.
LEMMA FilingExited ==
    ASSUME TypeOK, FiledOnce, NEW env \in WellFormed, Exited(env)
    PROVE  FiledOnce' /\ (NoSplitVisit => NoSplitVisit') /\ Findable' \subseteq Findable
<1>1. PICK i \in Filed(open, Key(env)) :
         /\ sess' = [sess EXCEPT ![open[i]] =
                        Restaged([sess[open[i]] EXCEPT !.exited = env.ts])]
         /\ open' = RemoveAt(open, i)
         /\ closed' \in Bounded(Put(closed, Key(env), open[i]), sess')
    BY DEF Exited
<1> DEFINE sid == open[i]
           grown == Put(closed, Key(env), sid)
<1>2. /\ i \in DOMAIN open /\ sid \in DOMAIN sess
      /\ sess[sid] \in Session /\ sess[sid].key = Key(env)
    BY FiledType DEF TypeOK
<1>3. /\ sess'[sid].exited = env.ts /\ sess'[sid].key = sess[sid].key
      /\ \A v \in DOMAIN sess \ {sid} : sess'[v] = sess[v]
    BY <1>1, <1>2 DEF Session, Restaged
<1>4. env.ts # None
    BY EnvelopeType, NoneAssumption
<1> HIDE DEF sid
<1>5. /\ UniqueIn(open, sess) /\ UniqueIn(closed, sess)
      /\ \A j \in DOMAIN open : open[j] \in DOMAIN sess /\ sess[open[j]].exited = None
      /\ \A j \in DOMAIN closed : closed[j] \in DOMAIN sess /\ sess[closed[j]].exited # None
    BY DEF FiledOnce, UniqueIn, TypeOK
<1>6. /\ \A j \in DOMAIN closed : sess'[closed[j]] = sess[closed[j]]
      /\ \A j \in DOMAIN open \ {i} : sess'[open[j]] = sess[open[j]]
    BY <1>2, <1>3, <1>5 DEF sid, UniqueIn
<1>7. /\ grown \in Seq(DOMAIN sess) /\ UniqueIn(grown, sess')
      /\ \A j \in DOMAIN grown : grown[j] = sid \/ (j \in DOMAIN closed /\ grown[j] = closed[j])
    <2>1. closed \in Seq(DOMAIN sess)
        BY DEF TypeOK
    <2>2. /\ sess'[sid].key = Key(env)
          /\ \A j \in DOMAIN closed : sess'[closed[j]].key = sess[closed[j]].key
        BY <1>2, <1>3, <1>6
    <2>3. grown \in Seq(DOMAIN sess)
        BY <1>2, <2>1, PutType
    <2>4. /\ UniqueIn(grown, sess')
          /\ \A j \in DOMAIN grown : grown[j] = sid \/ (j \in DOMAIN closed /\ grown[j] = closed[j])
        BY <1>2, <1>5, <2>1, <2>2, PutUnique
    <2> QED
        BY <2>3, <2>4
<1> HIDE DEF grown
<1>8. /\ UniqueIn(closed', sess')
      /\ \A j \in DOMAIN closed' : \E k \in DOMAIN grown : closed'[j] = grown[k]
    BY <1>1, <1>7, BoundedEntries DEF grown, sid
<1>9. /\ UniqueIn(open', sess)
      /\ \A j \in DOMAIN open' : \E k \in DOMAIN open \ {i} : open'[j] = open[k]
    <2>1. open \in Seq(DOMAIN sess)
        BY DEF TypeOK
    <2>2. UniqueIn(open', sess)
        BY <1>1, <1>2, <1>5, <2>1, RemoveAtUnique
    <2> QED
        BY <1>1, <1>2, <2>1, <2>2, RemoveAtFrom
<1>10. UniqueIn(open', sess')
    BY <1>6, <1>9 DEF UniqueIn
<1>11. /\ \A j \in DOMAIN open' : sess'[open'[j]].exited = None
       /\ \A j \in DOMAIN closed' : sess'[closed'[j]].exited # None
    BY <1>3, <1>4, <1>5, <1>6, <1>7, <1>8, <1>9
<1>12. ASSUME NoSplitVisit, NEW j \in DOMAIN open', NEW k \in DOMAIN closed',
              sess'[open'[j]].key = sess'[closed'[k]].key
       PROVE  sess'[open'[j]].entered - sess'[closed'[k]].exited >= ReentryGap
    <2>1. PICK m \in DOMAIN open \ {i} : open'[j] = open[m]
        BY <1>9
    <2>2. PICK n \in DOMAIN grown : closed'[k] = grown[n]
        BY <1>8
    <2>3. sess[open[m]].key # sess[sid].key
        BY <1>2, <1>5, <2>1 DEF UniqueIn, sid
    <2>4. closed'[k] # sid
        BY <1>3, <1>6, <1>12, <2>1, <2>3
    <2>5. n \in DOMAIN closed /\ closed'[k] = closed[n]
        BY <1>7, <2>2, <2>4
    <2> QED
        BY <1>6, <1>12, <2>1, <2>5 DEF NoSplitVisit
<1>13. Findable' \subseteq Findable
    BY <1>2, <1>7, <1>8, <1>9 DEF Findable, Range, sid
<1> QED
    BY <1>8, <1>10, <1>11, <1>12, <1>13 DEF FiledOnce, UniqueIn, NoSplitVisit

\* So does every step.
LEMMA FilingStep ==
    ASSUME TypeOK, FiledOnce, NEW env \in WellFormed, Apply(env)
    PROVE  FiledOnce' /\ (NoSplitVisit => NoSplitVisit')
<1>1. CASE Others(env)
    <2>1. /\ UNCHANGED <<open, closed>> /\ Evolution(env)
          /\ \A v \in DOMAIN sess : sess'[v].exited = sess[v].exited
        BY <1>1, OthersKeepExit
    <2>2. \A v \in DOMAIN sess : sess'[v].key = sess[v].key /\ sess'[v].entered = sess[v].entered
        BY <2>1 DEF Evolution, Evolves
    <2>3. /\ \A j \in DOMAIN open : open[j] \in DOMAIN sess
          /\ \A j \in DOMAIN closed : closed[j] \in DOMAIN sess
        BY DEF TypeOK
    <2> QED
        BY <2>1, <2>2, <2>3 DEF FiledOnce, NoSplitVisit
<1> QED
    BY <1>1, FilingReopened, FilingOpened, FilingExited DEF Apply, Others

\* The two dictionaries hold one session per shopper, the open ones without
\* and the closed ones with an exit time (session.py:114-150).
THEOREM OneEntryPerShopper == Spec => []FiledOnce
<1>1. Init => FiledOnce
    BY DEF Init, FiledOnce
<1>2. TypeOK /\ FiledOnce /\ [Next]_vars => FiledOnce'
    <2>1. FiledOnce /\ UNCHANGED vars => FiledOnce'
        BY Stuttering DEF FiledOnce
    <2> QED
        BY <2>1, FilingStep, NextApplies
<1> QED
    BY <1>1, <1>2, Typing, PTL DEF Spec

\* No visit is split in two while the earlier part is remembered: it takes
\* both dictionaries being consistent (session.py:119-127).
THEOREM VisitsNotSplit == Spec => []NoSplitVisit
<1>1. Init => NoSplitVisit
    BY DEF Init, NoSplitVisit
<1>2. TypeOK /\ FiledOnce /\ NoSplitVisit /\ [Next]_vars => NoSplitVisit'
    <2>1. NoSplitVisit /\ UNCHANGED vars => NoSplitVisit'
        BY Stuttering DEF NoSplitVisit
    <2> QED
        BY <2>1, FilingStep, NextApplies
<1> QED
    BY <1>1, <1>2, Typing, OneEntryPerShopper, PTL DEF Spec

-----------------------------------------------------------------------------
(* Joining checkouts and receipts.                                         *)

\* The receipts' scan sees exactly the sessions of the two dictionaries.
LEMMA KnownFindable ==
    ASSUME TypeOK
    PROVE  \A v : v \in Findable <=> \E i \in DOMAIN Known : Known[i] = v
<1>1. open \in Seq(DOMAIN sess) /\ closed \in Seq(DOMAIN sess)
    BY DEF TypeOK
<1>2. /\ Len(open) \in Nat /\ Len(closed) \in Nat
      /\ DOMAIN open = 1..Len(open) /\ DOMAIN closed = 1..Len(closed)
    BY <1>1
<1>3. /\ DOMAIN Known = 1..(Len(open) + Len(closed))
      /\ \A i \in 1..(Len(open) + Len(closed)) :
           Known[i] = IF i <= Len(open) THEN open[i] ELSE closed[i - Len(open)]
    BY <1>1, ConcatProperties DEF Known
<1>4. \A i \in DOMAIN open : i \in DOMAIN Known /\ Known[i] = open[i]
    BY <1>2, <1>3
<1>5. \A i \in DOMAIN closed :
        i + Len(open) \in DOMAIN Known /\ Known[i + Len(open)] = closed[i]
    <2> SUFFICES ASSUME NEW i \in DOMAIN closed
                 PROVE  i + Len(open) \in DOMAIN Known /\ Known[i + Len(open)] = closed[i]
        OBVIOUS
    <2>1. /\ i + Len(open) \in 1..(Len(open) + Len(closed))
          /\ ~ (i + Len(open) <= Len(open)) /\ (i + Len(open)) - Len(open) = i
        BY <1>2
    <2> QED
        BY <1>3, <2>1
<1>6. \A i \in DOMAIN Known : Known[i] \in Findable
    <2> SUFFICES ASSUME NEW i \in DOMAIN Known PROVE Known[i] \in Findable
        OBVIOUS
    <2>1. CASE i <= Len(open)
        <3>1. i \in DOMAIN open /\ Known[i] = open[i]
            BY <1>2, <1>3, <2>1
        <3> QED
            BY <3>1 DEF Findable, Range
    <2>2. CASE ~ (i <= Len(open))
        <3>1. i - Len(open) \in DOMAIN closed /\ Known[i] = closed[i - Len(open)]
            BY <1>2, <1>3, <2>2
        <3> QED
            BY <3>1 DEF Findable, Range
    <2> QED
        BY <2>1, <2>2
<1> QED
    BY <1>4, <1>5, <1>6 DEF Findable, Range

\* A wait between a receipt and a checkout is a number.
LEMMA GapType ==
    ASSUME NEW receipt \in WellFormed, NEW s \in Session, s.checkout # None
    PROVE  Gap(receipt, s) \in Int
BY EnvelopeType DEF Gap, Session

\* Away from the till nothing about receipts changes.
LEMMA ElsewhereKeepsJoins ==
    ASSUME TypeOK, FiledOnce, NEW env \in WellFormed, Apply(env), env.type \notin Till
    PROVE  /\ pending' = pending
           /\ \A v \in DOMAIN sess :
                sess'[v].checkout = sess[v].checkout /\ sess'[v].receipt = sess[v].receipt
           /\ Findable' \subseteq Findable \cup (DOMAIN sess' \ DOMAIN sess)
<1>1. pending' = pending
    BY DEF Apply, Reopened, Opened, Exited, ZoneEntered, ZoneDwell, StaffObserved,
           CheckoutObserved, ReceiptJoined, ReceiptBuffered, Ignored, On, Till, memory
<1>2. \A v \in DOMAIN sess :
        sess'[v].checkout = sess[v].checkout /\ sess'[v].receipt = sess[v].receipt
    BY EvolutionStep DEF Evolution
<1>3. CASE Reopened(env) \/ Exited(env)
    BY <1>1, <1>2, <1>3, FilingReopened, FilingExited
<1>4. CASE Opened(env)
    <2>1. Len(sess) + 1 \in DOMAIN sess' \ DOMAIN sess
        BY <1>4 DEF Opened, TypeOK
    <2> QED
        BY <1>1, <1>2, <1>4, <2>1, FilingOpened
<1>5. CASE Others(env)
    BY <1>1, <1>2, <1>5, OthersKeepExit DEF Findable
<1> QED
    BY <1>3, <1>4, <1>5 DEF Apply, Others

\* No handler leaves a joinable receipt waiting: one that makes a session join
\* candidates has searched the buffer, one that buffers has searched the sessions.
LEMMA NoMissedJoinStep ==
    ASSUME TypeOK, FiledOnce, NoMissedJoin, NEW env \in WellFormed, Apply(env)
    PROVE  NoMissedJoin'
<1> SUFFICES ASSUME NEW v \in Findable', NEW j \in DOMAIN pending', Awaiting(sess'[v])
             PROVE  Gap(pending'[j], sess'[v]) > PosJoinWindow
    BY DEF NoMissedJoin, Findable
<1>1. \A w \in DOMAIN sess : sess[w] \in Session
    BY DEF TypeOK
<1>2. Findable \subseteq DOMAIN sess
    BY DEF TypeOK, Findable, Range
<1>3. \A w \in Findable : \A k \in DOMAIN pending :
        Awaiting(sess[w]) => Gap(pending[k], sess[w]) > PosJoinWindow
    BY DEF NoMissedJoin, Findable
<1>4. \A k \in DOMAIN pending : pending[k] \in WellFormed
    BY DEF TypeOK
<1>5. CASE env.type \notin Till
    <2>1. /\ pending' = pending /\ v \in Findable \cup (DOMAIN sess' \ DOMAIN sess)
          /\ \A w \in DOMAIN sess :
               sess'[w].checkout = sess[w].checkout /\ sess'[w].receipt = sess[w].receipt
        BY <1>5, ElsewhereKeepsJoins
    <2>2. v \notin DOMAIN sess' \ DOMAIN sess
        BY EvolutionStep DEF Evolution, Fresh, Awaiting
    <2>3. /\ v \in Findable /\ v \in DOMAIN sess
          /\ sess'[v].checkout = sess[v].checkout /\ sess'[v].receipt = sess[v].receipt
        BY <1>2, <2>1, <2>2
    <2> QED
        BY <1>3, <2>1, <2>3 DEF Awaiting, Gap
<1>6. CASE CheckoutObserved(env)
    <2> DEFINE seen(sid) == [sess[sid] EXCEPT !.checkout = IF @ = None THEN env.ts ELSE @]
               near(sid) == {k \in DOMAIN pending : Gap(pending[k], seen(sid)) <= PosJoinWindow}
    <2>1. PICK sid \in Lookup(env) :
             \/ /\ near(sid) = {}
                /\ Update(sid, Restaged(seen(sid)), FALSE)
                /\ UNCHANGED pending
             \/ \E k \in LastClosest([k \in near(sid) |-> Gap(pending[k], seen(sid))]) :
                  /\ Update(sid, Restaged([seen(sid) EXCEPT !.receipt = pending[k]]), TRUE)
                  /\ pending' = RemoveAt(pending, k)
        BY <1>6 DEF CheckoutObserved
    <2>2. sid \in DOMAIN sess /\ v \in Findable /\ v \in DOMAIN sess
        BY <1>2, <1>6, FiledType DEF CheckoutObserved, Findable
    <2>3. seen(sid) \in Session /\ seen(sid).checkout # None
        BY <1>1, <2>2, EnvelopeType, NoneAssumption DEF Session
    <2> HIDE DEF seen
    <2>4. CASE /\ near(sid) = {}
               /\ Update(sid, Restaged(seen(sid)), FALSE)
               /\ UNCHANGED pending
        <3>1. CASE v = sid
            <4>1. sess'[v].checkout = seen(sid).checkout
                BY <2>2, <2>3, <2>4, <3>1 DEF Update, Restaged, Session
            <4>2. ~ (Gap(pending[j], seen(sid)) <= PosJoinWindow) /\ pending[j] \in WellFormed
                BY <1>4, <2>4
            <4>3. Gap(pending[j], seen(sid)) > PosJoinWindow
                BY <2>3, <4>2, GapType, TunableAssumption
            <4> QED
                BY <2>4, <4>1, <4>3 DEF Gap
        <3>2. CASE v # sid
            BY <1>3, <2>2, <2>4, <3>2 DEF Update
        <3> QED
            BY <3>1, <3>2
    <2>5. ASSUME NEW k \in LastClosest([k \in near(sid) |-> Gap(pending[k], seen(sid))]),
                 Update(sid, Restaged([seen(sid) EXCEPT !.receipt = pending[k]]), TRUE),
                 pending' = RemoveAt(pending, k)
          PROVE  Gap(pending'[j], sess'[v]) > PosJoinWindow
        <3>1. k \in DOMAIN pending
            BY DEF LastClosest
        <3>2. pending[k] # None
            BY <1>4, <3>1, NoneAssumption
        <3>3. sess'[sid].receipt = pending[k]
            BY <2>2, <2>3, <2>5 DEF Update, Restaged, Session
        <3>4. v # sid /\ sess'[v] = sess[v]
            BY <2>2, <2>5, <3>2, <3>3 DEF Awaiting, Update
        <3>5. pending \in Seq(WellFormed)
            BY DEF TypeOK
        <3>6. PICK m \in DOMAIN pending : pending'[j] = pending[m]
            BY <2>5, <3>1, <3>5, RemoveAtFrom
        <3> QED
            BY <1>3, <2>2, <3>4, <3>6
    <2> QED
        BY <2>1, <2>4, <2>5
<1>7. CASE ReceiptJoined(env)
    <2>1. PICK i \in LastClosest([k \in Joinable(env) |-> Gap(env, sess[Known[k]])]) :
             Update(Known[i], Restaged([sess[Known[i]] EXCEPT !.receipt = env]), TRUE)
        BY <1>7 DEF ReceiptJoined
    <2>2. i \in DOMAIN Known
        BY DEF LastClosest, Joinable
    <2>3. Known[i] \in DOMAIN sess /\ sess[Known[i]] \in Session
        BY <2>2, FiledType
    <2>4. sess'[Known[i]].receipt = env /\ env # None
        BY <2>1, <2>3, NoneAssumption DEF Update, Restaged, Session
    <2>5. pending' = pending /\ v \in Findable
        BY <1>7 DEF ReceiptJoined, Findable
    <2>6. v # Known[i] /\ v \in DOMAIN sess /\ sess'[v] = sess[v]
        BY <1>2, <2>1, <2>4, <2>5 DEF Awaiting, Update
    <2> QED
        BY <1>3, <2>5, <2>6
<1>8. CASE ReceiptBuffered(env)
    <2>1. /\ UNCHANGED <<sess, open, closed>> /\ pending' = Buffer(pending, env)
          /\ Joinable(env) = {}
        BY <1>8 DEF ReceiptBuffered
    <2>2. v \in Findable /\ v \in DOMAIN sess /\ Awaiting(sess[v])
        BY <1>2, <2>1 DEF Findable
    <2>3. PICK i \in DOMAIN Known : Known[i] = v
        BY <2>2, KnownFindable
    <2>4. Gap(env, sess[v]) > PosJoinWindow
        <3>1. ~ (Gap(env, sess[v]) <= PosJoinWindow)
            BY <2>1, <2>2, <2>3 DEF Joinable
        <3> QED
            BY <1>1, <2>2, <3>1, GapType, TunableAssumption DEF Awaiting
    <2>5. pending \in Seq(WellFormed) /\ Len(pending) <= MaxPending
        BY DEF TypeOK
    <2>6. pending'[j] = env \/ \E k \in DOMAIN pending : pending'[j] = pending[k]
        BY <2>1, <2>5, BufferProperties
    <2> QED
        BY <1>3, <2>1, <2>2, <2>4, <2>6
<1>9. CASE Ignored(env)
    BY <1>3, <1>9 DEF Ignored, memory, Findable
<1> QED
    BY <1>5, <1>6, <1>7, <1>8, <1>9
       DEF Apply, Reopened, Opened, Exited, ZoneEntered, ZoneDwell, StaffObserved, On, Till

\* Whichever of checkout and receipt comes first, the second one joins them:
\* nothing joinable is left waiting (session.py:177-256).
THEOREM NothingLeftWaiting == Spec => []NoMissedJoin
<1>1. Init => NoMissedJoin
    BY DEF Init, NoMissedJoin, Range
<1>2. TypeOK /\ FiledOnce /\ NoMissedJoin /\ [Next]_vars => NoMissedJoin'
    <2>1. NoMissedJoin /\ UNCHANGED vars => NoMissedJoin'
        BY Stuttering DEF NoMissedJoin
    <2> QED
        BY <2>1, NoMissedJoinStep, NextApplies
<1> QED
    BY <1>1, <1>2, Typing, OneEntryPerShopper, PTL DEF Spec

-----------------------------------------------------------------------------
(* Where a receipt is.                                                     *)

Distinct(queue) == \A i, j \in DOMAIN queue : queue[i] = queue[j] => i = j

\* What waits and what is held was delivered: so what is delivered next is new.
ReceiptsApplied ==
    /\ \A j \in DOMAIN pending : pending[j] \in applied
    /\ \A v \in DOMAIN sess : sess[v].receipt # None => sess[v].receipt \in applied

ReceiptInv == ReceiptOnce /\ ReceiptsApplied

\* Taking an element out of a sequence without repetitions takes it out for good.
LEMMA RemoveAtDistinct ==
    ASSUME NEW S, NEW s \in Seq(S), NEW i \in DOMAIN s, Distinct(s)
    PROVE  /\ Distinct(RemoveAt(s, i))
           /\ \A j \in DOMAIN RemoveAt(s, i) :
                /\ RemoveAt(s, i)[j] # s[i]
                /\ \E k \in DOMAIN s : RemoveAt(s, i)[j] = s[k]
<1> DEFINE m == RemoveAt(s, i)
           old(j) == IF j < i THEN j ELSE j + 1
<1>1. \A j \in DOMAIN m : j \in Int /\ old(j) \in DOMAIN s \ {i} /\ m[j] = s[old(j)]
    BY RemoveAtOld, RemoveAtDomain
<1>2. i \in Int
    OBVIOUS
<1>3. \A j, k \in DOMAIN m : old(j) = old(k) => j = k
    BY <1>1, <1>2
<1> HIDE DEF m, old
<1>4. Distinct(m)
    BY <1>1, <1>3 DEF Distinct
<1>5. \A j \in DOMAIN m : m[j] # s[i] /\ \E k \in DOMAIN s : m[j] = s[k]
    BY <1>1 DEF Distinct
<1> QED
    BY <1>4, <1>5 DEF m

\* A newcomer is the only one of its kind in the deque.
LEMMA BufferDistinct ==
    ASSUME NEW S, NEW queue \in Seq(S), NEW env \in S, Len(queue) <= MaxPending,
           Distinct(queue), \A j \in DOMAIN queue : queue[j] # env
    PROVE  Distinct(Buffer(queue, env))
<1>1. CASE Len(queue) < MaxPending
    <2> DEFINE m == Append(queue, env)
    <2>1. /\ DOMAIN m = 1..(Len(queue) + 1) /\ DOMAIN queue = 1..Len(queue)
          /\ Len(queue) \in Nat /\ m[Len(queue) + 1] = env
          /\ \A j \in DOMAIN queue : m[j] = queue[j]
        OBVIOUS
    <2> HIDE DEF m
    <2>2. Distinct(m)
        BY <2>1 DEF Distinct
    <2> QED
        BY <1>1, <2>2 DEF Buffer, m
<1>2. CASE ~ (Len(queue) < MaxPending)
    <2> DEFINE t == Tail(queue)
               m == Append(t, env)
    <2>1. /\ t \in Seq(S) /\ Len(t) = Len(queue) - 1 /\ Len(queue) \in Nat
          /\ \A j \in 1..Len(t) : t[j] = queue[j + 1] /\ j + 1 \in DOMAIN queue
        BY <1>2, TunableAssumption
    <2> HIDE DEF t
    <2>2. /\ DOMAIN m = 1..(Len(t) + 1) /\ Len(t) \in Nat /\ m[Len(t) + 1] = env
          /\ \A j \in 1..Len(t) : m[j] = t[j]
        BY <2>1
    <2> HIDE DEF m
    <2>3. ASSUME NEW j \in DOMAIN m, NEW k \in DOMAIN m, m[j] = m[k] PROVE j = k
        <3>1. /\ j \in Int /\ k \in Int
              /\ j \in 1..Len(t) \/ j = Len(t) + 1
              /\ k \in 1..Len(t) \/ k = Len(t) + 1
            BY <2>2
        <3>2. CASE j \in 1..Len(t) /\ k \in 1..Len(t)
            <4>1. /\ queue[j + 1] = queue[k + 1]
                  /\ j + 1 \in DOMAIN queue /\ k + 1 \in DOMAIN queue
                BY <2>1, <2>2, <2>3, <3>2
            <4>2. j + 1 = k + 1
                BY <4>1 DEF Distinct
            <4> QED
                BY <3>1, <4>2
        <3>3. \A n \in 1..Len(t) : m[n] # env
            BY <2>1, <2>2
        <3> QED
            BY <2>2, <2>3, <3>1, <3>2, <3>3
    <2> QED
        BY <1>2, <2>3 DEF Buffer, Distinct, m, t
<1> QED
    BY <1>1, <1>2

\* A handler that moves no receipt.
LEMMA ReceiptsStay ==
    ASSUME ReceiptInv, pending' = pending, applied \subseteq applied',
           \A v \in DOMAIN sess' : sess'[v].receipt # None =>
               v \in DOMAIN sess /\ sess'[v].receipt = sess[v].receipt
    PROVE  ReceiptInv'
<1>1. ReceiptsApplied'
    BY DEF ReceiptInv, ReceiptsApplied
<1>2. ASSUME NEW v \in DOMAIN sess', sess'[v].receipt # None
      PROVE  /\ sess'[v].receipt \notin Range(pending')
             /\ \A w \in DOMAIN sess' : sess'[w].receipt = sess'[v].receipt => v = w
    <2>1. v \in DOMAIN sess /\ sess'[v].receipt = sess[v].receipt
        BY <1>2
    <2>2. \A w \in DOMAIN sess' : sess'[w].receipt = sess'[v].receipt =>
            w \in DOMAIN sess /\ sess'[w].receipt = sess[w].receipt
        BY <1>2
    <2> QED
        BY <1>2, <2>1, <2>2 DEF ReceiptInv, ReceiptOnce
<1>3. ReceiptOnce'
    BY <1>2 DEF ReceiptInv, ReceiptOnce
<1> QED
    BY <1>1, <1>3 DEF ReceiptInv

\* A handler that gives one session a receipt nobody else has.
LEMMA ReceiptGiven ==
    ASSUME ReceiptInv, applied \subseteq applied',
           NEW sid \in DOMAIN sess, NEW r \in applied',
           DOMAIN sess' = DOMAIN sess, sess'[sid].receipt = r,
           \A v \in DOMAIN sess \ {sid} :
               sess'[v].receipt = sess[v].receipt /\ sess[v].receipt # r,
           Distinct(pending'), r \notin Range(pending'),
           Range(pending') \subseteq Range(pending)
    PROVE  ReceiptInv'
<1>1. ReceiptsApplied'
    BY DEF ReceiptInv, ReceiptsApplied, Range
<1>2. ASSUME NEW v \in DOMAIN sess', sess'[v].receipt # None
      PROVE  /\ sess'[v].receipt \notin Range(pending')
             /\ \A w \in DOMAIN sess' : sess'[w].receipt = sess'[v].receipt => v = w
    <2>1. CASE v = sid
        BY <2>1
    <2>2. CASE v # sid
        BY <1>2, <2>2 DEF ReceiptInv, ReceiptOnce
    <2> QED
        BY <2>1, <2>2
<1>3. ReceiptOnce'
    BY <1>2 DEF ReceiptOnce, Distinct
<1> QED
    BY <1>1, <1>3 DEF ReceiptInv

\* Every handler takes an envelope that was not delivered before.
LEMMA DeliveredOnce ==
    ASSUME NEW env, Apply(env)
    PROVE  env \notin applied /\ applied' = applied \cup {env}
<1>1. \A type : On(type, env) => env \notin applied /\ applied' = applied \cup {env}
    BY DEF On
<1>2. /\ Reopened(env) \/ Opened(env) => On("person_entered", env)
      /\ Exited(env) => On("person_exited", env)
      /\ ZoneEntered(env) => On("zone_entered", env)
      /\ ZoneDwell(env) => On("zone_dwell", env)
      /\ StaffObserved(env) => On("staff_observed", env)
      /\ CheckoutObserved(env) => On("checkout_observed", env)
      /\ ReceiptJoined(env) \/ ReceiptBuffered(env) => On("pos_receipt", env)
    BY DEF Reopened, Opened, Exited, ZoneEntered, ZoneDwell, StaffObserved,
           CheckoutObserved, ReceiptJoined, ReceiptBuffered
<1>3. Ignored(env) => \E type : On(type, env)
    BY DEF Ignored
<1> QED
    BY <1>1, <1>2, <1>3 DEF Apply

\* A checkout moves the receipt it takes out of the deque; what a new receipt
\* joins or is put behind did not hold it before.
LEMMA ReceiptStep ==
    ASSUME TypeOK, FiledOnce, ReceiptInv, NEW env \in WellFormed, Apply(env)
    PROVE  ReceiptInv'
<1>1. /\ env \notin applied /\ env \in applied' /\ applied \subseteq applied'
      /\ env # None
    BY DeliveredOnce, NoneAssumption
<1>2. /\ Distinct(pending)
      /\ \A j \in DOMAIN pending : pending[j] \in applied /\ pending[j] # env
      /\ \A v \in DOMAIN sess : sess[v].receipt # env
    BY <1>1 DEF ReceiptInv, ReceiptOnce, ReceiptsApplied, Distinct
<1>3. CASE env.type \notin Till
    <2>1. /\ pending' = pending
          /\ \A v \in DOMAIN sess : sess'[v].receipt = sess[v].receipt
        BY <1>3, ElsewhereKeepsJoins
    <2>2. \A v \in DOMAIN sess' \ DOMAIN sess : sess'[v].receipt = None
        BY EvolutionStep DEF Evolution, Fresh
    <2> QED
        BY <1>1, <2>1, <2>2, ReceiptsStay
<1>4. CASE CheckoutObserved(env)
    <2> DEFINE seen(sid) == [sess[sid] EXCEPT !.checkout = IF @ = None THEN env.ts ELSE @]
               near(sid) == {k \in DOMAIN pending : Gap(pending[k], seen(sid)) <= PosJoinWindow}
    <2>1. PICK sid \in Lookup(env) :
             \/ /\ near(sid) = {}
                /\ Update(sid, Restaged(seen(sid)), FALSE)
                /\ UNCHANGED pending
             \/ \E k \in LastClosest([k \in near(sid) |-> Gap(pending[k], seen(sid))]) :
                  /\ Update(sid, Restaged([seen(sid) EXCEPT !.receipt = pending[k]]), TRUE)
                  /\ pending' = RemoveAt(pending, k)
        BY <1>4 DEF CheckoutObserved
    <2>2. sid \in DOMAIN sess /\ sess[sid] \in Session
        BY FiledType
    <2>3. seen(sid) \in Session /\ seen(sid).receipt = sess[sid].receipt
        BY <2>2, EnvelopeType DEF Session
    <2> HIDE DEF seen
    <2>4. CASE Update(sid, Restaged(seen(sid)), FALSE) /\ UNCHANGED pending
        <3>1. sess' = [sess EXCEPT ![sid] = Restaged(seen(sid))]
            BY <2>4 DEF Update
        <3>2. Restaged(seen(sid)).receipt = sess[sid].receipt
            BY <2>3 DEF Restaged, Session
        <3>3. \A v \in DOMAIN sess' : v \in DOMAIN sess /\ sess'[v].receipt = sess[v].receipt
            BY <2>2, <3>1, <3>2
        <3> QED
            BY <1>1, <2>4, <3>3, ReceiptsStay
    <2>5. ASSUME NEW k \in LastClosest([k \in near(sid) |-> Gap(pending[k], seen(sid))]),
                 Update(sid, Restaged([seen(sid) EXCEPT !.receipt = pending[k]]), TRUE),
                 pending' = RemoveAt(pending, k)
          PROVE  ReceiptInv'
        <3> DEFINE r == pending[k]
        <3>1. k \in DOMAIN pending
            BY DEF LastClosest
        <3>2. r \in WellFormed /\ r \in applied' /\ r # None
            BY <1>1, <1>2, <3>1, NoneAssumption DEF TypeOK
        <3>3. \A v \in DOMAIN sess : sess[v].receipt # r
            BY <3>1, <3>2 DEF ReceiptInv, ReceiptOnce, Range
        <3>4. pending \in Seq(WellFormed)
            BY DEF TypeOK
        <3>5. /\ Distinct(pending')
              /\ \A j \in DOMAIN pending' :
                   pending'[j] # r /\ \E n \in DOMAIN pending : pending'[j] = pending[n]
            BY <1>2, <2>5, <3>1, <3>4, RemoveAtDistinct
        <3>6. sess' = [sess EXCEPT ![sid] = Restaged([seen(sid) EXCEPT !.receipt = r])]
            BY <2>5 DEF Update
        <3>7. Restaged([seen(sid) EXCEPT !.receipt = r]).receipt = r
            BY <2>3 DEF Restaged, Session
        <3> HIDE DEF r
        <3>8. /\ DOMAIN sess' = DOMAIN sess /\ sess'[sid].receipt = r
              /\ \A v \in DOMAIN sess \ {sid} : sess'[v].receipt = sess[v].receipt
            BY <2>2, <3>6, <3>7
        <3>9. r \notin Range(pending') /\ Range(pending') \subseteq Range(pending)
            BY <3>5 DEF Range
        <3> QED
            BY <1>1, <2>2, <3>2, <3>3, <3>5, <3>8, <3>9, ReceiptGiven
    <2> QED
        BY <2>1, <2>4, <2>5
<1>5. CASE ReceiptJoined(env)
    <2>1. PICK i \in LastClosest([k \in Joinable(env) |-> Gap(env, sess[Known[k]])]) :
             Update(Known[i], Restaged([sess[Known[i]] EXCEPT !.receipt = env]), TRUE)
        BY <1>5 DEF ReceiptJoined
    <2> DEFINE sid == Known[i]
    <2>2. i \in DOMAIN Known
        BY DEF LastClosest, Joinable
    <2>3. sid \in DOMAIN sess /\ sess[sid] \in Session
        BY <2>2, FiledType
    <2>4. sess' = [sess EXCEPT ![sid] = Restaged([sess[sid] EXCEPT !.receipt = env])]
        BY <2>1 DEF Update
    <2>5. Restaged([sess[sid] EXCEPT !.receipt = env]).receipt = env
        BY <2>3 DEF Restaged, Session
    <2>6. pending' = pending
        BY <1>5 DEF ReceiptJoined
    <2> HIDE DEF sid
    <2>7. /\ DOMAIN sess' = DOMAIN sess /\ sess'[sid].receipt = env
          /\ \A v \in DOMAIN sess \ {sid} : sess'[v].receipt = sess[v].receipt
        BY <2>3, <2>4, <2>5
    <2>8. Distinct(pending') /\ env \notin Range(pending')
        BY <1>2, <2>6 DEF Range
    <2> QED
        BY <1>1, <1>2, <2>3, <2>6, <2>7, <2>8, ReceiptGiven
<1>6. CASE ReceiptBuffered(env)
    <2>1. UNCHANGED sess /\ pending' = Buffer(pending, env)
        BY <1>6 DEF ReceiptBuffered
    <2>2. pending \in Seq(WellFormed) /\ Len(pending) <= MaxPending
        BY DEF TypeOK
    <2>3. Distinct(pending')
        BY <1>2, <2>1, <2>2, BufferDistinct
    <2>4. \A j \in DOMAIN pending' :
            pending'[j] = env \/ \E k \in DOMAIN pending : pending'[j] = pending[k]
        BY <2>1, <2>2, BufferProperties
    <2>5. \A v \in DOMAIN sess : sess[v].receipt # None => sess[v].receipt \notin Range(pending')
        BY <1>2, <2>4 DEF ReceiptInv, ReceiptOnce, Range
    <2>6. ReceiptOnce'
        BY <2>1, <2>3, <2>5 DEF ReceiptInv, ReceiptOnce, Distinct
    <2>7. ReceiptsApplied'
        BY <1>1, <1>2, <2>1, <2>4 DEF ReceiptInv, ReceiptsApplied
    <2> QED
        BY <2>6, <2>7 DEF ReceiptInv
<1>7. CASE Ignored(env)
    BY <1>1, <1>7, ReceiptsStay DEF Ignored, memory
<1> QED
    BY <1>3, <1>4, <1>5, <1>6, <1>7
       DEF Apply, Reopened, Opened, Exited, ZoneEntered, ZoneDwell, StaffObserved, On, Till

\* A bill counts once, whatever is joined, swapped, evicted from the deque or
\* reopened (session.py:177-256).
THEOREM BillsCountOnce == Spec => []ReceiptOnce
<1>1. Init => ReceiptInv
    BY DEF Init, ReceiptInv, ReceiptOnce, ReceiptsApplied, Range
<1>2. TypeOK /\ FiledOnce /\ ReceiptInv /\ [Next]_vars => ReceiptInv'
    <2>1. ReceiptInv /\ UNCHANGED vars => ReceiptInv'
        BY Stuttering DEF ReceiptInv, ReceiptOnce, ReceiptsApplied
    <2> QED
        BY <2>1, ReceiptStep, NextApplies
<1>3. ReceiptInv => ReceiptOnce
    BY DEF ReceiptInv
<1> QED
    BY <1>1, <1>2, <1>3, Typing, OneEntryPerShopper, PTL DEF Spec

-----------------------------------------------------------------------------
(* What the closed cache forgets.                                          *)

\* v was cached or has just been closed, has left, and is cached no more.
Forgotten(v) ==
    /\ v \in DOMAIN sess'
    /\ v \in Range(closed) \/ delta'.session = v
    /\ v \notin Range(closed') /\ sess'[v].exited # None

\* Why: another visit of the shopper took its place, or it was the oldest.
Excused(v) ==
    \/ \E i \in DOMAIN closed' : sess'[closed'[i]].key = sess'[v].key
    \/ /\ Len(closed') = MaxClosed
       /\ \A i \in DOMAIN closed' : sess'[v].exited <= sess'[closed'[i]].exited

\* An element other than the one taken out is still there.
LEMMA RemoveAtKeeps ==
    ASSUME NEW S, NEW s \in Seq(S), NEW i \in DOMAIN s, NEW j \in DOMAIN s, j # i
    PROVE  \E k \in DOMAIN RemoveAt(s, i) : RemoveAt(s, i)[k] = s[j]
<1>1. i \in 1..Len(s) /\ j \in 1..Len(s) /\ Len(s) \in Nat
    OBVIOUS
<1>2. DOMAIN RemoveAt(s, i) = 1..(Len(s) - 1)
    BY RemoveAtDomain
<1>3. \A k \in 1..(Len(s) - 1) :
        RemoveAt(s, i)[k] = IF k < i THEN s[k] ELSE s[k + 1]
    BY RemoveAtProperties
<1>4. CASE j < i
    <2>1. j \in 1..(Len(s) - 1)
        BY <1>1, <1>4
    <2> QED
        BY <1>2, <1>3, <1>4, <2>1
<1>5. CASE ~ (j < i)
    <2> DEFINE k == j - 1
    <2>1. k \in 1..(Len(s) - 1) /\ ~ (k < i) /\ k + 1 = j
        BY <1>1, <1>5
    <2> HIDE DEF k
    <2> QED
        BY <1>2, <1>3, <2>1
<1> QED
    BY <1>4, <1>5

\* Filing a session pushes out of the dictionary at most the one whose place it
\* takes, and then the dictionary does not grow.
LEMMA PutKeeps ==
    ASSUME NEW S, NEW cache \in Seq(S), NEW key, NEW sid \in S, NEW i \in DOMAIN cache
    PROVE  \/ \E k \in DOMAIN Put(cache, key, sid) : Put(cache, key, sid)[k] = cache[i]
           \/ /\ Len(Put(cache, key, sid)) = Len(cache)
              /\ sess[cache[i]].key = key
<1> DEFINE m == Put(cache, key, sid)
<1>1. CASE Filed(cache, key) = {}
    <2> DEFINE a == Append(cache, sid)
    <2>1. m = a
        BY <1>1 DEF Put
    <2>2. i \in DOMAIN a /\ a[i] = cache[i]
        OBVIOUS
    <2> HIDE DEF m, a
    <2> QED
        BY <2>1, <2>2 DEF m
<1>2. CASE Filed(cache, key) # {}
    <2> DEFINE a == [j \in DOMAIN cache |-> IF j \in Filed(cache, key) THEN sid ELSE cache[j]]
    <2>1. m = a /\ DOMAIN a = DOMAIN cache /\ Len(a) = Len(cache)
        BY <1>2 DEF Put
    <2>2. i \in Filed(cache, key) => sess[cache[i]].key = key
        BY DEF Filed
    <2>3. i \notin Filed(cache, key) => a[i] = cache[i]
        OBVIOUS
    <2> HIDE DEF m, a
    <2> QED
        BY <2>1, <2>2, <2>3 DEF m
<1> QED
    BY <1>1, <1>2

\* Shrunk to the bound, the cache is full, and what it lost exited no later
\* than all it keeps.
LEMMA BoundedForgets ==
    ASSUME NEW S, NEW cache \in Seq(S), NEW s, Len(cache) <= MaxClosed + 1,
           \A j \in DOMAIN cache : s[cache[j]].exited \in Int,
           NEW kept \in Bounded(cache, s), NEW i \in DOMAIN cache
    PROVE  \/ \E k \in DOMAIN kept : kept[k] = cache[i]
           \/ /\ Len(cache) = MaxClosed + 1 /\ Len(kept) = MaxClosed
              /\ \A j \in DOMAIN kept : s[cache[i]].exited <= s[kept[j]].exited
<1>1. CASE Len(cache) <= MaxClosed
    BY <1>1 DEF Bounded
<1>2. CASE ~ (Len(cache) <= MaxClosed)
    <2>1. PICK o \in Oldest(cache, s) : kept = RemoveAt(cache, o)
        BY <1>2 DEF Bounded
    <2>2. /\ o \in DOMAIN cache
          /\ \A j \in DOMAIN cache : s[cache[o]].exited <= s[cache[j]].exited
        BY DEF Oldest
    <2>3. CASE i # o
        BY <2>1, <2>2, <2>3, RemoveAtKeeps
    <2>4. CASE i = o
        <3>1. Len(cache) = MaxClosed + 1
            BY <1>2, TunableAssumption
        <3>2. Len(kept) = MaxClosed
            BY <2>1, <2>2, <3>1, RemoveAtProperties, TunableAssumption
        <3>3. \A j \in DOMAIN kept : \E k \in DOMAIN cache : kept[j] = cache[k]
            BY <2>1, <2>2, RemoveAtFrom
        <3> QED
            BY <2>2, <2>4, <3>1, <3>2, <3>3
    <2> QED
        BY <2>3, <2>4
<1> QED
    BY <1>1, <1>2

\* An exit is the one step at which the cache must choose.
LEMMA ForgottenExited ==
    ASSUME TypeOK, FiledOnce, NEW env \in WellFormed, Exited(env), NEW v, Forgotten(v)
    PROVE  Excused(v)
<1>1. PICK i \in Filed(open, Key(env)) :
         /\ sess' = [sess EXCEPT ![open[i]] =
                        Restaged([sess[open[i]] EXCEPT !.exited = env.ts])]
         /\ closed' \in Bounded(Put(closed, Key(env), open[i]), sess')
         /\ delta' = Delta("closed", open[i], FALSE)
    BY DEF Exited
<1> DEFINE sid == open[i]
           grown == Put(closed, Key(env), sid)
<1>2. /\ i \in DOMAIN open /\ sid \in DOMAIN sess
      /\ sess[sid] \in Session /\ sess[sid].key = Key(env)
    BY FiledType DEF TypeOK
<1>3. /\ sess'[sid].exited = env.ts /\ sess'[sid].key = Key(env)
      /\ \A w \in DOMAIN sess \ {sid} : sess'[w] = sess[w]
    BY <1>1, <1>2 DEF Session, Restaged
<1>4. env.ts \in Int
    BY EnvelopeType
<1>5. v \in Range(closed) \/ v = sid
    BY <1>1 DEF Forgotten, Delta
<1> HIDE DEF sid
<1>6. closed \in Seq(DOMAIN sess) /\ Len(closed) <= MaxClosed
    BY DEF TypeOK
<1>7. /\ UniqueIn(closed, sess) /\ \A j \in DOMAIN open : sess[open[j]].exited = None
      /\ \A j \in DOMAIN closed :
           /\ closed[j] \in DOMAIN sess /\ sess[closed[j]] \in Session
           /\ sess[closed[j]].exited # None
    BY DEF FiledOnce, UniqueIn, TypeOK
<1>8. \A j \in DOMAIN closed :
        closed[j] # sid /\ sess'[closed[j]] = sess[closed[j]] /\ sess'[closed[j]].exited \in Int
    <2>1. \A j \in DOMAIN closed : closed[j] # sid
        BY <1>2, <1>7 DEF sid
    <2> QED
        BY <1>3, <1>7, <2>1 DEF Session
<1>9. /\ grown \in Seq(DOMAIN sess) /\ Len(grown) <= MaxClosed + 1
      /\ Len(grown) \in {Len(closed), Len(closed) + 1}
    <2>1. grown \in Seq(DOMAIN sess) /\ Len(grown) \in {Len(closed), Len(closed) + 1}
        BY <1>2, <1>6, PutType
    <2> HIDE DEF grown
    <2> QED
        BY <1>6, <2>1, TunableAssumption
<1>10. PICK n \in DOMAIN grown :
         /\ grown[n] = sid
         /\ \A j \in DOMAIN grown \ {n} : j \in DOMAIN closed /\ grown[j] = closed[j]
    <2>1. OneEntry(grown, closed, Key(env), sid)
        BY <1>2, <1>6, <1>7, PutEntries
    <2> HIDE DEF grown
    <2> QED
        BY <2>1 DEF OneEntry
<1>11. closed' \in Bounded(grown, sess')
    BY <1>1 DEF sid
<1>12. \A j \in DOMAIN closed :
         \/ \E k \in DOMAIN grown : grown[k] = closed[j]
         \/ Len(grown) = Len(closed) /\ sess[closed[j]].key = Key(env)
    BY <1>2, <1>6, PutKeeps
<1> HIDE DEF grown
<1>13. \A j \in DOMAIN grown : sess'[grown[j]].exited \in Int
    BY <1>3, <1>4, <1>8, <1>10
<1>14. \A j \in DOMAIN grown :
         \/ \E k \in DOMAIN closed' : closed'[k] = grown[j]
         \/ /\ Len(grown) = MaxClosed + 1 /\ Len(closed') = MaxClosed
            /\ \A k \in DOMAIN closed' : sess'[grown[j]].exited <= sess'[closed'[k]].exited
    BY <1>9, <1>11, <1>13, BoundedForgets
<1>15. CASE \E j \in DOMAIN grown : grown[j] = v
    BY <1>14, <1>15 DEF Forgotten, Excused, Range
<1>16. CASE ~ \E j \in DOMAIN grown : grown[j] = v
    <2>1. PICK j \in DOMAIN closed : closed[j] = v
        BY <1>5, <1>10, <1>16 DEF Range
    <2>2. Len(grown) = Len(closed) /\ sess'[v].key = Key(env)
        BY <1>8, <1>12, <1>16, <2>1
    <2>3. Len(grown) # MaxClosed + 1
        BY <1>6, <2>2, TunableAssumption
    <2>4. PICK k \in DOMAIN closed' : closed'[k] = sid
        BY <1>10, <1>14, <2>3
    <2> QED
        BY <1>3, <2>2, <2>4 DEF Excused
<1> QED
    BY <1>15, <1>16

\* The handlers that file nothing touch no session of the closed cache that
\* they could forget.
LEMMA ForgottenOthers ==
    ASSUME TypeOK, FiledOnce, NEW env \in WellFormed, Others(env), NEW v
    PROVE  ~ Forgotten(v)
<1> SUFFICES ASSUME Forgotten(v) PROVE FALSE
    OBVIOUS
<1>1. /\ closed' = closed /\ v \notin Range(closed) /\ delta'.session = v
      /\ v \in DOMAIN sess' /\ sess'[v].exited # None
    BY OthersKeepExit DEF Forgotten
<1>2. /\ \A w \in DOMAIN sess : sess'[w].exited = sess[w].exited
      /\ \A w \in DOMAIN sess' \ DOMAIN sess : sess'[w].exited = None
    BY OthersKeepExit DEF Evolution, Fresh
<1>3. v \in DOMAIN sess /\ sess[v].exited # None
    BY <1>1, <1>2
<1>4. \A w \in Range(open) : sess[w].exited = None
    BY DEF FiledOnce, Range
<1>5. v \notin Findable
    BY <1>1, <1>3, <1>4 DEF Findable
<1>6. \A sid \in Lookup(env) : sid \in Findable
    BY DEF Lookup, Filed, Findable, Range
<1>7. CASE \E sid \in Lookup(env) : delta'.session = sid
    BY <1>1, <1>5, <1>6, <1>7
<1>8. CASE ReceiptJoined(env)
    <2>1. PICK i \in DOMAIN Known : delta'.session = Known[i]
        BY <1>8 DEF ReceiptJoined, Update, Delta, LastClosest, Joinable
    <2> QED
        BY <1>1, <1>5, <2>1, KnownFindable
<1>9. CASE delta' = Noop
    <2>1. None \notin DOMAIN sess
        BY NoneAssumption DEF TypeOK
    <2> QED
        BY <1>1, <1>3, <1>9, <2>1 DEF Noop, Delta
<1>10. \A sid, t, matched : Update(sid, t, matched) => delta'.session = sid
    BY DEF Update, Delta
<1>11. CASE ZoneEntered(env)
    BY <1>7, <1>10, <1>11 DEF ZoneEntered
<1>12. CASE ZoneDwell(env)
    BY <1>7, <1>10, <1>12 DEF ZoneDwell
<1>13. CASE StaffObserved(env)
    BY <1>7, <1>10, <1>13 DEF StaffObserved
<1>14. CASE CheckoutObserved(env)
    BY <1>7, <1>10, <1>14 DEF CheckoutObserved
<1>15. CASE ReceiptBuffered(env) \/ Ignored(env)
    BY <1>9, <1>15 DEF ReceiptBuffered, Ignored
<1> QED
    BY <1>8, <1>11, <1>12, <1>13, <1>14, <1>15 DEF Others

\* Re-entry takes one session out of the closed cache, and that one is inside
\* again; a new session leaves the cache as it is.
LEMMA ForgottenEntered ==
    ASSUME TypeOK, FiledOnce, NEW env \in WellFormed, Reopened(env) \/ Opened(env), NEW v
    PROVE  ~ Forgotten(v)
<1> SUFFICES ASSUME Forgotten(v) PROVE FALSE
    OBVIOUS
<1>1. CASE Reopened(env)
    <2>1. PICK i \in Filed(closed, Key(env)) :
             /\ closed' = RemoveAt(closed, i)
             /\ sess' = [sess EXCEPT ![closed[i]] = [sess[closed[i]] EXCEPT !.exited = None]]
             /\ delta' = Delta("updated", closed[i], FALSE)
        BY <1>1 DEF Reopened, Update
    <2>2. /\ i \in DOMAIN closed /\ closed[i] \in DOMAIN sess
          /\ sess[closed[i]] \in Session /\ closed \in Seq(DOMAIN sess)
        BY FiledType DEF TypeOK
    <2>3. sess'[closed[i]].exited = None
        BY <2>1, <2>2 DEF Session
    <2>4. PICK j \in DOMAIN closed : closed[j] = v
        <3>1. delta'.session = closed[i]
            BY <2>1 DEF Delta
        <3> QED
            BY <2>2, <3>1 DEF Forgotten, Range
    <2>5. j # i
        BY <2>3, <2>4 DEF Forgotten
    <2>6. \E k \in DOMAIN closed' : closed'[k] = closed[j]
        BY <2>1, <2>2, <2>5, RemoveAtKeeps
    <2> QED
        BY <2>4, <2>6 DEF Forgotten, Range
<1>2. CASE Opened(env)
    <2>1. /\ closed' = closed /\ delta'.session = Len(sess) + 1
          /\ sess' = Append(sess, NewSession(Key(env), env))
        BY <1>2 DEF Opened, Delta
    <2>2. sess'[Len(sess) + 1].exited = None
        BY <2>1 DEF TypeOK, NewSession
    <2> QED
        BY <2>1, <2>2 DEF Forgotten
<1> QED
    BY <1>1, <1>2

\* The closed cache drops a session for room only, and then the one that left
\* first: so an early exit cannot be remembered longer than a late one
\* (session.py:146-149).
THEOREM OldestForgotten == Spec => ForgetsOldest
<1>1. ASSUME TypeOK, FiledOnce, NEW env \in WellFormed, Apply(env), NEW v, Forgotten(v)
      PROVE  Excused(v)
    BY <1>1, ForgottenExited, ForgottenOthers, ForgottenEntered DEF Apply, Others
<1>2. TypeOK /\ FiledOnce /\ [Next]_vars
        => [\A v \in DOMAIN sess' :
              /\ v \in Range(closed) \/ delta'.session = v
              /\ v \notin Range(closed') /\ sess'[v].exited # None
              => \/ \E i \in DOMAIN closed' : sess'[closed'[i]].key = sess'[v].key
                 \/ /\ Len(closed') = MaxClosed
                    /\ \A i \in DOMAIN closed' :
                         sess'[v].exited <= sess'[closed'[i]].exited]_vars
    BY <1>1, NextApplies DEF Forgotten, Excused
<1> QED
    BY <1>2, Typing, OneEntryPerShopper, PTL DEF Spec, ForgetsOldest

-----------------------------------------------------------------------------
(* The funnel as a scale. *)

Scale == [entered |-> 1, browsed |-> 2, engaged |-> 3, checkout_queued |-> 4,
          purchased |-> 5]

LEMMA RankIsScale ==
    /\ FunnelStage = {"entered", "browsed", "engaged", "checkout_queued", "purchased"}
    /\ \A st \in FunnelStage : Rank[st] = Scale[st]
<1>1. DOMAIN Stages = {1, 2, 3, 4, 5}
    BY DEF Stages
<1>2. /\ Stages[1] = "entered" /\ Stages[2] = "browsed" /\ Stages[3] = "engaged"
      /\ Stages[4] = "checkout_queued" /\ Stages[5] = "purchased"
    BY DEF Stages
<1>3. FunnelStage = {"entered", "browsed", "engaged", "checkout_queued", "purchased"}
    BY <1>1, <1>2 DEF FunnelStage, Range
<1>4. \A st \in FunnelStage :
        Scale[st] \in DOMAIN Stages /\ \A n \in DOMAIN Stages : Stages[n] = st <=> n = Scale[st]
    BY <1>1, <1>2, <1>3 DEF Scale
<1>5. ASSUME NEW st \in FunnelStage
      PROVE  (CHOOSE n \in DOMAIN Stages : Stages[n] = st) = Scale[st]
    BY <1>4
<1>6. \A st \in FunnelStage : Rank[st] = CHOOSE n \in DOMAIN Stages : Stages[n] = st
    BY DEF Rank
<1> QED
    BY <1>3, <1>5, <1>6

LEMMA RankType == \A st \in FunnelStage : Rank[st] \in 1..5
BY RankIsScale DEF Scale

\* More evidence, higher stage.
LEMMA StageClimbs ==
    ASSUME NEW s \in Session, NEW t \in Session, Evolves(s, t)
    PROVE  Rank[Stage(t)] >= Rank[Stage(s)]
<1>1. \A z \in Visited(s) :
        /\ z \in Visited(t)
        /\ s.zones[z].dwell >= EngagementDwell => t.zones[z].dwell >= EngagementDwell
    <2>1. \A z \in Zone : /\ s.zones[z] # None => s.zones[z].dwell \in Nat
                          /\ t.zones[z] # None => t.zones[z].dwell \in Nat
        BY DEF Session, Visit
    <2> QED
        BY <2>1, TunableAssumption DEF Evolves, Lengthens, Visited
<1>2. s.receipt # None => t.receipt # None
    BY DEF Evolves
<1>3. s.checkout # None => t.checkout # None
    BY DEF Evolves
<1>4. Scale[Stage(t)] >= Scale[Stage(s)]
    BY <1>1, <1>2, <1>3 DEF Stage, Scale
<1> QED
    BY <1>4, StageType, RankIsScale

-----------------------------------------------------------------------------
(* One step. *)

\* What the refinement mapping shows.
Shown == [v \in DOMAIN sess |-> VisitOf(sess[v])]

Shows == [stage : 1..5, present : BOOLEAN]

LEMMA PresentNow ==
    ASSUME NEW st, NEW before, NEW after, NEW shown,
           shown = [stage |-> st, present |-> before]
    PROVE  [shown EXCEPT !.present = after] = [stage |-> st, present |-> after]
OBVIOUS

LEMMA AbsentNow ==
    ASSUME NEW st, NEW shown, shown = [stage |-> st, present |-> FALSE]
    PROVE  ~ shown.present
OBVIOUS

LEMMA VisitIn ==
    ASSUME NEW s, s.exited = None
    PROVE  VisitOf(s) = [stage |-> Rank[s.stage], present |-> TRUE]
<1>1. (s.exited = None) = TRUE
    OBVIOUS
<1> QED
    BY <1>1, Zenon DEF VisitOf

LEMMA VisitOut ==
    ASSUME NEW s, s.exited # None
    PROVE  VisitOf(s) = [stage |-> Rank[s.stage], present |-> FALSE]
<1>1. (s.exited = None) = FALSE
    OBVIOUS
<1> QED
    BY <1>1, Zenon DEF VisitOf

LEMMA ShownType == TypeOK => Shown \in Seq(Shows)
<1> SUFFICES ASSUME TypeOK PROVE Shown \in Seq(Shows)
    OBVIOUS
<1>1. ASSUME NEW v \in DOMAIN sess
      PROVE  VisitOf(sess[v]) \in Shows
    <2>1. sess[v] \in Session
        BY DEF TypeOK
    <2>2. Rank[sess[v].stage] \in 1..5
        BY <2>1, RankType DEF Session
    <2>3. /\ [stage |-> Rank[sess[v].stage], present |-> TRUE] \in Shows
          /\ [stage |-> Rank[sess[v].stage], present |-> FALSE] \in Shows
        BY <2>2, Zenon DEF Shows
    <2> QED
        BY <2>3, VisitIn, VisitOut
<1>2. DOMAIN sess = 1..Len(sess) /\ Len(sess) \in Nat
    BY DEF TypeOK
<1>3. Shown \in [1..Len(sess) -> Shows]
    BY <1>1, <1>2 DEF Shown
<1> QED
    BY <1>2, <1>3, SeqDef

\* Every visit but the delta's is shown as it was.
OneChanges(v) ==
    /\ v \in DOMAIN sess /\ DOMAIN sess' = DOMAIN sess
    /\ \A w \in DOMAIN sess \ {v} : sess'[w] = sess[w]

LEMMA OneShown ==
    ASSUME NEW v, OneChanges(v)
    PROVE  Shown' = [Shown EXCEPT ![v] = VisitOf(sess'[v])]
BY DEF OneChanges, Shown

LEMMA ReopenedIsReturn ==
    ASSUME TypeOK, FiledOnce, NEW env, Reopened(env)
    PROVE  \E v \in DOMAIN Shown : V!Return(v)
<1>1. PICK i \in Filed(closed, Key(env)) :
         sess' = [sess EXCEPT ![closed[i]] = [sess[closed[i]] EXCEPT !.exited = None]]
    BY DEF Reopened, Update
<1>2. /\ i \in DOMAIN closed /\ closed[i] \in DOMAIN sess
      /\ sess[closed[i]] \in Session /\ sess[closed[i]].exited # None
    BY FiledType DEF TypeOK, FiledOnce, Filed
<1> DEFINE v == closed[i]
<1>3. /\ sess'[v] = [sess[v] EXCEPT !.exited = None]
      /\ sess'[v].stage = sess[v].stage /\ sess'[v].exited = None
    BY <1>1, <1>2 DEF Session
<1>4. OneChanges(v)
    BY <1>1, <1>2 DEF OneChanges
<1>5. VisitOf(sess[v]) = [stage |-> Rank[sess[v].stage], present |-> FALSE]
    BY <1>2, VisitOut
<1> DEFINE back == TRUE
<1>6. VisitOf(sess'[v]) = [stage |-> Rank[sess[v].stage], present |-> back]
    BY <1>3, VisitIn
<1> HIDE DEF v, back
<1>7. v \in DOMAIN Shown /\ Shown[v] = VisitOf(sess[v])
    BY <1>4 DEF OneChanges, Shown
<1>8. VisitOf(sess'[v]) = [Shown[v] EXCEPT !.present = back]
    BY <1>5, <1>6, <1>7, PresentNow
<1>9. Shown' = [Shown EXCEPT ![v].present = back]
    BY <1>4, <1>7, <1>8, OneShown
<1>10. ~ Shown[v].present
    BY <1>5, <1>7, AbsentNow
<1> QED
    BY <1>7, <1>9, <1>10 DEF V!Return, Shown, back

LEMMA ExitedIsLeave ==
    ASSUME TypeOK, FiledOnce, StageAgrees, NEW env \in WellFormed, Exited(env)
    PROVE  \E v \in DOMAIN Shown : V!Leave(v)
<1>1. PICK i \in Filed(open, Key(env)) :
         sess' = [sess EXCEPT ![open[i]] = Restaged([sess[open[i]] EXCEPT !.exited = env.ts])]
    BY DEF Exited
<1>2. /\ i \in DOMAIN open /\ open[i] \in DOMAIN sess
      /\ sess[open[i]] \in Session /\ sess[open[i]].exited = None
      /\ sess[open[i]].stage = Stage(sess[open[i]])
    BY FiledType DEF TypeOK, FiledOnce, StageAgrees, Filed
<1> DEFINE v == open[i]
           gone == [sess[v] EXCEPT !.exited = env.ts]
<1>3. /\ gone \in Session /\ gone.exited = env.ts /\ gone.stage = sess[v].stage
      /\ Stage(gone) = Stage(sess[v])
    BY <1>2, EnvelopeType DEF Session, Stage, Visited
<1>4. sess'[v] = Restaged(gone) /\ OneChanges(v)
    BY <1>1, <1>2 DEF OneChanges
<1> HIDE DEF gone
<1>5. Restaged(gone).stage = sess[v].stage /\ Restaged(gone).exited = env.ts
    BY <1>2, <1>3 DEF Restaged, Session
<1>6. env.ts # None
    BY EnvelopeType, NoneAssumption
<1>7. VisitOf(sess'[v]) = [VisitOf(sess[v]) EXCEPT !.present = FALSE]
      /\ VisitOf(sess[v]).present
    BY <1>2, <1>4, <1>5, <1>6, VisitIn, VisitOut
<1> HIDE DEF v
<1>8. v \in DOMAIN Shown /\ Shown[v] = VisitOf(sess[v])
    BY <1>4 DEF OneChanges, Shown
<1>9. Shown' = [Shown EXCEPT ![v].present = FALSE]
    BY <1>4, <1>7, <1>8, OneShown
<1> QED
    BY <1>7, <1>8, <1>9 DEF V!Leave, Shown

LEMMA OpenedIsArrive ==
    ASSUME TypeOK, NEW env, Opened(env)
    PROVE  V!Arrive
<1>1. sess' = Append(sess, NewSession(Key(env), env))
    BY DEF Opened
<1> DEFINE n == Len(sess)
           new == [stage |-> 1, present |-> TRUE]
<1>2. /\ DOMAIN sess = 1..n /\ n \in Nat /\ DOMAIN sess' = 1..(n + 1)
      /\ \A v \in 1..n : sess'[v] = sess[v]
      /\ sess'[n + 1] = NewSession(Key(env), env)
    BY <1>1 DEF TypeOK
<1>3. VisitOf(NewSession(Key(env), env)) = new
    BY RankIsScale DEF VisitOf, NewSession, Scale
<1>4. Shown \in Seq(Shows) /\ Len(Shown) = n
    BY <1>2, ShownType DEF Shown
<1>5. Shown' = [v \in 1..(n + 1) |-> IF v <= n THEN Shown[v] ELSE new]
    BY <1>2, <1>3 DEF Shown
<1>6. Append(Shown, new) = [v \in 1..(n + 1) |-> IF v <= n THEN Shown[v] ELSE new]
    BY <1>2, <1>4
<1> QED
    BY <1>5, <1>6 DEF V!Arrive, Shown

\* Every other handler adds evidence to one session at most.
LEMMA EvidenceIsProgress ==
    ASSUME TypeOK, StageAgrees, NEW env \in WellFormed, Apply(env),
           TypeOK', StageAgrees', DOMAIN sess' = DOMAIN sess, open' = open, closed' = closed
    PROVE  UNCHANGED Shown \/ \E v \in DOMAIN Shown : V!Progress(v)
<1>1. Evolution(env)
    BY EvolutionStep
<1>2. CASE \A v \in DOMAIN sess : sess'[v] = sess[v]
    BY <1>2 DEF Shown
<1>3. ASSUME NEW v \in DOMAIN sess, sess'[v] # sess[v]
      PROVE  UNCHANGED Shown \/ \E w \in DOMAIN Shown : V!Progress(w)
    <2>1. OneChanges(v)
        BY <1>1, <1>3 DEF Evolution, OneChanges
    <2>2. /\ sess[v] \in Session /\ sess'[v] \in Session /\ Evolves(sess[v], sess'[v])
          /\ sess[v].stage = Stage(sess[v])
          /\ sess'[v].exited = sess[v].exited
        BY <1>1, <1>3 DEF Evolution, TypeOK, StageAgrees
    <2>3. sess'[v].stage = Stage(sess'[v])
        BY <1>3 DEF StageAgrees, Stage, Visited
    <2> DEFINE st == Rank[sess'[v].stage]
    <2>4. st >= Rank[sess[v].stage] /\ st \in 1..5 /\ Rank[sess[v].stage] \in 1..5
        BY <2>2, <2>3, StageClimbs, RankType DEF Session
    <2>5. v \in DOMAIN Shown /\ Shown[v] = VisitOf(sess[v])
        BY DEF Shown
    <2>6. VisitOf(sess'[v]) = [VisitOf(sess[v]) EXCEPT !.stage = st]
          /\ VisitOf(sess[v]).stage = Rank[sess[v].stage]
        BY <2>2 DEF VisitOf
    <2>7. Shown' = [Shown EXCEPT ![v].stage = st]
        BY <2>1, <2>5, <2>6, OneShown
    <2> HIDE DEF st
    <2>8. CASE st = Rank[sess[v].stage]
        <3>1. [VisitOf(sess[v]) EXCEPT !.stage = st] = VisitOf(sess[v])
            BY <2>8 DEF VisitOf
        <3> QED
            BY <2>5, <2>6, <2>7, <3>1 DEF Shown
    <2>9. CASE st > Rank[sess[v].stage]
        <3>1. Len(Stages) = 5
            BY DEF Stages
        <3> QED
            BY <2>4, <2>5, <2>6, <2>7, <2>9, <3>1 DEF V!Progress, Shown
    <2> QED
        BY <2>4, <2>8, <2>9
<1> QED
    BY <1>2, <1>3

LEMMA VisitStep ==
    ASSUME TypeOK, FiledOnce, StageAgrees, [Next]_vars, TypeOK', StageAgrees'
    PROVE  [V!Next]_Shown
<1>1. ASSUME NEW env \in WellFormed, Apply(env) PROVE [V!Next]_Shown
    <2>1. CASE Reopened(env)
        BY <2>1, ReopenedIsReturn DEF V!Next, Shown
    <2>2. CASE Exited(env)
        BY <2>2, ExitedIsLeave DEF V!Next, Shown
    <2>3. CASE Opened(env)
        BY <2>3, OpenedIsArrive DEF V!Next
    <2>4. CASE ~ Reopened(env) /\ ~ Exited(env) /\ ~ Opened(env)
        <3>1. open' = open /\ closed' = closed
            BY <1>1, <2>4
               DEF Apply, ZoneEntered, ZoneDwell, StaffObserved, CheckoutObserved,
                   ReceiptJoined, ReceiptBuffered, Ignored, memory
        <3>2. DOMAIN sess' = DOMAIN sess
            BY <1>1, <2>4
               DEF Apply, ZoneEntered, ZoneDwell, StaffObserved, CheckoutObserved,
                   ReceiptJoined, ReceiptBuffered, Ignored, memory, Update
        <3> QED
            BY <1>1, <3>1, <3>2, EvidenceIsProgress DEF V!Next, Shown
    <2> QED
        BY <2>1, <2>2, <2>3, <2>4
<1>2. CASE UNCHANGED vars
    BY <1>2, Stuttering DEF Shown
<1> QED
    BY <1>1, <1>2, NextApplies

\* Whatever arrives in whatever order, one visit changes at a time, its stage
\* only rises, and leaving or coming back keeps it (session.py:52-66, 114-222).
THEOREM VisitsImplemented == Spec => ImplementsVisits
<1>1. Init => V!Init
    BY DEF Init, V!Init
<1>2. TypeOK /\ FiledOnce /\ StageAgrees /\ [Next]_vars /\ TypeOK' /\ StageAgrees'
        => [V!Next]_Shown
    BY VisitStep
<1> QED
    BY <1>1, <1>2, Typing, OneEntryPerShopper, StageCorrect, PTL
       DEF Spec, ImplementsVisits, V!Spec, Shown
=============================================================================
