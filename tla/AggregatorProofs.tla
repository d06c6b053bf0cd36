-------------------------- MODULE AggregatorProofs --------------------------
(***************************************************************************)
(* What the group considers done and what the tables hold, for any         *)
(* producers, batch size and number of failed calls and crashes.           *)
(***************************************************************************)
EXTENDS Aggregator, SessionStoreProofs

-----------------------------------------------------------------------------
(* The group. *)

\* The loop carries ids the group delivered, and what it is about to
\* acknowledge is behind it: a crash forgets the batch and the hand, but the
\* group's list keeps them.
AckedInv ==
    /\ stream \in Seq(Envelope \cup {Malformed})
    /\ delivered \in 0..Len(stream)
    /\ batch \in Seq(1..delivered)
    /\ ctrl \in Busy => current \in 1..delivered /\ stream[current] \in applied \cup {Malformed}
    /\ AckedWasApplied

\* Every step but these leaves the stream and the group alone.
Elsewhere ==
    /\ UNCHANGED <<stream, delivered, pel>>
    /\ applied \subseteq applied'

LEMMA PublishKeepsAcked ==
    ASSUME AckedInv, Publish
    PROVE  AckedInv'
<1>1. PICK entry \in Envelope \cup {Malformed} : stream' = Append(stream, entry)
    BY AggregatorAssumption DEF Publish
<1>2. UNCHANGED <<delivered, pel, batch, ctrl, current, applied>>
    BY DEF Publish, vars, loop
<1>3. /\ stream' \in Seq(Envelope \cup {Malformed})
      /\ Len(stream') = Len(stream) + 1
      /\ \A n \in 1..Len(stream) : stream'[n] = stream[n]
    BY <1>1 DEF AckedInv
<1>4. delivered \in 0..Len(stream) /\ Len(stream) \in Nat
    BY DEF AckedInv
<1>5. \A n \in 1..delivered : stream'[n] = stream[n]
    BY <1>3, <1>4
<1>6. delivered' \in 0..Len(stream')
    BY <1>2, <1>3, <1>4
<1>7. AckedWasApplied'
    BY <1>2, <1>5 DEF AckedInv, AckedWasApplied
<1> QED
    BY <1>2, <1>3, <1>5, <1>6, <1>7 DEF AckedInv

LEMMA FetchKeepsAcked ==
    ASSUME AckedInv, Fetch
    PROVE  AckedInv'
<1>1. UNCHANGED <<stream, current, ctrl, applied>> /\ ctrl = "read"
    BY DEF Fetch, vars
<1>2. PICK n \in {IF delivered + BatchSize < Len(stream)
                  THEN delivered + BatchSize ELSE Len(stream)} :
         /\ batch' = [i \in 1..(n - delivered) |-> delivered + i]
         /\ pel' = pel \cup ((delivered + 1)..n)
         /\ delivered' = n
    BY DEF Fetch
<1>3. delivered \in Nat /\ Len(stream) \in Nat /\ delivered < Len(stream)
    BY DEF AckedInv, Fetch
<1>4. n \in Nat /\ delivered < n /\ n <= Len(stream)
    BY <1>2, <1>3, AggregatorAssumption
<1>5. batch' \in Seq(1..n)
    <2>1. batch' \in [1..(n - delivered) -> 1..n]
        BY <1>2, <1>3, <1>4
    <2>2. n - delivered \in Nat
        BY <1>3, <1>4
    <2> QED
        BY <2>1, <2>2, SeqDef
<1>6. (1..n) \ pel' \subseteq (1..delivered) \ pel
    BY <1>2, <1>3, <1>4
<1>7. AckedWasApplied'
    BY <1>1, <1>2, <1>6 DEF AckedInv, AckedWasApplied
<1>8. ctrl' \notin Busy
    BY <1>1 DEF Busy
<1> QED
    BY <1>1, <1>2, <1>4, <1>5, <1>7, <1>8 DEF AckedInv

\* The next entry is in the loop's hands.
LEMMA TakenKeepsAcked ==
    ASSUME AckedInv, Elsewhere, batch # <<>>,
           stream[Head(batch)] \in applied' \cup {Malformed},
           current' = Head(batch), batch' = Tail(batch)
    PROVE  AckedInv'
<1>1. Head(batch) \in 1..delivered /\ Tail(batch) \in Seq(1..delivered)
    BY DEF AckedInv
<1>2. AckedWasApplied'
    BY DEF AckedInv, AckedWasApplied, Elsewhere
<1> QED
    BY <1>1, <1>2 DEF AckedInv, Elsewhere

\* It stays there until the loop reads on or dies.
LEMMA HeldKeepsAcked ==
    ASSUME AckedInv, Elsewhere, UNCHANGED current, batch' \in {batch, <<>>},
           ctrl' \in Busy => ctrl \in Busy
    PROVE  AckedInv'
<1>1. AckedWasApplied'
    BY DEF AckedInv, AckedWasApplied, Elsewhere
<1>2. batch' \in Seq(1..delivered)
    <2>1. batch \in Seq(1..delivered)
        BY DEF AckedInv
    <2>2. <<>> \in Seq(1..delivered)
        BY EmptySeq
    <2> QED
        BY <2>1, <2>2
<1>3. ctrl' \in Busy =>
        current \in 1..delivered /\ stream[current] \in applied' \cup {Malformed}
    BY DEF AckedInv, Elsewhere
<1> QED
    BY <1>1, <1>2, <1>3 DEF AckedInv, Elsewhere

LEMMA AckKeepsAcked ==
    ASSUME AckedInv, Ack
    PROVE  AckedInv'
<1>1. /\ ctrl = "ack" /\ ctrl' = "read" /\ pel' = pel \ {current}
      /\ UNCHANGED <<stream, delivered, batch, current, applied>>
    BY DEF Ack, vars
<1>2. stream[current] \in applied \cup {Malformed}
    BY <1>1 DEF AckedInv, Busy
<1>3. AckedWasApplied'
    BY <1>1, <1>2 DEF AckedInv, AckedWasApplied
<1> QED
    BY <1>1, <1>3 DEF AckedInv, Busy

LEMMA AckedStep == AckedInv /\ [AggNext]_aggVars => AckedInv'
<1> SUFFICES ASSUME AckedInv, [AggNext]_aggVars PROVE AckedInv'
    OBVIOUS
<1>1. CASE Publish
    BY <1>1, PublishKeepsAcked
<1>2. CASE Fetch
    BY <1>2, FetchKeepsAcked
<1>3. CASE Take
    <2>1. applied' = applied \cup {stream[Head(batch)]}
        BY <1>3, DeliveredOnce DEF Take
    <2>2. Elsewhere
        BY <1>3, <2>1 DEF Take, Elsewhere, bus
    <2> QED
        BY <1>3, <2>1, <2>2, TakenKeepsAcked DEF Take
<1>4. CASE DropMalformed
    <2>1. Elsewhere
        BY <1>4 DEF DropMalformed, Elsewhere, bus, vars
    <2> QED
        BY <1>4, <2>1, TakenKeepsAcked DEF DropMalformed
<1>5. CASE PersistRaw \/ PersistRawFails
    <2>1. Elsewhere /\ UNCHANGED <<batch, current>> /\ ctrl = "raw"
        BY <1>5 DEF PersistRaw, PersistRawFails, Elsewhere, bus, vars
    <2> QED
        BY <2>1, HeldKeepsAcked DEF Busy
<1>6. CASE PersistSession \/ PersistSessionFails
    <2>1. Elsewhere /\ UNCHANGED <<batch, current>> /\ ctrl = "session"
        BY <1>6 DEF PersistSession, PersistSessionFails, Elsewhere, bus, vars
    <2> QED
        BY <2>1, HeldKeepsAcked DEF Busy
<1>7. ASSUME NEW z \in Zone, PersistVisit(z) \/ PersistVisitFails(z)
      PROVE  AckedInv'
    <2>1. Elsewhere /\ UNCHANGED <<batch, current>> /\ ctrl = "zones"
        BY <1>7 DEF PersistVisit, PersistVisitFails, Elsewhere, bus, vars
    <2> QED
        BY <2>1, HeldKeepsAcked DEF Busy
<1>8. CASE Ack
    BY <1>8, AckKeepsAcked
<1>9. CASE BusFails \/ Restart \/ UNCHANGED aggVars
    <2>1. /\ Elsewhere /\ UNCHANGED <<batch, current>>
          /\ ctrl' \in {"dead", "read"} \/ ctrl' = ctrl
        BY <1>9 DEF BusFails, Restart, Elsewhere, aggVars, bus, loop, vars
    <2> QED
        BY <2>1, HeldKeepsAcked DEF Busy
<1>10. CASE Crash
    <2>1. Elsewhere /\ batch' = <<>> /\ UNCHANGED current /\ ctrl' = "down"
        BY <1>10 DEF Crash, Elsewhere
    <2> QED
        BY <2>1, HeldKeepsAcked DEF Busy
<1> QED
    BY <1>1, <1>2, <1>3, <1>4, <1>5, <1>6, <1>7, <1>8, <1>9, <1>10
       DEF AggNext, Consumer

\* Nothing is acknowledged unseen, whatever fails and however often the process
\* is killed: an entry the group considers done was applied, or could not be
\* parsed (__main__.py:49-54, bus.py:76-87).
THEOREM AckedOnlyApplied == AggSpec => []AckedWasApplied
<1>1. AggInit => AckedInv
    BY DEF AggInit, AckedInv, AckedWasApplied, Busy
<1>2. AckedInv /\ [AggNext]_aggVars => AckedInv'
    BY AckedStep
<1>3. AckedInv => AckedWasApplied
    BY DEF AckedInv
<1> QED
    BY <1>1, <1>2, <1>3, PTL DEF AggSpec

-----------------------------------------------------------------------------
(* The store inside the process. *)

\* The store's own types, stages and deltas survive the process.
StoreInv ==
    /\ TypeOK /\ StageAgrees
    /\ delta.action # "noop" => delta.session \in DOMAIN sess

\* A delta that is not a noop names a session.
LEMMA NamedDelta ==
    ASSUME TypeOK, TypeOK', NEW env \in WellFormed, Apply(env)
    PROVE  delta'.action # "noop" => delta'.session \in DOMAIN sess'
<1>1. ASSUME NEW sid \in DOMAIN sess, NEW s, NEW matched, Update(sid, s, matched)
      PROVE  delta'.session \in DOMAIN sess'
    BY <1>1 DEF Update, Delta
<1>2. CASE Reopened(env)
    BY <1>1, <1>2, FiledType DEF Reopened
<1>3. CASE Opened(env)
    BY <1>3 DEF Opened, Delta, TypeOK
<1>4. CASE Exited(env)
    <2>1. PICK i \in Filed(open, Key(env)) :
             /\ sess' = [sess EXCEPT ![open[i]] =
                            Restaged([sess[open[i]] EXCEPT !.exited = env.ts])]
             /\ delta' = Delta("closed", open[i], FALSE)
        BY <1>4 DEF Exited
    <2>2. open[i] \in DOMAIN sess
        BY FiledType
    <2> QED
        BY <2>1, <2>2 DEF Delta
<1>5. CASE ZoneEntered(env) \/ ZoneDwell(env) \/ StaffObserved(env)
    <2>1. \A sid \in Lookup(env) : sid \in DOMAIN sess
        BY FiledType
    <2> QED
        BY <1>1, <1>5, <2>1 DEF ZoneEntered, ZoneDwell, StaffObserved
<1>6. CASE CheckoutObserved(env)
    <2>1. \A sid \in Lookup(env) : sid \in DOMAIN sess
        BY FiledType
    <2>2. \E sid \in Lookup(env) : \E s, matched : Update(sid, s, matched)
        BY <1>6 DEF CheckoutObserved
    <2> QED
        BY <1>1, <2>1, <2>2
<1>7. CASE ReceiptJoined(env)
    <2>1. PICK i \in LastClosest([k \in Joinable(env) |-> Gap(env, sess[Known[k]])]) :
             Update(Known[i], Restaged([sess[Known[i]] EXCEPT !.receipt = env]), TRUE)
        BY <1>7 DEF ReceiptJoined
    <2>2. i \in DOMAIN Known
        BY DEF LastClosest, Joinable
    <2>3. Known[i] \in DOMAIN sess
        BY <2>2, FiledType
    <2> QED
        BY <1>1, <2>1, <2>3
<1>8. CASE ReceiptBuffered(env) \/ Ignored(env)
    BY <1>8 DEF ReceiptBuffered, Ignored, Noop, Delta
<1> QED
    BY <1>2, <1>3, <1>4, <1>5, <1>6, <1>7, <1>8 DEF Apply

\* Only the loop body and a crash touch the store.
LEMMA StoreMoves == [AggNext]_aggVars => Take \/ Crash \/ UNCHANGED vars
BY DEF AggNext, aggVars, Publish, Consumer, Fetch, DropMalformed, PersistRaw, PersistRawFails,
       PersistSession, PersistSessionFails, PersistVisit, PersistVisitFails, Ack, BusFails,
       Restart

LEMMA TakeApplies ==
    ASSUME AckedInv, Take
    PROVE  \E env \in Envelope \cap WellFormed : Apply(env)
<1>1. Head(batch) \in 1..delivered /\ delivered <= Len(stream) /\ Len(stream) \in Nat
    BY DEF AckedInv, Take
<1>2. Head(batch) \in 1..Len(stream)
    BY <1>1 DEF AckedInv
<1>3. stream[Head(batch)] \in Envelope \cup {Malformed}
    BY <1>2 DEF AckedInv
<1> QED
    BY <1>3, EnvelopeAssumption DEF Take

LEMMA StoreStep ==
    ASSUME AckedInv, StoreInv, [AggNext]_aggVars
    PROVE  StoreInv'
<1>1. CASE Take
    <2>1. PICK env \in WellFormed : Apply(env)
        BY <1>1, TakeApplies
    <2>2. TypeOK' /\ Evolution(env)
        BY <2>1, TypeOKStep, EvolutionStep DEF StoreInv
    <2>3. StageAgrees'
        BY <2>2, StageStep DEF StoreInv
    <2> QED
        BY <2>1, <2>2, <2>3, NamedDelta DEF StoreInv
<1>2. CASE Crash
    <2>1. /\ UNCHANGED <<sess, applied>> /\ delta' = Noop
          /\ open' = <<>> /\ closed' = <<>> /\ pending' = <<>>
        BY <1>2 DEF Crash
    <2>2. TypeOK'
        BY <2>1, TunableAssumption DEF StoreInv, TypeOK, Noop, Delta
    <2>3. StageAgrees'
        BY <2>1 DEF StoreInv, StageAgrees
    <2> QED
        BY <2>1, <2>2, <2>3 DEF StoreInv, Noop, Delta
<1>3. CASE UNCHANGED vars
    <2>1. UNCHANGED <<sess, open, closed, pending, delta, applied>> /\ TypeOK'
        BY <1>3, Stuttering DEF StoreInv
    <2> QED
        BY <2>1 DEF StoreInv, StageAgrees
<1> QED
    BY <1>1, <1>2, <1>3, StoreMoves

\* The loop and the store in it.
ProcessInv == AckedInv /\ StoreInv

LEMMA ProcessStep == ProcessInv /\ [AggNext]_aggVars => ProcessInv'
BY AckedStep, StoreStep DEF ProcessInv

LEMMA ProcessInit == AggInit => ProcessInv
<1>1. AggInit => AckedInv
    BY DEF AggInit, AckedInv, AckedWasApplied, Busy
<1>2. AggInit => StoreInv
    BY TypeOKInit DEF AggInit, Init, StoreInv, StageAgrees, Noop, Delta
<1> QED
    BY <1>1, <1>2 DEF ProcessInv

-----------------------------------------------------------------------------
(* Rows. *)

\* A row is a session's, as it was at some time: it began then, too, and its
\* stage has not been passed downwards.
RowsInv ==
    \A v \in DOMAIN rows :
        /\ v \in DOMAIN sess /\ rows[v].entered = sess[v].entered
        /\ rows[v].stage \in FunnelStage /\ Rank[rows[v].stage] <= Rank[sess[v].stage]

\* What a written row is.
LEMMA UpsertedSession ==
    ASSUME StoreInv, RowsInv, NEW v \in DOMAIN sess
    PROVE  /\ DOMAIN UpsertSession(rows, v, sess[v]) = DOMAIN rows \cup {v}
           /\ UpsertSession(rows, v, sess[v])[v] = SessionRow(sess[v])
           /\ \A w \in DOMAIN rows \ {v} : UpsertSession(rows, v, sess[v])[w] = rows[w]
<1>1. ASSUME v \in DOMAIN rows
      PROVE  [SessionRow(sess[v]) EXCEPT !.entered = rows[v].entered] = SessionRow(sess[v])
    BY <1>1 DEF RowsInv, SessionRow
<1> QED
    BY <1>1 DEF UpsertSession, With

\* Between two steps of the store its sessions only climb.
LEMMA SessionsClimb ==
    ASSUME AckedInv, StoreInv, StoreInv', [AggNext]_aggVars, NEW v \in DOMAIN sess
    PROVE  /\ v \in DOMAIN sess' /\ sess'[v].entered = sess[v].entered
           /\ Rank[sess'[v].stage] >= Rank[sess[v].stage]
           /\ Rank[sess[v].stage] \in 1..5
<1>1. sess[v] \in Session /\ sess[v].stage = Stage(sess[v])
    BY DEF StoreInv, TypeOK, StageAgrees
<1>2. Rank[sess[v].stage] \in 1..5
    BY <1>1, RankType DEF Session
<1>3. CASE Take
    <2>1. PICK env \in WellFormed : Apply(env)
        BY <1>3, TakeApplies
    <2>2. v \in DOMAIN sess' /\ Evolves(sess[v], sess'[v])
        BY <2>1, EvolutionStep DEF StoreInv, Evolution
    <2>3. sess'[v] \in Session
        BY <2>2 DEF StoreInv, TypeOK
    <2>4. sess'[v].stage = Stage(sess'[v])
        BY <2>2 DEF StoreInv, StageAgrees, Stage, Visited
    <2> QED
        BY <1>1, <1>2, <2>2, <2>3, <2>4, StageClimbs DEF Evolves
<1>4. CASE UNCHANGED sess
    BY <1>2, <1>4
<1> QED
    BY <1>3, <1>4, StoreMoves DEF Crash, vars, memory

\* Only PersistSession writes rows.
LEMMA RowsMove == [AggNext]_aggVars => PersistSession \/ UNCHANGED rows
BY DEF AggNext, aggVars, db, Publish, Consumer, Fetch, DropMalformed, Take, PersistRaw,
       PersistRawFails, PersistSessionFails, PersistVisit, PersistVisitFails, Ack, BusFails,
       Restart, Crash

\* persist_delta is about a session.
HandInv == ctrl \in {"session", "zones"} => delta.action # "noop"

LEMMA HandStep == HandInv /\ [AggNext]_aggVars => HandInv'
<1> SUFFICES ASSUME HandInv, [AggNext]_aggVars PROVE HandInv'
    OBVIOUS
<1>1. CASE PersistRaw \/ PersistRawFails
    BY <1>1 DEF PersistRaw, PersistRawFails, AfterRaw, HandInv, vars
<1>2. ASSUME NEW z, PersistVisit(z) \/ PersistVisitFails(z) PROVE HandInv'
    BY <1>2 DEF PersistVisit, PersistVisitFails, NextZone, HandInv, vars
<1>3. CASE PersistSession \/ UNCHANGED aggVars
    BY <1>3 DEF PersistSession, HandInv, aggVars, vars, loop
<1>4. CASE \/ Publish \/ Fetch \/ DropMalformed \/ Take \/ PersistSessionFails
           \/ Ack \/ BusFails \/ Crash \/ Restart
    BY <1>4 DEF Publish, Fetch, DropMalformed, Take, PersistSessionFails, Ack, BusFails,
                Crash, Restart, HandInv, vars, loop
<1> QED
    BY <1>1, <1>2, <1>3, <1>4 DEF AggNext, Consumer

\* What one step does to the rows.
RowsRise ==
    \A v \in DOMAIN rows :
        v \in DOMAIN rows' /\ Rank[rows'[v].stage] >= Rank[rows[v].stage]

LEMMA RowsStep ==
    ASSUME ProcessInv, ProcessInv', HandInv, RowsInv, [AggNext]_aggVars
    PROVE  RowsInv' /\ RowsRise
<1> USE DEF ProcessInv
<1>1. \A v \in DOMAIN sess :
        /\ v \in DOMAIN sess' /\ sess'[v].entered = sess[v].entered
        /\ Rank[sess'[v].stage] >= Rank[sess[v].stage] /\ Rank[sess[v].stage] \in 1..5
    BY SessionsClimb
<1>2. \A v \in DOMAIN sess : /\ sess[v].stage \in FunnelStage
                             /\ sess'[v].stage \in FunnelStage
                             /\ Rank[sess'[v].stage] \in 1..5
    <2>1. ASSUME NEW v \in DOMAIN sess PROVE sess[v] \in Session /\ sess'[v] \in Session
        BY <1>1 DEF StoreInv, TypeOK
    <2> QED
        BY <2>1, RankType DEF Session
<1>3. \A v \in DOMAIN rows : Rank[rows[v].stage] \in 1..5
    BY RankType DEF RowsInv
<1>4. CASE UNCHANGED rows
    BY <1>1, <1>2, <1>3, <1>4 DEF RowsInv, RowsRise
<1>5. CASE PersistSession
    <2> DEFINE d == delta.session
    <2>1. d \in DOMAIN sess /\ rows' = UpsertSession(rows, d, sess[d]) /\ sess' = sess
        BY <1>5 DEF PersistSession, HandInv, StoreInv, vars, memory
    <2>2. /\ DOMAIN rows' = DOMAIN rows \cup {d} /\ rows'[d] = SessionRow(sess[d])
          /\ \A w \in DOMAIN rows \ {d} : rows'[w] = rows[w]
        BY <2>1, UpsertedSession
    <2> HIDE DEF d
    <2>3. rows'[d].stage = sess[d].stage /\ rows'[d].entered = sess[d].entered
        BY <2>2 DEF SessionRow
    <2> QED
        BY <1>1, <1>2, <1>3, <2>1, <2>2, <2>3 DEF RowsInv, RowsRise
<1> QED
    BY <1>4, <1>5, RowsMove

\* The rows of the process, whatever was written and whatever was not.
LEMMA RowsOfProcess == AggSpec => [](ProcessInv /\ HandInv /\ RowsInv)
<1>1. AggInit => ProcessInv /\ HandInv /\ RowsInv
    BY ProcessInit DEF AggInit, HandInv, RowsInv
<1>2. ProcessInv /\ HandInv /\ RowsInv /\ [AggNext]_aggVars => (ProcessInv /\ HandInv /\ RowsInv)'
    BY ProcessStep, HandStep, RowsStep
<1> QED
    BY <1>1, <1>2, PTL DEF AggSpec

\* What the dashboard counts never goes backwards: a session's row keeps its
\* stage or climbs, through failed writes, crashes and restarts
\* (db.py:67-116, session.py:52-66).
THEOREM RowsOnlyClimb == AggSpec => RowsClimb
<1>1. ProcessInv /\ HandInv /\ RowsInv /\ ProcessInv' /\ [AggNext]_aggVars => [RowsRise]_aggVars
    BY RowsStep
<1> QED
    BY <1>1, RowsOfProcess, PTL DEF AggSpec, RowsClimb, RowsRise

-----------------------------------------------------------------------------
(* Tables. *)

RowCurrent(v) == v \in DOMAIN rows /\ rows[v] = SessionRow(sess[v])

VisitCurrent(v, z) ==
    <<v, z>> \in DOMAIN visitRows /\ visitRows[<<v, z>>] = sess[v].zones[z]

Current(v) == RowCurrent(v) /\ \A z \in Visited(sess[v]) : VisitCurrent(v, z)

\* A zone row is of a visit that began when it says.
VisitsInv ==
    /\ DOMAIN visitRows \subseteq (DOMAIN sess) \X Zone
    /\ \A v \in DOMAIN sess : \A z \in Zone : <<v, z>> \in DOMAIN visitRows =>
         sess[v].zones[z] # None /\ visitRows[<<v, z>>].first = sess[v].zones[z].first

\* A delta the loop is writing.
InHand == ctrl \in {"raw", "session", "zones"} /\ delta.action # "noop"

\* How far it has come with the zones.
WrittenUpTo ==
    ctrl = "zones" =>
        /\ zonesLeft \subseteq Visited(sess[delta.session])
        /\ delta.session \notin missed =>
             /\ RowCurrent(delta.session)
             /\ \A z \in Visited(sess[delta.session]) \ zonesLeft :
                  VisitCurrent(delta.session, z)

\* TablesCurrent at every point of the loop.
TablesInv ==
    /\ VisitsInv /\ WrittenUpTo
    /\ \A v \in DOMAIN sess \ missed : Current(v) \/ (InHand /\ v = delta.session)

\* Steps that neither change the store nor write.
LEMMA TablesStay ==
    ASSUME TablesInv, UNCHANGED <<sess, delta, rows, visitRows, missed, zonesLeft>>,
           InHand => InHand', ctrl' = "zones" => ctrl = "zones"
    PROVE  TablesInv'
<1>1. VisitsInv'
    BY DEF TablesInv, VisitsInv
<1>2. WrittenUpTo'
    BY DEF TablesInv, WrittenUpTo, RowCurrent, VisitCurrent, Visited, SessionRow
<1>3. \A v : Current(v)' <=> Current(v)
    BY DEF Current, RowCurrent, VisitCurrent, Visited, SessionRow
<1> QED
    BY <1>1, <1>2, <1>3 DEF TablesInv

\* The store moves on: the session that changed is in hand.
LEMMA TablesTaken ==
    ASSUME ProcessInv, TablesInv, Take
    PROVE  TablesInv'
<1> USE DEF ProcessInv
<1>1. PICK env \in WellFormed : Apply(env)
    BY TakeApplies
<1>2. Evolution(env)
    BY <1>1, EvolutionStep DEF StoreInv
<1>3. /\ ctrl = "read" /\ ctrl' = "raw"
      /\ UNCHANGED <<rows, visitRows, missed, zonesLeft>>
    BY DEF Take, db
<1>4. VisitsInv'
    <2>1. DOMAIN sess \subseteq DOMAIN sess'
        BY <1>2 DEF Evolution
    <2>2. ASSUME NEW v \in DOMAIN sess', NEW z \in Zone, <<v, z>> \in DOMAIN visitRows
          PROVE  sess'[v].zones[z] # None /\ visitRows[<<v, z>>].first = sess'[v].zones[z].first
        <3>1. v \in DOMAIN sess
            BY <2>2 DEF TablesInv, VisitsInv
        <3>2. sess[v].zones[z] # None /\ visitRows[<<v, z>>].first = sess[v].zones[z].first
            BY <2>2, <3>1 DEF TablesInv, VisitsInv
        <3>3. Evolves(sess[v], sess'[v])
            BY <1>2, <3>1 DEF Evolution
        <3> QED
            BY <3>2, <3>3 DEF Evolves, Lengthens
    <2> QED
        BY <1>3, <2>1, <2>2 DEF TablesInv, VisitsInv
<1>5. WrittenUpTo'
    BY <1>3 DEF WrittenUpTo
<1>6. ASSUME NEW v \in DOMAIN sess' \ missed
      PROVE  Current(v)' \/ (InHand' /\ v = delta'.session)
    <2>1. CASE v \in DOMAIN sess /\ sess'[v] = sess[v]
        <3>1. Current(v)
            BY <1>3, <1>6, <2>1 DEF TablesInv, InHand
        <3> QED
            BY <1>3, <2>1, <3>1 DEF Current, RowCurrent, VisitCurrent, Visited, SessionRow
    <2>2. CASE ~ (v \in DOMAIN sess /\ sess'[v] = sess[v])
        BY <1>2, <1>3, <2>2 DEF Evolution, InHand
    <2> QED
        BY <2>1, <2>2
<1> QED
    BY <1>3, <1>4, <1>5, <1>6 DEF TablesInv

\* A write that fails, or a crash before all is written, marks the session.
LEMMA TablesMissed ==
    ASSUME TablesInv, UNCHANGED <<sess, rows, visitRows>>,
           missed \subseteq missed', InHand => delta.session \in missed',
           /\ ctrl' = "zones"
           => delta' = delta /\ delta.session \in missed' /\ ctrl = "zones"
              /\ zonesLeft' \subseteq zonesLeft
    PROVE  TablesInv'
<1>1. VisitsInv'
    BY DEF TablesInv, VisitsInv
<1>2. WrittenUpTo'
    BY DEF TablesInv, WrittenUpTo, Visited
<1>3. \A v : Current(v)' <=> Current(v)
    BY DEF Current, RowCurrent, VisitCurrent, Visited, SessionRow
<1> QED
    BY <1>1, <1>2, <1>3 DEF TablesInv

LEMMA TablesPersisted ==
    ASSUME ProcessInv, HandInv, RowsInv, TablesInv, PersistSession
    PROVE  TablesInv'
<1> USE DEF ProcessInv
<1> DEFINE d == delta.session
<1>1. /\ ctrl = "session" /\ d \in DOMAIN sess
      /\ rows' = UpsertSession(rows, d, sess[d]) /\ missed' = missed \ {d}
      /\ zonesLeft' = Visited(sess[d])
      /\ ctrl' = IF zonesLeft' = {} THEN "ack" ELSE "zones"
      /\ UNCHANGED <<sess, delta, visitRows>>
    BY DEF PersistSession, HandInv, StoreInv, vars, memory
<1>2. /\ DOMAIN rows' = DOMAIN rows \cup {d} /\ rows'[d] = SessionRow(sess[d])
      /\ \A w \in DOMAIN rows \ {d} : rows'[w] = rows[w]
    BY <1>1, UpsertedSession
<1>3. InHand /\ d' = d
    BY <1>1 DEF InHand, HandInv
<1> HIDE DEF d
<1>4. VisitsInv'
    BY <1>1 DEF TablesInv, VisitsInv
<1>5. RowCurrent(d)'
    BY <1>1, <1>2, <1>3 DEF RowCurrent, SessionRow
<1>6. WrittenUpTo'
    BY <1>1, <1>3, <1>5 DEF WrittenUpTo, Visited, d
<1>7. ASSUME NEW v \in DOMAIN sess \ missed', v # d PROVE Current(v)'
    <2>1. Current(v)
        BY <1>1, <1>7 DEF TablesInv, InHand, d
    <2> QED
        BY <1>1, <1>2, <1>7, <2>1 DEF Current, RowCurrent, VisitCurrent, Visited, SessionRow
<1>8. ASSUME NEW v, v = d PROVE Current(v)' \/ (InHand' /\ v = delta'.session)
    <2>1. RowCurrent(v)'
        BY <1>3, <1>5, <1>8 DEF RowCurrent
    <2>2. CASE zonesLeft' = {}
        <3>1. Visited(sess'[v]) = {}
            BY <1>1, <1>8, <2>2 DEF Visited
        <3> QED
            BY <2>1, <3>1 DEF Current
    <2>3. CASE zonesLeft' # {}
        BY <1>1, <1>3, <1>8, <2>3 DEF InHand, d
    <2> QED
        BY <2>2, <2>3
<1>9. \A v \in DOMAIN sess' \ missed' : Current(v)' \/ (InHand' /\ v = delta'.session)
    BY <1>1, <1>7, <1>8
<1> QED
    BY <1>4, <1>6, <1>9 DEF TablesInv

\* What a written zone row is.
LEMMA UpsertedVisit ==
    ASSUME StoreInv, VisitsInv, NEW v \in DOMAIN sess, NEW z \in Visited(sess[v])
    PROVE  LET table == UpsertVisit(visitRows, v, z, sess[v].zones[z])
           IN  /\ DOMAIN table = DOMAIN visitRows \cup {<<v, z>>}
               /\ table[<<v, z>>] = sess[v].zones[z]
               /\ \A key \in DOMAIN visitRows \ {<<v, z>>} : table[key] = visitRows[key]
<1>1. z \in Zone /\ sess[v].zones[z] # None
    BY DEF Visited
<1>2. sess[v].zones[z] \in Visit
    <2>1. sess[v] \in Session
        BY DEF StoreInv, TypeOK
    <2> QED
        BY <1>1, <2>1 DEF Session
<1>3. ASSUME <<v, z>> \in DOMAIN visitRows
      PROVE  [sess[v].zones[z] EXCEPT !.first = visitRows[<<v, z>>].first] = sess[v].zones[z]
    BY <1>1, <1>2, <1>3 DEF VisitsInv, Visit
<1> QED
    BY <1>3 DEF UpsertVisit, With

LEMMA TablesVisited ==
    ASSUME ProcessInv, HandInv, TablesInv, NEW z \in Zone, PersistVisit(z)
    PROVE  TablesInv'
<1> USE DEF ProcessInv
<1> DEFINE d == delta.session
<1>1. /\ ctrl = "zones" /\ z \in zonesLeft /\ d \in DOMAIN sess
      /\ visitRows' = UpsertVisit(visitRows, d, z, sess[d].zones[z])
      /\ zonesLeft' = zonesLeft \ {z}
      /\ ctrl' = IF zonesLeft' = {} THEN "ack" ELSE "zones"
      /\ UNCHANGED <<sess, delta, rows, missed>>
    BY DEF PersistVisit, NextZone, HandInv, StoreInv, vars, memory
<1>2. zonesLeft \subseteq Visited(sess[d]) /\ z \in Visited(sess[d])
    BY <1>1 DEF TablesInv, WrittenUpTo
<1>3. /\ DOMAIN visitRows' = DOMAIN visitRows \cup {<<d, z>>}
      /\ visitRows'[<<d, z>>] = sess[d].zones[z]
      /\ \A key \in DOMAIN visitRows \ {<<d, z>>} : visitRows'[key] = visitRows[key]
    BY <1>1, <1>2, UpsertedVisit DEF TablesInv
<1>4. d' = d /\ InHand
    BY <1>1 DEF InHand, HandInv
<1> HIDE DEF d
<1>5. VisitsInv'
    <2>1. DOMAIN visitRows' \subseteq (DOMAIN sess') \X Zone
        BY <1>1, <1>3 DEF TablesInv, VisitsInv
    <2>2. ASSUME NEW v \in DOMAIN sess, NEW y \in Zone, <<v, y>> \in DOMAIN visitRows'
          PROVE  sess[v].zones[y] # None /\ visitRows'[<<v, y>>].first = sess[v].zones[y].first
        <3>1. CASE v = d /\ y = z
            BY <1>2, <1>3, <3>1 DEF Visited
        <3>2. CASE ~ (v = d /\ y = z)
            BY <1>3, <2>2, <3>2 DEF TablesInv, VisitsInv
        <3> QED
            BY <3>1, <3>2
    <2> QED
        BY <1>1, <2>1, <2>2 DEF VisitsInv
<1>6. ASSUME NEW v, NEW y, VisitCurrent(v, y) \/ (v = d /\ y = z)
      PROVE  VisitCurrent(v, y)'
    <2>1. CASE v = d /\ y = z
        BY <1>1, <1>3, <2>1 DEF VisitCurrent
    <2>2. CASE ~ (v = d /\ y = z)
        BY <1>1, <1>3, <1>6, <2>2 DEF VisitCurrent
    <2> QED
        BY <2>1, <2>2
<1>7. \A v : RowCurrent(v)' <=> RowCurrent(v)
    BY <1>1 DEF RowCurrent, SessionRow
<1>8. ASSUME NEW v, v = d, v \notin missed
      PROVE  /\ RowCurrent(v)'
             /\ \A y \in Visited(sess[v]) \ zonesLeft' : VisitCurrent(v, y)'
    <2>1. /\ RowCurrent(v)
          /\ \A y \in Visited(sess[v]) \ zonesLeft : VisitCurrent(v, y)
        BY <1>1, <1>8 DEF TablesInv, WrittenUpTo, d
    <2> QED
        BY <1>1, <1>6, <1>7, <1>8, <2>1
<1>9. WrittenUpTo'
    <2>1. PICK v : v = d
        OBVIOUS
    <2> QED
        BY <1>1, <1>2, <1>8, <2>1 DEF WrittenUpTo, Visited, d
<1>10. ASSUME NEW v \in DOMAIN sess \ missed
       PROVE  Current(v)' \/ (InHand' /\ v = delta'.session)
    <2>1. CASE v # d
        <3>1. Current(v)
            BY <1>10, <2>1 DEF TablesInv, d
        <3> QED
            BY <1>1, <1>6, <1>7, <3>1 DEF Current, Visited
    <2>2. CASE v = d /\ zonesLeft' = {}
        BY <1>1, <1>8, <1>10, <2>2 DEF Current, Visited
    <2>3. CASE v = d /\ zonesLeft' # {}
        BY <1>1, <1>4, <2>3 DEF InHand, d
    <2> QED
        BY <2>1, <2>2, <2>3
<1> QED
    BY <1>1, <1>5, <1>9, <1>10 DEF TablesInv

LEMMA TablesStep ==
    ASSUME ProcessInv, HandInv, RowsInv, TablesInv, [AggNext]_aggVars
    PROVE  TablesInv'
<1>1. CASE Publish \/ Fetch \/ DropMalformed \/ Ack \/ Restart \/ BusFails \/ UNCHANGED aggVars
    <2>1. UNCHANGED <<sess, delta, rows, visitRows, missed, zonesLeft>>
        BY <1>1 DEF Publish, Fetch, DropMalformed, Ack, Restart, BusFails, aggVars, vars,
                    memory, loop, db
    <2>2. \/ ctrl' = ctrl
          \/ ctrl \in {"read", "ack", "down"} /\ ctrl' \in {"read", "ack", "dead"}
        BY <1>1 DEF Publish, Fetch, DropMalformed, Ack, Restart, BusFails, aggVars, loop
    <2> QED
        BY <2>1, <2>2, TablesStay DEF InHand
<1>2. CASE PersistRaw \/ PersistRawFails
    <2>1. /\ UNCHANGED <<sess, delta, rows, visitRows, missed, zonesLeft>>
          /\ ctrl = "raw" /\ ctrl' = IF delta.action = "noop" THEN "ack" ELSE "session"
        BY <1>2 DEF PersistRaw, PersistRawFails, AfterRaw, vars, memory, db
    <2> QED
        BY <2>1, TablesStay DEF InHand
<1>3. CASE Take
    BY <1>3, TablesTaken
<1>4. CASE PersistSession
    BY <1>4, TablesPersisted
<1>5. CASE PersistSessionFails
    <2>1. /\ UNCHANGED <<sess, delta, rows, visitRows>> /\ ctrl' = "ack"
          /\ missed' = missed \cup {delta.session}
        BY <1>5 DEF PersistSessionFails, vars, memory
    <2> QED
        BY <2>1, TablesMissed
<1>6. ASSUME NEW z \in Zone, PersistVisitFails(z) PROVE TablesInv'
    <2>1. /\ UNCHANGED <<sess, delta, rows, visitRows>> /\ ctrl = "zones"
          /\ missed' = missed \cup {delta.session} /\ zonesLeft' = zonesLeft \ {z}
        BY <1>6 DEF PersistVisitFails, NextZone, vars, memory
    <2> QED
        BY <2>1, TablesMissed
<1>7. ASSUME NEW z \in Zone, PersistVisit(z) PROVE TablesInv'
    BY <1>7, TablesVisited
<1>8. CASE Crash
    <2>1. /\ UNCHANGED <<sess, rows, visitRows>> /\ ctrl' = "down"
          /\ missed' = IF InHand THEN missed \cup {delta.session} ELSE missed
        BY <1>8 DEF Crash, InHand
    <2> QED
        BY <2>1, TablesMissed
<1> QED
    BY <1>1, <1>2, <1>3, <1>4, <1>5, <1>6, <1>7, <1>8 DEF AggNext, Consumer

\* Between two events, the tables hold what the store last knew of every
\* session, but for those whose own last write failed
\* (handlers.py:16-58, db.py:67-136, __main__.py:45-57).
THEOREM TablesFollow == AggSpec => []TablesCurrent
<1>1. AggInit => TablesInv
    BY DEF AggInit, Init, TablesInv, VisitsInv, WrittenUpTo
<1>2. ProcessInv /\ HandInv /\ RowsInv /\ TablesInv /\ [AggNext]_aggVars => TablesInv'
    BY TablesStep
<1>3. TablesInv => TablesCurrent
    BY DEF TablesInv, InHand, Current, RowCurrent, VisitCurrent, TablesCurrent
<1> QED
    BY <1>1, <1>2, <1>3, RowsOfProcess, PTL DEF AggSpec

-----------------------------------------------------------------------------
(* What the store promises holds in a process that crashes, too.           *)

Promises ==
    /\ FiledOnce /\ NoSplitVisit /\ NoMissedJoin /\ JoinSound /\ ReceiptInv

\* A crash empties the two dictionaries and the deque; no promise needs what
\* they held.
LEMMA PromisesStep ==
    ASSUME AckedInv, StoreInv, StoreInv', Promises, [AggNext]_aggVars
    PROVE  Promises'
<1>1. CASE Take
    <2>1. PICK env \in WellFormed : Apply(env)
        BY <1>1, TakeApplies
    <2>2. FiledOnce' /\ NoSplitVisit'
        BY <2>1, FilingStep DEF Promises, StoreInv
    <2>3. NoMissedJoin'
        BY <2>1, NoMissedJoinStep DEF Promises, StoreInv
    <2>4. JoinSound'
        BY <2>1, EvolutionStep, JoinStep DEF Promises, StoreInv
    <2>5. ReceiptInv'
        BY <2>1, ReceiptStep DEF Promises, StoreInv
    <2> QED
        BY <2>2, <2>3, <2>4, <2>5 DEF Promises
<1>2. CASE Crash
    <2>1. /\ UNCHANGED <<sess, applied>>
          /\ open' = <<>> /\ closed' = <<>> /\ pending' = <<>>
        BY <1>2 DEF Crash
    <2>2. FiledOnce' /\ NoSplitVisit' /\ NoMissedJoin'
        BY <2>1 DEF FiledOnce, NoSplitVisit, NoMissedJoin
    <2>3. JoinSound'
        BY <2>1 DEF Promises, JoinSound, Gap
    <2>4. ReceiptInv'
        BY <2>1 DEF Promises, ReceiptInv, ReceiptOnce, ReceiptsApplied, Range
    <2> QED
        BY <2>2, <2>3, <2>4 DEF Promises
<1>3. CASE UNCHANGED vars
    <2>1. UNCHANGED <<sess, open, closed, pending, applied>>
        BY <1>3, Stuttering
    <2>2. FiledOnce' /\ NoSplitVisit'
        BY <2>1 DEF Promises, FiledOnce, NoSplitVisit
    <2>3. NoMissedJoin' /\ JoinSound'
        BY <2>1 DEF Promises, NoMissedJoin, JoinSound, Awaiting, Gap, Range
    <2>4. ReceiptInv'
        BY <2>1 DEF Promises, ReceiptInv, ReceiptOnce, ReceiptsApplied, Range
    <2> QED
        BY <2>2, <2>3, <2>4 DEF Promises
<1> QED
    BY <1>1, <1>2, <1>3, StoreMoves

LEMMA PromisesInit == AggInit => Promises
BY DEF AggInit, Init, Promises, FiledOnce, NoSplitVisit, NoMissedJoin, JoinSound,
       ReceiptInv, ReceiptOnce, ReceiptsApplied, Range

\* Failed queries and calls, crashes and restarts break none of the store's
\* promises: after a restart it forgets, but it never holds a shopper twice, a
\* receipt in two places or without its checkout, or a stage without evidence
\* (session.py:87-256, __main__.py:45-57).
THEOREM StoreSurvives ==
    AggSpec => [](/\ TypeOK /\ StageAgrees
                  /\ FiledOnce /\ NoSplitVisit /\ NoMissedJoin /\ JoinSound /\ ReceiptOnce)
<1>1. AggInit => ProcessInv /\ Promises
    BY ProcessInit, PromisesInit
<1>2. ProcessInv /\ Promises /\ [AggNext]_aggVars => (ProcessInv /\ Promises)'
    BY ProcessStep, PromisesStep DEF ProcessInv
<1>3. ProcessInv /\ Promises => /\ TypeOK /\ StageAgrees
                                /\ FiledOnce /\ NoSplitVisit /\ NoMissedJoin
                                /\ JoinSound /\ ReceiptOnce
    BY DEF ProcessInv, StoreInv, Promises, ReceiptInv
<1> QED
    BY <1>1, <1>2, <1>3, PTL DEF AggSpec

\* The process, too, implements the abstract specification of visits: what
\* happens around the store, crashes included, changes no visit
\* (session.py:52-222, __main__.py:45-57).
THEOREM ProcessImplementsVisits == AggSpec => ImplementsVisits
<1>1. AggInit => V!Init
    BY DEF AggInit, Init, V!Init
<1>2. ProcessInv /\ Promises /\ [AggNext]_aggVars /\ ProcessInv' => [V!Next]_Shown
    <2> SUFFICES ASSUME ProcessInv, Promises, [AggNext]_aggVars, ProcessInv'
                 PROVE  [V!Next]_Shown
        OBVIOUS
    <2>1. CASE Take
        <3>1. [Next]_vars
            BY <2>1, TakeApplies DEF ProcessInv, Next
        <3> QED
            BY <3>1, VisitStep DEF ProcessInv, StoreInv, Promises
    <2>2. CASE UNCHANGED sess
        BY <2>2 DEF Shown
    <2> QED
        BY <2>1, <2>2, StoreMoves, Stuttering DEF Crash
<1>3. AggInit => ProcessInv /\ Promises
    BY ProcessInit, PromisesInit
<1>4. ProcessInv /\ Promises /\ [AggNext]_aggVars => (ProcessInv /\ Promises)'
    BY ProcessStep, PromisesStep DEF ProcessInv
<1> QED
    BY <1>1, <1>2, <1>3, <1>4, PTL DEF AggSpec, ImplementsVisits, V!Spec, Shown

\* Whatever happens between two events, no session changes without the delta
\* that persist_delta is handed (session.py:69-75, handlers.py:16-58).
THEOREM ProcessDeltaComplete == AggSpec => DeltaCoversChange
<1> DEFINE Covered == \A v \in DOMAIN sess' :
                         v \notin DOMAIN sess \/ sess'[v] # sess[v]
                            => delta'.session = v /\ delta'.action # "noop"
<1>1. ProcessInv /\ [AggNext]_aggVars => Covered \/ UNCHANGED vars
    <2> SUFFICES ASSUME ProcessInv, [AggNext]_aggVars PROVE Covered \/ UNCHANGED vars
        OBVIOUS
    <2>1. CASE Take
        <3>1. \E env \in WellFormed : Evolution(env)
            BY <2>1, TakeApplies, EvolutionStep DEF ProcessInv, StoreInv
        <3> QED
            BY <3>1 DEF Evolution
    <2>2. CASE Crash
        BY <2>2 DEF Crash
    <2> QED
        BY <2>1, <2>2, StoreMoves
<1>2. ProcessInv /\ [AggNext]_aggVars => [Covered]_vars
    BY <1>1
<1>3. AggSpec => []ProcessInv
    BY ProcessInit, ProcessStep, PTL DEF AggSpec
<1> QED
    BY <1>2, <1>3, PTL DEF AggSpec, DeltaCoversChange

-----------------------------------------------------------------------------
(* The group's list and the loop's ids. *)

\* What is fetched and not yet acknowledged is pending, once, and was not
\* fetched by a process that is gone.
IdsInv ==
    /\ pel \subseteq 1..delivered /\ lost \subseteq pel
    /\ Range(batch) \subseteq pel \ lost /\ Distinct(batch)
    /\ ctrl \in Busy => current \in pel \ lost /\ current \notin Range(batch)
    /\ ctrl \in Busy \cup {"read", "dead", "down"}
    /\ ctrl = "raw" => stream[current] \in applied

LEMMA IdsStep ==
    ASSUME AckedInv, IdsInv, [AggNext]_aggVars
    PROVE  IdsInv'
<1>1. delivered \in Nat /\ Len(stream) \in Nat /\ delivered <= Len(stream)
    BY DEF AckedInv
<1>2. batch \in Seq(1..delivered)
    BY DEF AckedInv
<1>3. CASE Publish
    <2>1. PICK entry \in Envelope \cup {Malformed} : stream' = Append(stream, entry)
        BY <1>3, AggregatorAssumption DEF Publish
    <2>2. UNCHANGED <<delivered, pel, lost, batch, ctrl, current, applied>>
        BY <1>3 DEF Publish, vars, loop
    <2>3. ctrl = "raw" => current \in 1..Len(stream)
        BY <1>1 DEF AckedInv, Busy
    <2>4. ctrl = "raw" => stream'[current] = stream[current]
        BY <2>1, <2>3 DEF AckedInv
    <2> QED
        BY <2>2, <2>4 DEF IdsInv
<1>4. CASE Fetch
    <2>1. UNCHANGED <<stream, current, ctrl, applied, lost>> /\ ctrl = "read"
        BY <1>4 DEF Fetch, vars
    <2>2. PICK n \in {IF delivered + BatchSize < Len(stream)
                      THEN delivered + BatchSize ELSE Len(stream)} :
             /\ batch' = [i \in 1..(n - delivered) |-> delivered + i]
             /\ pel' = pel \cup ((delivered + 1)..n)
             /\ delivered' = n
        BY <1>4 DEF Fetch
    <2>3. n \in Nat /\ delivered < n
        BY <1>1, <1>4, <2>2, AggregatorAssumption DEF Fetch
    <2>4. pel' \subseteq 1..delivered' /\ lost' \subseteq pel'
        BY <1>1, <2>1, <2>2, <2>3 DEF IdsInv
    <2>5. Distinct(batch')
        BY <1>1, <2>2, <2>3 DEF Distinct
    <2>6. ASSUME NEW b \in Range(batch') PROVE b \in pel' \ lost'
        <3>1. PICK i \in 1..(n - delivered) : b = delivered + i
            BY <2>2, <2>6 DEF Range
        <3>2. b \in (delivered + 1)..n /\ b \notin 1..delivered
            BY <1>1, <2>3, <3>1
        <3> QED
            BY <2>1, <2>2, <3>2 DEF IdsInv
    <2> QED
        BY <2>1, <2>4, <2>5, <2>6 DEF IdsInv, Busy
<1>5. CASE Take \/ DropMalformed
    <2>1. /\ batch # <<>> /\ current' = Head(batch) /\ batch' = Tail(batch)
          /\ UNCHANGED <<stream, delivered, pel, lost>>
          /\ ctrl' \in Busy
        BY <1>5 DEF Take, DropMalformed, bus, Busy
    <2>2. ctrl' = "raw" => stream[current'] \in applied'
        <3>1. Take => applied' = applied \cup {stream[Head(batch)]}
            BY DeliveredOnce DEF Take
        <3>2. DropMalformed => ctrl' = "ack"
            BY DEF DropMalformed
        <3> QED
            BY <1>5, <2>1, <3>1, <3>2
    <2>3. /\ Head(batch) = batch[1] /\ 1 \in DOMAIN batch /\ Len(batch) \in Nat
          /\ \A i \in DOMAIN Tail(batch) :
               i \in Nat \ {0} /\ i + 1 \in DOMAIN batch /\ Tail(batch)[i] = batch[i + 1]
        BY <1>2, <2>1
    <2>4. Head(batch) \in Range(batch) /\ Range(Tail(batch)) \subseteq Range(batch)
        BY <2>3 DEF Range
    <2>5. Head(batch) \notin Range(Tail(batch)) /\ Distinct(Tail(batch))
        BY <2>3 DEF IdsInv, Distinct, Range
    <2> QED
        BY <2>1, <2>2, <2>4, <2>5 DEF IdsInv
<1>6. CASE Ack
    BY <1>6 DEF Ack, IdsInv, Busy, vars
<1>7. CASE Crash
    BY <1>7 DEF Crash, IdsInv, Busy, Range, Distinct
<1>8. CASE Restart \/ BusFails \/ UNCHANGED aggVars
    BY <1>8 DEF Restart, BusFails, aggVars, vars, bus, loop, IdsInv, Busy
<1>9. CASE \/ PersistRaw \/ PersistRawFails \/ PersistSession \/ PersistSessionFails
           \/ \E z \in Zone : PersistVisit(z) \/ PersistVisitFails(z)
    <2>1. /\ UNCHANGED <<stream, delivered, pel, lost, batch, current, applied>>
          /\ ctrl \in Busy /\ ctrl' \in Busy \ {"raw"}
        BY <1>9 DEF PersistRaw, PersistRawFails, AfterRaw, PersistSession, PersistSessionFails,
                    PersistVisit, PersistVisitFails, NextZone, Busy, vars, bus
    <2> QED
        BY <2>1 DEF IdsInv
<1> QED
    BY <1>3, <1>4, <1>5, <1>6, <1>7, <1>8, <1>9 DEF AggNext, Consumer

\* The tables speak of sessions and envelopes the store has seen.
SeenInv ==
    /\ ctrl \in {"session", "zones"} => delta.session \in DOMAIN sess
    /\ zonesLeft \subseteq Zone
    /\ missed \subseteq DOMAIN sess
    /\ \A row \in rawEvents : row.event \in applied
    /\ faults \in 0..MaxFaults

LEMMA SeenStep ==
    ASSUME ProcessInv, ProcessInv', HandInv, HandInv', IdsInv, SeenInv, [AggNext]_aggVars
    PROVE  SeenInv'
<1>1. ctrl' \in {"session", "zones"} => delta'.session \in DOMAIN sess'
    BY DEF ProcessInv, StoreInv, HandInv
<1>2. DOMAIN sess \subseteq DOMAIN sess'
    BY SessionsClimb DEF ProcessInv
<1>3. applied \subseteq applied'
    BY StoreMoves, TakeApplies, DeliveredOnce DEF ProcessInv, Crash, vars
<1>4. delta.action # "noop" => delta.session \in DOMAIN sess
    BY DEF ProcessInv, StoreInv
<1>5. faults' \in 0..MaxFaults
    <2>1. faults' \in {faults, faults + 1} /\ (faults' # faults => faults < MaxFaults)
        BY DEF AggNext, aggVars, Publish, Consumer, Fetch, DropMalformed, Take, PersistRaw,
               PersistRawFails, PersistSession, PersistSessionFails, PersistVisit,
               PersistVisitFails, Ack, BusFails, Restart, Crash, Fault
    <2> QED
        BY <2>1, AggregatorAssumption DEF SeenInv
<1>6. \A row \in rawEvents' : row.event \in applied'
    <2>1. CASE PersistRaw
        <3>1. /\ rawEvents' = InsertRaw(rawEvents, stream[current], delta.session)
              /\ stream[current] \in applied
            BY <2>1 DEF PersistRaw, IdsInv
        <3> QED
            BY <1>3, <3>1 DEF InsertRaw, SeenInv
    <2>2. CASE UNCHANGED rawEvents
        BY <1>3, <2>2 DEF SeenInv
    <2> QED
        BY <2>1, <2>2 DEF AggNext, aggVars, db, Publish, Consumer, Fetch, DropMalformed, Take,
               PersistRawFails, PersistSession, PersistSessionFails, PersistVisit,
               PersistVisitFails, Ack, BusFails, Restart, Crash
<1>7. missed' \subseteq DOMAIN sess'
    <2>1. missed' \subseteq missed \/ (delta.action # "noop" /\ missed' = missed \cup {delta.session})
        BY DEF AggNext, aggVars, db, Publish, Consumer, Fetch, DropMalformed, Take,
               PersistRaw, PersistRawFails, PersistSession, PersistSessionFails, PersistVisit,
               PersistVisitFails, Ack, BusFails, Restart, Crash, HandInv
    <2> QED
        BY <1>2, <1>4, <2>1 DEF SeenInv
<1>8. zonesLeft' \subseteq Zone
    BY DEF AggNext, aggVars, loop, Publish, Consumer, Fetch, DropMalformed, Take,
           PersistRaw, PersistRawFails, PersistSession, PersistSessionFails, PersistVisit,
           PersistVisitFails, NextZone, Ack, BusFails, Restart, Crash, Visited, SeenInv
<1> QED
    BY <1>1, <1>5, <1>6, <1>7, <1>8 DEF SeenInv

\* The loop acknowledges only what it holds, holds each id once, never one a
\* killed process took with it; and the tables hold only what was applied
\* (bus.py:59-90, __main__.py:45-57, handlers.py:16-58).
THEOREM ProcessTypes == AggSpec => []AggTypeOK
<1>1. AggInit => IdsInv /\ SeenInv
    BY AggregatorAssumption DEF AggInit, Init, IdsInv, SeenInv, Busy, Range, Distinct
<1>2. ProcessInv /\ IdsInv /\ [AggNext]_aggVars => IdsInv'
    BY IdsStep DEF ProcessInv
<1>3. ProcessInv /\ HandInv /\ IdsInv /\ SeenInv /\ [AggNext]_aggVars /\ ProcessInv' /\ HandInv'
        => SeenInv'
    BY SeenStep
<1>4. ProcessInv /\ RowsInv /\ IdsInv /\ SeenInv => AggTypeOK
    BY DEF ProcessInv, AckedInv, RowsInv, IdsInv, SeenInv, AggTypeOK
<1> QED
    BY <1>1, <1>2, <1>3, <1>4, RowsOfProcess, PTL DEF AggSpec
=============================================================================
