----------------------------- MODULE Aggregator -----------------------------
(***************************************************************************)
(* The aggregator process around the session store: the Redis stream it    *)
(* reads through a consumer group (services/events/bus.py), the consume    *)
(* loop (services/aggregator/__main__.py), persist_delta (handlers.py) and *)
(* the tables it writes (db.py, infra/postgres/init.sql).                  *)
(*                                                                         *)
(* Every await of the loop is a point where other things happen: producers *)
(* publish, a query or a Redis call fails, the process is killed (or told  *)
(* to stop, which cancels the loop at its await) and started again.  The   *)
(* store lives in memory only.                                             *)
(***************************************************************************)
EXTENDS SessionStore

CONSTANTS
    Malformed,   \* a stream entry that Envelope.from_json rejects
    Feeds,       \* what each producer publishes: a set of sequences
    BatchSize,   \* count of XREADGROUP (100 in the code)
    MaxFaults    \* bound: failed calls and crashes in a behaviour

ASSUME AggregatorAssumption ==
    /\ Malformed \notin Envelope
    /\ Feeds \subseteq Seq(Envelope \cup {Malformed})
    /\ BatchSize \in Nat \ {0}
    /\ MaxFaults \in Nat

VARIABLES
    stream,     \* the Redis stream; an entry's id is its position
    delivered,  \* the group's last-delivered-id
    pel,        \* the group's pending entries list: delivered, not acked
    batch,      \* ids fetched by consume() and not yet yielded
    ctrl,       \* where the consume loop is
    current,    \* id of the entry in the loop's hands
    zonesLeft,  \* zones persist_delta has still to write
    rawEvents,  \* table raw_events
    rows,       \* table sessions, by session_id
    visitRows,  \* table session_zone_visits, by (session_id, zone_id)
    faults,     \* faults so far
    missed,     \* history: sessions whose last write did not all succeed
    lost        \* history: entries delivered to a process that was killed

bus == <<stream, delivered, pel, lost>>
loop == <<batch, ctrl, current, zonesLeft>>
db == <<rawEvents, rows, visitRows, missed>>
aggVars == <<vars, bus, loop, db, faults>>

Busy == {"raw", "session", "zones", "ack"}  \* between fetch and ack

AggInit ==
    /\ Init
    /\ stream = <<>> /\ delivered = 0 /\ pel = {} /\ lost = {}
    /\ batch = <<>> /\ ctrl = "read" /\ current = 0 /\ zonesLeft = {}
    /\ rawEvents = {} /\ rows = <<>> /\ visitRows = <<>> /\ missed = {}
    /\ faults = 0

-----------------------------------------------------------------------------
(* Tables. *)

SessionRow(s) ==
    [role |-> s.role, entered |-> s.entered, exited |-> s.exited,
     stage |-> s.stage, checkout |-> s.checkout, receipt |-> s.receipt]

\* INSERT, or UPDATE of the row there is.
With(table, id, row) == [k \in DOMAIN table \cup {id} |-> IF k = id THEN row ELSE table[k]]

\* Mutant of UpsertSession: only the stage is brought up to date.
UpsertStage(table, v, s) ==
    With(table, v, IF v \in DOMAIN table
                   THEN [table[v] EXCEPT !.stage = s.stage]
                   ELSE SessionRow(s))

\* ON CONFLICT DO UPDATE: an existing row keeps its entered_at.
UpsertSession(table, v, s) ==
    With(table, v, IF v \in DOMAIN table
                   THEN [SessionRow(s) EXCEPT !.entered = table[v].entered]
                   ELSE SessionRow(s))

\* An existing row keeps its first_seen.
UpsertVisit(table, v, z, visit) ==
    With(table, <<v, z>>, IF <<v, z>> \in DOMAIN table
                          THEN [visit EXCEPT !.first = table[<<v, z>>].first]
                          ELSE visit)

\* ON CONFLICT (event_id) DO NOTHING
InsertRaw(table, env, v) ==
    IF \E row \in table : row.event = env
    THEN table
    ELSE table \cup {[event |-> env, session |-> v]}

-----------------------------------------------------------------------------
(* The producers and the group. *)

\* A producer publishes its envelopes in order (XADD); producers interleave.
Publish ==
    /\ \E feed \in Feeds : \E i \in DOMAIN feed :
         /\ feed[i] \notin Range(stream)
         /\ \A j \in 1..(i - 1) : feed[j] \in Range(stream)
         /\ stream' = Append(stream, feed[i])
    /\ UNCHANGED <<vars, delivered, pel, lost, loop, db, faults>>

\* Mutant of Fetch: XREADGROUP with NOACK.
FetchNoAck ==
    /\ ctrl = "read" /\ batch = <<>>
    /\ delivered < Len(stream)
    /\ batch' = <<delivered + 1>>
    /\ delivered' = delivered + 1
    /\ UNCHANGED <<vars, stream, pel, lost, ctrl, current, zonesLeft, db, faults>>

\* XREADGROUP with ">": only what the group never delivered before.
Fetch ==
    /\ ctrl = "read" /\ batch = <<>>
    /\ delivered < Len(stream)
    /\ \E n \in {IF delivered + BatchSize < Len(stream)
                 THEN delivered + BatchSize ELSE Len(stream)} :
         /\ batch' = [i \in 1..(n - delivered) |-> delivered + i]
         /\ pel' = pel \cup ((delivered + 1)..n)
         /\ delivered' = n
    /\ UNCHANGED <<vars, stream, lost, ctrl, current, zonesLeft, db, faults>>

\* The entry is logged and acked inside consume(), never yielded.
DropMalformed ==
    /\ ctrl = "read" /\ batch # <<>>
    /\ stream[Head(batch)] = Malformed
    /\ current' = Head(batch) /\ batch' = Tail(batch)
    /\ ctrl' = "ack"
    /\ UNCHANGED <<vars, bus, zonesLeft, db, faults>>

\* The loop body up to its first await: apply has changed the store before
\* anything is written.
Take ==
    /\ ctrl = "read" /\ batch # <<>>
    /\ stream[Head(batch)] # Malformed
    /\ Apply(stream[Head(batch)])
    /\ current' = Head(batch) /\ batch' = Tail(batch)
    /\ ctrl' = "raw"
    /\ UNCHANGED <<bus, zonesLeft, db, faults>>

-----------------------------------------------------------------------------
(* persist_delta, one await per action.  A failed query is logged. *)

Fault == faults < MaxFaults /\ faults' = faults + 1

AfterRaw == ctrl' = IF delta.action = "noop" THEN "ack" ELSE "session"

PersistRaw ==
    /\ ctrl = "raw"
    /\ rawEvents' = InsertRaw(rawEvents, stream[current], delta.session)
    /\ AfterRaw
    /\ UNCHANGED <<vars, bus, batch, current, zonesLeft, rows, visitRows, missed,
                   faults>>

PersistRawFails ==
    /\ ctrl = "raw" /\ Fault
    /\ AfterRaw
    /\ UNCHANGED <<vars, bus, batch, current, zonesLeft, db>>

PersistSession ==
    /\ ctrl = "session"
    /\ rows' = UpsertSession(rows, delta.session, sess[delta.session])
    /\ missed' = missed \ {delta.session}
    /\ zonesLeft' = Visited(sess[delta.session])
    /\ ctrl' = IF zonesLeft' = {} THEN "ack" ELSE "zones"
    /\ UNCHANGED <<vars, bus, batch, current, rawEvents, visitRows, faults>>

\* The zones are not tried.
PersistSessionFails ==
    /\ ctrl = "session" /\ Fault
    /\ missed' = missed \cup {delta.session}
    /\ ctrl' = "ack"
    /\ UNCHANGED <<vars, bus, batch, current, zonesLeft, rawEvents, rows, visitRows>>

NextZone(z) ==
    /\ zonesLeft' = zonesLeft \ {z}
    /\ ctrl' = IF zonesLeft' = {} THEN "ack" ELSE "zones"

PersistVisit(z) ==
    /\ ctrl = "zones" /\ z \in zonesLeft
    /\ visitRows' = UpsertVisit(visitRows, delta.session, z, sess[delta.session].zones[z])
    /\ NextZone(z)
    /\ UNCHANGED <<vars, bus, batch, current, rawEvents, rows, missed, faults>>

\* The loop over zones goes on.
PersistVisitFails(z) ==
    /\ ctrl = "zones" /\ z \in zonesLeft /\ Fault
    /\ missed' = missed \cup {delta.session}
    /\ NextZone(z)
    /\ UNCHANGED <<vars, bus, batch, current, rawEvents, rows, visitRows>>

\* Mutant of Ack: XACK forgotten.
AckForgotten ==
    /\ ctrl = "ack"
    /\ ctrl' = "read"
    /\ UNCHANGED <<vars, bus, batch, current, zonesLeft, db, faults>>

Ack ==
    /\ ctrl = "ack"
    /\ pel' = pel \ {current}
    /\ ctrl' = "read"
    /\ UNCHANGED <<vars, stream, delivered, lost, batch, current, zonesLeft, db,
                   faults>>

-----------------------------------------------------------------------------
(* Failures. *)

\* An exception of XREADGROUP or XACK ends the consume task.  main() waits for
\* its stop event, not for the task, so the process runs on without it.
BusFails ==
    /\ ctrl = "ack" \/ (ctrl = "read" /\ batch = <<>>)
    /\ Fault
    /\ ctrl' = "dead"
    /\ UNCHANGED <<vars, bus, batch, current, zonesLeft, db>>

\* The process is killed, or cancelled at an await: its memory is gone, and
\* with it what it had fetched and not acknowledged.
Crash ==
    /\ ctrl # "down" /\ Fault
    /\ ctrl' = "down"
    /\ batch' = <<>> /\ zonesLeft' = {}
    /\ open' = <<>> /\ closed' = <<>> /\ pending' = <<>> /\ delta' = Noop
    /\ missed' = IF ctrl \in {"raw", "session", "zones"} /\ delta.action # "noop"
                 THEN missed \cup {delta.session} ELSE missed
    /\ lost' = pel
    /\ UNCHANGED <<sess, applied, stream, delivered, pel, current, rawEvents, rows,
                   visitRows>>

\* The container's restart policy; the group exists, and reading goes on after
\* its last-delivered-id.
Restart ==
    /\ ctrl = "down"
    /\ ctrl' = "read"
    /\ UNCHANGED <<vars, bus, batch, current, zonesLeft, db, faults>>

Consumer ==
    \/ Fetch \/ DropMalformed \/ Take
    \/ PersistRaw \/ PersistRawFails
    \/ PersistSession \/ PersistSessionFails
    \/ \E z \in Zone : PersistVisit(z) \/ PersistVisitFails(z)
    \/ Ack

AggNext ==
    \/ Publish
    \/ Consumer
    \/ BusFails \/ Crash \/ Restart

AggSpec == AggInit /\ [][AggNext]_aggVars

\* The event loop runs the consume task as long as it lives; Docker restarts a
\* stopped container.  Producers, faults and crashes owe nothing.
FairAggSpec == AggSpec /\ WF_aggVars(Consumer) /\ WF_aggVars(Restart)

-----------------------------------------------------------------------------
(* Properties. *)

AggTypeOK ==
    /\ stream \in Seq(Envelope \cup {Malformed})
    /\ delivered \in 0..Len(stream) /\ pel \subseteq 1..delivered
    /\ Range(batch) \subseteq pel /\ lost \subseteq pel
    /\ ctrl \in Busy \cup {"read", "dead", "down"}
    /\ ctrl \in Busy => current \in pel
    /\ ctrl \in {"session", "zones"} => delta.session \in DOMAIN sess
    /\ zonesLeft \subseteq Zone
    /\ missed \subseteq DOMAIN sess /\ DOMAIN rows \subseteq DOMAIN sess
    /\ \A row \in rawEvents : row.event \in applied
    /\ faults \in 0..MaxFaults

\* Between two events, every session's row and zone rows are what the store
\* last knew, but for those whose own last write failed: a failure is healed by
\* the session's next delta and never touches another session
\* (handlers.py:16-58, db.py:67-136, __main__.py:45-57).
TablesCurrent ==
    ctrl \in {"read", "ack"} =>
        \A v \in DOMAIN sess \ missed :
            /\ v \in DOMAIN rows /\ rows[v] = SessionRow(sess[v])
            /\ \A z \in Visited(sess[v]) :
                 /\ <<v, z>> \in DOMAIN visitRows
                 /\ visitRows[<<v, z>>] = sess[v].zones[z]

\* What the dashboard counts never goes backwards: a session's row keeps its
\* stage or climbs, through failed writes, crashes and restarts
\* (db.py:67-116, session.py:52-66).
RowsClimb ==
    [][\A v \in DOMAIN rows :
         v \in DOMAIN rows' /\ Rank[rows'[v].stage] >= Rank[rows[v].stage]]_aggVars

\* Nothing is acknowledged unseen: an entry the group considers done was
\* applied, or could not be parsed (__main__.py:49-54, bus.py:76-87).
AckedWasApplied ==
    \A n \in (1..delivered) \ pel : stream[n] \in applied \cup {Malformed}

\* Failed queries never hold the stream up: a published entry is acknowledged,
\* unless the consume task died or a crash took the batch it was in
\* (handlers.py:18-58, bus.py:59-90).
Settles ==
    \A feed \in Feeds : \A i \in DOMAIN feed :
        feed[i] \in Range(stream) ~>
            \/ \E n \in 1..delivered :
                 stream[n] = feed[i] /\ (n \notin pel \/ n \in lost)
            \/ ctrl = "dead"

-----------------------------------------------------------------------------
(* What the documents say and the code does not do. *)

\* services/events/bus.py:4-6 and docs/EVENT_SCHEMA.md:43-44: delivery is
\* at-least-once.  So every published envelope is applied, sooner or later,
\* as long as there is a consume task.
AtLeastOnce ==
    \A env \in Envelope :
        env \in Range(stream) ~> (env \in applied \/ ctrl = "dead")
=============================================================================
