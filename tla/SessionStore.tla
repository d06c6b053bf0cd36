---------------------------- MODULE SessionStore ----------------------------
(***************************************************************************)
(* The aggregator's in-memory session state machine                        *)
(* (services/aggregator/session.py, class SessionStore).                   *)
(*                                                                         *)
(* The store is handed one envelope at a time and changes at most one      *)
(* session.  Open sessions and recently closed sessions are held in two    *)
(* dictionaries filed by the shopper's key; receipts that found no session *)
(* wait in a bounded deque.                                                *)
(*                                                                         *)
(* `sess' holds every session record ever made, and a session_id is an     *)
(* index into it, so that a record the two dictionaries no longer reach    *)
(* can still be spoken about (its database row outlives it).  The          *)
(* dictionaries are sequences of session ids in Python's insertion order,  *)
(* which decides the order _h_pos_receipt scans its candidates in.         *)
(*                                                                         *)
(* The environment is a set of envelopes, each applied at most once, in    *)
(* any order: the stream delivers an entry once to the group, cameras are  *)
(* not synchronised with each other, and any envelope may be lost.         *)
(***************************************************************************)
EXTENDS Integers, Sequences, SequencesExt

CONSTANTS
    Label,            \* embedding ids and track ids
    Zone,             \* shelf zones
    Envelope,         \* the envelopes the feed may carry
    None,             \* Python's None
    EngagementDwell,  \* ENGAGEMENT_DWELL_S
    PosJoinWindow,    \* POS_JOIN_WINDOW_S
    ReentryGap,       \* REENTRY_GAP_S
    MaxClosed,        \* bound of _closed_by_key (500 in the code)
    MaxPending        \* maxlen of _pending_receipts (200 in the code)

PersonEvent == {"person_entered", "person_exited", "zone_entered",
                "zone_dwell", "checkout_observed", "staff_observed"}

EventType == PersonEvent \cup {"pos_receipt", "health_warning"}

Role == {"customer", "staff", "unknown"}

\* What the store reads of an envelope; the payload is its zone and dwell.
Event == [id : Nat, type : EventType,
          embedding : Label \cup {None}, track : Label \cup {None},
          role : Role, ts : Int, zone : Zone \cup {None}, dwell : Nat]

\* The events of a zone name it.
WellFormed ==
    {env \in Event : env.type \in {"zone_entered", "zone_dwell"} => env.zone \in Zone}

ASSUME EnvelopeAssumption == Envelope \subseteq WellFormed

\* ZoneVisit
Visit == [first : Int, last : Int, dwell : Nat]

ASSUME NoneAssumption ==
    /\ None \notin Int
    /\ None \notin Label
    /\ None \notin Zone
    /\ None \notin WellFormed
    /\ None \notin Visit

ASSUME TunableAssumption ==
    /\ EngagementDwell \in Nat \ {0}
    /\ PosJoinWindow \in Nat
    /\ ReentryGap \in Nat
    /\ MaxClosed \in Nat \ {0}
    /\ MaxPending \in Nat \ {0}

VARIABLES
    sess,     \* every Session made, indexed by session_id
    open,     \* _by_key: ids of open sessions, in insertion order
    closed,   \* _closed_by_key: ids of recently closed sessions, likewise
    pending,  \* _pending_receipts
    delta,    \* the SessionDelta the last apply returned
    applied   \* history: the envelopes applied so far

memory == <<sess, open, closed, pending>>
vars == <<memory, delta, applied>>

-----------------------------------------------------------------------------
(* Sessions. *)

Stages == <<"entered", "browsed", "engaged", "checkout_queued", "purchased">>

FunnelStage == Range(Stages)

Session == [key : Label, role : Role,
            entered : Int, exited : Int \cup {None},
            stage : FunnelStage, checkout : Int \cup {None},
            receipt : WellFormed \cup {None},
            zones : [Zone -> Visit \cup {None}]]

Visited(s) == {z \in Zone : s.zones[z] # None}

\* Mutant of Stage: engaged only if every zone held the shopper long enough.
StageIfAll(s) ==
    IF s.receipt # None THEN "purchased"
    ELSE IF s.checkout # None THEN "checkout_queued"
    ELSE IF Visited(s) = {} THEN "entered"
    ELSE IF \A z \in Visited(s) : s.zones[z].dwell >= EngagementDwell
         THEN "engaged"
    ELSE "browsed"

\* Mutant of Stage: dwell is looked at before the till.
StageDwellFirst(s) ==
    IF s.receipt # None THEN "purchased"
    ELSE IF \E z \in Visited(s) : s.zones[z].dwell >= EngagementDwell
         THEN "engaged"
    ELSE IF s.checkout # None THEN "checkout_queued"
    ELSE IF Visited(s) # {} THEN "browsed"
    ELSE "entered"

\* The highest funnel stage a session's evidence supports.
Stage(s) ==
    IF s.receipt # None THEN "purchased"
    ELSE IF s.checkout # None THEN "checkout_queued"
    ELSE IF \E z \in Visited(s) : s.zones[z].dwell >= EngagementDwell
         THEN "engaged"
    ELSE IF Visited(s) # {} THEN "browsed"
    ELSE "entered"

\* Mutant of Restaged: recompute_stage forgotten.
NotRestaged(s) == s

\* recompute_stage
Restaged(s) == [s EXCEPT !.stage = Stage(s)]

NewSession(key, env) ==
    [key |-> key, role |-> env.role, entered |-> env.ts, exited |-> None,
     stage |-> "entered", checkout |-> None, receipt |-> None,
     zones |-> [z \in Zone |-> None]]

\* What apply returns.  A noop carries a stub session: here, None.
Delta(action, sid, matched) ==
    [action |-> action, session |-> sid, matched |-> matched]
Noop == Delta("noop", None, FALSE)

-----------------------------------------------------------------------------
(* The two dictionaries and the deque. *)

\* A falsy embedding falls back on the track; either may be None.
Key(env) == IF env.embedding # None THEN env.embedding ELSE env.track

\* Where `cache' (open or closed) holds the session filed under `key', if it
\* does: at most one position.
Filed(cache, key) == {i \in DOMAIN cache : sess[cache[i]].key = key}

\* _lookup: the open session under the envelope's key, if there is one.
Lookup(env) == {open[i] : i \in Filed(open, Key(env))}

\* Mutant of Put: a second entry under the key.
PutTwice(cache, key, sid) == Append(cache, sid)

\* d[key] = sid: an existing key keeps its place, a new one goes last.
Put(cache, key, sid) ==
    IF Filed(cache, key) = {}
    THEN Append(cache, sid)
    ELSE [i \in DOMAIN cache |-> IF i \in Filed(cache, key) THEN sid ELSE cache[i]]

\* Mutant of Oldest: the latest exit.
Newest(cache, s) ==
    {i \in DOMAIN cache :
        \A j \in DOMAIN cache : s[cache[i]].exited >= s[cache[j]].exited}

\* Positions of `cache' that min(..., key=exit time) may return: Python's min
\* keeps the first of equals.
Oldest(cache, s) ==
    {i \in DOMAIN cache :
        \A j \in DOMAIN cache :
            \/ s[cache[i]].exited < s[cache[j]].exited
            \/ s[cache[i]].exited = s[cache[j]].exited /\ i <= j}

\* The closed cache after an insertion, under its bound again.
Bounded(cache, s) == IF Len(cache) <= MaxClosed
                     THEN {cache}
                     ELSE {RemoveAt(cache, i) : i \in Oldest(cache, s)}

\* Mutant of Buffer: a deque without maxlen.
BufferAll(queue, env) == Append(queue, env)

\* deque(maxlen=...).append: the oldest element falls off the left.
Buffer(queue, env) ==
    IF Len(queue) < MaxPending THEN Append(queue, env)
                               ELSE Append(Tail(queue), env)

\* Where the scan `if d <= best_delta: best, best_delta = x, d' ends, over
\* candidates at the distances dist: at the last of the closest.
LastClosest(dist) ==
    {i \in DOMAIN dist :
        \A j \in DOMAIN dist : dist[i] < dist[j] \/ (dist[i] = dist[j] /\ j <= i)}

Gap(receipt, s) == IF receipt.ts >= s.checkout THEN receipt.ts - s.checkout
                                               ELSE s.checkout - receipt.ts

Awaiting(s) == s.checkout # None /\ s.receipt = None

\* Mutant of Known: shoppers who have left are not considered.
KnownInside == open

\* The candidates of _h_pos_receipt in the order it scans them.
Known == open \o closed

-----------------------------------------------------------------------------
(* The handlers. *)

Init ==
    /\ sess = <<>> /\ open = <<>> /\ closed = <<>> /\ pending = <<>>
    /\ delta = Noop
    /\ applied = {}

\* The stream hands the store env, which no earlier delivery was.
On(type, env) ==
    /\ env.type = type
    /\ env \notin applied
    /\ applied' = applied \cup {env}

\* A handler's usual last step: session sid becomes s.
Update(sid, s, matched) ==
    /\ sess' = [sess EXCEPT ![sid] = s]
    /\ delta' = Delta("updated", sid, matched)

\* The shopper left less than ReentryGap ago (or, out of order, will leave
\* later): the closed session is reopened.  A session open under the same
\* key is pushed out of _by_key.
Reopened(env) ==
    /\ On("person_entered", env)
    /\ \E i \in Filed(closed, Key(env)) :
         /\ env.ts - sess[closed[i]].exited < ReentryGap
         /\ closed' = RemoveAt(closed, i)
         /\ open' = Put(open, Key(env), closed[i])
         /\ Update(closed[i], [sess[closed[i]] EXCEPT !.exited = None], FALSE)
    /\ UNCHANGED pending

\* Mutant of Opened: a returning shopper is always new.
OpenedAlways(env) ==
    /\ On("person_entered", env)
    /\ Key(env) # None
    /\ sess' = Append(sess, NewSession(Key(env), env))
    /\ open' = Put(open, Key(env), Len(sess) + 1)
    /\ delta' = Delta("opened", Len(sess) + 1, FALSE)
    /\ UNCHANGED <<closed, pending>>

\* Otherwise a new session, again whatever was open under the key.
Opened(env) ==
    /\ On("person_entered", env)
    /\ Key(env) # None
    /\ \A i \in Filed(closed, Key(env)) :
         env.ts - sess[closed[i]].exited >= ReentryGap
    /\ sess' = Append(sess, NewSession(Key(env), env))
    /\ open' = Put(open, Key(env), Len(sess) + 1)
    /\ delta' = Delta("opened", Len(sess) + 1, FALSE)
    /\ UNCHANGED <<closed, pending>>

\* The session moves to the closed cache, which drops its oldest exit when
\* it has grown past its bound.
Exited(env) ==
    /\ On("person_exited", env)
    /\ \E i \in Filed(open, Key(env)) :
         LET sid == open[i]
             grown == Put(closed, Key(env), sid)
         IN  /\ sess' = [sess EXCEPT ![sid] = Restaged([@ EXCEPT !.exited = env.ts])]
             /\ open' = RemoveAt(open, i)
             /\ closed' \in Bounded(grown, sess')
             /\ delta' = Delta("closed", sid, FALSE)
    /\ UNCHANGED pending

EnterZone(visit, ts) ==
    IF visit = None THEN [first |-> ts, last |-> ts, dwell |-> 0]
                    ELSE [visit EXCEPT !.last = ts]

ZoneEntered(env) ==
    /\ On("zone_entered", env)
    /\ \E sid \in Lookup(env) :
         Update(sid, Restaged([sess[sid] EXCEPT
                         !.zones[env.zone] = EnterZone(@, env.ts)]), FALSE)
    /\ UNCHANGED <<open, closed, pending>>

\* A dwell may be the first the store hears of the zone.
ZoneDwell(env) ==
    /\ On("zone_dwell", env)
    /\ \E sid \in Lookup(env) :
         LET visit == EnterZone(sess[sid].zones[env.zone], env.ts)
         IN  Update(sid, Restaged([sess[sid] EXCEPT
                 !.zones[env.zone] = [visit EXCEPT !.dwell = @ + env.dwell]]), FALSE)
    /\ UNCHANGED <<open, closed, pending>>

StaffObserved(env) ==
    /\ On("staff_observed", env)
    /\ \E sid \in Lookup(env) : Update(sid, [sess[sid] EXCEPT !.role = "staff"], FALSE)
    /\ UNCHANGED <<open, closed, pending>>

\* The first checkout is kept; each one takes the pending receipt closest to
\* it, also when the session already holds a receipt.
CheckoutObserved(env) ==
    /\ On("checkout_observed", env)
    /\ \E sid \in Lookup(env) :
         LET seen == [sess[sid] EXCEPT !.checkout = IF @ = None THEN env.ts ELSE @]
             near == {j \in DOMAIN pending : Gap(pending[j], seen) <= PosJoinWindow}
         IN  \/ /\ near = {}
                /\ Update(sid, Restaged(seen), FALSE)
                /\ UNCHANGED pending
             \/ \E j \in LastClosest([k \in near |-> Gap(pending[k], seen)]) :
                  /\ Update(sid, Restaged([seen EXCEPT !.receipt = pending[j]]), TRUE)
                  /\ pending' = RemoveAt(pending, j)
    /\ UNCHANGED <<open, closed>>

\* Mutant of Joinable: the closest checkout, however far.
JoinableEver(env) == {i \in DOMAIN Known : Awaiting(sess[Known[i]])}

\* Positions of Known a receipt could join.
Joinable(env) ==
    {i \in DOMAIN Known : /\ Awaiting(sess[Known[i]])
                          /\ Gap(env, sess[Known[i]]) <= PosJoinWindow}

\* Mutant of ReceiptJoined: falls through to the append.
JoinedAndBuffered(env) ==
    /\ On("pos_receipt", env)
    /\ \E i \in LastClosest([k \in Joinable(env) |-> Gap(env, sess[Known[k]])]) :
         Update(Known[i], Restaged([sess[Known[i]] EXCEPT !.receipt = env]), TRUE)
    /\ pending' = Buffer(pending, env)
    /\ UNCHANGED <<open, closed>>

\* Mutant of ReceiptJoined: the join is reported as a noop.
JoinedSilently(env) ==
    /\ On("pos_receipt", env)
    /\ \E i \in LastClosest([k \in Joinable(env) |-> Gap(env, sess[Known[k]])]) :
         sess' = [sess EXCEPT ![Known[i]] = Restaged([@ EXCEPT !.receipt = env])]
    /\ delta' = Noop
    /\ UNCHANGED <<open, closed, pending>>

ReceiptJoined(env) ==
    /\ On("pos_receipt", env)
    /\ \E i \in LastClosest([k \in Joinable(env) |-> Gap(env, sess[Known[k]])]) :
         Update(Known[i], Restaged([sess[Known[i]] EXCEPT !.receipt = env]), TRUE)
    /\ UNCHANGED <<open, closed, pending>>

ReceiptBuffered(env) ==
    /\ On("pos_receipt", env)
    /\ Joinable(env) = {}
    /\ pending' = Buffer(pending, env)
    /\ delta' = Noop
    /\ UNCHANGED <<sess, open, closed>>

\* Nothing to do: no key, no open session under it, or a type that the store
\* has no handler for.
Ignored(env) ==
    /\ \/ On("person_entered", env) /\ Key(env) = None
       \/ \E type \in PersonEvent \ {"person_entered"} :
            On(type, env) /\ Lookup(env) = {}
       \/ On("health_warning", env)
    /\ delta' = Noop
    /\ UNCHANGED memory

-----------------------------------------------------------------------------
\* apply
Apply(env) ==
    \/ Reopened(env) \/ Opened(env) \/ Exited(env)
    \/ ZoneEntered(env) \/ ZoneDwell(env) \/ StaffObserved(env)
    \/ CheckoutObserved(env)
    \/ ReceiptJoined(env) \/ ReceiptBuffered(env)
    \/ Ignored(env)

Next == \E env \in Envelope : Apply(env)

Spec == Init /\ [][Next]_vars

-----------------------------------------------------------------------------
(* Properties. *)

\* Types, the bounds of the cache and of the deque, and what the dictionaries
\* hold: ids of sessions, of which _by_key's have not exited and
\* _closed_by_key's have.
TypeOK ==
    /\ sess \in Seq(Session)
    /\ open \in Seq(DOMAIN sess) /\ closed \in Seq(DOMAIN sess)
    /\ pending \in Seq({env \in WellFormed : env.type = "pos_receipt"})
    /\ Len(closed) <= MaxClosed /\ Len(pending) <= MaxPending
    /\ applied \subseteq WellFormed
    /\ delta \in [action : {"opened", "updated", "closed", "noop"},
                  session : (DOMAIN sess) \cup {None}, matched : BOOLEAN]

\* The two dictionaries stay dictionaries of one session per shopper: no two
\* entries of either under one key, no session in both, the open ones with no
\* exit time, the closed ones with one (session.py:114-150).
FiledOnce ==
    /\ \A i, j \in DOMAIN open :
         sess[open[i]].key = sess[open[j]].key => i = j
    /\ \A i, j \in DOMAIN closed :
         sess[closed[i]].key = sess[closed[j]].key => i = j
    /\ \A i \in DOMAIN open : sess[open[i]].exited = None
    /\ \A i \in DOMAIN closed : sess[closed[i]].exited # None

\* No receipt waits in the buffer while a session it could be joined to is
\* open or in the closed cache: whichever of checkout_observed and pos_receipt
\* comes first, the second one makes the join (session.py:177-222).
NoMissedJoin ==
    \A v \in Range(open) \cup Range(closed) : \A j \in DOMAIN pending :
        Awaiting(sess[v]) => Gap(pending[j], sess[v]) > PosJoinWindow

\* A bill counts once: a receipt is in one place, either waiting or with one
\* session (session.py:198-256).
ReceiptOnce ==
    /\ \A i, j \in DOMAIN pending : pending[i] = pending[j] => i = j
    /\ \A v \in DOMAIN sess : sess[v].receipt # None =>
         /\ sess[v].receipt \notin Range(pending)
         /\ \A w \in DOMAIN sess : sess[w].receipt = sess[v].receipt => v = w

\* A purchase is backed by a checkout within the join window of its receipt,
\* whatever happened to the session since (session.py:213, 248).
JoinSound ==
    \A v \in DOMAIN sess : sess[v].receipt # None =>
        /\ sess[v].checkout # None
        /\ Gap(sess[v].receipt, sess[v]) <= PosJoinWindow

\* The stored funnel stage is the one the session's evidence supports: no
\* handler changes the evidence and forgets recompute_stage (session.py:52-66).
StageAgrees == \A v \in DOMAIN sess : sess[v].stage = Stage(sess[v])

\* One shopper's visit is not counted twice: while an earlier session under
\* the key is still cached, an open one began ReentryGap or more after the
\* earlier exit (session.py:119-127).
NoSplitVisit ==
    \A i \in DOMAIN open : \A j \in DOMAIN closed :
        sess[open[i]].key = sess[closed[j]].key
            => sess[open[i]].entered - sess[closed[j]].exited >= ReentryGap

\* The caller persists the session of the delta and no other: so no step may
\* change or create a session without naming it in a delta that is not a noop
\* (session.py:69-75, handlers.py:16-58).
DeltaCoversChange ==
    [][\A v \in DOMAIN sess' :
         v \notin DOMAIN sess \/ sess'[v] # sess[v]
            => delta'.session = v /\ delta'.action # "noop"]_vars

\* The closed cache forgets a session only for room, and then one that exited
\* no later than all it keeps (session.py:146-149).
ForgetsOldest ==
    [][\A v \in DOMAIN sess' :
         /\ v \in Range(closed) \/ delta'.session = v
         /\ v \notin Range(closed') /\ sess'[v].exited # None
         => \/ \E i \in DOMAIN closed' : sess'[closed'[i]].key = sess'[v].key
            \/ /\ Len(closed') = MaxClosed
               /\ \A i \in DOMAIN closed' :
                    sess'[v].exited <= sess'[closed'[i]].exited]_vars

\* The store implements the abstract specification of visits.
Rank == [st \in FunnelStage |-> CHOOSE n \in DOMAIN Stages : Stages[n] = st]

VisitOf(s) == [stage |-> Rank[s.stage], present |-> s.exited = None]

V == INSTANCE Visits WITH NStages <- Len(Stages),
                          visit <- [v \in DOMAIN sess |-> VisitOf(sess[v])]

\* Whatever arrives in whatever order, one visit changes at a time, its stage
\* only rises, and leaving or coming back keeps it (session.py:52-66, 114-222).
ImplementsVisits == V!Spec

-----------------------------------------------------------------------------
(* What the documents say and the code does not do. *)

\* docs/DESIGN.md:228-230: the bill is assigned to the session whose checkout
\* is closest.  So a bill once assigned stays with its session.
BillKept ==
    [][\A v \in DOMAIN sess :
         sess[v].receipt # None => sess'[v].receipt = sess[v].receipt]_vars
=============================================================================
