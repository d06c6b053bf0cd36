------------------------------- MODULE Synth -------------------------------
(***************************************************************************)
(* The synthetic publisher (services/ingest/synth.py) in front of the      *)
(* session store.                                                          *)
(*                                                                         *)
(* A timeline of simulated customers is drawn from a seeded generator and  *)
(* replayed in order of time, each envelope stamped with the clock at its  *)
(* publication.  The process replays the same timeline again and again,    *)
(* with the same embeddings, until it is told to stop; a failing publish,  *)
(* a signal or a kill may cut a replay short, and Docker starts the        *)
(* container anew.                                                         *)
(*                                                                         *)
(* The store applies an envelope in the step that publishes it.  It reads  *)
(* nothing but the envelope and its own memory, and the stream keeps the   *)
(* order, so when it reads them makes no difference to what it computes;   *)
(* what can go wrong on the way is Aggregator's subject.                   *)
(***************************************************************************)
EXTENDS SessionStore, FiniteSets

CONSTANTS
    Customer,    \* embeddings of the simulated customers, in order
    CamTrack,    \* a track id: no session is filed under it
    Slot,        \* duration_s / sessions: customers enter one per slot
    Trips,       \* what the generator may draw for a customer
    Pauses,      \* the walks between the stations of a trip
    StaffPings,  \* sightings of staff: [label, at], in order of generation
    Paces,       \* values of SYNTH_PACE
    Downtimes,   \* how long it may take until the container runs again
    MaxRuns      \* bound: timelines begun

Stroll == Seq([zone : Zone, dwell : Nat \ {0}])

\* Where a customer enters in the slot, the shelves visited, whether the till
\* is reached, and how long after that the receipt is printed, if it is.
Trip == [enter : 0..(Slot - 1), stroll : Stroll, queues : BOOLEAN,
         receipt : Nat \cup {None}]

ASSUME SynthAssumption ==
    /\ Customer \in Seq(Label)
    /\ \A i, j \in DOMAIN Customer : Customer[i] = Customer[j] => i = j
    /\ CamTrack \in Label \ Range(Customer)
    /\ Slot \in Nat \ {0} /\ Trips \subseteq Trip
    /\ Pauses \in [{"walk", "hop", "queue", "linger", "browse", "out"} -> Nat]
    /\ StaffPings \in Seq([label : Label \ Range(Customer), at : Nat])
    /\ Paces \subseteq Nat /\ Downtimes \subseteq Nat
    /\ MaxRuns \in Nat \ {0}

VARIABLES
    now,       \* the wall clock
    pace,      \* SYNTH_PACE
    timeline,  \* the events of a run, in order
    next,      \* the event to publish next
    start,     \* wall_start of the run
    phase,     \* _main: in the "first" run, in the "loop", "stopped", "down"
    stop,      \* the stop event is set
    runs,      \* timelines begun so far
    cut        \* history: runs that did not publish their whole timeline

synth == <<pace, timeline>>
main == <<next, start, phase, stop, runs, cut>>
synthVars == <<vars, synth, main, now>>

-----------------------------------------------------------------------------
(* The timeline. *)

At(type, label, at) ==
    [type |-> type, label |-> label, at |-> at, zone |-> None, dwell |-> 0]

\* When the customer is ready for the shelf after v, v of them visited.
Cursor(trip, enter) ==
    LET cursor[v \in 0..Len(trip.stroll)] ==
            IF v = 0 THEN enter + Pauses["walk"]
            ELSE cursor[v - 1] + trip.stroll[v].dwell + Pauses["hop"]
    IN  cursor

Shelf(visit, label, at) ==
    << [At("zone_entered", label, at) EXCEPT !.zone = visit.zone],
       [At("zone_dwell", label, at + visit.dwell)
            EXCEPT !.zone = visit.zone, !.dwell = visit.dwell] >>

\* The checkout, the receipt (which names nobody) and the way out.
TillAndExit(trip, label, at) ==
    LET till == at + Pauses["queue"]
        leave == IF ~ trip.queues THEN at
                 ELSE IF trip.receipt = None THEN till + Pauses["browse"]
                 ELSE till + trip.receipt + Pauses["linger"]
    IN  (IF trip.queues THEN <<At("checkout_observed", label, till)>> ELSE <<>>)
        \o (IF trip.queues /\ trip.receipt # None
            THEN <<At("pos_receipt", None, till + trip.receipt)>> ELSE <<>>)
        \o <<At("person_exited", label, leave + Pauses["out"])>>

\* The events at the shelves, two at each.
Browsed(trip, label, cursor) ==
    [k \in 1..(2 * Len(trip.stroll)) |->
        LET v == (k + 1) \div 2
        IN  Shelf(trip.stroll[v], label, cursor[v - 1])[k - 2 * (v - 1)]]

EnterTime(i, trip) == (i - 1) * Slot + trip.enter

\* Mutant of SessionEvents: the exit names the track only.
ExitUntracked(i, trip) ==
    LET enter == EnterTime(i, trip)
        cursor == Cursor(trip, enter)
        rest == TillAndExit(trip, Customer[i], cursor[Len(trip.stroll)])
    IN  <<At("person_entered", Customer[i], enter)>>
        \o Browsed(trip, Customer[i], cursor) \o [rest EXCEPT ![Len(rest)].label = None]

\* Mutant of SessionEvents: the embedding lacks the customer's number.
SharedEmbedding(i, trip) ==
    LET enter == EnterTime(i, trip)
        cursor == Cursor(trip, enter)
    IN  <<At("person_entered", Customer[1], enter)>>
        \o Browsed(trip, Customer[1], cursor)
        \o TillAndExit(trip, Customer[1], cursor[Len(trip.stroll)])

\* Mutant of SessionEvents: the cursor stands still while a shelf is visited.
StandingCursor(i, trip) ==
    LET enter == EnterTime(i, trip)
        cursor == [v \in 0..Len(trip.stroll) |-> enter + Pauses["walk"]]
    IN  <<At("person_entered", Customer[i], enter)>>
        \o Browsed(trip, Customer[i], cursor)
        \o TillAndExit(trip, Customer[i], cursor[Len(trip.stroll)])

\* _session_events of the i-th customer.
SessionEvents(i, trip) ==
    LET enter == EnterTime(i, trip)
        cursor == Cursor(trip, enter)
    IN  <<At("person_entered", Customer[i], enter)>>
        \o Browsed(trip, Customer[i], cursor)
        \o TillAndExit(trip, Customer[i], cursor[Len(trip.stroll)])

StaffTracks ==
    [n \in DOMAIN StaffPings |->
        At("staff_observed", StaffPings[n].label, StaffPings[n].at)]

\* What generate_timeline collects: the customers in turn, then the staff.
Generated(trips) ==
    [i \in 1..(Len(Customer) + 1) |->
        IF i <= Len(Customer) THEN SessionEvents(i, trips[i]) ELSE StaffTracks]

\* Where an event is in that: whose it is, and which of theirs.
Positions(gen) == UNION {{i} \X DOMAIN gen[i] : i \in DOMAIN gen}

EventAt(gen, pos) == gen[pos[1]][pos[2]]

\* list.sort is stable.
Sooner(gen, a, b) ==
    \/ EventAt(gen, a).at < EventAt(gen, b).at
    \/ /\ EventAt(gen, a).at = EventAt(gen, b).at
       /\ a[1] < b[1] \/ (a[1] = b[1] /\ a[2] < b[2])

Place(gen, pos) == Cardinality({a \in Positions(gen) : Sooner(gen, a, pos)})

Sorted(gen) ==
    [n \in 1..Cardinality(Positions(gen)) |->
        EventAt(gen, CHOOSE pos \in Positions(gen) : Place(gen, pos) = n - 1)]

\* Mutant of Timeline: customer after customer.
OneByOne(trips) == FlattenSeq(Generated(trips))

\* generate_timeline
Timeline(trips) == Sorted(Generated(trips))

-----------------------------------------------------------------------------
(* The replay. *)

\* What publish sends: a fresh event_id, and the clock for a time.
Published(ev) ==
    [id |-> runs * (Len(timeline) + 1) + next, type |-> ev.type, embedding |-> ev.label,
     track |-> IF ev.type = "pos_receipt" THEN None ELSE CamTrack,
     role |-> IF ev.type = "staff_observed" THEN "staff"
              ELSE IF ev.type = "pos_receipt" THEN "unknown" ELSE "customer",
     ts |-> now, zone |-> ev.zone, dwell |-> ev.dwell]

Replaying == phase \in {"first", "loop"} /\ next <= Len(timeline)

\* Ticks since the next event fell due; negative while replay sleeps.
Overdue == pace * (now - start) - (timeline[next].at - timeline[1].at)

Due == Replaying /\ (pace = 0 \/ Overdue >= 0)

Begin(ph, at) ==
    /\ runs < MaxRuns
    /\ runs' = runs + 1 /\ next' = 1 /\ start' = at /\ phase' = ph

SynthInit ==
    /\ Init
    /\ now = 0 /\ start = 0 /\ next = 1 /\ runs = 1
    /\ phase = "first" /\ stop = FALSE /\ cut = {}
    /\ pace \in Paces
    /\ \E trips \in [DOMAIN Customer -> Trips] : timeline = Timeline(trips)

\* The clock advances in the sleeps of replay; publishing takes no time.
Tick ==
    /\ Replaying /\ pace > 0 /\ Overdue < 0
    /\ now' = now + 1
    /\ UNCHANGED <<vars, synth, main>>

Publish ==
    /\ Due
    /\ Apply(Published(timeline[next]))
    /\ next' = next + 1
    /\ UNCHANGED <<synth, start, phase, stop, runs, cut, now>>

\* The run is complete: the process loops, or ends if it was told to.
Loop ==
    /\ phase \in {"first", "loop"} /\ next > Len(timeline)
    /\ IF stop THEN phase' = "stopped" /\ UNCHANGED <<next, start, runs>>
               ELSE Begin("loop", now)
    /\ UNCHANGED <<vars, synth, stop, cut, now>>

\* Docker does not restart a container that was being stopped.
Ended == IF stop THEN "stopped" ELSE "down"

\* Mutant of RunFails: the failed task is waited for, and nothing else is done.
RunFailsQuietly ==
    /\ Due
    /\ cut' = cut \cup {runs}
    /\ phase' = "idle" /\ UNCHANGED <<next, start, runs>>
    /\ UNCHANGED <<vars, synth, stop, now>>

\* A publish raises.  Of the first run, a task nobody asks for its result,
\* main only sees that it is done, and loops; in the loop it ends the process.
RunFails ==
    /\ Due
    /\ cut' = cut \cup {runs}
    /\ IF phase = "first" THEN Begin("loop", now)
       ELSE phase' = Ended /\ UNCHANGED <<next, start, runs>>
    /\ UNCHANGED <<vars, synth, stop, now>>

\* SIGINT or SIGTERM.  It cancels the first run; in the loop the stop event is
\* looked at between two runs only.
Signal ==
    /\ Replaying /\ ~ stop
    /\ IF phase = "first"
       THEN phase' = "stopped" /\ cut' = cut \cup {runs} /\ UNCHANGED stop
       ELSE stop' = TRUE /\ UNCHANGED <<phase, cut>>
    /\ UNCHANGED <<vars, synth, next, start, runs, now>>

\* The process is killed, for instance ten seconds after a signal in the loop.
Kill ==
    /\ Replaying
    /\ phase' = Ended /\ cut' = cut \cup {runs}
    /\ UNCHANGED <<vars, synth, next, start, stop, runs, now>>

\* restart: unless-stopped, or an operator.
Restart ==
    /\ phase \in {"down", "stopped"}
    /\ \E d \in Downtimes : now' = now + d
    /\ Begin("first", now') /\ stop' = FALSE
    /\ UNCHANGED <<vars, synth, cut>>

SynthNext ==
    \/ Tick \/ Publish \/ Loop
    \/ RunFails \/ Signal \/ Kill \/ Restart

SynthSpec == SynthInit /\ [][SynthNext]_synthVars

\* Time goes on, the event loop runs _main and its task, and Docker restarts
\* what died; an operator owes nothing.
FairSynthSpec ==
    /\ SynthSpec
    /\ WF_synthVars(Tick)
    /\ WF_synthVars(Publish \/ Loop)
    /\ WF_synthVars(phase = "down" /\ Restart)

-----------------------------------------------------------------------------
(* Properties. *)

SynthTypeOK ==
    /\ now \in Nat /\ start \in 0..now /\ runs \in 1..MaxRuns
    /\ next \in 1..(Len(timeline) + 1)
    /\ \A n \in 1..(Len(timeline) - 1) : timeline[n].at <= timeline[n + 1].at
    /\ phase \in {"first", "loop", "stopped", "down"}
    /\ stop => phase # "first"
    /\ cut \subseteq 1..runs
    /\ applied \subseteq Event

Complete == next > Len(timeline)

\* Each simulated session opens and closes (tests/integration/
\* test_synth_to_metrics.py:50-56): at the end of a timeline nobody is left in
\* the store, also if earlier timelines were cut short and their customers
\* entered again under the same embeddings (synth.py:214-228, 345-352).
NobodyLeftInside == Complete => open = <<>>

Orphans == {v \in DOMAIN sess : sess[v].exited = None /\ v \notin Range(open)}

\* Sessions are abandoned by cut runs only, and then those of customers who
\* were inside at the cut: one each (synth.py:118-228, session.py:135).
OrphanedByCut == Cardinality(Orphans) <= Cardinality(cut) * Len(Customer)

Of(label) == {n \in DOMAIN timeline : timeline[n].label = label}

\* The dwell of label in z told by the first events of the timeline.
Dwelt(label, z) ==
    LET told[n \in 0..Len(timeline)] ==
            IF n = 0 THEN 0
            ELSE told[n - 1]
                   + IF timeline[n].label = label /\ timeline[n].zone = z
                     THEN timeline[n].dwell ELSE 0
    IN  told

TotalDwell(label, z) == Dwelt(label, z)[Len(timeline)]

\* The store recovers the truth the simulator knows: after the first timeline
\* every customer has one session, with the zones and the dwell of the trip,
\* queued if the trip led to the till; and there are as many purchases and
\* waiting receipts as receipts (synth.py:118-228, session.py:102-256).
GroundTruth ==
    Complete /\ runs = 1 =>
        /\ Len(sess) = Len(Customer)
        /\ \A i \in DOMAIN Customer : \E v \in DOMAIN sess :
             LET s == sess[v]
                 trip == {timeline[n].type : n \in Of(Customer[i])}
             IN  /\ s.key = Customer[i] /\ s.exited # None
                 /\ s.checkout # None <=> "checkout_observed" \in trip
                 /\ \A z \in Zone :
                      TotalDwell(s.key, z)
                          = IF s.zones[z] = None THEN 0 ELSE s.zones[z].dwell
        /\ Cardinality({v \in DOMAIN sess : sess[v].receipt # None}) + Len(pending)
             = Cardinality({n \in DOMAIN timeline : timeline[n].type = "pos_receipt"})

\* There is always something to display (synth.py:345-352): a run that begins
\* is completed or cut short, and another one follows unless the process was
\* stopped.
FreshTimelines ==
    \A n \in 1..MaxRuns :
        /\ runs = n ~> Complete \/ n \in cut
        /\ n < MaxRuns => (runs = n ~> runs > n \/ phase = "stopped")
=============================================================================
