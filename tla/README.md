# A TLA+ model of the store-analytics pipeline

The program turns camera tracks and till receipts of one shop into sessions, a
purchase funnel, hourly metrics and anomalies. Workers (one per camera, one for
the till, or a synthetic publisher in place of the cameras) publish *envelopes*
to a Redis stream; the aggregator reads them through a consumer group, keeps the
shoppers' sessions in memory and writes them to PostgreSQL; an API and a
dashboard read the tables. At boot the aggregator may fill empty tables with
demo data.

    cameras  --TrackState--+
    till     --PosReplay---+--> stream --Aggregator(SessionStore)--> tables --Metrics,
    simulator --Synth------+              |                           ^       Reports--> API
                                          +--- Visits (abstract)      +--Seed (boot)

Times, thresholds and bounds of the code are CONSTANTS of the modules; the
configurations give them small values in the same order as the real ones.

## Inventory

| Part | State | Operations | What is hard | What makes it correct |
|---|---|---|---|---|
| Session store, `aggregator/session.py` | open sessions by key, recently closed ones (≤ 500), waiting receipts (≤ 200) | `apply`: a handler per event type | events of one shopper in any order; receipts before or after the checkout, the exit, a re-entry; full caches | no join missed, no bill counted twice, joins only in the window, stage = evidence, one visit is one session |
| Consume loop, `aggregator/__main__.py`, `handlers.py`, `db.py`, `events/bus.py` | stream, last-delivered id, pending entries list, fetched batch, the three tables | read, apply, persist (raw event, session, zones), ack | each await can fail, be cancelled or be the place of a crash; the store is lost with the process | rows follow memory, a failed write is healed, stages in the table never fall, nothing is acked unseen, the stream is worked off |
| Boot and demo seed, `aggregator/__main__.py`, `seed.py` | phase of `_main`, the open transaction, the tables | wait for Postgres, seed if empty, refresh, wait for Redis, start the tasks | services come up late, a connection breaks in the middle of some 1900 inserts or at the commit, the process dies anywhere and only looks at emptiness when it is back | seeded whole and once, or not at all; the rows are what their readers presuppose, and reach the rollup |
| Camera handlers, `ingest/track_state.py`, `geom.py`, `video_worker.py` | per track: last point, last sighting, active zones, first crossing | `update` per detection, `gc`, final flush | tracks lost and rediscovered, retired in the middle of a dwell; frames of uneven spacing; rounded dwells; a tripwire that may be drawn in either direction | dwell conserved but for rounding, one zone at a time, queueing published when due and once, one report per track at the door, of the right direction |
| POS replay, `pos/csv_replay.py` | file, parsed rows, position, wall start | parse, publish each row when due, next file | a failing publish, a signal, restarts by Docker | order kept, nothing sent twice in a run, nothing left out of a run that was not cut short |
| Synthetic publisher, `ingest/synth.py` | timeline, position, wall start, stop event | draw and sort a timeline, replay it, loop | overlapping customers at any pace; runs cut short in the middle of visits, whose embeddings return in the next run | the store recovers the simulated truth, cut runs leave little behind, timelines keep coming |
| Rollup and conversion detector, `db.py`, `anomalies.py` | `hourly_metrics`, `anomalies` | refresh (every 30 s), detect (every 60 s) | sessions change after their hour was rolled up; windows that do not begin on an hour | columns agree, the rollup catches up, history is final, a reported drop is one |
| Dead zones, `anomalies.py`; answers of the API, `api/main.py` over `db.py` | rows fetched and not yet inserted; parts of an answer | one query and several inserts; several queries and one answer | the consume loop writes and the clock advances between them; a join that repeats rows under a median | a reported zone is quiet, the parts of an answer fit together |
| Dashboard, `dashboard/app.py` | – | polls the API | – | *not modelled*: layout |
| Camera configuration | YAML read at start | – | – | *not modelled*: roles, tripwires and `inside_side` are the initial states of TrackState |

The hazards, each at its line and with the properties that guard it, are in
`PROJECT.json`.

## Modules

**SessionStore** is `SessionStore.apply`. One action per handler and outcome:
`Reopened`, `Opened`, `Exited`, `ZoneEntered`, `ZoneDwell`, `StaffObserved`,
`CheckoutObserved` (with the reverse join against the waiting receipts),
`ReceiptJoined`, `ReceiptBuffered`, `Ignored` (all the noop returns).
`recompute_stage` is part of the actions whose handlers call it.
`sess` holds every session ever made and an id is an index into it; `open` and
`closed` are the dictionaries, as sequences of ids in Python's insertion order,
since that order decides ties in the receipt scan; `pending` is the deque.
`delta` is what `apply` returned last. `applied` is history: an envelope is
delivered once. The feed is a constant set of envelopes, applied in any order,
any of them possibly never: a superset of what unsynchronised producers deliver.
Times are integers, and event order is independent of time stamps, as in the
code, which reorders nothing.

**Visits** says abstractly what the store promises of visits: one changes at a
time, leaving and coming back keep the stage, the stage only rises.
`SessionStore!ImplementsVisits` is the refinement, with
`visit <- [stage, exited = None]` of every session.

**Aggregator** extends SessionStore with the stream, the consumer group and the
loop, one action per await: `Fetch`, `DropMalformed`, `Take` (apply, before
anything is written), `PersistRaw`, `PersistSession`, `PersistVisit`, each with
its failing twin, `Ack`; `BusFails` (an exception ends the consume task while
the process lives on), `Crash`, `Restart`. `raw_events`, `sessions` and
`session_zone_visits` are updated by what their SQL does on conflict. A
cancellation at shutdown is `Crash`: it too stops the loop at an await. Producers
publish their own envelopes in order and interleave. The loop creates its group
at id 0, so it starts with everything undelivered.

**Synth** extends SessionStore with the synthetic publisher in front of it.
`SessionEvents` is `_session_events` over an abstract draw (slot, shelves and
dwells, till or not, delay of the receipt), `Generated` what `generate_timeline`
collects (the customers in turn, then the staff), `Timeline` its stable sort,
which `Sorted` defines by the number of events that go before each one. `Publish` re-stamps the next event
once it is due and the store applies it in the same step: the stream keeps the
order and `apply` reads no clock, so when it is read makes no difference to what
is computed. `RunFails` is a publish that raises, `Signal`, `Kill` and
`Restart` (after a downtime, which may be longer than the re-entry gap) the
rest; a signal ends the first run at once but is only looked at between two
runs of the loop. Every run has the same timeline, as in the code, whose seed
is fixed. `cut` is history.

**Seed** is `_main` up to its tasks: `WaitForDb`, `IsEmpty` (with the generator,
over abstract draws), one `Insert` per session or anomaly inside an open
transaction, `Commit`, `BootRefresh`, `Ping`, `Start`; each query can fail
(`SeedFails`), the commit can be lost on its way back (`CommitUnanswered`), the
process can die at any step (`Crash`), give up on Postgres (`WaitTimesOut`) and
comes back (`Restart`). Afterwards the consume loop inserts (`Live`) and the
periodic rollup counts what it sees.

**TrackState** is one camera's worker: a frame loop over the handler of the
camera's role. `DoorSees`, `ShelfSees`, `TillSees`, `StaffSees` are the
`update` methods, `NextFrameAfterGc` a frame that ends in `gc`, `Stop` the final
flush. Whether a given frame ends in `gc` is left open, since the code counts
frames, not seconds. At the door a foot point is a pixel, and the tripwire a
directed segment: `SignedSide` and `Crossed` are `geom.py`'s, `IsEntry` the table
over `inside_side`. For shelves and till a foot point is what the handler asks of
it, the first zone that contains it. The clock is finer than the tenth of a
second to which `Rounded` rounds a published dwell; a dwell half-way between two
tenths is rounded by its binary form, so which of these go up is a constant
(`TiesUp`). The history is kept apart from the handler's state and is about what
was published: `seenIn`, `told` and `dwells` (time watched, dwell published, in
how many envelopes), `walk` (the halves of the frame a track at the door was in
and what was published of it) and `stay` (since when a track at the till is where
it is, and what was published of it since). The halves are told apart by
coordinates (`Half`), not by the handler's own test.

**PosReplay** is the till's replay service: `OpenFile` parses and sorts a file and
starts its task, `Publish` sends the next row once it is `Due`, `PublishFails`
ends the task and goes on with the next file, `Stop` is a signal or a kill,
`Restart` the container's restart policy. `cut` is history: the replays that a
failure or a signal cut short.

**Metrics** has the `sessions` table written in between (`Insert`, possibly
late, and `Advance`), the clock, `Refresh`, `DetectDrop` and the funnel query.
An average of rates is compared exactly, over the product of the denominators.

**Reports** has the tables written in between as well, and two readers: the
dead-zone detector (`Detect` is its query, `Report` one insert of what it
fetched, `ReportFails` the end of the pass) and `/sales`, three queries in one
transaction, each of which sees what is committed when it runs while `now()`
stays at the transaction's start. `percentile_cont(0.5)` is defined over how
often each count occurs, join copies included.

The **MC** modules define feeds, draws and days; Metrics needs none. The
**…Proofs** modules hold the theorems: SessionStoreProofs, with the refinement of
Visits, AggregatorProofs and SynthProofs (which extend it), TrackStateProofs,
PosReplayProofs, SeedProofs, MetricsProofs and ReportsProofs.

## Runs

| Run | Shows | Bounds |
|---|---|---|
| `session_join` | `NoMissedJoin`, `ReceiptOnce`, `JoinSound`, `DeltaCoversChange` in every order of a feed | 11 events: two shoppers, two checkouts of one around a receipt, receipts at distances inside, at the edge of and outside the window, more receipts than the deque holds, an exit and a re-entry |
| `session_visits` | `FiledOnce`, `NoSplitVisit`, `StageAgrees`, `ForgetsOldest`, `ImplementsVisits` | 11 events: re-entries just within and after the gap, a shopper known by track only, staff, two zones, an entry without a key; a closed cache of one |
| `aggregator_faults` | `TablesCurrent`, `AckedWasApplied`, `RowsClimb`, `Settles` | five entries of three producers, one malformed, batches of two, up to two faults of any kind: enough for a failed write, its healing by the next delta and a crash in between |
| `synthetic` | `NobodyLeftInside`, `OrphanedByCut`, `GroundTruth`, `FreshTimelines` | two overlapping customers with five different trips each and a staff sighting, two timelines, as fast as possible or in real time, downtimes of nothing and of more than the re-entry gap; every place to cut a run |
| `seed_boot` | `SeededOnce`, `SeedCoherent`, `RolledUp` | a batch of two sessions and two alerts, two faults of any kind, one live session, days of five hours of which two are open; draws with a stay below the minimum, an entry that would be in the future, one after closing time, the earliest and the latest checkout |
| `cameras` | `DwellAccounted`, `InOneZone`, `AnnouncedOnTime`, `DoorReports` | two tracks, two zones, all roles, tripwires in four directions with the store on either side, foot points on the line and on both sides of it; frames 1 or 3 ticks apart around a TTL of 2, four ticks to a tenth of a second, so that dwells are rounded up, down, to zero and at a tie |
| `pos_replay` | `OrderKept`, `OncePerRun`, `AllReplayed` | an unordered file with an unusable row and two rows of one time, a file with nothing usable, a single row; two runs of the container, one failing publish |
| `metrics_rollup` | `CountsNest`, `FunnelCounts`, `HistoryFinal`, `CatchesUp`, `ReportedDropped` | two sessions, two ticks an hour, windows of an odd number of ticks so that an edge falls inside an hour |
| `reports` | `QuietZone`, `SalesNest` | two zones, two ticks an hour, a baseline of one hour and a half: a day of four shoppers who look around, or one of two who buy while a reader asks |
| `bill_kept`, `aggregator_delivery`, `rollup_edge` | each violates a sentence of the documents (see below) | as the run it belongs to |

Each run also checks its module's type invariant where it has one. Deadlock
checking is off in all of them: the feeds are finite, cameras are switched off,
clocks are bounded and containers may be stopped for good.

Why these bounds are enough: each feed holds the events that tell the outcomes
of a handler apart, so that with one more event of the same kind no new guard
combination arises; caches of one or two elements overflow within the feed;
batches of two have a first entry in hand and a second one waiting; two faults
are a failure and another one while it is being repaired; two timelines are a
run and its successor.

Every property has a mutant of the code in `PROJECT.json` that breaks it; the
mutated definitions stand before the true ones in the modules.

### Where the code and its documents differ

With a run that shows it:

* A second checkout of a shopper who holds a receipt swaps receipts and drops
  the first bill (`BillKept`).
* Entries read and not acknowledged at a crash are never read again
  (`AtLeastOnce`).
* The hour at the edge of the rollup's window is overwritten with partial counts
  (`RateOfTheHour`).

Read off the code, and listed with their quotes in `PROJECT.json`:

* Sessions: of equally close checkouts the last scanned wins, not the earliest;
  an entry while a session is open under the key orphans it; a receipt goes to
  the closest checkout, which need not be its own, so the buffer of waiting
  receipts need not drain; events are not held back to be reordered.
* Cameras: a track that entered is not reported leaving, so in video mode
  sessions stay open unless the tracker loses the person in between; a dwell
  flushed by `gc` is out of order; staff are reported once per track rather
  than at an interval; `first_visit_in_session` is always true; with a tripwire
  drawn up the frame, or from left to right, `inside_side` names the half that is
  *not* the store (the shipped one is drawn down the frame, where it fits).
* Publishers: every timeline of the loop is the same one again; a first run that
  failed is taken for complete; `TIME_SHIFT` changes nothing.
* Boot and seed: the wait for Redis ends whether or not Redis is there, and then
  the consume task dies at once; seeded sessions fall outside the opening hours
  and some are engaged without a dwell of 20 s.
* Detectors: the footfall detector cannot fire; the boundary and the "prior
  hours" of the conversion detector; dead zones know no opening hours and miss a
  zone without any visitor; an hour of staff only keeps its row.

## Fairness

* `FairAggSpec`: weak fairness of the consume task, which the event loop runs
  whenever it is ready and not dead, and of `Restart`, since the container has
  `restart: unless-stopped`. Nothing is assumed of producers, faults or crashes.
  Weak fairness of the whole task suffices: at each point of its sequential loop
  a normal outcome is enabled.
* `FairSynthSpec`: weak fairness of the clock, of the event loop that runs
  `_main` and its task (`Publish \/ Loop`), and of the restart of a container
  that died; none of failures, signals, kills, or the restart of one that was
  stopped.
* `Seed!FairSpec`: weak fairness of the boot, of the periodic rollup, which
  catches every exception and goes on (`__main__.py:60-70`), of the services,
  which Docker's health checks wait for, and of `Restart`; none of faults.
* `PosReplay!FairSpec`: weak fairness of the clock and of the event loop that runs
  `_main` and its task; none of failures, signals and restarts.
* `Metrics!FairSpec`: weak fairness of `Refresh`, as for `Seed`.

Safety properties are checked without relying on any of it.

## Proofs

The theorems hold for every feed, label set, threshold, window and bound that
satisfies the named assumptions of its module.

| Theorem | Property | Inductive invariant |
|---|---|---|
| *SessionStore* | | |
| `Typing` | `TypeOK` | itself |
| `StageCorrect` | `StageAgrees` | with `TypeOK` |
| `JoinsInWindow` | `JoinSound` | with `TypeOK` |
| `DeltaComplete` | `DeltaCoversChange` | `TypeOK` |
| `OneEntryPerShopper` | `FiledOnce` | with `TypeOK` |
| `VisitsNotSplit` | `NoSplitVisit` | with `FiledOnce` |
| `NothingLeftWaiting` | `NoMissedJoin` | with `FiledOnce` |
| `BillsCountOnce` | `ReceiptOnce` | with `FiledOnce`; `ReceiptInv`: also, every waiting or held receipt was applied |
| `OldestForgotten` | `ForgetsOldest` | `TypeOK`, `FiledOnce` |
| `VisitsImplemented` | `ImplementsVisits` | `TypeOK`, `FiledOnce`, `StageAgrees` |
| *Aggregator* | | |
| `StoreSurvives` | `StageAgrees`, `FiledOnce`, `NoSplitVisit`, `NoMissedJoin`, `JoinSound`, `ReceiptOnce` | `StoreInv`, `ReceiptInv`: those of the store, in a process that crashes |
| `ProcessImplementsVisits` | `ImplementsVisits` | `ProcessInv` |
| `ProcessDeltaComplete` | `DeltaCoversChange` | `ProcessInv` |
| `AckedOnlyApplied` | `AckedWasApplied` | `AckedInv`: also, the entry in hand was applied or is malformed |
| `RowsOnlyClimb` | `RowsClimb` | `ProcessInv`, `HandInv`, `RowsInv`: a row's stage is at most its session's |
| `TablesFollow` | `TablesCurrent` | `TablesInv`: the same at every await, but for the session in hand |
| `ProcessTypes` | `AggTypeOK` | `IdsInv`: only ids of the stream are delivered, pending and acknowledged; `SeenInv`: tables and delta speak of sessions and envelopes the store has seen |
| *Synth* | | |
| `TimelineCoherent` | – | none: of `Timeline`, for every draw |
| `SynthTypes` | `SynthTypeOK` | `MainInv`: the phases of `_main` and a coherent timeline; `StoreInv` |
| `NobodyStaysInside` | `NobodyLeftInside` | `InsideInv`: whoever is open has an exit ahead in the timeline |
| `OrphansBounded` | `OrphanedByCut` | `CutInv`: it counts the sessions out of reach, and those an interrupted run leaves |
| `TruthRecovered` | `GroundTruth` | `TruthInv`: after each event of the first run the store knows what was told so far, in an orderly timeline; if `Len(Customer) <= MaxPending` |
| `PromisesToSynth` | `StageAgrees`, `FiledOnce`, `NoSplitVisit`, `NoMissedJoin`, `JoinSound`, `ReceiptOnce` | `MainInv`, `StoreInv`, `ReceiptInv` |
| *TrackState* | | |
| `CameraTypes` | `TypeOK` | `TracksOK`, `ShelvesOK`, `DwellInv`, `StampsOK`: published stamps are in the past |
| `OneZone` | `InOneZone` | `TracksOK`, `ShelvesOK` |
| `OnTime` | `AnnouncedOnTime` | `TracksOK`, `TillOK`: with the mark among the active zones goes one `checkout_observed` published since the stay began, without it none |
| `DwellKept` | `DwellAccounted` | `TracksOK`, `ShelvesOK`, `DwellInv`: the time watched in a zone is the time told plus what the open visit has run up, up to half a tenth per dwell told |
| `DoorReportsPassages` | `DoorReports` | `TracksOK`, `StampsOK`, `DoorOK`: the handler's last point is in a half the track was seen in, and `crossed_dir` is set if and only if something was published |
| *PosReplay* | | |
| `ParsedInOrder` | – | none: of `ParseCsv`, for every file |
| `ReplayTypes` | `TypeOK` | `TaskInv` |
| `PublishedOnce` | `OncePerRun` | `PlaceInv`: a receipt that was sent lies behind the run's place |
| `ReplayedInOrder` | `OrderKept` | `TaskInv`: the rows in hand are those of the file in hand; `PlaceInv`; `OrderInv`: what was published is in order, run by run and file by file |
| *Seed* | | |
| `SeedsOnce` | `SeededOnce` | `SeedInv`: a batch is only made for an empty table, to which nobody else writes then |
| `SeedsCoherent` | `SeedCoherent` | `CoherentInv`: the same of a batch that is still being inserted |
| *Metrics, Reports* | | |
| `RollupTypes` | `TypeOK` | `MetricsInv`, `HoursOK`: buckets are whole hours; `AnomaliesOK`: what is reported is reported of one |
| `CountsAgree` | `CountsNest` | `MetricsInv` |
| `HistoryKept` | `HistoryFinal` | `MetricsInv` |
| `DropsAreDrops` | `ReportedDropped` | `MetricsInv` |
| `FunnelIsCumulative` | `FunnelCounts` | `MetricsInv` |
| `SalesFit` | `SalesNest` | `TableInv`, `AnswerInv`: the queries are in order, and what they found is still there |
| `DeadZonesAreQuiet` | `QuietZone` | `TableInv` |

**The session store.** `TypeOK` is inductive by itself (`TypeOKInit`,
`TypeOKStep`), with lemmas on taking an element out of a sequence, on `Put` and
on `Buffer`. Over it, `EvolutionStep` says once and for all what a handler may do
to the sessions: each one *evolves* (its key and entry stay, its stage stays
right, its zones only gather dwell, a receipt it has is within the window of its
checkout), only the one the delta names changes, and a new one is fresh.
`StageCorrect`, `JoinsInWindow` and `DeltaComplete` follow from that alone. The
dictionaries need more: `FiledOnce` is inductive with `TypeOK` (`FilingStep`),
but `NoSplitVisit` is not without it (two closed sessions under a key would let
an exit overwrite the one that was compared), so the two are proved together.
`NoMissedJoin` rests on the same step lemma, which says that only `Opened`
brings a session into the dictionaries, and on what the two scans search
(`NoMissedJoinStep`). `ReceiptOnce` is not inductive: a receipt that is both in
the deque and still to come could be joined twice. It is once every waiting or
held receipt is known to have been applied.

The step lemmas are stated of applying *any* well-formed envelope, not of the
members of a constant feed. The feed of the model bounds what TLC explores; the
aggregator applies what the group delivers, and the publisher stamps its
envelopes anew in every run, and both use the same lemmas.

**The refinement.** `VisitStep` maps each action to a step of Visits or a
stutter. That leaving and returning keep the stage and that all else raises it
comes from `StageClimbs`: by `StageAgrees` a stage is what the evidence
supports, and a session that evolves only gathers evidence. `FiledOnce` gives
that a session that exits was present, and one that is reopened was not.

**The aggregator.** The store's steps in it are `Take` and `Crash` only
(`StoreMoves`), so the lemmas about handlers carry over; `Crash` only empties
the dictionaries. Hence every promise of the store holds in the process
(`StoreSurvives`), and the process refines Visits: to it a crash is a stutter,
since nobody's stage or presence changes when the memory of it is lost. One
property does not carry over, and is not claimed of the process: a crash forgets
every cached session, not only the oldest (`ForgetsOldest`).
`TablesCurrent` says nothing while a
delta is being written, so it is strengthened: at every await all sessions but
the one in hand have their rows, the one in hand has its session row once that
is written, and its zones except those left. `RowsClimb` needs that a row is
never ahead of its session, and that a session's stage does not fall.

**The synthetic publisher.** Everything rests on the timeline. `Shape` says what
`_session_events` returns for any draw: an entry first and no other, an exit last
and no earlier. Sorting keeps every event once, and those of one time as they
were generated (`SortedFrom`), so the timeline is coherent: each customer enters
once and leaves after that. `InsideInv` then relates the store to the
publisher's place in the timeline. Whoever is open leaves later in this run, also
when the session was left behind by a run that was cut short. It is inductive
because a customer who enters again replaces the entry under the key. What that
replacement orphans is counted by `CutInv`: sessions without an exit are those
nobody can reach any more and, between two runs, those of the run that was cut.
Each cut run adds no more of them than there are customers.

`TruthRecovered` speaks of the first run as it goes. The timeline is *orderly*:
a customer's events lie between the entry and the exit, there is a checkout at
most and no more receipts than customers, and members of staff have labels of
their own. `Learned` compares the store with the events up to `next`. Whoever
has entered has one session, open until the exit (`Arrivals`); its checkout is
there once it was told (`Queues`), and its dwell in each zone is what was told
so far (`Watches`); every receipt so far is held or waits (`Bills`). An event
of a customer finds that session open (`Present`), and an entry finds none
(`Absent`), not even one to reopen; so each handler does what the event says
(`Follows`). `Bills` needs that nothing falls off the deque, so the theorem
assumes room for a receipt per customer: 200 for the default of 30. It needs no
bound on the closed cache. A receipt may join another customer's checkout, and
one whose session has been forgotten stays in the deque, which is why the truth
is about how many there are.

**The cameras.** `TracksOK` types the handler's dictionary. On top of it the
shelf invariant says that a track's active zones are exactly that of its last
point, and the till invariant ties the handler's private mark to what was
published: one `checkout_observed` since the stay began if the mark is set, and
it is set once the stay has lasted (`StayOK`). So a handler that marks without
publishing, or publishes at every frame, is ruled out. For `DwellKept` the
history is split by zone: what was published of a zone a frame did not touch
stays, and each way a visit ends (a move, a retirement by `gc`, the final flush)
publishes what it has run up, rounded. Each rounding is off by half a tenth at
most (`RoundedNear`), whichever way ties go, and one dwell more is one envelope
more (`PaidBalances`). The sum is over the events of one step, of which at most
one is of a given track and zone.

`DoorReportsPassages` is about the geometry. `SideOfFrame` computes the signed
area of an upright or level tripwire, which is its length times the distance of
the point from it: its sign is the half of the frame up to the direction of the
segment (`SignOfProduct`). `CrossingIsSeen` concludes that a crossing is a step
between the halves, an entry in the table of the code if and only if it leads
into the named half of an aligned tripwire, or out of that of one drawn the other
way. `DoorOK` adds what the walk so far and `crossed_dir` have to do with each
other. Oblique tripwires are excluded by the assumption: for them `left` and
`top` do not name halves of the frame.

**The seed.** The rows are made by pure functions of a draw (`MadeCoherent`);
`CoherentInv` carries what is said of them through the inserts and the commit,
while the clock goes on. That an entry is around opening time is arithmetic of
whole hours (`NearAnOpenHour`): the hour drawn is open, and the entry is at most
an hour after its counterpart of now, or, put back from the future, before. This
is less than "a session the store could have recorded": sessions may be engaged
with dwells from 15 s, and exits and checkouts may lie in the future of the boot.

**The rest.** For the rollup `CountsAgree` needs cardinalities: customers who
bought are among those who queued, these among all of the hour, and visitors
are no more than visits. `DropsAreDrops` compares fractions by their products: if
the last hour converts worse than 0.7 times the mean of the earlier ones, it
converts worse than one of them. `FunnelIsCumulative` counts the stages from the
last one down. For `/sales` a session that was found with a bill keeps
it and its entry, so a later query with an equal or wider window finds it unless
it has become staff. For a dead zone the join repeats each hour as often as there
are visits of the zone, all hours alike, so half of the copies are half of the
hours.

**Recursion.** Induction over data is beyond the provers, and a few things here
are defined by recursion: where a simulated customer stands after so many
shelves, the dwell told so far, the conversion rates added up, the place of a
row in a sort. Where a
theorem speaks of one, the induction is replaced by a least counterexample among
the naturals, or by a function that is written down and shown to satisfy the
recursion. That is why sorts are defined by counting who goes before rather
than by a recursive operator, and the average rate by a recursive function over
row numbers.

**Assumptions.** That `None` is no label, time or envelope is what "Python's
None" means; that the zones, sides and marks of a camera are different values is
what their different types mean. Thresholds and windows are natural numbers, and
those the code divides by or that have to pass are not zero. Simulated
customers have different embeddings and their own labels, since each is made
from the customer's number (`synth.py:118-130`), and the seeded shop is open for
at least one hour of the day.

Only model-checked: liveness (`Settles`, `CatchesUp`, `AllReplayed`,
`FreshTimelines`, `RolledUp`), which is beyond the prover. Every other property
a passing run checks is also the statement of a theorem.

## Not modelled

* Trimming of the stream at 100 000 entries, reconnections inside the clients,
  JSON validation (an entry is an envelope or malformed).
* Polygon arithmetic (its answer is an input), oblique tripwires, detection and
  tracking, LOOP_VIDEO rewinding (changes no handler state), a failing publish of
  the video worker, the final flush on a 29 February.
* In Synth: publishes that take time or come late, and paces between 0 and 1,
  which stretch a receipt's delay beyond the join window; the walks between the
  stations of a trip are drawn anew each time, but are constants here (`Pauses`),
  shared by all customers.
* In Reports: a checkout or a receipt stamped before its session's entry, which
  the code does not rule out but none of its producers makes; `SalesNest` rests
  on that.
* In Seed: a process that is down for longer than the rollup's 48 hours, after
  which what it missed is not rolled up any more.
* A command of Redis that takes effect although its answer is lost: `BusFails`
  leaves the group as it was. `parse_csv` raising, which ends the replay as
  `Stop` does.
* The footfall detector, which never fires; the read endpoints that are a single
  query; that `/metrics` sums hours by their beginning, so that its window is not
  that of the sessions' own times; the salesperson, basket and amount columns.
* Camera configuration, the dashboard, logging and the Prometheus counters.

## Plan

1. Producers in full: several cameras' workers in front of the aggregator (a
   dwell flushed by `gc` after the exit, keys per camera), with the stream's
   trimming.
2. The aggregator between faults as an implementation of a table that follows
   the store, stated as a module of its own.
