----------------------------- MODULE TrackState -----------------------------
(***************************************************************************)
(* One camera's worker: the frame loop of services/ingest/video_worker.py  *)
(* over the per-camera handlers of services/ingest/track_state.py, which   *)
(* turn tracker output (a track id and a foot point per person and frame)  *)
(* into envelopes.  The handler is chosen by the camera's role.            *)
(*                                                                         *)
(* At the door a foot point is a pixel, and services/ingest/geom.py says   *)
(* on which side of the tripwire it is.  Elsewhere it is abstracted to     *)
(* what its handler asks of it: the first zone that contains it for a      *)
(* shelf, the counter or not for the till.  The tracker may drop and       *)
(* rediscover a track in any frame.  Times are in ticks, finer than the    *)
(* tenth of a second to which dwell is published.                          *)
(***************************************************************************)
EXTENDS Integers, Sequences, SequencesExt

CONSTANTS
    Track,            \* track ids
    Zone,             \* shelf zones of the camera
    Counter,          \* the zone "cash_counter"
    Announced,        \* the mark "_announced" among the active zones
    Foot,             \* foot points at the door: pixels, y grows downwards
    Tripwires,        \* tripwires the door may be configured with
    None,
    Tenth,            \* ticks in a tenth of a second
    TiesUp,           \* dwells between two tenths whose binary form is the larger
    TrackTTL,         \* TRACK_TTL_S
    CheckoutDwell,    \* CHECKOUT_DWELL_THRESHOLD_S
    StaffInterval,    \* STAFF_OBSERVE_INTERVAL_S
    Steps,            \* time between two processed frames
    MaxTime           \* bound on the clock

Door == {"left", "right", "top", "bottom"}

\* A directed segment, and the half of the frame the store is in.
Tripwire == [segment : (Int \X Int) \X (Int \X Int), inside : Door]

Vertical(w) == w.segment[1][1] = w.segment[2][1] /\ w.segment[1][2] # w.segment[2][2]
Horizontal(w) == w.segment[1][2] = w.segment[2][2] /\ w.segment[1][1] # w.segment[2][1]

\* What a handler distinguishes in a foot point.
Place == Foot \cup Zone \cup {Counter, None}

\* The zones a track is in, with the time it entered them.
ZonesActive == UNION {[D -> Nat] : D \in SUBSET (Zone \cup {Counter, Announced})}

TrackInfo == [point : Place, seen : Nat, crossed : {"in", "out", None}, zones : ZonesActive]

\* A tripwire separates the halves its inside_side is about.  The places that
\* cameras of different roles tell apart are different.
ASSUME TrackAssumption ==
    /\ Foot \subseteq Int \X Int /\ Tripwires \subseteq Tripwire
    /\ \A w \in Tripwires :
         IF w.inside \in {"left", "right"} THEN Vertical(w) ELSE Horizontal(w)
    /\ Steps \subseteq Nat \ {0} /\ {CheckoutDwell, Tenth} \subseteq Nat \ {0}
    /\ {TrackTTL, StaffInterval, MaxTime} \subseteq Nat
    /\ None \notin {"in", "out"} /\ None \notin Nat /\ None \notin Zone
    /\ None # Counter /\ Counter # Announced
    /\ Zone \cap (Foot \cup {Counter, Announced}) = {} /\ None \notin TrackInfo

VARIABLES
    camera,   \* the camera: its role, and the door's tripwire
    now,      \* wall clock, the stamp of the frame in hand
    tracks,   \* handler.tracks: [Track -> info], None when not tracked
    out,      \* envelopes the last step published
    running,  \* the worker's loop
    seenIn,   \* history: time each track was watched in each zone
    told,     \* history: dwell published for it
    dwells,   \* history: in how many envelopes
    walk,     \* history: where a track at the door has been, and what was
              \* published of it
    stay      \* history: since when a track at the till is where it is, and what
              \* was published of it there

history == <<seenIn, told, dwells, walk, stay>>
vars == <<camera, now, tracks, out, running, history>>

\* make_handler: both shelf roles share a handler.
Camera == [role : {"entry_exit"}, tripwire : Tripwires]
    \cup [role : {"shelves", "cash_counter", "back_of_house"}, tripwire : {None}]

\* d[key] = value
With(d, key, value) == [k \in DOMAIN d \cup {key} |-> IF k = key THEN value ELSE d[k]]

Info(place) == [point |-> place, seen |-> now, crossed |-> None, zones |-> <<>>]

Event(type, t, zone, dwell, ts) ==
    [type |-> type, track |-> t, zone |-> zone, dwell |-> dwell, ts |-> ts]

Init ==
    /\ camera \in Camera
    /\ now = 0
    /\ tracks = [t \in Track |-> None]
    /\ out = <<>>
    /\ running = TRUE
    /\ seenIn = [t \in Track |-> [z \in Zone |-> 0]]
    /\ told = [t \in Track |-> [z \in Zone |-> 0]]
    /\ dwells = [t \in Track |-> [z \in Zone |-> 0]]
    /\ walk = [t \in Track |-> None]
    /\ stay = [t \in Track |-> None]

-----------------------------------------------------------------------------
(* Bookkeeping for the properties. *)

Tracked(t) == tracks[t] # None

\* The dwells of t in z among these envelopes.
DwellsOf(events, t, z) ==
    {i \in DOMAIN events :
        /\ events[i].type = "zone_dwell"
        /\ events[i].track = t /\ events[i].zone = z}

DwellOf(events, t, z) ==
    SumFunctionOnSet([i \in DOMAIN events |-> events[i].dwell], DwellsOf(events, t, z))

Tell ==
    /\ told' = [t \in Track |-> [z \in Zone |-> told[t][z] + DwellOf(out', t, z)]]
    /\ dwells' = [t \in Track |-> [z \in Zone |->
                    dwells[t][z] + Cardinality(DwellsOf(out', t, z))]]

\* A track is watched in a zone from a frame there to its next frame.
Watch(t) ==
    seenIn' = [seenIn EXCEPT ![t] = [z \in Zone |->
        IF tracks[t] # None /\ tracks[t].point = z THEN @[z] + (now - tracks[t].seen) ELSE @[z]]]

\* How far a point is in the half of the frame that inside_side names.
Depth(w, p) ==
    CASE w.inside = "left"   -> w.segment[1][1] - p[1]
      [] w.inside = "right"  -> p[1] - w.segment[1][1]
      [] w.inside = "top"    -> w.segment[1][2] - p[2]
      [] w.inside = "bottom" -> p[2] - w.segment[1][2]

Half(p) ==
    LET depth == Depth(camera.tripwire, p)
    IN  IF depth = 0 THEN "line" ELSE IF depth > 0 THEN "store" ELSE "mall"

Said == [i \in DOMAIN out' |-> out'[i].type]

\* At the door: the halves t was seen in since it was discovered.
Walk(t, place) ==
    walk' = [walk EXCEPT ![t] =
        IF Tracked(t)
        THEN [from |-> @.from, been |-> @.been \cup {Half(place)}, said |-> @.said \o Said]
        ELSE [from |-> Half(place), been |-> {Half(place)}, said |-> Said]]

\* At the till: the stay of t at the counter, or away from it.
Stand(t, place) ==
    stay' = [stay EXCEPT ![t] =
        IF Tracked(t) /\ tracks[t].point = place
        THEN [since |-> @.since, said |-> @.said \o Said]
        ELSE [since |-> now, said |-> Said]]

\* t is detected, once, in the frame in hand.
InFrame(t) ==
    /\ running
    /\ tracks[t] # None => tracks[t].seen < now
    /\ Tell
    /\ Watch(t)
    /\ UNCHANGED <<camera, now, running>>

-----------------------------------------------------------------------------
(* What a detection does to its track's info, and what it publishes.       *)

\* _TrackInfo of t for this frame: setdefault.
Known(t, place) == IF Tracked(t) THEN tracks[t] ELSE Info(place)

\* Positive on one side of the line through the directed segment, negative on
\* the other.
SignedSide(line, p) ==
    LET a == line[1]
        b == line[2]
    IN  (b[1] - a[1]) * (p[2] - a[2]) - (b[2] - a[2]) * (p[1] - a[1])

\* Mutant of Crossed: a point on the line is on its right.
CrossedOnto(line, prev, curr) ==
    LET sp == SignedSide(line, prev)
        sc == SignedSide(line, curr)
    IN  IF (sp > 0) = (sc > 0) THEN "none"
        ELSE IF sp > 0 THEN "left_to_right" ELSE "right_to_left"

Crossed(line, prev, curr) ==
    LET sp == SignedSide(line, prev)
        sc == SignedSide(line, curr)
    IN  IF sp = 0 \/ sc = 0 \/ (sp > 0) = (sc > 0) THEN "none"
        ELSE IF sp > 0 THEN "left_to_right" ELSE "right_to_left"

\* The table of EntryHandler.update.
IsEntry(inside, direction) ==
    \/ inside \in {"left", "top"} /\ direction = "right_to_left"
    \/ inside \in {"right", "bottom"} /\ direction = "left_to_right"

\* EntryHandler.update: a track is published once, at its first crossing.
DoorSees(t, place) ==
    /\ camera.role = "entry_exit" /\ place \in Foot
    /\ LET info == Known(t, place)
           w == camera.tripwire
           direction == Crossed(w.segment, info.point, place)
           publish == direction # "none" /\ info.crossed = None
           dir == IF IsEntry(w.inside, direction) THEN "in" ELSE "out"
       IN  /\ tracks' = [tracks EXCEPT ![t] =
                [info EXCEPT !.point = place, !.seen = now,
                             !.crossed = IF publish THEN dir ELSE @]]
           /\ out' = IF publish
                     THEN <<Event(IF dir = "in" THEN "person_entered" ELSE "person_exited",
                                  t, None, 0, now)>>
                     ELSE <<>>
    /\ InFrame(t) /\ Walk(t, place) /\ UNCHANGED stay

\* round(dwell, 1), to the nearest tenth.  A dwell between two tenths goes where
\* its binary form is nearer.
Rounded(dwell) ==
    LET rest == dwell % Tenth
    IN  IF 2 * rest > Tenth \/ (2 * rest = Tenth /\ dwell \in TiesUp)
        THEN dwell - rest + Tenth
        ELSE dwell - rest

\* The zone_dwell that closes an active zone: none for a dwell of zero, which is
\* not the same as one that is rounded to zero.
DwellEvents(t, z, dwell, ts) ==
    IF dwell > 0 THEN <<Event("zone_dwell", t, z, Rounded(dwell), ts)>> ELSE <<>>

\* Mutant of Kept: zones are never left.
KeptAll(zones, place) == zones

\* The active zones a track at place has not left.
Kept(zones, place) == Restrict(zones, DOMAIN zones \cap {place})

\* ShelfHandler.update: leave the zone the track was in, enter the one it is in.
ShelfSees(t, place) ==
    /\ camera.role = "shelves" /\ place \in Zone \cup {None}
    /\ LET info == Known(t, place)
           left == DOMAIN info.zones \ {place}
           isNew == place # None /\ place \notin DOMAIN info.zones
           kept == Kept(info.zones, place)
       IN  /\ tracks' = [tracks EXCEPT ![t] =
                [info EXCEPT !.point = place, !.seen = now,
                             !.zones = IF isNew THEN With(kept, place, now) ELSE kept]]
           /\ \E order \in SetToSeqs(left) :
                out' = FlattenSeq([i \in DOMAIN order |->
                           DwellEvents(t, order[i], now - info.zones[order[i]], now)])
                       \o IF isNew THEN <<Event("zone_entered", t, place, 0, now)>>
                                   ELSE <<>>
    /\ InFrame(t) /\ UNCHANGED <<walk, stay>>

\* Mutant of LongEnough: off by one at the threshold.
LongerThan(info) == now - info.zones[Counter] > CheckoutDwell

LongEnough(info) == now - info.zones[Counter] >= CheckoutDwell

\* CashCounterHandler.update: announce once per stay, when it has been long
\* enough; stepping out forgets the stay.
TillSees(t, place) ==
    /\ camera.role = "cash_counter" /\ place \in {Counter, None}
    /\ LET info == Known(t, place)
           arrives == place = Counter /\ Counter \notin DOMAIN info.zones
           announces == /\ place = Counter /\ Counter \in DOMAIN info.zones
                        /\ Announced \notin DOMAIN info.zones
                        /\ LongEnough(info)
       IN  /\ tracks' = [tracks EXCEPT ![t] =
                [info EXCEPT !.point = place, !.seen = now,
                             !.zones = CASE place = None -> <<>>
                                         [] arrives -> With(@, Counter, now)
                                         [] announces -> With(@, Announced, now)
                                         [] OTHER -> @]]
           /\ out' = IF announces
                     THEN <<Event("checkout_observed", t, Counter, 0, now)>>
                     ELSE <<>>
    /\ InFrame(t) /\ Stand(t, place) /\ UNCHANGED walk

\* BohHandler.update: the interval is counted from the last frame the track
\* was seen in.
StaffSees(t, place) ==
    /\ camera.role = "back_of_house" /\ place = None
    /\ IF ~ Tracked(t) \/ now - Known(t, place).seen >= StaffInterval
       THEN /\ tracks' = [tracks EXCEPT ![t] = Info(place)]
            /\ out' = <<Event("staff_observed", t, None, 0, now)>>
       ELSE /\ tracks' = [tracks EXCEPT ![t].point = place, ![t].seen = now]
            /\ out' = <<>>
    /\ InFrame(t) /\ UNCHANGED <<walk, stay>>

-----------------------------------------------------------------------------
(* The frame loop. *)

Expired(at) == {t \in Track : Tracked(t) /\ at - tracks[t].seen > TrackTTL}

\* Mutant of VisitEnd: a retired track's visits run to the time of the gc.
VisitEndsNow(info, at) == at

VisitEnd(info, at) == info.seen

\* gc: tracks not seen for TRACK_TTL_S are retired; the shelf handler closes
\* their zones first, at the time they were last seen.
Retire(at) ==
    /\ tracks' = [t \in Track |-> IF t \in Expired(at) THEN None ELSE tracks[t]]
    /\ \E order \in SetToSeqs({v \in Expired(at) \X Zone :
                                  v[2] \in DOMAIN tracks[v[1]].zones}) :
         out' = FlattenSeq([i \in DOMAIN order |->
                    LET info == tracks[order[i][1]]
                        end == VisitEnd(info, at)
                    IN  DwellEvents(order[i][1], order[i][2],
                                    end - info.zones[order[i][2]], end)])
    /\ Tell
    /\ walk' = [t \in Track |-> IF t \in Expired(at) THEN None ELSE walk[t]]
    /\ stay' = [t \in Track |-> IF t \in Expired(at) THEN None ELSE stay[t]]
    /\ UNCHANGED <<camera, seenIn>>

Advance == \E d \in Steps : now + d <= MaxTime /\ now' = now + d

NextFrame ==
    /\ running
    /\ Advance
    /\ out' = <<>>
    /\ UNCHANGED <<camera, tracks, running, history>>

\* gc runs at the end of a frame, every 5 s of frames; how far apart that is on
\* the wall clock depends on the speed of detection.
NextFrameAfterGc ==
    /\ running
    /\ Advance
    /\ Retire(now)
    /\ UNCHANGED running

\* The source is exhausted, or the task cancelled: a gc in the far future
\* retires everyone.
Stop ==
    /\ running
    /\ running' = FALSE
    /\ Retire(now + TrackTTL + 1)
    /\ UNCHANGED now

Next ==
    \/ \E t \in Track : \E place \in Place :
         \/ DoorSees(t, place) \/ ShelfSees(t, place)
         \/ TillSees(t, place) \/ StaffSees(t, place)
    \/ NextFrame \/ NextFrameAfterGc \/ Stop

Spec == Init /\ [][Next]_vars

-----------------------------------------------------------------------------
(* Properties. *)

InfoOK(info) ==
    /\ info.point \in Place
    /\ info.seen \in 0..now
    /\ info.crossed \in {"in", "out", None}
    /\ DOMAIN info.zones \subseteq Zone \cup {Counter, Announced}
    /\ \A z \in DOMAIN info.zones : info.zones[z] \in 0..info.seen

TypeOK ==
    /\ camera \in Camera /\ now \in 0..MaxTime /\ running \in BOOLEAN
    /\ \A t \in Track : Tracked(t) => InfoOK(tracks[t])
    /\ \A i \in DOMAIN out : out[i].ts \in 0..now

\* No dwell is lost or counted twice, and rounding loses no more than it must:
\* what was published for a track and zone, and what its open visit has run up
\* to, differ from the time it was watched there by at most half a tenth of a
\* second per zone_dwell; across tracks lost and found, retired and flushed
\* (track_state.py:140-191).
DwellAccounted ==
    \A t \in Track : \A z \in Zone :
        LET running_up == IF Tracked(t) /\ z \in DOMAIN tracks[t].zones
                          THEN tracks[t].seen - tracks[t].zones[z] ELSE 0
            missing == seenIn[t][z] - told[t][z] - running_up
        IN  /\ 2 * missing <= Tenth * dwells[t][z]
            /\ -(Tenth * dwells[t][z]) <= 2 * missing

\* A shopper is in the zone the last frame showed and in no other: so a track
\* has at most one zone_dwell to come (track_state.py:157-170).
InOneZone ==
    camera.role = "shelves" =>
        \A t \in Track : Tracked(t) => DOMAIN tracks[t].zones = {tracks[t].point} \ {None}

\* Shoppers who queue are reported, once, and passers-by are not: since a track
\* came to the counter, one checkout_observed has been published of it if it was
\* watched there for the threshold without a break, and nothing before that, nor
\* while it is away (track_state.py:208-234).
AnnouncedOnTime ==
    camera.role = "cash_counter" =>
        \A t \in Track : Tracked(t) =>
            stay[t].said = IF /\ tracks[t].point = Counter
                              /\ tracks[t].seen - stay[t].since >= CheckoutDwell
                           THEN <<"checkout_observed">> ELSE <<>>

\* The tripwire is drawn down the frame, or from its right to its left.
Aligned(w) ==
    IF w.inside \in {"left", "right"} THEN w.segment[1][2] < w.segment[2][2]
    ELSE w.segment[2][1] < w.segment[1][1]

\* What the door says of a track agrees with the halves of the frame it was seen
\* in: it was seen in both if it was reported; it is reported once, by its first
\* way across, however often it goes back and forth; and if it never stood on
\* the line in a frame no crossing goes unreported.  Into the half that
\* inside_side names is an entry, if the tripwire is drawn down the frame or
\* from right to left, as in config/cameras.yaml:34; drawn the other way entries
\* are exits (track_state.py:90-115, geom.py:18-44).
DoorReports ==
    camera.role = "entry_exit" =>
        LET aligned == Aligned(camera.tripwire)
            inwards == IF aligned THEN "person_entered" ELSE "person_exited"
            outwards == IF aligned THEN "person_exited" ELSE "person_entered"
        IN  \A t \in Track : Tracked(t) =>
                LET w == walk[t]
                    both == {"store", "mall"} \subseteq w.been
                IN  /\ w.said \in {<<>>, <<inwards>>, <<outwards>>}
                    /\ w.said # <<>> => both
                    /\ both /\ "line" \notin w.been =>
                         w.said = <<IF w.from = "mall" THEN inwards ELSE outwards>>
=============================================================================
