\* Two customers, two timelines, any of them cut short.
SPECIFICATION FairSynthSpec
CONSTANTS
    c1 = c1
    c2 = c2
    s1 = s1
    t = t
    z1 = z1
    z2 = z2
    None = None
    Label = {c1, c2, s1, t}
    Zone = {z1, z2}
    \* The feed is what is published.
    Envelope = {}
    EngagementDwell = 2
    PosJoinWindow = 9
    ReentryGap = 6
    MaxClosed = 4
    MaxPending = 4
    Customer <- TwoCustomers
    CamTrack = t
    Slot = 2
    Trips <- SomeTrips
    Pauses <- Short
    StaffPings <- OnePing
    Paces = {0, 1}
    Downtimes = {0, 7}
    MaxRuns = 2
INVARIANTS SynthTypeOK NobodyLeftInside OrphanedByCut GroundTruth
PROPERTIES FreshTimelines
\* The container is not started for ever.
CHECK_DEADLOCK FALSE
