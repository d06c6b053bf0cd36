\* The consume loop with failing queries, a failing bus and crashes.
SPECIFICATION FairAggSpec
CONSTANTS
    p = p
    z1 = z1
    None = None
    Malformed = Malformed
    Label = {p}
    Zone = {z1}
    Envelope <- Feed
    Feeds <- Producers
    EngagementDwell = 2
    PosJoinWindow = 3
    ReentryGap = 2
    MaxClosed = 2
    MaxPending = 2
    BatchSize = 2
    MaxFaults = 2
INVARIANTS AggTypeOK TablesCurrent AckedWasApplied
PROPERTIES RowsClimb Settles
\* The feed ends.
CHECK_DEADLOCK FALSE
