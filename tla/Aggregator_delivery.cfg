\* The consume loop and one crash (expected violated).
SPECIFICATION FairAggSpec
CONSTANTS
    p = p
    z1 = z1
    None = None
    Malformed = Malformed
    Label = {p}
    Zone = {z1}
    Envelope <- Feed
    Feeds <- Producers
    EngagementDwell = 2
    PosJoinWindow = 3
    ReentryGap = 2
    MaxClosed = 2
    MaxPending = 2
    BatchSize = 2
    MaxFaults = 1
PROPERTIES AtLeastOnce
\* The feed ends.
CHECK_DEADLOCK FALSE
