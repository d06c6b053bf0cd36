\* Visits: entering, leaving, returning, zones.
SPECIFICATION Spec
CONSTANTS
    p = p
    q = q
    t = t
    z1 = z1
    z2 = z2
    None = None
    Label = {p, q, t}
    Zone = {z1, z2}
    Envelope <- VisitFeed
    EngagementDwell = 2
    PosJoinWindow = 3
    ReentryGap = 2
    MaxClosed = 1
    MaxPending = 2
INVARIANTS FiledOnce NoSplitVisit StageAgrees
PROPERTIES ForgetsOldest ImplementsVisits
\* The feed ends.
CHECK_DEADLOCK FALSE
