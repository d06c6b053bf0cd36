\* A receipt, once assigned, is taken over by the next (expected violated).
SPECIFICATION Spec
CONSTANTS
    p = p
    q = q
    t = t
    z1 = z1
    z2 = z2
    None = None
    Label = {p, q, t}
    Zone = {}
    Envelope <- JoinFeed
    EngagementDwell = 2
    PosJoinWindow = 3
    ReentryGap = 2
    MaxClosed = 2
    MaxPending = 2
PROPERTIES BillKept
CHECK_DEADLOCK FALSE
