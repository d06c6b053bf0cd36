\* A batch of two sessions and two anomalies, two faults, one live session.
SPECIFICATION FairSpec
CONSTANTS
    None = None
    HourTicks = 4
    DayHours = 5
    OpenHours = {1, 2}
    MinStay = 3
    MinToTill = 2
    Draws <- SomeDraws
    BatchSize = 2
    NAlerts = 2
    PingTries = 1
    StartTimes = {22, 29}
    MaxTime = 29
    MaxLive = 1
    MaxFaults = 2
INVARIANTS SeededOnce SeedCoherent
PROPERTIES RolledUp
\* The process may be stopped for good.
CHECK_DEADLOCK FALSE
