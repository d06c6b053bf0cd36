\* Two zones, two ticks to the hour, four shoppers at most.
SPECIFICATION Spec
CONSTANTS
    None = None
    Zone = {z1, z2}
    HourTicks = 2
    Baseline = 3
    ReadWindow = 1
    MinMedian = 1
    Share = 75
    Days <- TheDays
    MaxTime = 5
INVARIANTS SalesNest
PROPERTIES QuietZone
\* The clock and the table are bounded.
CHECK_DEADLOCK FALSE
