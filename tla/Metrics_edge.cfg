\* The hour at the edge of the window (expected violated).
SPECIFICATION Spec
CONSTANTS
    None = None
    Person = {a}
    HourTicks = 2
    RollupWindow = 3
    DropWindow = 5
    ReadWindow = 3
    MinFootfall = 1
    MaxLag = 1
    MaxRows = 2
    MaxTime = 6
PROPERTIES RateOfTheHour
\* The clock and the table are bounded.
CHECK_DEADLOCK FALSE
