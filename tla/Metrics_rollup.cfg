\* The rollup, the conversion detector and the funnel.  Two ticks to the hour and
\* windows of an odd number of ticks: they begin on an hour or in the middle of
\* one, and over three hours of time hours enter them, straddle their edge, leave.
SPECIFICATION FairSpec
CONSTANTS
    None = None
    Person = {a}
    HourTicks = 2
    RollupWindow = 3
    DropWindow = 5
    ReadWindow = 3
    MinFootfall = 1
    MaxLag = 1
    MaxRows = 2
    MaxTime = 6
INVARIANTS TypeOK CountsNest FunnelCounts
PROPERTIES HistoryFinal CatchesUp ReportedDropped
\* The clock and the table are bounded.
CHECK_DEADLOCK FALSE
