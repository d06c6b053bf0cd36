\* Three files, two starts of the container, one failing publish.
SPECIFICATION FairSpec
CONSTANTS
    None = None
    Files <- CsvFiles
    Pace = 1
    MaxTime = 3
    MaxRuns = 2
    MaxFaults = 1
INVARIANTS TypeOK OrderKept OncePerRun
PROPERTIES AllReplayed
\* The container is not started for ever.
CHECK_DEADLOCK FALSE
