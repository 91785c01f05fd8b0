SPECIFICATION FairSpec
CONSTANTS
    MaxRecords = 3
    BatchSize = 2
    TriggerSize = 2
    MaxRetain = 2
    MaxPerCycle = 2
    MaxFailures = 2
    MayRaise = {"worker", "stop"}
    None = None
INVARIANTS InOrder Accounted
PROPERTIES RecordsLeave
\* Records run out.
CHECK_DEADLOCK FALSE
