SPECIFICATION Spec
CONSTANTS
    Workers = {"w1", "w2"}
    Keys = {"k1", "k2"}
    Rows <- OwnRows
    Joining = {"w2"}
    Preload = FALSE
    FirstRevision = 1
    BulkWriters = {"w1"}
    MaxWrites = 2
    MaxFaults = 1
INVARIANTS OwnWritesVisible SettledAgree
\* Writes run out.
CHECK_DEADLOCK FALSE
