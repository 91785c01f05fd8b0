SPECIFICATION Spec
CONSTANTS
    Keys = {k1}
    Ids = {i1, i2}
    Sources = {s1, s2}
    MaxData = 1
    MaxCrashes = 1
    MaxEdits = 1
    CrashPoints = {"idle", "digest", "drop", "write", "record", "cancel",
                   "settle", "switch", "undo", "recover"}
    HotPhases = {"run"}
    EditKinds = {"replace", "remove"}
    RetryIds = FALSE
    None = None
    Torn = Torn
SYMMETRY Symmetry
INVARIANTS TypeOK WorkersSeeWholeTrees ReceiptsTellTheTruth SettledIsGone
           Consistent
PROPERTIES ImplementsStore
