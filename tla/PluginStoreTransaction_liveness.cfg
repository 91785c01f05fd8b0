SPECIFICATION FairSpec
CONSTANTS
    Keys = {k1, k2}
    Ids = {i1}
    Sources = {s1}
    MaxData = 0
    MaxCrashes = 1
    MaxEdits = 0
    CrashPoints = {"idle", "digest", "switch", "undo",
                   "recover", "rollback", "finalize", "settle", "record"}
    HotPhases = {"run"}
    EditKinds = {"remove"}
    RetryIds = TRUE
    None = None
    Torn = Torn
PROPERTIES TrialsEnd
