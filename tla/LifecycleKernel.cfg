SPECIFICATION FairSpec
CONSTANTS
    Components <- MCComponents
    Names <- MCNames
    DependsOn <- MCDependsOn
    Fatal <- MCFatal
    ParallelSafe <- MCParallelSafe
    Priority <- MCPriority
    StopPriority <- MCStopPriority
    MaxStarts = 2
    StopErrors = FALSE
    MaxOps = 2
INVARIANTS DependenciesAreUp OneInstance
PROPERTIES RestartTellsTheTruth ShutdownCompletes
\* Operations run out.
CHECK_DEADLOCK FALSE
