SPECIFICATION FairSpec
CONSTANTS
    Calls = {c1, c2, c3}
    None = None
INVARIANTS MutualExclusion DrainedStaysDrained NoWaitForOwnChild
           CancelReachesItsTarget
PROPERTIES CallsEnd
\* A worker that has shut down stops.
CHECK_DEADLOCK FALSE
