SPECIFICATION FairSpec
CONSTANTS
    Jobs = {j1, j2}
    None = None
    Base = Base
    Torn = Torn
    Faults = {"stop", "late_error", "cancel_race", "finalize_crash", "eager_job"}
    MaxCrashes = 2
INVARIANTS RunsGoodVersion
PROPERTIES CompletedTellsTheTruth VerdictComes
\* Jobs run out; the worker then runs on.
CHECK_DEADLOCK FALSE
