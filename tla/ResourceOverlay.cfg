SPECIFICATION Spec
CONSTANTS
    Payload <- MCPayload
    Installers = {"hot"}
    Releases <- MCReleases
    Together = FALSE
    RollbackErrors = FALSE
    MaxRuns = 3
    MaxEdits = 2
    MaxCrashes = 1
INVARIANTS VersionLast
PROPERTIES EditsSurvive RolledBack
\* Runs and edits are used up.
CHECK_DEADLOCK FALSE
