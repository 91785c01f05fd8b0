SPECIFICATION FairSpec
CONSTANTS
    Requests = {r1, r2}
    Paths = {p1, p2}
    Connections = {c1, c2}
    Delay <- MCDelay
    Window <- MCWindow
    MaxGap = 2
    VerifyFails = TRUE
    MaxExits = 1
    MaxUnanswered = 1
INVARIANTS ReceiptOnce
PROPERTIES RequestIsServed
\* Requests run out.
CHECK_DEADLOCK FALSE
