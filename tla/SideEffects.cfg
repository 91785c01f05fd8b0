SPECIFICATION FairSpec
CONSTANTS
    Events = {"a", "b"}
    Matchers = {"a1", "a2", "b1"}
    EventOf <- MCEventOf
    Passive = {"a", "b"}
    Slots = 1
    Price = 1
    Gold = 2
    MaxCount = 1
    HasBlock = TRUE
    Faults <- MCFaults
    MaxDay = 1
    None = None
INVARIANTS GoldConserved OneAtATime CountWithinLimit NothingLeftBehind
PROPERTIES MessagesAdmitted
\* Every message is handled once.
CHECK_DEADLOCK FALSE
