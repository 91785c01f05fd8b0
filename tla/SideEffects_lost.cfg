SPECIFICATION Spec
CONSTANTS
    Events = {"a", "b"}
    Matchers = {"a1", "a2", "b1"}
    EventOf <- MCEventOf
    Passive = {"a"}
    Slots = 1
    Price = 1
    Gold = 2
    MaxCount = 2
    HasBlock = TRUE
    Faults <- MCFaults
    MaxDay = 0
    None = None
INVARIANT OneChargePerEvent
\* Every message is handled once.
CHECK_DEADLOCK FALSE
