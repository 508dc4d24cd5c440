\* Two journal requests at a time against the scheduler, every fault.
SPECIFICATION Spec
CONSTANTS
    u1 = u1
    u2 = u2
    r1 = r1
    r2 = r2
    Underlyings <- OneUnderlying
    Requests <- TwoRequests
    MaxTrades = 2
    LastSnap = 3
    EodSnap = 2
    ExpirySnaps = 2
    PendingDays = 1
    OpenDays = 1
    Gaps <- OneOrTwo
    Faults <- AllFaults
    Punctual = TRUE
SYMMETRY RequestSymmetry
INVARIANTS
    TypeOK
    OnePendingPerUnderlying
    ClosedWasAccepted
    NothingPendingAfterSweep
PROPERTIES
    SlotSpec
