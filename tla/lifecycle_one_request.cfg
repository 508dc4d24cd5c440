\* One journal request at a time, ticks may be missed, every fault.
SPECIFICATION Spec
CONSTANTS
    u1 = u1
    u2 = u2
    r1 = r1
    r2 = r2
    Underlyings <- OneUnderlying
    Requests <- OneRequest
    MaxTrades = 2
    LastSnap = 3
    EodSnap = 2
    ExpirySnaps = 1
    PendingDays = 1
    OpenDays = 3
    Gaps <- AnyGap
    Faults <- AllFaults
    Punctual = FALSE
INVARIANTS
    StaleExpiredBeforeIssue
    ShadowOnlyOfSkipped
    NeverReopened
