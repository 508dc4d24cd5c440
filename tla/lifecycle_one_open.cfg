\* F9: one ACCEPTED trade per underlying.
SPECIFICATION Spec
CONSTANTS
    u1 = u1
    u2 = u2
    r1 = r1
    r2 = r2
    Underlyings <- OneUnderlying
    Requests <- OneRequest
    MaxTrades = 2
    LastSnap = 3
    EodSnap = 2
    ExpirySnaps = 2
    PendingDays = 1
    OpenDays = 3
    Gaps <- Overnight
    Faults <- NoFaults
    Punctual = TRUE
INVARIANTS
    OneOpenPerUnderlying
