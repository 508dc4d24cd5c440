\* P6-E: nothing stays uncommitted between ticks, when a tick fails.
SPECIFICATION Spec
CONSTANTS
    u1 = u1
    u2 = u2
    r1 = r1
    r2 = r2
    Underlyings <- OneUnderlying
    Requests <- OneRequest
    MaxTrades = 2
    LastSnap = 3
    EodSnap = 2
    ExpirySnaps = 1
    PendingDays = 1
    OpenDays = 3
    Gaps <- Overnight
    Faults <- TickFault
    Punctual = TRUE
INVARIANTS
    NoTransactionBetweenTicks
