\* P0-2: recommendations of an earlier session expire, over a weekend.
SPECIFICATION Spec
CONSTANTS
    u1 = u1
    u2 = u2
    r1 = r1
    r2 = r2
    Underlyings <- OneUnderlying
    Requests <- OneRequest
    MaxTrades = 2
    LastSnap = 3
    EodSnap = 2
    ExpirySnaps = 1
    PendingDays = 1
    OpenDays = 3
    Gaps <- Weekend
    Faults <- SweepFault
    Punctual = TRUE
INVARIANTS
    PriorSessionExpired
