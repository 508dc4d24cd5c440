\* Two underlyings, every session ticked and swept, ticks may fail.
SPECIFICATION FairSpec
CONSTANTS
    u1 = u1
    u2 = u2
    r1 = r1
    r2 = r2
    Underlyings <- TwoUnderlyings
    Requests <- OneRequest
    MaxTrades = 2
    LastSnap = 2
    EodSnap = 1
    ExpirySnaps = 1
    PendingDays = 1
    OpenDays = 3
    Gaps <- AnyGap
    Faults <- TickFault
    Punctual = TRUE
PROPERTIES
    PositionsClose
    RecommendationsResolve
    ShadowsClose
INVARIANTS
    PriorSessionExpired
