\* The whole desk: every market before the first card, a few of them after it.
SPECIFICATION Spec
CONSTANTS
    None = None
    Underlying = "NIFTY"
    Times <- DeskTimes
    Watched <- DeskWatched
    MaxTrades = 2
    MaxSnaps = 3
    Premium = 10000
    Theta = 300
    Quotes <- AllQuotes
    Opening <- AllMarkets
    Later <- LaterMarkets
    Dead <- Gone
CHECK_DEADLOCK FALSE
INVARIANTS
    TypeOK
    MirrorBias
    SpikeCoversVelocity
    GateAgreesWithVote
    FailuresEarnThreePoints
    MaxPainBalances
    ExpiryCardsAreStrong
    ExitIsRecorded
    SustainedNoGo
    StopRisesInGain
PROPERTIES
    ShadowsDecisive
