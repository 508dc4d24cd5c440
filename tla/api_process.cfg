\* Two workers, both inside the journal endpoints, every failure.
SPECIFICATION FairSpec
CONSTANTS
    w1 = w1
    w2 = w2
    t1 = t1
    t2 = t2
    Loop = loop
    Puller = puller
    Workers <- TwoWorkers
    Writers <- TwoWorkers
    Trades <- OneTrade
    Lookback = 2
    Punctual = TRUE
    None = None
INVARIANTS
    TypeOK
    NoQueryInSwap
    TodayInView
    NothingLeftUncommitted
    PayloadShowsOnce
PROPERTIES
    PartitionsSurface
