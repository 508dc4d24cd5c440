\* LockedConn: what a thread fetches is what it executed.
SPECIFICATION Spec
CONSTANTS
    w1 = w1
    w2 = w2
    t1 = t1
    t2 = t2
    Loop = loop
    Puller = puller
    Workers <- TwoWorkers
    Writers <- NoWriter
    Trades <- OneTrade
    Lookback = 2
    Punctual = TRUE
    None = None
INVARIANTS
    FetchesOwnRows
