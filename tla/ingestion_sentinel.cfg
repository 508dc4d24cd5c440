\* _day_complete: the sentinel's file means that a day is complete.
SPECIFICATION Spec
CONSTANTS
    api = api
    pipeline = pipeline
    Procs <- TheApi
    Api = api
    NumUnderlyings = 2
    Sentinel = 1
    LastDay = 2
    LastTime = 3
    SnapOf <- PairsOfTimes
    WholeSnaps = TRUE
    Faults <- Restarts
INVARIANTS
    SentinelMeansComplete
