\* The API and run_pipeline.py, killed and restarted at any time.
SPECIFICATION Spec
CONSTANTS
    api = api
    pipeline = pipeline
    Procs <- Both
    Api = api
    NumUnderlyings = 2
    Sentinel = 1
    LastDay = 2
    LastTime = 3
    SnapOf <- PairsOfTimes
    WholeSnaps = TRUE
    Faults <- AllFaults
INVARIANTS
    TypeOK
    NothingMissingBehindWatermark
PROPERTIES
    RowsStay
