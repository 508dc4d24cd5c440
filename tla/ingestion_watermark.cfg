\* watermark.py: readers always see a complete file.
SPECIFICATION Spec
CONSTANTS
    api = api
    pipeline = pipeline
    Procs <- Both
    Api = api
    NumUnderlyings = 2
    Sentinel = 1
    LastDay = 2
    LastTime = 3
    SnapOf <- PairsOfTimes
    WholeSnaps = TRUE
    Faults <- NoFaults
INVARIANTS
    WatermarkReadable
