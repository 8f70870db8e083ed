\* A week, two of which anything may fail on.
SPECIFICATION Spec
CONSTANTS
    BucketProps <- BucketPropsMC
    Lookback = 2
    MinFiles = 2
    MaxFiles = 3
    MaxBytes = 3
    Size <- SizeMC
    Window = 6
    FilesOf <- FilesOfMC
    LastDay = 7
    Flaky = {2, 4}
    Stuck = {{}, {2}}
    MaxRetries = 1
INVARIANTS
    TypeOK
    KeptIsQueryable
    KeptLongEnough
    MergedOnLeaving
PROPERTIES
    SuccessMeansMerged
    OnlyClosedDays
CHECK_DEADLOCK FALSE
