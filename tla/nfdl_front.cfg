SPECIFICATION Spec
CONSTANTS
    Files <- MCFiles
    Fragile <- MCFragile
    MaxSlips = 3
INVARIANTS
    RecoveryLosesOnlyFaults
    FormatRoundTrips
CHECK_DEADLOCK FALSE
