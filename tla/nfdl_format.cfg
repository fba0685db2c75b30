SPECIFICATION Spec
CONSTANTS
    Files <- MaskFamily
    Fragile = {}
    MaxSlips = 0
INVARIANTS
    FormatRoundTrips
CHECK_DEADLOCK FALSE
