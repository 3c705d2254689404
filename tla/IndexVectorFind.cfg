SPECIFICATION FairSearchSpec
CONSTANTS
    Vectors <- MCVectors
    Keys <- MCKeys
INVARIANTS
    SearchTypeOK
    FindsPosition
PROPERTIES
    Returns
CHECK_DEADLOCK FALSE
