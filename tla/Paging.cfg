SPECIFICATION FairSpec
CONSTANTS
    MaxItems = 3
    Limits <- MCLimits
    Offsets <- MCOffsets
    Absent = Absent
    HalfInt32 = 4
    HalfInt64 = 16
CHECK_DEADLOCK FALSE
INVARIANTS TypeOK WalkDelivers PageWithinLimit LinksAreAccepted
PROPERTIES PagesAreWhole WalkEnds
