SPECIFICATION FairSpec
CONSTANTS
    s1 = s1
    s2 = s2
    i1 = i1
    Nobody = Nobody
    Singles = {s1}
    Intervals = {i1}

CHECK_DEADLOCK FALSE

PROPERTIES
    SingleFires
    IntervalKeepsFiring
