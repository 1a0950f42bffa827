SPECIFICATION FairSpec
CONSTANTS
    s1 = s1
    v0 = v0
    v1 = v1
    foreign = foreign
    long = long
    Subscribers = {s1}
    Proper = {v0, v1}
    Foreign = {foreign}
    Long = {long}
    Initial = v0
    Capacity = 2
    MaxSent = 3
    MaxCalls = 2

INVARIANTS
    TypeOK
    HoldsTheLatest
PROPERTIES
    ReadsItAll
    ImplementsFeed
