SPECIFICATION Spec
CONSTANTS
    s1 = s1
    s2 = s2
    t1 = t1
    c1 = c1
    c2 = c2
    Nobody = Nobody
    Subscribers = {s1, s2}
    Timers = {t1}
    Configs = {c1, c2}
    MaxStops = 2

CHECK_DEADLOCK FALSE

INVARIANTS
    TypeOK
    
    HandlersExplained
    OneConfig
PROPERTIES
    StopReleases
