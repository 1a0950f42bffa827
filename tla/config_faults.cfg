SPECIFICATION Spec
CONSTANTS
    created = created
    other = other
    value = value
    Absent = Absent
    Nothing = Nothing
    Keys = {created, other}
    Values = {value}
    Created = created
    Stamp = value
    Size <- MCSize
    Faults = {"kill", "open", "error", "short", "throw"}

INVARIANTS
    TypeOK
    NoLostCommit
    NotedHasWriter
    StartLoads
PROPERTIES
    EmptyIsFinal
    FailedWriteIsFinal
