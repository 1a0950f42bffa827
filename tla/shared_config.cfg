SPECIFICATION FairSpec
CONSTANTS
    p1 = p1
    p2 = p2
    created = created
    other = other
    value = value
    Absent = Absent
    Nothing = Nothing
    Nobody = Nobody
    Processes = {p1, p2}
    Keys = {created, other}
    Values = {value}
    Created = created
    Stamp = value
    Size <- MCSize

INVARIANTS
    TypeOK
    LastWriteWins
    StartsExplained
PROPERTIES
    SettledForGood
    NotedIsWritten
