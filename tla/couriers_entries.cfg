SPECIFICATION Spec
CONSTANTS
    o1 = o1
    o2 = o2
    a1 = a1
    a2 = a2
    t1 = t1
    Missing = Missing
    Unlisted = Unlisted
    Null = Null
    Empty = Empty
    Nothing = Nothing
    Outputs = {o1, o2}
    Inputs = {a1, a2}
    Targets = {t1}

INVARIANTS
    TypeOK
    UserTargetKept
    ConnectsAsEdited
    OneListsItself

PROPERTIES
    FirstPublisherStays
    NullIsFinal
