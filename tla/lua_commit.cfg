SPECIFICATION Spec
CONSTANTS
    binding = binding
    k = k
    other = other
    t1 = t1
    t2 = t2
    Binding = binding
    Names <- MCNames
    Text <- MCText
    UserDocs <- MCUserDocs
    Edits <- MCEdits
    Inserted <- MCInserted

INVARIANTS
    TypeOK
    StartsAgain
PROPERTIES
    FirmKept
    Erodes
    InsertNotCommitted
