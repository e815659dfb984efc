CONSTANTS
    Clients = {c1, c2, c3}
    Edits = {e1}
    Nothing = Nothing
    MaxGeneration = 4
SPECIFICATION FairSpec
INVARIANTS
    CommitSeesItsSnapshot
PROPERTIES
    LockIsReleased
    ImplementsRegister
CHECK_DEADLOCK FALSE
