CONSTANTS
    mono = mono
    w1 = w1
    one = one
    other = other
    c1 = c1
    c2 = c2
    narrow = narrow
    wide = wide
    pinned = pinned
    Repositories = {mono}
    Worktrees = {w1}
    RepositoryOf <- MCRepositoryOf
    Sessions = {one, other}
    Successors <- MCSuccessors
    MaxTemporary = 2
    Handled <- MCHandled
    Clients = {c1, c2}
    Shapes = {"wide"}
    Bare = "bare"
    Views = {wide, pinned}
    Folders <- MCFolders
    Foreign = Foreign
    None = None
SPECIFICATION Spec
SYMMETRY Symmetry
INVARIANTS
    OneDraftPerSession
    TemporaryCarriesNoEvidence
    ProjectionMatchesRecord
PROPERTIES
    DurableIsKept
CHECK_DEADLOCK FALSE
