CONSTANTS
    application = application
    library = library
    c1 = c1
    c2 = c2
    Members = {application, library}
    Dependencies <- MCDependencies
    Callers = {c1}
    Strategies = {"merge", "rebase"}
    Drifting = {library}
    Switched = {application}
    None = None
SPECIFICATION Spec
INVARIANTS
    ReconciledAtDestination
CHECK_DEADLOCK FALSE
