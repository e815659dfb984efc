CONSTANTS
    application = application
    library = library
    c1 = c1
    c2 = c2
    Members = {application, library}
    Dependencies <- MCDependencies
    Callers = {c1, c2}
    Strategies = {"merge", "rebase"}
    Drifting = {library}
    Switched = {application}
    None = None
SPECIFICATION Spec
SYMMETRY Symmetry
INVARIANTS
    ResultIsThere
PROPERTIES
    ImplementsCohort
CHECK_DEADLOCK FALSE
