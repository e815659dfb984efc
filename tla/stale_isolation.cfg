CONSTANTS
    r1 = r1
    r2 = r2
    a1 = a1
    a2 = a2
    a3 = a3
    s1 = s1
    s2 = s2
    t = t
    c1 = c1
    c2 = c2
    Repositories <- MCRepositories
    Authorities <- MCAuthorities
    Spaces <- MCSpaces
    Clients <- MCClients
    AuthorityInputs <- MCAuthorityInputs
    ParentInputs <- MCParentInputs
    DependencyInputs <- MCDependencyInputs
    ClaimInputs = {}
    AssociationInputs = {}
    DispositionInputs = {"integrated"}
    CallableFrom <- Documented
SPECIFICATION SeededSpec
INVARIANTS
    LockedHoldsPlan
CHECK_DEADLOCK FALSE
