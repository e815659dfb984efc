CONSTANTS
    r1 = r1
    r2 = r2
    a1 = a1
    a2 = a2
    a3 = a3
    s1 = s1
    s2 = s2
    t = t
    c1 = c1
    c2 = c2
    Repositories <- MCRepositories
    Authorities <- MCAuthorities
    Spaces <- MCSpaces
    Clients = {c1, c2}
    AuthorityInputs <- MCAuthorityInputs
    ParentInputs = {}
    DependencyInputs <- MCDependencyInputs
    ClaimInputs = {}
    AssociationInputs = {}
    DispositionInputs = {}
    CallableFrom <- AnyUntilFinalized
SPECIFICATION NestedSpec
SYMMETRY Interchangeable
INVARIANTS
    ExclusiveAuthority
    AccountedOrFrozen
    LeasesWithinPlan
    Inductive
    ReleasedWorkIsOwed
    WorktreesAreRecorded
CHECK_DEADLOCK FALSE
