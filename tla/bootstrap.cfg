CONSTANTS
    r1 = r1
    r2 = r2
    a1 = a1
    a2 = a2
    a3 = a3
    s1 = s1
    s2 = s2
    t = t
    c1 = c1
    c2 = c2
    Repositories = {r1}
    Authorities = {a1, a2}
    Spaces = {s1, s2}
    Clients <- MCClients
    AuthorityInputs <- MonorepoInputs
    ParentInputs <- MCParentInputs
    DependencyInputs <- MonorepoDependencies
    ClaimInputs <- MCClaimInputs
    AssociationInputs = {r1}
    DispositionInputs = {}
    CallableFrom <- Contending
SPECIFICATION LiveSpec
INVARIANTS
    TypeOK
    ExclusiveAuthority
PROPERTIES
    PreparationEnds
CHECK_DEADLOCK FALSE
