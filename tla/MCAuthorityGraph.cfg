CONSTANTS
    r1 = r1
    r2 = r2
    a1 = a1
    a2 = a2
    a3 = a3
    here = here
    there = there
    shared = shared
    None = None
    Repositories <- MCRepositories
    Authorities <- MCAuthorities
    Directory <- MCDirectory
    Changes <- MCChanges
    Checkout <- MCCheckout
    Hosted <- MCHosted
    Related <- MCRelated
    Shapes <- MCShapes
    Bases = {None, shared}
    Strange <- MCStrange
    Listings <- MCListings
SPECIFICATION GrowthSpec
INVARIANTS
    HeldIsLeastClosure
    AcceptedGraphIsRanked
    ConflictIsSharedSubtree
    AuditedChangesAreDisjoint
    DestinationsAreApart
PROPERTIES
    UnchangedSnapshotProtectsPair
    IndependentGrowthKeepsSnapshot
CHECK_DEADLOCK FALSE
