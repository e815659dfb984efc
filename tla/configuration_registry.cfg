CONSTANTS
    e1 = e1
    e2 = e2
    space1 = space1
    space2 = space2
    mono = mono
    nested = nested
    outer = outer
    inner = inner
    nestedFile = nestedFile
    looseFile = looseFile
    directory = directory
    c1 = c1
    None = None
    Stale = Stale
    Extensions = {e1, e2}
    Packs = {1, 2}
    Sources = {1, 2}
    Spaces = {space1, space2}
    Associated <- MCAssociated
    Repositories = {mono, nested}
    Authorities = {outer, inner}
    Host <- MCHost
    Codecs = {"json", "yaml"}
    Files = {nestedFile, looseFile}
    Around <- MCAround
    Bindings <- MCBindings
    Orders = {0, 1}
    Paths = {directory}
    Appointed <- MCAppointed
    Offered <- MCOffered
    Attaching <- MCAttaching
    Before <- MCBefore
    Uses <- MCUses
    MaxGeneration = 3
    Clients = {c1}
SPECIFICATION Spec
INVARIANTS
    PlanFollowsScopes
    GenerationTellsPlan
    DocumentsAgree
    TemporaryIsUnconfigured
PROPERTIES
    RecordedWhereItIs
CHECK_DEADLOCK FALSE
