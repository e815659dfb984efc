CONSTANTS
    h1 = h1
    h2 = h2
    h3 = h3
    d1 = d1
    d2 = d2
    x = x
    y = y
    k1 = k1
    k2 = k2
    v1 = v1
    Documents = {d1, d2}
    Extensions = {x, y}
    Keys = {k1, k2}
    Values = {v1}
    Missing = Missing
    None = None
    Handles <- MCHandles
    Extension <- MCExtension
    Sources <- MCSources
    Writable <- MCWritable
    Accepted <- MCAccepted
    Inputs <- MCInputs
SPECIFICATION MCSpec
PROPERTIES
    ReplacesWhatWasRead
    SoleSourceStaysAccepted
    LocksAreLeft
