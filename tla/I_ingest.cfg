CONSTANTS
    c1 = c1
    c2 = c2
    k = k
    x = x
    y = y
    z = z
    Call = {c1, c2}
    Scene = {k, x, y, z}
    Source <- Meeting
    Date <- TwoDates
    Clear = {x, y, z}
    Limit = 2
    Faults = {"raster", "source", "catalog", "notify"}
SPECIFICATION FairSpec
INVARIANTS TypeOK CountsAreTrue
PROPERTIES PairsAreNewest NewestPairIsCompared
CHECK_DEADLOCK FALSE
