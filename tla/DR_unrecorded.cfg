CONSTANTS
    r1 = r1
    r2 = r2
    w1 = w1
    p1 = p1
    veg = veg
    built = built
    Null = Null
    Run = {r1}
    WatchArea = {w1}
    Parcel = {}
    Class <- Classes
    ConstructionClass = {built}
    AreaConfig <- AnyAndBuilt
    Result <- TwoResults
    Faults = {"ctx"}
SPECIFICATION Spec
INVARIANTS PersistedMeansJobUpdated
CHECK_DEADLOCK FALSE
