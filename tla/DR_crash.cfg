CONSTANTS
    r1 = r1
    r2 = r2
    w1 = w1
    p1 = p1
    veg = veg
    built = built
    Null = Null
    Run = {r1, r2}
    WatchArea = {w1}
    Parcel = {}
    Class <- Classes
    ConstructionClass = {built}
    AreaConfig <- AnyArea
    Result <- OneResult
    Faults = {"ctx", "crash"}
SPECIFICATION FairSpec
PROPERTIES ExecutionsEnd
CHECK_DEADLOCK FALSE
