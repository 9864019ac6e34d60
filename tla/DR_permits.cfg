CONSTANTS
    r1 = r1
    r2 = r2
    w1 = w1
    p1 = p1
    veg = veg
    built = built
    Null = Null
    Run = {r1, r2}
    WatchArea = {w1}
    Parcel = {p1}
    Class <- Classes
    ConstructionClass = {built}
    AreaConfig <- AnyArea
    Result <- PermitResults
    Faults = {}
SPECIFICATION FairSpec
INVARIANTS VerdictsOfOneMoment
PROPERTIES VerdictsAreOwn RunningJobsEnd
CHECK_DEADLOCK FALSE
