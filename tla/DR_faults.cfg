CONSTANTS
    r1 = r1
    r2 = r2
    w1 = w1
    p1 = p1
    veg = veg
    built = built
    Null = Null
    Run = {r1, r2}
    WatchArea = {w1}
    Parcel = {}
    Class <- Classes
    ConstructionClass = {built}
    AreaConfig <- AnyAndBuilt
    Result <- TwoResults
    Faults = {"db"}
SPECIFICATION Spec
SYMMETRY SymRuns
INVARIANTS TypeOK AlertMatchesEvidence CleanRunCompletes BroadcastAgreesWithJob
PROPERTIES JobsFollowLifecycle
CHECK_DEADLOCK FALSE
