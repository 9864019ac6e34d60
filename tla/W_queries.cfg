CONSTANTS
    NoData = NoData
    Tour <- Tours
SPECIFICATION FairSpec
INVARIANTS TypeOK FreshShowsOwnWrites
PROPERTIES OwnWritesArrive PolledPagesCatchUp
CHECK_DEADLOCK FALSE
