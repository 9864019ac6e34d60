CONSTANTS
    old = old
    new1 = new1
    new2 = new2
    Replica = {old, new1, new2}
    Files <- OldAndNew
    MaxFaults = 2
SPECIFICATION FairSpec
INVARIANTS RecordedMeansApplied AppliedInOrder ServingMeansMigrated
PROPERTIES EveryReplicaServes
CHECK_DEADLOCK FALSE
