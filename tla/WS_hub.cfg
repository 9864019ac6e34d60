CONSTANTS
    c1 = c1
    c2 = c2
    s1 = s1
    s2 = s2
    acme = acme
    other = other
    Client = {c1, c2}
    Sender = {s1, s2}
    Room = {acme, other}
    RoomOf <- TwoRooms
    Cap = 2
    MaxSent = 3
SPECIFICATION FairSpec
INVARIANTS TypeOK StreamsInOrder LosesOnlyWhenFull MembersAreConnected
PROPERTIES HubNeverBlocks
CHECK_DEADLOCK FALSE
