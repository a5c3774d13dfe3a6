CONSTANTS
    Wire <- Wires
    MaxChunk = 7
    MaxAttempt = 2
    Line <- Lines
    MaxWeight = 5
    Refresh = {1, 2}
    Channel = {1, 2}
    MaxEvent = 3
    Instance = {1, 2}
    TTL = 2
    MaxLookup = 1
    MaxTime = 4
    MaxSwitch = 2
    Admin = {1, 2}
    Group = {"default", "g"}
    Model = {1}
    Name = {"m", "n"}
    MaxRequest = 3
SPECIFICATION Spec
INVARIANTS TypeOK SharesAreExact
PROPERTIES StreamsHold EditsArrive AccessIsWithdrawn ListsAsAsked
CHECK_DEADLOCK FALSE
