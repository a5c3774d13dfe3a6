CONSTANTS
    g1 = g1
    g2 = g2
    c1 = c1
    c2 = c2
    NoOwner = NoOwner
    Gateway <- TwoGateways
    AutoGateway <- TwoGateways
    Channel <- TwoChannels
    Refreshing <- OneGateway
    Threshold = 1
    DisableFor = 1
    MaxTime = 1
    MaxPending = 1
    MaxOutcomes = 4
    MaxFaults = 0
    Limit <- Limits
SPECIFICATION FairSpec
INVARIANTS
    NeverAllOpen
PROPERTIES
    RouteReturns
CHECK_DEADLOCK FALSE
