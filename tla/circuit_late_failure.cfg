CONSTANTS
    g1 = g1
    g2 = g2
    c1 = c1
    c2 = c2
    NoOwner = NoOwner
    Gateway <- TwoGateways
    AutoGateway <- TwoGateways
    Channel <- TwoChannels
    Refreshing <- OneGateway
    Threshold = 1
    DisableFor = 1
    MaxTime = 2
    MaxPending = 1
    MaxOutcomes = 2
    MaxFaults = 1
    Limit <- Limits
SPECIFICATION Spec
SYMMETRY ChannelSymmetry
PROPERTIES
    NewerSuccessSurvives
CHECK_DEADLOCK FALSE
