CONSTANTS
    Request = {r1, r2}
    Price <- Prices
    Quota <- Quotas
    RoleChange <- BothWays
    LastPeriod = 2
    Task = {1, 2}
    Node = {n1, n2}
    Credential = {1}
    DashboardToken = {"t1"}
    ApiKey = {"k1"}
    Interval = 2
    MaxReadings = 2
    LastMinute = 3
    Evaluator = {v1, v2}
    Window <- Windows
    Suppression = 4
    MaxMinute = 5
    Officer = {"a1", "a2"}
    Package = {0, 1}
    LastMonth = 2
    MaxAdjustments = 2
    Upstream = {"c1", "c2"}
    Spoken <- SpokenProtocols
    OpenAt = 1
    MaxFaultsAtOnce = 1
    LastModel = 3
    AskedModels = {1}
    Team = "team"
    TokenTag = "none"
    MaxCallEdits = 1
    MaxWalkEdits = 2
    MaxTurns = 1
    MaxPages = 4
    LastChannel = 2
    FirstChannels = 1
    ListLoad = {1}
    MaxListLoads = 1
    MaxChannelEdits = 1
    MaxPageCalls = 2
    MaxStranger = 1
    LastModelId = 2
    FirstModels = 1
    ModelName = {"a", "b"}
    Upstreams = {1, 2}
    MaxModelEdits = 2
    MaxModelCalls = 1
VIEW Focus
SPECIFICATION Spec
INVARIANTS TypeOK BalancedWithinMonths
PROPERTIES NeverRaisedAboveQuota RoutingHolds AdmissionHolds AdministrationHolds
CHECK_DEADLOCK FALSE
