CONSTANTS
    staging = staging
    production = production
    s1 = s1
    s2 = s2
    v1 = v1
    v2 = v2
    a = a
    b = b
    alice = alice
    bob = bob
    Absent = Absent
    Disabled = Disabled
    NoEndpoint = NoEndpoint
    NoForm = NoForm
    NoArchive = NoArchive
    Environment <- Environments
    Operator <- TwoOperators
    Publication <- Takeover
    Endpoint <- OneEndpoint
    Overlaps <- Taken
    SameRoute <- Taken
    LocalCatalog <- Fresh
    Exporting = {}
    MaxRevision = 2
    MaxLifecycleRevision = 2
    LastDay = 1
SPECIFICATION Spec
INVARIANTS
    RoutesDisjoint
PROPERTIES
    StalePagesRefused
SYMMETRY Symmetry
CHECK_DEADLOCK FALSE
