CONSTANTS
    staging = staging
    production = production
    s1 = s1
    s2 = s2
    v1 = v1
    v2 = v2
    a = a
    b = b
    alice = alice
    bob = bob
    Absent = Absent
    Disabled = Disabled
    NoEndpoint = NoEndpoint
    NoForm = NoForm
    NoArchive = NoArchive
    Environment <- Environments
    Operator <- OneOperator
    Publication <- OneService
    Endpoint <- OneEndpoint
    Overlaps <- NoConflicts
    SameRoute <- NoConflicts
    LocalCatalog <- Fresh
    Exporting <- Environments
    MaxRevision = 2
    MaxLifecycleRevision = 2
    LastDay = 2
SPECIFICATION Spec
INVARIANTS
    ActiveUsable
PROPERTIES
    ImplementsLifecycle
SYMMETRY Symmetry
CHECK_DEADLOCK FALSE
