CONSTANTS
    staging = staging
    production = production
    s1 = s1
    s2 = s2
    v1 = v1
    v2 = v2
    a = a
    b = b
    alice = alice
    bob = bob
    Absent = Absent
    Disabled = Disabled
    NoEndpoint = NoEndpoint
    NoForm = NoForm
    NoArchive = NoArchive
    Environment <- Environments
    Operator <- OneOperator
    Publication <- OneService
    Endpoint <- OneEndpoint
    Overlaps <- NoConflicts
    SameRoute <- NoConflicts
    LocalCatalog <- Diverged
    Exporting = {}
    MaxRevision = 1
    MaxLifecycleRevision = 2
    LastDay = 1
SPECIFICATION Spec
INVARIANTS
    ActiveUsable
CHECK_DEADLOCK FALSE
