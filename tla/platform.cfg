CONSTANTS
    Instance = {i1, i2}
    MaxCommit = 3
    Call = {c1, c2}
    Route <- Routes
    Endpoint = {e1, e2}
    Capacity = 1
    Form <- Forms
    Try = {t1, t2}
    Page = {p1}
    MaxRevision = 4
    Image = {w1, w2}
    External = {x1, x2}
    MaxApplications = 1
    Tab = {b1}
    Caller = {k1, k2}
    MaxRotation = 2
    MaxToken = 4
    MaxChanges = 4
    Deployer = {d1, d2}
    MaxWrites = 2
    Session = {s1, s2}
    Factor = {f1}
    MaxVersion = 3
    Renewer = {r1, r2}
    Redeemer = {a1, a2}
    TTL = 2
    MaxAge = 3
    LastHour = 4
    Process = {"n1", "n2"}
    Environment = {"e1", "e2"}
    ServiceVersion = {v1}
    Own <- Environments
    Manager = {"n1"}
    Serving = {"n2"}
    MaxSwitches = 3
    MaxDeploys = 1
    MaxCliLines = 1
    Lifetime = 3
    Outer = 4
    MaxLines = 3
    Silence = 1
    CliLimit = 2
    Total = 3
    Folder = {"A", "B"}
    File = {"f", "g"}
    Quota = 2
    MaxKey = 3
    Desk = {"d1", "d2"}
    MaxEdit = 2
    MaxFileVersion = 4
    MaxCalls = 1
VIEW Focus
SPECIFICATION Spec
INVARIANTS TypeOK ProofsAreSound
PROPERTIES ContentHolds StorageHolds CallsAreGoverned OnboardingKeepsFaith AccountsHold DeploymentsHold
CHECK_DEADLOCK FALSE
