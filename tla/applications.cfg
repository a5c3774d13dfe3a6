CONSTANTS
    Limit = 2
    Lock = 3
    Window = 4
    Life = 2
    LastTime = 6
    Editor = {e1, e2}
    MaxTemplate = 2
    MaxEdits = 2
    Worker = {w1, w2}
    Build = {b1, b2}
    MaxSourceEdit = 3
    Batches = 2
    Dialog = {"r1"}
    MaxDialogs = 1
    MaxPrompts = 2
    MaxHandOvers = 1
    Account = {"a1", "a2"}
    MaxChoice = 3
    MaxEnvEdits = 2
    Member = {"ann", "bob"}
    Namesake = "ann"
    Syncer = {"i1", "i2"}
    Scan = {"q1"}
    Callback = {"k1", "k2"}
    MaxBindings = 1
    Tab = {"t1", "t2"}
    User = {"u", "v"}
    MaxSessions = 2
    MaxSignIns = 2
    Indicator = {i1, i2}
    NoIndicator = none
    MaxRevisionNo = 2
    MaxAsked = 2
VIEW Focus
SPECIFICATION Spec
INVARIANTS TypeOK TriesAreRationed CatalogHolds IndexHolds DirectoryHolds
PROPERTIES DesktopHolds NothingOverwritten ReleaseStands
CHECK_DEADLOCK FALSE
SYMMETRY Alike
