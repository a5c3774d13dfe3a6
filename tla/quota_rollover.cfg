CONSTANTS
    r1 = r1
    r2 = r2
    Request <- TwoRequests
    Price <- Prices
    Quota <- Quotas
    RoleChange <- NoChange
    LastPeriod = 2
SPECIFICATION QuotaSpec
INVARIANTS
    LedgerBalanced
CHECK_DEADLOCK FALSE
SYMMETRY Symmetry
