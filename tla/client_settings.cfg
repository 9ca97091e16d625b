CONSTANTS
    acme = acme
    beta = beta
    r1 = r1
    disabled = disabled
    latest = latest
    NULL = NULL
    Scheduler = scheduler
    Customers <- TwoCustomers
    Requests <- OneRequest
    Pairs <- TwoPairs
    Disabled = disabled
    Life = 4
    RenewAfter = 1
    CustomersWait = TRUE
    MaxFaults = 1
    MaxEdits = 1
SPECIFICATION Spec
SYMMETRY CustomerSymmetry
INVARIANTS TypeOK OnlyMissedTokensExpire
PROPERTIES StoredTokenWorks EveryoneIsPushed EditsAreKept
