CONSTANTS
    acme = acme
    beta = beta
    management = management
    relay = relay
    manual = manual
    poller = poller
    NULL = NULL
    Customers <- OneCustomer
    Services <- TwoServices
    Jobs <- TwoJobs
    Poller = poller
    MaxVersion = 2
    MaxTroubles = 2
    AutoApply = TRUE
    Overlap = TRUE
    Faults = {"hub", "pull", "hang", "raise", "crash"}
SPECIFICATION Spec
INVARIANTS TypeOK ServiceKept OneRunPerDay LogHonest
SYMMETRY ServiceSymmetry
