CONSTANTS
    acme = acme
    beta = beta
    management = management
    relay = relay
    manual = manual
    poller = poller
    NULL = NULL
    Customers <- OneCustomer
    Services <- OneService
    Jobs <- TwoJobs
    Poller = poller
    MaxVersion = 2
    MaxTroubles = 2
    AutoApply = TRUE
    Overlap = TRUE
    Faults = {"hub", "pull", "hang", "raise", "crash"}
SPECIFICATION FairSpec
PROPERTIES NewsArrives BacklogClears
