CONSTANTS
    acme = acme
    beta = beta
    t1 = t1
    k1 = k1
    k2 = k2
    NULL = NULL
    Poller = poller
    Customers <- TwoCustomers
    Tasks <- OneOperator
    Keys <- OneKey
    BasePort = 3478
    MaxPorts = 2
    LocalMode = TRUE
    DnsConfigured = FALSE
    ProbeSeesHost = FALSE
    Overlap = TRUE
    Alone = TRUE
    Faults = {"control", "crash"}
    ManualStatuses = {}
    Prefixed <- OwnContainers
SPECIFICATION SystemSpec
CONSTRAINT NothingHalfDone
SYMMETRY CustomerSymmetry

PROPERTIES RestartsAreSpaced DeletedStaysDeleted
