CONSTANTS
    acme = acme
    beta = beta
    city = city
    t1 = t1
    t2 = t2
    k1 = k1
    k2 = k2
    NULL = NULL
    Customers <- OneCustomer
    Tasks <- TwoTasks
    Keys <- TwoKeys
    BasePort = 3478
    MaxPorts = 2
    LocalMode = FALSE
    DnsConfigured = FALSE
    ProbeSeesHost = FALSE
    Overlap = TRUE
    Faults = {"write", "db", "up", "down", "control", "npmRefused", "npmLost", "npmDelete", "crash"}
    ManualStatuses = {"error"}
    Prefixed <- OwnContainers
SPECIFICATION Spec
SYMMETRY TaskSymmetry
INVARIANTS KeyFitsData RowHasCustomer
