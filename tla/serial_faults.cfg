CONSTANTS
    acme = acme
    beta = beta
    city = city
    t1 = t1
    t2 = t2
    k1 = k1
    k2 = k2
    NULL = NULL
    Customers <- ThreeCustomers
    Tasks <- OneTask
    Keys <- TwoKeys
    BasePort = 3478
    MaxPorts = 2
    LocalMode = FALSE
    DnsConfigured = TRUE
    ProbeSeesHost = FALSE
    Overlap = FALSE
    Faults = {"write", "up", "npmRefused", "dnsAdd"}
    ManualStatuses = {}
    Prefixed <- OwnContainers
SPECIFICATION Spec
SYMMETRY AllSymmetry
INVARIANTS TypeOK DeletedLeavesNothing
PROPERTIES RollbackIsComplete KeepsPromise
