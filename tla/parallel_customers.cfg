CONSTANTS
    acme = acme
    beta = beta
    city = city
    t1 = t1
    t2 = t2
    k1 = k1
    k2 = k2
    NULL = NULL
    Customers <- TwoCustomers
    Tasks <- TwoTasks
    Keys <- TwoKeys
    BasePort = 3478
    MaxPorts = 2
    LocalMode = TRUE
    DnsConfigured = FALSE
    ProbeSeesHost = FALSE
    Overlap = FALSE
    Faults = {"write", "up", "down"}
    ManualStatuses = {}
    Prefixed <- OwnContainers
SPECIFICATION Spec
SYMMETRY AllSymmetry
INVARIANTS ActiveIsStarted OnePortPerCustomer
PROPERTY PortIsStable
