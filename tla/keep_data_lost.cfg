CONSTANTS
    acme = acme
    beta = beta
    city = city
    t1 = t1
    t2 = t2
    k1 = k1
    k2 = k2
    NULL = NULL
    Customers <- OneCustomer
    Tasks <- OneTask
    Keys <- TwoKeys
    BasePort = 3478
    MaxPorts = 1
    LocalMode = TRUE
    DnsConfigured = FALSE
    ProbeSeesHost = FALSE
    Overlap = FALSE
    Faults = {"up"}
    ManualStatuses = {}
    Prefixed <- OwnContainers
SPECIFICATION Spec
PROPERTY KeepDataSurvives
