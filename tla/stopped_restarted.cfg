CONSTANTS
    acme = acme
    beta = beta
    t1 = t1
    k1 = k1
    k2 = k2
    NULL = NULL
    Poller = poller
    Customers <- OneCustomer
    Tasks <- OneOperator
    Keys <- OneKey
    BasePort = 3478
    MaxPorts = 1
    LocalMode = TRUE
    DnsConfigured = FALSE
    ProbeSeesHost = FALSE
    Overlap = TRUE
    Alone = TRUE
    Faults = {}
    ManualStatuses = {}
    Prefixed <- OwnContainers
SPECIFICATION SystemSpec
PROPERTY StoppedIsLeftAlone
