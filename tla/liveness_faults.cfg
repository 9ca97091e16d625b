CONSTANTS
    acme = acme
    beta = beta
    t1 = t1
    k1 = k1
    k2 = k2
    NULL = NULL
    Poller = poller
    Customers <- OneCustomer
    Tasks <- OneOperator
    Keys <- TwoKeys
    BasePort = 3478
    MaxPorts = 1
    LocalMode = TRUE
    DnsConfigured = TRUE
    ProbeSeesHost = FALSE
    Overlap = TRUE
    Alone = TRUE
    Faults = {"write", "up", "down", "control", "dnsDelete", "rmtree"}
    ManualStatuses = {}
    Prefixed <- OwnContainers
SPECIFICATION FairSystem
INVARIANT DeployingIsWorkedOn
PROPERTIES DeployingEnds DeleteCompletes UnservedIsRestarted DeleteIsNotGivenUp
