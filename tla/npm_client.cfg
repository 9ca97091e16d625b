CONSTANTS
    acme = acme
    beta = beta
    c1 = c1
    c2 = c2
    NULL = NULL
    Domains <- OneDomain
    Calls <- TwoCalls
    MaxIds = 5
    SslModes = {"letsencrypt", "wildcard", "none"}
    Exclusive = TRUE
    Faults = {"drop", "refuse", "lost", "cert", "crash"}
SPECIFICATION FairSpec
INVARIANTS TypeOK KnownIsRight
PROPERTIES CallSucceeds HttpsStays CallsAreBounded MeetsContract
