SPECIFICATION FairSpec
CONSTANTS
    MaxSessions = 1
    Network = {n1, n2}
    StaticNetwork = n1
    NoNetwork = NoNetwork
    Request = {r1, r2}
    Code = {}
    NoCode = NoCode
    Ungrouped = {}
    Groups = {{"hc_auth_approval", "delegated_verification"}}
    Store = "memory"
    HcAuth = "required"
    Linkers = "required"
    AttemptLimit = 1
    MayRestart = TRUE
PROPERTIES
    RequestsAnswered
    ApprovedIsDecided
