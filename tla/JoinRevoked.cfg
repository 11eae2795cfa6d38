SPECIFICATION Spec
CONSTANTS
    MaxSessions = 2
    Network = {n1}
    StaticNetwork = n1
    NoNetwork = NoNetwork
    Request = {r1, r2}
    Code = {}
    NoCode = NoCode
    Ungrouped = {"hc_auth_approval"}
    Groups = {}
    Store = "sqlite"
    HcAuth = "required"
    Linkers = "off"
    AttemptLimit = 1
    MayRestart = FALSE
SYMMETRY Symmetry
PROPERTY
    RevocationChecked
