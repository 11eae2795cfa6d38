SPECIFICATION Spec
CONSTANTS
    MaxSessions = 1
    Network = {n1}
    StaticNetwork = n1
    NoNetwork = NoNetwork
    Request = {r1, r2}
    Code = {}
    NoCode = NoCode
    Ungrouped = {"email_code"}
    Groups = {}
    Store = "sqlite"
    HcAuth = "off"
    Linkers = "off"
    AttemptLimit = 2
    MayRestart = FALSE
SYMMETRY Symmetry
INVARIANT
    AttemptsBounded
