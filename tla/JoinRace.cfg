SPECIFICATION Spec
CONSTANTS
    MaxSessions = 2
    Network = {n1}
    StaticNetwork = n1
    NoNetwork = NoNetwork
    Request = {r1, r2}
    Code = {}
    NoCode = NoCode
    Ungrouped = {"open"}
    Groups = {}
    Store = "sqlite"
    HcAuth = "off"
    Linkers = "off"
    AttemptLimit = 1
    MayRestart = FALSE
SYMMETRY Symmetry
INVARIANT
    OneLiveSession
