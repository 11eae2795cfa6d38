SPECIFICATION Spec
CONSTANTS
    MaxSessions = 2
    Network = {n1}
    StaticNetwork = n1
    NoNetwork = NoNetwork
    Request = {r1, r2}
    Code = {c1}
    NoCode = NoCode
    Ungrouped = {}
    Groups = {{"invite_code", "email_code"}}
    Store = "sqlite"
    HcAuth = "off"
    Linkers = "required"
    AttemptLimit = 1
    MayRestart = FALSE
SYMMETRY Symmetry
INVARIANTS
    TypeOK
    ReadyStepsRan
    InviteBacksOneSession
    InviteNotLost
PROPERTY
    LifeCycle
