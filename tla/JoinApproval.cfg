SPECIFICATION Spec
CONSTANTS
    MaxSessions = 1
    Network = {n1}
    StaticNetwork = n1
    NoNetwork = NoNetwork
    Request = {r1, r2, r3}
    Code = {}
    NoCode = NoCode
    Ungrouped = {"hc_auth_approval", "email_code"}
    Groups = {}
    Store = "memory"
    HcAuth = "required"
    Linkers = "off"
    AttemptLimit = 1
    MayRestart = FALSE
SYMMETRY Symmetry
INVARIANTS
    ReadyOnlyIfAdmitted
    ReadyStepsRan
    AttemptsBounded
PROPERTIES
    BlockedNotProvisioned
    BlockedNotReconnected
    CompletionKept
