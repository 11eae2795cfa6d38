SPECIFICATION MCSpec
CONSTANTS
    Linker = {l1, l2}
    Token = {t1}
    u1 = u1
    u2 = u2
    Url = {u1, u2}
    Secret = {s1}
    Capability = {"dht_read"}
    Offer <- MCOffer
    StaticUrl = {u2}
    ConfigCapabilities = {"dht_read"}
    Call = {c1, c2}
    Traffics <- MCTraffics
    Ttl = 2
    MinTtl = 1
    Tolerance = 1
    Latency = 1
    MaxTime = 3
    Happ = {n1, n2}
    Hash = {"h1", "h2", "h3"}
    StaticHash = {"h3"}
    Agent = {"a1"}
    Other = {"a2"}
    StaticAgent = {}
    Configs <- MCConfigs
    Job = {c1, c2}
    Partner = {"p1"}
    Claim = {"email"}
    Value = {"v1", "v2"}
    Address = {"v1"}
    allowed_claims <- MCAllowed
    rate_limit <- MCRateLimit
    Window = 2
    MaxAge = 1
    Ahead = 0
    MaxMinute = 6
    MaxAccepted = 7
SYMMETRY Symmetry
INVARIANTS
    PartsTypeOK
    UsesCounted
    LeaseKept
    DnaOfOneNetwork
    ProofsOfOneNetwork
    ProofsOnlyAdmitted
    BurstBounded
    LimitedOnlyAfterLimit
PROPERTIES
    HeartbeatsInOrder
    BackOnlyByInvite
CHECK_DEADLOCK FALSE
