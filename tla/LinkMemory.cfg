SPECIFICATION MCSpec
CONSTANTS
    Parts = {"link"}
    Stores = {"memory"}
    Verification = {d1, d2}
    Token = {t1, t2}
    LinkCall = {c1, c2}
    MaxSessions = 2
    ReadInterval <- MCReadInterval
    Before = {"In Review"}
    CapPerDay = {FALSE, TRUE}
    MaxMoves = 3
    MaxMoment = 1
    Scope = {"x1"}
    Sid = {d1, d2}
    TokenHash = {t1, t2}
    LinkConfig = {TRUE, FALSE}
    KvCall = {"k1"}
    PendingTtl = 1
    MinAhead = 1
    MaxSecond = 4
    Setups <- MCSetups
    NoChallenge <- MCNoChallenge
    FlowLoop = {c1, c2}
    MaxPollAttempts = 1
    MaxRuns = 3
    MaxTokens = 2
SYMMETRY Symmetry
INVARIANT StatusOfSession
CHECK_DEADLOCK FALSE
