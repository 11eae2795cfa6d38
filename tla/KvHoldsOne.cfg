SPECIFICATION KvSpec
CONSTANTS
    Scope = {x1}
    Sid = {s1, s2}
    TokenHash = {}
    LinkConfig = {FALSE}
    KvCall = {c1}
    PendingTtl = 1
    MinAhead = 1
    MaxSecond = 2
INVARIANT
    AgentHoldsOne
CHECK_DEADLOCK FALSE
