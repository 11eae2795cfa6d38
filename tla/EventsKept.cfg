SPECIFICATION Spec
CONSTANTS
    Reservation = {i1, i2, i3}
    Address = {a1, a2}
    Agent = {g1}
    Challenge = {c1}
    DiditSession = {d1}
    Stores = {"atomic", "kv"}
    Day = 3
    Hour = 3
    LinkTtl = 3
    PerAddress = 1
    PerAgent = 1
    PerHour = 2
    PerDay = 1
    ResendInterval = 1
    ContinueSpacing = 2
    Delay = 1
    MaxTime = 3
SYMMETRY Symmetry
INVARIANTS
    LimitKept
    SpacingKept
    RefusedLeavesNothing
PROPERTY
    BilledCapKept
CHECK_DEADLOCK FALSE
