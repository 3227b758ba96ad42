SPECIFICATION Spec
CONSTANTS
    Relays = {r1, r2}
    Keys = {k1, k2, k3}
    KeysOf <- MCKeysOf
    OfficialKeys = {k3}
    Values = {v1, v2, v3}
    Sessions = {s1}
    NoValue = NoValue
    NoKey = NoKey
    RoundRobin = TRUE
    Rpm <- MCRpm
    Concurrency <- MCConcurrency
    BaseCooldown = 1
    Doublings = 0
    MaxBackoff = 1
    QuotaCooldown = 2
    AuthCooldown = 1
    MaxHint = 2
    BreakerThreshold = 2
    BreakerOpen = 1
    Window = 1
    StickyLimit = 2
    Requests = {q1}
    SessionOf <- MCNoSession
    NoSession = NoSession
    RelayOrder <- MCRelayOrder
    Replies <- MCHealthReplies
    CoolingWait = 1
    QueueTimeout = 2
    MaxEdits = 1
    r1 = r1
    k1 = k1
    k2 = k2
    k3 = k3
    q1 = q1
    q2 = q2
    s1 = s1
    RpmLimit = 0
    ConcurrencyLimit = 1
PROPERTY RefusedOnlyWhenCooling
SYMMETRY Symmetry

INVARIANT SlotsAreAccounted
CONSTRAINT OneOfficialText
