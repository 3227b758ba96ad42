SPECIFICATION Spec
CONSTANTS
    Relays = {r1}
    Keys = {k1, k2}
    KeysOf <- MCKeysOf
    OfficialKeys = {}
    Values = {v1, v2}
    Sessions = {s1}
    NoValue = NoValue
    NoKey = NoKey
    RoundRobin = FALSE
    Rpm <- MCRpm
    Concurrency <- MCConcurrency
    BaseCooldown = 1
    Doublings = 0
    MaxBackoff = 1
    QuotaCooldown = 2
    AuthCooldown = 1
    MaxHint = 1
    BreakerThreshold = 1
    BreakerOpen = 1
    Window = 2
    StickyLimit = 1
    Requests = {q1, q2}
    SessionOf <- MCOneSession
    NoSession = NoSession
    RelayOrder <- MCRelayOrder
    Replies <- MCFewReplies
    CoolingWait = 0
    QueueTimeout = 1
    MaxEdits = 0
    r1 = r1
    k1 = k1
    k2 = k2
    k3 = k3
    q1 = q1
    q2 = q2
    s1 = s1
    RpmLimit = 1
    ConcurrencyLimit = 1
INVARIANT TypeOK
INVARIANT SlotsAreAccounted
INVARIANT WithinLimits
INVARIANT NoLostWakeup
INVARIANT EveryCandidateOnce
PROPERTY FailsOnlyAfterAll
SYMMETRY SymmetryOfRequests
PROPERTY SessionKeepsItsKey
