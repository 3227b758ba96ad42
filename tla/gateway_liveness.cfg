SPECIFICATION FairSpec
CONSTANTS
    Relays = {r1}
    Keys = {k1}
    KeysOf <- MCKeysOf
    OfficialKeys = {}
    Values = {v1}
    Sessions = {s1}
    NoValue = NoValue
    NoKey = NoKey
    RoundRobin = FALSE
    Rpm <- MCRpm
    Concurrency <- MCConcurrency
    BaseCooldown = 1
    Doublings = 1
    MaxBackoff = 2
    QuotaCooldown = 2
    AuthCooldown = 1
    MaxHint = 1
    BreakerThreshold = 2
    BreakerOpen = 1
    Window = 2
    StickyLimit = 2
    Requests = {q1, q2}
    SessionOf <- MCSessionOf
    NoSession = NoSession
    RelayOrder <- MCRelayOrder
    Replies <- MCLimitedReplies
    CoolingWait = 1
    QueueTimeout = 2
    MaxEdits = 0
    r1 = r1
    k1 = k1
    k2 = k2
    k3 = k3
    q1 = q1
    q2 = q2
    s1 = s1
    RpmLimit = 0
    ConcurrencyLimit = 1
PROPERTY RequestsEnd
