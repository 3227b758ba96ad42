SPECIFICATION Spec
CONSTANTS
    a1 = a1
    p1 = p1
    NoOwner = NoOwner
    Agents = {a1}
    Processes = {p1}
    MaxTasks = 3
    MaxQueuedPerAgent = 2
    MaxConcurrentTasks = 2
    WorkerLease = 1
    QueuedLease = 1
    QueueHeartbeat = 1
    MaxPollFailures = 1
    MaxDbErrors = 1
    Configs <- EveryLimit
INVARIANT SessionExclusive
CONSTRAINT NobodyStopsATask
PROPERTY StartsInOrderWithinLimit
