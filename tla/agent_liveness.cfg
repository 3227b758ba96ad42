SPECIFICATION FairSpec
CONSTANTS
    a1 = a1
    p1 = p1
    NoOwner = NoOwner
    Agents = {a1}
    Processes = {p1}
    MaxTasks = 2
    MaxQueuedPerAgent = 2
    MaxConcurrentTasks = 1
    WorkerLease = 1
    QueuedLease = 1
    QueueHeartbeat = 1
    MaxPollFailures = 1
    MaxDbErrors = 1
    Configs <- OnAndOff
PROPERTY TasksEnd
