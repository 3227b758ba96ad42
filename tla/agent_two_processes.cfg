SPECIFICATION Spec
CONSTANTS
    a1 = a1
    p1 = p1
    p2 = p2
    NoOwner = NoOwner
    Agents = {a1}
    Processes = {p1, p2}
    MaxTasks = 2
    MaxQueuedPerAgent = 2
    MaxConcurrentTasks = 1
    WorkerLease = 1
    QueuedLease = 1
    QueueHeartbeat = 1
    MaxPollFailures = 1
    MaxDbErrors = 1
    Configs <- OnAndOff
SYMMETRY Symmetry
INVARIANTS
    TypeOK
    NotStartedIsTrue
    CancellationDecides
    SupervisedCliRecord
PROPERTIES
    ResultIsFinal
    OwnerKeepsItsTask
    KeepsTheBoard
