------------------------ MODULE AgentCollaborationProofs ------------------------
(***************************************************************************)
(* Theorems about AgentCollaboration for every number of agents,           *)
(* processes and tasks, and for every lease, limit and bound.              *)
(*                                                                         *)
(* The argument.  Every step changes the record of at most one task as its *)
(* worker does (QuietBut), and all the others as a bystander may (Quiet);  *)
(* AgentStoreProofs has shown that of each transaction.  The inductive     *)
(* invariant IInv adds to the typing what a record says by itself          *)
(* (RecordsHold) and how it agrees with the worker (WorkersInStep).        *)
(***************************************************************************)
EXTENDS AgentCollaboration, AgentStoreProofs

RecordsHold == \A i \in DOMAIN tasks : TaskInv(tasks[i])

IInv == TypeOK /\ RecordsHold /\ WorkersInStep

-----------------------------------------------------------------------------
(* What the helpers of the module return. *)

LEMMA TaskPositions ==
    ASSUME TypeOK PROVE DOMAIN tasks \subseteq TaskIds /\ TaskIds \subseteq Nat
<1>1. DOMAIN tasks = 1 .. Len(tasks) /\ Len(tasks) \in Nat /\ Len(tasks) <= MaxTasks
  BY DEF TypeOK
<1> QED BY <1>1, StoreAssumption DEF TaskIds

\* Where a transaction starts is what a bystander would make of the list.
LEMMA FreshQuiet ==
    ASSUME TypeOK
    PROVE  /\ Fresh \in Seq(Task) /\ Len(Fresh) = Len(tasks)
           /\ DOMAIN Fresh = DOMAIN tasks
           /\ Quiet(tasks, Fresh)
<1>1. tasks \in Seq(Task)
  BY DEF TypeOK
<1> QED BY <1>1, ExpiredType, ExpiredQuiet DEF Fresh

\* A transaction is judged from the list it found, not from the fresh one.
LEMMA AfterFresh ==
    ASSUME TypeOK, NEW us, NEW own
    PROVE  /\ Quiet(Fresh, us) => Quiet(tasks, us)
           /\ QuietBut(own, Fresh, us) => QuietBut(own, tasks, us)
<1>1. tasks \in Seq(Task)
  BY DEF TypeOK
<1> QED BY <1>1, FreshQuiet, QuietTransitive, QuietThenBut

LEMMA NoWorkerType == NoWorker \in Worker /\ Gone \in Worker
<1>1. 0 \in 0 .. MaxPollFailures
  BY CollaborationAssumption
<1>2. "none" \in Stage /\ "removed" \in Stage
  BY DEF Stage
<1> QED BY <1>1, <1>2 DEF NoWorker, Gone, Worker, Outcome

LEMMA StoppedType ==
    ASSUME NEW w \in Worker, NEW stage \in {"done", "dropped"}
    PROVE  /\ Stopped(w, stage) \in Worker
           /\ Stopped(w, stage).stage = stage
           /\ Stopped(w, stage).launched = w.launched
           /\ Stopped(w, stage).process = w.process
<1>1. /\ w.process \in Processes \cup {NoOwner} /\ w.launched \in BOOLEAN
      /\ stage \in Stage
  BY DEF Worker, Stage
<1> QED BY <1>1, NoWorkerType DEF Stopped, NoWorker, Worker

\* A worker at any stage but the first has a task.
LEMMA WorkerHasTask ==
    ASSUME IInv, NEW i \in TaskIds, worker[i] # NoWorker
    PROVE  i \in DOMAIN tasks /\ tasks[i] \in Task
<1>1. i \in DOMAIN tasks
  BY DEF IInv, WorkersInStep, InStep
<1> QED BY <1>1 DEF IInv, TypeOK

-----------------------------------------------------------------------------
(* The invariant of the tasks a step does not act for. *)

LEMMA RecordsStay ==
    ASSUME IInv, NEW own, QuietBut(own, tasks, tasks')
    PROVE  RecordsHold'
<1>1. DOMAIN tasks' = DOMAIN tasks /\ \A i \in DOMAIN tasks : TaskInv(tasks[i])
  BY DEF IInv, RecordsHold, QuietBut
<1>2. ASSUME NEW i \in DOMAIN tasks PROVE TaskInv(tasks'[i])
  BY <1>1, <1>2 DEF QuietBut, Bystander, OwnStep
<1> QED BY <1>1, <1>2 DEF RecordsHold

LEMMA BystanderKeeps ==
    ASSUME NEW t \in Task, NEW u, Bystander(t, u)
    PROVE  (Taken(t) => Taken(u)) /\ (LeftQueue(t) => LeftQueue(u))
<1>1. t.status \in Status
  BY DEF Task
<1> QED BY <1>1 DEF Bystander, Taken, LeftQueue, Status, Ended, Terminal

LEMMA StaysInStep ==
    ASSUME IInv, NEW j \in TaskIds,
           DOMAIN tasks' = DOMAIN tasks,
           j \in DOMAIN tasks => Bystander(tasks[j], tasks'[j]),
           worker'[j] = worker[j],
           j \in cli' => j \in cli,
           j \in started' <=> j \in started,
           HostUp(j)' => HostUp(j)
    PROVE  InStep(j)'
<1>1. InStep(j)
  BY DEF IInv, WorkersInStep
<1>2. j \notin DOMAIN tasks => worker[j].stage = "none"
  BY <1>1 DEF InStep, NoWorker
<1>3. CASE j \notin DOMAIN tasks
  BY <1>1, <1>2, <1>3 DEF InStep
<1>4. CASE j \in DOMAIN tasks
  <2>1. tasks[j] \in Task /\ Bystander(tasks[j], tasks'[j])
    BY <1>4 DEF IInv, TypeOK
  <2>2. /\ Taken(tasks[j]) => Taken(tasks'[j])
        /\ LeftQueue(tasks[j]) => LeftQueue(tasks'[j])
    BY <2>1, BystanderKeeps
  <2> QED BY <1>1, <1>4, <2>2 DEF InStep, Taken, LeftQueue
<1> QED BY <1>3, <1>4

\* A step for task i leaves the others in step.
LEMMA OthersStayInStep ==
    ASSUME IInv, NEW i \in TaskIds, NEW w,
           QuietBut(i, tasks, tasks'),
           worker' = [worker EXCEPT ![i] = w],
           \A j \in TaskIds \ {i} :
              /\ j \in cli' => j \in cli
              /\ j \in started' <=> j \in started,
           process' = process
    PROVE  \A j \in TaskIds \ {i} : InStep(j)'
<1> SUFFICES ASSUME NEW j \in TaskIds \ {i} PROVE InStep(j)'
  OBVIOUS
<1>1. worker \in [TaskIds -> Worker]
  BY DEF IInv, TypeOK
<1>2. worker'[j] = worker[j]
  BY <1>1
<1>3. HostUp(j)' <=> HostUp(j)
  BY <1>2 DEF HostUp, Host
<1>4. DOMAIN tasks' = DOMAIN tasks /\ (j \in DOMAIN tasks => Bystander(tasks[j], tasks'[j]))
  BY DEF QuietBut
<1>5. (j \in cli' => j \in cli) /\ (j \in started' <=> j \in started) /\ j \in TaskIds
  OBVIOUS
<1> QED BY <1>2, <1>3, <1>4, <1>5, StaysInStep

\* A transaction nobody's worker waits for leaves all in step.
LEMMA QuietInStep ==
    ASSUME IInv, Quiet(tasks, tasks'), UNCHANGED <<process, worker, cli, started>>
    PROVE  RecordsHold' /\ WorkersInStep'
<1>1. tasks \in Seq(Task)
  BY DEF IInv, TypeOK
<1>2. RecordsHold'
  BY <1>1, QuietIsQuietBut, RecordsStay
<1>3. ASSUME NEW j \in TaskIds PROVE InStep(j)'
  <2>1. HostUp(j)' <=> HostUp(j)
    BY DEF HostUp, Host
  <2>2. DOMAIN tasks' = DOMAIN tasks /\ (j \in DOMAIN tasks => Bystander(tasks[j], tasks'[j]))
    BY DEF Quiet
  <2> QED BY <2>1, <2>2, StaysInStep
<1> QED BY <1>2, <1>3 DEF WorkersInStep

\* The list after a transaction is well typed.
LEMMA ListType ==
    ASSUME TypeOK, NEW own, Quiet(tasks, tasks') \/ QuietBut(own, tasks, tasks')
    PROVE  tasks' \in Seq(Task) /\ Len(tasks') <= MaxTasks /\ DOMAIN tasks' = DOMAIN tasks
  BY DEF TypeOK, Quiet, QuietBut

\* A step of one worker: what is left to show for each action.
LEMMA OwnStepKeepsIInv ==
    ASSUME IInv, NEW i \in TaskIds, NEW w \in Worker,
           worker' = [worker EXCEPT ![i] = w],
           QuietBut(i, tasks, tasks'),
           UNCHANGED <<config, process>>,
           markers' \subseteq Processes,
           dbErrors' \in 0 .. MaxDbErrors,
           cli' \subseteq TaskIds,
           started' \subseteq TaskIds,
           \A j \in TaskIds \ {i} :
              /\ j \in cli' => j \in cli
              /\ j \in started' <=> j \in started,
           InStep(i)'
    PROVE  IInv'
<1>1. tasks' \in Seq(Task) /\ Len(tasks') <= MaxTasks
  BY ListType DEF IInv
<1>2. worker' \in [TaskIds -> Worker]
  BY DEF IInv, TypeOK
<1>3. config' \in Config /\ process' \in [Processes -> {"up", "stopping", "gone"}]
  BY DEF IInv, TypeOK
<1>4. TypeOK'
  BY <1>1, <1>2, <1>3 DEF TypeOK
<1>5. RecordsHold'
  BY RecordsStay
<1>6. WorkersInStep'
  <2>1. \A j \in TaskIds \ {i} : InStep(j)'
    BY OthersStayInStep
  <2> QED BY <2>1 DEF WorkersInStep
<1> QED BY <1>4, <1>5, <1>6 DEF IInv

LEMMA CommitOrError ==
    ASSUME TypeOK, NEW us, Commit(us) \/ DbError
    PROVE  /\ tasks' = us \/ tasks' = tasks
           /\ dbErrors' \in 0 .. MaxDbErrors
<1>1. dbErrors \in 0 .. MaxDbErrors /\ MaxDbErrors \in Nat
  BY CollaborationAssumption DEF TypeOK
<1>2. CASE Commit(us)
  BY <1>1, <1>2 DEF Commit
<1>3. CASE DbError
  BY <1>1, <1>3 DEF DbError
<1> QED BY <1>2, <1>3

LEMMA AtWorker ==
    ASSUME IInv, NEW i \in TaskIds, NEW stages, At(i, stages), "none" \notin stages
    PROVE  /\ i \in DOMAIN tasks /\ tasks[i] \in Task
           /\ worker[i] \in Worker /\ worker[i].stage \in stages
           /\ HostUp(i) /\ Host(i) \in Processes
           /\ InStep(i)
<1>1. worker[i] # NoWorker
  BY DEF At, NoWorker
<1>2. i \in DOMAIN tasks /\ tasks[i] \in Task
  BY <1>1, WorkerHasTask
<1> QED BY <1>2 DEF IInv, TypeOK, WorkersInStep, At, HostUp, Host

LEMMA RemovedType ==
    ASSUME IInv, NEW i \in TaskIds, Remove(i)
    PROVE  \E w \in Worker : /\ worker' = [worker EXCEPT ![i] = w]
                             /\ w.stage = "removed"
                             /\ w.process \in {worker[i].process, NoOwner}
<1> DEFINE w == IF worker[i].orphan = "none" THEN Gone
                ELSE [worker[i] EXCEPT !.stage = "removed"]
<1>1. worker[i] \in Worker /\ "removed" \in Stage
  BY DEF IInv, TypeOK, Stage
<1>2. w \in Worker /\ w.stage = "removed" /\ w.process \in {worker[i].process, NoOwner}
  BY <1>1, NoWorkerType DEF Worker, Gone, NoWorker
<1>3. worker' = [worker EXCEPT ![i] = w]
  BY DEF Remove
<1> QED BY <1>2, <1>3

-----------------------------------------------------------------------------
(* The actions of a worker. *)

\* A worker that is removed was not supervising: it leaves no CLI behind.
LEMMA RemovedInStep ==
    ASSUME IInv, NEW i \in DOMAIN tasks, i \in TaskIds, tasks[i] \in Task,
           InStep(i), HostUp(i), worker[i].stage # "supervising",
           Remove(i), DOMAIN tasks' = DOMAIN tasks,
           i \in started => LeftQueue(tasks'[i]),
           UNCHANGED <<process, cli, started>>
    PROVE  InStep(i)'
<1>1. PICK w \in Worker : /\ worker' = [worker EXCEPT ![i] = w]
                          /\ w.stage = "removed"
                          /\ w.process \in {worker[i].process, NoOwner}
  BY RemovedType
<1>2. worker'[i] = w
  BY <1>1 DEF IInv, TypeOK
<1>3. i \notin cli
  BY DEF InStep
<1> QED BY <1>1, <1>2, <1>3 DEF InStep, LeftQueue

LEMMA SubmitForgottenStep ==
    ASSUME IInv, NEW i \in TaskIds, SubmitForgotten(i) PROVE IInv'
<1>1. /\ i \in DOMAIN tasks /\ tasks[i] \in Task /\ HostUp(i) /\ InStep(i)
      /\ worker[i].stage = "submitted"
  BY AtWorker DEF SubmitForgotten
<1>2. tasks' = tasks /\ dbErrors' \in 0 .. MaxDbErrors /\ Remove(i)
  BY CommitOrError DEF SubmitForgotten, IInv
<1>3. PICK w \in Worker : worker' = [worker EXCEPT ![i] = w]
  BY <1>2, RemovedType
<1>4. QuietBut(i, tasks, tasks')
  BY <1>2, QuietReflexive, QuietIsQuietBut DEF IInv, TypeOK
<1>5. InStep(i)'
  BY <1>1, <1>2, RemovedInStep DEF SubmitForgotten, InStep
<1> QED BY <1>2, <1>3, <1>4, <1>5, OwnStepKeepsIInv DEF SubmitForgotten, IInv, TypeOK

LEMMA RefuseDuringShutdownStep ==
    ASSUME IInv, NEW i \in TaskIds, RefuseDuringShutdown(i) PROVE IInv'
<1>1. /\ i \in DOMAIN tasks /\ tasks[i] \in Task /\ HostUp(i) /\ InStep(i)
      /\ worker[i].stage = "submitted"
  BY AtWorker DEF RefuseDuringShutdown
<1>2. /\ tasks' = AbandonedBeforeLaunch(Fresh, i, FALSE) \/ tasks' = tasks
      /\ dbErrors' \in 0 .. MaxDbErrors /\ Remove(i)
  BY CommitOrError DEF RefuseDuringShutdown, IInv
<1>3. PICK w \in Worker : worker' = [worker EXCEPT ![i] = w]
  BY <1>2, RemovedType
<1>4. Quiet(tasks, tasks')
  BY <1>1, <1>2, QuietReflexive, FreshQuiet, AbandonedBeforeLaunchStep, AfterFresh
     DEF IInv, TypeOK
<1>5. QuietBut(i, tasks, tasks') /\ DOMAIN tasks' = DOMAIN tasks
  BY <1>4, QuietIsQuietBut DEF IInv, TypeOK, Quiet
<1>6. InStep(i)'
  BY <1>1, <1>2, <1>5, RemovedInStep DEF RefuseDuringShutdown, InStep
<1> QED BY <1>2, <1>3, <1>5, <1>6, OwnStepKeepsIInv DEF RefuseDuringShutdown, IInv, TypeOK

LEMMA SpawnTaskStep ==
    ASSUME IInv, NEW i \in TaskIds, SpawnTask(i) PROVE IInv'
<1>1. /\ i \in DOMAIN tasks /\ worker[i] \in Worker /\ HostUp(i) /\ InStep(i)
      /\ worker[i].stage = "submitted"
  BY AtWorker DEF SpawnTask
<1> DEFINE w(j) == IF j = i THEN [worker[j] EXCEPT !.stage = "polling"]
                   ELSE IF Host(j) = Host(i) /\ worker[j].stage = "done" THEN Gone
                   ELSE worker[j]
<1>2. worker' = [j \in TaskIds |-> w(j)]
  BY DEF SpawnTask
<1>3. ASSUME NEW j \in TaskIds PROVE w(j) \in Worker
  <2>1. worker[j] \in Worker /\ "polling" \in Stage
    BY DEF IInv, TypeOK, Stage, Awaiting
  <2> QED BY <2>1, NoWorkerType DEF Worker
<1>4. worker' \in [TaskIds -> Worker]
  BY <1>2, <1>3
<1>5. TypeOK'
  BY <1>4 DEF SpawnTask, IInv, TypeOK
<1>6. RecordsHold'
  BY DEF SpawnTask, IInv, RecordsHold
<1>7. ASSUME NEW j \in TaskIds PROVE InStep(j)'
  <2>1. worker'[j] = w(j) /\ InStep(j)
    BY <1>2 DEF IInv, WorkersInStep
  <2>2. CASE j = i
    BY <1>1, <2>1, <2>2 DEF SpawnTask, InStep, HostUp, Host, Worker
  <2>3. CASE j # i /\ Host(j) = Host(i) /\ worker[j].stage = "done"
    <3>1. worker'[j] = Gone /\ Gone.stage = "removed" /\ Gone.process = NoOwner
      BY <2>1, <2>3 DEF Gone, NoWorker
    <3>2. j \in DOMAIN tasks
      BY <2>1, <2>3 DEF InStep, NoWorker
    <3>3. ~HostUp(j)'
      BY <3>1, StoreAssumption DEF HostUp, Host
    <3> QED BY <2>1, <2>3, <3>1, <3>2, <3>3 DEF SpawnTask, InStep
  <2>4. CASE j # i /\ ~(Host(j) = Host(i) /\ worker[j].stage = "done")
    <3>1. worker'[j] = worker[j]
      BY <2>1, <2>4
    <3> QED BY <2>1, <3>1 DEF SpawnTask, InStep, HostUp, Host
  <2> QED BY <2>2, <2>3, <2>4
<1> QED BY <1>5, <1>6, <1>7 DEF IInv, WorkersInStep

LEMMA PeekQueueStep ==
    ASSUME IInv, NEW i \in TaskIds, PeekQueue(i) PROVE IInv'
<1>1. /\ i \in DOMAIN tasks /\ worker[i] \in Worker /\ HostUp(i) /\ InStep(i)
      /\ worker[i].stage = "waiting"
  BY AtWorker DEF PeekQueue
<1> DEFINE w == IF PeekStillWaits(Fresh, config, i)
                THEN [worker[i] EXCEPT !.failures = 0]
                ELSE [worker[i] EXCEPT !.stage = "polling"]
<1>2. 0 \in 0 .. MaxPollFailures /\ 0 < MaxPollFailures /\ "polling" \in Stage
  BY CollaborationAssumption DEF Stage, Awaiting
<1>3. /\ w \in Worker /\ w.stage \in {"waiting", "polling"}
      /\ w.failures < MaxPollFailures
      /\ w.process = worker[i].process
  BY <1>1, <1>2 DEF Worker, InStep
<1>4. worker' = [worker EXCEPT ![i] = w]
  BY DEF PeekQueue
<1> HIDE DEF w
<1>5. worker'[i] = w
  BY <1>4 DEF IInv, TypeOK
<1>6. QuietBut(i, tasks, tasks')
  BY QuietReflexive, QuietIsQuietBut DEF PeekQueue, IInv, TypeOK
<1>7. InStep(i)'
  BY <1>1, <1>3, <1>5 DEF PeekQueue, InStep, HostUp, Host
<1> QED BY <1>3, <1>4, <1>6, <1>7, OwnStepKeepsIInv DEF PeekQueue, IInv, TypeOK

\* What poll_queue does to the list: nothing to the other tasks, and to its own
\* only a claim, of a task that was queued, is more than a bystander's step.
LEMMA PollTransactionStep ==
    ASSUME IInv, NEW i \in TaskIds, i \in DOMAIN tasks, Host(i) \in Processes,
           PollTransaction(i)
    PROVE  /\ QuietBut(i, tasks, tasks')
           /\ markers' \subseteq Processes
           /\ QueueTurn(Fresh, config, i) = "start" =>
                 /\ tasks[i].status = "queued"
                 /\ tasks'[i].status = "running" /\ ~tasks'[i].notStarted
           /\ QueueTurn(Fresh, config, i) # "start" => Quiet(tasks, tasks')
<1> DEFINE turn == QueueTurn(Fresh, config, i)
<1>1. /\ tasks \in Seq(Task) /\ config \in Config /\ markers \subseteq Processes
  BY DEF IInv, TypeOK
<1>2. Fresh \in Seq(Task) /\ i \in DOMAIN Fresh /\ Quiet(tasks, Fresh)
  BY FreshQuiet DEF IInv
<1>3. tasks[i] \in Task /\ Fresh[i] \in Task
  BY <1>1, <1>2
<1>4. Bystander(tasks[i], Fresh[i]) /\ TaskInv(tasks[i])
  BY <1>2 DEF Quiet, IInv, RecordsHold
<1>5. TaskInv(Fresh[i])
  BY <1>4 DEF Bystander
<1>6. turn \in {"start", "wait"} => Fresh[i].status = "queued"
  BY DEF QueueTurn, MayWait
<1>7. CASE turn = "start"
  <2>1. tasks' = Claimed(Fresh, i) /\ markers' = markers
    BY <1>7 DEF PollTransaction
  <2>2. tasks[i].status = "queued"
    BY <1>3, <1>4, <1>6, <1>7 DEF Bystander, Task, Status, Ended
  <2>3. ~Fresh[i].notStarted
    BY <1>5, <1>6, <1>7 DEF TaskInv, Ended, Terminal
  <2>4. /\ QuietBut(i, Fresh, tasks')
        /\ tasks'[i].status = "running" /\ tasks'[i].notStarted = Fresh[i].notStarted
    BY <1>2, <1>6, <1>7, <2>1, ClaimedStep
  <2>5. QuietBut(i, tasks, tasks')
    BY <2>4, AfterFresh DEF IInv
  <2> QED BY <1>1, <1>7, <2>1, <2>2, <2>3, <2>4, <2>5
<1>8. CASE turn = "stop"
  <2>1. tasks' = Fresh /\ markers' = markers
    BY <1>8 DEF PollTransaction
  <2> QED BY <1>1, <1>2, <1>8, <2>1, QuietIsQuietBut
<1>9. CASE turn = "wait"
  <2>1. Fresh[i].owner \in Processes \cup {NoOwner} /\ Host(i) \in Processes \cup {NoOwner}
    BY <1>3 DEF Task
  <2>2. \/ tasks' = StillQueued(Fresh, config, i, Host(i)) /\ markers' = markers \cup {Host(i)}
        \/ tasks' = StillQueued(Fresh, config, i, Fresh[i].owner) /\ markers' = markers
    BY <1>9 DEF PollTransaction
  <2>3. Quiet(Fresh, tasks')
    BY <1>1, <1>2, <1>6, <1>9, <2>1, <2>2, StillQueuedQuiet
  <2>4. Quiet(tasks, tasks')
    BY <2>3, AfterFresh DEF IInv
  <2> QED BY <1>1, <1>9, <2>2, <2>4, QuietIsQuietBut
<1>10. turn \in {"start", "wait", "stop"}
  BY DEF QueueTurn
<1> QED BY <1>7, <1>8, <1>9, <1>10

LEMMA PollQueueStep ==
    ASSUME IInv, NEW i \in TaskIds, PollQueue(i) PROVE IInv'
<1>1. /\ i \in DOMAIN tasks /\ tasks[i] \in Task /\ worker[i] \in Worker
      /\ HostUp(i) /\ Host(i) \in Processes /\ InStep(i)
      /\ worker[i].stage = "polling"
  BY AtWorker DEF PollQueue
<1> DEFINE turn == QueueTurn(Fresh, config, i)
           w == CASE turn = "start" -> [worker[i] EXCEPT !.stage = "claimed"]
                  [] turn = "stop"  -> Stopped(worker[i], "done")
                  [] OTHER -> [worker[i] EXCEPT !.stage = "waiting", !.peek = TRUE,
                                                !.failures = 0]
<1>2. /\ QuietBut(i, tasks, tasks') /\ markers' \subseteq Processes
      /\ turn = "start" => tasks'[i].status = "running" /\ ~tasks'[i].notStarted
  BY <1>1, PollTransactionStep DEF PollQueue
<1>3. /\ 0 \in 0 .. MaxPollFailures /\ 0 < MaxPollFailures
      /\ {"claimed", "waiting"} \subseteq Stage
  BY CollaborationAssumption DEF Stage, Awaiting
<1>4. /\ w \in Worker
      /\ w.process = worker[i].process
      /\ \/ w.stage = "claimed" /\ turn = "start"
         \/ w.stage = "done"
         \/ w.stage = "waiting" /\ w.failures < MaxPollFailures
  <2>1. CASE turn = "start"
    BY <1>1, <1>3, <2>1 DEF Worker
  <2>2. CASE turn = "stop"
    BY <1>1, <2>2, StoppedType
  <2>3. CASE turn \notin {"start", "stop"}
    BY <1>1, <1>3, <2>3 DEF Worker
  <2> QED BY <2>1, <2>2, <2>3
<1>5. worker' = [worker EXCEPT ![i] = w]
  BY DEF PollQueue
<1> HIDE DEF w, turn
<1>6. worker'[i] = w
  BY <1>5 DEF IInv, TypeOK
<1>7. i \notin started /\ i \notin cli
  BY <1>1 DEF InStep
<1>8. InStep(i)'
  BY <1>1, <1>2, <1>4, <1>6, <1>7 DEF PollQueue, InStep, Taken, QuietBut
<1> QED BY <1>2, <1>4, <1>5, <1>8, OwnStepKeepsIInv DEF PollQueue, IInv, TypeOK

LEMMA CheckTurnFailsStep ==
    ASSUME IInv, NEW i \in TaskIds, CheckTurnFails(i) PROVE IInv'
<1>1. /\ i \in DOMAIN tasks /\ worker[i] \in Worker /\ HostUp(i) /\ InStep(i)
      /\ worker[i].stage \in {"waiting", "polling"}
  BY AtWorker DEF CheckTurnFails
<1> DEFINE stage == IF worker[i].failures + 1 >= MaxPollFailures THEN "givingUp"
                    ELSE IF worker[i].peek THEN "waiting" ELSE "polling"
           w == [worker[i] EXCEPT !.failures = worker[i].failures + 1, !.stage = stage]
<1>2. /\ worker[i].failures + 1 \in 0 .. MaxPollFailures
      /\ stage # "givingUp" => worker[i].failures + 1 < MaxPollFailures
  BY <1>1, CollaborationAssumption DEF InStep, Worker
<1>3. stage \in {"waiting", "polling", "givingUp"} /\ stage \in Stage
  BY DEF Stage, Awaiting
<1>4. worker' = [worker EXCEPT ![i] = w]
  BY DEF CheckTurnFails
<1>5. /\ w \in Worker /\ w.process = worker[i].process
      /\ w.stage = stage /\ w.failures = worker[i].failures + 1
  <2> HIDE DEF stage
  <2> QED BY <1>1, <1>2, <1>3 DEF Worker
<1> HIDE DEF w, stage
<1>6. worker'[i] = w
  BY <1>4 DEF IInv, TypeOK
<1>7. tasks' = tasks /\ dbErrors' \in 0 .. MaxDbErrors
  BY CommitOrError DEF CheckTurnFails, IInv
<1>8. QuietBut(i, tasks, tasks')
  BY <1>7, QuietReflexive, QuietIsQuietBut DEF IInv, TypeOK
<1>9. InStep(i)'
  BY <1>1, <1>2, <1>3, <1>5, <1>6, <1>7 DEF CheckTurnFails, InStep
<1> QED BY <1>4, <1>5, <1>7, <1>8, <1>9, OwnStepKeepsIInv DEF CheckTurnFails, IInv, TypeOK

LEMMA GiveUpStep ==
    ASSUME IInv, NEW i \in TaskIds, GiveUp(i) PROVE IInv'
<1>1. /\ i \in DOMAIN tasks /\ worker[i] \in Worker /\ HostUp(i) /\ InStep(i)
      /\ worker[i].stage = "givingUp"
  BY AtWorker DEF GiveUp
<1>2. /\ tasks' = AbandonedBeforeLaunch(Fresh, i, FALSE) \/ tasks' = tasks
      /\ dbErrors' \in 0 .. MaxDbErrors
  BY CommitOrError DEF GiveUp, IInv
<1>3. Quiet(tasks, tasks')
  BY <1>1, <1>2, QuietReflexive, FreshQuiet, AbandonedBeforeLaunchStep, AfterFresh
     DEF IInv, TypeOK
<1>4. QuietBut(i, tasks, tasks') /\ DOMAIN tasks' = DOMAIN tasks
  BY <1>3, QuietIsQuietBut DEF IInv, TypeOK, Quiet
<1> DEFINE w == Stopped(worker[i], "done")
<1>5. w \in Worker /\ w.stage = "done"
  BY <1>1, StoppedType
<1>6. worker' = [worker EXCEPT ![i] = w]
  BY DEF GiveUp
<1> HIDE DEF w
<1>7. worker'[i] = w
  BY <1>6 DEF IInv, TypeOK
<1>8. InStep(i)'
  BY <1>1, <1>4, <1>5, <1>7 DEF GiveUp, InStep
<1> QED BY <1>2, <1>4, <1>5, <1>6, <1>8, OwnStepKeepsIInv DEF GiveUp, IInv, TypeOK

\* Every transaction but a claim, and a result, is a bystander's, or none.
LEMMA FreshOrNone ==
    ASSUME IInv, tasks' = Fresh \/ tasks' = tasks
    PROVE  Quiet(tasks, tasks')
  BY FreshQuiet, QuietReflexive DEF IInv, TypeOK

\* A worker that goes on to another stage while its task is Quiet.
LEMMA MovesInStep ==
    ASSUME IInv, NEW i \in TaskIds, i \in DOMAIN tasks, InStep(i), HostUp(i),
           Quiet(tasks, tasks'), process' = process,
           NEW w \in Worker, worker'[i] = w,
           w.stage \notin {"none", "submitted", "waiting", "polling"},
           w.stage \in {"claimed", "starting", "supervising"} => Taken(tasks[i]),
           w.stage \in {"starting", "supervising", "finishing"} => w.launched,
           i \in started' =>
              /\ w.stage \in {"supervising", "finishing", "dropped", "done",
                              "stopping", "removed"}
              /\ w.stage \in {"dropped", "done"} => w.launched
              /\ LeftQueue(tasks[i]),
           i \in cli' => i \in started' /\ w.stage = "supervising"
    PROVE  InStep(i)'
<1>1. tasks[i] \in Task /\ Bystander(tasks[i], tasks'[i]) /\ DOMAIN tasks' = DOMAIN tasks
  BY DEF IInv, TypeOK, Quiet
<1>2. /\ Taken(tasks[i]) => Taken(tasks'[i])
      /\ LeftQueue(tasks[i]) => LeftQueue(tasks'[i])
  BY <1>1, BystanderKeeps
<1> QED BY <1>1, <1>2 DEF InStep, Taken, LeftQueue

LEMMA BeginTaskStep ==
    ASSUME IInv, NEW i \in TaskIds, BeginTask(i) PROVE IInv'
<1>1. /\ i \in DOMAIN tasks /\ worker[i] \in Worker /\ HostUp(i) /\ InStep(i)
      /\ worker[i].stage = "claimed"
  BY AtWorker DEF BeginTask
<1>2. /\ tasks' = Fresh \/ tasks' = tasks
      /\ dbErrors' \in 0 .. MaxDbErrors
  BY CommitOrError DEF BeginTask, IInv
<1>3. Quiet(tasks, tasks')
  BY <1>2, FreshOrNone
<1>4. \A outcome \in Outcome, stage \in {"starting", "finishing"} :
         LET w == Launched(worker[i], stage, outcome) IN
         w \in Worker /\ w.launched /\ w.stage = stage
  BY <1>1 DEF Launched, Worker, Stage, Awaiting
<1>5. PICK w \in Worker : /\ worker' = [worker EXCEPT ![i] = w]
                          /\ w.launched /\ w.stage \in {"starting", "finishing"}
  <2>1. {"interrupted", "failed", worker[i].outcome} \subseteq Outcome
    BY <1>1 DEF Worker, Outcome
  <2> QED BY <1>4, <2>1 DEF BeginTask
<1>6. worker'[i] = w
  BY <1>5 DEF IInv, TypeOK
<1>7. i \notin started /\ i \notin cli /\ Taken(tasks[i])
  BY <1>1 DEF InStep
<1>8. InStep(i)'
  BY <1>1, <1>3, <1>5, <1>6, <1>7, MovesInStep DEF BeginTask
<1>9. QuietBut(i, tasks, tasks')
  BY <1>3, QuietIsQuietBut DEF IInv, TypeOK
<1> QED BY <1>2, <1>5, <1>8, <1>9, OwnStepKeepsIInv DEF BeginTask, IInv, TypeOK

LEMMA StartCliStep ==
    ASSUME IInv, NEW i \in TaskIds, StartCli(i) PROVE IInv'
<1>1. /\ i \in DOMAIN tasks /\ worker[i] \in Worker /\ HostUp(i) /\ InStep(i)
      /\ worker[i].stage = "starting"
  BY AtWorker DEF StartCli
<1>2. /\ tasks' = Fresh \/ tasks' = tasks
      /\ dbErrors' \in 0 .. MaxDbErrors
  BY CommitOrError DEF StartCli, IInv
<1>3. Quiet(tasks, tasks')
  BY <1>2, FreshOrNone
<1> DEFINE w == [worker[i] EXCEPT !.stage = "supervising"]
<1>4. w \in Worker /\ w.stage = "supervising" /\ w.launched
  BY <1>1 DEF Worker, Stage, Awaiting, InStep
<1>5. worker' = [worker EXCEPT ![i] = w]
  BY DEF StartCli, GoTo
<1> HIDE DEF w
<1>6. worker'[i] = w
  BY <1>5 DEF IInv, TypeOK
<1>7. Taken(tasks[i]) /\ LeftQueue(tasks[i])
  BY <1>1 DEF InStep, Taken, LeftQueue
<1>8. InStep(i)'
  BY <1>1, <1>3, <1>4, <1>6, <1>7, MovesInStep DEF StartCli
<1>9. QuietBut(i, tasks, tasks')
  BY <1>3, QuietIsQuietBut DEF IInv, TypeOK
<1> QED BY <1>2, <1>4, <1>5, <1>8, <1>9, OwnStepKeepsIInv DEF StartCli, IInv, TypeOK

\* The worker goes on to report an outcome; its CLI is no more.
LEMMA EndStep ==
    ASSUME IInv, NEW i \in TaskIds, i \in DOMAIN tasks, HostUp(i),
           worker[i].stage \in {"starting", "supervising"},
           Quiet(tasks, tasks'), dbErrors' \in 0 .. MaxDbErrors,
           NEW outcome \in Outcome, End(i, outcome),
           cli' = cli \ {i},
           UNCHANGED <<config, markers, process, started>>
    PROVE  IInv'
<1>1. worker[i] \in Worker /\ InStep(i)
  BY DEF IInv, TypeOK, WorkersInStep
<1> DEFINE w == [worker[i] EXCEPT !.stage = "finishing", !.outcome = outcome]
<1>2. w \in Worker /\ w.stage = "finishing" /\ w.launched
  BY <1>1 DEF Worker, Stage, Awaiting, InStep
<1>3. worker' = [worker EXCEPT ![i] = w]
  BY DEF End, IInv, TypeOK
<1> HIDE DEF w
<1>4. worker'[i] = w
  BY <1>3 DEF IInv, TypeOK
<1>5. i \in started => LeftQueue(tasks[i])
  BY <1>1 DEF InStep
<1>6. InStep(i)'
  BY <1>1, <1>2, <1>4, <1>5, MovesInStep
<1>7. QuietBut(i, tasks, tasks')
  BY QuietIsQuietBut DEF IInv, TypeOK
<1> QED BY <1>2, <1>3, <1>6, <1>7, OwnStepKeepsIInv DEF IInv, TypeOK

LEMMA StartFailsStep ==
    ASSUME IInv, NEW i \in TaskIds, StartFails(i) PROVE IInv'
<1>1. /\ i \in DOMAIN tasks /\ HostUp(i) /\ InStep(i)
      /\ worker[i].stage = "starting"
  BY AtWorker DEF StartFails
<1>2. /\ tasks' = Fresh \/ tasks' = tasks
      /\ dbErrors' \in 0 .. MaxDbErrors
  BY CommitOrError DEF StartFails, IInv
<1>3. Quiet(tasks, tasks')
  BY <1>2, FreshOrNone
<1>4. cli' = cli \ {i}
  BY <1>1 DEF StartFails, InStep
<1> QED BY <1>1, <1>2, <1>3, <1>4, EndStep DEF StartFails, Outcome

LEMMA SuperviseCheckStep ==
    ASSUME IInv, NEW i \in TaskIds, SuperviseCheck(i) PROVE IInv'
<1>1. /\ i \in DOMAIN tasks /\ HostUp(i) /\ InStep(i)
      /\ worker[i].stage = "supervising"
  BY AtWorker DEF SuperviseCheck
<1>2. tasks' = Fresh /\ dbErrors' \in 0 .. MaxDbErrors
  BY DEF SuperviseCheck, Commit, IInv, TypeOK
<1>3. Quiet(tasks, tasks')
  BY <1>2, FreshOrNone
<1>4. CASE WorkerShouldStop(Fresh, config, i)
  BY <1>1, <1>2, <1>3, <1>4, EndStep DEF SuperviseCheck, Outcome
<1>5. CASE ~WorkerShouldStop(Fresh, config, i)
  <2>1. UNCHANGED <<config, markers, process, worker, cli, started>>
    BY <1>5 DEF SuperviseCheck
  <2>2. TypeOK'
    BY <1>2, <1>3, <2>1, ListType DEF IInv, TypeOK
  <2> QED BY <1>3, <2>1, <2>2, QuietInStep DEF IInv
<1> QED BY <1>4, <1>5

LEMMA TouchStep ==
    ASSUME IInv, NEW i \in TaskIds, Touch(i) PROVE IInv'
<1>1. i \in DOMAIN tasks
  BY AtWorker DEF Touch
<1>2. tasks' = Touched(Fresh, i)
      /\ UNCHANGED <<config, markers, process, worker, cli, started, dbErrors>>
  BY DEF Touch, Commit
<1>3. Quiet(tasks, tasks')
  BY <1>1, <1>2, FreshQuiet, TouchedQuiet, AfterFresh DEF IInv
<1>4. TypeOK'
  BY <1>2, <1>3, ListType DEF IInv, TypeOK
<1> QED BY <1>2, <1>3, <1>4, QuietInStep DEF IInv

LEMMA CliEndsStep ==
    ASSUME IInv, NEW i \in TaskIds, NEW outcome \in Outcome, CliEnds(i, outcome)
    PROVE  IInv'
<1>1. i \in DOMAIN tasks /\ HostUp(i) /\ worker[i].stage = "supervising"
  BY AtWorker DEF CliEnds
<1>2. Quiet(tasks, tasks') /\ dbErrors' = dbErrors
  <2>1. Quiet(tasks, Touched(Fresh, i)) /\ Quiet(tasks, tasks)
    BY <1>1, FreshQuiet, TouchedQuiet, AfterFresh, QuietReflexive DEF IInv, TypeOK
  <2> QED BY <2>1 DEF CliEnds, Commit
<1>3. dbErrors' \in 0 .. MaxDbErrors
  BY <1>2 DEF IInv, TypeOK
<1> QED BY <1>1, <1>2, <1>3, EndStep DEF CliEnds

LEMMA FinishTaskStep ==
    ASSUME IInv, NEW i \in TaskIds, FinishTask(i) PROVE IInv'
<1>1. /\ i \in DOMAIN tasks /\ tasks[i] \in Task /\ worker[i] \in Worker
      /\ HostUp(i) /\ InStep(i) /\ worker[i].stage = "finishing"
  BY AtWorker DEF FinishTask
<1>0. PICK session \in ReportedSession(i) :
          Commit(Finished(Fresh, i, worker[i].outcome, session)) \/ DbError
  BY DEF FinishTask
<1> DEFINE outcome == worker[i].outcome
           us      == Finished(Fresh, i, outcome, session)
           w       == Stopped(worker[i], "done")
<1>2. (tasks' = us \/ tasks' = tasks) /\ dbErrors' \in 0 .. MaxDbErrors
  BY <1>0, CommitOrError DEF IInv
<1>3. outcome \in Terminal /\ session \in Session
  <2>1. tasks[i].session \in Session /\ i \in Session /\ NoSession \in Session
    BY <1>1, StoreAssumption DEF Task, Session, NoSession, TaskIds
  <2> QED BY <1>0, <1>1, <2>1 DEF Worker, Outcome, Terminal, ReportedSession, SessionOf
<1>4. /\ QuietBut(i, Fresh, us) /\ Ended(us[i])
      /\ us[i].notStarted => Fresh[i].notStarted
  BY <1>1, <1>3, FreshQuiet, FinishedStep DEF IInv
<1> HIDE DEF us
<1>5. QuietBut(i, tasks, us) /\ QuietBut(i, tasks, tasks)
  BY <1>4, AfterFresh, QuietReflexive, QuietIsQuietBut DEF IInv, TypeOK
<1>6. LeftQueue(tasks[i]) => LeftQueue(tasks'[i])
  <2>1. Bystander(tasks[i], Fresh[i])
    BY <1>1, FreshQuiet DEF IInv, Quiet
  <2>2. LeftQueue(tasks[i]) => LeftQueue(Fresh[i])
    BY <1>1, <2>1, BystanderKeeps
  <2> QED BY <1>2, <1>4, <2>2 DEF LeftQueue, Ended, Terminal
<1>7. w \in Worker /\ w.stage = "done" /\ w.launched = worker[i].launched
  BY <1>1, StoppedType
<1>8. worker' = [worker EXCEPT ![i] = w]
  BY DEF FinishTask
<1> HIDE DEF w
<1>9. worker'[i] = w
  BY <1>8 DEF IInv, TypeOK
<1>10. QuietBut(i, tasks, tasks') /\ DOMAIN tasks' = DOMAIN tasks
  BY <1>2, <1>5 DEF QuietBut
<1>11. InStep(i)'
  BY <1>1, <1>6, <1>7, <1>9, <1>10 DEF FinishTask, InStep
<1> QED BY <1>2, <1>7, <1>8, <1>10, <1>11, OwnStepKeepsIInv DEF FinishTask, IInv, TypeOK

-----------------------------------------------------------------------------
(* Shutdown and crashes. *)

LEMMA DropWorkerStep ==
    ASSUME IInv, NEW i \in TaskIds, DropWorker(i) PROVE IInv'
<1>1. /\ i \in DOMAIN tasks /\ worker[i] \in Worker /\ HostUp(i) /\ InStep(i)
      /\ worker[i].stage \in Awaiting
  BY AtWorker DEF DropWorker, Awaiting
<1>2. PICK orphan \in {"none", "poll", "giveUp"} :
         worker' = [worker EXCEPT ![i] =
                      [Stopped(worker[i], "dropped") EXCEPT !.orphan = orphan]]
  BY DEF DropWorker
<1> DEFINE stopped == Stopped(worker[i], "dropped")
           w       == [stopped EXCEPT !.orphan = orphan]
<1>3. stopped \in Worker /\ stopped.stage = "dropped"
      /\ stopped.launched = worker[i].launched
  BY <1>1, StoppedType
<1>4. w \in Worker /\ w.stage = "dropped" /\ w.launched = worker[i].launched
  <2> HIDE DEF stopped
  <2> QED BY <1>3 DEF Worker
<1>5. worker' = [worker EXCEPT ![i] = w]
  BY <1>2
<1> HIDE DEF w
<1>6. worker'[i] = w
  BY <1>5 DEF IInv, TypeOK
<1>7. Quiet(tasks, tasks') /\ QuietBut(i, tasks, tasks')
  BY QuietReflexive, QuietIsQuietBut DEF DropWorker, IInv, TypeOK
<1>8. i \in started => w.launched /\ LeftQueue(tasks[i])
  BY <1>1, <1>4 DEF InStep, Awaiting
<1>9. InStep(i)'
  BY <1>1, <1>4, <1>6, <1>7, <1>8, MovesInStep DEF DropWorker
<1> QED BY <1>4, <1>5, <1>7, <1>9, OwnStepKeepsIInv DEF DropWorker, IInv, TypeOK

LEMMA OrphanStoreCallStep ==
    ASSUME IInv, NEW i \in TaskIds, OrphanStoreCall(i) PROVE IInv'
<1>1. worker[i] \in Worker /\ InStep(i) /\ worker[i] # NoWorker
  <2>1. worker[i] \in Worker /\ InStep(i)
    BY DEF IInv, TypeOK, WorkersInStep
  <2>2. worker[i].orphan # "none"
    BY DEF OrphanStoreCall
  <2> QED BY <2>1, <2>2 DEF NoWorker
<1>2. i \in DOMAIN tasks /\ Host(i) \in Processes
  BY <1>1, WorkerHasTask DEF OrphanStoreCall, HostUp
<1>3. /\ QuietBut(i, tasks, tasks') /\ markers' \subseteq Processes
      /\ ~Quiet(tasks, tasks') =>
            tasks[i].status = "queued" /\ tasks'[i].status = "running"
  <2>1. CASE PollTransaction(i)
    BY <1>2, <2>1, PollTransactionStep
  <2>2. CASE tasks' = AbandonedBeforeLaunch(Fresh, i, FALSE) /\ markers' = markers
    <3>1. Quiet(tasks, tasks')
      BY <1>2, <2>2, FreshQuiet, AbandonedBeforeLaunchStep, AfterFresh DEF IInv
    <3> QED BY <2>2, <3>1, QuietIsQuietBut DEF IInv, TypeOK
  <2> QED BY <2>1, <2>2 DEF OrphanStoreCall
<1> DEFINE w == [worker[i] EXCEPT !.orphan = "none"]
<1>4. /\ w \in Worker /\ w.stage = worker[i].stage /\ w.launched = worker[i].launched
      /\ w.failures = worker[i].failures /\ w.process = worker[i].process
  BY <1>1 DEF Worker
<1>5. worker' = [worker EXCEPT ![i] = w]
  BY DEF OrphanStoreCall
<1> HIDE DEF w
<1>6. worker'[i] = w
  BY <1>5 DEF IInv, TypeOK
<1>7. tasks[i] \in Task /\ DOMAIN tasks' = DOMAIN tasks
  BY <1>2, <1>3 DEF IInv, TypeOK, QuietBut
<1>8. InStep(i)'
  <2>1. HostUp(i)' <=> HostUp(i)
    BY <1>4, <1>6 DEF OrphanStoreCall, HostUp, Host
  <2>2. CASE Quiet(tasks, tasks')
    <3>1. Bystander(tasks[i], tasks'[i])
      BY <1>2, <2>2 DEF Quiet
    <3>2. /\ Taken(tasks[i]) => Taken(tasks'[i])
          /\ LeftQueue(tasks[i]) => LeftQueue(tasks'[i])
      BY <1>7, <3>1, BystanderKeeps
    <3> QED BY <1>1, <1>2, <1>4, <1>6, <1>7, <2>1, <3>2
            DEF OrphanStoreCall, InStep, Taken, LeftQueue
  <2>3. CASE tasks[i].status = "queued" /\ tasks'[i].status = "running"
    <3>1. i \notin started /\ worker[i].stage \notin {"claimed", "starting", "supervising"}
      BY <1>1, <2>3 DEF InStep, Taken, LeftQueue
    <3> QED BY <1>1, <1>2, <1>4, <1>6, <1>7, <2>1, <3>1 DEF OrphanStoreCall, InStep
  <2> QED BY <1>3, <2>2, <2>3
<1> QED BY <1>3, <1>4, <1>5, <1>8, OwnStepKeepsIInv DEF OrphanStoreCall, IInv, TypeOK

LEMMA StopTaskStep ==
    ASSUME IInv, NEW i \in TaskIds, StopTask(i) PROVE IInv'
<1>1. /\ i \in DOMAIN tasks /\ tasks[i] \in Task /\ worker[i] \in Worker
      /\ HostUp(i) /\ InStep(i) /\ worker[i].stage \in {"dropped", "done"}
  BY AtWorker DEF StopTask
<1> DEFINE us == AbandonedBeforeLaunch(Fresh, i, ~worker[i].launched)
<1>2. (tasks' = us \/ tasks' = tasks) /\ dbErrors' \in 0 .. MaxDbErrors
  BY CommitOrError DEF StopTask, IInv
<1>3. (~worker[i].launched) \in BOOLEAN
  OBVIOUS
<1>4. QuietBut(i, tasks, us) /\ (worker[i].launched => Quiet(tasks, us))
  BY <1>1, <1>3, FreshQuiet, AbandonedBeforeLaunchStep, AfterFresh DEF IInv
<1> HIDE DEF us
<1>5. /\ QuietBut(i, tasks, tasks') /\ DOMAIN tasks' = DOMAIN tasks
      /\ i \in started => Quiet(tasks, tasks')
  BY <1>1, <1>2, <1>4, QuietReflexive, QuietIsQuietBut
     DEF InStep, QuietBut, IInv, TypeOK
<1>6. i \in started => LeftQueue(tasks'[i])
  <2>1. i \in started => LeftQueue(tasks[i]) /\ Bystander(tasks[i], tasks'[i])
    BY <1>1, <1>5 DEF InStep, Quiet
  <2> QED BY <1>1, <2>1, BystanderKeeps
<1>7. PICK w \in Worker : /\ worker' = [worker EXCEPT ![i] = w]
                          /\ w.stage \in {"removed", "stopping"}
  <2>1. CASE Remove(i)
    BY <2>1, RemovedType
  <2>2. CASE GoTo(i, "stopping")
    <3>1. [worker[i] EXCEPT !.stage = "stopping"] \in Worker
      BY <1>1 DEF Worker, Stage
    <3>2. worker' = [worker EXCEPT ![i] = [worker[i] EXCEPT !.stage = "stopping"]]
      BY <2>2 DEF GoTo, IInv, TypeOK
    <3>3. [worker[i] EXCEPT !.stage = "stopping"].stage = "stopping"
      BY <1>1 DEF Worker
    <3> QED BY <3>1, <3>2, <3>3
  <2> QED BY <2>1, <2>2 DEF StopTask
<1>8. worker'[i] = w
  BY <1>7 DEF IInv, TypeOK
<1>9. i \notin cli
  BY <1>1 DEF InStep
<1>10. InStep(i)'
  BY <1>1, <1>5, <1>6, <1>7, <1>8, <1>9 DEF StopTask, InStep
<1> QED BY <1>2, <1>5, <1>7, <1>10, OwnStepKeepsIInv DEF StopTask, IInv, TypeOK

LEMMA StopAsInterruptedStep ==
    ASSUME IInv, NEW i \in TaskIds, StopAsInterrupted(i) PROVE IInv'
<1>1. /\ i \in DOMAIN tasks /\ tasks[i] \in Task /\ HostUp(i) /\ InStep(i)
      /\ worker[i].stage = "stopping"
  BY AtWorker DEF StopAsInterrupted
<1> DEFINE us == Finished(Fresh, i, "interrupted", NoSession)
<1>2. (tasks' = us \/ tasks' = tasks) /\ dbErrors' \in 0 .. MaxDbErrors
  BY CommitOrError DEF StopAsInterrupted, IInv
<1>3. "interrupted" \in Terminal /\ NoSession \in Session
  BY StoreAssumption DEF Terminal, NoSession, Session
<1>4. /\ QuietBut(i, Fresh, us) /\ Ended(us[i])
      /\ us[i].notStarted => Fresh[i].notStarted
  BY <1>1, <1>3, FreshQuiet, FinishedStep DEF IInv
<1> HIDE DEF us
<1>5. QuietBut(i, tasks, us) /\ QuietBut(i, tasks, tasks)
  BY <1>4, AfterFresh, QuietReflexive, QuietIsQuietBut DEF IInv, TypeOK
<1>6. QuietBut(i, tasks, tasks') /\ DOMAIN tasks' = DOMAIN tasks
  BY <1>2, <1>5 DEF QuietBut
<1>7. LeftQueue(tasks[i]) => LeftQueue(tasks'[i])
  <2>1. Bystander(tasks[i], Fresh[i])
    BY <1>1, FreshQuiet DEF IInv, Quiet
  <2>2. LeftQueue(tasks[i]) => LeftQueue(Fresh[i])
    BY <1>1, <2>1, BystanderKeeps
  <2> QED BY <1>2, <1>4, <2>2 DEF LeftQueue, Ended, Terminal
<1>8. PICK w \in Worker : worker' = [worker EXCEPT ![i] = w]
  BY RemovedType DEF StopAsInterrupted
<1>9. InStep(i)'
  BY <1>1, <1>6, <1>7, RemovedInStep DEF StopAsInterrupted, InStep
<1> QED BY <1>2, <1>6, <1>8, <1>9, OwnStepKeepsIInv DEF StopAsInterrupted, IInv, TypeOK

LEMMA ShutdownStep ==
    ASSUME IInv, NEW p \in Processes, Shutdown(p) PROVE IInv'
<1>1. TypeOK' /\ RecordsHold'
  BY DEF Shutdown, IInv, TypeOK, RecordsHold
<1>2. ASSUME NEW j \in TaskIds PROVE InStep(j)'
  <2>1. HostUp(j)' => HostUp(j)
    BY DEF Shutdown, HostUp, Host, IInv, TypeOK
  <2>2. InStep(j)
    BY DEF IInv, WorkersInStep
  <2> QED BY <2>1, <2>2 DEF Shutdown, InStep
<1> QED BY <1>1, <1>2 DEF IInv, WorkersInStep

LEMMA ExitStep ==
    ASSUME IInv, NEW p \in Processes, Exit(p) PROVE IInv'
<1>1. RecordsHold'
  BY DEF Exit, IInv, RecordsHold
<1>2. worker' \in [TaskIds -> Worker]
  BY NoWorkerType DEF Exit, IInv, TypeOK
<1>3. TypeOK'
  BY <1>2 DEF Exit, IInv, TypeOK
<1>4. ASSUME NEW j \in TaskIds PROVE InStep(j)'
  <2>1. InStep(j)
    BY DEF IInv, WorkersInStep
  <2>2. CASE Host(j) = p
    <3>1. worker'[j] = Gone /\ Gone.stage = "removed" /\ Gone.process = NoOwner
      BY <2>2 DEF Exit, Gone, NoWorker
    <3>2. j \in DOMAIN tasks
      BY <2>1, <2>2, StoreAssumption DEF InStep, Host, NoWorker
    <3>3. ~HostUp(j)'
      BY <3>1, StoreAssumption DEF HostUp, Host
    <3> QED BY <2>1, <3>1, <3>2, <3>3 DEF Exit, InStep
  <2>3. CASE Host(j) # p
    <3>1. worker'[j] = worker[j]
      BY <2>3 DEF Exit
    <3>2. HostUp(j)' => HostUp(j)
      BY <2>3, <3>1 DEF Exit, HostUp, Host, IInv, TypeOK
    <3> QED BY <2>1, <3>1, <3>2 DEF Exit, InStep
  <2> QED BY <2>2, <2>3
<1> QED BY <1>1, <1>3, <1>4 DEF IInv, WorkersInStep

LEMMA OrphanCliEndsStep ==
    ASSUME IInv, NEW i \in TaskIds, OrphanCliEnds(i) PROVE IInv'
<1>1. TypeOK' /\ RecordsHold'
  BY DEF OrphanCliEnds, IInv, TypeOK, RecordsHold
<1>2. ASSUME NEW j \in TaskIds PROVE InStep(j)'
  <2>1. InStep(j)
    BY DEF IInv, WorkersInStep
  <2> QED BY <2>1 DEF OrphanCliEnds, InStep, HostUp, Host
<1> QED BY <1>1, <1>2 DEF IInv, WorkersInStep

-----------------------------------------------------------------------------
(* The user, the readers, time, and a new task. *)

LEMMA StoreStepQuiet ==
    ASSUME IInv,
           \/ \E i \in TaskIds : Cancel(i)
           \/ \E cfg \in Configs : SaveConfig(cfg)
           \/ Refresh
           \/ Tick
    PROVE  Quiet(tasks, tasks')
<1>1. tasks \in Seq(Task) /\ TypeOK
  BY DEF IInv, TypeOK
<1>2. CASE \E i \in TaskIds : Cancel(i)
  BY <1>1, <1>2, FreshQuiet, CancelledQuiet, AfterFresh DEF Cancel
<1>3. CASE \E cfg \in Configs : SaveConfig(cfg)
  BY <1>1, <1>3, FreshQuiet, ConfigSavedQuiet, AfterFresh DEF SaveConfig
<1>4. CASE Refresh
  BY <1>1, <1>4, FreshQuiet DEF Refresh
<1>5. CASE Tick
  BY <1>1, <1>5, AgedQuiet DEF Tick
<1> QED BY <1>2, <1>3, <1>4, <1>5

LEMMA StoreStep ==
    ASSUME IInv,
           \/ \E i \in TaskIds : Cancel(i)
           \/ \E cfg \in Configs : SaveConfig(cfg)
           \/ Refresh
           \/ Tick
    PROVE  IInv'
<1>1. UNCHANGED <<markers, process, worker, cli, started, dbErrors>>
  BY DEF Cancel, SaveConfig, Refresh, Tick
<1>2. config' \in Config
  BY CollaborationAssumption DEF Cancel, SaveConfig, Refresh, Tick, IInv, TypeOK
<1>3. Quiet(tasks, tasks')
  BY StoreStepQuiet
<1>4. TypeOK'
  BY <1>1, <1>2, <1>3, ListType DEF IInv, TypeOK
<1> QED BY <1>1, <1>3, <1>4, QuietInStep DEF IInv

\* What a submission does to the list: one more task, and the others as a
\* bystander would leave them.
LEMMA SubmitList ==
    ASSUME IInv, NEW p \in Processes, NEW a \in Agents, NEW parent \in 0 .. MaxTasks,
           Submit(p, a, parent)
    PROVE  LET new == Len(tasks) + 1 IN
           /\ tasks' \in Seq(Task) /\ Len(tasks') = new
           /\ new \in TaskIds
           /\ DOMAIN tasks' = DOMAIN tasks \cup {new}
           /\ \A i \in DOMAIN tasks : tasks'[i] = Fresh[i]
           /\ TaskInv(tasks'[new])
           /\ tasks'[new].status = "queued" /\ ~tasks'[new].notStarted
           /\ tasks'[new].agent = a
           /\ tasks'[new].session = IF parent = 0 THEN NoSession ELSE Fresh[parent].session
<1> DEFINE session == IF parent = 0 THEN NoSession ELSE Fresh[parent].session
           t       == NewTask(Fresh, config, a, session)
           new     == Len(tasks) + 1
<1>1. /\ Fresh \in Seq(Task) /\ Len(Fresh) = Len(tasks) /\ DOMAIN Fresh = DOMAIN tasks
      /\ tasks \in Seq(Task) /\ config \in Config
  BY FreshQuiet DEF IInv, TypeOK
<1>2. session \in Session
  <2>1. CASE parent = 0
    BY <2>1, StoreAssumption DEF NoSession, Session
  <2>2. CASE parent # 0
    <3>1. parent \in DOMAIN Fresh
      BY <2>2 DEF Submit, MayContinue
    <3>2. Fresh[parent] \in Task
      BY <1>1, <3>1
    <3> QED BY <2>2, <3>2 DEF Task
  <2> QED BY <2>1, <2>2
<1> HIDE DEF session
<1>3. t \in Task
  BY <1>1, <1>2, NewTaskType
<1>4. /\ t.status = "queued" /\ ~t.notStarted /\ ~t.cancelRequested
      /\ t.agent = a /\ t.session = session
  BY DEF NewTask
<1>5. tasks' = Append(Fresh, t)
  BY DEF Submit, session
<1>6. new \in TaskIds
  BY <1>1, StoreAssumption DEF Submit, MaySubmit, TaskIds
<1> HIDE DEF t
<1>7. TaskInv(t)
  BY <1>4 DEF TaskInv
<1>8. /\ tasks' \in Seq(Task) /\ Len(tasks') = new /\ tasks'[new] = t
      /\ DOMAIN tasks' = DOMAIN tasks \cup {new}
      /\ \A i \in DOMAIN tasks : tasks'[i] = Fresh[i]
  BY <1>1, <1>3, <1>5
<1> QED BY <1>4, <1>6, <1>7, <1>8 DEF session

LEMMA SubmitStep ==
    ASSUME IInv, NEW p \in Processes, NEW a \in Agents, NEW parent \in 0 .. MaxTasks,
           Submit(p, a, parent)
    PROVE  IInv'
<1> DEFINE new == Len(tasks) + 1
           w   == [NoWorker EXCEPT !.process = p, !.stage = "submitted"]
<1>1. /\ tasks' \in Seq(Task) /\ Len(tasks') = new
      /\ new \in TaskIds
      /\ DOMAIN tasks' = DOMAIN tasks \cup {new}
      /\ \A i \in DOMAIN tasks : tasks'[i] = Fresh[i]
      /\ TaskInv(tasks'[new])
      /\ tasks'[new].status = "queued" /\ ~tasks'[new].notStarted
  BY SubmitList
<1>2. /\ w \in Worker /\ w.stage = "submitted" /\ w.failures = 0
  <2>1. "submitted" \in Stage
    BY DEF Stage
  <2> QED BY <2>1, NoWorkerType DEF Worker, NoWorker
<1>3. worker' = [worker EXCEPT ![new] = w]
  BY DEF Submit
<1> HIDE DEF w
<1>4. /\ worker' \in [TaskIds -> Worker] /\ worker'[new] = w
      /\ \A j \in TaskIds \ {new} : worker'[j] = worker[j]
  BY <1>1, <1>2, <1>3 DEF IInv, TypeOK
<1>5. UNCHANGED <<config, markers, process, cli, started, dbErrors>>
  BY DEF Submit
<1>6. TypeOK'
  BY <1>1, <1>4, <1>5 DEF IInv, TypeOK, TaskIds
<1>7. new \notin DOMAIN tasks
  BY DEF IInv, TypeOK
<1> HIDE DEF new
<1>8. \A i \in DOMAIN tasks : tasks[i] \in Task /\ Bystander(tasks[i], tasks'[i])
  BY <1>1, FreshQuiet DEF IInv, TypeOK, Quiet
<1>9. RecordsHold'
  BY <1>1, <1>8 DEF IInv, RecordsHold, Bystander
<1>10. ASSUME NEW j \in TaskIds PROVE InStep(j)'
  <2>1. InStep(j)
    BY DEF IInv, WorkersInStep
  <2>2. CASE j = new
    <3>1. j \notin started /\ j \notin cli
      BY <1>7, <2>1, <2>2 DEF InStep
    <3> QED BY <1>1, <1>2, <1>4, <1>5, <2>2, <3>1, CollaborationAssumption DEF InStep
  <2>3. CASE j # new /\ j \in DOMAIN tasks
    <3>1. /\ Taken(tasks[j]) => Taken(tasks'[j])
          /\ LeftQueue(tasks[j]) => LeftQueue(tasks'[j])
      BY <1>8, <2>3, BystanderKeeps
    <3>2. worker'[j] = worker[j] /\ (HostUp(j)' => HostUp(j)) /\ j \in DOMAIN tasks'
      BY <1>1, <1>4, <1>5, <2>3 DEF HostUp, Host
    <3> QED BY <1>5, <2>1, <2>3, <3>1, <3>2 DEF InStep, Taken, LeftQueue
  <2>4. CASE j # new /\ j \notin DOMAIN tasks
    <3>1. worker'[j] = NoWorker /\ j \notin DOMAIN tasks' /\ j \notin started /\ j \notin cli
      BY <1>1, <1>4, <2>1, <2>4 DEF InStep
    <3> QED BY <1>5, <3>1 DEF InStep, NoWorker
  <2> QED BY <2>2, <2>3, <2>4
<1> QED BY <1>6, <1>9, <1>10 DEF IInv, WorkersInStep

-----------------------------------------------------------------------------
(* The theorems. *)

LEMMA InitIInv == Init => IInv
<1> SUFFICES ASSUME Init PROVE IInv
  OBVIOUS
<1>1. tasks \in Seq(Task) /\ Len(tasks) = 0 /\ DOMAIN tasks = {}
  BY DEF Init
<1>2. worker \in [TaskIds -> Worker] /\ \A i \in TaskIds : worker[i] = NoWorker
  BY NoWorkerType DEF Init
<1>3. TypeOK
  BY <1>1, <1>2, CollaborationAssumption, StoreAssumption DEF Init, TypeOK
<1>4. RecordsHold
  BY <1>1 DEF RecordsHold
<1>5. WorkersInStep
  BY <1>1, <1>2 DEF Init, WorkersInStep, InStep, NoWorker
<1> QED BY <1>3, <1>4, <1>5 DEF IInv

LEMMA NextIInv == IInv /\ [Next]_vars => IInv'
<1> SUFFICES ASSUME IInv, [Next]_vars PROVE IInv'
  OBVIOUS
<1>1. ASSUME NEW p \in Processes, NEW a \in Agents, NEW parent \in 0 .. MaxTasks,
             Submit(p, a, parent)
      PROVE  IInv'
  BY <1>1, SubmitStep
<1>2. ASSUME NEW i \in TaskIds, SpawnStep(i) PROVE IInv'
  BY <1>2, SpawnTaskStep, RefuseDuringShutdownStep, SubmitForgottenStep DEF SpawnStep
<1>3. ASSUME NEW i \in TaskIds, QueueStep(i) PROVE IInv'
  BY <1>3, PeekQueueStep, PollQueueStep, CheckTurnFailsStep, GiveUpStep DEF QueueStep
<1>4. ASSUME NEW i \in TaskIds, LaunchStep(i) PROVE IInv'
  BY <1>4, BeginTaskStep, StartCliStep, StartFailsStep DEF LaunchStep
<1>5. ASSUME NEW i \in TaskIds, SuperviseCheck(i) \/ Touch(i) \/ FinishTask(i) PROVE IInv'
  BY <1>5, SuperviseCheckStep, TouchStep, FinishTaskStep
<1>6. ASSUME NEW i \in TaskIds, CliStep(i) PROVE IInv'
  BY <1>6, CliEndsStep DEF CliStep
<1>7. ASSUME NEW i \in TaskIds, StopStep(i) PROVE IInv'
  BY <1>7, DropWorkerStep, StopTaskStep, StopAsInterruptedStep DEF StopStep
<1>8. ASSUME NEW i \in TaskIds, OrphanStoreCall(i) \/ OrphanCliEnds(i) PROVE IInv'
  BY <1>8, OrphanStoreCallStep, OrphanCliEndsStep
<1>9. ASSUME NEW p \in Processes, Shutdown(p) \/ Exit(p) PROVE IInv'
  BY <1>9, ShutdownStep, ExitStep
<1>10. CASE \/ \E i \in TaskIds : Cancel(i)
            \/ \E cfg \in Configs : SaveConfig(cfg)
            \/ Refresh
            \/ Tick
  BY <1>10, StoreStep
<1>11. CASE UNCHANGED vars
  <2>1. TypeOK'
    BY <1>11 DEF vars, IInv, TypeOK
  <2>2. Quiet(tasks, tasks')
    BY <1>11, QuietReflexive DEF vars, IInv, TypeOK
  <2> QED BY <1>11, <2>1, <2>2, QuietInStep DEF vars, IInv
<1> QED BY <1>1, <1>2, <1>3, <1>4, <1>5, <1>6, <1>7, <1>8, <1>9, <1>10, <1>11 DEF Next

\* The inductive invariant holds in every reachable state.
THEOREM Invariance == Spec => []IInv
<1> QED BY InitIInv, NextIInv, PTL DEF Spec

\* Type correctness: in particular the list never outgrows MAX_TASKS and a
\* worker never counts more failures than MAX_QUEUE_POLL_FAILURES.
THEOREM TypeCorrect == Spec => []TypeOK
<1>1. IInv => TypeOK
  BY DEF IInv
<1> QED BY <1>1, Invariance, PTL

\* The worker, its CLI and the record of its task stay in step, through every
\* crash, shutdown and failed transaction.
THEOREM StaysConsistent == Spec => []WorkersInStep
<1>1. IInv => WorkersInStep
  BY DEF IInv
<1> QED BY <1>1, Invariance, PTL

\* No record says "not started" of a task whose CLI was ever started.
THEOREM NotStartedIsNeverALie == Spec => []NotStartedIsTrue
<1>1. IInv => NotStartedIsTrue
  BY TaskPositions DEF IInv, WorkersInStep, InStep, LeftQueue, NotStartedIsTrue
<1> QED BY <1>1, Invariance, PTL

\* A cancelled task that ended is recorded as cancelled.
THEOREM CancellationWins == Spec => []CancellationDecides
<1>1. IInv => CancellationDecides
  BY DEF IInv, RecordsHold, TaskInv, CancellationDecides
<1> QED BY <1>1, Invariance, PTL

\* A supervised CLI has a record that says it runs, was stopped or was lost.
THEOREM SupervisionIsRecorded == Spec => []SupervisedCliRecord
<1>1. IInv => SupervisedCliRecord
  <2> SUFFICES ASSUME IInv, NEW i \in cli, HostUp(i)
               PROVE  /\ i \in DOMAIN tasks
                      /\ tasks[i].status \in {"running", "cancelled", "interrupted"}
    BY DEF SupervisedCliRecord
  <2>1. i \in TaskIds
    BY DEF IInv, TypeOK
  <2> QED BY <2>1 DEF IInv, WorkersInStep, InStep, Taken
<1> QED BY <1>1, Invariance, PTL

-----------------------------------------------------------------------------
(* Action properties. *)

\* Every step that changes the list is a submission, a transaction of a
\* bystander, or a worker's: it claims its task, or ends it.
LEMMA WhatChangesTheList ==
    ASSUME IInv, [Next]_vars
    PROVE  \/ \E p \in Processes, a \in Agents, parent \in 0 .. MaxTasks :
                 Submit(p, a, parent)
           \/ Quiet(tasks, tasks')
           \/ \E i \in DOMAIN tasks :
                 /\ QuietBut(i, tasks, tasks')
                 /\ \/ /\ QueueTurn(Fresh, config, i) = "start"
                       /\ tasks' = Claimed(Fresh, i) /\ config' = config
                    \/ Ended(tasks'[i]) /\ tasks'[i].session \in {tasks[i].session, SessionOf(i)}
<1> DEFINE Goal == \/ \E p \in Processes, a \in Agents, parent \in 0 .. MaxTasks :
                         Submit(p, a, parent)
                   \/ Quiet(tasks, tasks')
                   \/ \E i \in DOMAIN tasks :
                         /\ QuietBut(i, tasks, tasks')
                         /\ \/ /\ QueueTurn(Fresh, config, i) = "start"
                               /\ tasks' = Claimed(Fresh, i) /\ config' = config
                            \/ /\ Ended(tasks'[i])
                               /\ tasks'[i].session \in {tasks[i].session, SessionOf(i)}
<1>0. TypeOK /\ tasks \in Seq(Task) /\ Fresh \in Seq(Task) /\ DOMAIN Fresh = DOMAIN tasks
  BY FreshQuiet DEF IInv, TypeOK
<1>00. \A i \in DOMAIN tasks : Fresh[i].session = tasks[i].session
  BY FreshQuiet DEF IInv, Quiet, Bystander
<1>1. ASSUME tasks' = tasks \/ tasks' = Fresh PROVE Goal
  BY <1>1, FreshOrNone
<1>2. ASSUME NEW i \in DOMAIN tasks, NEW includeClaimed \in BOOLEAN,
             tasks' = AbandonedBeforeLaunch(Fresh, i, includeClaimed)
      PROVE  Goal
  <2>1. tasks' = Fresh \/ Ended(tasks'[i])
    BY <1>0, <1>2, AbandonedBeforeLaunchStep
  <2>2. CASE tasks' = Fresh
    BY <1>1, <2>2
  <2>3. CASE Ended(tasks'[i])
    <3>1. QuietBut(i, Fresh, tasks') /\ tasks'[i].session = tasks[i].session
      BY <1>0, <1>00, <1>2, AbandonedBeforeLaunchStep
    <3> QED BY <1>0, <2>3, <3>1, AfterFresh
  <2> QED BY <2>1, <2>2, <2>3
<1>3. ASSUME NEW i \in DOMAIN tasks, NEW status \in Terminal, NEW session \in Session,
             session \in {NoSession, SessionOf(i)},
             tasks' = Finished(Fresh, i, status, session)
      PROVE  Goal
  <2>1. /\ QuietBut(i, Fresh, tasks') /\ Ended(tasks'[i])
        /\ tasks'[i].session \in {tasks[i].session, SessionOf(i)}
    BY <1>0, <1>00, <1>3, FinishedStep
  <2> QED BY <1>0, <2>1, AfterFresh
<1>4. ASSUME NEW i \in TaskIds, i \in DOMAIN tasks, Host(i) \in Processes,
             PollTransaction(i), config' = config
      PROVE  Goal
  <2>1. QuietBut(i, tasks, tasks')
        /\ (QueueTurn(Fresh, config, i) # "start" => Quiet(tasks, tasks'))
    BY <1>4, PollTransactionStep
  <2>2. QueueTurn(Fresh, config, i) = "start" => tasks' = Claimed(Fresh, i)
    BY <1>4 DEF PollTransaction
  <2> QED BY <1>4, <2>1, <2>2
<1> SUFFICES Goal
  OBVIOUS
<1> HIDE DEF Goal
<1>5. ASSUME NEW i \in TaskIds, SpawnStep(i) PROVE Goal
  <2>1. CASE RefuseDuringShutdown(i)
    <3>1. i \in DOMAIN tasks
      BY <2>1, AtWorker DEF RefuseDuringShutdown
    <3> QED BY <1>1, <1>2, <2>1, <3>1 DEF RefuseDuringShutdown, Commit, DbError
  <2>2. CASE SpawnTask(i) \/ SubmitForgotten(i)
    BY <1>1, <2>2 DEF SpawnTask, SubmitForgotten, DbError
  <2> QED BY <1>5, <2>1, <2>2 DEF SpawnStep
<1>6. ASSUME NEW i \in TaskIds, QueueStep(i) PROVE Goal
  <2>1. CASE PollQueue(i)
    <3>1. i \in DOMAIN tasks /\ Host(i) \in Processes
      BY <2>1, AtWorker DEF PollQueue
    <3> QED BY <1>4, <2>1, <3>1 DEF PollQueue
  <2>2. CASE GiveUp(i)
    <3>1. i \in DOMAIN tasks
      BY <2>2, AtWorker DEF GiveUp
    <3> QED BY <1>1, <1>2, <2>2, <3>1 DEF GiveUp, Commit, DbError
  <2>3. CASE PeekQueue(i) \/ CheckTurnFails(i)
    BY <1>1, <2>3 DEF PeekQueue, CheckTurnFails, DbError
  <2> QED BY <1>6, <2>1, <2>2, <2>3 DEF QueueStep
<1>7. ASSUME NEW i \in TaskIds, LaunchStep(i) PROVE Goal
  BY <1>1, <1>7 DEF LaunchStep, BeginTask, StartCli, StartFails, Commit, DbError
<1>8. ASSUME NEW i \in TaskIds, SuperviseCheck(i) \/ Touch(i) \/ CliStep(i) PROVE Goal
  <2>1. i \in DOMAIN tasks
    BY <1>8, AtWorker DEF SuperviseCheck, Touch, CliStep, CliEnds
  <2>2. tasks' \in {tasks, Fresh, Touched(Fresh, i)}
    BY <1>8 DEF SuperviseCheck, Touch, CliStep, CliEnds, Commit
  <2>3. Quiet(tasks, Touched(Fresh, i))
    BY <1>0, <2>1, FreshQuiet, TouchedQuiet, AfterFresh
  <2> QED BY <1>1, <2>2, <2>3 DEF Goal
<1>9. ASSUME NEW i \in TaskIds, FinishTask(i) PROVE Goal
  <2>0. PICK session \in ReportedSession(i) :
            Commit(Finished(Fresh, i, worker[i].outcome, session)) \/ DbError
    BY <1>9 DEF FinishTask
  <2> DEFINE outcome == worker[i].outcome
  <2>1. i \in DOMAIN tasks /\ tasks[i] \in Task /\ worker[i] \in Worker
    BY <1>9, AtWorker DEF FinishTask
  <2>2. outcome \in Terminal /\ session \in Session /\ session \in {NoSession, SessionOf(i)}
    <3>1. tasks[i].session \in Session /\ i \in Session /\ NoSession \in Session
      BY <2>1, StoreAssumption DEF Task, Session, NoSession, TaskIds
    <3> QED BY <2>0, <2>1, <3>1 DEF Worker, Outcome, Terminal, ReportedSession, SessionOf
  <2>3. tasks' = Finished(Fresh, i, outcome, session) \/ tasks' = tasks
    BY <2>0 DEF Commit, DbError
  <2> QED BY <1>1, <1>3, <2>1, <2>2, <2>3
<1>10. ASSUME NEW i \in TaskIds, StopStep(i) PROVE Goal
  <2>1. CASE StopTask(i)
    <3>1. i \in DOMAIN tasks
      BY <2>1, AtWorker DEF StopTask
    <3>2. (~worker[i].launched) \in BOOLEAN
      OBVIOUS
    <3> QED BY <1>1, <1>2, <2>1, <3>1, <3>2 DEF StopTask, Commit, DbError
  <2>2. CASE StopAsInterrupted(i)
    <3>1. i \in DOMAIN tasks
      BY <2>2, AtWorker DEF StopAsInterrupted
    <3>2. "interrupted" \in Terminal /\ NoSession \in Session
      BY StoreAssumption DEF Terminal, NoSession, Session
    <3> QED BY <1>1, <1>3, <2>2, <3>1, <3>2 DEF StopAsInterrupted, Commit, DbError
  <2>3. CASE DropWorker(i)
    BY <1>1, <2>3 DEF DropWorker
  <2> QED BY <1>10, <2>1, <2>2, <2>3 DEF StopStep
<1>11. ASSUME NEW i \in TaskIds, OrphanStoreCall(i) \/ OrphanCliEnds(i) PROVE Goal
  <2>1. CASE OrphanCliEnds(i)
    BY <1>1, <2>1 DEF OrphanCliEnds
  <2>2. CASE OrphanStoreCall(i)
    <3>0. worker[i].orphan # "none" /\ NoWorker.orphan = "none"
      BY <2>2 DEF OrphanStoreCall, NoWorker
    <3>1. worker[i] # NoWorker /\ Host(i) \in Processes
      BY <2>2, <3>0 DEF OrphanStoreCall, HostUp
    <3>2. i \in DOMAIN tasks
      BY <3>1, WorkerHasTask
    <3> QED BY <1>2, <1>4, <2>2, <3>1, <3>2 DEF OrphanStoreCall
  <2> QED BY <1>11, <2>1, <2>2
<1>12. CASE \/ \E i \in TaskIds : Cancel(i)
            \/ \E cfg \in Configs : SaveConfig(cfg)
            \/ Refresh
            \/ Tick
  BY <1>12, StoreStepQuiet DEF Goal
<1>13. CASE UNCHANGED vars \/ \E p \in Processes : Shutdown(p) \/ Exit(p)
  BY <1>1, <1>13 DEF vars, Shutdown, Exit
<1>14. CASE \E p \in Processes, a \in Agents, parent \in 0 .. MaxTasks : Submit(p, a, parent)
  BY <1>14 DEF Goal
<1> QED BY <1>5, <1>6, <1>7, <1>8, <1>9, <1>10, <1>11, <1>12, <1>13, <1>14 DEF Next

\* A submission ends no task and starts none.
LEMMA SubmitIsQuiet ==
    ASSUME IInv, NEW p \in Processes, NEW a \in Agents, NEW parent \in 0 .. MaxTasks,
           Submit(p, a, parent), NEW i \in DOMAIN tasks
    PROVE  i \in DOMAIN tasks' /\ Bystander(tasks[i], tasks'[i])
<1>1. i \in DOMAIN tasks' /\ tasks'[i] = Fresh[i]
  BY SubmitList
<1> QED BY <1>1, FreshQuiet DEF IInv, Quiet

\* No result is ever replaced, and no running task goes back to the queue.
THEOREM ResultsAreFinal == Spec => ResultIsFinal
<1> DEFINE Step == \A i \in DOMAIN tasks :
                      /\ Ended(tasks[i]) => tasks'[i] = tasks[i]
                      /\ tasks[i].status = "running" => tasks'[i].status # "queued"
<1>1. ASSUME IInv, [Next]_vars PROVE Step
  <2> SUFFICES ASSUME NEW i \in DOMAIN tasks PROVE OwnStep(tasks[i], tasks'[i])
    BY DEF OwnStep
  <2>1. tasks[i] \in Task
    BY <1>1 DEF IInv, TypeOK
  <2>2. CASE \E p \in Processes, a \in Agents, parent \in 0 .. MaxTasks :
                Submit(p, a, parent)
    BY <1>1, <2>1, <2>2, SubmitIsQuiet, BystanderIsOwnStep
  <2>3. CASE Quiet(tasks, tasks')
    BY <2>1, <2>3, BystanderIsOwnStep DEF Quiet
  <2>4. CASE \E j \in DOMAIN tasks : QuietBut(j, tasks, tasks')
    BY <2>1, <2>4, BystanderIsOwnStep DEF QuietBut
  <2> QED BY <1>1, <2>2, <2>3, <2>4, WhatChangesTheList
<1>2. IInv /\ [Next]_vars => [Step]_vars
  BY <1>1
<1>3. Spec => [][Step]_vars
  <2> HIDE DEF Step
  <2> QED BY <1>2, Invariance, PTL DEF Spec
<1> QED BY <1>3 DEF ResultIsFinal

\* The transaction that claims task i starts it in order and within the limit.
LEMMA ClaimIsInOrder ==
    ASSUME IInv, NEW i \in DOMAIN tasks, QueueTurn(Fresh, config, i) = "start",
           tasks' = Claimed(Fresh, i), config' = config,
           NEW a \in Agents, Running(tasks', a) \ Running(tasks, a) # {}
    PROVE  /\ Running(tasks', a) \ Running(tasks, a) = {i}
           /\ Cardinality(Running(tasks', a)) <= ConcurrencyLimit(config, a)
           /\ \A j \in Queued(tasks', a) : i < j
<1>1. /\ Fresh \in Seq(Task) /\ DOMAIN Fresh = DOMAIN tasks /\ Quiet(tasks, Fresh)
      /\ config \in Config /\ TypeOK
  BY FreshQuiet DEF IInv, TypeOK
<1>2. Fresh[i] \in Task /\ Fresh[i].status = "queued" /\ AheadOf(Fresh, config, i) = 0
  BY <1>1 DEF QueueTurn, MayWait
<1>3. /\ DOMAIN tasks' = DOMAIN tasks
      /\ \A j \in DOMAIN tasks \ {i} : tasks'[j] = Fresh[j]
      /\ tasks'[i].status = "running" /\ tasks'[i].agent = Fresh[i].agent
  BY <1>1, <1>2 DEF Claimed, Task
<1>4. ASSUME NEW j \in DOMAIN tasks, Fresh[j].status = "running"
      PROVE  tasks[j].status = "running" /\ tasks[j].agent = Fresh[j].agent
  <2>1. Bystander(tasks[j], Fresh[j]) /\ tasks[j] \in Task
    BY <1>1 DEF Quiet, IInv, TypeOK
  <2> QED BY <1>4, <2>1 DEF Bystander, Task, Status, Ended, Terminal
<1> DEFINE others == Running(Fresh, a) \ {i}
<1>5. Running(tasks', a) \ {i} = others
  BY <1>1, <1>3 DEF Running
<1>6. others \subseteq Running(tasks, a)
  BY <1>1, <1>4 DEF Running
<1>7. Running(tasks', a) \ Running(tasks, a) = {i} /\ i \in Running(tasks', a)
  BY <1>5, <1>6
<1>8. Fresh[i].agent = a
  BY <1>3, <1>7 DEF Running
<1>9. Running(tasks', a) = others \cup {i} /\ i \notin others
  BY <1>5, <1>7
<1>10. ConcurrencyLimit(config, a) \in Nat
  BY <1>1 DEF ConcurrencyLimit, Config, AgentConfig
<1>11. /\ \A j \in Queued(Fresh, a) : ~(j < i)
       /\ Cardinality(others) + 1 <= ConcurrencyLimit(config, a)
  BY <1>1, <1>2, <1>8, <1>10, NothingAhead DEF AheadOf
<1>12. Cardinality(Running(tasks', a)) = Cardinality(others) + 1
  <2>1. others \in SUBSET DOMAIN Fresh
    BY DEF Running
  <2>2. IsFiniteSet(others)
    BY <1>1, <2>1, PositionsFinite
  <2> QED BY <1>9, <2>2, FS_AddElement
<1>13. ASSUME NEW j \in Queued(tasks', a) PROVE i < j
  <2>1. j \in DOMAIN tasks /\ j # i
    BY <1>3 DEF Queued
  <2>2. j \in Queued(Fresh, a)
    BY <1>1, <1>3, <2>1 DEF Queued
  <2>3. i \in Nat /\ j \in Nat
    BY <1>1, <2>1, TaskPositions
  <2> QED BY <1>11, <2>1, <2>2, <2>3
<1> QED BY <1>7, <1>11, <1>12, <1>13

\* A task is started only when it is the first in the queue of its agent, and
\* the limit then in force has room for it.
THEOREM StartsAreOrdered == Spec => StartsInOrderWithinLimit
<1> DEFINE Step == \A a \in Agents :
                      LET new == Running(tasks', a) \ Running(tasks, a) IN
                      new # {} =>
                         /\ Cardinality(new) = 1
                         /\ Cardinality(Running(tasks', a)) <= ConcurrencyLimit(config, a)
                         /\ \A i \in new, j \in Queued(tasks', a) : i < j
<1>1. ASSUME IInv, [Next]_vars PROVE Step
  <2> SUFFICES ASSUME NEW a \in Agents, Running(tasks', a) \ Running(tasks, a) # {}
               PROVE  \E i \in DOMAIN tasks :
                         /\ Running(tasks', a) \ Running(tasks, a) = {i}
                         /\ Cardinality(Running(tasks', a)) <= ConcurrencyLimit(config, a)
                         /\ \A j \in Queued(tasks', a) : i < j
    BY FS_Singleton
  <2>1. PICK k \in Running(tasks', a) : k \notin Running(tasks, a)
    OBVIOUS
  <2>2. ASSUME k \in DOMAIN tasks, Bystander(tasks[k], tasks'[k]) PROVE FALSE
    <3>1. tasks[k] \in Task
      BY <1>1, <2>2 DEF IInv, TypeOK
    <3> QED BY <2>1, <2>2, <3>1 DEF Bystander, Running, Task, Status, Ended, Terminal
  <2>3. CASE \E p \in Processes, b \in Agents, parent \in 0 .. MaxTasks :
                Submit(p, b, parent)
    <3>1. k \in DOMAIN tasks
      BY <1>1, <2>1, <2>3, SubmitList DEF Running
    <3> QED BY <1>1, <2>2, <2>3, <3>1, SubmitIsQuiet
  <2>4. CASE Quiet(tasks, tasks')
    BY <2>1, <2>2, <2>4 DEF Quiet, Running
  <2>5. ASSUME NEW i \in DOMAIN tasks, QuietBut(i, tasks, tasks'), Ended(tasks'[i])
        PROVE  FALSE
    <3>1. k \in DOMAIN tasks /\ k # i
      BY <2>1, <2>5 DEF QuietBut, Running, Ended, Terminal
    <3> QED BY <2>2, <2>5, <3>1 DEF QuietBut
  <2>6. ASSUME NEW i \in DOMAIN tasks, QueueTurn(Fresh, config, i) = "start",
               tasks' = Claimed(Fresh, i), config' = config
        PROVE  /\ Running(tasks', a) \ Running(tasks, a) = {i}
               /\ Cardinality(Running(tasks', a)) <= ConcurrencyLimit(config, a)
               /\ \A j \in Queued(tasks', a) : i < j
    BY <1>1, <2>6, ClaimIsInOrder
  <2> QED BY <1>1, <2>3, <2>4, <2>5, <2>6, WhatChangesTheList
<1>2. IInv /\ [Next]_vars => [Step]_vars
  BY <1>1
<1>3. Spec => [][Step]_vars
  <2> HIDE DEF Step
  <2> QED BY <1>2, Invariance, PTL DEF Spec
<1> QED BY <1>3 DEF StartsInOrderWithinLimit
=============================================================================
