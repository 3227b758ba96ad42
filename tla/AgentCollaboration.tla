--------------------------- MODULE AgentCollaboration ---------------------------
(***************************************************************************)
(* The processes that share one collaboration store: Codex++ managers and  *)
(* MCP servers (agent_collaboration/executor.rs).  A process submits a     *)
(* task, spawns one worker for it, and the worker waits for its turn,      *)
(* claims the task, starts the agent's CLI, supervises it and reports.     *)
(*                                                                         *)
(* Any process may stall for any time (Tick is always possible: the        *)
(* machine sleeps), shut down in order, or vanish at any step; any store   *)
(* transaction of a worker may fail (SQLite busy or unwritable), at most   *)
(* MaxDbErrors times.  Cancel, SaveConfig and Refresh are requests of the  *)
(* user, which any process may serve.                                      *)
(***************************************************************************)
EXTENDS AgentStore

CONSTANTS
    MaxPollFailures,  \* MAX_QUEUE_POLL_FAILURES
    MaxDbErrors,      \* bound on the failed transactions of a behaviour
    Configs           \* the configurations the user may save

ASSUME CollaborationAssumption ==
    /\ MaxPollFailures \in Nat \ {0}
    /\ MaxDbErrors \in Nat
    /\ Configs \subseteq Config

VARIABLES
    config,    \* the configuration in the store's row
    tasks,     \* the task list in the store's row
    markers,   \* processes that hold their owner marker file locked
    process,   \* "up", "stopping" (shutdown_owned_tasks ran) or "gone"
    worker,    \* the worker of each task
    cli,       \* tasks whose CLI process is alive
    started,   \* history: tasks whose CLI was ever started
    dbErrors   \* store transactions that have failed so far

vars == <<config, tasks, markers, process, worker, cli, started, dbErrors>>
-----------------------------------------------------------------------------
TaskIds == 1 .. MaxTasks

\* Where a worker stands.  The future can be aborted at every stage in
\* Awaiting, and only there: the stages between are synchronous code.
Awaiting == {"waiting", "polling", "givingUp", "claimed", "supervising", "finishing"}
Stage    == Awaiting \cup {"none", "submitted", "starting", "done", "dropped",
                           "stopping", "removed"}
Outcome  == {"completed", "failed", "interrupted"}

\* launched is OwnedTask.launched; orphan is a blocking store call that outlives
\* the future that started it.
Worker == [process  : Processes \cup {NoOwner},
           stage    : Stage,
           peek     : BOOLEAN,
           failures : 0 .. MaxPollFailures,
           launched : BOOLEAN,
           orphan   : {"none", "poll", "giveUp"},
           outcome  : Outcome]

NoWorker == [process |-> NoOwner, stage |-> "none", peek |-> FALSE, failures |-> 0,
             launched |-> FALSE, orphan |-> "none", outcome |-> "failed"]

Init ==
    /\ config \in Configs
    /\ tasks = << >>
    /\ markers = {}
    /\ process = [p \in Processes |-> "up"]
    /\ worker = [i \in TaskIds |-> NoWorker]
    /\ cli = {}
    /\ started = {}
    /\ dbErrors = 0
-----------------------------------------------------------------------------
Fresh       == Expired(tasks, markers)  \* what a transaction starts from
Host(i)     == worker[i].process
HostUp(i)   == Host(i) \in Processes /\ process[Host(i)] # "gone"
HostStops(i) == Host(i) \in Processes /\ process[Host(i)] = "stopping"

At(i, stages) == HostUp(i) /\ worker[i].stage \in stages
GoTo(i, stage) == worker' = [worker EXCEPT ![i].stage = stage]

\* Worker w has returned or was dropped: of its state only launched is read.
Stopped(w, stage) ==
    [NoWorker EXCEPT !.process = w.process, !.launched = w.launched, !.stage = stage]
\* Nothing is left of the worker, nor of its entry among the owned tasks,
\* unless a store call of its own is still to come.
Gone == [NoWorker EXCEPT !.stage = "removed"]
Remove(i) ==
    worker' = [worker EXCEPT ![i] =
                 IF @.orphan = "none" THEN Gone ELSE [@ EXCEPT !.stage = "removed"]]
End(i, outcome) ==
    worker' = [worker EXCEPT ![i].stage = "finishing", ![i].outcome = outcome]

\* A transaction commits, or fails and leaves the store as it was.
Commit(newTasks) == tasks' = newTasks /\ UNCHANGED dbErrors
DbError ==
    /\ dbErrors < MaxDbErrors
    /\ dbErrors' = dbErrors + 1
    /\ UNCHANGED tasks

\* The session a task's CLI works in: the inherited one, or one it opens.
SessionOf(i) == IF tasks[i].session = NoSession THEN i ELSE tasks[i].session
-----------------------------------------------------------------------------
(* Submitting and spawning. *)

\* Store::submit, called by process p: a fresh task, or one that continues
\* the session of a completed task.
Submit(p, a, parent) ==
    LET new == Len(tasks) + 1 IN
    /\ process[p] # "gone"
    /\ MaySubmit(Fresh, config, a)
    /\ parent = 0 \/ MayContinue(Fresh, a, parent)
    /\ tasks' = Append(Fresh, NewTask(Fresh, config, a,
                  IF parent = 0 THEN NoSession ELSE Fresh[parent].session))
    /\ worker' = [worker EXCEPT ![new] =
                    [NoWorker EXCEPT !.process = p, !.stage = "submitted"]]
    /\ UNCHANGED <<config, markers, process, cli, started, dbErrors>>

\* The manager reads a snapshot between submit and spawn_task and returns
\* early when that fails: nobody waits for the task.
SubmitForgotten(i) ==
    /\ At(i, {"submitted"})
    /\ DbError
    /\ Remove(i)
    /\ UNCHANGED <<config, markers, process, cli, started>>

\* spawn_task: register the worker, forgetting the finished ones, unless
\* this process is shutting down.
SpawnTask(i) ==
    /\ At(i, {"submitted"})
    /\ ~HostStops(i)
    /\ worker' = [j \in TaskIds |->
                    IF j = i THEN [worker[j] EXCEPT !.stage = "polling"]
                    ELSE IF Host(j) = Host(i) /\ worker[j].stage = "done" THEN Gone
                    ELSE worker[j]]
    /\ UNCHANGED <<config, tasks, markers, process, cli, started, dbErrors>>

RefuseDuringShutdown(i) ==
    /\ At(i, {"submitted"})
    /\ HostStops(i)
    /\ Commit(AbandonedBeforeLaunch(Fresh, i, FALSE)) \/ DbError
    /\ Remove(i)
    /\ UNCHANGED <<config, markers, process, cli, started>>
-----------------------------------------------------------------------------
(* Waiting for the turn (wait_for_turn, check_turn). *)

\* A read-only look; anything but "still waiting, nothing to write" is left
\* to a polling transaction.
PeekQueue(i) ==
    /\ At(i, {"waiting"})
    /\ worker' = [worker EXCEPT
                    ![i] = IF PeekStillWaits(Fresh, config, i)
                           THEN [@ EXCEPT !.failures = 0]
                           ELSE [@ EXCEPT !.stage = "polling"]]
    /\ UNCHANGED <<config, tasks, markers, process, cli, started, dbErrors>>

\* poll_queue by the host of worker i.  The marker can fail to lock; once
\* locked it stays so.
PollTransaction(i) ==
    LET turn == QueueTurn(Fresh, config, i) IN
    \/ turn = "stop"  /\ tasks' = Fresh /\ UNCHANGED markers
    \/ turn = "start" /\ tasks' = Claimed(Fresh, i) /\ UNCHANGED markers
    \/ /\ turn = "wait"
       /\ tasks' = StillQueued(Fresh, config, i, Host(i))
       /\ markers' = markers \cup {Host(i)}
    \/ /\ turn = "wait"
       /\ Host(i) \notin markers
       /\ tasks' = StillQueued(Fresh, config, i, Fresh[i].owner)
       /\ UNCHANGED markers

PollQueue(i) ==
    /\ At(i, {"polling"})
    /\ PollTransaction(i)
    /\ worker' = [worker EXCEPT ![i] =
         CASE QueueTurn(Fresh, config, i) = "start" -> [@ EXCEPT !.stage = "claimed"]
           [] QueueTurn(Fresh, config, i) = "stop"  -> Stopped(@, "done")
           [] OTHER -> [@ EXCEPT !.stage = "waiting", !.peek = TRUE, !.failures = 0]]
    /\ UNCHANGED <<config, process, cli, started, dbErrors>>

\* Peeking or polling fails; after MaxPollFailures in a row the worker gives up.
CheckTurnFails(i) ==
    /\ At(i, {"waiting", "polling"})
    /\ DbError
    /\ worker' = [worker EXCEPT ![i] =
         [@ EXCEPT !.failures = worker[i].failures + 1,
                   !.stage = IF worker[i].failures + 1 >= MaxPollFailures THEN "givingUp"
                             ELSE IF worker[i].peek THEN "waiting" ELSE "polling"]]
    /\ UNCHANGED <<config, markers, process, cli, started>>

\* The last word of a worker that gives up; its failure is ignored.
GiveUp(i) ==
    /\ At(i, {"givingUp"})
    /\ Commit(AbandonedBeforeLaunch(Fresh, i, FALSE)) \/ DbError
    /\ worker' = [worker EXCEPT ![i] = Stopped(@, "done")]
    /\ UNCHANGED <<config, markers, process, cli, started>>
-----------------------------------------------------------------------------
(* Running the CLI (run_task, supervise). *)

\* Mutant: the worker does not mark the task it launches.
LaunchedUnmarked(w, stage, outcome) == [w EXCEPT !.stage = stage, !.outcome = outcome]

Launched(w, stage, outcome) ==
    [w EXCEPT !.launched = TRUE, !.stage = stage, !.outcome = outcome]

\* The worker learns that it claimed the task: it marks it launched and
\* asks the store whether to go on.
BeginTask(i) ==
    /\ At(i, {"claimed"})
    /\ \/ /\ Commit(Fresh)
          /\ worker' = [worker EXCEPT ![i] =
               IF WorkerShouldStop(Fresh, config, i)
               THEN Launched(@, "finishing", "interrupted")
               ELSE Launched(@, "starting", @.outcome)]
       \/ /\ DbError
          /\ worker' = [worker EXCEPT ![i] = Launched(@, "finishing", "failed")]
    /\ UNCHANGED <<config, markers, process, cli, started>>

\* It reads the configuration once more and starts the CLI.
StartCli(i) ==
    /\ At(i, {"starting"})
    /\ AgentEnabled(config, tasks[i].agent)
    /\ Commit(Fresh)
    /\ cli' = cli \cup {i}
    /\ started' = started \cup {i}
    /\ GoTo(i, "supervising")
    /\ UNCHANGED <<config, markers, process>>

\* The agent is disabled, the executable is gone, the spawn is refused, or
\* the store cannot be read.
StartFails(i) ==
    /\ At(i, {"starting"})
    /\ Commit(Fresh) \/ DbError
    /\ End(i, "failed")
    /\ UNCHANGED <<config, markers, process, cli, started>>

\* The 300 ms tick: stop the CLI if the task was cancelled, ended or disabled.
SuperviseCheck(i) ==
    /\ At(i, {"supervising"})
    /\ Commit(Fresh)
    /\ IF WorkerShouldStop(Fresh, config, i)
       THEN End(i, "interrupted") /\ cli' = cli \ {i}
       ELSE UNCHANGED <<worker, cli>>
    /\ UNCHANGED <<config, markers, process, started>>

\* The heartbeat and the progress updates of a running task.
Touch(i) ==
    /\ At(i, {"supervising"})
    /\ Commit(Touched(Fresh, i))
    /\ UNCHANGED <<config, markers, process, worker, cli, started>>

\* Mutant: the result is taken while the CLI goes on.
CliEndsUnwatched(i, outcome) ==
    /\ At(i, {"supervising"})
    /\ End(i, outcome)
    /\ UNCHANGED <<config, tasks, markers, process, cli, started, dbErrors>>

\* The CLI answers, fails, is killed at the deadline or because the store
\* cannot be read.  A success saves its last progress first, if there is one.
CliEnds(i, outcome) ==
    /\ At(i, {"supervising"})
    /\ cli' = cli \ {i}
    /\ End(i, outcome)
    /\ \/ UNCHANGED <<tasks, dbErrors>>
       \/ outcome = "completed" /\ Commit(Touched(Fresh, i))
    /\ UNCHANGED <<config, markers, process, started>>

\* The session in the outcome: a CLI that did not complete may have named its session, too.
ReportedSession(i) ==
    {session \in {NoSession, SessionOf(i)} :
        /\ worker[i].outcome = "completed" => session = SessionOf(i)
        /\ i \notin started => session = NoSession}

FinishTask(i) ==
    /\ At(i, {"finishing"})
    /\ \E session \in ReportedSession(i) :
          Commit(Finished(Fresh, i, worker[i].outcome, session)) \/ DbError
    /\ worker' = [worker EXCEPT ![i] = Stopped(@, "done")]
    /\ UNCHANGED <<config, markers, process, cli, started>>
-----------------------------------------------------------------------------
(* Shutdown (shutdown_owned_tasks, stop_owned_tasks) and crashes. *)

Shutdown(p) ==
    /\ process[p] = "up"
    /\ process' = [process EXCEPT ![p] = "stopping"]
    /\ UNCHANGED <<config, tasks, markers, worker, cli, started, dbErrors>>

\* The aborted future is dropped at an await: its process group is killed,
\* but a store call already handed to a blocking thread goes on.
DropWorker(i) ==
    /\ At(i, Awaiting)
    /\ HostStops(i)
    /\ \E orphan \in {"none"} \cup (CASE worker[i].stage = "polling"  -> {"poll"}
                                      [] worker[i].stage = "givingUp" -> {"giveUp"}
                                      [] OTHER -> {}) :
          worker' = [worker EXCEPT ![i] = [Stopped(@, "dropped") EXCEPT !.orphan = orphan]]
    /\ cli' = cli \ {i}
    /\ UNCHANGED <<config, tasks, markers, process, started, dbErrors>>

OrphanStoreCall(i) ==
    /\ HostUp(i)
    /\ \/ worker[i].orphan = "poll" /\ PollTransaction(i)
       \/ /\ worker[i].orphan = "giveUp"
          /\ tasks' = AbandonedBeforeLaunch(Fresh, i, FALSE)
          /\ UNCHANGED markers
    /\ worker' = [worker EXCEPT ![i].orphan = "none"]
    /\ UNCHANGED <<config, process, cli, started, dbErrors>>

\* A task that did not launch is put down as not started ...
StopTask(i) ==
    /\ At(i, {"dropped", "done"})
    /\ HostStops(i)
    /\ \/ /\ Commit(AbandonedBeforeLaunch(Fresh, i, ~worker[i].launched))
          /\ IF MayAbandon(Fresh[i], ~worker[i].launched)
             THEN Remove(i) ELSE GoTo(i, "stopping")
       \/ DbError /\ GoTo(i, "stopping")
    /\ UNCHANGED <<config, markers, process, cli, started>>

\* ... and any other as interrupted.
StopAsInterrupted(i) ==
    /\ At(i, {"stopping"})
    /\ Commit(Finished(Fresh, i, "interrupted", NoSession)) \/ DbError
    /\ Remove(i)
    /\ UNCHANGED <<config, markers, process, cli, started>>

\* The process ends, in order or not: the system unlocks its marker, its
\* workers are no more, and a CLI it had is left to itself.
Exit(p) ==
    /\ process[p] # "gone"
    /\ process' = [process EXCEPT ![p] = "gone"]
    /\ markers' = markers \ {p}
    /\ worker' = [i \in TaskIds |->
                    IF Host(i) = p THEN Gone ELSE worker[i]]
    /\ UNCHANGED <<config, tasks, cli, started, dbErrors>>

OrphanCliEnds(i) ==
    /\ i \in cli
    /\ ~HostUp(i)
    /\ cli' = cli \ {i}
    /\ UNCHANGED <<config, tasks, markers, process, worker, started, dbErrors>>
-----------------------------------------------------------------------------
(* The user, other readers of the store, and time. *)

Cancel(i) ==
    /\ i \in DOMAIN tasks
    /\ tasks' = Cancelled(Fresh, i)
    /\ UNCHANGED <<config, markers, process, worker, cli, started, dbErrors>>

SaveConfig(cfg) ==
    /\ config' = cfg
    /\ tasks' = ConfigSaved(Fresh, cfg)
    /\ UNCHANGED <<markers, process, worker, cli, started, dbErrors>>

\* config, snapshot, task: a transaction that changes nothing but still
\* writes down what expired.
Refresh ==
    /\ tasks' = Fresh
    /\ UNCHANGED <<config, markers, process, worker, cli, started, dbErrors>>

Tick ==
    /\ tasks' = Aged(tasks)
    /\ UNCHANGED <<config, markers, process, worker, cli, started, dbErrors>>
-----------------------------------------------------------------------------
SpawnStep(i) == SpawnTask(i) \/ RefuseDuringShutdown(i) \/ SubmitForgotten(i)
QueueStep(i) == PeekQueue(i) \/ PollQueue(i) \/ CheckTurnFails(i) \/ GiveUp(i)
LaunchStep(i) == BeginTask(i) \/ StartCli(i) \/ StartFails(i)
CliStep(i)   == \E outcome \in Outcome : CliEnds(i, outcome)
StopStep(i)  == DropWorker(i) \/ StopTask(i) \/ StopAsInterrupted(i)

Next ==
    \/ \E p \in Processes, a \in Agents, parent \in 0 .. MaxTasks : Submit(p, a, parent)
    \/ \E i \in TaskIds :
          \/ SpawnStep(i) \/ QueueStep(i) \/ LaunchStep(i)
          \/ SuperviseCheck(i) \/ Touch(i) \/ CliStep(i) \/ FinishTask(i)
          \/ StopStep(i) \/ OrphanStoreCall(i) \/ OrphanCliEnds(i)
          \/ Cancel(i)
    \/ \E p \in Processes : Shutdown(p) \/ Exit(p)
    \/ \E cfg \in Configs : SaveConfig(cfg)
    \/ Refresh
    \/ Tick

Spec == Init /\ [][Next]_vars

\* A process that runs goes on: its workers take their steps, a CLI ends at
\* its deadline at the latest, a process that shuts down exits.  Time passes,
\* and somebody looks at the store now and then.  No step that fails is fair,
\* and neither a submission nor a cancellation ever has to come.
Fairness ==
    /\ WF_vars(Tick) /\ WF_vars(Refresh)
    /\ \A i \in TaskIds :
          /\ WF_vars(SpawnTask(i) \/ RefuseDuringShutdown(i))
          /\ WF_vars(PeekQueue(i) \/ PollQueue(i) \/ GiveUp(i))
          /\ WF_vars(LaunchStep(i))
          /\ WF_vars(CliStep(i))
          /\ WF_vars(FinishTask(i))
    /\ \A p \in Processes : WF_vars(process[p] = "stopping" /\ Exit(p))

\* A cancellation renews the lease of a running task, so a user who cancels a
\* lost task again and again keeps it from expiring: assume that at some
\* point the user has cancelled, and switched off, all there is.
UserRests ==
    <>[][~ \/ \E i \in TaskIds : Cancel(i) /\ tasks' # Fresh
           \/ \E cfg \in Configs : SaveConfig(cfg) /\ tasks' # Fresh]_vars

FairSpec == Spec /\ Fairness /\ UserRests
-----------------------------------------------------------------------------
(* Properties. *)

\* The type invariant: among others, the store never lists more tasks than it
\* accepts (Store::submit, MAX_TASKS).
TypeOK ==
    /\ config \in Config
    /\ tasks \in Seq(Task) /\ Len(tasks) <= MaxTasks
    /\ markers \subseteq Processes
    /\ process \in [Processes -> {"up", "stopping", "gone"}]
    /\ worker \in [TaskIds -> Worker]
    /\ cli \subseteq TaskIds
    /\ started \subseteq TaskIds
    /\ dbErrors \in 0 .. MaxDbErrors

\* "Not started, nothing was done, you can submit it again" is never said of
\* a task whose CLI was started: not by the lease, not by a worker that gives
\* up, not by a shutdown that interrupts a worker between claim and launch.
NotStartedIsTrue == \A i \in DOMAIN tasks : tasks[i].notStarted => i \notin started

\* A cancellation that was accepted decides the result, whatever the worker,
\* the lease or the shutdown report later.
CancellationDecides ==
    \A i \in DOMAIN tasks :
        tasks[i].cancelRequested /\ Ended(tasks[i]) => tasks[i].status = "cancelled"

\* At most one unfinished task continues a session: two CLIs that resume the
\* same session would write over each other's history.
SessionExclusive ==
    \A i, j \in DOMAIN tasks :
        /\ ~Ended(tasks[i]) /\ ~Ended(tasks[j])
        /\ tasks[i].session = tasks[j].session /\ tasks[i].session # NoSession
        => i = j

\* A CLI under supervision has a record that says it runs, or that it was
\* stopped or lost, never one that says it was not started or gave a result.
SupervisedCliRecord ==
    \A i \in cli : HostUp(i) =>
        i \in DOMAIN tasks /\ tasks[i].status \in {"running", "cancelled", "interrupted"}

\* The worker of a task, its CLI and its record are in step.  The marker launched
\* in memory is what keeps a shutdown from calling a started task "not started",
\* and it is set before the CLI can exist; a CLI that was started left a record
\* that is past the queue and does not deny it; only a supervised CLI lives in a
\* living process.
Taken(t)     == t.status \in {"running", "cancelled", "interrupted"} /\ ~t.notStarted
LeftQueue(t) == t.status # "queued" /\ ~t.notStarted
InStep(i) ==
    /\ i \notin DOMAIN tasks => worker[i] = NoWorker
    /\ worker[i].stage \in {"submitted", "waiting", "polling"} =>
          worker[i].failures < MaxPollFailures
    /\ worker[i].stage \in {"claimed", "starting", "supervising"} => Taken(tasks[i])
    /\ worker[i].stage \in {"starting", "supervising", "finishing"} => worker[i].launched
    /\ i \in started =>
          /\ i \in DOMAIN tasks /\ LeftQueue(tasks[i])
          /\ worker[i].stage \in {"supervising", "finishing", "dropped", "done",
                                 "stopping", "removed"}
          /\ worker[i].stage \in {"dropped", "done"} => worker[i].launched
    /\ i \in cli => i \in started /\ (HostUp(i) => worker[i].stage = "supervising")
WorkersInStep == \A i \in TaskIds : InStep(i)

\* A step that starts a task of agent a starts one, within the limit now in
\* force, and leaves none queued before it: submission order is start order.
StartsInOrderWithinLimit ==
    [][\A a \in Agents :
        LET new == Running(tasks', a) \ Running(tasks, a) IN
        new # {} =>
            /\ Cardinality(new) = 1
            /\ Cardinality(Running(tasks', a)) <= ConcurrencyLimit(config, a)
            /\ \A i \in new, j \in Queued(tasks', a) : i < j]_vars

\* A result is final, and a task is started at most once.
ResultIsFinal ==
    [][\A i \in DOMAIN tasks :
        /\ Ended(tasks[i]) => tasks'[i] = tasks[i]
        /\ tasks[i].status = "running" => tasks'[i].status # "queued"]_vars

\* While the process that owns a queued task lives, no other process fails
\* the task, however long the owner stalls.
OwnerKeepsItsTask ==
    [][\A i \in DOMAIN tasks :
        /\ tasks[i].status = "queued" /\ tasks'[i].status = "failed"
        /\ tasks[i].owner \in markers
        => worker'[i] # worker[i]]_vars

\* Every task that was accepted gets a result, though its process crashes,
\* shuts down or fails a transaction: the leases end what nobody ends.
TasksEnd ==
    \A i \in TaskIds : i \in DOMAIN tasks ~> (i \in DOMAIN tasks /\ Ended(tasks[i]))
-----------------------------------------------------------------------------
(* The promise that all this implements. *)

\* What the user sees of a task list and of a configuration.
Entries(ts) == [i \in DOMAIN ts |-> [agent |-> ts[i].agent, status |-> ts[i].status]]
Limits(cfg) ==
    [a \in Agents |-> IF AgentEnabled(cfg, a) THEN ConcurrencyLimit(cfg, a) ELSE 0]

Board == INSTANCE TaskBoard WITH board <- Entries(tasks), limit <- Limits(config)

\* Whatever the processes, workers and leases do, the user sees one board: tasks
\* start in the order of submission within the limit in force, each ends at most
\* once and with a result its stage allows, and nothing waits for an agent that
\* is switched off.
KeepsTheBoard == Board!Spec
=============================================================================
