------------------------------ MODULE AgentStore ------------------------------
(***************************************************************************)
(* The collaboration store of agent_collaboration/mod.rs: what each of the *)
(* store's transactions does to the task list and what it answers.         *)
(*                                                                         *)
(* The code keeps one SQLite row, {config, tasks, queueOwners}, and every  *)
(* public method is one IMMEDIATE transaction (with_state): parse the row, *)
(* expire the abandoned tasks, change, write back.  Here a transaction is  *)
(* an operator from a task list to a task list; the modules that own the   *)
(* variables apply it to Expired(tasks, live), never to tasks itself.      *)
(*                                                                         *)
(* Abstractions.  A task is known by its position in the append-only list, *)
(* which is also its place in the queue.  The age of a task is the time    *)
(* since its updated_at_ms, the only way that time is read; it is 0 for a  *)
(* task that ended, whose time is never read again.  The queueOwners map   *)
(* is the field owner, cleared when the task leaves the queue (the code    *)
(* drops the entry at the next transaction and never reads it between).    *)
(* Prompts, answers and directories are left out; of the texts written     *)
(* into error and progress the model keeps what they tell the user:        *)
(* notStarted, "the CLI was never started, you can submit again", and      *)
(* ahead, the number of tasks the progress text of a queued task names.    *)
(***************************************************************************)
EXTENDS Integers, Sequences, FiniteSets

CONSTANTS
    Agents,              \* the agents a task can be given to
    Processes,           \* process lifetimes that can own a queued task
    NoOwner,             \* the owner of a task no process has registered for
    MaxTasks,            \* MAX_TASKS: length the task list may reach
    MaxQueuedPerAgent,   \* MAX_QUEUED_PER_AGENT
    MaxConcurrentTasks,  \* MAX_CONCURRENT_TASKS_LIMIT
    WorkerLease,         \* WORKER_LEASE_MS: how old a running task may be
    QueuedLease,         \* QUEUED_LEASE_MS: how old a queued task may be
    QueueHeartbeat       \* QUEUE_HEARTBEAT_MS: how often a waiter renews

ASSUME StoreAssumption ==
    /\ NoOwner \notin Processes
    /\ MaxTasks \in Nat \ {0}
    /\ MaxQueuedPerAgent \in Nat \ {0}
    /\ MaxConcurrentTasks \in Nat \ {0}
    /\ {WorkerLease, QueuedLease, QueueHeartbeat} \subseteq Nat \ {0}
    /\ QueueHeartbeat <= WorkerLease
    /\ WorkerLease <= QueuedLease

-----------------------------------------------------------------------------
Terminal == {"completed", "failed", "cancelled", "interrupted"}
Status   == {"queued", "running"} \cup Terminal

NoSession == 0              \* an empty session_id
Session   == 0 .. MaxTasks  \* a session is named after the task that opened it

\* Ages above every lease are the same age.
MaxAge == QueuedLease + 1

Task == [agent           : Agents,
         status          : Status,
         cancelRequested : BOOLEAN,
         session         : Session,
         ahead           : Nat,
         age             : 0 .. MaxAge,
         owner           : Processes \cup {NoOwner},
         notStarted      : BOOLEAN]

AgentConfig == [enabled : BOOLEAN, limit : 1 .. MaxConcurrentTasks]
Config      == [enabled : BOOLEAN, agents : [Agents -> AgentConfig]]

-----------------------------------------------------------------------------
(* What the store reads. *)

Ended(t) == t.status \in Terminal

AgentEnabled(cfg, a)     == cfg.enabled /\ cfg.agents[a].enabled
ConcurrencyLimit(cfg, a) == cfg.agents[a].limit

Queued(ts, a)  == {i \in DOMAIN ts : ts[i].agent = a /\ ts[i].status = "queued"}
Running(ts, a) == {i \in DOMAIN ts : ts[i].agent = a /\ ts[i].status = "running"}

\* Mutant: the running tasks are compared with the limit one too late.
TasksAheadOffByOne(ts, a, index, limit) ==
    LET running == Cardinality(Running(ts, a) \ {index})
        excess  == IF running > limit THEN running - limit ELSE 0
    IN  Cardinality({i \in Queued(ts, a) : i < index}) + excess

\* How many tasks of agent a must end before the one at position index starts:
\* the earlier queued ones, and the running ones beyond limit - 1.
TasksAhead(ts, a, index, limit) ==
    LET running == Cardinality(Running(ts, a) \ {index})
        excess  == IF running + 1 > limit THEN running + 1 - limit ELSE 0
    IN  Cardinality({i \in Queued(ts, a) : i < index}) + excess

AheadOf(ts, cfg, i) ==
    TasksAhead(ts, ts[i].agent, i, ConcurrencyLimit(cfg, ts[i].agent))

\* The progress text is right and the lease is fresh: nothing to write.
QueueWaitIsCurrent(t, ahead) == t.ahead = ahead /\ t.age < QueueHeartbeat

MayWait(ts, cfg, i) ==
    /\ ts[i].status = "queued"
    /\ ~ts[i].cancelRequested
    /\ AgentEnabled(cfg, ts[i].agent)

\* poll_queue's answer.
QueueTurn(ts, cfg, i) ==
    IF ~MayWait(ts, cfg, i) THEN "stop"
    ELSE IF AheadOf(ts, cfg, i) = 0 THEN "start" ELSE "wait"

\* peek_queue's answer: still waiting, and nothing to write.
PeekStillWaits(ts, cfg, i) ==
    /\ QueueTurn(ts, cfg, i) = "wait"
    /\ QueueWaitIsCurrent(ts[i], AheadOf(ts, cfg, i))

WorkerShouldStop(ts, cfg, i) ==
    ts[i].cancelRequested \/ Ended(ts[i]) \/ ~AgentEnabled(cfg, ts[i].agent)

-----------------------------------------------------------------------------
(* What the transactions write. *)

\* Mutant: the result is reported though the task was cancelled.
EndAsReported(t, status, notStarted) ==
    [t EXCEPT !.status = status, !.notStarted = notStarted,
              !.ahead = 0, !.age = 0, !.owner = NoOwner]

\* A task ends; a requested cancellation wins over any other result.
EndAs(t, status, notStarted) ==
    [t EXCEPT !.status     = IF t.cancelRequested THEN "cancelled" ELSE status,
              !.notStarted = notStarted,
              !.ahead      = 0,
              !.age        = 0,
              !.owner      = NoOwner]

\* Mutant: only the lease decides, whoever owns the task.
AbandonedByLease(t, live) ==
    \/ t.status = "queued"  /\ t.age > QueuedLease
    \/ t.status = "running" /\ t.age > WorkerLease

\* Mutant: running tasks never expire.
AbandonedInQueue(t, live) ==
    t.status = "queued" /\ t.age > QueuedLease /\ t.owner \notin live

\* live is the set of processes whose owner marker is locked.
Abandoned(t, live) ==
    \/ t.status = "queued"  /\ t.age > QueuedLease /\ t.owner \notin live
    \/ t.status = "running" /\ t.age > WorkerLease

ExpireTask(t, live) ==
    IF ~Abandoned(t, live)         THEN t
    ELSE IF t.status = "queued" THEN EndAs(t, "failed", TRUE)
    ELSE EndAs(t, "interrupted", FALSE)

\* expire_abandoned_tasks, the first thing every transaction does.
Expired(ts, live) == [i \in DOMAIN ts |-> ExpireTask(ts[i], live)]

\* Mutant: nobody looks for an unfinished task of the same session.
MayContinueAnyway(ts, a, parent) ==
    /\ parent \in DOMAIN ts
    /\ ts[parent].agent = a
    /\ ts[parent].status = "completed"
    /\ ts[parent].session # NoSession

\* submit with continue_task_id: parent is a position in the list.
MayContinue(ts, a, parent) ==
    /\ parent \in DOMAIN ts
    /\ ts[parent].agent = a
    /\ ts[parent].status = "completed"
    /\ ts[parent].session # NoSession
    /\ \A i \in DOMAIN ts :
          ts[i].agent = a /\ ts[i].session = ts[parent].session => Ended(ts[i])

\* Mutant: the length of the list is not looked at.
MaySubmitUnbounded(ts, cfg, a) ==
    AgentEnabled(cfg, a) /\ Cardinality(Queued(ts, a)) < MaxQueuedPerAgent

MaySubmit(ts, cfg, a) ==
    /\ AgentEnabled(cfg, a)
    /\ Len(ts) < MaxTasks
    /\ Cardinality(Queued(ts, a)) < MaxQueuedPerAgent

NewTask(ts, cfg, a, session) ==
    [agent           |-> a,
     status          |-> "queued",
     cancelRequested |-> FALSE,
     session         |-> session,
     ahead           |-> TasksAhead(ts, a, Len(ts) + 1, ConcurrencyLimit(cfg, a)),
     age             |-> 0,
     owner           |-> NoOwner,
     notStarted      |-> FALSE]

\* poll_queue when it is the task's turn.
Claimed(ts, i) ==
    [ts EXCEPT ![i] = [@ EXCEPT !.status = "running", !.ahead = 0,
                                !.age = 0, !.owner = NoOwner]]

\* poll_queue when it is not: register the owner, refresh text and lease.
StillQueued(ts, cfg, i, owner) ==
    LET t     == ts[i]
        ahead == AheadOf(ts, cfg, i)
        age   == IF QueueWaitIsCurrent(t, ahead) THEN t.age ELSE 0
    IN  [ts EXCEPT ![i] = [t EXCEPT !.owner = owner, !.ahead = ahead, !.age = age]]

\* Mutant: a claimed task counts as not launched.
MayAbandonClaimed(t, includeClaimed) == t.status \in {"queued", "running"}

\* abandon_before_launch; abandon_queued is the case includeClaimed = FALSE.
MayAbandon(t, includeClaimed) ==
    t.status = "queued" \/ (includeClaimed /\ t.status = "running")

AbandonedBeforeLaunch(ts, i, includeClaimed) ==
    IF MayAbandon(ts[i], includeClaimed)
    THEN [ts EXCEPT ![i] = EndAs(@, "failed", TRUE)]
    ELSE ts

WithSession(t, session) ==
    IF session = NoSession THEN t ELSE [t EXCEPT !.session = session]

\* Mutant: a late result replaces an earlier one.
FinishedAgain(ts, i, status, session) ==
    [ts EXCEPT ![i] = WithSession(EndAs(@, status, FALSE), session)]

\* finish; session is what the CLI reported, NoSession if it did not.
Finished(ts, i, status, session) ==
    IF Ended(ts[i]) THEN ts
    ELSE [ts EXCEPT ![i] = WithSession(EndAs(@, status, FALSE), session)]

\* A cancellation reaches a task: one still queued ends at once.
StopRequested(t) ==
    LET asked == [t EXCEPT !.cancelRequested = TRUE, !.age = 0]
    IN  CASE Ended(t)              -> t
          [] t.status = "queued"   -> EndAs(asked, "cancelled", TRUE)
          [] OTHER                 -> asked

Cancelled(ts, i) == [ts EXCEPT ![i] = StopRequested(@)]

\* Mutant: only what runs is cancelled, the queue is left to the leases.
ConfigSavedForRunning(ts, cfg) ==
    [i \in DOMAIN ts |-> IF AgentEnabled(cfg, ts[i].agent) \/ ts[i].status = "queued"
                         THEN ts[i] ELSE StopRequested(ts[i])]

\* save_config: the tasks of an agent that is no longer enabled are cancelled.
ConfigSaved(ts, cfg) ==
    [i \in DOMAIN ts |-> IF AgentEnabled(cfg, ts[i].agent) THEN ts[i]
                         ELSE StopRequested(ts[i])]

\* touch and update_progress.
Touched(ts, i) == IF Ended(ts[i]) THEN ts ELSE [ts EXCEPT ![i].age = 0]

\* Time passes for the tasks whose time is still read.
Aged(ts) ==
    [i \in DOMAIN ts |->
        IF Ended(ts[i]) \/ ts[i].age = MaxAge THEN ts[i]
        ELSE [ts[i] EXCEPT !.age = @ + 1]]
=============================================================================
