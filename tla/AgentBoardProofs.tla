----------------------------- MODULE AgentBoardProofs -----------------------------
(***************************************************************************)
(* AgentCollaboration implements TaskBoard, for every number of agents,    *)
(* processes and tasks and for every lease, limit and bound: the initial   *)
(* states are initial states of the board, and every step is a step of the *)
(* board or leaves it as it is.                                            *)
(***************************************************************************)
EXTENDS AgentCollaborationProofs

\* The board counts as the store does.
LEMMA SameCount == ASSUME NEW S PROVE Board!Cardinality(S) = Cardinality(S)
  BY DEF Board!Cardinality, Cardinality

LEMMA EntryOf ==
    ASSUME NEW ts \in Seq(Task)
    PROVE  /\ Entries(ts) \in Seq([agent : Agents, status : Status])
           /\ Len(Entries(ts)) = Len(ts)
           /\ DOMAIN Entries(ts) = DOMAIN ts
           /\ \A i \in DOMAIN ts :
                 Entries(ts)[i] = [agent |-> ts[i].agent, status |-> ts[i].status]
<1>1. \A i \in DOMAIN ts : ts[i] \in Task
  OBVIOUS
<1>2. Entries(ts) \in [DOMAIN ts -> [agent : Agents, status : Status]]
  BY <1>1 DEF Entries, Task
<1>3. /\ Entries(ts) \in Seq([agent : Agents, status : Status])
      /\ Len(Entries(ts)) = Len(ts) /\ DOMAIN Entries(ts) = DOMAIN ts
  BY <1>2, MappedList
<1> QED BY <1>3 DEF Entries

\* The board's view of a set of positions is the store's.
LEMMA SameSets ==
    ASSUME NEW ts \in Seq(Task), NEW a
    PROVE  /\ Board!Queued(Entries(ts), a) = Queued(ts, a)
           /\ Board!Running(Entries(ts), a) = Running(ts, a)
<1>1. \A i \in DOMAIN ts :
         Entries(ts)[i].agent = ts[i].agent /\ Entries(ts)[i].status = ts[i].status
  BY DEF Entries
<1> QED BY <1>1, EntryOf DEF Board!Queued, Board!Running, Queued, Running

\* What a bystander may see of a task is what the board allows.
LEMMA BystanderPasses ==
    ASSUME NEW t \in Task, NEW u, Bystander(t, u)
    PROVE  Board!Passes([agent |-> t.agent, status |-> t.status],
                        [agent |-> u.agent, status |-> u.status])
<1>1. t.status \in {"completed", "failed", "cancelled", "interrupted"} => u = t
  BY DEF Bystander, Ended, Terminal
<1> QED BY <1>1 DEF Bystander, Board!Passes, Board!Results

LEMMA OthersPassOnBoard ==
    ASSUME IInv, tasks' \in Seq(Task), DOMAIN tasks \subseteq DOMAIN tasks', NEW own,
           \A i \in DOMAIN tasks \ own : Bystander(tasks[i], tasks'[i])
    PROVE  Board!OthersPass(own)
<1>1. /\ tasks \in Seq(Task) /\ \A i \in DOMAIN tasks : tasks[i] \in Task
      /\ Entries(tasks)' = Entries(tasks')
  BY DEF IInv, TypeOK, Entries
<1>2. DOMAIN Entries(tasks) = DOMAIN tasks /\ DOMAIN Entries(tasks') = DOMAIN tasks'
  BY <1>1, EntryOf
<1>3. ASSUME NEW i \in DOMAIN tasks \ own
      PROVE  Board!Passes(Entries(tasks)[i], Entries(tasks')[i])
  <2>1. /\ i \in DOMAIN tasks /\ i \in DOMAIN tasks' /\ tasks[i] \in Task
        /\ Bystander(tasks[i], tasks'[i])
    BY <1>1
  <2>2. /\ Entries(tasks)[i] = [agent |-> tasks[i].agent, status |-> tasks[i].status]
        /\ Entries(tasks')[i] = [agent |-> tasks'[i].agent, status |-> tasks'[i].status]
    BY <2>1 DEF Entries
  <2> QED BY <2>1, <2>2, BystanderPasses
<1> QED BY <1>1, <1>2, <1>3 DEF Board!OthersPass

LEMMA BoardInit == Init => Board!Init
<1> SUFFICES ASSUME Init PROVE Board!Init
  OBVIOUS
<1>1. Entries(tasks) = << >>
  BY DEF Init, Entries
<1>2. config \in Config
  BY CollaborationAssumption DEF Init
<1>3. Limits(config) \in [Agents -> Nat]
  BY <1>2 DEF Limits, ConcurrencyLimit, Config, AgentConfig
<1> QED BY <1>1, <1>3 DEF Board!Init

\* Only SaveConfig changes the configuration.
LEMMA ConfigStays ==
    ASSUME [Next]_vars
    PROVE  config' = config \/ \E cfg \in Configs : SaveConfig(cfg)
<1>1. CASE \E p \in Processes, a \in Agents, parent \in 0 .. MaxTasks : Submit(p, a, parent)
  BY <1>1 DEF Submit
<1>2. ASSUME NEW i \in TaskIds, SpawnStep(i) \/ QueueStep(i) PROVE config' = config
  BY <1>2 DEF SpawnStep, SpawnTask, RefuseDuringShutdown, SubmitForgotten,
              QueueStep, PeekQueue, PollQueue, CheckTurnFails, GiveUp
<1>3. ASSUME NEW i \in TaskIds, LaunchStep(i) \/ SuperviseCheck(i) \/ Touch(i) \/ CliStep(i)
      PROVE  config' = config
  BY <1>3 DEF LaunchStep, BeginTask, StartCli, StartFails, SuperviseCheck, Touch, CliStep,
              CliEnds
<1>4. ASSUME NEW i \in TaskIds, \/ FinishTask(i) \/ StopStep(i) \/ OrphanStoreCall(i)
                                \/ OrphanCliEnds(i) \/ Cancel(i)
      PROVE  config' = config
  BY <1>4 DEF FinishTask, StopStep, DropWorker, StopTask, StopAsInterrupted,
              OrphanStoreCall, OrphanCliEnds, Cancel
<1>5. CASE \/ \E p \in Processes : Shutdown(p) \/ Exit(p)
           \/ Refresh \/ Tick \/ UNCHANGED vars
  BY <1>5 DEF Shutdown, Exit, Refresh, Tick, vars
<1> QED BY <1>1, <1>2, <1>3, <1>4, <1>5 DEF Next

LEMMA LimitsStay == config' = config => Limits(config)' = Limits(config)
  BY DEF Limits, AgentEnabled, ConcurrencyLimit

-----------------------------------------------------------------------------
(* Each kind of step on the board. *)

LEMMA SubmitOnBoard ==
    ASSUME IInv, NEW p \in Processes, NEW a \in Agents, NEW parent \in 0 .. MaxTasks,
           Submit(p, a, parent)
    PROVE  Board!Submit(a)
<1> DEFINE new == Len(tasks) + 1
<1>1. /\ tasks' \in Seq(Task) /\ Len(tasks') = new /\ new \in TaskIds
      /\ DOMAIN tasks' = DOMAIN tasks \cup {new}
      /\ \A i \in DOMAIN tasks : tasks'[i] = Fresh[i]
      /\ tasks'[new].status = "queued" /\ tasks'[new].agent = a
  BY SubmitList
<1>2. /\ Fresh \in Seq(Task) /\ DOMAIN Fresh = DOMAIN tasks /\ Quiet(tasks, Fresh)
      /\ tasks \in Seq(Task) /\ Len(tasks) \in Nat /\ Len(Fresh) = Len(tasks)
  BY FreshQuiet DEF IInv, TypeOK
<1>3. Entries(tasks)' = Entries(tasks')
  BY DEF Entries
<1>4. Len(Entries(tasks')) = new /\ Len(Entries(tasks)) = Len(tasks)
      /\ new \in DOMAIN tasks'
      /\ Entries(tasks')[new] = [agent |-> a, status |-> "queued"]
  BY <1>1, <1>2, EntryOf
<1>5. new <= MaxTasks
  BY <1>1 DEF TaskIds
<1>6. Limits(config)[a] > 0
  <2>1. AgentEnabled(config, a)
    BY DEF Submit, MaySubmit
  <2>2. ConcurrencyLimit(config, a) \in 1 .. MaxConcurrentTasks
    BY DEF ConcurrencyLimit, Config, AgentConfig, IInv, TypeOK
  <2> QED BY <2>1, <2>2 DEF Limits
<1>7. Board!OthersPass({})
  BY <1>1, <1>2, OthersPassOnBoard DEF Quiet
<1>8. Cardinality(Queued(tasks', a)) <= MaxQueuedPerAgent
  <2>1. Queued(tasks', a) \subseteq Queued(Fresh, a) \cup {new}
    BY <1>1, <1>2 DEF Queued
  <2>2. Queued(Fresh, a) \in SUBSET DOMAIN Fresh /\ Queued(tasks', a) \in SUBSET DOMAIN tasks'
    BY DEF Queued
  <2>3. IsFiniteSet(Queued(Fresh, a)) /\ Cardinality(Queued(Fresh, a)) \in Nat
        /\ Cardinality(Queued(tasks', a)) \in Nat
    BY <1>1, <1>2, <2>2, PositionsFinite
  <2>4. /\ IsFiniteSet(Queued(Fresh, a) \cup {new})
        /\ Cardinality(Queued(Fresh, a) \cup {new}) <= Cardinality(Queued(Fresh, a)) + 1
    <3>1. /\ IsFiniteSet(Queued(Fresh, a) \cup {new})
          /\ \/ Cardinality(Queued(Fresh, a) \cup {new}) = Cardinality(Queued(Fresh, a))
             \/ Cardinality(Queued(Fresh, a) \cup {new}) = Cardinality(Queued(Fresh, a)) + 1
      BY <2>3, FS_AddElement
    <3> QED BY <2>3, <3>1
  <2>5. Cardinality(Queued(tasks', a)) <= Cardinality(Queued(Fresh, a) \cup {new})
        /\ Cardinality(Queued(Fresh, a) \cup {new}) \in Nat
    BY <2>1, <2>4, FS_Subset, FS_CardinalityType
  <2>6. Cardinality(Queued(Fresh, a)) < MaxQueuedPerAgent /\ MaxQueuedPerAgent \in Nat
    BY StoreAssumption DEF Submit, MaySubmit
  <2> HIDE DEF new
  <2> QED BY <2>3, <2>4, <2>5, <2>6
<1>9. Limits(config)' = Limits(config)
  BY LimitsStay DEF Submit
<1>10. Board!Queued(Entries(tasks'), a) = Queued(tasks', a)
  BY <1>1, SameSets
<1>11. new = Len(Entries(tasks)) + 1
  BY <1>4
<1> HIDE DEF new
<1> QED BY <1>3, <1>4, <1>5, <1>6, <1>7, <1>8, <1>9, <1>10, <1>11, SameCount DEF Board!Submit

LEMMA StartOnBoard ==
    ASSUME IInv, NEW i \in DOMAIN tasks, QuietBut(i, tasks, tasks'),
           QueueTurn(Fresh, config, i) = "start", tasks' = Claimed(Fresh, i),
           config' = config
    PROVE  Board!Start(i)
<1> DEFINE a == tasks[i].agent
<1>1. /\ Fresh \in Seq(Task) /\ DOMAIN Fresh = DOMAIN tasks /\ Quiet(tasks, Fresh)
      /\ tasks \in Seq(Task) /\ tasks' \in Seq(Task) /\ DOMAIN tasks' = DOMAIN tasks
      /\ tasks[i] \in Task /\ config \in Config
  BY FreshQuiet DEF IInv, TypeOK, QuietBut
<1>2. Fresh[i] \in Task /\ Fresh[i].status = "queued" /\ AgentEnabled(config, Fresh[i].agent)
  BY <1>1 DEF QueueTurn, MayWait
<1>3. tasks[i].status = "queued" /\ tasks[i].agent = Fresh[i].agent
  BY <1>1, <1>2 DEF Quiet, Bystander, Task, Status, Ended, Terminal
<1>4. tasks'[i].status = "running" /\ tasks'[i].agent = a
  BY <1>1, <1>2, <1>3 DEF Claimed, Task
<1>5. i \in Running(tasks', a) \ Running(tasks, a)
  BY <1>1, <1>3, <1>4 DEF Running
<1>6. a \in Agents
  BY <1>1 DEF Task
<1>7. /\ Cardinality(Running(tasks', a)) <= ConcurrencyLimit(config, a)
      /\ \A j \in Queued(tasks', a) : i < j
  BY <1>5, <1>6, ClaimIsInOrder
<1>8. Limits(config)[a] = ConcurrencyLimit(config, a) /\ Limits(config)' = Limits(config)
  BY <1>2, <1>3, <1>6, LimitsStay DEF Limits
<1>9. /\ Entries(tasks)' = Entries(tasks')
      /\ Entries(tasks)[i] = [agent |-> a, status |-> "queued"]
      /\ Entries(tasks')[i] = [agent |-> a, status |-> "running"]
      /\ DOMAIN Entries(tasks') = DOMAIN Entries(tasks)
  <2>1. Entries(tasks)' = Entries(tasks')
    BY DEF Entries
  <2> QED BY <1>1, <1>3, <1>4, <2>1, EntryOf
<1>10. Board!OthersPass({i})
  BY <1>1, OthersPassOnBoard DEF QuietBut
<1>11. /\ Board!Queued(Entries(tasks'), a) = Queued(tasks', a)
       /\ Board!Running(Entries(tasks'), a) = Running(tasks', a)
  BY <1>1, SameSets
<1> HIDE DEF a
<1>12. /\ Entries(tasks)[i].agent = a /\ Entries(tasks)[i].status = "queued"
       /\ Entries(tasks')[i] = [Entries(tasks)[i] EXCEPT !.status = "running"]
  BY <1>9
<1> QED BY <1>7, <1>8, <1>9, <1>10, <1>11, <1>12, SameCount DEF Board!Start

LEMMA ReportOnBoard ==
    ASSUME IInv, NEW i \in DOMAIN tasks, QuietBut(i, tasks, tasks'), Ended(tasks'[i]),
           config' = config
    PROVE  Board!Report(i) \/ Board!Pass
<1>1. /\ tasks \in Seq(Task) /\ tasks' \in Seq(Task) /\ DOMAIN tasks' = DOMAIN tasks
      /\ tasks[i] \in Task /\ OwnStep(tasks[i], tasks'[i])
      /\ \A j \in DOMAIN tasks \ {i} : Bystander(tasks[j], tasks'[j])
  BY DEF IInv, TypeOK, QuietBut
<1>2. Limits(config)' = Limits(config)
  BY LimitsStay
<1>3. Entries(tasks)' = Entries(tasks')
  BY DEF Entries
<1>4. /\ Entries(tasks)[i] = [agent |-> tasks[i].agent, status |-> tasks[i].status]
      /\ Entries(tasks')[i] = [agent |-> tasks'[i].agent, status |-> tasks'[i].status]
      /\ DOMAIN Entries(tasks') = DOMAIN Entries(tasks)
  BY <1>1, EntryOf
<1>5. CASE Ended(tasks[i])
  <2>1. tasks'[i] = tasks[i]
    BY <1>1, <1>5 DEF OwnStep
  <2>2. \A j \in DOMAIN tasks : Bystander(tasks[j], tasks'[j])
    BY <1>1, <2>1, BystanderReflexive
  <2>3. Board!OthersPass({})
    BY <1>1, <2>2, OthersPassOnBoard
  <2> QED BY <1>2, <1>3, <1>4, <2>3 DEF Board!Pass
<1>6. CASE ~Ended(tasks[i])
  <2>1. Board!OthersPass({i})
    BY <1>1, OthersPassOnBoard
  <2>2. /\ tasks'[i].agent = tasks[i].agent
        /\ tasks[i].status \notin Board!Results /\ tasks'[i].status \in Board!Results
    BY <1>1, <1>6 DEF OwnStep, Ended, Terminal, Board!Results
  <2> QED BY <1>2, <1>3, <1>4, <2>1, <2>2 DEF Board!Report
<1> QED BY <1>5, <1>6

LEMMA PassOnBoard ==
    ASSUME IInv, Quiet(tasks, tasks'), config' = config
    PROVE  Board!Pass
<1>1. /\ tasks \in Seq(Task) /\ tasks' \in Seq(Task) /\ DOMAIN tasks' = DOMAIN tasks
      /\ \A j \in DOMAIN tasks : Bystander(tasks[j], tasks'[j])
  BY DEF IInv, TypeOK, Quiet
<1>2. Board!OthersPass({})
  BY <1>1, OthersPassOnBoard
<1>3. Entries(tasks)' = Entries(tasks')
  BY DEF Entries
<1>4. DOMAIN Entries(tasks') = DOMAIN Entries(tasks)
  BY <1>1, EntryOf
<1> QED BY <1>2, <1>3, <1>4, LimitsStay DEF Board!Pass

LEMMA ConfigureOnBoard ==
    ASSUME IInv, NEW cfg \in Configs, SaveConfig(cfg)
    PROVE  Board!Configure
<1>1. Quiet(tasks, tasks')
  BY StoreStepQuiet
<1>2. /\ tasks \in Seq(Task) /\ tasks' \in Seq(Task) /\ DOMAIN tasks' = DOMAIN tasks
      /\ \A j \in DOMAIN tasks : Bystander(tasks[j], tasks'[j])
      /\ Fresh \in Seq(Task) /\ DOMAIN Fresh = DOMAIN tasks
  BY <1>1, FreshQuiet DEF IInv, TypeOK, Quiet
<1>3. Board!OthersPass({})
  BY <1>2, OthersPassOnBoard
<1>4. Entries(tasks)' = Entries(tasks') /\ Limits(config)' = Limits(cfg)
  BY DEF Entries, SaveConfig, Limits, AgentEnabled, ConcurrencyLimit
<1>5. DOMAIN Entries(tasks') = DOMAIN Entries(tasks)
  BY <1>2, EntryOf
<1>6. cfg \in Config
  BY CollaborationAssumption
<1>7. Limits(cfg) \in [Agents -> Nat]
  BY <1>6 DEF Limits, ConcurrencyLimit, Config, AgentConfig
<1>8. ASSUME NEW a \in Agents, Limits(cfg)[a] = 0 PROVE Queued(tasks', a) = {}
  <2>1. ~AgentEnabled(cfg, a)
    BY <1>6, <1>8 DEF Limits, ConcurrencyLimit, Config, AgentConfig
  <2>2. ASSUME NEW i \in DOMAIN tasks, tasks'[i].agent = a, tasks'[i].status = "queued"
        PROVE  FALSE
    <3>1. Fresh[i] \in Task
      BY <1>2
    <3>2. tasks'[i] = IF AgentEnabled(cfg, Fresh[i].agent) THEN Fresh[i]
                      ELSE StopRequested(Fresh[i])
      BY <1>2 DEF SaveConfig, ConfigSaved
    <3>3. CASE AgentEnabled(cfg, Fresh[i].agent)
      BY <2>1, <2>2, <3>2, <3>3
    <3>4. CASE ~AgentEnabled(cfg, Fresh[i].agent)
      BY <2>2, <3>1, <3>2, <3>4 DEF StopRequested, EndAs, Ended, Terminal, Task
    <3> QED BY <3>3, <3>4
  <2> QED BY <1>2, <2>2 DEF Queued
<1> QED BY <1>2, <1>3, <1>4, <1>5, <1>7, <1>8, SameSets DEF Board!Configure

LEMMA BoardStep ==
    ASSUME IInv, [Next]_vars PROVE [Board!Next]_(Board!vars)
<1>1. DOMAIN Entries(tasks) = DOMAIN tasks
  BY EntryOf DEF IInv, TypeOK
<1>2. CASE \E p \in Processes, a \in Agents, parent \in 0 .. MaxTasks : Submit(p, a, parent)
  BY <1>2, SubmitOnBoard DEF Board!Next
<1>3. CASE \E cfg \in Configs : SaveConfig(cfg)
  BY <1>3, ConfigureOnBoard DEF Board!Next
<1>4. CASE config' = config /\ Quiet(tasks, tasks')
  BY <1>4, PassOnBoard DEF Board!Next
<1>5. ASSUME config' = config, NEW i \in DOMAIN tasks, QuietBut(i, tasks, tasks'),
             \/ /\ QueueTurn(Fresh, config, i) = "start"
                /\ tasks' = Claimed(Fresh, i)
             \/ Ended(tasks'[i])
      PROVE  Board!Next
  BY <1>1, <1>5, StartOnBoard, ReportOnBoard DEF Board!Next
<1> QED BY <1>2, <1>3, <1>4, <1>5, ConfigStays, WhatChangesTheList

\* Every behaviour of the processes, workers and leases is one of the board:
\* tasks start in the order of submission within the limit in force, end once
\* and as their stage allows, and none waits for an agent that is switched off.
THEOREM ImplementsTheBoard == Spec => KeepsTheBoard
<1> QED BY BoardInit, BoardStep, Invariance, PTL DEF Spec, Board!Spec, KeepsTheBoard
-----------------------------------------------------------------------------
(* Sessions. *)

\* A session is named after the task that opened it, which is in the list and
\* was given to the same agent.  SessionExclusive needs this: the store looks for
\* unfinished tasks of a session among those of one agent only.
SessionNamed ==
    \A i \in DOMAIN tasks : tasks[i].session # NoSession =>
        /\ tasks[i].session \in DOMAIN tasks
        /\ tasks[tasks[i].session].agent = tasks[i].agent

SInv == SessionExclusive /\ SessionNamed

\* What a step may do to the tasks that were there before it.
SessionStep(i) ==
    /\ i \in DOMAIN tasks' /\ tasks'[i].agent = tasks[i].agent
    /\ Ended(tasks[i]) => Ended(tasks'[i])
    /\ ~Ended(tasks'[i]) => tasks'[i].session = tasks[i].session
    /\ tasks'[i].session \in {tasks[i].session, SessionOf(i)}

LEMMA BystanderSession ==
    ASSUME IInv, NEW i \in DOMAIN tasks, i \in DOMAIN tasks', Bystander(tasks[i], tasks'[i])
    PROVE  SessionStep(i)
  BY DEF Bystander, SessionStep

\* A task keeps its session until it ends, and ends with that one or its own.
LEMMA SessionSteps ==
    ASSUME IInv, [Next]_vars, NEW i \in DOMAIN tasks
    PROVE  SessionStep(i)
<1>1. CASE \E p \in Processes, a \in Agents, parent \in 0 .. MaxTasks : Submit(p, a, parent)
  BY <1>1, SubmitIsQuiet, BystanderSession
<1>2. CASE Quiet(tasks, tasks')
  BY <1>2, BystanderSession DEF Quiet
<1>3. ASSUME NEW j \in DOMAIN tasks, QuietBut(j, tasks, tasks'),
             \/ /\ QueueTurn(Fresh, config, j) = "start"
                /\ tasks' = Claimed(Fresh, j) /\ config' = config
             \/ Ended(tasks'[j]) /\ tasks'[j].session \in {tasks[j].session, SessionOf(j)}
      PROVE  SessionStep(i)
  <2>1. CASE i # j
    BY <1>3, <2>1, BystanderSession DEF QuietBut
  <2>2. CASE i = j
    <3>1. /\ i \in DOMAIN tasks' /\ OwnStep(tasks[i], tasks'[i])
      BY <1>3, <2>2 DEF QuietBut
    <3>2. CASE Ended(tasks'[i]) /\ tasks'[i].session \in {tasks[i].session, SessionOf(i)}
      BY <3>1, <3>2 DEF OwnStep, SessionStep
    <3>3. CASE QueueTurn(Fresh, config, i) = "start" /\ tasks' = Claimed(Fresh, i)
      <4>1. /\ Fresh \in Seq(Task) /\ i \in DOMAIN Fresh /\ Fresh[i].status = "queued"
            /\ Fresh[i].session = tasks[i].session
        BY <3>3, FreshQuiet DEF QueueTurn, MayWait, IInv, Quiet, Bystander
      <4>2. tasks'[i].status = "running" /\ tasks'[i].session = tasks[i].session
        BY <3>3, <4>1, ClaimedStep
      <4> QED BY <3>1, <4>2 DEF OwnStep, SessionStep, Ended, Terminal
    <3> QED BY <1>3, <2>2, <3>2, <3>3
  <2> QED BY <2>1, <2>2
<1> QED BY <1>1, <1>2, <1>3, WhatChangesTheList

\* A step that is no submission adds no task.
LEMMA NewTasks ==
    ASSUME IInv, [Next]_vars
    PROVE  \/ DOMAIN tasks' = DOMAIN tasks
           \/ \E p \in Processes, a \in Agents, parent \in 0 .. MaxTasks :
                 Submit(p, a, parent)
  BY WhatChangesTheList DEF Quiet, QuietBut

LEMMA SessionNamedStep == IInv /\ SInv /\ [Next]_vars => SessionNamed'
<1> SUFFICES ASSUME IInv, SInv, [Next]_vars, NEW i \in DOMAIN tasks',
                    tasks'[i].session # NoSession
             PROVE  /\ tasks'[i].session \in DOMAIN tasks'
                    /\ tasks'[tasks'[i].session].agent = tasks'[i].agent
  BY DEF SessionNamed
<1>1. \A k \in DOMAIN tasks : SessionStep(k)
  BY SessionSteps
<1>2. CASE i \in DOMAIN tasks
  <2>1. tasks'[i].session \in {tasks[i].session, i} /\ tasks'[i].agent = tasks[i].agent
    BY <1>1, <1>2 DEF SessionStep, SessionOf
  <2>2. CASE tasks'[i].session = i
    BY <2>2
  <2>3. CASE tasks'[i].session = tasks[i].session
    <3>1. /\ tasks[i].session \in DOMAIN tasks
          /\ tasks[tasks[i].session].agent = tasks[i].agent
      BY <1>2, <2>3 DEF SInv, SessionNamed
    <3> QED BY <1>1, <2>1, <2>3, <3>1 DEF SessionStep
  <2> QED BY <2>1, <2>2, <2>3
<1>3. CASE i \notin DOMAIN tasks
  <2>1. PICK p \in Processes, a \in Agents, parent \in 0 .. MaxTasks : Submit(p, a, parent)
    BY <1>3, NewTasks
  <2>2. /\ i = Len(tasks) + 1 /\ tasks'[i].agent = a
        /\ tasks'[i].session = IF parent = 0 THEN NoSession ELSE Fresh[parent].session
    BY <1>3, <2>1, SubmitList
  <2>3. parent # 0 /\ parent \in DOMAIN Fresh /\ Fresh[parent].agent = a
    BY <2>1, <2>2 DEF Submit, MayContinue
  <2>4. /\ parent \in DOMAIN tasks /\ Fresh[parent].session = tasks[parent].session
        /\ tasks[parent].agent = a
    BY <2>3, FreshQuiet DEF IInv, Quiet, Bystander
  <2>5. /\ tasks'[i].session \in DOMAIN tasks
        /\ tasks[tasks'[i].session].agent = a
    BY <2>2, <2>3, <2>4 DEF SInv, SessionNamed
  <2> QED BY <1>1, <2>2, <2>5 DEF SessionStep
<1> QED BY <1>2, <1>3

LEMMA SessionExclusiveStep == IInv /\ SInv /\ [Next]_vars => SessionExclusive'
<1> SUFFICES ASSUME IInv, SInv, [Next]_vars,
                    NEW i \in DOMAIN tasks', NEW j \in DOMAIN tasks',
                    ~Ended(tasks'[i]), ~Ended(tasks'[j]),
                    tasks'[i].session = tasks'[j].session, tasks'[i].session # NoSession
             PROVE  i = j
  BY DEF SessionExclusive
<1>1. \A k \in DOMAIN tasks : SessionStep(k)
  BY SessionSteps
<1>2. CASE i \in DOMAIN tasks /\ j \in DOMAIN tasks
  <2>1. /\ ~Ended(tasks[i]) /\ ~Ended(tasks[j])
        /\ tasks'[i].session = tasks[i].session /\ tasks'[j].session = tasks[j].session
    BY <1>1, <1>2 DEF SessionStep
  <2> QED BY <1>2, <2>1 DEF SInv, SessionExclusive
<1>3. ASSUME NEW p \in Processes, NEW a \in Agents, NEW parent \in 0 .. MaxTasks,
             Submit(p, a, parent), NEW k \in DOMAIN tasks, ~Ended(tasks'[k]),
             tasks'[k].session = tasks'[Len(tasks) + 1].session,
             tasks'[k].session # NoSession
      PROVE  FALSE
  <2>1. /\ tasks'[k] = Fresh[k] /\ DOMAIN Fresh = DOMAIN tasks
        /\ tasks'[Len(tasks) + 1].session
              = IF parent = 0 THEN NoSession ELSE Fresh[parent].session
    BY <1>3, SubmitList, FreshQuiet DEF IInv
  <2>2. parent # 0 /\ Fresh[k].session = Fresh[parent].session
    BY <1>3, <2>1
  <2>3. /\ parent \in DOMAIN tasks /\ Fresh[parent].agent = a
        /\ Fresh[k].agent = a => Ended(Fresh[k])
    BY <1>3, <2>1, <2>2 DEF Submit, MayContinue
  <2>4. /\ Fresh[k].session = tasks[k].session /\ Fresh[k].agent = tasks[k].agent
        /\ Fresh[parent].session = tasks[parent].session
        /\ Fresh[parent].agent = tasks[parent].agent
    BY <2>3, FreshQuiet DEF IInv, Quiet, Bystander
  <2>5. tasks[k].session = tasks[parent].session /\ tasks[k].session # NoSession
    BY <1>3, <2>1, <2>2, <2>4
  <2>6. tasks[k].agent = tasks[parent].agent
    BY <2>3, <2>5 DEF SInv, SessionNamed
  <2> QED BY <1>3, <2>1, <2>3, <2>4, <2>6
<1>4. CASE i \notin DOMAIN tasks \/ j \notin DOMAIN tasks
  <2>1. PICK p \in Processes, a \in Agents, parent \in 0 .. MaxTasks : Submit(p, a, parent)
    BY <1>4, NewTasks
  <2>2. DOMAIN tasks' = DOMAIN tasks \cup {Len(tasks) + 1}
    BY <2>1, SubmitList
  <2> QED BY <1>3, <1>4, <2>1, <2>2
<1> QED BY <1>2, <1>4

\* No two unfinished tasks ever continue the same session.
THEOREM SessionsAreExclusive == Spec => []SessionExclusive
<1>1. Init => SInv
  BY DEF Init, SInv, SessionExclusive, SessionNamed
<1>2. IInv /\ SInv /\ [Next]_vars => SInv'
  BY SessionNamedStep, SessionExclusiveStep DEF SInv
<1>3. SInv => SessionExclusive
  BY DEF SInv
<1> QED BY <1>1, <1>2, <1>3, Invariance, PTL DEF Spec
-----------------------------------------------------------------------------
(* Owners. *)

\* No transaction but a worker's last word makes a queued task a failure.
LEMMA NotFailed ==
    ASSUME NEW ts \in Seq(Task), NEW i \in DOMAIN ts, ts[i].status = "queued",
           NEW j \in DOMAIN ts, NEW cfg, NEW owner
    PROVE  /\ Touched(ts, j)[i].status # "failed"
           /\ Cancelled(ts, j)[i].status # "failed"
           /\ ConfigSaved(ts, cfg)[i].status # "failed"
           /\ Aged(ts)[i].status # "failed"
           /\ Claimed(ts, j)[i].status # "failed"
           /\ StillQueued(ts, cfg, j, owner)[i].status # "failed"
<1>1. ts[i] \in Task /\ ts[j] \in Task
  OBVIOUS
<1>2. StopRequested(ts[i]).status # "failed"
  BY <1>1 DEF StopRequested, EndAs, Ended, Terminal, Task
<1>3. Touched(ts, j)[i].status # "failed"
  BY <1>1 DEF Touched, Task
<1>4. Cancelled(ts, j)[i].status # "failed"
  BY <1>2 DEF Cancelled
<1>5. ConfigSaved(ts, cfg)[i].status # "failed"
  BY <1>2 DEF ConfigSaved
<1>6. Aged(ts)[i].status # "failed"
  BY <1>1 DEF Aged, Task
<1>7. Claimed(ts, j)[i].status # "failed"
  BY <1>1 DEF Claimed, Task
<1>8. StillQueued(ts, cfg, j, owner)[i].status # "failed"
  BY <1>1 DEF StillQueued, Task
<1> QED BY <1>3, <1>4, <1>5, <1>6, <1>7, <1>8

\* A worker's last word is about its own task.
LEMMA LastWordIsItsOwn ==
    ASSUME NEW ts \in Seq(Task), NEW i \in DOMAIN ts, NEW j \in DOMAIN ts, i # j,
           NEW includeClaimed, NEW status, NEW session
    PROVE  /\ AbandonedBeforeLaunch(ts, j, includeClaimed)[i] = ts[i]
           /\ Finished(ts, j, status, session)[i] = ts[i]
  BY DEF AbandonedBeforeLaunch, Finished

\* A queued task with a living owner has not expired.
LEMMA OwnedIsFresh ==
    ASSUME IInv, NEW i \in DOMAIN tasks, tasks[i].status = "queued",
           tasks[i].owner \in markers
    PROVE  i \in DOMAIN Fresh /\ Fresh \in Seq(Task) /\ Fresh[i] = tasks[i]
<1>1. Fresh[i] = ExpireTask(tasks[i], markers)
  BY ExpiredType DEF IInv, TypeOK, Fresh
<1>2. ~Abandoned(tasks[i], markers)
  BY DEF Abandoned
<1> QED BY <1>1, <1>2, FreshQuiet DEF ExpireTask, IInv

\* A queued task whose owner lives is put down as failed by its worker only,
\* which changes with it.
LEMMA OwnerDecides ==
    ASSUME IInv, [Next]_vars, NEW i \in DOMAIN tasks, tasks[i].status = "queued",
           tasks[i].owner \in markers, tasks'[i].status = "failed"
    PROVE  worker'[i] # worker[i]
<1>0. /\ i \in DOMAIN Fresh /\ Fresh \in Seq(Task) /\ Fresh[i] = tasks[i]
      /\ Fresh[i].status = "queued" /\ tasks \in Seq(Task) /\ DOMAIN Fresh = DOMAIN tasks
      /\ DOMAIN tasks \subseteq TaskIds
  BY OwnedIsFresh, FreshQuiet, TaskPositions DEF IInv, TypeOK
<1>1. tasks' # tasks /\ tasks' # Fresh
  BY <1>0
<1>2. ASSUME NEW j \in DOMAIN tasks, NEW includeClaimed,
             tasks' = AbandonedBeforeLaunch(Fresh, j, includeClaimed)
      PROVE  i = j
  BY <1>0, <1>2, LastWordIsItsOwn
<1>3. ASSUME NEW j \in DOMAIN tasks, NEW status, NEW session,
             tasks' = Finished(Fresh, j, status, session)
      PROVE  i = j
  BY <1>0, <1>3, LastWordIsItsOwn
<1>4. ASSUME NEW j \in TaskIds, j \in DOMAIN tasks, PollTransaction(j) PROVE FALSE
  BY <1>0, <1>1, <1>4, NotFailed DEF PollTransaction
<1>5. /\ worker \in [TaskIds -> Worker] /\ i \in TaskIds /\ i \in DOMAIN worker
      /\ worker[i] = [worker[i] EXCEPT !.stage = worker[i].stage]
  BY <1>0 DEF IInv, TypeOK, Worker
<1>6. ASSUME NEW j \in TaskIds, SpawnStep(j) PROVE worker'[i] # worker[i]
  <2>1. CASE RefuseDuringShutdown(j)
    <3>1. j \in DOMAIN tasks /\ worker[j].stage = "submitted"
      BY <2>1, AtWorker DEF RefuseDuringShutdown, At
    <3>2. i = j
      BY <1>1, <1>2, <2>1, <3>1 DEF RefuseDuringShutdown, Commit, DbError
    <3> QED BY <1>5, <2>1, <3>1, <3>2 DEF RefuseDuringShutdown, Remove, Gone, NoWorker, Worker
  <2>2. CASE SpawnTask(j) \/ SubmitForgotten(j)
    BY <1>1, <2>2 DEF SpawnTask, SubmitForgotten, DbError
  <2> QED BY <1>6, <2>1, <2>2 DEF SpawnStep
<1>7. ASSUME NEW j \in TaskIds, QueueStep(j) PROVE worker'[i] # worker[i]
  <2>1. CASE PollQueue(j)
    <3>1. j \in DOMAIN tasks
      BY <2>1, AtWorker DEF PollQueue
    <3> QED BY <1>4, <2>1, <3>1 DEF PollQueue
  <2>2. CASE GiveUp(j)
    <3>1. j \in DOMAIN tasks /\ worker[j].stage = "givingUp"
      BY <2>2, AtWorker DEF GiveUp, At
    <3>2. i = j
      BY <1>1, <1>2, <2>2, <3>1 DEF GiveUp, Commit, DbError
    <3> QED BY <1>5, <2>2, <3>1, <3>2, StoppedType DEF GiveUp
  <2>3. CASE PeekQueue(j) \/ CheckTurnFails(j)
    BY <1>1, <2>3 DEF PeekQueue, CheckTurnFails, DbError
  <2> QED BY <1>7, <2>1, <2>2, <2>3 DEF QueueStep
<1>8. ASSUME NEW j \in TaskIds,
             LaunchStep(j) \/ SuperviseCheck(j) \/ Touch(j) \/ CliStep(j)
      PROVE  FALSE
  <2>1. CASE LaunchStep(j)
    BY <1>1, <2>1 DEF LaunchStep, BeginTask, StartCli, StartFails, Commit, DbError
  <2>2. CASE SuperviseCheck(j) \/ Touch(j) \/ CliStep(j)
    <3>1. j \in DOMAIN tasks
      BY <2>2, AtWorker DEF SuperviseCheck, Touch, CliStep, CliEnds
    <3>2. tasks' = Touched(Fresh, j)
      BY <1>1, <2>2 DEF SuperviseCheck, Touch, CliStep, CliEnds, Commit
    <3> QED BY <1>0, <3>1, <3>2, NotFailed
  <2> QED BY <1>8, <2>1, <2>2
<1>9. ASSUME NEW j \in TaskIds, FinishTask(j) PROVE worker'[i] # worker[i]
  <2>1. j \in DOMAIN tasks /\ worker[j].stage = "finishing"
    BY <1>9, AtWorker DEF FinishTask, At
  <2>2. i = j
    BY <1>1, <1>3, <1>9, <2>1 DEF FinishTask, Commit, DbError
  <2> QED BY <1>5, <1>9, <2>1, <2>2, StoppedType DEF FinishTask
<1>10. ASSUME NEW j \in TaskIds, StopStep(j) PROVE worker'[i] # worker[i]
  <2>1. CASE StopTask(j)
    <3>1. j \in DOMAIN tasks /\ worker[j].stage \in {"dropped", "done"}
      BY <2>1, AtWorker DEF StopTask, At
    <3>2. i = j
      BY <1>1, <1>2, <2>1, <3>1 DEF StopTask, Commit, DbError
    <3>3. worker'[i].stage \in {"removed", "stopping"}
      BY <1>5, <2>1, <3>2 DEF StopTask, Remove, Gone, NoWorker, GoTo, Worker
    <3> QED BY <3>1, <3>2, <3>3
  <2>2. CASE StopAsInterrupted(j)
    <3>1. j \in DOMAIN tasks /\ worker[j].stage = "stopping"
      BY <2>2, AtWorker DEF StopAsInterrupted, At
    <3>2. i = j
      BY <1>1, <1>3, <2>2, <3>1 DEF StopAsInterrupted, Commit, DbError
    <3>3. worker'[i].stage = "removed"
      BY <1>5, <2>2, <3>2 DEF StopAsInterrupted, Remove, Gone, NoWorker, Worker
    <3> QED BY <3>1, <3>2, <3>3
  <2>3. CASE DropWorker(j)
    BY <1>1, <2>3 DEF DropWorker
  <2> QED BY <1>10, <2>1, <2>2, <2>3 DEF StopStep
<1>11. ASSUME NEW j \in TaskIds, OrphanStoreCall(j) PROVE worker'[i] # worker[i]
  <2>1. worker[j].orphan # "none" /\ NoWorker.orphan = "none"
    BY <1>11 DEF OrphanStoreCall, NoWorker
  <2>2. j \in DOMAIN tasks
    BY <2>1, WorkerHasTask
  <2>3. tasks' = AbandonedBeforeLaunch(Fresh, j, FALSE)
    BY <1>4, <1>11, <2>2 DEF OrphanStoreCall
  <2>4. i = j
    BY <1>2, <2>2, <2>3
  <2> QED BY <1>5, <1>11, <2>1, <2>4 DEF OrphanStoreCall, Worker
<1>12. CASE \/ \E j \in TaskIds : Cancel(j)
            \/ \E cfg \in Configs : SaveConfig(cfg)
            \/ Refresh
            \/ Tick
  <2>1. \/ \E j \in DOMAIN tasks : tasks' = Cancelled(Fresh, j)
        \/ \E cfg \in Configs : tasks' = ConfigSaved(Fresh, cfg)
        \/ tasks' = Fresh
        \/ tasks' = Aged(tasks)
    BY <1>12 DEF Cancel, SaveConfig, Refresh, Tick
  <2> QED BY <1>0, <1>1, <2>1, NotFailed
<1>13. CASE \E p \in Processes, a \in Agents, parent \in 0 .. MaxTasks : Submit(p, a, parent)
  BY <1>0, <1>13, SubmitList
<1>14. CASE \/ UNCHANGED vars \/ \E p \in Processes : Shutdown(p) \/ Exit(p)
            \/ \E j \in TaskIds : OrphanCliEnds(j)
  BY <1>1, <1>14 DEF vars, Shutdown, Exit, OrphanCliEnds
<1> QED BY <1>6, <1>7, <1>8, <1>9, <1>10, <1>11, <1>12, <1>13, <1>14 DEF Next

\* While the owner of a queued task lives, nobody else fails the task, however
\* long the owner stalls.
THEOREM OwnersKeepTheirTasks == Spec => OwnerKeepsItsTask
<1> DEFINE Step == \A i \in DOMAIN tasks :
                      /\ tasks[i].status = "queued" /\ tasks'[i].status = "failed"
                      /\ tasks[i].owner \in markers
                      => worker'[i] # worker[i]
<1>1. IInv /\ [Next]_vars => [Step]_vars
  BY OwnerDecides
<1>2. Spec => [][Step]_vars
  <2> HIDE DEF Step
  <2> QED BY <1>1, Invariance, PTL DEF Spec
<1> QED BY <1>2 DEF OwnerKeepsItsTask
=============================================================================
