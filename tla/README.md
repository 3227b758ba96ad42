# Codex++ in TLA+

Formal models of the concurrent core of Codex++ (`src/crates/codex-plus-core`,
`src/crates/codex-plus-data`, `src/apps`): what its parts promise, checked with TLC
on small instances and, all but liveness, proved with TLAPS for all sizes.

## 1. The system

Codex++ is a desktop companion of several coding agents (Codex, Claude Code, Gemini
and others). One *manager* process (Tauri) hosts a local HTTP *gateway*, the agents'
configuration, session storage and a user interface; agents start further
Codex++ processes of their own (MCP servers); a *launcher* starts and watches the
desktop application; a *mobile relay* connects phones.

| Component | State | Operations | Hard behaviour | What makes it correct |
|---|---|---|---|---|
| Agent collaboration store (`agent_collaboration/mod.rs`, `queue_owner.rs`) | one SQLite row: configuration, tasks with status, lease, queue owners; marker files locked by processes | submit, poll, peek, abandon, finish, cancel, touch, save config, expire | several processes, leases, crashes, failing transactions | submission order is start order within the limit; a result is final; "not started" is true; a cancellation wins; every task ends |
| Agent collaboration executor (`executor.rs`) | per process: owned tasks, abort handles, launched marks; CLI process groups | spawn, wait, claim, launch, supervise, report, shut down | abort at an await, blocking calls that outlive it | CLI, worker and record agree |
| Gateway key pool (`gateway/key_pool.rs`) | cooldowns, disabled marks, breakers, session pins, usage windows and slots | order keys, record failure/success, acquire/release, reset, forget | shared by all requests; stale results; edits | limits hold, no slot is lost, sessions keep their key |
| Gateway candidate loop (`gateway/pipeline.rs`, `route.rs`, `server.rs`) | per request: candidates, put-off candidates, slot, deadline | plan, try, defer, queue, wait, forward | lost wake-ups, repeated rounds, deadlines | every candidate once, no free slot slept through, every request ends |
| Gateway configuration (`apply.rs`, `restore.rs`, `store.rs`, `drift.rs`, `agents/`) | settings, agents' config files, an archive of them, bindings | connect, refresh, restore, reconnect, edit providers and keys | several files, crash between writes, edits by others, threads | the user's own content survives apply and restore; no file is stranded on the gateway |
| Sync journal, provider sync (`codex-plus-data/src/sync_journal.rs`, `provider_sync.rs`) | journal file, SQLite databases, session files | prepare, commit, mark, roll back, recover | crash anywhere, the desktop application writes too | rollback restores exactly what the sync changed and nothing else |
| Session storage, index repair, usage archive (`codex-plus-data`) | databases, rollout files | list, delete with backup, repair, aggregate | partial failure | a deletion can be undone |
| Mobile relay (`apps/codex-plus-mobile-relay`) | rooms, nonces, peers | register, forward, unregister, expire | reconnect races, replayed tokens, full tables | the newest connection of a role keeps it; nothing is left behind; no token is accepted twice |
| Connect (`connect/`) | state file (cursor, marks, threads), options file (overrides, pending reset), inbox directories, outbound queue | poll, answer, reset, override, save, stop | two files, crash, failed save, repeated batch, three writers | a reset is carried out exactly once, a message is answered once |
| Relay rotation, switch, settings (`relay_rotation.rs`, `relay_switch.rs`, `relay_config.rs`, `settings.rs`) | selector, several configuration files | select, record, switch, roll back | several files | a failed switch leaves the old state |
| Multi worker (`multi_worker.rs`) | plan, worktrees, results | plan, run, merge | partial failure | a merge never loses a worker's result |
| Launcher, takeover, watcher, owned processes, resident helper | process table, ports, files | start, inject, take over, stop | races with the operating system | one helper, no foreign process is killed |
| Update | downloaded files, installer script | check, download, hand over | crash, tampered files | only a verified file is run |
| Protocol proxy and conversions, login, extensions, skills, browser, appearance | mostly data | convert, install, display | formats | out of scope (see 8) |

Interactions: manager and MCP processes share the collaboration store only through
SQLite transactions and marker files; workers report through the store. The gateway's
request tasks share the key pool through two mutexes and one `Notify`; the user's edits
reach the settings file first and the pool in a second step. Provider sync shares the
databases with the running desktop application.

## 2. Modules

| Module | Models | Correspondence |
|---|---|---|
| `AgentStore` | `agent_collaboration/mod.rs`, `queue_owner.rs` | pure operators on the task list: one per transaction (`NewTask`, `Claimed`, `StillQueued`, `AbandonedBeforeLaunch`, `Finished`, `Cancelled`, `ConfigSaved`, `Touched`) and `Expired`, which every transaction starts with |
| `AgentCollaboration` | `executor.rs` and the processes around it | one action per step of `spawn_task`, `wait_for_turn`, `run_task`, `supervise`, `shutdown_owned_tasks`, `stop_owned_tasks`; `Exit` is a crash or the end of a process; `Tick` is time |
| `MCAgentCollaboration` | its instances | |
| `TaskBoard` | what the collaboration promises: entries that are submitted, started in their order within a limit, and ended once | the specification that `AgentCollaboration` implements (`KeepsTheBoard`) |
| `AgentStoreProofs`, `AgentCollaborationProofs`, `AgentBoardProofs` | lemmas about the transactions; the inductive invariant and its theorems; sessions, owners and the refinement | |
| `KeyPool` | `gateway/key_pool.rs` and the key edits of `apply.rs` | variables `health`, `provider`, `sticky`, `usage` are the four tables; `RecordFailure`, `RecordSuccess`, `Reset`, `ForgetKey`, `TimePasses` change them |
| `GatewayPipeline` | `pipeline.rs`, the end of `resolve_plan_with`, slot lifetimes of `server.rs` | `req[q]` is the local state of `open_candidates`; one action per await-free stretch of its loop |
| `MCGatewayPipeline`, `GatewayProofs` | its instances; theorems about slots and limits, candidates, sessions and wake-ups | |
| `AgentConnect` | the generic agents of `gateway/agents` (`connect.rs`, `files.rs`), `restore.rs` and the operations of `apply.rs` that call them | `live` are the files, `stash` the archive, `binding` and `restored` what `gateway.json` says; `op[t]` is the operation of a thread; one action per write |
| `MCAgentConnect`, `AgentConnectProofs` | its instances; theorems | |
| `SyncJournal` | `sync_journal.rs`, the flow of a sync and of its recovery in `provider_sync.rs` | variables `disk` and `mem` are the journal on disk and in memory; one action per write to the journal, a database or a file, so that a crash can fall between any two |
| `MCSyncJournal`, `SyncJournalProofs` | its instances; theorems about the journal, the rollback and its conflicts | |
| `MobileRelay` | `apps/codex-plus-mobile-relay/src/main.rs` | `rooms` and `nonces` are the tables of the server, one action per critical section of its lock and per await |
| `MCMobileRelay`, `MobileRelayProofs` | its instances; theorems | |
| `WeixinConnect` | the message loop of `connect/mod.rs`, `session_store.rs`, `controls.rs`, the session tool of `app_server.rs` and the commands of the manager that start, stop and reset it | `disk` and `mem` are `ConnectState`, `options` is `SessionOptions`; `loop` is where `run_weixin_connect_with_outbound` and `process_weixin_message` stand, one action per await or write |
| `MCWeixinConnect`, `WeixinConnectProofs` | its instances; theorems | |

Times are kept as remaining units or ages, so that state spaces stay finite and a
behaviour of any length is covered. A transaction of the store is one action, since
SQLite serialises them (`BEGIN IMMEDIATE`); a critical section of a mutex likewise. The
end of an attempt records the failure and drops the slot in one action; between the two
the code does nothing that another task could tell apart, except that it may find the
key cooling and still full.

### Agent collaboration: state

`tasks[i]` has the record's status, lease ages, session, cancellation flag and queue
owner; `worker[i]` the position of the task's future and the in-memory `launched` mark
(`OwnedTask.launched`), and `orphan`, a blocking store call that outlives an aborted
future; `cli` the CLI processes that live; `started` is history: tasks whose CLI was ever
started. A process is up, stopping or gone, and `markers` are the marker files that the
operating system keeps locked for living processes.

### Gateway: state

`value` is the text of each key in the settings, so a candidate carries the text it was
planned with, as `KeyRef.fingerprint` does. `req[q].held` is `KeySlot.held`; `notified`
the state of the `Notified` future, which is registered at the start of each round
(`BeginRound`) before any key is looked at. `plan`, `through`, `tried` and `pin` are history for
the properties. A plan is a set of keys (`Planned`) in an order (`Arranged`): `RelayPlace` is the place
of a provider in the route, `KeyRank` that of a key among the ready ones of its provider, with the
session's key first, else rotated; keys that only a breaker held back stay as they are written. The
rotation counter is abstracted to "any position". `ClassifyFailure`
is the table of `classify_failure` by status and body hints; formats of reset headers are
reduced to the time they name.

A request that finds its candidates full goes through the stages "trying", "dozing" (the
round has ended, `notified` not yet awaited) and "queued" (asleep); a release between the
first two is what `NoLostWakeup` is about.

### Sync journal: state

`db` maps the identity of a row to its cells, `fs` a file to its content, both abstracted to
values that tell who wrote them: a sync writes the target provider and normalized paths, and
another program writes anything else. `sync` is the position of the one process that holds
the lifecycle guard; `sync.errs` the error list of `rollback`, empty or not. `removed` and
`dropped` are history: rows that are absent because of the sync, and rows that others have
removed. A failed save leaves the old or the new journal on disk (the rename has happened,
flushing the directory has not). A journal keeps session files and the global state in one
sequence, session files first; `rollback` goes through it from its end, which is the order of
its two loops. `Edits` allows a transaction to change any rows in any way, except to remove a
row that the same sync has inserted, or to set a cell that it has set: of each database one
transaction sets cells (`apply_sqlite_update`), each column once, then one removes and inserts catalog
rows, and then rows are only inserted.

### Agent configuration: state

A file is a function from its keys to values; formats (JSON, TOML, YAML), files that the
gateway writes as a whole, the special restorations of some agents, the preview of a
disconnection and the native agents Claude, Codex and Grok are left out. What the gateway
writes depends on the pool's version only, except its address; a change of the port is a
refresh.

`op[t]` is the operation of thread `t`: the start-up thread, the commands of the user and the
refresh after a change of the pool are not excluded from one another. A rewriting reads the
files (`Plan`), loads the archive and adds to it (`LoadArchive`), saves it (`SaveArchive`), writes
file by file what it has planned (`WriteFile`) and inserts the binding as it knew it (`Connected`).
A restoration decides whether the agent was taken over (`BeginRestore`), loads the archive
(`LoadRecords`), restores file by file (`RestoreFile`, whose reading and writing are one step) and
deletes the archive (`Unstash`), which may fail unnoticed (`RemoveStash`). Any of these reads and
writes may fail (`Fails`). The mark `restored` goes when all enabled agents have been written
anew; since the others are not modelled, it may go or stay (`MarkMayGo`).

`home`, `contested`, `mixed` and `repointed` are history. `home` is what the user has last set for
each key: an edit changes it, unless the gateway had changed the key already, which a restoration
puts back. `contested` are keys of which nobody can say that: edited while a file was about to be
rewritten as it had been read, while files were being restored, or after the archived text was
taken and before the gateway changed the key. A takeover leaves the files as they are: a key that
the user has changed is then home with its new value, but one that still has a value of the
gateway, or that a restoration is about to change, becomes contested and does not become home.
`mixed` says that a rewriting (from its reading of the files to its last write) and a restoration
(from its loading of the archive, or its
decision that the agent was taken over, to the deletion of the archive) have been under way at once: nothing in the code
excludes that, and the promises end there. `repointed`: the user moved the agent elsewhere after
it had been restored at an exit.

### Mobile relay: state

Time is a clock, since tokens carry their end (`expires`); names of connections are reused
once a connection is gone, so a behaviour may have any number of them. A token that is
forged fails before anything changes. Sizes of messages, their number per second and the
HTTP pages are left out; a peer may leave at any time, which is what breaking those limits
leads to.

### WeChat connection: state

One peer, since peers share only the cursor and the marks. A thread, a completed reset, and
each half of the overrides (model and reasoning effort, `Halves`) are named by the number of
resets there were when they were made, so that "older than a reset" is a comparison. The state
file and the options file are written one at a time and either write may fail, before or after
the file is replaced. The tool's "set" takes two steps: `ToolLoads` reads the options without the
lock and changes one half or both (to a new value or to the default), `ToolSaves` reads only the
pending request anew and writes the rest as it was loaded; the manager's reset may fall between
them. `turns`, `handled`, `lapsed`, `again` and `overtaken` are history: turns begun for each
message, messages done with, messages that an end of the loop has lost or whose mark was
forgotten, messages that the server sent once more, and resets that fell between the two steps
of a "set". Attachments, media, projects, the choice of models and the app server's protocol are
left out.

### The task board

`AgentCollaboration` maps to `TaskBoard` by `Entries` (the records without leases, owners and
sessions) and the limits in force; every process, crash, lease and failed transaction is a
step of the board or a stutter. `KeepsTheBoard` is that refinement as a property of a run, and
`ImplementsTheBoard` its proof.

## 3. Runs

| Run | Question | Properties |
|---|---|---|
| `agent_two_processes` | two processes, two tasks, one failed transaction, crashes and shutdowns at any step | `TypeOK`, `NotStartedIsTrue`, `CancellationDecides`, `SupervisedCliRecord`, `ResultIsFinal`, `OwnerKeepsItsTask`, `KeepsTheBoard` |
| `agent_limits` | three tasks, one session continued twice, the user changes the limit while tasks wait and run | `StartsInOrderWithinLimit`, `SessionExclusive` |
| `agent_liveness` | every accepted task ends | `TasksEnd` |
| `gateway_slots` | two requests of one session share two keys with an rpm and a concurrency limit of one | `TypeOK`, `SlotsAreAccounted`, `WithinLimits`, `NoLostWakeup`, `EveryCandidateOnce`, `FailsOnlyAfterAll`, `SessionKeepsItsKey` |
| `gateway_health` | two providers, one an official login, all kinds of failure, rotation; a key is replaced or a provider reset meanwhile | `RefusedOnlyWhenCooling`, `SlotsAreAccounted` |
| `gateway_liveness` | two requests compete for one slot | `RequestsEnd` |
| `journal_rollback` | a sync over rows, session files and the global state; one failing operation, crashes at any step, recoveries at any time, one write of another program | `TypeOK`, `RolledBackIsUndone`, `IntentBeforeWrite`, `ConflictsHaveACause`, `RollbackSparesOthers` |
| `mobile_relay` | three connections reconnect in two rooms while every token expires | `TypeOK`, `NewestHasTheRole`, `RolesAreHeldByPeers`, `ConnectionsAreCounted`, `EmptyRoomsHaveExpired`, `NoReplay` |
| `connect_messages` | two messages, resets and overrides from three sides, a tool whose load and save a reset may come between, failed writes, one end of the loop, one batch sent twice | `TypeOK`, `ResetIsHonoured`, `ResetOnce`, `OneTurnPerMessage`, `OnlyAnEndLosesMessages`, `ResetClearsOverrides` |
| `connect_agent` | two threads rewrite, refresh and restore two files with a failure or crash and an edit in between | `TypeOK`, `WayBackIsArchived`, `NothingArchivedIsHome` |
| `gateway_replaced_key` (violation) | a key is replaced while a request runs with it | `ConcurrencyRespected` |
| `connect_repointed` (violation) | the user moves an agent elsewhere after an exit | `RepointedIsLeftAlone` |

Each property has a mutant (an operator beside the definition it replaces, marked
"Mutant") that breaks it: a dropped guard, an off-by-one, a missing release.

### Bounds

* Agents: one agent, since tasks of different agents meet only in the list and each
  agent's queue is its own; two or three tasks suffice for "ahead of", "sharing a
  session" and "beyond the limit"; leases of one or two units distinguish "young" from
  "expired"; one failed transaction per behaviour reaches each error path. `TasksEnd` is
  checked with one, and with workers that give up after one failed poll: a worker that gives up and
  cannot record it needs two failures, and its task may then stay queued. `agent_limits`
  leaves shutdowns, crashes and cancellations to the other runs (`NobodyStopsATask`), so that
  three tasks stay within reach.
* Gateway: two requests that return after every answer (so sequences of any length),
  two keys so that one can be put off while the other is asked, limits of 1, a window
  of two units, cooldowns of one or two units, breakers of two errors (of one in
  `gateway_slots`, where the count does not matter). A third
  provider or key only repeats these relations. `MaxEdits` is 0 or 1. `gateway_slots` has one
  session and no wait for a cooling key, so that the queue, the window and the session's pin
  meet in one run; the waits are in `gateway_health` and `gateway_liveness`. Its queue waits one unit
  only, so that a window that slides while a request sleeps is met by the theorem `NoWakeupIsLost`
  and not by the run. `gateway_health` has one request: slots whose key is replaced under them are
  the matter of `gateway_replaced_key`.
* Agent configuration: two threads, so that rewritings run beside rewritings and restorations
  beside restorations; two files, so that one is written and the other not; three keys: the
  address, one that follows the pool and one of the user's; two versions, two choices, one edit,
  one fault. The run does not look at what comes after a restoration has met a rewriting (`Apart`:
  both properties are about the time before), begins with files in which the user chose alike
  (`Alike`), and lets only one operation run at a time once there have been both an edit and a fault
  (`OneByOne`). `connect_repointed` has one thread, two edits and two faults.
* Mobile relay: three connections, so that two can follow one another in a role beside a peer in
  the other; two rooms, two nonces, tables of one room and two nonces, so that each limit is met;
  tokens that live two units and a clock that stops at `MaxTime`, after all have expired (which is
  why deadlock is not an error there). `OneForgery` gives
  every forged registration the same role and expiry, as all are refused without a trace.
* WeChat connection: two messages and a list of one mark, so that the second message forgets the
  mark of the first; two resets, so that one may fall between the two files of the other, or
  between the load and the save of a tool; one repeated batch, two failed writes and one end of
  the loop; two halves of the overrides, which are symmetric. `FewOthers` admits one message that
  begins neither a turn nor a reset.
* Journal: two rows, one there at first, so that a sync can insert, remove and set; two
  columns, so that one can be changed by others and the other by the sync; two transactions,
  so that a row can be changed twice; two session files, so that the second can fail after the
  first. `SmallSync` keeps a sync to three files and transactions together, of whatever kinds.
  One foreign write and one failed operation per behaviour; crashes are not bounded. A sync
  that has ended may rest for ever, so deadlock is not an error there. One sync per behaviour:
  the next one has a journal of its own and begins only when this one is finished.
* `MaxHint`, `MaxDbErrors`, `MaxEdits`, `MaxTasks`, `MaxEntries`, `MaxOthers`, `MaxFaults`,
  `MaxTime`, `MaxMessages`, `MaxResets`, `MaxRepeats`, `MaxEnds` are the bounds that the code does
  not have; every other constant is one of its own with a smaller value.

### Fairness

`AgentCollaboration!Fairness`: steps of a living worker, the end of a CLI (its
deadline, `supervise`), time, and somebody reading the store. No failing step, no
submission, no cancellation is fair. `UserRests` says that the user does not cancel a lost
task for ever: each cancellation of a running task renews its lease (mod.rs:773).
`GatewayPipeline!Fairness`: time, the runtime polling a future that can go on, and the end of
an attempt (`send_upstream_request_with_header_timeout`). Forwarding an answer may last for ever,
and no client must hang up.

The other models state no fairness: what they promise is safety.

## 4. Proofs

Every theorem is for all values of the constants that satisfy the assumptions named in the
module; none has an assumption of its own, except that two of `GatewayProofs` are about the time
before the user's first edit.

**Agents** (`AgentCollaborationProofs`, `AgentBoardProofs`; `StoreAssumption`,
`CollaborationAssumption`): `TypeCorrect`, `StaysConsistent`, `NotStartedIsNeverALie`,
`CancellationWins`, `SupervisionIsRecorded`, `SessionsAreExclusive` (invariants), `ResultsAreFinal`,
`StartsAreOrdered`, `OwnersKeepTheirTasks` (action properties), `ImplementsTheBoard` (refinement).
`NotStartedIsTrue` is not inductive: whether a record may say "not started" depends on what the
worker remembers when it is stopped, so the invariant `IInv == TypeOK /\ RecordsHold /\
WorkersInStep` adds what each record promises by itself (`RecordsHold`: a cancelled task ends as
cancelled, "not started" only in failed records) and how worker, CLI and record relate
(`WorkersInStep`: launched is set before the CLI can exist, a started task has left the queue).
`AgentStoreProofs` shows once what each transaction can do to one task (`ExpireStep` and its like);
`WhatChangesTheList` says that every step changes the list by one of these, and the action
properties and the refinement follow from it. Sessions need one more invariant: a task that
continues another names its session (`SInv == SessionExclusive /\ SessionNamed`).

**Gateway** (`GatewayProofs`; `PoolAssumption`, `PipelineAssumption`): all properties of its two
safety runs, in two arguments.

*Slots* (`SlotsStayAccounted`, `LimitsHold`). Every step is, for the slots, one of six effects: it
keeps them, clears or ages the counters, takes a slot, gives one back or takes one back whose request
was turned away (`WhatHappensToSlots`). That the window is respected needs a relation between requests
and window entries: each young slot holder has an entry of the same age of its own (`Counted`, an
injection). An edit removes the counters of a key, so the limits are proved only for the time before
the first edit; `gateway_replaced_key` shows that they do not survive it.

*Requests* (`TypeCorrect`, `CandidatesStayOnce`, `AllFailedIt`, `OnlyCoolingRefuses`,
`SessionsKeepTheirKeys`, `NoWakeupIsLost`). Every step lets one request make one of thirteen moves,
wakes those that listen, or makes all of them older (`WhatBecomesOfRequests`); what follows is shown
move by move.
`EveryCandidateOnce` is nearly inductive: the invariant says that the keys still to try, put off, asked
and tried are pairwise different and make up the plan (`OnceEach`), and `FailsOnlyAfterAll` follows
from it at the two steps that fail a request. `RefusedOnlyWhenCooling` is a fact about the plan: it is
empty only if no key is ready. `SessionKeepsItsKey` needs to know where the pinned key is: until it has
been asked it comes before every other key of its provider, among those to try and among those put off
(`Leading`), so whoever answers in its place either found it put off, and does not take the
session, or came after it had failed. `NoLostWakeup` needs why a request sleeps: each key it put off is
full, and one whose window is full keeps so for longer than the request sleeps (`Stays`); between its
look at the keys and its sleep only the clock, a start with a key and a release change the
counters (`WhoUses`), and a release wakes whoever has registered. An edit frees slots without waking
anybody, so this too is proved for the time before the first edit.

**Agent configuration** (`AgentConnectProofs`; `ConnectAssumption`): `TypeCorrect`,
`WaysBackAreArchived` and `UserSettingsComeBack`, for any number of threads. The two properties speak
of the time before a restoration meets a rewriting, and the invariant is
`IInv == TypeInv /\ HomeIsChosen /\ (~mixed => Apart)`. Its heart is what a true record of a file is
(`TrueOf`): it has the address the file had before the connection, and the user's value of each managed
key that is not contested. An archive has a true record of every file, and without one every file is as
the user wants it (`ArchiveIsTrue`); the keys that are not the gateway's always are (`OthersAreHome`).
A rewriting keeps that, beside others: from its reading of the files to
its last write there is an archive, or what it has read is what a first record needs, so the archives
that two threads save one over the other are both true (`RewritingIsArchived`). A restoration works on a copy
that stays true, and what it has put back stays right until the archive goes (`RestoringIsTrue`).

**Mobile relay** (`MobileRelayProofs`; `RelayAssumption`, `NoRoomAssumption`): all six properties of
the run. The invariant adds to them that a displaced connection is still there until it has left
(`DisplacedAreThere`) and that an accepted token's nonce is kept as long as the token lives
(`AcceptedAreUsed`).

**WeChat connection** (`WeixinConnectProofs`; `ConnectAssumption`): all six properties of the run.
An override is as new as the last reset on file, except for the resets that overtook the tool that is
saving it. For resets, the two files agree in one way at all times: a saved thread that is older than the last
reset has that reset still on file and not noted as carried out (`ResetOnFile`), a reset asked for
after the options were loaded is still on file when an older one is taken off
(`LaterResetIsOnFile`), and that happens only when the new thread is in both copies
(`ThreadIsNew`). For messages, a message that had a turn is marked in both copies or at hand, unless
its mark is among the lost ones (`TurnsAreMarked`), and is behind the saved cursor (`TurnsAreBehind`),
which is saved with the thread just before the turn begins.

**Journal** (`SyncJournalProofs`; `JournalAssumption`, `NoRowAssumption`, `NoJournalAssumption`): all
five properties of the run, in layers that rest on one another.
`TypeCorrect` and `SparesOthers` (`RollbackSparesOthers`) need only what the entries of any journal
hold, in memory, on disk and after a recovery (`IInv`): what an entry inserted or changed has values
that only a sync writes, in place of values that it does not (`OurChange`), and the process is always
at an entry the journal has (`Placed`).
`SavesIntent` (`IntentBeforeWrite`, which leaves out journals that say "complete" and rows that others
have removed) is about the disk, but the rollback works on the memory, which may
be ahead of it or behind it; so both journals are shown to be able to undo every cell and removal of
the sync (`RowsKept`). The hard case is a removed row that is put back: it brings back cells that an
earlier entry of the sync had set, so that entry must not be crossed off yet (`Backs`). For the files
the argument goes by the stage, since a failed rewrite restores the session files without the journal
(`FilesKept`).
`RolledBack` (`RolledBackIsUndone`) adds what a rollback without errors has crossed off already, in
memory, before it may say so (`Done`); rows that others have removed are left out of it.
`ConflictsAreOthers` (`ConflictsHaveACause`) is about quiet behaviours, without writes of others and
without faults, crashes included: there the images of a row form a chain that ends at the row as it is
and is crossed off from its end (`CalmRows`), and each file is at one end of its only image
(`CalmFiles`), so what the rollback looks at is always what it expects.

Only model-checked: the two liveness properties, `TasksEnd` and `RequestsEnd`. Temporal reasoning under
fairness, which needs ENABLED, is beyond the provers used here. Every invariant and action property of
the passing runs is a theorem; where the theorem has a condition (before the first edit) the run's
instance meets it.

## 5. Findings

Runs with the expectation "violation"; each quotes the line it contradicts.

1. `gateway_replaced_key`: replacing a key under a running request lets one more request
   than the limit run with the new text (key_pool.rs:614).
2. `connect_repointed`: the address noted when an agent is restored at an exit is never there for the
   generic agents, so the next start connects an agent again that the user has moved elsewhere
   meanwhile (gateway/agents/connect.rs:169, apply.rs:2116).

Smaller disagreements, and those without a run, are hazards with a note:

* agents: a supervisor that stalls beyond the 30 s worker lease (a sleeping machine) loses its task
  while its CLI runs, and the next CLI starts beside it (mod.rs:994 against mod.rs:59); one failed
  transaction at shutdown turns "never started, submit again" into "interrupted, results unknown"
  (executor.rs:397); a worker that fails twice in a row blocks its queue while its process lives
  (executor.rs:336);
* gateway: the success of an older request ends the cooldown a Retry-After asked for (key_pool.rs:573),
  requests queued for a replaced key are not woken (key_pool.rs:605), keys behind an open breaker are
  not ordered for the session (route.rs:1277);
* agent configuration: an agent that another tool took over and that is connected anew keeps its old
  archive (files.rs:632); after a first write that failed, the next start takes the agent as taken over
  (apply.rs:2218 against :2165); a start or a refresh beside a disconnection leaves files on the
  gateway without an archive, since nothing excludes the two (apply.rs:2243: without the condition
  `~mixed` TLC violates both invariants of `connect_agent`, with two threads and nothing else);
* WeChat connection: a reset by the manager between the load and the save of the tool's "set" is
  carried out, but the overrides that it cleared come back (app_server.rs:815 against
  controls.rs:126, where a reset clears them); `ResetClearsOverrides` names exactly this exception;
* journal: when saving "complete" fails, the rollback that follows saves that state with every entry it
  undoes; if it is interrupted, the journal counts as finished while half of the sync is left
  (sync_journal.rs:330 against provider_sync.rs:6551); a rollback that could not undo a later entry
  crosses earlier ones off, so that a row of the sync may come back in a later recovery
  (sync_journal.rs:426);
* relay: a registration in the last second of its token may leave an empty room behind, which nobody
  removes (only `unregister_peer` would) and which the room's later tokens never match (main.rs:522).

## 6. Hazards

PROJECT.json lists what can go wrong in this code and which property would catch it; those
without a property say what is missing.

## 7. Plan

What is left, in this order; each with an MC module, runs and mutants.

1. What the theorems still leave open: an abstract specification of the sync (it is whole, undone, or
   reported) that `SyncJournal` implements, and one of the gateway's limit (at most so many requests
   of a key at a time, each released once) that `GatewayPipeline` implements.
2. What an edit may break at most: the limits and the wake-ups of the gateway after the first edit, for
   the keys that have not been edited.
3. `InboxLease` and the outbound queue of Connect.
4. The native agents Claude, Codex and Grok beside the generic ones, and what the code still promises of
   them once a restoration has met a rewriting.
5. `RelayRotation`, the switch of configurations with its roll back, `MultiWorker`, the takeover state
   machine.

## 8. Not modelled, and why

Formats and conversions (protocol inbound/outbound modules, proxy, catalogs), user interface,
appearance, platform automation (launcher, computer use, native browser, window handling),
downloads and installers: sequential code over data or operating system calls, with no
interleaving that TLC could add to a test. Extensions that replace built-in stages of the
gateway are left out of `GatewayPipeline`; so are reordering of candidates by context window
and by group strategy (a fixed order of providers), changes of limits while requests
run, deletion and addition of keys, and the search endpoint, which takes slots without
queueing. `SyncJournal` leaves out the planning of a sync, the statements of its transactions,
the check of paths in `load_for_recovery`, and modification times. What `AgentConnect`,
`MobileRelay` and `WeixinConnect` leave out is named with their state in section 2. Pruning of old results and the texts of tasks are left out of `AgentStore`.
