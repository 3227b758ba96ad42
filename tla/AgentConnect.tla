------------------------------- MODULE AgentConnect -------------------------------
(***************************************************************************)
(* How one agent is connected to the gateway and disconnected from it:     *)
(* the generic agents of gateway/agents, whose configuration files the     *)
(* gateway rewrites and later restores (gateway/agents/connect.rs,         *)
(* gateway/agents/files.rs, gateway/restore.rs, and the operations of      *)
(* gateway/apply.rs that call them).                                       *)
(*                                                                         *)
(* Before it rewrites a file the gateway archives the file's text and the  *)
(* keys it changes; a disconnection, an exit or an update puts those keys  *)
(* back and deletes the archive.  The user and other tools edit the same   *)
(* files at any time, a write may fail, and the program may vanish between *)
(* any two writes.  An operation runs in a thread: the commands of the     *)
(* user, the start-up and the refresh after a change of the pool are not   *)
(* excluded from one another, and what one has read of the files or of the *)
(* archive may be old when it writes.                                      *)
(*                                                                         *)
(* A file is a function from its keys to values; its format, and the files *)
(* that the gateway writes as a whole, are left out.                       *)
(***************************************************************************)
EXTENDS Naturals, Functions

CONSTANTS
    Threads,     \* threads of the manager that run these operations
    Files,       \* the files that the agent's write function edits
    ConfigFile,  \* AgentSpec.config_path
    Keys,        \* the keys of a file, down to two levels
    Managed,     \* those that the gateway writes
    Url,         \* the one with the gateway's address
    Versions,    \* what the pool's models may be
    Choices,     \* what the user may choose for a key
    MaxEdits,    \* bound on the edits by the user and by other tools
    MaxFaults    \* bound on failed writes and crashes

ASSUME ConnectAssumption ==
    /\ ConfigFile \in Files
    /\ Managed \subseteq Keys
    /\ Url \in Managed
    /\ MaxEdits \in Nat
    /\ MaxFaults \in Nat

VARIABLES
    live,       \* the files as the agent reads them
    stash,      \* the archive on disk: a record of each file in it; empty when deleted
    binding,    \* the agent's binding in gateway.json: "none", "on" or "off"
    restored,   \* restored_at_exit in gateway.json
    pool,       \* the version of the pool's models
    app,        \* "up" or "down"
    op,         \* the operation that each thread runs
    home,       \* history: what the user has last set for each key
    contested,  \* history: keys of which that cannot be said: edited while the gateway was
                \* about to change them, or left with a value of the gateway by a takeover
    mixed,      \* history: a rewriting and a restoration have been under way at once
    repointed,  \* history: the user moved the agent elsewhere after it was restored
    edits, faults

vars == <<live, stash, binding, restored, pool, app, op, home, contested, mixed, repointed,
          edits, faults>>
disk == <<live, stash, binding, restored>>
histories == <<home, contested, mixed, repointed>>
-----------------------------------------------------------------------------
Gateway(v) == <<"gateway", v>>
Chosen(c)  == <<"user", c>>
Value      == {Gateway(v) : v \in Versions \cup {0}} \cup {Chosen(c) : c \in Choices}
Content    == [Keys -> Value]

IsChosen(value) == \E c \in Choices : value = Chosen(c)

\* FileStash: the text before the connection, and the keys changed since.
Record == [before : Content, changed : SUBSET Managed]

\* FileChange: the text that was read, and the one to be written.
Change == [before : Content, after : Content]

\* A function from some of the files.
IsPartial(fn, S) == \E F \in SUBSET Files : fn \in [F -> S]
Nothing == [f \in {} |-> f]

Kind  == {"none", "enable", "disable", "exit", "reapply", "refresh"}
Stage == {"idle", "checking", "begun", "planned", "archiving", "writing",
          "decided", "restoring", "restored", "forgetting", "takenOver"}

\* plan: the changes that are not yet written; saved: the archive in memory.
IsOp(o) ==
    /\ o = [kind |-> o.kind, stage |-> o.stage, plan |-> o.plan, saved |-> o.saved]
    /\ o.kind \in Kind /\ o.stage \in Stage
    /\ IsPartial(o.plan, Change) /\ IsPartial(o.saved, Record)

NoOp == [kind |-> "none", stage |-> "idle", plan |-> Nothing, saved |-> Nothing]

At(t, stage)   == op[t].stage = stage
Become(t, new) == op' = [op EXCEPT ![t] = new]
Ready(t)       == app = "up" /\ At(t, "idle")

Fault == faults < MaxFaults /\ faults' = faults + 1

\* From the reading of the files to the last write; from the decision, or the reading of
\* the archive, to its deletion.
Rewriting(t) == op[t].plan # Nothing
Restoring(t) == op[t].stage \in {"restoring", "forgetting"}
-----------------------------------------------------------------------------
(* What the code reads off the disk. *)

IsArchived(f, k) == f \in DOMAIN stash /\ k \in stash[f].changed

Mentions(f) == live[f][Url] = Gateway(0)
Recorded    == DOMAIN stash # {}
PointsAtGateway == \E f \in DOMAIN stash \cup {ConfigFile} : Mentions(f)

\* drift: connected by the records, but the files point elsewhere.
TakenOver == Recorded /\ ~PointsAtGateway

\* What the gateway writes into a file: its address, which stays, and settings
\* that follow the pool.
Wired(f) ==
    [k \in Keys |-> IF k = Url THEN Gateway(0)
                    ELSE IF k \in Managed THEN Gateway(pool) ELSE live[f][k]]

Changes == {f \in Files : Wired(f) # live[f]}

\* Mutant: the user's own settings of a rewritten file are recorded too.
ChangedKeysAll(change) == Keys
ChangedKeys(change) == {k \in Keys : change.after[k] # change.before[k]}

\* Mutant: the text is taken anew whenever a file is rewritten.
RecordingAnew(f, change) == [before |-> change.before, changed |-> ChangedKeys(change)]

\* AgentStash::record: the text of a file is taken when it is first met; later
\* the changed keys are added.
Recording(f, change) ==
    IF f \in DOMAIN stash
    THEN [stash[f] EXCEPT !.changed = @ \cup ChangedKeys(change)]
    ELSE [before |-> change.before, changed |-> ChangedKeys(change)]

Archived(plan) ==
    [f \in DOMAIN stash \cup DOMAIN plan |->
        IF f \in DOMAIN plan THEN Recording(f, plan[f]) ELSE stash[f]]

\* Mutant: the archived text is written back as it was.
RestoredWhole(record, content) == record.before

\* restored_text: the changed keys as they were, the others as they are.
Restored(record, content) ==
    [k \in Keys |-> IF k \in record.changed THEN record.before[k] ELSE content[k]]
-----------------------------------------------------------------------------
Init ==
    /\ live \in [Files -> {[k \in Keys |-> Chosen(c)] : c \in Choices}]
    /\ stash = Nothing
    /\ binding = "none"
    /\ restored = FALSE
    /\ pool \in Versions
    /\ app = "up"
    /\ op = [t \in Threads |-> NoOp]
    /\ home = live
    /\ contested = {}
    /\ mixed = FALSE
    /\ repointed = FALSE
    /\ edits = 0
    /\ faults = 0
-----------------------------------------------------------------------------
(* Operations begin. *)

\* enable_binding: the user connects the agent, for the first time or anew.
Enable(t) ==
    /\ Ready(t)
    /\ Become(t, [NoOp EXCEPT !.kind = "enable", !.stage = "begun"])
    /\ repointed' = FALSE
    /\ UNCHANGED <<disk, pool, app, home, contested, mixed, edits, faults>>

\* The pool changes, and refresh_enabled follows.
ChangePool(t) ==
    /\ Ready(t)
    /\ \E v \in Versions \ {pool} : pool' = v
    /\ Become(t, [NoOp EXCEPT !.kind = "refresh", !.stage = "checking"])
    /\ UNCHANGED <<disk, app, histories, edits, faults>>

\* start_from_saved_state, at a start in a thread of its own: all bindings are
\* written anew if the agents were restored or the user wants them restored at
\* every exit (an option that may change at any time), and those with another
\* port otherwise.  It gives up if the gateway cannot listen.
StartFromSavedState(t) ==
    /\ app = "down" /\ app' = "up"
    /\ \/ \E kind \in {"reapply", "refresh"} :
            /\ restored => kind = "reapply"
            /\ Become(t, [NoOp EXCEPT !.kind = kind, !.stage = "checking"])
       \/ UNCHANGED op
    /\ UNCHANGED <<disk, pool, histories, edits, faults>>

\* undo_restore_for_update: the installer did not start.
UndoRestore(t) ==
    /\ Ready(t)
    /\ restored
    /\ Become(t, [NoOp EXCEPT !.kind = "reapply", !.stage = "checking"])
    /\ UNCHANGED <<disk, pool, app, histories, edits, faults>>

\* reapply_binding, refresh_enabled, reapply_if_port_changed: an agent that is
\* not connected, or was taken over, is passed over.  The comparison with
\* restored_endpoint never stops these agents: without an archive their drift is
\* none, so no endpoint was noted when they were restored.
PassOver(t) == binding # "on" \/ TakenOver

\* The mark goes when every enabled agent has been written anew; there may be others,
\* of which one has failed, and without an enabled one nothing is done.
MarkMayGo(t) == restored' = restored \/ (op[t].kind = "reapply" /\ restored' = FALSE)

Check(t) ==
    /\ At(t, "checking")
    /\ IF PassOver(t)
       THEN Become(t, NoOp) /\ MarkMayGo(t)
       ELSE Become(t, [op[t] EXCEPT !.stage = "begun"]) /\ UNCHANGED restored
    /\ UNCHANGED <<live, stash, binding, pool, app, histories, edits, faults>>
-----------------------------------------------------------------------------
(* connect::write: the files are read, the changes are added to the        *)
(* archive, and the files are rewritten one by one as they were read.      *)

Plan(t) ==
    /\ At(t, "begun")
    /\ IF Changes = {}
       THEN Become(t, [op[t] EXCEPT !.stage = "writing"]) /\ UNCHANGED mixed
       ELSE /\ Become(t, [op[t] EXCEPT
                            !.stage = "planned",
                            !.plan = [f \in Changes |-> [before |-> live[f], after |-> Wired(f)]]])
            /\ mixed' = (mixed \/ \E u \in Threads : Restoring(u))
    /\ UNCHANGED <<disk, pool, app, home, contested, repointed, edits, faults>>

LoadArchive(t) ==
    /\ At(t, "planned")
    /\ Become(t, [op[t] EXCEPT !.stage = "archiving", !.saved = Archived(op[t].plan)])
    /\ UNCHANGED <<disk, pool, app, histories, edits, faults>>

SaveArchive(t) ==
    /\ At(t, "archiving")
    /\ stash' = op[t].saved
    /\ Become(t, [op[t] EXCEPT !.stage = "writing", !.saved = Nothing])
    /\ UNCHANGED <<live, binding, restored, pool, app, histories, edits, faults>>

WriteFile(t) ==
    /\ At(t, "writing")
    /\ \E f \in DOMAIN op[t].plan :
        /\ live' = [live EXCEPT ![f] = op[t].plan[f].after]
        /\ Become(t, [op[t] EXCEPT !.plan = Restrict(@, DOMAIN @ \ {f})])
    /\ UNCHANGED <<stash, binding, restored, pool, app, histories, edits, faults>>

\* The binding is saved last, as the operation knew it.
Connected(t) ==
    /\ At(t, "writing")
    /\ ~Rewriting(t)
    /\ Become(t, NoOp)
    /\ binding' = IF op[t].kind = "refresh" THEN binding ELSE "on"
    /\ MarkMayGo(t)
    /\ UNCHANGED <<live, stash, pool, app, histories, edits, faults>>
-----------------------------------------------------------------------------
(* restore_agent, for a disconnection, an exit or an update. *)

MayDisable == binding # "none" \/ PointsAtGateway
MayExit    == binding = "on"

\* The archive is deleted, or that fails, which is not noticed.
RemoveStash ==
    \/ stash' = Nothing /\ UNCHANGED faults
    \/ UNCHANGED stash /\ Fault

\* If the agent was taken over the files are to stay; otherwise they are restored.
BeginRestore(t) ==
    /\ Ready(t)
    /\ \E kind \in {"disable", "exit"} :
        /\ IF kind = "exit" THEN MayExit ELSE MayDisable
        /\ Become(t, [NoOp EXCEPT !.kind = kind,
                                  !.stage = IF TakenOver THEN "forgetting" ELSE "decided"])
    /\ mixed' = (mixed \/ (TakenOver /\ \E u \in Threads : Rewriting(u)))
    /\ UNCHANGED <<disk, pool, app, home, contested, repointed, edits, faults>>

\* connect::forget.  From here on the files are the user's as they are: a key that the
\* user has changed is at home with its new value; one that still has a value of the
\* gateway, or that a restoration is about to change, is nobody's.
Forget(t) ==
    /\ At(t, "forgetting")
    /\ RemoveStash
    /\ Become(t, [op[t] EXCEPT !.stage = "takenOver"])
    /\ IF UNCHANGED stash THEN UNCHANGED <<home, contested>>
       ELSE /\ home' = [f \in Files |-> [k \in Keys |->
                          IF IsArchived(f, k) /\ IsChosen(live[f][k])
                          THEN live[f][k] ELSE home[f][k]]]
            /\ contested' = contested \cup
                   {p \in Files \X Keys :
                        /\ IsArchived(p[1], p[2])
                        /\ ~IsChosen(live[p[1]][p[2]]) \/ \E u \in Threads : At(u, "restoring")}
    /\ UNCHANGED <<live, binding, restored, pool, app, mixed, repointed, edits>>

\* connect::restore: the archive is read, and the files are restored one by one.
LoadRecords(t) ==
    /\ At(t, "decided")
    /\ IF Recorded
       THEN /\ Become(t, [op[t] EXCEPT !.stage = "restoring", !.saved = stash])
            /\ mixed' = (mixed \/ \E u \in Threads : Rewriting(u))
       ELSE Become(t, [op[t] EXCEPT !.stage = "restored"]) /\ UNCHANGED mixed
    /\ UNCHANGED <<disk, pool, app, home, contested, repointed, edits, faults>>

RestoreFile(t) ==
    /\ At(t, "restoring")
    /\ \E f \in DOMAIN op[t].saved :
        /\ live' = [live EXCEPT ![f] = Restored(op[t].saved[f], live[f])]
        /\ Become(t, [op[t] EXCEPT !.saved = Restrict(@, DOMAIN @ \ {f})])
    /\ UNCHANGED <<stash, binding, restored, pool, app, histories, edits, faults>>

\* remove_stash, once every file is back.
Unstash(t) ==
    /\ At(t, "restoring")
    /\ op[t].saved = Nothing
    /\ Become(t, [op[t] EXCEPT !.stage = "restored"])
    /\ RemoveStash
    /\ UNCHANGED <<live, binding, restored, pool, app, histories, edits>>

\* disable_binding turns the binding off; an exit leaves it on, to be written
\* anew at the next start, unless the agent was taken over.
Disconnected(t) ==
    /\ At(t, "restored") \/ At(t, "takenOver")
    /\ Become(t, NoOp)
    /\ IF op[t].kind = "exit" /\ At(t, "restored")
       THEN restored' = TRUE /\ UNCHANGED binding
       ELSE /\ binding' = IF binding = "none" THEN "none" ELSE "off"
            /\ UNCHANGED restored
    /\ repointed' = FALSE
    /\ UNCHANGED <<live, stash, pool, app, home, contested, mixed, edits, faults>>
-----------------------------------------------------------------------------
(* Failures, the end of the program, and the other tools. *)

\* A file, the archive or gateway.json cannot be read or written: the operation returns
\* its error.
Fails(t) ==
    /\ ~At(t, "idle")
    /\ Fault
    /\ Become(t, NoOp)
    /\ UNCHANGED <<disk, pool, app, histories, edits>>

Quit ==
    /\ \A t \in Threads : Ready(t)
    /\ app' = "down"
    /\ UNCHANGED <<disk, pool, op, histories, edits, faults>>

Crash ==
    /\ app = "up" /\ app' = "down"
    /\ Fault
    /\ op' = [t \in Threads |-> NoOp]
    /\ UNCHANGED <<disk, pool, histories, edits>>

\* The user, or another tool, sets a key.  One that the gateway has changed
\* will be put back.  An edit may be lost, or come back, if the file is about to be
\* rewritten as it was read, if files are being restored (between the reading and the
\* writing of one, which RestoreFile makes one step), or if the gateway changes the key
\* only later, for the archived text is older.
Edit(f, k, c) ==
    /\ edits < MaxEdits /\ edits' = edits + 1
    /\ live[f][k] # Chosen(c)
    /\ live' = [live EXCEPT ![f][k] = Chosen(c)]
    /\ home' = IF IsArchived(f, k) THEN home
               ELSE [home EXCEPT ![f][k] = Chosen(c)]
    /\ contested' = IF \/ \E t \in Threads : f \in DOMAIN op[t].plan
                       \/ \E t \in Threads : At(t, "restoring")
                       \/ f \in DOMAIN stash /\ k \in Managed \ stash[f].changed
                    THEN contested \cup {<<f, k>>} ELSE contested
    /\ repointed' = (repointed \/ /\ f = ConfigFile /\ k = Url
                                  /\ restored /\ binding = "on"
                                  /\ \A t \in Threads : At(t, "idle"))
    /\ UNCHANGED <<stash, binding, restored, pool, app, op, mixed, faults>>

Operation(t) ==
    \/ Enable(t) \/ ChangePool(t) \/ StartFromSavedState(t) \/ UndoRestore(t)
    \/ Check(t) \/ Plan(t) \/ LoadArchive(t) \/ SaveArchive(t) \/ WriteFile(t) \/ Connected(t)
    \/ BeginRestore(t) \/ Forget(t) \/ LoadRecords(t) \/ RestoreFile(t) \/ Unstash(t)
    \/ Disconnected(t) \/ Fails(t)

Next ==
    \/ \E t \in Threads : Operation(t)
    \/ Quit
    \/ Crash
    \/ \E f \in Files, k \in Keys, c \in Choices : Edit(f, k, c)

Spec == Init /\ [][Next]_vars
-----------------------------------------------------------------------------
(* Properties. *)

\* The type invariant: among others, only keys that the gateway writes are
\* recorded as changed.
TypeOK ==
    /\ live \in [Files -> Content]
    /\ IsPartial(stash, Record)
    /\ binding \in {"none", "on", "off"}
    /\ restored \in BOOLEAN
    /\ pool \in Versions
    /\ app \in {"up", "down"}
    /\ DOMAIN op = Threads /\ \A t \in Threads : IsOp(op[t])
    /\ home \in [Files -> Content]
    /\ contested \subseteq Files \X Keys
    /\ mixed \in BOOLEAN
    /\ repointed \in BOOLEAN
    /\ edits \in 0 .. MaxEdits
    /\ faults \in 0 .. MaxFaults

\* As long as no restoration meets a rewriting: wherever a crash or a failed write stops
\* an operation, and however many rewritings run beside each other, a file that points at
\* the gateway is in the archive with the address it had before (connect.rs: archive
\* first, change the configuration then).  No file is stranded on the gateway, nor the
\* gateway's address taken for the user's.  Nothing in the code keeps a restoration from
\* meeting a rewriting, and once it does this is false.
WayBackIsArchived ==
    ~mixed => \A f \in Files : Mentions(f) =>
        /\ f \in DOMAIN stash
        /\ Url \in stash[f].changed
        /\ stash[f].before[Url] # Gateway(0)

\* As long as no restoration meets a rewriting: once nothing is archived, every file says
\* what the user last chose.  What the gateway changed is back as it was, through any
\* number of rewrites, crashes, half-finished restorations and new connections, and edits
\* made meanwhile to other keys are still there.  It is not said of contested keys; among
\* them are those that a takeover leaves with a value of the gateway.
NothingArchivedIsHome ==
    ~mixed /\ stash = Nothing =>
        \A f \in Files, k \in Keys : <<f, k>> \in contested \/ live[f][k] = home[f][k]

\* restored_endpoint (store.rs): when the user has moved the agent elsewhere
\* after an exit restored it, the next start does not connect it again.
RepointedIsLeftAlone ==
    ~(repointed /\ \E t \in Threads : op[t].kind = "reapply" /\ At(t, "writing"))
=============================================================================
