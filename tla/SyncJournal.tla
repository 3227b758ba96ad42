------------------------------ MODULE SyncJournal ------------------------------
(***************************************************************************)
(* The provider sync of codex-plus-data and its recovery journal           *)
(* (sync_journal.rs, provider_sync.rs).  A sync rewrites session files,    *)
(* then changes rows of databases in several transactions, then the file   *)
(* of the global state and its backup.  The journal holds the images       *)
(* before and after, so that a failure, or a crash and a later recovery,   *)
(* can undo what the sync did.  The desktop application writes the same    *)
(* rows and files meanwhile, whenever no transaction locks the database.   *)
(*                                                                         *)
(* Which rows a transaction changes, and how, is any choice, but that no   *)
(* cell is set twice (one transaction of each database sets a column).     *)
(* The sync writes values of its own (the target provider, normalized      *)
(* paths), which nobody else writes: a value tells who wrote it.  The      *)
(* state of a single entry is left out, since nothing reads it.  A crash   *)
(* loses memory, not files.                                                *)
(***************************************************************************)
EXTENDS Integers, Sequences, FiniteSets, SequencesExt

CONSTANTS
    Rows, Columns,  \* rows of all databases, by identity
    OldRows,        \* the rows there are at first
    Rollouts,       \* session files, in the order they are rewritten
    GlobalState, GlobalBackup,  \* the file of the global state and its .bak
    SyncValues,     \* what a sync writes into cells and files
    OtherValues,    \* what others write, the first values included
    Base,           \* the value of everything at first
    NoRow, NoFile, NoJournal,
    MaxEntries,     \* bound on the transactions of a sync
    MaxOthers,      \* bound on the writes of others
    MaxFaults       \* bound on the operations that fail

ASSUME JournalAssumption ==
    /\ OldRows \subseteq Rows
    /\ Rollouts \in Seq(ToSet(Rollouts)) /\ IsInjective(Rollouts)
    /\ GlobalState # GlobalBackup /\ {GlobalState, GlobalBackup} \cap ToSet(Rollouts) = {}
    /\ SyncValues \cap OtherValues = {} /\ Base \in OtherValues
    /\ NoFile \notin SyncValues \cup OtherValues
    /\ {MaxEntries, MaxOthers, MaxFaults} \subseteq Nat

VARIABLES
    db,       \* the row of each identity
    removed,  \* history: rows that are absent because a sync removed them
    dropped,  \* history: rows that others have removed
    fs,       \* the content of each file
    disk,     \* the journal on disk
    mem,      \* the journal in memory
    sync,     \* where the process that syncs or recovers stands
    others,   \* writes of others so far
    faults    \* failed operations so far

vars == <<db, removed, dropped, fs, disk, mem, sync, others, faults>>
-----------------------------------------------------------------------------
Values == SyncValues \cup OtherValues
Files  == ToSet(Rollouts) \cup {GlobalState, GlobalBackup}
Row    == [Columns -> Values]

ASSUME NoRowAssumption == NoRow \notin Row

Change     == [before : Row \cup {NoRow}, after : Row \cup {NoRow}, restored : BOOLEAN]
\* applied is known of the session files only; before is NoFile when there was none.
FileChange == [path : Files, before : Values \cup {NoFile}, after : SyncValues,
               applied : {"unknown", "yes", "no"}, restored : BOOLEAN]
State      == {"prepared", "complete", "rolled_back", "partial_failure"}

\* files has the session files first, so that it is undone from its end.
Journal    == [state : State, entries : Seq(UNION {[rs -> Change] : rs \in SUBSET Rows}),
               files : Seq(FileChange)]

ASSUME NoJournalAssumption == NoJournal \notin Journal

NewJournal == [state |-> "prepared", entries |-> << >>, files |-> << >>]

Undoing == {"undoEntries", "keepEntry", "undoFiles", "replaceFile", "keepUndone"}
Stage   == Undoing \cup {"off", "new", "rewrite", "rename", "restore", "ready", "intent",
                         "committed", "prepareBackup", "check", "write", "writeBackup", "complete"}

\* at counts files or entries; done is the set of the session files rewritten;
\* errs tells whether this rollback met an error.
Process == [stage : Stage, at : Nat, done : SUBSET Files, errs : BOOLEAN]
Off     == [stage |-> "off", at |-> 0, done |-> {}, errs |-> FALSE]

Init ==
    /\ db = [r \in Rows |-> IF r \in OldRows THEN [c \in Columns |-> Base] ELSE NoRow]
    /\ removed = {} /\ dropped = {}
    /\ fs \in [Files -> {Base, NoFile}]
    /\ \A f \in Files \ {GlobalBackup} : fs[f] = Base
    /\ disk = NoJournal /\ mem = NoJournal
    /\ sync = Off
    /\ others = 0 /\ faults = 0
-----------------------------------------------------------------------------
At(stage)   == sync.stage = stage
GoTo(stage) == sync' = [sync EXCEPT !.stage = stage]
Fault       == faults < MaxFaults /\ faults' = faults + 1

\* A failed step of the sync: undo what the journal in memory tells.
Fails(journal) ==
    sync' = [Off EXCEPT !.stage = "undoEntries", !.at = Len(journal.entries)]

\* Save the journal and go on to a stage.  A failure may come after the new
\* journal has replaced the old one (the directory cannot be flushed).
PersistThen(journal, next) ==
    /\ mem' = journal
    /\ \/ disk' = journal /\ sync' = next /\ UNCHANGED faults
       \/ Fault /\ disk' \in {disk, journal} /\ Fails(journal)

\* The same during a rollback, which notes the failure and goes on.
PersistUndoThen(journal, next) ==
    /\ mem' = journal
    /\ \/ disk' = journal /\ sync' = next /\ UNCHANGED faults
       \/ Fault /\ disk' \in {disk, journal} /\ sync' = [next EXCEPT !.errs = TRUE]

FileEntry(f, before, value) ==
    [path |-> f, before |-> before, after |-> value, applied |-> "unknown", restored |-> FALSE]
-----------------------------------------------------------------------------
(* A sync. *)

\* SyncJournal::new; a failure ends the sync before its first write.
NewSync ==
    /\ At("off")
    /\ disk = NoJournal
    /\ \/ disk' = NewJournal /\ mem' = NewJournal /\ GoTo("new") /\ UNCHANGED faults
       \/ Fault /\ disk' \in {disk, NewJournal} /\ UNCHANGED <<mem, sync>>
    /\ UNCHANGED <<db, removed, dropped, fs, others>>

\* The session files of a set, in their order.
InOrder(eligible) ==
    {paths \in SetToSeqs(eligible) :
        \A i, j \in DOMAIN paths, k, l \in DOMAIN Rollouts :
            i < j /\ paths[i] = Rollouts[k] /\ paths[j] = Rollouts[l] => k < l}

\* Session files that are locked or have changed since the plan are left out.  A
\* failure here returns at once, without a rollback.
PrepareRollouts ==
    /\ At("new")
    /\ \A f \in ToSet(Rollouts) : fs[f] # NoFile
    /\ \E eligible \in SUBSET ToSet(Rollouts), v \in SyncValues :
       \E paths \in InOrder(eligible) :
          LET journal == [mem EXCEPT !.files =
                             [i \in DOMAIN paths |-> FileEntry(paths[i], fs[paths[i]], v)]]
          IN
          \/ /\ mem' = journal /\ disk' = journal
             /\ sync' = [Off EXCEPT !.stage = "rewrite", !.at = 1]
             /\ UNCHANGED faults
          \/ Fault /\ disk' \in {disk, journal} /\ mem' = NoJournal /\ sync' = Off
    /\ UNCHANGED <<db, removed, dropped, fs, others>>

RolloutMissing ==
    /\ At("new")
    /\ \E f \in ToSet(Rollouts) : fs[f] = NoFile
    /\ mem' = NoJournal /\ sync' = Off
    /\ UNCHANGED <<db, removed, dropped, fs, disk, others, faults>>

\* A session file that changed since, or is locked, is skipped.
RewriteRollout ==
    /\ At("rewrite")
    /\ sync.at <= Len(mem.files)
    /\ LET current == fs[mem.files[sync.at].path] IN
       \/ current = mem.files[sync.at].before /\ GoTo("rename") /\ UNCHANGED faults
       \/ current # NoFile /\ sync' = [sync EXCEPT !.at = @ + 1] /\ UNCHANGED faults
       \/ current = NoFile /\ GoTo("restore") /\ UNCHANGED faults
       \/ Fault /\ GoTo("restore")
    /\ UNCHANGED <<db, removed, dropped, fs, disk, mem, others>>

\* Between the last look and the rename others may write; nobody notices.
RenameRollout ==
    /\ At("rename")
    /\ LET f == mem.files[sync.at].path IN
       /\ fs' = [fs EXCEPT ![f] = mem.files[sync.at].after]
       /\ sync' = [sync EXCEPT !.stage = "rewrite", !.at = @ + 1, !.done = @ \cup {f}]
    /\ UNCHANGED <<db, removed, dropped, disk, mem, others, faults>>

\* After a failure the files that were rewritten are restored, the last one first,
\* and then the rollback looks at all of them again.
RestoreRewritten ==
    /\ At("restore")
    /\ IF sync.done = {} THEN Fails(mem) /\ UNCHANGED <<fs, faults>>
       ELSE LET i == CHOOSE i \in 1 .. sync.at - 1 :
                        /\ mem.files[i].path \in sync.done
                        /\ \A j \in i + 1 .. sync.at - 1 : mem.files[j].path \notin sync.done
                f == mem.files[i].path
            IN  /\ sync' = [sync EXCEPT !.done = @ \ {f}]
                /\ \/ fs[f] = mem.files[i].after
                      /\ fs' = [fs EXCEPT ![f] = mem.files[i].before] /\ UNCHANGED faults
                   \/ fs[f] # mem.files[i].after /\ UNCHANGED <<fs, faults>>
                   \/ Fault /\ UNCHANGED fs
    /\ UNCHANGED <<db, removed, dropped, disk, mem, others>>

MarkRolloutsApplied ==
    /\ At("rewrite")
    /\ sync.at > Len(mem.files)
    /\ PersistThen([mem EXCEPT !.files = [i \in DOMAIN mem.files |->
                      [mem.files[i] EXCEPT !.applied =
                          IF mem.files[i].path \in sync.done THEN "yes" ELSE "no"]]],
                   [Off EXCEPT !.stage = "ready"])
    /\ UNCHANGED <<db, removed, dropped, fs, others>>
-----------------------------------------------------------------------------
(* A transaction of the sync (SyncJournal::commit).  The database is locked *)
(* from its begin, where the images are taken, to its commit.               *)

\* What a transaction may make of a row: set cells that the sync has not set,
\* insert it, or remove it unless the sync has inserted it.
Inserted(r) == \E i \in DOMAIN mem.entries :
                  r \in DOMAIN mem.entries[i] /\ mem.entries[i][r].before = NoRow

Edited(r) ==
    IF db[r] = NoRow THEN [Columns -> SyncValues]
    ELSE {new \in Row : \A c \in Columns :
             new[c] = db[r][c] \/ (new[c] \in SyncValues /\ db[r][c] \notin SyncValues)}
         \cup (IF Inserted(r) THEN {} ELSE {NoRow})

Edits == UNION {{e \in [rs -> Row \cup {NoRow}] : \A r \in rs : e[r] \in Edited(r) \ {db[r]}} :
                rs \in SUBSET Rows \ {{}}}

WithIntent(edit) ==
    [mem EXCEPT !.entries = Append(@, [r \in DOMAIN edit |->
        [before |-> db[r], after |-> edit[r], restored |-> FALSE]])]

\* Mutant: the entry is added to the journal in memory and saved only after the commit.
BeginUnsaved ==
    /\ At("ready")
    /\ Len(mem.entries) < MaxEntries
    /\ \E edit \in Edits : mem' = WithIntent(edit)
    /\ GoTo("intent")
    /\ UNCHANGED <<db, removed, dropped, fs, disk, others, faults>>

BeginTransaction ==
    /\ At("ready")
    /\ Len(mem.entries) < MaxEntries
    /\ \E edit \in Edits : PersistThen(WithIntent(edit), [sync EXCEPT !.stage = "intent"])
    /\ UNCHANGED <<db, removed, dropped, fs, others>>

\* The rows as the last entry leaves them.
Committed(entry) == [r \in Rows |-> IF r \in DOMAIN entry THEN entry[r].after ELSE db[r]]

CommitTransaction ==
    /\ At("intent")
    /\ LET entry == Last(mem.entries) IN
       \/ /\ db' = Committed(entry)
          /\ removed' = {r \in Rows : IF r \in DOMAIN entry THEN entry[r].after = NoRow
                                      ELSE r \in removed}
          /\ GoTo("committed")
          /\ UNCHANGED faults
       \/ Fault /\ Fails(mem) /\ UNCHANGED <<db, removed>>
    /\ UNCHANGED <<dropped, fs, disk, mem, others>>

MarkCommitted ==
    /\ At("committed")
    /\ PersistThen(mem, [sync EXCEPT !.stage = "ready"])
    /\ UNCHANGED <<db, removed, dropped, fs, others>>

\* Reading a database or a file may fail, and so may saving an image of a file.
SyncFails ==
    /\ sync.stage \in {"ready", "prepareBackup", "check"}
    /\ Fault
    /\ Fails(mem)
    /\ UNCHANGED <<db, removed, dropped, fs, disk, mem, others>>
-----------------------------------------------------------------------------
(* The global state (apply_global_state_update) and the end of a sync. *)

PrepareGlobalState ==
    /\ At("ready")
    /\ fs[GlobalState] # NoFile
    /\ \E v \in SyncValues :
          PersistThen([mem EXCEPT !.files = Append(@, FileEntry(GlobalState, fs[GlobalState], v))],
                      [sync EXCEPT !.stage = "prepareBackup"])
    /\ UNCHANGED <<db, removed, dropped, fs, others>>

PrepareBackup ==
    /\ At("prepareBackup")
    /\ PersistThen([mem EXCEPT !.files =
                       Append(@, FileEntry(GlobalBackup, fs[GlobalBackup], Last(mem.files).after))],
                   [sync EXCEPT !.stage = "check"])
    /\ UNCHANGED <<db, removed, dropped, fs, others>>

\* A global state that changed since it was read is not overwritten, unless it
\* changes after this last look.
CheckGlobalState ==
    /\ At("check")
    /\ IF fs[GlobalState] = mem.files[Len(mem.files) - 1].before THEN GoTo("write") ELSE Fails(mem)
    /\ UNCHANGED <<db, removed, dropped, fs, disk, mem, others, faults>>

WriteGlobalState ==
    /\ At("write")
    /\ \/ /\ fs' = [fs EXCEPT ![GlobalState] = mem.files[Len(mem.files) - 1].after]
          /\ GoTo("writeBackup")
          /\ UNCHANGED faults
       \/ Fault /\ Fails(mem) /\ UNCHANGED fs
    /\ UNCHANGED <<db, removed, dropped, disk, mem, others>>

WriteBackup ==
    /\ At("writeBackup")
    /\ \/ /\ fs' = [fs EXCEPT ![GlobalBackup] = Last(mem.files).after]
          /\ GoTo("complete")
          /\ UNCHANGED faults
       \/ Fault /\ Fails(mem) /\ UNCHANGED fs
    /\ UNCHANGED <<db, removed, dropped, disk, mem, others>>

\* The journal in memory says "complete" though it may not have been saved.
Complete ==
    /\ sync.stage \in {"ready", "complete"}
    /\ LET journal == [mem EXCEPT !.state = "complete"] IN
       \/ disk' = journal /\ mem' = NoJournal /\ sync' = Off /\ UNCHANGED faults
       \/ Fault /\ disk' \in {disk, journal} /\ mem' = journal /\ Fails(journal)
    /\ UNCHANGED <<db, removed, dropped, fs, others>>
-----------------------------------------------------------------------------
(* A rollback (SyncJournal::rollback), after a failure or in a recovery. *)

\* The columns a change gave a new value.
Changed(change) == {c \in Columns : change.before[c] # change.after[c]}
Holds(row, image, columns) == \A c \in columns : row[c] = image[c]

\* Mutant: one column that is as the sync left it is enough.
ConflictsWhenAllDiffer(row, change) ==
    IF row = NoRow THEN change.before # NoRow /\ change.after # NoRow
    ELSE row # NoRow /\ change.before # NoRow /\ change.after # NoRow
         /\ \A c \in Changed(change) : row[c] # change.before[c] /\ row[c] # change.after[c]

\* restore_change: somebody else has touched what the change made.
Conflicts(row, change) ==
    CASE change.before # NoRow /\ change.after # NoRow ->
            \/ row = NoRow
            \/ /\ ~Holds(row, change.before, Changed(change))
               /\ ~Holds(row, change.after, Changed(change))
      [] change.before = NoRow -> row # NoRow /\ row # change.after
      [] OTHER -> row # NoRow /\ row # change.before

Restored(row, change) ==
    IF change.before # NoRow /\ change.after # NoRow
    THEN [c \in Columns |-> IF c \in Changed(change) THEN change.before[c] ELSE row[c]]
    ELSE change.before

Open(entry)      == {r \in DOMAIN entry : ~entry[r].restored}
Restorable(entry) == {r \in Open(entry) : ~Conflicts(db[r], entry[r])}

\* Mutant: the first entry is undone first.
FirstFirst == Len(mem.entries) - sync.at + 1

\* The entry that is undone now: the last one first.
Turn == sync.at

\* One transaction undoes one entry; a row in conflict is left as it is.  The
\* database may be locked too long by others.
UndoEntry ==
    /\ At("undoEntries")
    /\ sync.at > 0
    /\ LET entry == mem.entries[Turn]
           rs    == Restorable(entry)
       IN  \/ /\ db' = [r \in Rows |-> IF r \in rs THEN Restored(db[r], entry[r]) ELSE db[r]]
              /\ removed' = {r \in removed : r \in rs => entry[r].before = NoRow}
              /\ mem' = [mem EXCEPT !.entries[Turn] = [r \in DOMAIN entry |->
                            [entry[r] EXCEPT !.restored = @ \/ r \in rs]]]
              /\ sync' = [sync EXCEPT !.stage = "keepEntry", !.errs = @ \/ rs # Open(entry)]
              /\ UNCHANGED faults
           \/ /\ Fault
              /\ sync' = [sync EXCEPT !.stage = "keepEntry", !.errs = TRUE]
              /\ UNCHANGED <<db, removed, dropped, mem>>
    /\ UNCHANGED <<dropped, fs, disk, others>>

KeepEntry ==
    /\ At("keepEntry")
    /\ PersistUndoThen(mem, [sync EXCEPT !.stage = "undoEntries", !.at = @ - 1])
    /\ UNCHANGED <<db, removed, dropped, fs, others>>

EntriesUndone ==
    /\ At("undoEntries")
    /\ sync.at = 0
    /\ sync' = [sync EXCEPT !.stage = "undoFiles", !.at = Len(mem.files)]
    /\ UNCHANGED <<db, removed, dropped, fs, disk, mem, others, faults>>

\* Mutant: counts down twice.
FileDoneTwice(ok) ==
    /\ mem' = [mem EXCEPT !.files[sync.at].restored = @ \/ ok]
    /\ sync' = [sync EXCEPT !.stage = "undoFiles", !.at = @ - 2, !.errs = @ \/ ~ok]

FileDone(ok) ==
    /\ mem' = [mem EXCEPT !.files[sync.at].restored = @ \/ ok]
    /\ sync' = [sync EXCEPT !.stage = "undoFiles", !.at = @ - 1, !.errs = @ \/ ~ok]

\* There is nothing to do for the file.
AsBefore(change) ==
    \/ change.restored \/ change.applied = "no"
    \/ fs[change.path] = change.before

UndoFile ==
    /\ At("undoFiles")
    /\ sync.at > 0
    /\ LET change == mem.files[sync.at] IN
       \/ AsBefore(change) /\ FileDone(TRUE) /\ UNCHANGED faults
       \/ /\ ~AsBefore(change) /\ fs[change.path] = change.after
          /\ GoTo("replaceFile") /\ UNCHANGED <<mem, faults>>
       \/ /\ ~AsBefore(change) /\ fs[change.path] # change.after
          /\ FileDone(FALSE) /\ UNCHANGED faults
       \/ ~AsBefore(change) /\ Fault /\ FileDone(FALSE)
    /\ UNCHANGED <<db, removed, dropped, fs, disk, others>>

\* After its last look at the content the code renames or removes the file; a file
\* that is gone cannot be removed.
ReplaceFile ==
    /\ At("replaceFile")
    /\ LET change == mem.files[sync.at] IN
       /\ fs' = [fs EXCEPT ![change.path] = change.before]
       /\ FileDone({fs[change.path], change.before} # {NoFile})
    /\ UNCHANGED <<db, removed, dropped, disk, others, faults>>

\* Mutant: errors do not count.
FinalStateAnyway == "rolled_back"

FinalState == IF sync.errs THEN "partial_failure" ELSE "rolled_back"

EndRollback ==
    /\ At("undoFiles")
    /\ sync.at = 0
    /\ \/ disk' = [mem EXCEPT !.state = FinalState] /\ UNCHANGED faults
       \/ Fault /\ disk' \in {disk, [mem EXCEPT !.state = FinalState]}
    /\ mem' = NoJournal /\ sync' = Off
    /\ UNCHANGED <<db, removed, dropped, fs, others>>
-----------------------------------------------------------------------------
(* Crashes, recoveries, and others. *)

Crash ==
    /\ sync # Off
    /\ mem' = NoJournal /\ sync' = Off
    /\ UNCHANGED <<db, removed, dropped, fs, disk, others, faults>>

\* load_for_recovery: a completed sync is not undone, and every session file
\* still to be looked at must exist.
Recover ==
    /\ At("off")
    /\ disk # NoJournal
    /\ disk.state # "complete"
    /\ \A i \in DOMAIN disk.files :
          /\ disk.files[i].path \in ToSet(Rollouts)
          /\ ~disk.files[i].restored /\ disk.files[i].applied # "no"
          => fs[disk.files[i].path] # NoFile
    /\ mem' = disk
    /\ Fails(disk)
    /\ UNCHANGED <<db, removed, dropped, fs, disk, others, faults>>

Other == others < MaxOthers /\ others' = others + 1

\* Another program inserts a row, removes it, or sets some of its cells.
OtherRow(r) ==
    /\ Other
    /\ ~At("intent")
    /\ \E row \in Row \cup {NoRow} :
          /\ row # db[r]
          /\ row # NoRow => \A c \in Columns :
                row[c] \in OtherValues \/ (db[r] # NoRow /\ row[c] = db[r][c])
          /\ db' = [db EXCEPT ![r] = row]
    /\ removed' = removed \ {r}
    /\ dropped' = IF db'[r] = NoRow THEN dropped \cup {r} ELSE dropped
    /\ UNCHANGED <<fs, disk, mem, sync, faults>>

OtherFile(f) ==
    /\ Other
    /\ fs' \in {[fs EXCEPT ![f] = v] : v \in (OtherValues \cup {NoFile}) \ {fs[f]}}
    /\ UNCHANGED <<db, removed, dropped, disk, mem, sync, faults>>
-----------------------------------------------------------------------------
SyncStep ==
    \/ NewSync \/ PrepareRollouts \/ RolloutMissing \/ RewriteRollout \/ RenameRollout
    \/ RestoreRewritten \/ MarkRolloutsApplied
    \/ BeginTransaction \/ CommitTransaction \/ MarkCommitted \/ SyncFails
    \/ PrepareGlobalState \/ PrepareBackup \/ CheckGlobalState \/ WriteGlobalState
    \/ WriteBackup \/ Complete

UndoStep ==
    \/ UndoEntry \/ KeepEntry \/ EntriesUndone \/ UndoFile \/ ReplaceFile \/ EndRollback

Next ==
    \/ SyncStep \/ UndoStep \/ Crash \/ Recover
    \/ \E r \in Rows : OtherRow(r)
    \/ \E f \in Files : OtherFile(f)

Spec == Init /\ [][Next]_vars
-----------------------------------------------------------------------------
(* Properties. *)

\* The type invariant: among others, the journal is one on disk and in memory, with
\* sequences of well-formed entries and files (SyncJournal).
TypeOK ==
    /\ db \in [Rows -> Row \cup {NoRow}]
    /\ removed \subseteq {r \in Rows : db[r] = NoRow} /\ dropped \subseteq Rows
    /\ fs \in [Files -> Values \cup {NoFile}]
    /\ {disk, mem} \subseteq Journal \cup {NoJournal}
    /\ sync \in Process
    /\ others \in 0 .. MaxOthers /\ faults \in 0 .. MaxFaults

\* What the sync has done and nobody has undone or written over.
SyncCells ==
    {rc \in Rows \X Columns : db[rc[1]] # NoRow /\ db[rc[1]][rc[2]] \in SyncValues}
SyncFiles == {f \in Files : fs[f] \in SyncValues}

\* A journal that says "rolled back" means it: nothing that the sync wrote is
\* left in a file or in a row that nobody else has removed meanwhile, and no row
\* that the sync removed is still missing, whatever failed, crashed or was
\* repeated on the way there.
RolledBackIsUndone ==
    disk # NoJournal /\ disk.state = "rolled_back"
    => SyncCells \subseteq dropped \X Columns /\ SyncFiles = {} /\ removed = {}

\* Whatever the sync has done so far, the journal on disk can undo it: the
\* images are saved before the rows and files change, and a change is not
\* crossed off before it is undone, wherever a crash falls.  It is not said of a
\* journal that says "complete", also when a rollback still works on it, nor of
\* rows that somebody else has removed meanwhile.
IntentBeforeWrite ==
    disk # NoJournal /\ disk.state # "complete" =>
        /\ \A rc \in SyncCells \ (dropped \X Columns) : \E i \in DOMAIN disk.entries :
              /\ rc[1] \in DOMAIN disk.entries[i]
              /\ LET change == disk.entries[i][rc[1]] IN
                 /\ ~change.restored /\ change.after # NoRow
                 /\ change.after[rc[2]] = db[rc[1]][rc[2]]
        /\ \A r \in removed : \E i \in DOMAIN disk.entries :
              /\ r \in DOMAIN disk.entries[i]
              /\ ~disk.entries[i][r].restored /\ disk.entries[i][r].after = NoRow
        /\ \A f \in SyncFiles : \E i \in DOMAIN disk.files :
              /\ disk.files[i].path = f /\ disk.files[i].after = fs[f]
              /\ ~disk.files[i].restored /\ disk.files[i].applied # "no"

\* A rollback, however often it is begun again after a crash, meets a conflict
\* only if somebody else has written or an operation has failed.
ConflictsHaveACause == sync.errs => others > 0 \/ faults > 0

\* A rollback never overwrites or deletes a cell of a row that somebody else has
\* written since, in a row that the sync changed too, and so keeps a concurrent
\* change of another column.  It is about rows only, and about values that no sync
\* writes: whoever writes the sync's own value cannot be told from it.
RollbackSparesOthers ==
    [][UndoStep =>
          \A r \in Rows, c \in Columns :
              db[r] # NoRow /\ db[r][c] \in OtherValues
              => db'[r] # NoRow /\ db'[r][c] = db[r][c]]_vars
=============================================================================
