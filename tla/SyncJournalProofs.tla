--------------------------- MODULE SyncJournalProofs ---------------------------
(***************************************************************************)
(* Proofs about SyncJournal, for any rows, columns, files and values and   *)
(* any number of transactions, writes of others, crashes and faults.       *)
(*                                                                         *)
(* The invariants build on each other:                                     *)
(*   IInv       what is stored is typed, the process stands where its      *)
(*              journal lets it, and every change in the journal is one    *)
(*              of ours: it puts a value of a sync in place of one of      *)
(*              others.  This alone spares what others have written;       *)
(*   RowsKept   both journals, in memory and on disk, can undo every       *)
(*              cell and removal of the sync.  A removed row that is put   *)
(*              back may bring a value of the sync back with it, so the    *)
(*              entry that set it must be there still, or the row be one   *)
(*              that the rollback leaves alone (Backs);                    *)
(*   FilesKept  the same of the files, by the stage of the process, since  *)
(*              a failed rewrite restores the session files by itself;     *)
(*   Done       what a rollback without errors has crossed off already.    *)
(* From these follow IntentBeforeWrite and RolledBackIsUndone.  Conflicts  *)
(* need more, and only while others and faults are 0:                      *)
(*   CalmRows   the entries of a row form a chain that ends at the row,    *)
(*              crossed off from its end;                                  *)
(*   CalmFiles  each file is at one end of its only image.                 *)
(***************************************************************************)
EXTENDS SyncJournal, SequenceTheorems, FiniteSetTheorems, WellFoundedInduction, TLAPS

\* A change that sets some cells of a row that there is.
IsSet(change) == change.before # NoRow /\ change.after # NoRow

\* A change that a transaction of a sync may make.
OurChange ==
    {change \in Change :
        /\ change.before = NoRow => change.after \in [Columns -> SyncValues]
        /\ IsSet(change) => \A c \in Changed(change) :
              change.after[c] \in SyncValues /\ change.before[c] \notin SyncValues}

OurEntry   == UNION {[rs -> OurChange] : rs \in SUBSET Rows}
OurJournal == [state : State, entries : Seq(OurEntry), files : Seq(FileChange)]

\* Where the process stands fits the journal it has in memory.
Placed(s, journal) ==
    /\ s \in Process
    /\ s.stage = "off" => journal = NoJournal
    /\ s.stage # "off" => journal \in OurJournal
    /\ s.stage = "new" => journal = NewJournal
    /\ s.stage = "intent" => Len(journal.entries) > 0
    /\ s.stage = "undoEntries" => s.at <= Len(journal.entries)
    /\ s.stage = "keepEntry" => s.at \in 1 .. Len(journal.entries)
    /\ s.stage = "undoFiles" => s.at <= Len(journal.files)
    /\ s.stage \in {"rename", "replaceFile"} => s.at \in 1 .. Len(journal.files)
    /\ s.stage \in {"rewrite", "restore"} => s.at \in 1 .. Len(journal.files) + 1
    /\ s.stage \in {"rewrite", "rename", "restore"} =>
          \A f \in s.done : \E i \in 1 .. s.at - 1 : journal.files[i].path = f
    /\ s.stage = "prepareBackup" => Len(journal.files) > 0
    /\ s.stage \in {"check", "write", "writeBackup"} => Len(journal.files) > 1

\* What the databases and the files hold.
Stored ==
    /\ db \in [Rows -> Row \cup {NoRow}]
    /\ removed \subseteq {r \in Rows : db[r] = NoRow} /\ dropped \subseteq Rows
    /\ fs \in [Files -> Values \cup {NoFile}]
    /\ others \in 0 .. MaxOthers /\ faults \in 0 .. MaxFaults

\* The journals, and where the process stands.
Booked ==
    /\ disk \in OurJournal \cup {NoJournal}
    /\ sync.stage # "off" => disk # NoJournal
    /\ Placed(sync, mem)

IInv == Stored /\ Booked

-----------------------------------------------------------------------------
(* Journals. *)

LEMMA EntryFacts ==
    ASSUME NEW e \in OurEntry, NEW r \in DOMAIN e
    PROVE  /\ r \in Rows /\ e[r] \in OurChange /\ e[r] \in Change
           /\ e[r].before \in Row \cup {NoRow} /\ e[r].after \in Row \cup {NoRow}
           /\ e[r].restored \in BOOLEAN
<1>1. r \in Rows /\ e[r] \in OurChange
  BY DEF OurEntry
<1>2. e[r] \in Change
  BY <1>1 DEF OurChange
<1> QED BY <1>1, <1>2 DEF Change

LEMMA OursIsTyped == OurJournal \subseteq Journal
<1>1. ASSUME NEW e \in OurEntry PROVE e \in UNION {[rs -> Change] : rs \in SUBSET Rows}
  BY DEF OurEntry, OurChange
<1>2. ASSUME NEW s \in Seq(OurEntry) PROVE s \in Seq(UNION {[rs -> Change] : rs \in SUBSET Rows})
  BY <1>1
<1> QED BY <1>2 DEF OurJournal, Journal

LEMMA JournalFacts ==
    ASSUME NEW j \in OurJournal
    PROVE  /\ j # NoJournal /\ j.entries \in Seq(OurEntry) /\ j.files \in Seq(FileChange)
           /\ j.state \in State /\ Len(j.entries) \in Nat /\ Len(j.files) \in Nat
           /\ DOMAIN j.entries = 1 .. Len(j.entries) /\ DOMAIN j.files = 1 .. Len(j.files)
           /\ \A i \in DOMAIN j.entries : j.entries[i] \in OurEntry
           /\ \A i \in DOMAIN j.files : j.files[i] \in FileChange
<1>1. j # NoJournal
  BY OursIsTyped, NoJournalAssumption
<1>2. j.entries \in Seq(OurEntry) /\ j.files \in Seq(FileChange) /\ j.state \in State
  BY DEF OurJournal
<1> QED BY <1>1, <1>2

LEMMA NewFields ==
    ASSUME NEW j \in OurJournal
    PROVE  /\ \A x \in Seq(FileChange) : LET k == [j EXCEPT !.files = x] IN
                 k \in OurJournal /\ k.files = x /\ k.entries = j.entries /\ k.state = j.state
           /\ \A x \in Seq(OurEntry) : LET k == [j EXCEPT !.entries = x] IN
                 k \in OurJournal /\ k.files = j.files /\ k.entries = x /\ k.state = j.state
           /\ \A x \in State : LET k == [j EXCEPT !.state = x] IN
                 k \in OurJournal /\ k.files = j.files /\ k.entries = j.entries /\ k.state = x
BY DEF OurJournal

LEMMA NewJournalIsOurs ==
    /\ NewJournal \in OurJournal /\ NewJournal.entries = << >> /\ NewJournal.files = << >>
    /\ NewJournal.state = "prepared"
BY DEF NewJournal, OurJournal, State

\* Saving the journal in memory and going on, or failing.
LEMMA FailsPlaced ==
    ASSUME NEW j \in OurJournal, Fails(j)
    PROVE  Placed(sync', j) /\ sync'.stage = "undoEntries" /\ sync'.at = Len(j.entries)
           /\ sync'.errs = FALSE
<1>1. Len(j.entries) \in Nat
  BY JournalFacts
<1>2. /\ sync' \in Process /\ sync'.stage = "undoEntries" /\ sync'.at = Len(j.entries)
      /\ sync'.errs = FALSE
  BY <1>1 DEF Fails, Off, Process, Stage, Undoing
<1> QED BY <1>1, <1>2 DEF Placed

LEMMA OffPlaced == Placed(Off, NoJournal) /\ Off \in Process /\ Off.stage = "off" /\ Off.errs = FALSE
BY DEF Off, Placed, Process, Stage

\* A place that asks nothing more of the journal.
LEMMA OnPlaced ==
    ASSUME NEW s \in Process, NEW j \in OurJournal,
           s.stage \in {"ready", "committed", "complete"}
    PROVE  Placed(s, j)
BY DEF Placed

LEMMA PersistStep ==
    ASSUME Booked, NEW j \in OurJournal, NEW next, Placed(next, j), sync.stage # "off",
           PersistThen(j, next)
    PROVE  Booked' /\ mem' = j /\ disk' \in {disk, j} /\ sync' \in Process
<1>1. mem' = j /\ disk' \in {disk, j} /\ j # NoJournal
  BY JournalFacts DEF PersistThen
<1>2. Placed(sync', j)
  BY FailsPlaced DEF PersistThen
<1>5. sync' \in Process
  BY <1>2 DEF Placed
<1>3. disk' \in OurJournal \cup {NoJournal}
  BY <1>1 DEF Booked
<1>4. disk = NoJournal => sync.stage = "off"
  BY DEF Booked
<1> QED BY <1>1, <1>2, <1>3, <1>4, <1>5 DEF Booked

LEMMA PersistUndoStep ==
    ASSUME Booked, NEW j \in OurJournal, NEW next \in Process, Placed(next, j),
           Placed([next EXCEPT !.errs = TRUE], j),
           sync.stage # "off", PersistUndoThen(j, next)
    PROVE  /\ Booked' /\ mem' = j /\ disk' \in {disk, j} /\ sync' \in Process
           /\ sync'.stage = next.stage /\ sync'.at = next.at
           /\ next.errs => sync'.errs
           /\ ~sync'.errs => disk' = j
<1>1. mem' = j /\ disk' \in {disk, j} /\ j # NoJournal
  BY JournalFacts DEF PersistUndoThen
<1>2. sync' = next \/ sync' = [next EXCEPT !.errs = TRUE]
  BY DEF PersistUndoThen
<1>3. Placed(sync', j) /\ sync' \in Process
  BY <1>2 DEF Process
<1>4. disk' \in OurJournal \cup {NoJournal} /\ disk # NoJournal
  BY <1>1 DEF Booked
<1>5. /\ sync'.stage = next.stage /\ sync'.at = next.at
      /\ next.errs => sync'.errs
      /\ ~sync'.errs => disk' = j
  BY DEF PersistUndoThen, Process
<1> QED BY <1>1, <1>3, <1>4, <1>5 DEF Booked

LEMMA FaultType ==
    ASSUME faults \in 0 .. MaxFaults, Fault PROVE faults' \in 0 .. MaxFaults
BY JournalAssumption DEF Fault

LEMMA OtherType ==
    ASSUME others \in 0 .. MaxOthers, Other PROVE others' \in 0 .. MaxOthers
BY JournalAssumption DEF Other

\* The session files that are chosen are put into a sequence, each once.
LEMMA InOrderFacts ==
    ASSUME NEW eligible \in SUBSET ToSet(Rollouts), NEW paths \in InOrder(eligible)
    PROVE  /\ paths \in Seq(eligible)
           /\ \A i, k \in DOMAIN paths : paths[i] = paths[k] => i = k
<1>1. IsFiniteSet(ToSet(Rollouts))
  <2>1. Len(Rollouts) \in Nat /\ DOMAIN Rollouts = 1 .. Len(Rollouts)
        /\ Rollouts \in [1 .. Len(Rollouts) -> ToSet(Rollouts)]
    BY JournalAssumption
  <2>2. Rollouts \in Surjection(1 .. Len(Rollouts), ToSet(Rollouts))
    BY <2>1 DEF Surjection, ToSet
  <2>3. IsFiniteSet(1 .. Len(Rollouts))
    BY <2>1, FS_Interval
  <2> QED BY <2>2, <2>3, FS_Surjection
<1>2. Cardinality(eligible) \in Nat
  BY <1>1, FS_Subset, FS_CardinalityType
<1>3. /\ paths \in [1 .. Cardinality(eligible) -> eligible]
      /\ \A i, k \in 1 .. Cardinality(eligible) : i # k => paths[i] # paths[k]
  BY DEF InOrder, SetToSeqs
<1> QED BY <1>2, <1>3

LEMMA FileEntryType ==
    ASSUME NEW f \in Files, NEW before \in Values \cup {NoFile}, NEW value \in SyncValues
    PROVE  /\ FileEntry(f, before, value) \in FileChange
           /\ FileEntry(f, before, value).path = f
           /\ FileEntry(f, before, value).before = before
           /\ FileEntry(f, before, value).after = value
           /\ FileEntry(f, before, value).applied = "unknown"
           /\ ~FileEntry(f, before, value).restored
BY DEF FileEntry, FileChange
-----------------------------------------------------------------------------
(* The steps of a sync keep the journals and the process in place. *)

LEMMA Working ==
    ASSUME Booked, sync.stage # "off"
    PROVE  mem \in OurJournal /\ disk \in OurJournal /\ sync \in Process /\ mem # NoJournal
<1>1. mem \in OurJournal /\ disk \in OurJournal /\ sync \in Process
  BY DEF Booked, Placed
<1> QED BY <1>1, JournalFacts

\* Steps to another stage with the journals as they are.
LEMMA MoveStep ==
    ASSUME Booked, sync.stage # "off", mem' = mem, disk' = disk, Placed(sync', mem)
    PROVE  Booked'
BY DEF Booked

LEMMA NewSyncBooked ==
    ASSUME Booked, NewSync PROVE Booked'
<1>1. sync \in Process /\ sync.stage = "off" /\ mem = NoJournal
  BY DEF Booked, Placed, NewSync, At
<1>2. NewJournal \in OurJournal /\ NewJournal # NoJournal
  BY NewJournalIsOurs, JournalFacts
<1>3. CASE disk' = NewJournal /\ mem' = NewJournal /\ GoTo("new")
  <2>1. sync' \in Process /\ sync'.stage = "new"
    BY <1>1, <1>3 DEF GoTo, Process, Stage
  <2>2. Placed(sync', NewJournal)
    BY <1>2, <2>1 DEF Placed
  <2> QED BY <1>2, <1>3, <2>2 DEF Booked
<1>4. CASE disk' \in {disk, NewJournal} /\ UNCHANGED <<mem, sync>>
  BY <1>1, <1>2, <1>4 DEF Booked
<1> QED BY <1>3, <1>4 DEF NewSync

LEMMA PlansPlaced ==
    ASSUME Stored, Booked, PrepareRollouts
    PROVE  \E x \in Seq(FileChange) :
              LET journal == [mem EXCEPT !.files = x] IN
              /\ \/ /\ mem' = journal /\ disk' = journal
                    /\ sync' = [Off EXCEPT !.stage = "rewrite", !.at = 1]
                 \/ disk' \in {disk, journal} /\ mem' = NoJournal /\ sync' = Off
              /\ \A i \in DOMAIN x :
                    /\ x[i].path \in ToSet(Rollouts) /\ x[i].before = fs[x[i].path]
                    /\ x[i].applied = "unknown" /\ ~x[i].restored
              /\ \A i, k \in DOMAIN x : x[i].path = x[k].path => i = k
<1>1. PICK eligible \in SUBSET ToSet(Rollouts), v \in SyncValues :
      \E paths \in InOrder(eligible) :
         LET journal == [mem EXCEPT !.files =
                            [i \in DOMAIN paths |-> FileEntry(paths[i], fs[paths[i]], v)]]
         IN  \/ /\ mem' = journal /\ disk' = journal
                /\ sync' = [Off EXCEPT !.stage = "rewrite", !.at = 1]
             \/ disk' \in {disk, journal} /\ mem' = NoJournal /\ sync' = Off
  BY DEF PrepareRollouts
<1>2. PICK paths \in InOrder(eligible) :
         LET journal == [mem EXCEPT !.files =
                            [i \in DOMAIN paths |-> FileEntry(paths[i], fs[paths[i]], v)]]
         IN  \/ /\ mem' = journal /\ disk' = journal
                /\ sync' = [Off EXCEPT !.stage = "rewrite", !.at = 1]
             \/ disk' \in {disk, journal} /\ mem' = NoJournal /\ sync' = Off
  BY <1>1
<1> DEFINE x == [i \in DOMAIN paths |-> FileEntry(paths[i], fs[paths[i]], v)]
<1>3. paths \in Seq(eligible) /\ \A i, k \in DOMAIN paths : paths[i] = paths[k] => i = k
  BY InOrderFacts
<1>4. ASSUME NEW i \in DOMAIN paths
      PROVE  /\ x[i] \in FileChange
             /\ x[i].path = paths[i] /\ x[i].path \in ToSet(Rollouts) /\ x[i].before = fs[x[i].path]
             /\ x[i].applied = "unknown" /\ ~x[i].restored
  <2>1. paths[i] \in Files /\ paths[i] \in ToSet(Rollouts)
    BY <1>3, <1>4 DEF Files
  <2>2. fs[paths[i]] \in Values \cup {NoFile}
    BY <2>1 DEF Stored
  <2> DEFINE f == paths[i]
             before == fs[f]
  <2>3. x[i] = FileEntry(f, before, v)
    BY <1>4
  <2>4. f \in Files /\ before \in Values \cup {NoFile}
    BY <2>1, <2>2
  <2> HIDE DEF f, before
  <2>5. LET e == FileEntry(f, before, v) IN
        e \in FileChange /\ e.path = f /\ e.before = before /\ e.applied = "unknown" /\ ~e.restored
    BY <2>4, FileEntryType
  <2> HIDE DEF x
  <2>6. /\ x[i] \in FileChange /\ x[i].path = f /\ x[i].before = before
        /\ x[i].applied = "unknown" /\ ~x[i].restored
    BY <2>3, <2>5
  <2> QED BY <2>1, <2>6 DEF f, before
<1>5. x \in Seq(FileChange) /\ DOMAIN x = DOMAIN paths
  <2>1. DOMAIN paths = 1 .. Len(paths) /\ Len(paths) \in Nat
    BY <1>3
  <2>2. \A i \in DOMAIN paths : x[i] \in FileChange
    BY <1>4
  <2> QED BY <2>1, <2>2
<1> HIDE DEF x
<1>6. LET journal == [mem EXCEPT !.files = x] IN
      \/ /\ mem' = journal /\ disk' = journal
         /\ sync' = [Off EXCEPT !.stage = "rewrite", !.at = 1]
      \/ disk' \in {disk, journal} /\ mem' = NoJournal /\ sync' = Off
  BY <1>2 DEF x
<1>7. \A i, k \in DOMAIN x : x[i].path = x[k].path => i = k
  <2>1. \A i \in DOMAIN x : x[i].path = paths[i]
    BY <1>4, <1>5
  <2> QED BY <1>3, <1>5, <2>1
<1> QED BY <1>4, <1>5, <1>6, <1>7

LEMMA MarkFacts ==
    ASSUME mem \in OurJournal, MarkRolloutsApplied
    PROVE  \E x \in Seq(FileChange) :
              /\ PersistThen([mem EXCEPT !.files = x], [Off EXCEPT !.stage = "ready"])
              /\ Len(x) = Len(mem.files)
              /\ \A i \in DOMAIN mem.files :
                    /\ x[i].path = mem.files[i].path /\ x[i].before = mem.files[i].before
                    /\ x[i].after = mem.files[i].after /\ x[i].restored = mem.files[i].restored
                    /\ x[i].applied = IF mem.files[i].path \in sync.done THEN "yes" ELSE "no"
<1>1. /\ Len(mem.files) \in Nat /\ DOMAIN mem.files = 1 .. Len(mem.files)
      /\ \A i \in DOMAIN mem.files : mem.files[i] \in FileChange
  BY JournalFacts
<1> DEFINE x == [i \in DOMAIN mem.files |->
                   [mem.files[i] EXCEPT !.applied =
                       IF mem.files[i].path \in sync.done THEN "yes" ELSE "no"]]
           n == Len(mem.files)
<1>2. PersistThen([mem EXCEPT !.files = x], [Off EXCEPT !.stage = "ready"])
  BY DEF MarkRolloutsApplied
<1>3. ASSUME NEW i \in DOMAIN mem.files
      PROVE  /\ x[i] \in FileChange
             /\ x[i].path = mem.files[i].path /\ x[i].before = mem.files[i].before
             /\ x[i].after = mem.files[i].after /\ x[i].restored = mem.files[i].restored
             /\ x[i].applied = IF mem.files[i].path \in sync.done THEN "yes" ELSE "no"
  <2>1. mem.files[i] \in FileChange
    BY <1>1, <1>3
  <2>2. x[i] = [mem.files[i] EXCEPT !.applied =
                   IF mem.files[i].path \in sync.done THEN "yes" ELSE "no"]
    BY <1>3
  <2> HIDE DEF x
  <2> QED BY <2>1, <2>2 DEF FileChange
<1>4. DOMAIN x = 1 .. n /\ n \in Nat
  BY <1>1
<1>5. x \in [1 .. n -> FileChange]
  BY <1>1, <1>3, <1>4
<1>6. x \in Seq(FileChange) /\ Len(x) = n
  <2> HIDE DEF x, n
  <2>1. x \in Seq(FileChange)
    BY <1>4, <1>5, SeqDef
  <2> QED BY <1>4, <2>1
<1> HIDE DEF x
<1> QED BY <1>2, <1>3, <1>6 DEF n

LEMMA FilesBooked ==
    ASSUME Stored, Booked,
           PrepareRollouts \/ RolloutMissing \/ RewriteRollout \/ RenameRollout
           \/ RestoreRewritten \/ MarkRolloutsApplied
    PROVE  Booked'
<1>0. sync.stage # "off" /\ mem \in OurJournal /\ disk \in OurJournal /\ sync \in Process
  BY Working DEF PrepareRollouts, RolloutMissing, RewriteRollout, RenameRollout, RestoreRewritten,
                 MarkRolloutsApplied, At
<1>c. /\ Len(mem.files) \in Nat /\ DOMAIN mem.files = 1 .. Len(mem.files) /\ sync.at \in Nat
      /\ \A i \in DOMAIN mem.files : mem.files[i] \in FileChange
  BY <1>0, JournalFacts DEF Process
<1>1. CASE PrepareRollouts
  <2>1. PICK x \in Seq(FileChange) :
           LET journal == [mem EXCEPT !.files = x] IN
           \/ /\ mem' = journal /\ disk' = journal
              /\ sync' = [Off EXCEPT !.stage = "rewrite", !.at = 1]
           \/ disk' \in {disk, journal} /\ mem' = NoJournal /\ sync' = Off
    BY <1>1, PlansPlaced
  <2> DEFINE journal == [mem EXCEPT !.files = x]
  <2>2. journal \in OurJournal /\ journal.files = x /\ Len(x) \in Nat /\ journal # NoJournal
    BY <1>0, NewFields, JournalFacts
  <2> HIDE DEF journal
  <2>3. CASE mem' = journal /\ disk' = journal /\ sync' = [Off EXCEPT !.stage = "rewrite", !.at = 1]
    <3>1. sync' \in Process /\ sync'.stage = "rewrite" /\ sync'.at = 1 /\ sync'.done = {}
      BY <2>3 DEF Off, Process, Stage
    <3>2. Placed(sync', journal)
      BY <2>2, <3>1 DEF Placed
    <3> QED BY <2>2, <2>3, <3>2 DEF Booked
  <2>4. CASE disk' \in {disk, journal} /\ mem' = NoJournal /\ sync' = Off
    BY <1>0, <2>2, <2>4, OffPlaced DEF Booked
  <2> QED BY <2>1, <2>3, <2>4 DEF journal
<1>2. CASE RolloutMissing
  BY <1>0, <1>2, OffPlaced DEF Booked, RolloutMissing
<1>3. CASE RewriteRollout
  <2>1. /\ mem' = mem /\ disk' = disk /\ sync.stage = "rewrite" /\ sync.at \in 1 .. Len(mem.files)
        /\ \A f \in sync.done : \E i \in 1 .. sync.at - 1 : mem.files[i].path = f
    BY <1>3, <1>c DEF RewriteRollout, Booked, Placed, At
  <2>2. \/ sync' = [sync EXCEPT !.stage = "rename"] \/ sync' = [sync EXCEPT !.stage = "restore"]
        \/ sync' = [sync EXCEPT !.at = sync.at + 1]
    BY <1>3 DEF RewriteRollout, GoTo
  <2>3. /\ sync' \in Process /\ sync'.done = sync.done
        /\ \/ sync'.stage \in {"rename", "restore"} /\ sync'.at = sync.at
           \/ sync'.stage = "rewrite" /\ sync'.at = sync.at + 1
    BY <1>0, <1>c, <2>1, <2>2 DEF Process, Stage
  <2>4. Placed(sync', mem)
    BY <1>0, <1>c, <2>1, <2>3 DEF Placed
  <2> QED BY <1>0, <2>1, <2>4, MoveStep
<1>4. CASE RenameRollout
  <2>1. /\ mem' = mem /\ disk' = disk /\ sync.stage = "rename" /\ sync.at \in 1 .. Len(mem.files)
        /\ \A f \in sync.done : \E i \in 1 .. sync.at - 1 : mem.files[i].path = f
    BY <1>4, <1>c DEF RenameRollout, Booked, Placed, At
  <2>2. mem.files[sync.at].path \in Files
    BY <1>c, <2>1 DEF FileChange
  <2>3. /\ sync' \in Process /\ sync'.done = sync.done \cup {mem.files[sync.at].path}
        /\ sync'.stage = "rewrite" /\ sync'.at = sync.at + 1
    <3> DEFINE f == mem.files[sync.at].path
    <3>1. sync' = [sync EXCEPT !.stage = "rewrite", !.at = sync.at + 1, !.done = sync.done \cup {f}]
      BY <1>4 DEF RenameRollout
    <3> HIDE DEF f
    <3>2. f \in Files
      BY <2>2 DEF f
    <3>3. /\ sync' \in Process /\ sync'.done = sync.done \cup {f}
          /\ sync'.stage = "rewrite" /\ sync'.at = sync.at + 1
      <4>1. sync.done \cup {f} \in SUBSET Files /\ sync.errs \in BOOLEAN /\ sync.at + 1 \in Nat
            /\ "rewrite" \in Stage
        BY <1>0, <1>c, <3>2 DEF Process, Stage
      <4>2. sync' = [stage |-> "rewrite", at |-> sync.at + 1, done |-> sync.done \cup {f},
                     errs |-> sync.errs]
        BY <1>0, <3>1 DEF Process
      <4> QED BY <4>1, <4>2 DEF Process
    <3> QED BY <3>3 DEF f
  <2>4. Placed(sync', mem)
    BY <1>0, <1>c, <2>1, <2>3 DEF Placed
  <2> QED BY <1>0, <2>1, <2>4, MoveStep
<1>5. CASE RestoreRewritten
  <2>1. /\ mem' = mem /\ disk' = disk /\ sync.stage = "restore" /\ sync.at \in 1 .. Len(mem.files) + 1
        /\ \A f \in sync.done : \E i \in 1 .. sync.at - 1 : mem.files[i].path = f
    BY <1>5, <1>c DEF RestoreRewritten, Booked, Placed, At
  <2>2. CASE Fails(mem)
    BY <1>0, <2>1, <2>2, FailsPlaced, MoveStep
  <2>3. CASE \E f : sync' = [sync EXCEPT !.done = sync.done \ {f}]
    <3>1. /\ sync' \in Process /\ sync'.done \subseteq sync.done
          /\ sync'.stage = "restore" /\ sync'.at = sync.at
      BY <1>0, <2>1, <2>3 DEF Process, Stage
    <3>2. Placed(sync', mem)
      BY <1>0, <1>c, <2>1, <3>1 DEF Placed
    <3> QED BY <1>0, <2>1, <3>2, MoveStep
  <2> QED BY <1>5, <2>2, <2>3 DEF RestoreRewritten
<1>6. CASE MarkRolloutsApplied
  <2>1. PICK x \in Seq(FileChange) :
           PersistThen([mem EXCEPT !.files = x], [Off EXCEPT !.stage = "ready"])
    BY <1>0, <1>6, MarkFacts
  <2>2. [mem EXCEPT !.files = x] \in OurJournal
    BY <1>0, NewFields
  <2>3. [Off EXCEPT !.stage = "ready"] \in Process /\ [Off EXCEPT !.stage = "ready"].stage = "ready"
    BY DEF Off, Process, Stage
  <2> QED BY <1>0, <2>1, <2>2, <2>3, OnPlaced, PersistStep
<1> QED BY <1>1, <1>2, <1>3, <1>4, <1>5, <1>6

\* What a transaction puts into the journal.
LEMMA IntentFacts ==
    ASSUME Stored, mem \in OurJournal, NEW edit \in Edits
    PROVE  \E e \in OurEntry :
              /\ WithIntent(edit) = [mem EXCEPT !.entries = Append(mem.entries, e)]
              /\ WithIntent(edit) \in OurJournal
              /\ WithIntent(edit).entries = Append(mem.entries, e)
              /\ \A r \in DOMAIN e :
                    /\ ~e[r].restored /\ e[r].before = db[r]
                    /\ e[r].before # NoRow /\ e[r].after = NoRow => ~Inserted(r)
<1>1. PICK rs \in SUBSET Rows : /\ edit \in [rs -> Row \cup {NoRow}]
                                /\ \A r \in rs : edit[r] \in Edited(r) \ {db[r]}
  BY DEF Edits
<1> DEFINE change(r) == [before |-> db[r], after |-> edit[r], restored |-> FALSE]
           entry == [r \in DOMAIN edit |-> change(r)]
<1>2. ASSUME NEW r \in rs PROVE change(r) \in OurChange
  <2>1. /\ db[r] \in Row \cup {NoRow} /\ edit[r] \in Row \cup {NoRow}
        /\ edit[r] \in Edited(r) /\ r \in Rows
    BY <1>1, <1>2 DEF Stored
  <2>2. change(r) \in Change
    BY <2>1 DEF Change
  <2>3. db[r] = NoRow => edit[r] \in [Columns -> SyncValues]
    BY <2>1 DEF Edited
  <2>4. ASSUME db[r] # NoRow, edit[r] # NoRow, NEW c \in Columns, db[r][c] # edit[r][c]
        PROVE  edit[r][c] \in SyncValues /\ db[r][c] \notin SyncValues
    BY <2>1, <2>4 DEF Edited
  <2> QED BY <2>2, <2>3, <2>4 DEF OurChange, Changed, IsSet
<1>3. ASSUME NEW r \in rs, db[r] # NoRow, edit[r] = NoRow PROVE ~Inserted(r)
  BY <1>1, <1>3, NoRowAssumption DEF Edited
<1>4. DOMAIN edit = rs
  BY <1>1
<1>5. \A r \in rs : entry[r] = change(r) /\ change(r).before = db[r] /\ change(r).after = edit[r]
                     /\ ~change(r).restored
  BY <1>4
<1> HIDE DEF change
<1>6. entry \in [rs -> OurChange] /\ DOMAIN entry = rs
  BY <1>2, <1>4
<1>7. entry \in OurEntry
  BY <1>6 DEF OurEntry
<1>8. WithIntent(edit) = [mem EXCEPT !.entries = Append(mem.entries, entry)]
  BY DEF WithIntent, change
<1> HIDE DEF entry
<1>9. Append(mem.entries, entry) \in Seq(OurEntry)
  BY <1>7, JournalFacts
<1>10. WithIntent(edit) \in OurJournal /\ WithIntent(edit).entries = Append(mem.entries, entry)
  <2> DEFINE es == Append(mem.entries, entry)
  <2>1. WithIntent(edit) = [mem EXCEPT !.entries = es] /\ es \in Seq(OurEntry)
    BY <1>8, <1>9
  <2> HIDE DEF es
  <2>2. WithIntent(edit) \in OurJournal /\ WithIntent(edit).entries = es
    BY <2>1, NewFields
  <2> QED BY <2>2 DEF es
<1>11. \A r \in DOMAIN entry :
          /\ ~entry[r].restored /\ entry[r].before = db[r]
          /\ entry[r].before # NoRow /\ entry[r].after = NoRow => ~Inserted(r)
  BY <1>3, <1>5, <1>6
<1> QED BY <1>7, <1>8, <1>10, <1>11

LEMMA TransactionBooked ==
    ASSUME Stored, Booked,
           BeginTransaction \/ CommitTransaction \/ MarkCommitted \/ SyncFails \/ Complete
    PROVE  Booked'
<1>0. sync.stage # "off" /\ mem \in OurJournal /\ disk \in OurJournal /\ sync \in Process
  BY Working DEF BeginTransaction, CommitTransaction, MarkCommitted, SyncFails, Complete, At
<1>1. CASE BeginTransaction
  <2>1. PICK edit \in Edits : PersistThen(WithIntent(edit), [sync EXCEPT !.stage = "intent"])
    BY <1>1 DEF BeginTransaction
  <2>2. PICK e \in OurEntry : /\ WithIntent(edit) \in OurJournal
                              /\ WithIntent(edit).entries = Append(mem.entries, e)
    BY <1>0, IntentFacts
  <2>3. Len(WithIntent(edit).entries) > 0
    BY <1>0, <2>2, JournalFacts
  <2>4. /\ [sync EXCEPT !.stage = "intent"] \in Process
        /\ [sync EXCEPT !.stage = "intent"].stage = "intent"
    BY <1>0 DEF Process, Stage
  <2>5. Placed([sync EXCEPT !.stage = "intent"], WithIntent(edit))
    BY <2>2, <2>3, <2>4 DEF Placed
  <2> QED BY <1>0, <2>1, <2>2, <2>5, PersistStep
<1>2. CASE MarkCommitted
  <2>1. /\ [sync EXCEPT !.stage = "ready"] \in Process
        /\ [sync EXCEPT !.stage = "ready"].stage = "ready"
    BY <1>0 DEF Process, Stage
  <2> QED BY <1>0, <1>2, <2>1, OnPlaced, PersistStep DEF MarkCommitted
<1>3. CASE CommitTransaction \/ SyncFails
  <2>1. mem' = mem /\ disk' = disk
    BY <1>3 DEF CommitTransaction, SyncFails
  <2>2. CASE Fails(mem)
    BY <1>0, <2>1, <2>2, FailsPlaced, MoveStep
  <2>3. CASE GoTo("committed")
    <3>1. sync' \in Process /\ sync'.stage = "committed"
      BY <1>0, <2>3 DEF GoTo, Process, Stage
    <3> QED BY <1>0, <2>1, <3>1, OnPlaced, MoveStep
  <2> QED BY <1>3, <2>2, <2>3 DEF CommitTransaction, SyncFails
<1>4. CASE Complete
  <2> DEFINE journal == [mem EXCEPT !.state = "complete"]
  <2>1. journal \in OurJournal /\ journal # NoJournal
    BY <1>0, NewFields, JournalFacts DEF State
  <2>2. \/ disk' = journal /\ mem' = NoJournal /\ sync' = Off
        \/ disk' \in {disk, journal} /\ mem' = journal /\ Fails(journal)
    BY <1>4 DEF Complete
  <2> HIDE DEF journal
  <2>3. Placed(sync', mem')
    BY <2>1, <2>2, FailsPlaced, OffPlaced
  <2> QED BY <1>0, <2>1, <2>2, <2>3 DEF Booked
<1> QED BY <1>1, <1>2, <1>3, <1>4

LEMMA GlobalFacts ==
    ASSUME Stored, Booked, PrepareGlobalState \/ PrepareBackup
    PROVE  \E x \in FileChange, stage \in {"prepareBackup", "check"} :
              /\ PersistThen([mem EXCEPT !.files = Append(mem.files, x)],
                             [sync EXCEPT !.stage = stage])
              /\ stage = "check" => Len(mem.files) > 0
              /\ x.path = IF stage = "check" THEN GlobalBackup ELSE GlobalState
              /\ x.before = fs[x.path] /\ x.applied = "unknown" /\ ~x.restored
              /\ sync.stage = IF stage = "check" THEN "prepareBackup" ELSE "ready"
<1>1. CASE PrepareGlobalState
  <2>1. PICK v \in SyncValues :
           PersistThen([mem EXCEPT !.files =
                           Append(mem.files, FileEntry(GlobalState, fs[GlobalState], v))],
                       [sync EXCEPT !.stage = "prepareBackup"])
    BY <1>1 DEF PrepareGlobalState
  <2> DEFINE x == FileEntry(GlobalState, fs[GlobalState], v)
  <2>2. /\ x \in FileChange /\ x.path = GlobalState /\ x.before = fs[GlobalState]
        /\ x.applied = "unknown" /\ ~x.restored
    BY FileEntryType DEF Stored, Files
  <2>3. sync.stage = "ready"
    BY <1>1 DEF PrepareGlobalState, At
  <2> HIDE DEF x
  <2> QED BY <2>1, <2>2, <2>3 DEF x
<1>2. CASE PrepareBackup
  <2> DEFINE v == Last(mem.files).after
             x == FileEntry(GlobalBackup, fs[GlobalBackup], v)
  <2>1. PersistThen([mem EXCEPT !.files = Append(mem.files, x)], [sync EXCEPT !.stage = "check"])
    BY <1>2 DEF PrepareBackup
  <2>2. sync.stage = "prepareBackup" /\ Len(mem.files) > 0 /\ mem \in OurJournal
    BY <1>2 DEF PrepareBackup, At, Booked, Placed
  <2>3. v \in SyncValues
    <3>1. /\ Len(mem.files) \in 1 .. Len(mem.files)
          /\ \A i \in 1 .. Len(mem.files) : mem.files[i] \in FileChange
      BY <2>2, JournalFacts
    <3> QED BY <3>1 DEF Last, FileChange
  <2> HIDE DEF v
  <2>4. /\ x \in FileChange /\ x.path = GlobalBackup /\ x.before = fs[GlobalBackup]
        /\ x.applied = "unknown" /\ ~x.restored
    BY <2>3, FileEntryType DEF Stored, Files
  <2> HIDE DEF x
  <2> QED BY <2>1, <2>2, <2>4
<1> QED BY <1>1, <1>2

LEMMA GlobalBooked ==
    ASSUME Stored, Booked,
           PrepareGlobalState \/ PrepareBackup \/ CheckGlobalState \/ WriteGlobalState
           \/ WriteBackup
    PROVE  Booked'
<1>0. sync.stage # "off" /\ mem \in OurJournal /\ disk \in OurJournal /\ sync \in Process
  BY Working DEF PrepareGlobalState, PrepareBackup, CheckGlobalState, WriteGlobalState,
                 WriteBackup, At
<1>1. /\ mem.files \in Seq(FileChange) /\ Len(mem.files) \in Nat
      /\ \A i \in 1 .. Len(mem.files) : mem.files[i] \in FileChange
  BY <1>0, JournalFacts
<1>2. ASSUME NEW x \in FileChange, NEW stage \in {"prepareBackup", "check"},
             stage = "check" => Len(mem.files) > 0,
             PersistThen([mem EXCEPT !.files = Append(mem.files, x)],
                         [sync EXCEPT !.stage = stage])
      PROVE  Booked'
  <2> DEFINE journal == [mem EXCEPT !.files = Append(mem.files, x)]
             next == [sync EXCEPT !.stage = stage]
  <2>1. journal \in OurJournal /\ journal.files = Append(mem.files, x)
    <3> DEFINE files == Append(mem.files, x)
    <3>1. files \in Seq(FileChange)
      BY <1>1
    <3> HIDE DEF files
    <3>2. [mem EXCEPT !.files = files] \in OurJournal /\ [mem EXCEPT !.files = files].files = files
      BY <1>0, <3>1, NewFields
    <3> QED BY <3>2 DEF files
  <2>2. Len(journal.files) = Len(mem.files) + 1
    BY <1>1, <2>1
  <2>3. next \in Process /\ next.stage = stage
    BY <1>0 DEF Process, Stage
  <2>4. PersistThen(journal, next)
    BY <1>2
  <2> HIDE DEF journal, next
  <2>5. Placed(next, journal)
    BY <1>1, <1>2, <2>1, <2>2, <2>3 DEF Placed
  <2> QED BY <1>0, <2>1, <2>4, <2>5, PersistStep
<1>3. CASE PrepareGlobalState \/ PrepareBackup
  <2>1. PICK x \in FileChange, stage \in {"prepareBackup", "check"} :
           /\ PersistThen([mem EXCEPT !.files = Append(mem.files, x)], [sync EXCEPT !.stage = stage])
           /\ stage = "check" => Len(mem.files) > 0
    BY <1>0, <1>3, GlobalFacts
  <2> QED BY <1>2, <2>1
<1>5. CASE CheckGlobalState \/ WriteGlobalState \/ WriteBackup
  <2>1. mem' = mem /\ disk' = disk
    BY <1>5 DEF CheckGlobalState, WriteGlobalState, WriteBackup
  <2>2. CASE Fails(mem)
    BY <1>0, <2>1, <2>2, FailsPlaced, MoveStep
  <2>3. CASE \E stage \in {"write", "writeBackup", "complete"} : GoTo(stage)
    <3>1. sync' \in Process /\ sync'.stage \in {"write", "writeBackup", "complete"}
      BY <1>0, <2>3 DEF GoTo, Process, Stage
    <3>2. Len(mem.files) > 1
      BY <1>5 DEF CheckGlobalState, WriteGlobalState, WriteBackup, At, Booked, Placed
    <3>3. Placed(sync', mem)
      BY <1>0, <3>1, <3>2 DEF Placed
    <3> QED BY <1>0, <2>1, <3>3, MoveStep
  <2> QED BY <1>5, <2>2, <2>3 DEF CheckGlobalState, WriteGlobalState, WriteBackup
<1> QED BY <1>3, <1>5
-----------------------------------------------------------------------------
(* The steps of a rollback, of crashes and recoveries, and of others do. *)

\* What an undone entry looks like in the journal in memory.
Crossed(entry, rs) == [r \in DOMAIN entry |-> [entry[r] EXCEPT !.restored = @ \/ r \in rs]]

LEMMA CrossedFacts ==
    ASSUME NEW e \in OurEntry, NEW rs
    PROVE  /\ Crossed(e, rs) \in OurEntry /\ DOMAIN Crossed(e, rs) = DOMAIN e
           /\ \A r \in DOMAIN e :
                 /\ Crossed(e, rs)[r].before = e[r].before /\ Crossed(e, rs)[r].after = e[r].after
                 /\ Crossed(e, rs)[r].restored <=> e[r].restored \/ r \in rs
<1>1. PICK rows \in SUBSET Rows : e \in [rows -> OurChange]
  BY DEF OurEntry
<1>2. ASSUME NEW r \in rows
      PROVE  LET new == [e[r] EXCEPT !.restored = @ \/ r \in rs] IN
             /\ new \in OurChange /\ new.before = e[r].before /\ new.after = e[r].after
             /\ new.restored <=> e[r].restored \/ r \in rs
  <2> DEFINE new == [e[r] EXCEPT !.restored = @ \/ r \in rs]
  <2>1. e[r] \in OurChange /\ e[r] \in Change
    BY <1>1, <1>2 DEF OurChange
  <2>2. /\ new \in Change /\ new.before = e[r].before /\ new.after = e[r].after
        /\ new.restored <=> e[r].restored \/ r \in rs
    BY <2>1 DEF Change
  <2> HIDE DEF new
  <2>3. new \in OurChange
    BY <2>1, <2>2 DEF OurChange, Changed, IsSet
  <2> QED BY <2>2, <2>3 DEF new
<1>3. DOMAIN e = rows /\ DOMAIN Crossed(e, rs) = rows
      /\ \A r \in rows : Crossed(e, rs)[r] = [e[r] EXCEPT !.restored = @ \/ r \in rs]
  BY <1>1 DEF Crossed
<1>4. Crossed(e, rs) \in [rows -> OurChange]
  BY <1>1, <1>2 DEF Crossed
<1> QED BY <1>2, <1>3, <1>4 DEF OurEntry

\* The entry whose turn it is is one of the journal, and undoing it either crosses
\* rows off or leaves everything as it is.
LEMMA UndoEntryFacts ==
    ASSUME Booked, UndoEntry
    PROVE  /\ mem \in OurJournal /\ sync.stage = "undoEntries"
           /\ sync.at \in 1 .. Len(mem.entries) /\ mem.entries[sync.at] \in OurEntry
           /\ mem' \in OurJournal /\ mem'.state = mem.state /\ mem'.files = mem.files
           /\ disk' = disk /\ dropped' = dropped /\ fs' = fs /\ others' = others
           /\ sync' \in Process /\ sync'.stage = "keepEntry" /\ sync'.at = sync.at
           /\ LET entry == mem.entries[sync.at]
                  rs    == Restorable(entry)
              IN  \/ /\ db' = [r \in Rows |-> IF r \in rs THEN Restored(db[r], entry[r]) ELSE db[r]]
                     /\ removed' = {r \in removed : r \in rs => entry[r].before = NoRow}
                     /\ mem'.entries = [mem.entries EXCEPT ![sync.at] = Crossed(entry, rs)]
                     /\ sync'.errs <=> sync.errs \/ rs # Open(entry)
                     /\ faults' = faults
                  \/ /\ UNCHANGED <<db, removed>> /\ mem' = mem /\ sync'.errs = TRUE /\ Fault
<1>1. mem \in OurJournal /\ sync \in Process /\ sync.stage = "undoEntries"
  BY Working DEF UndoEntry, At
<1>2. sync.at \in 1 .. Len(mem.entries)
  BY <1>1 DEF UndoEntry, Booked, Placed, Process
<1>3. mem.entries \in Seq(OurEntry) /\ mem.entries[sync.at] \in OurEntry
  BY <1>1, <1>2, JournalFacts
<1> DEFINE entry == mem.entries[sync.at]
           rs    == Restorable(entry)
<1>4. disk' = disk /\ dropped' = dropped /\ fs' = fs /\ others' = others
  BY DEF UndoEntry
<1>5. CASE /\ db' = [r \in Rows |-> IF r \in rs THEN Restored(db[r], entry[r]) ELSE db[r]]
           /\ removed' = {r \in removed : r \in rs => entry[r].before = NoRow}
           /\ mem' = [mem EXCEPT !.entries[sync.at] = Crossed(entry, rs)]
           /\ sync' = [sync EXCEPT !.stage = "keepEntry", !.errs = @ \/ rs # Open(entry)]
           /\ faults' = faults
  <2>1. Crossed(entry, rs) \in OurEntry
    BY <1>3, CrossedFacts
  <2> DEFINE crossed == Crossed(entry, rs)
             es == [mem.entries EXCEPT ![sync.at] = crossed]
  <2>2. mem' = [mem EXCEPT !.entries = es]
    BY <1>1, <1>5 DEF OurJournal
  <2> HIDE DEF crossed
  <2>3. es \in Seq(OurEntry)
    BY <1>2, <1>3, <2>1 DEF crossed
  <2> HIDE DEF es
  <2>4. /\ mem' \in OurJournal /\ mem'.state = mem.state /\ mem'.files = mem.files
        /\ mem'.entries = es
    BY <1>1, <2>2, <2>3, NewFields
  <2>5. /\ sync' \in Process /\ sync'.stage = "keepEntry" /\ sync'.at = sync.at
        /\ sync'.errs <=> sync.errs \/ rs # Open(entry)
    <3> DEFINE met == rs # Open(entry)
    <3>1. sync' = [sync EXCEPT !.stage = "keepEntry", !.errs = @ \/ met]
      BY <1>5
    <3> HIDE DEF met
    <3>2. /\ sync' \in Process /\ sync'.stage = "keepEntry" /\ sync'.at = sync.at
          /\ sync'.errs <=> sync.errs \/ met
      BY <1>1, <3>1 DEF Process, Stage, Undoing
    <3> QED BY <3>2 DEF met
  <2> QED BY <1>1, <1>2, <1>3, <1>4, <1>5, <2>4, <2>5 DEF es, crossed
<1>6. CASE /\ Fault
           /\ sync' = [sync EXCEPT !.stage = "keepEntry", !.errs = TRUE]
           /\ UNCHANGED <<db, removed, dropped, mem>>
  <2>1. /\ sync' \in Process /\ sync'.stage = "keepEntry" /\ sync'.at = sync.at
        /\ sync'.errs = TRUE
    BY <1>1, <1>6 DEF Process, Stage, Undoing
  <2> QED BY <1>1, <1>2, <1>3, <1>4, <1>6, <2>1
<1> QED BY <1>5, <1>6 DEF UndoEntry, Turn, Crossed

LEMMA UndoEntryBooked ==
    ASSUME Booked, UndoEntry PROVE Booked'
<1>1. /\ mem \in OurJournal /\ sync.at \in 1 .. Len(mem.entries) /\ mem' \in OurJournal
      /\ disk' = disk /\ disk # NoJournal
      /\ sync' \in Process /\ sync'.stage = "keepEntry" /\ sync'.at = sync.at
  <2>1. sync.stage = "undoEntries"
    BY UndoEntryFacts
  <2>2. disk \in OurJournal /\ disk # NoJournal
    BY <2>1, Working, JournalFacts
  <2> QED BY <2>2, UndoEntryFacts
<1>2. Len(mem'.entries) = Len(mem.entries)
  <2> DEFINE es == mem.entries
             n  == sync.at
  <2>1. es \in Seq(OurEntry)
    BY <1>1, JournalFacts
  <2>2. \A x : Len([es EXCEPT ![n] = x]) = Len(es)
    BY <1>1, <2>1
  <2>3. mem' = mem \/ \E x : mem'.entries = [es EXCEPT ![n] = x]
    BY UndoEntryFacts
  <2> HIDE DEF es, n
  <2> QED BY <2>2, <2>3 DEF es
<1>3. Placed(sync', mem')
  BY <1>1, <1>2 DEF Placed
<1> QED BY <1>1, <1>3 DEF Booked

LEMMA KeepEntryFacts ==
    ASSUME Booked, KeepEntry
    PROVE  /\ Booked' /\ mem \in OurJournal /\ disk \in OurJournal /\ mem' = mem
           /\ disk' \in {disk, mem} /\ sync.stage = "keepEntry" /\ sync.at \in 1 .. Len(mem.entries)
           /\ sync'.stage = "undoEntries" /\ sync'.at = sync.at - 1
           /\ sync'.errs \in BOOLEAN
           /\ sync.errs => sync'.errs
           /\ ~sync'.errs => disk' = mem
<1>0. sync.stage = "keepEntry" /\ mem \in OurJournal /\ disk \in OurJournal /\ sync \in Process
  BY Working DEF KeepEntry, At
<1>1. sync.at \in 1 .. Len(mem.entries) /\ Len(mem.entries) \in Nat
  BY <1>0, JournalFacts DEF Booked, Placed
<1> DEFINE next == [sync EXCEPT !.stage = "undoEntries", !.at = sync.at - 1]
           bad  == [next EXCEPT !.errs = TRUE]
<1>2. /\ next \in Process /\ next.stage = "undoEntries" /\ next.at = sync.at - 1
      /\ next.errs <=> sync.errs
  <2>1. sync.at - 1 \in Nat /\ "undoEntries" \in Stage
    BY <1>1 DEF Stage, Undoing
  <2> QED BY <1>0, <2>1 DEF Process
<1>3. PersistUndoThen(mem, next)
  BY DEF KeepEntry
<1> HIDE DEF next
<1>4. bad \in Process /\ bad.stage = next.stage /\ bad.at = next.at
  BY <1>2 DEF Process
<1> HIDE DEF bad
<1>5. Placed(next, mem) /\ Placed(bad, mem)
  BY <1>0, <1>1, <1>2, <1>4 DEF Placed
<1>6. /\ Booked' /\ mem' = mem /\ disk' \in {disk, mem} /\ sync' \in Process
      /\ sync'.stage = next.stage /\ sync'.at = next.at
      /\ next.errs => sync'.errs
      /\ ~sync'.errs => disk' = mem
  BY <1>0, <1>2, <1>3, <1>5, PersistUndoStep DEF bad
<1>7. sync'.errs \in BOOLEAN
  BY <1>6 DEF Process
<1>8. sync.errs => sync'.errs
  BY <1>2, <1>6
<1> QED BY <1>0, <1>1, <1>2, <1>6, <1>7, <1>8

\* What is said of a file whose turn it was.
FileMarked(ok) ==
    \E files \in Seq(FileChange) :
       /\ mem' \in OurJournal /\ mem'.entries = mem.entries /\ mem'.state = mem.state
       /\ mem'.files = files /\ Len(files) = Len(mem.files)
       /\ \A i \in DOMAIN mem.files :
             /\ files[i].path = mem.files[i].path /\ files[i].before = mem.files[i].before
             /\ files[i].after = mem.files[i].after /\ files[i].applied = mem.files[i].applied
             /\ files[i].restored <=> mem.files[i].restored \/ (i = sync.at /\ ok)
       /\ sync' \in Process /\ sync'.stage = "undoFiles" /\ sync'.at = sync.at - 1
       /\ sync'.errs <=> sync.errs \/ ~ok

LEMMA FileDoneFacts ==
    ASSUME mem \in OurJournal, sync \in Process, sync.at \in 1 .. Len(mem.files),
           NEW ok \in BOOLEAN, FileDone(ok)
    PROVE  FileMarked(ok)
<1>1. /\ mem.files \in Seq(FileChange) /\ Len(mem.files) \in Nat
      /\ \A i \in DOMAIN mem.files : mem.files[i] \in FileChange
      /\ DOMAIN mem.files = 1 .. Len(mem.files)
  BY JournalFacts
<1> DEFINE at == sync.at
           new == [mem.files[at] EXCEPT !.restored = @ \/ ok]
           files == [mem.files EXCEPT ![at] = new]
<1>2. /\ new \in FileChange /\ new.path = mem.files[at].path /\ new.before = mem.files[at].before
      /\ new.after = mem.files[at].after /\ new.applied = mem.files[at].applied
      /\ new.restored <=> mem.files[at].restored \/ ok
  BY <1>1 DEF FileChange
<1>3. mem' = [mem EXCEPT !.files = files]
  BY DEF FileDone, OurJournal
<1> HIDE DEF new
<1>4. files \in Seq(FileChange) /\ Len(files) = Len(mem.files)
  BY <1>1, <1>2
<1>5. \A i \in DOMAIN mem.files : files[i] = IF i = at THEN new ELSE mem.files[i]
  BY <1>1
<1>6. \A i \in DOMAIN mem.files :
         /\ files[i].path = mem.files[i].path /\ files[i].before = mem.files[i].before
         /\ files[i].after = mem.files[i].after /\ files[i].applied = mem.files[i].applied
         /\ files[i].restored <=> mem.files[i].restored \/ (i = at /\ ok)
  BY <1>2, <1>5
<1> HIDE DEF files
<1>7. /\ mem' \in OurJournal /\ mem'.entries = mem.entries /\ mem'.state = mem.state
      /\ mem'.files = files
  BY <1>3, <1>4, NewFields
<1>8. /\ sync' \in Process /\ sync'.stage = "undoFiles" /\ sync'.at = sync.at - 1
      /\ sync'.errs <=> sync.errs \/ ~ok
  <2>1. sync.at - 1 \in Nat /\ "undoFiles" \in Stage
    BY <1>1 DEF Stage, Undoing
  <2>2. sync' = [sync EXCEPT !.stage = "undoFiles", !.at = sync.at - 1, !.errs = @ \/ ~ok]
    BY DEF FileDone
  <2> QED BY <2>1, <2>2 DEF Process
<1> QED BY <1>4, <1>6, <1>7, <1>8 DEF FileMarked

LEMMA AtFiles ==
    ASSUME Booked, UndoFile \/ ReplaceFile
    PROVE  /\ mem \in OurJournal /\ sync \in Process /\ disk \in OurJournal
           /\ sync.at \in 1 .. Len(mem.files) /\ sync.stage \in {"undoFiles", "replaceFile"}
<1>1. /\ sync.stage \in {"undoFiles", "replaceFile"}
      /\ mem \in OurJournal /\ sync \in Process /\ disk \in OurJournal
  BY Working DEF UndoFile, ReplaceFile, At
<1>2. Len(mem.files) \in Nat /\ sync.at \in Nat
  BY <1>1, JournalFacts DEF Process
<1>3. UndoFile => sync.stage = "undoFiles" /\ sync.at > 0 /\ sync.at <= Len(mem.files)
  BY DEF UndoFile, At, Booked, Placed
<1>4. ReplaceFile => sync.stage = "replaceFile" /\ sync.at \in 1 .. Len(mem.files)
  BY DEF ReplaceFile, At, Booked, Placed
<1> QED BY <1>1, <1>2, <1>3, <1>4

LEMMA UndoFilesBooked ==
    ASSUME Booked, EntriesUndone \/ UndoFile \/ ReplaceFile \/ EndRollback PROVE Booked'
<1>0. sync.stage # "off" /\ mem \in OurJournal /\ disk \in OurJournal /\ sync \in Process
  BY Working DEF EntriesUndone, UndoFile, ReplaceFile, EndRollback, At
<1>1. Len(mem.files) \in Nat /\ sync.at \in Nat
  BY <1>0, JournalFacts DEF Process
<1>2. CASE EntriesUndone
  <2>1. /\ sync' \in Process /\ sync'.stage = "undoFiles" /\ sync'.at = Len(mem.files)
        /\ mem' = mem /\ disk' = disk
    BY <1>0, <1>1, <1>2 DEF EntriesUndone, Process, Stage, Undoing
  <2>2. Placed(sync', mem)
    BY <1>0, <1>1, <2>1 DEF Placed
  <2> QED BY <1>0, <2>1, <2>2, MoveStep
<1>3. ASSUME NEW ok \in BOOLEAN, FileDone(ok), sync.at \in 1 .. Len(mem.files), disk' = disk
      PROVE  Booked'
  <2>1. /\ mem' \in OurJournal /\ Len(mem'.files) = Len(mem.files) /\ sync' \in Process
        /\ sync'.stage = "undoFiles" /\ sync'.at = sync.at - 1
    BY <1>0, <1>3, FileDoneFacts DEF FileMarked
  <2>2. Placed(sync', mem')
    BY <1>1, <1>3, <2>1 DEF Placed
  <2> QED BY <1>0, <1>3, <2>1, <2>2, JournalFacts DEF Booked
<1>4. CASE UndoFile
  <2>1. sync.at \in 1 .. Len(mem.files) /\ disk' = disk
    BY <1>1, <1>4 DEF UndoFile, Booked, Placed, At
  <2>2. \/ FileDone(TRUE) \/ FileDone(FALSE) \/ (GoTo("replaceFile") /\ mem' = mem)
    BY <1>4 DEF UndoFile
  <2>3. CASE GoTo("replaceFile") /\ mem' = mem
    <3>1. sync' \in Process /\ sync'.stage = "replaceFile" /\ sync'.at = sync.at
      BY <1>0, <2>3 DEF GoTo, Process, Stage, Undoing
    <3>2. Placed(sync', mem)
      BY <1>0, <2>1, <3>1 DEF Placed
    <3> QED BY <1>0, <2>1, <2>3, <3>2, MoveStep
  <2> QED BY <1>3, <2>1, <2>2, <2>3
<1>5. CASE ReplaceFile
  <2>1. sync.at \in 1 .. Len(mem.files) /\ disk' = disk
    BY <1>5 DEF ReplaceFile, Booked, Placed, At
  <2>2. \E ok \in BOOLEAN : FileDone(ok)
    BY <1>5 DEF ReplaceFile
  <2> QED BY <1>3, <2>1, <2>2
<1>6. CASE EndRollback
  <2>1. disk' \in {disk, [mem EXCEPT !.state = FinalState]} /\ mem' = NoJournal /\ sync' = Off
    BY <1>6 DEF EndRollback
  <2>2. [mem EXCEPT !.state = FinalState] \in OurJournal
    BY <1>0, NewFields DEF FinalState, State
  <2>3. disk' \in OurJournal
    BY <1>0, <2>1, <2>2
  <2> QED BY <2>1, <2>3, OffPlaced DEF Booked
<1> QED BY <1>2, <1>4, <1>5, <1>6

LEMMA OutsideBooked ==
    ASSUME Booked, \/ Crash \/ Recover \/ UNCHANGED vars
                   \/ \E r \in Rows : OtherRow(r)
                   \/ \E f \in Files : OtherFile(f)
    PROVE  Booked'
<1>1. CASE Crash
  BY <1>1, OffPlaced DEF Crash, Booked
<1>2. CASE Recover
  <2>1. disk \in OurJournal /\ mem' = disk /\ disk' = disk /\ Fails(disk)
    BY <1>2 DEF Booked, Recover
  <2> QED BY <2>1, FailsPlaced, JournalFacts DEF Booked
<1>3. CASE UNCHANGED vars \/ (\E r \in Rows : OtherRow(r)) \/ (\E f \in Files : OtherFile(f))
  <2>1. disk' = disk /\ mem' = mem /\ sync' = sync
    BY <1>3 DEF OtherRow, OtherFile, vars
  <2> QED BY <2>1 DEF Booked
<1> QED BY <1>1, <1>2, <1>3
-----------------------------------------------------------------------------
(* What the databases and files hold stays a row, a value, or nothing. *)

\* The last of some numbers.
LEMMA LastOf ==
    ASSUME NEW n \in Nat, NEW S \in SUBSET (1 .. n), S # {}
    PROVE  \E i \in S : \A j \in S : j <= i
<1> DEFINE T == {n - i : i \in S}
<1>1. T \subseteq Nat /\ T # {}
  <2>1. \A i \in S : n - i \in Nat
    OBVIOUS
  <2>2. \E i \in S : n - i \in T
    OBVIOUS
  <2> QED BY <2>1, <2>2
<1> HIDE DEF T
<1>2. PICK x \in T : \A y \in T : ~(<<y, x>> \in OpToRel(<, Nat))
  <2>1. IsWellFoundedOn(OpToRel(<, Nat), Nat)
    BY NatLessThanWellFounded
  <2> HIDE DEF T
  <2> QED BY <1>1, <2>1, WFMin
<1>3. \A y \in T : ~(y < x)
  BY <1>1, <1>2 DEF OpToRel
<1>4. PICK i \in S : x = n - i
  BY DEF T
<1>5. \A j \in S : n - j \in T
  BY DEF T
<1> QED BY <1>3, <1>4, <1>5

\* A row that is restored has the columns of a row and is there, or the sync had
\* put it there.
LEMMA RestoredType ==
    ASSUME NEW change \in Change, NEW row \in Row \cup {NoRow}, ~Conflicts(row, change)
    PROVE  Restored(row, change) \in Row \cup {NoRow}
<1>1. change.before \in Row \cup {NoRow} /\ change.after \in Row \cup {NoRow}
  BY DEF Change
<1>2. CASE change.before # NoRow /\ change.after # NoRow
  <2>1. row \in Row /\ change.before \in Row
    BY <1>1, <1>2 DEF Conflicts
  <2>2. \A c \in Columns : row[c] \in Values /\ change.before[c] \in Values
    BY <2>1 DEF Row
  <2>3. Restored(row, change) = [c \in Columns |-> IF c \in Changed(change) THEN change.before[c]
                                                                       ELSE row[c]]
    BY <1>2 DEF Restored
  <2> QED BY <2>2, <2>3 DEF Row
<1>3. CASE ~(change.before # NoRow /\ change.after # NoRow)
  BY <1>1, <1>3 DEF Restored
<1> QED BY <1>2, <1>3

LEMMA CommitFacts ==
    ASSUME Stored, Booked, CommitTransaction
    PROVE  /\ mem \in OurJournal /\ Len(mem.entries) > 0 /\ sync.stage = "intent"
           /\ Last(mem.entries) = mem.entries[Len(mem.entries)] /\ Last(mem.entries) \in OurEntry
<1>1. mem \in OurJournal /\ Len(mem.entries) > 0 /\ sync.stage = "intent"
  BY Working DEF CommitTransaction, At, Booked, Placed
<1>2. /\ Len(mem.entries) \in DOMAIN mem.entries
      /\ \A i \in DOMAIN mem.entries : mem.entries[i] \in OurEntry
  BY <1>1, JournalFacts
<1> QED BY <1>1, <1>2 DEF Last

LEMMA CommitStored ==
    ASSUME Stored, Booked, CommitTransaction PROVE Stored'
<1>1. mem \in OurJournal /\ Len(mem.entries) > 0 /\ Last(mem.entries) \in OurEntry
  BY CommitFacts
<1> DEFINE entry == Last(mem.entries)
<1>2. \A r \in DOMAIN entry : r \in Rows /\ entry[r].after \in Row \cup {NoRow}
  BY <1>1, EntryFacts
<1>3. dropped' = dropped /\ fs' = fs /\ others' = others
  BY DEF CommitTransaction
<1>4. CASE /\ db' = Committed(entry)
           /\ removed' = {r \in Rows : IF r \in DOMAIN entry THEN entry[r].after = NoRow
                                      ELSE r \in removed}
           /\ faults' = faults
  <2> HIDE DEF entry
  <2>1. db' = [r \in Rows |-> IF r \in DOMAIN entry THEN entry[r].after ELSE db[r]]
    BY <1>4 DEF Committed
  <2>2. db' \in [Rows -> Row \cup {NoRow}]
    BY <1>2, <2>1 DEF Stored
  <2>3. removed' \subseteq {r \in Rows : db'[r] = NoRow}
    BY <1>4, <2>1 DEF Stored
  <2> QED BY <1>3, <1>4, <2>2, <2>3 DEF Stored
<1>5. CASE Fault /\ UNCHANGED <<db, removed>>
  BY <1>3, <1>5, FaultType DEF Stored
<1> QED BY <1>4, <1>5 DEF CommitTransaction

LEMMA UndoEntryStored ==
    ASSUME Stored, Booked, UndoEntry PROVE Stored'
<1> DEFINE entry == mem.entries[sync.at]
           rs    == Restorable(entry)
<1>1. entry \in OurEntry /\ dropped' = dropped /\ fs' = fs /\ others' = others
  BY UndoEntryFacts
<1>2. CASE /\ db' = [r \in Rows |-> IF r \in rs THEN Restored(db[r], entry[r]) ELSE db[r]]
           /\ removed' = {r \in removed : r \in rs => entry[r].before = NoRow}
           /\ faults' = faults
  <2>1. ASSUME NEW r \in rs
        PROVE  /\ Restored(db[r], entry[r]) \in Row \cup {NoRow}
               /\ entry[r].before = NoRow => Restored(db[r], entry[r]) = NoRow
    <3>1. r \in DOMAIN entry /\ ~Conflicts(db[r], entry[r])
      BY <2>1 DEF Restorable, Open
    <3>2. r \in Rows /\ entry[r] \in Change
      BY <1>1, <3>1, EntryFacts
    <3>3. db[r] \in Row \cup {NoRow}
      BY <3>2 DEF Stored
    <3> QED BY <3>1, <3>2, <3>3, RestoredType DEF Restored
  <2> HIDE DEF rs, entry
  <2>2. db' \in [Rows -> Row \cup {NoRow}]
    BY <1>2, <2>1 DEF Stored
  <2>3. removed' \subseteq {r \in Rows : db'[r] = NoRow}
    BY <1>2, <2>1 DEF Stored
  <2> QED BY <1>1, <1>2, <2>2, <2>3 DEF Stored
<1>3. CASE UNCHANGED <<db, removed>> /\ Fault
  BY <1>1, <1>3, FaultType DEF Stored
<1> QED BY <1>2, <1>3, UndoEntryFacts

\* The file that RestoreRewritten takes is one that was rewritten.
LEMMA RestoreFacts ==
    ASSUME Booked, RestoreRewritten, sync.done # {}
    PROVE  \E i \in DOMAIN mem.files :
              LET f == mem.files[i].path IN
              /\ mem.files[i] \in FileChange
              /\ sync' = [sync EXCEPT !.done = sync.done \ {f}]
              /\ \/ /\ fs[f] = mem.files[i].after
                    /\ fs' = [fs EXCEPT ![f] = mem.files[i].before] /\ faults' = faults
                 \/ fs[f] # mem.files[i].after /\ UNCHANGED <<fs, faults>>
                 \/ Fault /\ UNCHANGED fs
<1>1. /\ mem \in OurJournal /\ sync.at \in 1 .. Len(mem.files) + 1
      /\ \A f \in sync.done : \E i \in 1 .. sync.at - 1 : mem.files[i].path = f
  BY Working DEF RestoreRewritten, At, Booked, Placed
<1>2. Len(mem.files) \in Nat /\ DOMAIN mem.files = 1 .. Len(mem.files)
      /\ \A i \in DOMAIN mem.files : mem.files[i] \in FileChange
  BY <1>1, JournalFacts
<1> DEFINE n == sync.at - 1
           S == {i \in 1 .. n : mem.files[i].path \in sync.done}
           P(i) == /\ mem.files[i].path \in sync.done
                   /\ \A j \in i + 1 .. n : mem.files[j].path \notin sync.done
           i == CHOOSE i \in 1 .. n : P(i)
<1>3. n \in Nat /\ n <= Len(mem.files)
  BY <1>1, <1>2
<1>4. S # {} /\ S \in SUBSET (1 .. n)
  BY <1>1
<1>5. PICK k \in S : \A j \in S : j <= k
  <2> HIDE DEF S, n
  <2> QED BY <1>3, <1>4, LastOf
<1>6. \E m \in 1 .. n : P(m)
  <2>1. k \in 1 .. n /\ mem.files[k].path \in sync.done
    BY <1>5
  <2>2. ASSUME NEW j \in k + 1 .. n PROVE mem.files[j].path \notin sync.done
    <3>1. j \in 1 .. n /\ j > k
      BY <1>3, <2>1
    <3>2. j \notin S
      BY <1>3, <1>5, <2>1, <3>1
    <3> QED BY <3>1, <3>2
  <2> QED BY <2>1, <2>2
<1>7. i \in 1 .. n
  <2> HIDE DEF P, n
  <2> QED BY <1>6
<1>8. i \in DOMAIN mem.files
  BY <1>2, <1>3, <1>7
<1>9. LET f == mem.files[i].path IN
      /\ sync' = [sync EXCEPT !.done = sync.done \ {f}]
      /\ \/ /\ fs[f] = mem.files[i].after
            /\ fs' = [fs EXCEPT ![f] = mem.files[i].before] /\ faults' = faults
         \/ fs[f] # mem.files[i].after /\ UNCHANGED <<fs, faults>>
         \/ Fault /\ UNCHANGED fs
  BY DEF RestoreRewritten
<1> HIDE DEF i
<1> QED BY <1>2, <1>8, <1>9

LEMMA FilesStored ==
    ASSUME Stored, Booked,
           RenameRollout \/ RestoreRewritten \/ WriteGlobalState \/ WriteBackup \/ ReplaceFile
    PROVE  Stored'
<1>1. /\ mem \in OurJournal /\ Len(mem.files) \in Nat
      /\ \A i \in 1 .. Len(mem.files) : mem.files[i] \in FileChange
  BY Working, JournalFacts DEF RenameRollout, RestoreRewritten, WriteGlobalState, WriteBackup,
                               ReplaceFile, At
<1>2. /\ db' = db /\ removed' = removed /\ dropped' = dropped /\ others' = others
  BY DEF RenameRollout, RestoreRewritten, WriteGlobalState, WriteBackup, ReplaceFile
<1>3. ASSUME NEW f, NEW v \in Values \cup {NoFile}, fs' = [fs EXCEPT ![f] = v], faults' = faults
      PROVE  Stored'
  BY <1>2, <1>3 DEF Stored
<1>4. CASE UNCHANGED fs /\ (faults' = faults \/ Fault)
  BY <1>2, <1>4, FaultType DEF Stored
<1>5. ASSUME NEW i \in 1 .. Len(mem.files)
      PROVE  mem.files[i].after \in Values \cup {NoFile} /\ mem.files[i].before \in Values \cup {NoFile}
  BY <1>1, <1>5 DEF FileChange, Values
<1>6. CASE RenameRollout
  <2>1. sync.at \in 1 .. Len(mem.files)
    BY <1>6 DEF RenameRollout, At, Booked, Placed
  <2> QED BY <1>3, <1>5, <1>6, <2>1 DEF RenameRollout
<1>7. CASE RestoreRewritten
  <2>1. CASE sync.done = {}
    BY <1>4, <1>7, <2>1 DEF RestoreRewritten
  <2>2. CASE sync.done # {}
    <3>1. PICK i \in DOMAIN mem.files :
             LET f == mem.files[i].path IN
             \/ fs' = [fs EXCEPT ![f] = mem.files[i].before] /\ faults' = faults
             \/ UNCHANGED <<fs, faults>>
             \/ Fault /\ UNCHANGED fs
      BY <1>7, <2>2, RestoreFacts
    <3>2. i \in 1 .. Len(mem.files)
      BY <1>1, JournalFacts
    <3> QED BY <1>3, <1>4, <1>5, <3>1, <3>2
  <2> QED BY <2>1, <2>2
<1>8. CASE WriteGlobalState \/ WriteBackup
  <2>1. Len(mem.files) > 1
    BY <1>8 DEF WriteGlobalState, WriteBackup, At, Booked, Placed
  <2>2. Len(mem.files) - 1 \in 1 .. Len(mem.files) /\ Last(mem.files) = mem.files[Len(mem.files)]
    BY <1>1, <2>1 DEF Last
  <2>3. /\ mem.files[Len(mem.files) - 1].after \in Values \cup {NoFile}
        /\ Last(mem.files).after \in Values \cup {NoFile}
    <3>1. Len(mem.files) \in 1 .. Len(mem.files)
      BY <1>1, <2>1
    <3> QED BY <1>5, <2>2, <3>1
  <2>4. \/ fs' = [fs EXCEPT ![GlobalState] = mem.files[Len(mem.files) - 1].after] /\ faults' = faults
        \/ fs' = [fs EXCEPT ![GlobalBackup] = Last(mem.files).after] /\ faults' = faults
        \/ UNCHANGED fs /\ Fault
    BY <1>8 DEF WriteGlobalState, WriteBackup
  <2> QED BY <1>3, <1>4, <2>3, <2>4
<1>9. CASE ReplaceFile
  <2>1. sync.at \in 1 .. Len(mem.files)
    BY <1>9 DEF ReplaceFile, At, Booked, Placed
  <2> QED BY <1>3, <1>5, <1>9, <2>1 DEF ReplaceFile
<1> QED BY <1>6, <1>7, <1>8, <1>9

LEMMA OthersStored ==
    ASSUME Stored, (\E r \in Rows : OtherRow(r)) \/ (\E f \in Files : OtherFile(f))
    PROVE  Stored'
<1>1. CASE \E r \in Rows : OtherRow(r)
  <2>1. PICK r \in Rows : OtherRow(r)
    BY <1>1
  <2>2. PICK row \in Row \cup {NoRow} : db' = [db EXCEPT ![r] = row]
    BY <2>1 DEF OtherRow
  <2>3. db' \in [Rows -> Row \cup {NoRow}]
    BY <2>2 DEF Stored
  <2>4. removed' \subseteq {q \in Rows : db'[q] = NoRow} /\ dropped' \subseteq Rows
    BY <2>1, <2>2 DEF OtherRow, Stored
  <2>5. others' \in 0 .. MaxOthers /\ fs' = fs /\ faults' = faults
    BY <2>1, OtherType DEF OtherRow, Stored
  <2> QED BY <2>3, <2>4, <2>5 DEF Stored
<1>2. CASE \E f \in Files : OtherFile(f)
  <2>1. PICK f \in Files, v \in OtherValues \cup {NoFile} :
           Other /\ fs' = [fs EXCEPT ![f] = v] /\ UNCHANGED <<db, removed, dropped, faults>>
    BY <1>2 DEF OtherFile
  <2>2. others' \in 0 .. MaxOthers
    BY <2>1, OtherType DEF Stored
  <2>3. fs' \in [Files -> Values \cup {NoFile}]
    BY <2>1 DEF Stored, Values
  <2> QED BY <2>1, <2>2, <2>3 DEF Stored
<1> QED BY <1>1, <1>2

\* All other steps leave what is stored alone, but for the count of the faults.
LEMMA RestStored ==
    ASSUME Stored,
           \/ NewSync \/ PrepareRollouts \/ RolloutMissing \/ RewriteRollout
           \/ MarkRolloutsApplied \/ BeginTransaction \/ MarkCommitted \/ SyncFails
           \/ PrepareGlobalState \/ PrepareBackup \/ CheckGlobalState \/ Complete
           \/ KeepEntry \/ EntriesUndone \/ UndoFile \/ EndRollback
           \/ Crash \/ Recover \/ UNCHANGED vars
    PROVE  Stored'
<1>1. UNCHANGED <<db, removed, dropped, fs, others>>
  BY DEF NewSync, PrepareRollouts, RolloutMissing, RewriteRollout, MarkRolloutsApplied,
         BeginTransaction, MarkCommitted, SyncFails, PrepareGlobalState, PrepareBackup,
         CheckGlobalState, Complete, KeepEntry, EntriesUndone, UndoFile, EndRollback,
         Crash, Recover, vars
<1>2. faults' = faults \/ Fault
  BY DEF NewSync, PrepareRollouts, RolloutMissing, RewriteRollout, MarkRolloutsApplied,
         BeginTransaction, MarkCommitted, SyncFails, PrepareGlobalState, PrepareBackup,
         CheckGlobalState, Complete, KeepEntry, EntriesUndone, UndoFile, EndRollback,
         Crash, Recover, vars, PersistThen, PersistUndoThen
<1> QED BY <1>1, <1>2, FaultType DEF Stored

\* The invariant of all that follows.
LEMMA InitTyped == Init => IInv
<1> SUFFICES ASSUME Init PROVE IInv
  OBVIOUS
<1>1. [c \in Columns |-> Base] \in Row
  BY JournalAssumption DEF Row, Values
<1>2. db \in [Rows -> Row \cup {NoRow}]
  BY <1>1 DEF Init
<1>3. fs \in [Files -> Values \cup {NoFile}]
  BY JournalAssumption DEF Init, Values
<1>4. Stored
  BY <1>2, <1>3, JournalAssumption DEF Init, Stored
<1>5. Booked
  BY OffPlaced DEF Init, Booked
<1> QED BY <1>4, <1>5 DEF IInv

LEMMA NextTyped == IInv /\ [Next]_vars => IInv'
<1> SUFFICES ASSUME IInv, [Next]_vars PROVE IInv'
  OBVIOUS
<1>1. Stored /\ Booked
  BY DEF IInv
<1>2. CASE SyncStep
  <2>1. Stored'
    BY <1>1, <1>2, CommitStored, FilesStored, RestStored DEF SyncStep
  <2>2. Booked'
    BY <1>1, <1>2, NewSyncBooked, FilesBooked, TransactionBooked, GlobalBooked DEF SyncStep
  <2> QED BY <2>1, <2>2 DEF IInv
<1>3. CASE UndoStep
  <2>1. Stored'
    BY <1>1, <1>3, UndoEntryStored, FilesStored, RestStored DEF UndoStep
  <2>2. UndoEntry => Booked'
    BY <1>1, UndoEntryBooked
  <2>3. Booked'
    BY <1>1, <1>3, <2>2, KeepEntryFacts, UndoFilesBooked DEF UndoStep
  <2> QED BY <2>1, <2>3 DEF IInv
<1>4. CASE ~SyncStep /\ ~UndoStep
  <2>1. \/ Crash \/ Recover \/ UNCHANGED vars
        \/ (\E r \in Rows : OtherRow(r)) \/ (\E f \in Files : OtherFile(f))
    BY <1>4 DEF Next
  <2> QED BY <1>1, <2>1, OthersStored, RestStored, OutsideBooked DEF IInv
<1> QED BY <1>2, <1>3, <1>4

LEMMA Inductive == Spec => []IInv
BY InitTyped, NextTyped, PTL DEF Spec

\* The type invariant, of which the part that matters is the journals: on disk and
\* in memory they hold well-formed images after any fault, crash and recovery
\* (sync_journal.rs).
THEOREM TypeCorrect == Spec => []TypeOK
<1>1. IInv => TypeOK
  <2> SUFFICES ASSUME IInv PROVE TypeOK
    OBVIOUS
  <2>1. {disk, mem} \subseteq Journal \cup {NoJournal} /\ sync \in Process
    BY OursIsTyped DEF IInv, Booked, Placed
  <2> QED BY <2>1 DEF IInv, Stored, TypeOK
<1> QED BY <1>1, Inductive, PTL

\* A rollback never overwrites or deletes a cell that somebody else has written
\* since in a row that the sync changed too (restore_change): what it changes in
\* a row still is what the sync wrote there.
THEOREM SparesOthers == Spec => RollbackSparesOthers
<1>1. ASSUME IInv, UndoEntry, NEW r \in Rows, NEW c \in Columns,
             db[r] # NoRow, db[r][c] \in OtherValues
      PROVE  db'[r] # NoRow /\ db'[r][c] = db[r][c]
  <2> DEFINE entry == mem.entries[sync.at]
             rs    == Restorable(entry)
  <2>1. entry \in OurEntry /\ db[r] \in Row
    BY <1>1, UndoEntryFacts, NoRowAssumption DEF IInv, Stored
  <2>2. CASE db' = [q \in Rows |-> IF q \in rs THEN Restored(db[q], entry[q]) ELSE db[q]]
    <3>1. CASE r \in rs
      <4> DEFINE change == entry[r]
      <4>1. r \in DOMAIN entry /\ ~Conflicts(db[r], change)
        BY <3>1 DEF Restorable, Open
      <4>2. db'[r] = Restored(db[r], change)
        BY <2>2, <3>1
      <4>3. change \in OurChange /\ change \in Change
        BY <2>1, <4>1, EntryFacts
      <4>4. db[r][c] \notin SyncValues
        BY <1>1, JournalAssumption
      <4> HIDE DEF change, rs, entry
      <4>5. CASE change.before # NoRow /\ change.after # NoRow
        <5>1. Restored(db[r], change) = [d \in Columns |-> IF d \in Changed(change)
                                              THEN change.before[d] ELSE db[r][d]]
          BY <4>5 DEF Restored
        <5>2. Restored(db[r], change) # NoRow
          <6>1. \A d \in Columns : change.before[d] \in Values /\ db[r][d] \in Values
            BY <2>1, <4>3, <4>5 DEF Change, Row
          <6>2. Restored(db[r], change) \in Row
            BY <5>1, <6>1 DEF Row
          <6> QED BY <6>2, NoRowAssumption
        <5>3. c \in Changed(change) => change.before[c] = db[r][c]
          <6> SUFFICES ASSUME c \in Changed(change) PROVE change.before[c] = db[r][c]
            OBVIOUS
          <6>1. change.after[c] \in SyncValues
            BY <4>3, <4>5 DEF OurChange, IsSet
          <6>2. db[r][c] # change.after[c]
            BY <4>4, <6>1
          <6>3. ~Holds(db[r], change.after, Changed(change))
            BY <6>2 DEF Holds
          <6>4. Holds(db[r], change.before, Changed(change))
            BY <4>1, <4>5, <6>3 DEF Conflicts
          <6> QED BY <6>4 DEF Holds
        <5> QED BY <4>2, <5>1, <5>2, <5>3
      <4>6. CASE change.before = NoRow
        <5>1. db[r] = change.after /\ change.after \in [Columns -> SyncValues]
          BY <1>1, <4>1, <4>3, <4>6 DEF Conflicts, OurChange
        <5> QED BY <4>4, <5>1
      <4>7. CASE change.before # NoRow /\ change.after = NoRow
        BY <1>1, <4>1, <4>2, <4>7 DEF Conflicts, Restored
      <4> QED BY <4>5, <4>6, <4>7
    <3>2. CASE r \notin rs
      BY <1>1, <2>2, <3>2
    <3> QED BY <3>1, <3>2
  <2>3. CASE db' = db
    BY <1>1, <2>3
  <2> QED BY <1>1, <2>2, <2>3, UndoEntryFacts DEF IInv
<1>2. IInv /\ UndoStep =>
         \A r \in Rows, c \in Columns :
            db[r] # NoRow /\ db[r][c] \in OtherValues => db'[r] # NoRow /\ db'[r][c] = db[r][c]
  <2>1. ASSUME UndoStep, ~UndoEntry PROVE db' = db
    BY <2>1 DEF UndoStep, KeepEntry, EntriesUndone, UndoFile, ReplaceFile, EndRollback
  <2> QED BY <1>1, <2>1
<1>3. IInv /\ [Next]_vars =>
         [UndoStep =>
            \A r \in Rows, c \in Columns :
               db[r] # NoRow /\ db[r][c] \in OtherValues
               => db'[r] # NoRow /\ db'[r][c] = db[r][c]]_vars
  BY <1>2
<1> QED BY <1>3, Inductive, PTL DEF Spec, RollbackSparesOthers
-----------------------------------------------------------------------------
(* The rows: the entries of either journal can undo what the sync did to them. *)

InSync == sync.stage \notin Undoing \cup {"off"}

\* A change that gives a cell its value, and one that removes a row.
Gives(change, c, v) ==
    /\ change.after # NoRow /\ change.after[c] = v
    /\ change.before # NoRow => change.before[c] # v
Removes(change) == change.before # NoRow /\ change.after = NoRow

\* Some entry that is not crossed off can undo it.
KeepsCell(es, r, c, v) == \E i \in DOMAIN es : r \in Open(es[i]) /\ Gives(es[i][r], c, v)
KeepsSet(es, r, c, v) ==
    \E i \in DOMAIN es : r \in Open(es[i]) /\ IsSet(es[i][r]) /\ Gives(es[i][r], c, v)
KeepsRemoval(es, r) == \E i \in DOMAIN es : r \in Open(es[i]) /\ es[i][r].after = NoRow

\* Some entry can undo each cell that holds what the sync wrote, and each removal.
Covers(es) ==
    /\ \A r \in Rows \ dropped, c \in Columns :
          db[r] # NoRow /\ db[r][c] \in SyncValues => KeepsCell(es, r, c, db[r][c])
    /\ \A r \in removed : KeepsRemoval(es, r)

\* A row that the rollback will not put back: it is there, and not as the sync left it.
Stuck(r) == ~InSync /\ db[r] # NoRow /\ \E c \in Columns : db[r][c] \notin SyncValues

\* A row that is put back holds what the sync had set before it removed the row,
\* and then needs the entry that set it.
Backs(es1, es2) ==
    \A k \in DOMAIN es1 : \A r \in Open(es1[k]) \ dropped, c \in Columns :
       Removes(es1[k][r]) /\ es1[k][r].before[c] \in SyncValues
       => KeepsSet(es2, r, c, es1[k][r].before[c]) \/ Stuck(r)

\* The entries of the journal in memory and of the one on disk.
Images == {j.entries : j \in {mem, disk} \ {NoJournal}}

\* Both journals can undo what the sync did to the rows.  While it still goes on,
\* nothing is crossed off; before a commit, the rows are as its entry says.
RowsKept ==
    /\ disk = NoJournal =>
          /\ removed = {}
          /\ \A r \in Rows, c \in Columns : db[r] # NoRow => db[r][c] \notin SyncValues
    /\ \A es \in Images : Covers(es)
    /\ \A es1, es2 \in Images : Backs(es1, es2)
    /\ InSync => /\ disk.entries = mem.entries
                 /\ \A i \in DOMAIN mem.entries : Open(mem.entries[i]) = DOMAIN mem.entries[i]
    /\ At("intent") => LET entry == Last(mem.entries) IN \A r \in DOMAIN entry : entry[r].before = db[r]

\* A step that leaves the rows and the entries alone.
QuietRows ==
    /\ UNCHANGED <<db, removed, dropped>>
    /\ \A j \in {mem', disk'} : j = NoJournal \/ \E i \in {mem, disk} \ {NoJournal} : j.entries = i.entries
    /\ disk' = NoJournal => disk = NoJournal
    /\ InSync' => InSync /\ mem'.entries = mem.entries /\ disk'.entries \in {mem.entries, disk.entries}
    /\ sync'.stage # "intent"

LEMMA QuietRowsStep ==
    ASSUME RowsKept, QuietRows PROVE RowsKept'
<1>1. Images' \subseteq Images
  BY DEF QuietRows, Images
<1>2. db' = db /\ removed' = removed /\ dropped' = dropped /\ (InSync' => InSync)
  BY DEF QuietRows
<1>3. \A es : Covers(es)' <=> Covers(es)
  BY <1>2 DEF Covers
<1>4. ASSUME NEW r, Stuck(r) PROVE Stuck(r)'
  BY <1>2, <1>4 DEF Stuck
<1>5. ASSUME NEW es1, NEW es2, Backs(es1, es2) PROVE Backs(es1, es2)'
  BY <1>2, <1>4, <1>5 DEF Backs
<1>6. \A es \in Images' : Covers(es)'
  BY <1>1, <1>3 DEF RowsKept
<1>7. \A es1, es2 \in Images' : Backs(es1, es2)'
  BY <1>1, <1>5 DEF RowsKept
<1>8. /\ disk' = NoJournal => disk = NoJournal
      /\ InSync' => InSync /\ mem'.entries = mem.entries /\ disk'.entries \in {mem.entries, disk.entries}
      /\ ~At("intent")'
  BY DEF QuietRows, At
<1> QED BY <1>2, <1>6, <1>7, <1>8 DEF RowsKept

LEMMA PersistFacts ==
    ASSUME NEW j, NEW next, PersistThen(j, next)
    PROVE  /\ mem' = j /\ disk' \in {disk, j}
           /\ \/ sync' = next /\ disk' = j /\ faults' = faults
              \/ Fails(j) /\ Fault
BY DEF PersistThen

\* The journal in memory with other files or another state, saved or not.
LEMMA PersistQuiet ==
    ASSUME Booked, InSync, NEW j \in OurJournal, j.entries = mem.entries,
           NEW next, next.stage \notin {"intent", "off"}, PersistThen(j, next),
           UNCHANGED <<db, removed, dropped>>
    PROVE  QuietRows
<1>1. mem \in OurJournal /\ disk \in OurJournal /\ mem # NoJournal /\ disk # NoJournal
  BY Working, JournalFacts DEF InSync
<1>2. mem' = j /\ disk' \in {disk, j} /\ (sync' = next \/ sync'.stage = "undoEntries")
  <2>1. Fails(j) => sync'.stage = "undoEntries"
    BY FailsPlaced
  <2> QED BY <2>1, PersistFacts
<1> QED BY <1>1, <1>2, JournalFacts DEF QuietRows, InSync

\* A step to another stage, or off, with the journals as they are.
LEMMA MoveQuiet ==
    ASSUME Booked, sync.stage # "off", disk' = disk, mem' \in {mem, NoJournal},
           sync'.stage \in Undoing \cup {"off"} \/ (InSync /\ mem' = mem /\ sync'.stage # "intent"),
           UNCHANGED <<db, removed, dropped>>
    PROVE  QuietRows
<1>1. mem \in OurJournal /\ disk \in OurJournal /\ mem # NoJournal /\ disk # NoJournal
  BY Working, JournalFacts
<1> QED BY <1>1 DEF QuietRows, InSync, Undoing

LEMMA SyncQuiet ==
    ASSUME Stored, Booked,
           \/ PrepareRollouts \/ RolloutMissing \/ RewriteRollout \/ RenameRollout
           \/ RestoreRewritten \/ MarkRolloutsApplied \/ MarkCommitted \/ SyncFails
           \/ PrepareGlobalState \/ PrepareBackup \/ CheckGlobalState \/ WriteGlobalState
           \/ WriteBackup \/ Complete
    PROVE  QuietRows
<1>0. /\ sync.stage # "off" /\ InSync
      /\ mem \in OurJournal /\ disk \in OurJournal /\ mem # NoJournal /\ disk # NoJournal
      /\ sync \in Process
  <2>1. InSync /\ sync.stage # "off"
    BY DEF PrepareRollouts, RolloutMissing, RewriteRollout, RenameRollout,
           RestoreRewritten, MarkRolloutsApplied, MarkCommitted, SyncFails,
           PrepareGlobalState, PrepareBackup, CheckGlobalState, WriteGlobalState,
           WriteBackup, Complete, At, InSync, Undoing
  <2> QED BY <2>1, Working, JournalFacts
<1>1. UNCHANGED <<db, removed, dropped>>
  BY DEF PrepareRollouts, RolloutMissing, RewriteRollout, RenameRollout,
         RestoreRewritten, MarkRolloutsApplied, MarkCommitted, SyncFails,
         PrepareGlobalState, PrepareBackup, CheckGlobalState, WriteGlobalState,
         WriteBackup, Complete
<1>2. CASE PrepareRollouts
  <2>1. PICK x \in Seq(FileChange) :
           LET journal == [mem EXCEPT !.files = x] IN
           \/ /\ mem' = journal /\ disk' = journal
              /\ sync' = [Off EXCEPT !.stage = "rewrite", !.at = 1]
           \/ disk' \in {disk, journal} /\ mem' = NoJournal /\ sync' = Off
    BY <1>2, PlansPlaced
  <2> DEFINE journal == [mem EXCEPT !.files = x]
  <2>2. journal \in OurJournal /\ journal.entries = mem.entries /\ journal # NoJournal
    BY <1>0, NewFields, JournalFacts
  <2> HIDE DEF journal
  <2>3. \/ mem' = journal /\ disk' = journal /\ sync'.stage = "rewrite"
        \/ disk' \in {disk, journal} /\ mem' = NoJournal /\ sync'.stage = "off"
    <3>1. [Off EXCEPT !.stage = "rewrite", !.at = 1].stage = "rewrite"
      BY DEF Off
    <3>2. \/ mem' = journal /\ disk' = journal /\ sync' = [Off EXCEPT !.stage = "rewrite", !.at = 1]
          \/ disk' \in {disk, journal} /\ mem' = NoJournal /\ sync' = Off
      BY <2>1 DEF journal
    <3> QED BY <3>1, <3>2, OffPlaced
  <2> QED BY <1>0, <1>1, <2>2, <2>3 DEF QuietRows, InSync
<1>3. CASE RolloutMissing
  BY <1>0, <1>1, <1>3, OffPlaced, MoveQuiet DEF RolloutMissing
<1>4. CASE RewriteRollout \/ RenameRollout \/ RestoreRewritten
  <2>1. mem' = mem /\ disk' = disk
    BY <1>4 DEF RewriteRollout, RenameRollout, RestoreRewritten
  <2>2. sync'.stage \in {"rewrite", "rename", "restore", "undoEntries"}
    <3>1. Fails(mem) => sync'.stage = "undoEntries"
      BY <1>0, FailsPlaced
    <3> QED BY <1>0, <1>4, <3>1 DEF RewriteRollout, RenameRollout, RestoreRewritten, At, GoTo, Process
  <2> QED BY <1>0, <1>1, <2>1, <2>2, MoveQuiet DEF Undoing
<1>5. CASE MarkRolloutsApplied
  <2>1. PICK x \in Seq(FileChange) :
           PersistThen([mem EXCEPT !.files = x], [Off EXCEPT !.stage = "ready"])
    BY <1>0, <1>5, MarkFacts
  <2>2. [mem EXCEPT !.files = x] \in OurJournal /\ [mem EXCEPT !.files = x].entries = mem.entries
    BY <1>0, NewFields
  <2>3. [Off EXCEPT !.stage = "ready"].stage = "ready"
    BY DEF Off
  <2> QED BY <1>0, <1>1, <2>1, <2>2, <2>3, PersistQuiet
<1>6. CASE MarkCommitted
  <2>1. [sync EXCEPT !.stage = "ready"].stage = "ready"
    BY <1>0 DEF Process
  <2> QED BY <1>0, <1>1, <1>6, <2>1, PersistQuiet DEF MarkCommitted
<1>7. CASE SyncFails \/ CheckGlobalState \/ WriteGlobalState \/ WriteBackup
  <2>1. mem' = mem /\ disk' = disk
    BY <1>7 DEF SyncFails, CheckGlobalState, WriteGlobalState, WriteBackup
  <2>2. sync'.stage \in {"write", "writeBackup", "complete", "undoEntries"}
    <3>1. Fails(mem) => sync'.stage = "undoEntries"
      BY <1>0, FailsPlaced
    <3> QED BY <1>0, <1>7, <3>1
            DEF SyncFails, CheckGlobalState, WriteGlobalState, WriteBackup, GoTo, Process
  <2> QED BY <1>0, <1>1, <2>1, <2>2, MoveQuiet DEF Undoing
<1>8. CASE PrepareGlobalState \/ PrepareBackup
  <2>1. PICK x \in FileChange, stage \in {"prepareBackup", "check"} :
           PersistThen([mem EXCEPT !.files = Append(mem.files, x)], [sync EXCEPT !.stage = stage])
    BY <1>0, <1>8, GlobalFacts
  <2> DEFINE files == Append(mem.files, x)
  <2>2. files \in Seq(FileChange)
    BY <1>0, JournalFacts
  <2>3. [sync EXCEPT !.stage = stage].stage = stage
    BY <1>0 DEF Process
  <2>4. PersistThen([mem EXCEPT !.files = files], [sync EXCEPT !.stage = stage])
    BY <2>1
  <2> HIDE DEF files
  <2>5. [mem EXCEPT !.files = files] \in OurJournal /\ [mem EXCEPT !.files = files].entries = mem.entries
    BY <1>0, <2>2, NewFields
  <2> QED BY <1>0, <1>1, <2>3, <2>4, <2>5, PersistQuiet
<1>9. CASE Complete
  <2> DEFINE journal == [mem EXCEPT !.state = "complete"]
  <2>1. journal \in OurJournal /\ journal.entries = mem.entries /\ journal # NoJournal
    BY <1>0, NewFields, JournalFacts DEF State
  <2>2. \/ disk' = journal /\ mem' = NoJournal /\ sync' = Off
        \/ disk' \in {disk, journal} /\ mem' = journal /\ Fails(journal)
    BY <1>9 DEF Complete
  <2> HIDE DEF journal
  <2>3. /\ mem' \in {journal, NoJournal} /\ disk' \in {disk, journal}
        /\ sync'.stage \in {"off", "undoEntries"}
    BY <2>1, <2>2, FailsPlaced, OffPlaced
  <2> QED BY <1>0, <1>1, <2>1, <2>3 DEF QuietRows, InSync, Undoing
<1> QED BY <1>2, <1>3, <1>4, <1>5, <1>6, <1>7, <1>8, <1>9

LEMMA UndoQuiet ==
    ASSUME Booked, KeepEntry \/ EntriesUndone \/ UndoFile \/ ReplaceFile \/ EndRollback
                   \/ Crash \/ Recover
    PROVE  QuietRows
<1>1. UNCHANGED <<db, removed, dropped>>
  BY DEF KeepEntry, EntriesUndone, UndoFile, ReplaceFile, EndRollback, Crash, Recover
<1>2. CASE KeepEntry
  <2>1. /\ mem \in OurJournal /\ disk \in OurJournal /\ mem' = mem
        /\ disk' \in {disk, mem} /\ sync'.stage = "undoEntries"
    BY <1>2, KeepEntryFacts
  <2> QED BY <1>1, <2>1, JournalFacts DEF QuietRows, InSync, Undoing
<1>3. CASE EntriesUndone \/ UndoFile \/ ReplaceFile \/ EndRollback
  <2>0. sync.stage # "off" /\ mem \in OurJournal /\ disk \in OurJournal /\ sync \in Process
        /\ mem # NoJournal /\ disk # NoJournal
    BY <1>3, Working, JournalFacts DEF EntriesUndone, UndoFile, ReplaceFile, EndRollback, At
  <2>1. CASE EntriesUndone \/ UndoFile \/ ReplaceFile
    <3>1. disk' = disk
      BY <2>1 DEF EntriesUndone, UndoFile, ReplaceFile
    <3>2. ASSUME NEW ok \in BOOLEAN, FileDone(ok), UndoFile \/ ReplaceFile
          PROVE  mem' \in OurJournal /\ mem'.entries = mem.entries /\ sync'.stage = "undoFiles"
      BY <2>0, <3>2, FileDoneFacts, AtFiles DEF FileMarked
    <3>3. mem' \in OurJournal /\ mem'.entries = mem.entries /\ sync'.stage \in {"undoFiles", "replaceFile"}
      <4>1. CASE UndoFile \/ ReplaceFile
        <5>1. (\E ok \in BOOLEAN : FileDone(ok)) \/ (GoTo("replaceFile") /\ mem' = mem)
          BY <4>1 DEF UndoFile, ReplaceFile
        <5> QED BY <2>0, <3>2, <4>1, <5>1 DEF GoTo, Process
      <4>2. CASE EntriesUndone
        BY <2>0, <4>2 DEF EntriesUndone, Process
      <4> QED BY <2>1, <4>1, <4>2
    <3> QED BY <1>1, <2>0, <3>1, <3>3 DEF QuietRows, InSync, Undoing
  <2>2. CASE EndRollback
    <3> DEFINE journal == [mem EXCEPT !.state = FinalState]
    <3>1. disk' \in {disk, journal} /\ mem' = NoJournal /\ sync' = Off
      BY <2>2 DEF EndRollback
    <3>2. journal \in OurJournal /\ journal.entries = mem.entries
      <4>1. FinalState \in State
        BY DEF FinalState, State
      <4> QED BY <2>0, <4>1, NewFields
    <3> HIDE DEF journal
    <3> QED BY <1>1, <2>0, <3>1, <3>2, OffPlaced, JournalFacts DEF QuietRows, InSync, Undoing
  <2> QED BY <1>3, <2>1, <2>2
<1>4. CASE Crash
  <2>1. sync.stage # "off" \/ (sync.stage = "off" /\ mem = NoJournal)
    BY DEF Booked, Placed
  <2> QED BY <1>1, <1>4, <2>1, OffPlaced DEF Crash, QuietRows, InSync
<1>5. CASE Recover
  <2>1. disk \in OurJournal /\ mem' = disk /\ disk' = disk /\ Fails(disk) /\ disk # NoJournal
    BY <1>5 DEF Booked, Recover
  <2>2. sync'.stage = "undoEntries"
    BY <2>1, FailsPlaced
  <2> QED BY <1>1, <2>1, <2>2 DEF QuietRows, InSync, Undoing
<1> QED BY <1>2, <1>3, <1>4, <1>5

\* What there is of the entries, when there is a journal in memory.
LEMMA TwoImages ==
    ASSUME Booked, sync.stage # "off"
    PROVE  /\ Images = {mem.entries, disk.entries}
           /\ mem.entries \in Seq(OurEntry) /\ disk.entries \in Seq(OurEntry)
<1>1. mem \in OurJournal /\ disk \in OurJournal /\ mem # NoJournal /\ disk # NoJournal
  BY Working, JournalFacts
<1> QED BY <1>1, JournalFacts DEF Images

LEMMA NewSyncRows ==
    ASSUME Booked, RowsKept, NewSync PROVE RowsKept'
<1>1. mem = NoJournal /\ disk = NoJournal /\ UNCHANGED <<db, removed, dropped>>
  BY DEF NewSync, Booked, Placed, At
<1>2. /\ removed' = {}
      /\ \A r \in Rows, c \in Columns : db'[r] # NoRow => db'[r][c] \notin SyncValues
  BY <1>1 DEF RowsKept
<1>3. /\ mem' \in {NoJournal, NewJournal} /\ disk' \in {NoJournal, NewJournal}
      /\ \/ mem' = NewJournal /\ disk' = NewJournal /\ sync'.stage = "new"
         \/ sync'.stage = "off"
  <2>1. sync \in Process /\ sync.stage = "off"
    BY DEF NewSync, Booked, Placed, At
  <2> QED BY <1>1, <2>1 DEF NewSync, GoTo, Process
<1>4. Images' \subseteq {<< >>}
  BY <1>3, NewJournalIsOurs DEF Images
<1>5. \A es \in Images' : Covers(es)'
  BY <1>2, <1>4 DEF Covers
<1>6. \A es1, es2 \in Images' : Backs(es1, es2)'
  BY <1>4 DEF Backs
<1>7. InSync' => /\ disk'.entries = mem'.entries
                 /\ \A i \in DOMAIN mem'.entries : Open(mem'.entries[i]) = DOMAIN mem'.entries[i]
  BY <1>3, NewJournalIsOurs DEF InSync
<1>8. ~At("intent")'
  BY <1>3 DEF At
<1> QED BY <1>2, <1>5, <1>6, <1>7, <1>8 DEF RowsKept

LEMMA AppendKeeps ==
    ASSUME NEW es \in Seq(OurEntry), NEW e \in OurEntry, NEW r, NEW c, NEW v
    PROVE  /\ KeepsCell(es, r, c, v) => KeepsCell(Append(es, e), r, c, v)
           /\ KeepsSet(es, r, c, v) => KeepsSet(Append(es, e), r, c, v)
           /\ KeepsRemoval(es, r) => KeepsRemoval(Append(es, e), r)
<1> DEFINE new == Append(es, e)
<1>1. \A i \in DOMAIN es : i \in DOMAIN new /\ new[i] = es[i]
  OBVIOUS
<1> HIDE DEF new
<1>2. /\ KeepsCell(es, r, c, v) => KeepsCell(new, r, c, v)
      /\ KeepsSet(es, r, c, v) => KeepsSet(new, r, c, v)
      /\ KeepsRemoval(es, r) => KeepsRemoval(new, r)
  BY <1>1 DEF KeepsCell, KeepsSet, KeepsRemoval
<1> QED BY <1>2 DEF new

LEMMA BeginRows ==
    ASSUME Stored, Booked, RowsKept, BeginTransaction PROVE RowsKept'
<1>0. /\ sync.stage # "off" /\ InSync /\ mem \in OurJournal /\ disk \in OurJournal
      /\ sync \in Process /\ mem # NoJournal /\ disk # NoJournal /\ mem.entries \in Seq(OurEntry)
  <2>1. InSync /\ sync.stage # "off"
    BY DEF BeginTransaction, At, InSync, Undoing
  <2> QED BY <2>1, Working, JournalFacts
<1>a. PICK es \in Seq(OurEntry) : es = mem.entries
  BY <1>0
<1>1. /\ Covers(es) /\ Backs(es, es) /\ disk.entries = es
      /\ \A i \in DOMAIN es : Open(es[i]) = DOMAIN es[i]
  BY <1>0, <1>a, TwoImages DEF RowsKept
<1>2. PICK edit \in Edits : PersistThen(WithIntent(edit), [sync EXCEPT !.stage = "intent"])
  BY DEF BeginTransaction
<1>3. PICK e \in OurEntry :
         /\ WithIntent(edit) \in OurJournal /\ WithIntent(edit).entries = Append(es, e)
         /\ \A r \in DOMAIN e :
               /\ ~e[r].restored /\ e[r].before = db[r]
               /\ e[r].before # NoRow /\ e[r].after = NoRow => ~Inserted(r)
  BY <1>0, <1>a, IntentFacts
<1> DEFINE new == Append(es, e)
           j == WithIntent(edit)
<1>4. /\ j \in OurJournal /\ j.entries = new /\ j # NoJournal /\ mem' = j /\ disk' \in {disk, j}
      /\ \/ sync'.stage = "intent" /\ disk' = j
         \/ sync'.stage = "undoEntries"
  <2> HIDE DEF new, j
  <2>1. j \in OurJournal /\ j.entries = new
    BY <1>3 DEF j, new
  <2>2. [sync EXCEPT !.stage = "intent"].stage = "intent"
    BY <1>0 DEF Process
  <2>3. PersistThen(j, [sync EXCEPT !.stage = "intent"])
    BY <1>2 DEF j
  <2>4. Fails(j) => sync'.stage = "undoEntries"
    BY <2>1, FailsPlaced
  <2> QED BY <2>1, <2>2, <2>3, <2>4, PersistFacts, JournalFacts
<1>5. UNCHANGED <<db, removed, dropped>>
  BY DEF BeginTransaction
<1>6. /\ \A i \in DOMAIN es : i \in DOMAIN new /\ new[i] = es[i]
      /\ \A i \in DOMAIN new : i \in DOMAIN es \/ new[i] = e
      /\ Last(new) = e
  <2>1. Len(new) = Len(es) + 1 /\ new[Len(es) + 1] = e /\ Len(es) \in Nat
    BY <1>0
  <2> QED BY <1>0, <2>1 DEF Last
<1>7. Open(e) = DOMAIN e
  BY <1>3 DEF Open
<1> HIDE DEF new, j
<1>8. Images' \subseteq {es, new}
  BY <1>1, <1>4, <1>a DEF Images
<1>9. \A r, c, v : /\ KeepsCell(es, r, c, v) => KeepsCell(new, r, c, v)
                   /\ KeepsSet(es, r, c, v) => KeepsSet(new, r, c, v)
                   /\ KeepsRemoval(es, r) => KeepsRemoval(new, r)
  BY <1>0, AppendKeeps DEF new
<1>10. Covers(es)' /\ Covers(new)'
  <2>1. Covers(es)'
    BY <1>1, <1>5 DEF Covers
  <2>2. ASSUME NEW r \in Rows \ dropped, NEW c \in Columns, db[r] # NoRow, db[r][c] \in SyncValues
        PROVE  KeepsCell(new, r, c, db[r][c])
    <3>1. KeepsCell(es, r, c, db[r][c])
      BY <1>1, <2>2 DEF Covers
    <3> QED BY <1>9, <3>1
  <2>3. ASSUME NEW r \in removed PROVE KeepsRemoval(new, r)
    <3>1. KeepsRemoval(es, r)
      BY <1>1, <2>3 DEF Covers
    <3> QED BY <1>9, <3>1
  <2> QED BY <1>5, <2>1, <2>2, <2>3 DEF Covers
<1>11. ASSUME NEW r \in Rows \ dropped, NEW c \in Columns, r \in Open(e), Removes(e[r]),
              e[r].before[c] \in SyncValues
       PROVE  KeepsSet(es, r, c, e[r].before[c])
  <2>1. db[r] = e[r].before /\ db[r] # NoRow /\ ~Inserted(r)
    BY <1>3, <1>11 DEF Removes, Open
  <2>2. PICK i \in DOMAIN es : r \in Open(es[i]) /\ Gives(es[i][r], c, e[r].before[c])
    BY <1>1, <1>11, <2>1 DEF Covers, KeepsCell
  <2>3. es[i][r].before # NoRow
    BY <1>a, <2>1, <2>2 DEF Inserted, Open
  <2> QED BY <2>2, <2>3 DEF KeepsSet, IsSet, Gives
<1>12. ASSUME NEW k \in DOMAIN new, NEW r \in Open(new[k]) \ dropped, NEW c \in Columns,
              Removes(new[k][r]), new[k][r].before[c] \in SyncValues
       PROVE  KeepsSet(es, r, c, new[k][r].before[c])
  <2>1. CASE k \in DOMAIN es
    BY <1>0, <1>1, <1>6, <1>12, <2>1 DEF Backs, Stuck
  <2>2. CASE new[k] = e
    <3>1. r \in Rows
      BY <1>12, <2>2, EntryFacts DEF Open
    <3> QED BY <1>11, <1>12, <2>2, <3>1
  <2> QED BY <1>6, <2>1, <2>2
<1>13. \A es1, es2 \in {es, new} : Backs(es1, es2)'
  <2>1. ASSUME NEW es1 \in {es, new}, NEW es2 \in {es, new}, NEW k \in DOMAIN es1,
               NEW r \in Open(es1[k]) \ dropped, NEW c \in Columns,
               Removes(es1[k][r]), es1[k][r].before[c] \in SyncValues
        PROVE  KeepsSet(es2, r, c, es1[k][r].before[c])
    <3>1. k \in DOMAIN new /\ new[k] = es1[k]
      BY <1>6, <2>1
    <3>2. KeepsSet(es, r, c, es1[k][r].before[c])
      BY <1>12, <2>1, <3>1
    <3> QED BY <1>9, <3>2
  <2> QED BY <1>5, <2>1 DEF Backs
<1>14. InSync' => /\ disk'.entries = mem'.entries
                  /\ \A i \in DOMAIN mem'.entries : Open(mem'.entries[i]) = DOMAIN mem'.entries[i]
  BY <1>1, <1>4, <1>6, <1>7 DEF InSync, Undoing
<1>15. At("intent")' => LET entry == Last(mem'.entries) IN \A r \in DOMAIN entry : entry[r].before = db'[r]
  BY <1>3, <1>4, <1>5, <1>6
<1>16. disk' # NoJournal
  BY <1>0, <1>4
<1>17. \A x \in Images' : Covers(x)'
  BY <1>8, <1>10
<1>18. \A x, y \in Images' : Backs(x, y)'
  BY <1>8, <1>13
<1> QED BY <1>14, <1>15, <1>16, <1>17, <1>18 DEF RowsKept

LEMMA CommitRows ==
    ASSUME Stored, Booked, RowsKept, CommitTransaction PROVE RowsKept'
<1>0. /\ sync.stage = "intent" /\ InSync /\ mem \in OurJournal /\ disk \in OurJournal
      /\ sync \in Process /\ mem # NoJournal /\ disk # NoJournal /\ mem.entries \in Seq(OurEntry)
      /\ Len(mem.entries) > 0 /\ Last(mem.entries) = mem.entries[Len(mem.entries)]
      /\ mem' = mem /\ disk' = disk /\ dropped' = dropped
  <2>1. InSync /\ sync.stage = "intent" /\ mem' = mem /\ disk' = disk /\ dropped' = dropped
    BY DEF CommitTransaction, At, InSync, Undoing
  <2> QED BY <2>1, Working, JournalFacts, CommitFacts
<1>a. PICK es \in Seq(OurEntry) : es = mem.entries
  BY <1>0
<1>b. PICK e \in OurEntry : e = Last(es)
  BY <1>a, CommitFacts
<1>1. /\ Covers(es) /\ Backs(es, es) /\ disk.entries = es
      /\ \A i \in DOMAIN es : Open(es[i]) = DOMAIN es[i]
      /\ \A r \in DOMAIN e : e[r].before = db[r]
  <2>1. sync.stage # "off"
    BY <1>0
  <2>2. es \in Images
    BY <1>a, <2>1, TwoImages
  <2> QED BY <1>0, <1>a, <1>b, <2>2 DEF RowsKept, At
<1>2. Len(es) \in DOMAIN es /\ es[Len(es)] = e /\ Open(e) = DOMAIN e
  <2>1. Len(es) \in DOMAIN es /\ es[Len(es)] = e
    BY <1>0, <1>a, <1>b
  <2> QED BY <1>1, <2>1
<1>3. Images' = {es}
  BY <1>0, <1>1, <1>a DEF Images
<1>4. CASE /\ db' = Committed(e)
           /\ removed' = {r \in Rows : IF r \in DOMAIN e THEN e[r].after = NoRow
                                       ELSE r \in removed}
           /\ GoTo("committed")
  <2>1. ASSUME NEW r \in Rows \ dropped, NEW c \in Columns, db'[r] # NoRow, db'[r][c] \in SyncValues
        PROVE  KeepsCell(es, r, c, db'[r][c])
    <3>1. CASE r \in DOMAIN e /\ Gives(e[r], c, e[r].after[c])
      <4>1. db'[r] = e[r].after
        BY <1>4, <3>1 DEF Committed
      <4> QED BY <1>2, <3>1, <4>1 DEF KeepsCell
    <3>2. CASE r \in DOMAIN e /\ ~Gives(e[r], c, e[r].after[c])
      <4>1. db'[r] = e[r].after
        BY <1>4, <3>2 DEF Committed
      <4>2. e[r].before # NoRow /\ e[r].before[c] = e[r].after[c] /\ e[r].before = db[r]
        BY <1>1, <2>1, <3>2, <4>1 DEF Gives
      <4>3. db[r] # NoRow /\ db[r][c] = db'[r][c]
        BY <4>1, <4>2
      <4> QED BY <1>1, <2>1, <4>3 DEF Covers
    <3>3. CASE r \notin DOMAIN e
      <4>1. db'[r] = db[r]
        BY <1>4, <3>3 DEF Committed
      <4> QED BY <1>1, <2>1, <4>1 DEF Covers
    <3> QED BY <3>1, <3>2, <3>3
  <2>2. ASSUME NEW r \in removed' PROVE KeepsRemoval(es, r)
    <3>1. CASE r \in DOMAIN e
      BY <1>2, <1>4, <2>2, <3>1 DEF KeepsRemoval
    <3>2. CASE r \notin DOMAIN e
      BY <1>1, <1>4, <2>2, <3>2 DEF Covers
    <3> QED BY <3>1, <3>2
  <2>3. Covers(es)'
    BY <1>0, <2>1, <2>2 DEF Covers
  <2>4. Backs(es, es)'
    BY <1>0, <1>1 DEF Backs, Stuck
  <2>5. ~At("intent")'
    BY <1>0, <1>4 DEF At, GoTo, Process
  <2>6. /\ disk'.entries = mem'.entries
        /\ \A i \in DOMAIN mem'.entries : Open(mem'.entries[i]) = DOMAIN mem'.entries[i]
    BY <1>0, <1>1, <1>a
  <2>7. \A x \in Images' : Covers(x)'
    BY <1>3, <2>3
  <2>8. \A x, y \in Images' : Backs(x, y)'
    BY <1>3, <2>4
  <2> QED BY <1>0, <2>5, <2>6, <2>7, <2>8 DEF RowsKept
<1>5. CASE Fails(mem) /\ UNCHANGED <<db, removed>>
  <2>1. sync'.stage = "undoEntries"
    BY <1>0, <1>5, FailsPlaced
  <2>2. sync.stage # "off" /\ sync'.stage \in Undoing \cup {"off"}
    BY <1>0, <2>1 DEF Undoing
  <2>3. UNCHANGED <<db, removed, dropped>>
    BY <1>0, <1>5
  <2> QED BY <1>0, <2>2, <2>3, MoveQuiet, QuietRowsStep
<1> QED BY <1>4, <1>5, <1>a, <1>b DEF CommitTransaction

-----------------------------------------------------------------------------
(* Undoing an entry. *)

\* What becomes of a row that is not in conflict.
LEMMA UndoneRow ==
    ASSUME NEW row \in Row \cup {NoRow}, NEW change \in OurChange, ~Conflicts(row, change)
    PROVE  \/ /\ IsSet(change) /\ row # NoRow /\ Restored(row, change) # NoRow
              /\ \A c \in Columns :
                    IF change.before[c] # change.after[c]
                    THEN /\ Restored(row, change)[c] = change.before[c]
                         /\ change.before[c] \notin SyncValues
                    ELSE Restored(row, change)[c] = row[c]
           \/ /\ change.before = NoRow /\ change.after # NoRow /\ Restored(row, change) = NoRow
              /\ row = NoRow \/ (row = change.after /\ change.after \in [Columns -> SyncValues])
           \/ /\ Removes(change) /\ Restored(row, change) = change.before
              /\ row = NoRow \/ row = change.before
<1>1. CASE IsSet(change)
  <2>1. row # NoRow
    BY <1>1 DEF Conflicts, IsSet
  <2>2. Restored(row, change) = [c \in Columns |-> IF c \in Changed(change) THEN change.before[c] ELSE row[c]]
    BY <1>1 DEF Restored, IsSet
  <2>3. \A c \in Columns : change.before[c] # change.after[c] => change.before[c] \notin SyncValues
    BY <1>1 DEF OurChange, Changed
  <2>4. Restored(row, change) # NoRow
    <3>1. Restored(row, change) \in Row \cup {NoRow}
      BY RestoredType DEF OurChange
    <3>2. change \in Change
      BY DEF OurChange
    <3>3. Restored(row, change) \in Row
      <4>1. row \in Row /\ change.before \in Row
        BY <1>1, <2>1, <3>2 DEF Change, IsSet
      <4> QED BY <2>2, <4>1 DEF Row
    <3> QED BY <3>3, NoRowAssumption
  <2> QED BY <1>1, <2>1, <2>2, <2>3, <2>4 DEF Changed
<1>2. CASE change.before = NoRow
  <2>1. change.after \in [Columns -> SyncValues]
    BY <1>2 DEF OurChange
  <2>2. change.after # NoRow
    <3>1. change.after \in Row
      BY <2>1 DEF Row, Values
    <3> QED BY <3>1, NoRowAssumption
  <2>3. row = NoRow \/ row = change.after
    BY <1>2 DEF Conflicts
  <2> QED BY <1>2, <2>1, <2>2, <2>3 DEF Restored
<1>3. CASE Removes(change)
  <2>1. row = NoRow \/ row = change.before
    BY <1>3 DEF Conflicts, Removes
  <2> QED BY <1>3, <2>1 DEF Restored, Removes
<1> QED BY <1>1, <1>2, <1>3 DEF IsSet, Removes

\* The entries with rows of one of them crossed off.
CrossedOff(new, es, n, rs) == new = [es EXCEPT ![n] = Crossed(es[n], rs)]

\* Crossing rows off an entry keeps what other entries, and its other rows, tell.
LEMMA CrossedKeeps ==
    ASSUME NEW es \in Seq(OurEntry), NEW n \in DOMAIN es, NEW rs,
           NEW new, CrossedOff(new, es, n, rs)
    PROVE  \A r, c, v :
              /\ KeepsCell(es, r, c, v) /\ (r \notin rs \/ ~Gives(es[n][r], c, v))
                 => KeepsCell(new, r, c, v)
              /\ KeepsSet(es, r, c, v) /\ (r \notin rs \/ ~(IsSet(es[n][r]) /\ Gives(es[n][r], c, v)))
                 => KeepsSet(new, r, c, v)
              /\ KeepsRemoval(es, r) /\ (r \notin rs \/ es[n][r].after # NoRow)
                 => KeepsRemoval(new, r)
<1> TAKE r, c, v
<1>1. /\ DOMAIN new = DOMAIN es /\ new[n] = Crossed(es[n], rs)
      /\ \A i \in DOMAIN es : i # n => new[i] = es[i]
      /\ es[n] \in OurEntry
  BY DEF CrossedOff
<1>2. /\ DOMAIN new[n] = DOMAIN es[n]
      /\ \A s \in DOMAIN es[n] : /\ new[n][s].before = es[n][s].before
                                 /\ new[n][s].after = es[n][s].after
                                 /\ new[n][s].restored <=> es[n][s].restored \/ s \in rs
  BY <1>1, CrossedFacts
<1>3. ASSUME NEW i \in DOMAIN es, r \in Open(es[i]), i # n \/ r \notin rs
      PROVE  /\ i \in DOMAIN new /\ r \in Open(new[i])
             /\ new[i][r].before = es[i][r].before /\ new[i][r].after = es[i][r].after
  <2>1. CASE i = n
    BY <1>1, <1>2, <1>3, <2>1 DEF Open
  <2>2. CASE i # n
    BY <1>1, <1>3, <2>2
  <2> QED BY <2>1, <2>2
<1>4. ASSUME KeepsCell(es, r, c, v), r \notin rs \/ ~Gives(es[n][r], c, v)
      PROVE  KeepsCell(new, r, c, v)
  <2>1. PICK i \in DOMAIN es : r \in Open(es[i]) /\ Gives(es[i][r], c, v)
    BY <1>4 DEF KeepsCell
  <2>2. i # n \/ r \notin rs
    BY <1>4, <2>1
  <2> QED BY <1>3, <2>1, <2>2 DEF KeepsCell, Gives
<1>5. ASSUME KeepsSet(es, r, c, v), r \notin rs \/ ~(IsSet(es[n][r]) /\ Gives(es[n][r], c, v))
      PROVE  KeepsSet(new, r, c, v)
  <2>1. PICK i \in DOMAIN es : r \in Open(es[i]) /\ IsSet(es[i][r]) /\ Gives(es[i][r], c, v)
    BY <1>5 DEF KeepsSet
  <2>2. i # n \/ r \notin rs
    BY <1>5, <2>1
  <2> QED BY <1>3, <2>1, <2>2 DEF KeepsSet, Gives, IsSet
<1>6. ASSUME KeepsRemoval(es, r), r \notin rs \/ es[n][r].after # NoRow
      PROVE  KeepsRemoval(new, r)
  <2>1. PICK i \in DOMAIN es : r \in Open(es[i]) /\ es[i][r].after = NoRow
    BY <1>6 DEF KeepsRemoval
  <2>2. i # n \/ r \notin rs
    BY <1>6, <2>1
  <2> QED BY <1>3, <2>1, <2>2 DEF KeepsRemoval
<1> QED BY <1>4, <1>5, <1>6

LEMMA UndoEntryRows ==
    ASSUME Stored, Booked, RowsKept, UndoEntry PROVE RowsKept'
<1>0. /\ mem \in OurJournal /\ sync.stage = "undoEntries" /\ sync.at \in DOMAIN mem.entries
      /\ mem' \in OurJournal /\ disk' = disk /\ dropped' = dropped /\ sync'.stage = "keepEntry"
      /\ disk \in OurJournal /\ disk # NoJournal /\ mem # NoJournal /\ mem' # NoJournal
      /\ mem.entries[sync.at] \in OurEntry
  <2>1. sync.stage = "undoEntries"
    BY UndoEntryFacts
  <2> QED BY <2>1, UndoEntryFacts, Working, JournalFacts
<1>a. PICK es \in Seq(OurEntry), d \in Seq(OurEntry), n \in Nat :
         es = mem.entries /\ d = disk.entries /\ n = sync.at /\ n \in DOMAIN es
  BY <1>0, JournalFacts
<1>b. PICK e \in OurEntry, rs \in SUBSET Rows : e = es[n] /\ rs = Restorable(e)
  <2>1. es[n] \in OurEntry
    BY <1>0, <1>a
  <2>2. Restorable(es[n]) \subseteq Rows
    BY <2>1, EntryFacts DEF Restorable, Open
  <2> QED BY <2>1, <2>2
<1>1. CASE UNCHANGED <<db, removed>> /\ mem' = mem
  <2>1. sync.stage # "off" /\ sync'.stage \in Undoing \cup {"off"}
    BY <1>0 DEF Undoing
  <2>2. UNCHANGED <<db, removed, dropped>>
    BY <1>0, <1>1
  <2> QED BY <1>0, <1>1, <2>1, <2>2, MoveQuiet, QuietRowsStep
<1>2. CASE /\ db' = [r \in Rows |-> IF r \in rs THEN Restored(db[r], e[r]) ELSE db[r]]
           /\ removed' = {r \in removed : r \in rs => e[r].before = NoRow}
           /\ mem'.entries = [es EXCEPT ![n] = Crossed(e, rs)]
  <2>0. PICK new \in Seq(OurEntry) : new = mem'.entries
    BY <1>0, JournalFacts
  <2>1. new = [es EXCEPT ![n] = Crossed(es[n], rs)]
    BY <1>2, <1>b, <2>0
  <2>c. \A r, c, v :
          /\ KeepsCell(es, r, c, v) /\ (r \notin rs \/ ~Gives(e[r], c, v))
             => KeepsCell(new, r, c, v)
          /\ KeepsSet(es, r, c, v) /\ (r \notin rs \/ ~(IsSet(e[r]) /\ Gives(e[r], c, v)))
             => KeepsSet(new, r, c, v)
          /\ KeepsRemoval(es, r) /\ (r \notin rs \/ e[r].after # NoRow) => KeepsRemoval(new, r)
    <3>1. n \in DOMAIN es /\ e = es[n] /\ CrossedOff(new, es, n, rs)
      BY <1>a, <1>b, <2>1 DEF CrossedOff
    <3>2. \A r, c, v :
             /\ KeepsCell(es, r, c, v) /\ (r \notin rs \/ ~Gives(es[n][r], c, v))
                => KeepsCell(new, r, c, v)
             /\ KeepsSet(es, r, c, v) /\ (r \notin rs \/ ~(IsSet(es[n][r]) /\ Gives(es[n][r], c, v)))
                => KeepsSet(new, r, c, v)
             /\ KeepsRemoval(es, r) /\ (r \notin rs \/ es[n][r].after # NoRow)
                => KeepsRemoval(new, r)
      BY <3>1, CrossedKeeps
    <3> QED BY <3>1, <3>2
  <2>2. Covers(es) /\ Covers(d) /\ \A x, y \in {es, d} : Backs(x, y)
    <3>1. Images = {es, d}
      BY <1>0, <1>a, TwoImages
    <3> QED BY <3>1 DEF RowsKept
  <2>3. Images' \subseteq {new, d}
    BY <1>0, <1>a, <2>0 DEF Images
  <2>4. ~InSync /\ ~InSync' /\ ~At("intent")'
    BY <1>0 DEF InSync, Undoing, At
  <2>5. ASSUME NEW r \in rs
        PROVE  /\ r \in DOMAIN e /\ r \in Rows /\ ~e[r].restored /\ e[r] \in OurChange
               /\ db'[r] = Restored(db[r], e[r])
               /\ \/ /\ IsSet(e[r]) /\ db[r] # NoRow /\ db'[r] # NoRow
                     /\ \A c \in Columns :
                           IF e[r].before[c] # e[r].after[c]
                           THEN db'[r][c] = e[r].before[c] /\ e[r].before[c] \notin SyncValues
                           ELSE db'[r][c] = db[r][c]
                  \/ /\ e[r].before = NoRow /\ e[r].after # NoRow /\ db'[r] = NoRow
                     /\ db[r] = NoRow \/ (db[r] = e[r].after /\ e[r].after \in [Columns -> SyncValues])
                  \/ /\ Removes(e[r]) /\ db'[r] = e[r].before
                     /\ db[r] = NoRow \/ db[r] = e[r].before
    <3>1. r \in DOMAIN e /\ ~e[r].restored /\ ~Conflicts(db[r], e[r])
      BY <1>b, <2>5 DEF Restorable, Open
    <3>2. r \in Rows /\ e[r] \in OurChange
      BY <3>1, EntryFacts
    <3>3. db[r] \in Row \cup {NoRow} /\ db'[r] = Restored(db[r], e[r])
      BY <1>2, <2>5, <3>2 DEF Stored
    <3> QED BY <3>1, <3>2, <3>3, UndoneRow
  <2>6. ASSUME NEW r \in Rows \ rs PROVE db'[r] = db[r]
    BY <1>2, <2>6
  <2>7. ASSUME NEW r \in Rows \ dropped, NEW c \in Columns, db'[r] # NoRow, db'[r][c] \in SyncValues
        PROVE  KeepsCell(new, r, c, db'[r][c]) /\ KeepsCell(d, r, c, db'[r][c])
    <3> DEFINE v == db'[r][c]
    <3>1. CASE r \notin rs
      <4>1. KeepsCell(es, r, c, v) /\ KeepsCell(d, r, c, v)
        BY <2>2, <2>6, <2>7, <3>1 DEF Covers
      <4> HIDE DEF v
      <4>2. KeepsCell(new, r, c, v)
        BY <2>c, <3>1, <4>1
      <4> QED BY <4>1, <4>2 DEF v
    <3>2. CASE r \in rs /\ IsSet(e[r])
      <4>1. v = db[r][c] /\ db[r] # NoRow /\ e[r].before[c] = e[r].after[c]
        BY <2>5, <2>7, <3>2 DEF IsSet, Removes
      <4>2. KeepsCell(es, r, c, v) /\ KeepsCell(d, r, c, v)
        BY <2>2, <2>7, <4>1 DEF Covers
      <4>3. ~Gives(e[r], c, v)
        BY <3>2, <4>1 DEF Gives, IsSet
      <4> HIDE DEF v
      <4>4. KeepsCell(new, r, c, v)
        BY <2>c, <4>2, <4>3
      <4> QED BY <4>2, <4>4 DEF v
    <3>3. CASE r \in rs /\ Removes(e[r])
      <4>0. v = e[r].before[c] /\ r \in Open(e) /\ (db[r] = NoRow \/ db[r] = e[r].before) /\ e[r].before # NoRow
        BY <2>5, <3>3 DEF IsSet, Removes, Open
      <4>2. CASE db[r] = e[r].before
        <5>1. db[r] # NoRow /\ db[r][c] = v
          BY <4>0, <4>2
        <5>2. KeepsCell(es, r, c, v) /\ KeepsCell(d, r, c, v)
          BY <2>2, <2>7, <5>1 DEF Covers
        <5>3. ~Gives(e[r], c, v)
          BY <3>3 DEF Gives, Removes
        <5> HIDE DEF v
        <5>4. KeepsCell(new, r, c, v)
          BY <2>c, <5>2, <5>3
        <5> QED BY <5>2, <5>4 DEF v
      <4>3. CASE db[r] = NoRow
        <5>1. ~Stuck(r) /\ v \in SyncValues
          BY <2>7, <4>3 DEF Stuck
        <5>2. r \in Open(es[n]) \ dropped /\ Removes(es[n][r]) /\ es[n][r].before[c] = v
          BY <1>b, <2>7, <3>3, <4>0
        <5> HIDE DEF v
        <5>3. \A x \in {es, d} : KeepsSet(x, r, c, v)
          <6>1. Backs(es, es) /\ Backs(es, d)
            BY <2>2
          <6> QED BY <1>a, <5>1, <5>2, <6>1 DEF Backs
        <5>4. KeepsSet(new, r, c, v)
          BY <2>c, <3>3, <5>3 DEF IsSet, Removes
        <5>5. KeepsCell(new, r, c, v) /\ KeepsCell(d, r, c, v)
          BY <5>3, <5>4 DEF KeepsSet, KeepsCell
        <5> QED BY <5>5 DEF v
      <4> QED BY <4>0, <4>2, <4>3
    <3> QED BY <2>5, <2>7, <3>1, <3>2, <3>3
  <2>8. ASSUME NEW r \in removed' PROVE KeepsRemoval(new, r) /\ KeepsRemoval(d, r)
    <3>1. KeepsRemoval(es, r) /\ KeepsRemoval(d, r)
      BY <1>2, <2>2, <2>8 DEF Covers
    <3>2. r \notin rs \/ e[r].after # NoRow
      BY <1>2, <2>5, <2>8 DEF IsSet, Removes
    <3> QED BY <2>c, <3>1, <3>2
  <2>9. Covers(new)' /\ Covers(d)'
    BY <1>0, <2>7, <2>8 DEF Covers
  <2>10. ASSUME NEW r \in Rows, Stuck(r) PROVE Stuck(r)'
    <3>1. PICK c \in Columns : db[r] # NoRow /\ db[r][c] \notin SyncValues
      BY <2>10 DEF Stuck
    <3>2. CASE r \in rs
      <4>1. db'[r] # NoRow
        BY <2>5, <3>1, <3>2
      <4>2. db'[r][c] \notin SyncValues
        BY <2>5, <3>1, <3>2
      <4> QED BY <2>4, <4>1, <4>2 DEF Stuck
    <3>3. CASE r \notin rs
      BY <2>4, <2>6, <3>1, <3>3 DEF Stuck
    <3> QED BY <3>2, <3>3
  <2>11. ASSUME NEW r \in Rows, NEW c \in Columns, NEW v \in SyncValues, KeepsSet(es, r, c, v)
         PROVE  KeepsSet(new, r, c, v) \/ Stuck(r)'
    <3>1. CASE r \in rs /\ IsSet(e[r]) /\ Gives(e[r], c, v)
      <4>1. e[r].before[c] # e[r].after[c]
        BY <3>1 DEF Gives, IsSet
      <4>2. db'[r] # NoRow /\ db'[r][c] \notin SyncValues
        BY <2>5, <3>1, <4>1 DEF IsSet, Removes
      <4> QED BY <2>4, <4>2 DEF Stuck
    <3>2. CASE ~(r \in rs /\ IsSet(e[r]) /\ Gives(e[r], c, v))
      BY <2>c, <2>11, <3>2
    <3> QED BY <3>1, <3>2
  <2>12. ASSUME NEW x \in {new, d}, NEW k \in DOMAIN x, NEW r \in Open(x[k]) \ dropped, NEW c \in Columns,
                Removes(x[k][r]), x[k][r].before[c] \in SyncValues
         PROVE  /\ r \in Rows
                /\ \A y \in {es, d} : KeepsSet(y, r, c, x[k][r].before[c]) \/ Stuck(r)
    <3>1. PICK z \in {es, d} : /\ k \in DOMAIN z /\ r \in Open(z[k])
                               /\ z[k][r].before = x[k][r].before /\ z[k][r].after = x[k][r].after
                               /\ z[k] \in OurEntry
      <4>1. CASE x = d
        BY <2>12, <4>1
      <4>2. CASE x = new
        <5>1. DOMAIN new = DOMAIN es /\ new[n] = Crossed(es[n], rs) /\ \A i \in DOMAIN es : i # n => new[i] = es[i]
          BY <2>1
        <5>2. es[k] \in OurEntry
          BY <2>12, <4>2, <5>1
        <5>3. CASE k = n
          BY <2>12, <4>2, <5>1, <5>2, <5>3, CrossedFacts DEF Open
        <5>4. CASE k # n
          BY <2>12, <4>2, <5>1, <5>2, <5>4
        <5> QED BY <5>3, <5>4
      <4> QED BY <4>1, <4>2
    <3>2. r \in Rows
      BY <3>1, EntryFacts DEF Open
    <3>3. Removes(z[k][r]) /\ z[k][r].before[c] \in SyncValues /\ r \in Open(z[k]) \ dropped
      BY <2>12, <3>1 DEF Removes
    <3>4. \A y \in {es, d} : KeepsSet(y, r, c, z[k][r].before[c]) \/ Stuck(r)
      <4>1. \A y \in {es, d} : Backs(z, y)
        BY <2>2
      <4> QED BY <3>1, <3>3, <4>1 DEF Backs
    <3> QED BY <3>1, <3>2, <3>4
  <2>13. \A x, y \in {new, d} : Backs(x, y)'
    <3>1. ASSUME NEW x \in {new, d}, NEW y \in {new, d}, NEW k \in DOMAIN x,
                 NEW r \in Open(x[k]) \ dropped, NEW c \in Columns,
                 Removes(x[k][r]), x[k][r].before[c] \in SyncValues
          PROVE  KeepsSet(y, r, c, x[k][r].before[c]) \/ Stuck(r)'
      <4>1. r \in Rows /\ \A z \in {es, d} : KeepsSet(z, r, c, x[k][r].before[c]) \/ Stuck(r)
        BY <2>12, <3>1
      <4> QED BY <2>10, <2>11, <3>1, <4>1
    <3> QED BY <1>0, <3>1 DEF Backs
  <2>14. \A x \in Images' : Covers(x)'
    BY <2>3, <2>9
  <2>15. \A x, y \in Images' : Backs(x, y)'
    BY <2>3, <2>13
  <2> QED BY <1>0, <2>4, <2>14, <2>15 DEF RowsKept
<1> QED BY <1>0, <1>1, <1>2, <1>a, <1>b, UndoEntryFacts

LEMMA OtherRowRows ==
    ASSUME Stored, Booked, RowsKept, NEW r0 \in Rows, OtherRow(r0) PROVE RowsKept'
<1>1. PICK row \in Row \cup {NoRow} :
         /\ row # NoRow => \A c \in Columns :
               row[c] \in OtherValues \/ (db[r0] # NoRow /\ row[c] = db[r0][c])
         /\ db' = [db EXCEPT ![r0] = row]
  BY DEF OtherRow
<1>2. /\ removed' = removed \ {r0} /\ ~At("intent")
      /\ dropped' = IF row = NoRow THEN dropped \cup {r0} ELSE dropped
      /\ mem' = mem /\ disk' = disk /\ sync' = sync
  BY <1>1 DEF OtherRow, Stored
<1>3. ASSUME NEW r \in Rows, NEW c \in Columns, db'[r] # NoRow, db'[r][c] \in SyncValues
      PROVE  db[r] # NoRow /\ db[r][c] = db'[r][c]
  <2>1. db'[r] = IF r = r0 THEN row ELSE db[r]
    BY <1>1 DEF Stored
  <2> QED BY <1>1, <1>3, <2>1, JournalAssumption
<1>4. ASSUME NEW r \in Rows \ dropped', Stuck(r) PROVE Stuck(r)'
  <2>1. PICK c \in Columns : ~InSync /\ db[r] # NoRow /\ db[r][c] \notin SyncValues
    BY <1>4 DEF Stuck
  <2>2. db'[r] # NoRow
    BY <1>1, <1>2, <1>4, <2>1 DEF Stored
  <2>3. db'[r][c] \notin SyncValues
    BY <1>3, <1>4, <2>1, <2>2
  <2> QED BY <1>2, <2>1, <2>2, <2>3 DEF Stuck, InSync
<1>5. Images' = Images
  BY <1>2 DEF Images
<1>6. dropped \subseteq dropped'
  BY <1>2
<1>7. ASSUME NEW es, Covers(es) PROVE Covers(es)'
  BY <1>2, <1>3, <1>6, <1>7 DEF Covers
<1>8. ASSUME NEW es1, NEW es2, Backs(es1, es2), \A k \in DOMAIN es1 : Open(es1[k]) \subseteq Rows
      PROVE  Backs(es1, es2)'
  BY <1>4, <1>6, <1>8 DEF Backs
<1>9. ASSUME NEW es \in Images PROVE \A k \in DOMAIN es : Open(es[k]) \subseteq Rows
  <2>1. es \in Seq(OurEntry)
    BY JournalFacts DEF Images, Booked, Placed
  <2>2. \A k \in DOMAIN es : es[k] \in OurEntry
    BY <2>1
  <2> QED BY <2>2, EntryFacts DEF Open
<1>10. \A es \in Images' : Covers(es)'
  BY <1>5, <1>7 DEF RowsKept
<1>11. \A es1, es2 \in Images' : Backs(es1, es2)'
  BY <1>5, <1>8, <1>9 DEF RowsKept
<1>12. disk' = NoJournal =>
         /\ removed' = {}
         /\ \A r \in Rows, c \in Columns : db'[r] # NoRow => db'[r][c] \notin SyncValues
  BY <1>2, <1>3 DEF RowsKept
<1>13. InSync' => /\ disk'.entries = mem'.entries
                  /\ \A i \in DOMAIN mem'.entries : Open(mem'.entries[i]) = DOMAIN mem'.entries[i]
  BY <1>2 DEF RowsKept, InSync
<1>14. ~At("intent")'
  BY <1>2 DEF At
<1> QED BY <1>10, <1>11, <1>12, <1>13, <1>14 DEF RowsKept

LEMMA RowsStep ==
    ASSUME Stored, Booked, RowsKept, [Next]_vars PROVE RowsKept'
<1>1. CASE \/ PrepareRollouts \/ RolloutMissing \/ RewriteRollout \/ RenameRollout
           \/ RestoreRewritten \/ MarkRolloutsApplied \/ MarkCommitted \/ SyncFails
           \/ PrepareGlobalState \/ PrepareBackup \/ CheckGlobalState \/ WriteGlobalState
           \/ WriteBackup \/ Complete
  BY <1>1, SyncQuiet, QuietRowsStep
<1>2. CASE KeepEntry \/ EntriesUndone \/ UndoFile \/ ReplaceFile \/ EndRollback \/ Crash \/ Recover
  BY <1>2, UndoQuiet, QuietRowsStep
<1>3. CASE NewSync
  BY <1>3, NewSyncRows
<1>4. CASE BeginTransaction
  BY <1>4, BeginRows
<1>5. CASE CommitTransaction
  BY <1>5, CommitRows
<1>6. CASE UndoEntry
  BY <1>6, UndoEntryRows
<1>7. CASE \E r \in Rows : OtherRow(r)
  BY <1>7, OtherRowRows
<1>8. CASE (\E f \in Files : OtherFile(f)) \/ UNCHANGED vars
  <2>1. UNCHANGED <<db, removed, dropped, disk, mem, sync>>
    BY <1>8 DEF OtherFile, vars
  <2> QED BY <2>1 DEF RowsKept, Images, Covers, Backs, Stuck, InSync, At
<1> QED BY <1>1, <1>2, <1>3, <1>4, <1>5, <1>6, <1>7, <1>8 DEF Next, SyncStep, UndoStep

LEMMA RowsInit == Init => RowsKept
<1> SUFFICES ASSUME Init PROVE RowsKept
  OBVIOUS
<1>1. mem = NoJournal /\ disk = NoJournal /\ removed = {} /\ sync.stage = "off"
  BY OffPlaced DEF Init
<1>2. \A r \in Rows, c \in Columns : db[r] # NoRow => db[r][c] \notin SyncValues
  BY JournalAssumption DEF Init
<1>3. Images = {}
  BY <1>1 DEF Images
<1> QED BY <1>1, <1>2, <1>3 DEF RowsKept, InSync, At
-----------------------------------------------------------------------------
(* The files: the images of either journal can undo what the sync did to them. *)

\* Some image that is not crossed off can undo a file.
KeepsFile(files, f, v) ==
    \E i \in DOMAIN files : /\ files[i].path = f /\ files[i].after = v
                            /\ ~files[i].restored /\ files[i].applied # "no"

\* The images can undo every write to a file, and none would bring one back.
Held(files) ==
    /\ \A f \in Files : fs[f] \in SyncValues => KeepsFile(files, f, fs[f])
    /\ \A i \in DOMAIN files : files[i].before \notin SyncValues

\* The files of the journal in memory and of the one on disk.
Papers == {j.files : j \in {mem, disk} \ {NoJournal}}

Fresh(file) == ~file.restored /\ file.applied = "unknown"

\* What the images are at each stage of a sync.
FilesAt(stage, files) ==
    /\ stage \in {"rewrite", "rename", "restore"} => \A i \in DOMAIN files : Fresh(files[i])
    /\ stage \in {"new", "rewrite", "rename", "restore", "ready", "intent", "committed"} =>
          \A i \in DOMAIN files : files[i].path \notin {GlobalState, GlobalBackup}
    /\ stage = "prepareBackup" =>
          /\ files[Len(files)].path = GlobalState /\ Fresh(files[Len(files)])
          /\ \A i \in DOMAIN files : files[i].path # GlobalBackup
    /\ stage \in {"check", "write", "writeBackup"} =>
          /\ files[Len(files) - 1].path = GlobalState /\ Fresh(files[Len(files) - 1])
          /\ files[Len(files)].path = GlobalBackup /\ Fresh(files[Len(files)])

\* Both journals can undo what the sync did to the files.  While the session files
\* are rewritten, those that hold what the sync wrote are the ones in done.
FilesKept ==
    /\ disk = NoJournal => SyncFiles = {}
    /\ \A files \in Papers : Held(files)
    /\ InSync => /\ disk.files = mem.files
                 /\ \A i \in DOMAIN mem.files : ~mem.files[i].restored
    /\ sync.stage \in {"rewrite", "rename"} => SyncFiles \subseteq sync.done
    /\ FilesAt(sync.stage, mem.files)

\* A step that leaves the files and their images alone.
QuietFiles ==
    /\ fs' = fs
    /\ \A j \in {mem', disk'} : j = NoJournal \/ \E i \in {mem, disk} \ {NoJournal} : j.files = i.files
    /\ disk' = NoJournal => disk = NoJournal
    /\ InSync' => InSync /\ mem'.files = mem.files /\ disk'.files \in {mem.files, disk.files}
    /\ sync'.stage \in {"rewrite", "rename"} => sync.stage \in {"rewrite", "rename"} /\ sync'.done = sync.done
    /\ FilesAt(sync'.stage, mem'.files)

LEMMA QuietFilesStep ==
    ASSUME FilesKept, QuietFiles PROVE FilesKept'
<1>1. Papers' \subseteq Papers
  BY DEF QuietFiles, Papers
<1>2. fs' = fs /\ SyncFiles' = SyncFiles
  BY DEF QuietFiles, SyncFiles
<1>3. \A files : Held(files)' <=> Held(files)
  BY <1>2 DEF Held
<1>4. \A files \in Papers' : Held(files)'
  BY <1>1, <1>3 DEF FilesKept
<1>5. /\ disk' = NoJournal => disk = NoJournal
      /\ InSync' => InSync /\ mem'.files = mem.files /\ disk'.files \in {mem.files, disk.files}
      /\ sync'.stage \in {"rewrite", "rename"} => sync.stage \in {"rewrite", "rename"} /\ sync'.done = sync.done
      /\ FilesAt(sync'.stage, mem'.files)
  BY DEF QuietFiles
<1>6. FilesAt(sync.stage, mem.files)'
  BY <1>5
<1> QED BY <1>2, <1>4, <1>5, <1>6 DEF FilesKept

LEMMA FilesAtElse ==
    ASSUME NEW files, NEW stage, stage \in Undoing \cup {"off", "complete"}
    PROVE  FilesAt(stage, files)
BY DEF FilesAt, Undoing

LEMMA SyncFilesQuiet ==
    ASSUME Stored, Booked, FilesKept,
           \/ RolloutMissing \/ RewriteRollout \/ BeginTransaction \/ CommitTransaction
           \/ MarkCommitted \/ SyncFails \/ CheckGlobalState \/ Complete
    PROVE  QuietFiles
<1>0. /\ sync.stage # "off" /\ InSync
      /\ mem \in OurJournal /\ disk \in OurJournal /\ mem # NoJournal /\ disk # NoJournal
      /\ sync \in Process /\ disk.files = mem.files /\ FilesAt(sync.stage, mem.files)
  <2>1. InSync /\ sync.stage # "off"
    BY DEF RolloutMissing, RewriteRollout, BeginTransaction, CommitTransaction,
           MarkCommitted, SyncFails, CheckGlobalState, Complete, At, InSync, Undoing
  <2> QED BY <2>1, Working, JournalFacts DEF FilesKept
<1>1. fs' = fs
  BY DEF RolloutMissing, RewriteRollout, BeginTransaction, CommitTransaction,
         MarkCommitted, SyncFails, CheckGlobalState, Complete
\* To another stage, with journals of the same files.
<1>2. ASSUME mem' # NoJournal => mem'.files = mem.files, mem' = NoJournal => sync'.stage = "off",
             disk'.files = mem.files, disk' # NoJournal,
             \/ sync'.stage \in Undoing \cup {"off", "complete"}
             \/ sync.stage = "rewrite" /\ sync'.stage \in {"rewrite", "rename", "restore"} /\ sync'.done = sync.done
             \/ sync.stage \in {"ready", "intent", "committed"} /\ sync'.stage \in {"ready", "intent", "committed"}
             \/ sync.stage = "check" /\ sync'.stage = "write"
      PROVE  QuietFiles
  <2>1. FilesAt(sync'.stage, mem'.files)
    <3>1. CASE sync'.stage \in Undoing \cup {"off", "complete"}
      BY <3>1, FilesAtElse
    <3>2. CASE sync'.stage \notin Undoing \cup {"off", "complete"}
      <4>1. mem'.files = mem.files
        BY <1>2, <3>2
      <4>2. FilesAt(sync'.stage, mem.files)
        BY <1>0, <1>2, <3>2 DEF FilesAt
      <4> QED BY <4>1, <4>2
    <3> QED BY <3>1, <3>2
  <2>2. InSync' => mem'.files = mem.files
    BY <1>2 DEF InSync
  <2>3. \A j \in {mem', disk'} : j = NoJournal \/ \E i \in {mem, disk} \ {NoJournal} : j.files = i.files
    BY <1>0, <1>2
  <2>4. sync'.stage \in {"rewrite", "rename"} => sync.stage \in {"rewrite", "rename"} /\ sync'.done = sync.done
    BY <1>2 DEF Undoing
  <2> QED BY <1>0, <1>1, <1>2, <2>1, <2>2, <2>3, <2>4 DEF QuietFiles
<1>3. Fails(mem) => sync'.stage = "undoEntries"
  BY <1>0, FailsPlaced
<1>4. CASE RolloutMissing
  BY <1>0, <1>2, <1>4, OffPlaced DEF RolloutMissing
<1>5. CASE RewriteRollout
  <2>1. mem' = mem /\ disk' = disk /\ sync.stage = "rewrite"
    BY <1>5 DEF RewriteRollout, At
  <2>2. sync'.stage \in {"rewrite", "rename", "restore"} /\ sync'.done = sync.done
    BY <1>0, <1>5 DEF RewriteRollout, At, GoTo, Process
  <2> QED BY <1>0, <1>2, <2>1, <2>2
<1>6. CASE BeginTransaction
  <2>1. PICK edit \in Edits : PersistThen(WithIntent(edit), [sync EXCEPT !.stage = "intent"])
    BY <1>6 DEF BeginTransaction
  <2>2. PICK e \in OurEntry : WithIntent(edit) = [mem EXCEPT !.entries = Append(mem.entries, e)]
    BY <1>0, IntentFacts
  <2> DEFINE j == WithIntent(edit)
  <2>3. j \in OurJournal /\ j.files = mem.files
    <3> DEFINE es == Append(mem.entries, e)
    <3>1. es \in Seq(OurEntry)
      BY <1>0, JournalFacts
    <3>2. j = [mem EXCEPT !.entries = es]
      BY <2>2
    <3> HIDE DEF es, j
    <3> QED BY <1>0, <3>1, <3>2, NewFields
  <2>4. [sync EXCEPT !.stage = "intent"].stage = "intent"
    BY <1>0 DEF Process
  <2>5. PersistThen(j, [sync EXCEPT !.stage = "intent"])
    BY <2>1
  <2>6. sync.stage = "ready"
    BY <1>6 DEF BeginTransaction, At
  <2> HIDE DEF j
  <2>7. mem' = j /\ disk' \in {disk, j} /\ sync'.stage \in {"intent", "undoEntries"}
    <3>1. Fails(j) => sync'.stage = "undoEntries"
      BY <2>3, FailsPlaced
    <3> QED BY <2>4, <2>5, <3>1, PersistFacts
  <2> QED BY <1>0, <1>2, <2>3, <2>6, <2>7, JournalFacts DEF Undoing
<1>7. CASE CommitTransaction
  <2>1. mem' = mem /\ disk' = disk /\ sync.stage = "intent" /\ sync'.stage \in {"committed", "undoEntries"}
    BY <1>0, <1>3, <1>7 DEF CommitTransaction, At, GoTo, Process
  <2> QED BY <1>0, <1>2, <2>1 DEF Undoing
<1>8. CASE MarkCommitted
  <2>1. [sync EXCEPT !.stage = "ready"].stage = "ready"
    BY <1>0 DEF Process
  <2>2. mem' = mem /\ disk' \in {mem, disk} /\ sync.stage = "committed" /\ sync'.stage \in {"ready", "undoEntries"}
    BY <1>3, <1>8, <2>1, PersistFacts DEF MarkCommitted, At
  <2> QED BY <1>0, <1>2, <2>2 DEF Undoing
<1>9. CASE SyncFails \/ CheckGlobalState
  <2>1. mem' = mem /\ disk' = disk /\ (sync'.stage = "undoEntries" \/ (sync.stage = "check" /\ sync'.stage = "write"))
    BY <1>0, <1>3, <1>9 DEF SyncFails, CheckGlobalState, At, GoTo, Process
  <2> QED BY <1>0, <1>2, <2>1 DEF Undoing
<1>10. CASE Complete
  <2> DEFINE j == [mem EXCEPT !.state = "complete"]
  <2>1. j \in OurJournal /\ j.files = mem.files /\ j # NoJournal
    BY <1>0, NewFields, JournalFacts DEF State
  <2>2. \/ disk' = j /\ mem' = NoJournal /\ sync' = Off
        \/ disk' \in {disk, j} /\ mem' = j /\ Fails(j)
    BY <1>10 DEF Complete
  <2> HIDE DEF j
  <2>3. \/ disk' = j /\ mem' = NoJournal /\ sync'.stage = "off"
        \/ disk' \in {disk, j} /\ mem' = j /\ sync'.stage = "undoEntries"
    BY <2>1, <2>2, FailsPlaced, OffPlaced
  <2> QED BY <1>0, <1>2, <2>1, <2>3 DEF Undoing
<1> QED BY <1>4, <1>5, <1>6, <1>7, <1>8, <1>9, <1>10

LEMMA UndoFilesQuiet ==
    ASSUME Stored, Booked,
           \/ UndoEntry \/ KeepEntry \/ EntriesUndone \/ EndRollback \/ Crash \/ Recover
    PROVE  QuietFiles
<1>1. ASSUME fs' = fs, sync'.stage \in Undoing \cup {"off"}, disk' = NoJournal => disk = NoJournal,
             \A j \in {mem', disk'} : j = NoJournal \/ \E i \in {mem, disk} \ {NoJournal} : j.files = i.files
      PROVE  QuietFiles
  <2>1. ~InSync' /\ sync'.stage \notin {"rewrite", "rename"}
    BY <1>1 DEF InSync, Undoing
  <2>2. FilesAt(sync'.stage, mem'.files)
    BY <1>1, FilesAtElse
  <2> QED BY <1>1, <2>1, <2>2 DEF QuietFiles
<1>2. CASE UndoEntry
  <2>1. /\ mem \in OurJournal /\ mem'.files = mem.files /\ disk' = disk /\ fs' = fs
        /\ sync'.stage = "keepEntry"
    BY <1>2, UndoEntryFacts
  <2> QED BY <1>1, <2>1, JournalFacts DEF Undoing
<1>3. CASE KeepEntry
  <2>1. /\ mem \in OurJournal /\ disk \in OurJournal /\ mem' = mem
        /\ disk' \in {disk, mem} /\ sync'.stage = "undoEntries"
    BY <1>3, KeepEntryFacts
  <2> QED BY <1>1, <1>3, <2>1, JournalFacts DEF Undoing, KeepEntry
<1>4. CASE EntriesUndone
  <2>1. mem' = mem /\ disk' = disk /\ fs' = fs /\ sync'.stage = "undoFiles"
    <3>1. sync \in Process
      BY DEF Booked, Placed
    <3> QED BY <1>4, <3>1 DEF EntriesUndone, Process
  <2> QED BY <1>1, <2>1 DEF Undoing
<1>5. CASE EndRollback
  <2> DEFINE j == [mem EXCEPT !.state = FinalState]
  <2>0. mem \in OurJournal /\ mem # NoJournal /\ sync.stage # "off"
    BY <1>5, Working DEF EndRollback, At
  <2>1. disk' \in {disk, j} /\ mem' = NoJournal /\ sync'.stage = "off" /\ fs' = fs
    BY <1>5, OffPlaced DEF EndRollback
  <2>2. j \in OurJournal /\ j.files = mem.files
    <3>1. FinalState \in State
      BY DEF FinalState, State
    <3> QED BY <2>0, <3>1, NewFields
  <2> HIDE DEF j
  <2> QED BY <1>1, <2>0, <2>1, <2>2, JournalFacts
<1>6. CASE Crash
  BY <1>1, <1>6, OffPlaced DEF Crash
<1>7. CASE Recover
  <2>1. disk \in OurJournal /\ mem' = disk /\ disk' = disk /\ fs' = fs /\ Fails(disk) /\ disk # NoJournal
    BY <1>7 DEF Booked, Recover
  <2> QED BY <1>1, <2>1, FailsPlaced DEF Undoing
<1> QED BY <1>2, <1>3, <1>4, <1>5, <1>6, <1>7

LEMMA NewSyncFiles ==
    ASSUME Booked, FilesKept, NewSync PROVE FilesKept'
<1>1. mem = NoJournal /\ disk = NoJournal /\ fs' = fs
  BY DEF NewSync, Booked, Placed, At
<1>2. SyncFiles = {} /\ SyncFiles' = {}
  BY <1>1 DEF FilesKept, SyncFiles
<1>3. /\ mem' \in {NoJournal, NewJournal} /\ disk' \in {NoJournal, NewJournal}
      /\ \/ mem' = NewJournal /\ disk' = NewJournal /\ sync'.stage = "new"
         \/ sync'.stage = "off"
  <2>1. sync \in Process /\ sync.stage = "off"
    BY DEF NewSync, Booked, Placed, At
  <2> QED BY <1>1, <2>1 DEF NewSync, GoTo, Process
<1>4. Papers' \subseteq {<< >>}
  BY <1>3, NewJournalIsOurs DEF Papers
<1>5. \A files \in Papers' : Held(files)'
  BY <1>2, <1>4 DEF Held, SyncFiles
<1>6. InSync' => disk'.files = mem'.files /\ \A i \in DOMAIN mem'.files : ~mem'.files[i].restored
  BY <1>3, NewJournalIsOurs DEF InSync
<1>7. FilesAt(sync'.stage, mem'.files)
  <2>1. CASE sync'.stage = "off"
    BY <2>1, FilesAtElse
  <2>2. CASE sync'.stage = "new" /\ mem' = NewJournal
    BY <2>2, NewJournalIsOurs DEF FilesAt
  <2> QED BY <1>3, <2>1, <2>2
<1>8. sync'.stage \notin {"rewrite", "rename"}
  BY <1>3
<1> QED BY <1>2, <1>5, <1>6, <1>7, <1>8 DEF FilesKept

LEMMA PlansFiles ==
    ASSUME Stored, Booked, FilesKept, PrepareRollouts PROVE FilesKept'
<1>0. /\ sync.stage = "new" /\ mem = NewJournal /\ mem \in OurJournal /\ mem # NoJournal
      /\ disk \in OurJournal /\ disk # NoJournal /\ disk.files = mem.files /\ fs' = fs
  <2>1. sync.stage = "new" /\ InSync /\ fs' = fs
    BY DEF PrepareRollouts, At, InSync, Undoing
  <2> QED BY <2>1, Working, JournalFacts DEF Booked, Placed, FilesKept
<1>1. SyncFiles = {} /\ SyncFiles' = {}
  <2>1. Held(<< >>)
    BY <1>0, NewJournalIsOurs DEF FilesKept, Papers
  <2> QED BY <1>0, <2>1 DEF Held, KeepsFile, SyncFiles
<1>2. PICK x \in Seq(FileChange) :
         LET journal == [mem EXCEPT !.files = x] IN
         /\ \/ /\ mem' = journal /\ disk' = journal
               /\ sync' = [Off EXCEPT !.stage = "rewrite", !.at = 1]
            \/ disk' \in {disk, journal} /\ mem' = NoJournal /\ sync' = Off
         /\ \A i \in DOMAIN x :
               /\ x[i].path \in ToSet(Rollouts) /\ x[i].before = fs[x[i].path]
               /\ x[i].applied = "unknown" /\ ~x[i].restored
  BY PlansPlaced
<1> DEFINE journal == [mem EXCEPT !.files = x]
<1>3. journal \in OurJournal /\ journal.files = x /\ journal # NoJournal
  BY <1>0, NewFields, JournalFacts
<1>4. \/ mem' = journal /\ disk' = journal /\ sync' = [Off EXCEPT !.stage = "rewrite", !.at = 1]
      \/ disk' \in {disk, journal} /\ mem' = NoJournal /\ sync' = Off
  BY <1>2
<1> HIDE DEF journal
<1>5. \/ mem' = journal /\ disk' = journal /\ sync'.stage = "rewrite"
      \/ disk' \in {disk, journal} /\ mem' = NoJournal /\ sync'.stage = "off"
  <2>1. [Off EXCEPT !.stage = "rewrite", !.at = 1].stage = "rewrite"
    BY DEF Off
  <2> QED BY <1>4, <2>1, OffPlaced
<1>6. Papers' \subseteq {x, << >>}
  BY <1>0, <1>3, <1>5, NewJournalIsOurs DEF Papers
<1>7. \A i \in DOMAIN x : /\ x[i].before \notin SyncValues /\ Fresh(x[i])
                          /\ x[i].path \notin {GlobalState, GlobalBackup}
  <2>1. \A i \in DOMAIN x : x[i].path \in Files /\ x[i].path \notin {GlobalState, GlobalBackup}
    BY <1>2, JournalAssumption DEF Files
  <2>2. \A i \in DOMAIN x : x[i].before = fs[x[i].path] /\ Fresh(x[i])
    BY <1>2 DEF Fresh
  <2> QED BY <1>1, <2>1, <2>2 DEF SyncFiles
<1>8. \A files \in Papers' : Held(files)'
  BY <1>1, <1>6, <1>7 DEF Held, SyncFiles
<1>9. FilesAt(sync'.stage, mem'.files)
  <2>1. CASE sync'.stage = "off"
    BY <2>1, FilesAtElse
  <2>2. CASE sync'.stage = "rewrite" /\ mem' = journal
    BY <1>3, <1>7, <2>2 DEF FilesAt
  <2> QED BY <1>5, <2>1, <2>2
<1>10. InSync' => disk'.files = mem'.files /\ \A i \in DOMAIN mem'.files : ~mem'.files[i].restored
  BY <1>3, <1>5, <1>7 DEF InSync, Fresh
<1> QED BY <1>1, <1>8, <1>9, <1>10 DEF FilesKept

\* A file that takes the value of its image, or the one it had.
LEMMA HeldWrite ==
    ASSUME Stored, NEW files, Held(files), NEW i \in DOMAIN files, files[i].path \in Files,
           \/ fs' = [fs EXCEPT ![files[i].path] = files[i].before]
           \/ /\ fs' = [fs EXCEPT ![files[i].path] = files[i].after]
              /\ ~files[i].restored /\ files[i].applied # "no"
    PROVE  Held(files)'
<1> DEFINE f == files[i].path
<1>1. \A g \in Files \ {f} : fs'[g] = fs[g]
  BY DEF Stored
<1>2. fs'[f] \in SyncValues => KeepsFile(files, f, fs'[f])
  BY DEF Stored, Held, KeepsFile
<1> QED BY <1>1, <1>2 DEF Held

LEMMA RewriteFiles ==
    ASSUME Stored, Booked, FilesKept,
           RenameRollout \/ RestoreRewritten \/ WriteGlobalState \/ WriteBackup
    PROVE  FilesKept'
<1>0. /\ sync.stage # "off" /\ InSync /\ mem \in OurJournal /\ disk \in OurJournal /\ mem' = mem
      /\ sync \in Process /\ mem # NoJournal /\ disk # NoJournal /\ disk' = disk
      /\ disk.files = mem.files /\ \A i \in DOMAIN mem.files : ~mem.files[i].restored
      /\ FilesAt(sync.stage, mem.files) /\ Len(mem.files) \in Nat
      /\ DOMAIN mem.files = 1 .. Len(mem.files)
      /\ \A i \in DOMAIN mem.files : mem.files[i].path \in Files
  <2>1. InSync /\ sync.stage # "off" /\ mem' = mem /\ disk' = disk
    BY DEF RenameRollout, RestoreRewritten, WriteGlobalState, WriteBackup, At, InSync, Undoing
  <2>2. mem \in OurJournal /\ disk \in OurJournal /\ sync \in Process /\ mem # NoJournal
    BY <2>1, Working
  <2>3. \A i \in DOMAIN mem.files : mem.files[i].path \in Files
    BY <2>2, JournalFacts DEF FileChange
  <2> QED BY <2>1, <2>2, <2>3, JournalFacts DEF FilesKept
<1>a. PICK files \in Seq(FileChange) : files = mem.files
  BY <1>0, JournalFacts
<1>1. Held(files) /\ Papers' = {files}
  BY <1>0, <1>a DEF FilesKept, Papers
<1>2. ASSUME Held(files)', FilesAt(sync'.stage, files),
             sync'.stage \in {"rewrite", "rename"} => SyncFiles' \subseteq sync'.done
      PROVE  FilesKept'
  BY <1>0, <1>1, <1>2, <1>a DEF FilesKept
<1>3. UNCHANGED fs => Held(files)'
  BY <1>1 DEF Held
<1>4. Fails(mem) => sync'.stage = "undoEntries" /\ FilesAt(sync'.stage, files)
  BY <1>0, FailsPlaced, FilesAtElse DEF Undoing
<1>5. CASE RenameRollout
  <2>1. sync.stage = "rename" /\ sync.at \in DOMAIN files
    BY <1>0, <1>5, <1>a DEF RenameRollout, At, Booked, Placed
  <2>a. PICK n \in DOMAIN files : n = sync.at
    BY <2>1
  <2>2. /\ fs' = [fs EXCEPT ![files[n].path] = files[n].after]
        /\ sync'.stage = "rewrite" /\ sync'.done = sync.done \cup {files[n].path}
    BY <1>0, <1>5, <1>a, <2>a DEF RenameRollout, Process
  <2>3. \A i \in DOMAIN files : Fresh(files[i])
    BY <1>0, <1>a, <2>1 DEF FilesAt
  <2>4. Held(files)'
    BY <1>0, <1>1, <1>a, <2>2, <2>3, HeldWrite DEF Fresh
  <2>5. SyncFiles' \subseteq sync'.done
    <3>1. SyncFiles \subseteq sync.done
      BY <2>1 DEF FilesKept
    <3>2. SyncFiles' \subseteq SyncFiles \cup {files[n].path}
      BY <2>2 DEF SyncFiles, Stored
    <3> QED BY <2>2, <3>1, <3>2
  <2>6. FilesAt(sync'.stage, files)
    BY <1>0, <1>a, <2>1, <2>2 DEF FilesAt
  <2> QED BY <1>2, <2>4, <2>5, <2>6
<1>6. CASE RestoreRewritten
  <2>1. sync.stage = "restore"
    BY <1>6 DEF RestoreRewritten, At
  <2>2. CASE sync.done = {}
    BY <1>2, <1>3, <1>4, <1>6, <2>2 DEF RestoreRewritten
  <2>3. CASE sync.done # {}
    <3>1. PICK i \in DOMAIN mem.files :
             LET f == mem.files[i].path IN
             /\ sync' = [sync EXCEPT !.done = sync.done \ {f}]
             /\ fs' = [fs EXCEPT ![f] = mem.files[i].before] \/ UNCHANGED fs
      BY <1>6, <2>3, RestoreFacts
    <3>2. sync'.stage = "restore"
      BY <1>0, <2>1, <3>1 DEF Process
    <3>3. Held(files)'
      BY <1>0, <1>1, <1>3, <1>a, <3>1, HeldWrite
    <3> QED BY <1>0, <1>2, <1>a, <2>1, <3>2, <3>3
  <2> QED BY <2>2, <2>3
<1>7. CASE WriteGlobalState \/ WriteBackup
  <2>a. sync.stage = IF WriteGlobalState THEN "write" ELSE "writeBackup"
    BY <1>7 DEF WriteGlobalState, WriteBackup, At
  <2>b. Len(files) > 1
    BY <1>0, <1>a, <2>a DEF Booked, Placed
  <2>2. /\ files[Len(files) - 1].path = GlobalState /\ Fresh(files[Len(files) - 1])
        /\ files[Len(files)].path = GlobalBackup /\ Fresh(files[Len(files)])
    BY <1>0, <1>a, <2>a DEF FilesAt
  <2>3. CASE Fails(mem) /\ UNCHANGED fs
    BY <1>2, <1>3, <1>4, <2>3
  <2>4. CASE WriteGlobalState /\ ~(Fails(mem) /\ UNCHANGED fs)
    <3>1. /\ fs' = [fs EXCEPT ![GlobalState] = files[Len(files) - 1].after]
          /\ sync'.stage = "writeBackup"
      BY <1>0, <1>a, <2>4 DEF WriteGlobalState, GoTo, Process
    <3>2. Len(files) - 1 \in DOMAIN files
      BY <1>0, <1>a, <2>b
    <3>3. Held(files)'
      BY <1>0, <1>1, <1>a, <2>2, <3>1, <3>2, HeldWrite DEF Fresh
    <3>4. FilesAt(sync'.stage, files)
      BY <2>2, <3>1 DEF FilesAt
    <3> QED BY <1>2, <3>1, <3>3, <3>4
  <2>5. CASE WriteBackup /\ ~(Fails(mem) /\ UNCHANGED fs)
    <3>1. /\ fs' = [fs EXCEPT ![GlobalBackup] = files[Len(files)].after]
          /\ sync'.stage = "complete"
      BY <1>0, <1>a, <2>5 DEF WriteBackup, GoTo, Process, Last
    <3>2. Len(files) \in DOMAIN files
      BY <1>0, <1>a, <2>b
    <3>3. Held(files)'
      BY <1>0, <1>1, <1>a, <2>2, <3>1, <3>2, HeldWrite DEF Fresh
    <3>4. FilesAt(sync'.stage, files)
      BY <3>1, FilesAtElse
    <3> QED BY <1>2, <3>1, <3>3, <3>4
  <2> QED BY <1>7, <2>3, <2>4, <2>5
<1> QED BY <1>5, <1>6, <1>7

\* Saving other images of the files, of which all are as good as the old ones.
LEMMA SaveFiles ==
    ASSUME Booked, FilesKept, InSync, NEW x \in Seq(FileChange), NEW stage \in Stage,
           stage \in {"ready", "prepareBackup", "check"}, NEW next, next.stage = stage,
           PersistThen([mem EXCEPT !.files = x], next), fs' = fs,
           Held(x), \A i \in DOMAIN x : ~x[i].restored, FilesAt(stage, x)
    PROVE  FilesKept'
<1>0. /\ mem \in OurJournal /\ disk \in OurJournal /\ disk # NoJournal /\ disk.files = mem.files
      /\ mem # NoJournal
  <2>1. sync.stage # "off"
    BY DEF InSync
  <2> QED BY <2>1, Working, JournalFacts DEF FilesKept
<1> DEFINE j == [mem EXCEPT !.files = x]
<1>1. j \in OurJournal /\ j.files = x /\ j # NoJournal
  BY <1>0, NewFields, JournalFacts
<1>2. PersistThen(j, next)
  OBVIOUS
<1> HIDE DEF j
<1>3. /\ mem' = j /\ disk' \in {disk, j}
      /\ \/ sync'.stage = stage /\ disk' = j
         \/ sync'.stage = "undoEntries"
  <2>1. Fails(j) => sync'.stage = "undoEntries"
    BY <1>1, FailsPlaced
  <2> QED BY <1>2, <2>1, PersistFacts
<1>4. Papers' \subseteq {mem.files, x}
  BY <1>0, <1>1, <1>3 DEF Papers
<1>5. \A files \in Papers' : Held(files)'
  <2>1. Held(mem.files)
    BY <1>0 DEF FilesKept, Papers
  <2>2. \A files : Held(files) => Held(files)'
    BY DEF Held
  <2> QED BY <1>4, <2>1, <2>2
<1>6. InSync' => disk'.files = mem'.files /\ \A i \in DOMAIN mem'.files : ~mem'.files[i].restored
  BY <1>1, <1>3 DEF InSync, Undoing
<1>7. FilesAt(sync'.stage, mem'.files)
  <2>1. CASE sync'.stage = "undoEntries"
    BY <2>1, FilesAtElse DEF Undoing
  <2>2. CASE sync'.stage = stage
    BY <1>1, <1>3, <2>2
  <2> QED BY <1>3, <2>1, <2>2
<1>8. sync'.stage \notin {"rewrite", "rename"} /\ disk' # NoJournal
  BY <1>0, <1>1, <1>3
<1> QED BY <1>5, <1>6, <1>7, <1>8 DEF FilesKept

LEMMA MarkFiles ==
    ASSUME Booked, FilesKept, MarkRolloutsApplied PROVE FilesKept'
<1>0. /\ InSync /\ mem \in OurJournal /\ mem # NoJournal /\ fs' = fs /\ sync.stage = "rewrite"
      /\ FilesAt("rewrite", mem.files) /\ SyncFiles \subseteq sync.done /\ Held(mem.files)
      /\ \A i \in DOMAIN mem.files : ~mem.files[i].restored
  <2>1. InSync /\ fs' = fs /\ sync.stage = "rewrite"
    BY DEF MarkRolloutsApplied, At, InSync, Undoing
  <2> QED BY <2>1, Working, JournalFacts DEF FilesKept, Papers
<1>1. PICK x \in Seq(FileChange) :
         /\ PersistThen([mem EXCEPT !.files = x], [Off EXCEPT !.stage = "ready"])
         /\ Len(x) = Len(mem.files)
         /\ \A i \in DOMAIN mem.files :
               /\ x[i].path = mem.files[i].path /\ x[i].before = mem.files[i].before
               /\ x[i].after = mem.files[i].after /\ x[i].restored = mem.files[i].restored
               /\ x[i].applied = IF mem.files[i].path \in sync.done THEN "yes" ELSE "no"
  BY <1>0, MarkFacts
<1>2. DOMAIN x = DOMAIN mem.files
  BY <1>0, <1>1, JournalFacts
<1>3. ASSUME NEW f \in Files, fs[f] \in SyncValues PROVE KeepsFile(x, f, fs[f])
  <2>1. PICK i \in DOMAIN mem.files : mem.files[i].path = f /\ mem.files[i].after = fs[f]
    BY <1>0, <1>3 DEF Held, KeepsFile
  <2>2. f \in sync.done
    BY <1>0, <1>3 DEF SyncFiles
  <2>3. x[i].path = f /\ x[i].after = fs[f] /\ ~x[i].restored /\ x[i].applied = "yes"
    BY <1>0, <1>1, <2>1, <2>2
  <2> QED BY <1>2, <2>3 DEF KeepsFile
<1>4. Held(x)
  BY <1>0, <1>1, <1>2, <1>3 DEF Held
<1>5. FilesAt("ready", x)
  BY <1>0, <1>1, <1>2 DEF FilesAt
<1>6. \A i \in DOMAIN x : ~x[i].restored
  BY <1>0, <1>1, <1>2
<1>7. [Off EXCEPT !.stage = "ready"].stage = "ready" /\ "ready" \in Stage
  BY DEF Off, Stage
<1> QED BY <1>0, <1>1, <1>4, <1>5, <1>6, <1>7, SaveFiles

LEMMA GlobalFiles ==
    ASSUME Stored, Booked, FilesKept, PrepareGlobalState \/ PrepareBackup PROVE FilesKept'
<1>0. /\ InSync /\ mem \in OurJournal /\ mem # NoJournal /\ fs' = fs /\ sync \in Process
      /\ FilesAt(sync.stage, mem.files) /\ Held(mem.files)
      /\ \A i \in DOMAIN mem.files : ~mem.files[i].restored
  <2>1. InSync /\ fs' = fs
    BY DEF PrepareGlobalState, PrepareBackup, At, InSync, Undoing
  <2>2. mem \in OurJournal /\ mem # NoJournal /\ sync \in Process
    BY <2>1, Working DEF InSync
  <2> QED BY <2>1, <2>2 DEF FilesKept, Papers
<1>1. PICK x \in FileChange, stage \in {"prepareBackup", "check"} :
         /\ PersistThen([mem EXCEPT !.files = Append(mem.files, x)],
                        [sync EXCEPT !.stage = stage])
         /\ stage = "check" => Len(mem.files) > 0
         /\ x.path = IF stage = "check" THEN GlobalBackup ELSE GlobalState
         /\ x.before = fs[x.path] /\ x.applied = "unknown" /\ ~x.restored
         /\ sync.stage = IF stage = "check" THEN "prepareBackup" ELSE "ready"
  BY GlobalFacts
<1>a. PICK old \in Seq(FileChange) : old = mem.files
  BY <1>0, JournalFacts
<1> DEFINE new == Append(old, x)
<1>2. /\ new \in Seq(FileChange) /\ Len(new) = Len(old) + 1 /\ Len(old) \in Nat
      /\ DOMAIN new = 1 .. Len(old) + 1 /\ DOMAIN old = 1 .. Len(old)
      /\ new[Len(old) + 1] = x /\ \A i \in DOMAIN old : new[i] = old[i]
  OBVIOUS
<1> HIDE DEF new
<1>3. \A i \in DOMAIN old : old[i].path # x.path
  BY <1>0, <1>1, <1>a DEF FilesAt
<1>4. x.path \in Files /\ x.before \notin SyncValues
  <2>1. x.path \in Files
    BY <1>1 DEF Files
  <2>2. fs[x.path] \notin SyncValues
    BY <1>0, <1>3, <1>a, <2>1 DEF Held, KeepsFile
  <2> QED BY <1>1, <2>1, <2>2
<1>5. Held(new)
  <2>1. ASSUME NEW f \in Files, fs[f] \in SyncValues PROVE KeepsFile(new, f, fs[f])
    <3>1. PICK i \in DOMAIN old : /\ old[i].path = f /\ old[i].after = fs[f]
                                  /\ ~old[i].restored /\ old[i].applied # "no"
      BY <1>0, <1>a, <2>1 DEF Held, KeepsFile
    <3>2. i \in DOMAIN new /\ new[i] = old[i]
      BY <1>2
    <3> QED BY <3>1, <3>2 DEF KeepsFile
  <2>2. ASSUME NEW i \in DOMAIN new PROVE new[i].before \notin SyncValues
    <3>1. CASE i \in DOMAIN old
      BY <1>0, <1>2, <1>a, <3>1 DEF Held
    <3>2. CASE i = Len(old) + 1
      BY <1>2, <1>4, <3>2
    <3> QED BY <1>2, <3>1, <3>2
  <2> QED BY <2>1, <2>2 DEF Held
<1>6. \A i \in DOMAIN new : ~new[i].restored
  <2>1. ASSUME NEW i \in DOMAIN new PROVE ~new[i].restored
    <3>1. CASE i \in DOMAIN old
      BY <1>0, <1>2, <1>a, <3>1
    <3>2. CASE i = Len(old) + 1
      BY <1>1, <1>2, <3>2
    <3> QED BY <1>2, <3>1, <3>2
  <2> QED BY <2>1
<1>7. FilesAt(stage, new)
  <2>1. Fresh(x) /\ new[Len(new)] = x
    BY <1>1, <1>2 DEF Fresh
  <2>2. CASE stage = "prepareBackup"
    <3>1. \A i \in DOMAIN old : old[i].path \notin {GlobalState, GlobalBackup}
      BY <1>0, <1>1, <1>a, <2>2 DEF FilesAt
    <3>2. x.path = GlobalState /\ GlobalState # GlobalBackup
      BY <1>1, <2>2, JournalAssumption
    <3>3. \A i \in DOMAIN new : new[i].path # GlobalBackup
      <4>1. ASSUME NEW i \in DOMAIN new PROVE new[i].path # GlobalBackup
        <5>1. CASE i \in DOMAIN old
          BY <1>2, <3>1, <5>1
        <5>2. CASE i = Len(old) + 1
          BY <1>2, <3>2, <5>2
        <5> QED BY <1>2, <5>1, <5>2
      <4> QED BY <4>1
    <3> QED BY <2>1, <2>2, <3>2, <3>3 DEF FilesAt
  <2>3. CASE stage = "check"
    <3>1. old[Len(old)].path = GlobalState /\ Fresh(old[Len(old)]) /\ Len(old) \in DOMAIN old
      BY <1>0, <1>1, <1>2, <1>a, <2>3 DEF FilesAt
    <3>2. new[Len(new) - 1] = old[Len(old)]
      BY <1>2, <3>1
    <3> QED BY <1>1, <2>1, <2>3, <3>1, <3>2 DEF FilesAt
  <2> QED BY <2>2, <2>3
<1>8. PersistThen([mem EXCEPT !.files = new], [sync EXCEPT !.stage = stage])
  BY <1>1, <1>a DEF new
<1>9. [sync EXCEPT !.stage = stage].stage = stage /\ stage \in Stage
  BY <1>0 DEF Process, Stage
<1> QED BY <1>0, <1>2, <1>5, <1>6, <1>7, <1>8, <1>9, SaveFiles

LEMMA UndoneFiles ==
    ASSUME Stored, Booked, FilesKept, UndoFile \/ ReplaceFile PROVE FilesKept'
<1>0. /\ mem \in OurJournal /\ sync \in Process /\ disk \in OurJournal
      /\ mem # NoJournal /\ disk # NoJournal
      /\ sync.at \in DOMAIN mem.files /\ sync.stage \in {"undoFiles", "replaceFile"}
      /\ Held(mem.files) /\ Held(disk.files)
  <2>1. /\ mem \in OurJournal /\ sync \in Process /\ disk \in OurJournal
        /\ sync.at \in DOMAIN mem.files /\ sync.stage \in {"undoFiles", "replaceFile"}
    BY AtFiles, JournalFacts
  <2> QED BY <2>1, JournalFacts DEF FilesKept, Papers
<1>a. PICK old \in Seq(FileChange), d \in Seq(FileChange), n \in Nat :
         old = mem.files /\ d = disk.files /\ n = sync.at /\ n \in DOMAIN old
  BY <1>0, JournalFacts
<1>1. disk' = disk
  <2>1. CASE UndoFile
    BY <2>1 DEF UndoFile
  <2>2. CASE ReplaceFile
    BY <2>2 DEF ReplaceFile
  <2> QED BY <2>1, <2>2
\* Marking a file, or not yet, after which each image is as good as before.
<1>2. ASSUME NEW files \in Seq(FileChange), mem' \in OurJournal, mem'.files = files, Held(files)', Held(d)',
             sync'.stage \in Undoing
      PROVE  FilesKept'
  <2>1. Papers' \subseteq {files, d}
    BY <1>1, <1>2, <1>a DEF Papers
  <2>2. \A x \in Papers' : Held(x)'
    BY <1>2, <2>1
  <2>3. FilesAt(sync.stage, mem.files)'
    BY <1>2, FilesAtElse
  <2> QED BY <1>0, <1>1, <1>2, <2>2, <2>3 DEF FilesKept, InSync, Undoing
<1>3. ASSUME NEW ok \in BOOLEAN, FileDone(ok), Held(old)', Held(d)',
             ok => fs'[old[n].path] \notin SyncValues \/ old[n].restored \/ old[n].applied = "no"
      PROVE  FilesKept'
  <2>1. FileMarked(ok)
    BY <1>0, <1>3, FileDoneFacts, JournalFacts
  <2>2. PICK files \in Seq(FileChange) :
           /\ mem' \in OurJournal /\ mem'.files = files /\ Len(files) = Len(mem.files)
           /\ \A i \in DOMAIN mem.files :
                 /\ files[i].path = mem.files[i].path /\ files[i].before = mem.files[i].before
                 /\ files[i].after = mem.files[i].after /\ files[i].applied = mem.files[i].applied
                 /\ files[i].restored <=> mem.files[i].restored \/ (i = sync.at /\ ok)
    BY <2>1 DEF FileMarked
  <2>3. sync'.stage = "undoFiles"
    BY <2>1 DEF FileMarked
  <2>4. /\ DOMAIN files = DOMAIN old
        /\ \A i \in DOMAIN old :
              /\ files[i].path = old[i].path /\ files[i].before = old[i].before
              /\ files[i].after = old[i].after /\ files[i].applied = old[i].applied
              /\ files[i].restored <=> old[i].restored \/ (i = n /\ ok)
    BY <1>0, <1>a, <2>2, JournalFacts
  <2>5. ASSUME NEW f \in Files, fs'[f] \in SyncValues PROVE KeepsFile(files, f, fs'[f])
    <3>1. PICK i \in DOMAIN old : /\ old[i].path = f /\ old[i].after = fs'[f]
                                  /\ ~old[i].restored /\ old[i].applied # "no"
      BY <1>3, <2>5 DEF Held, KeepsFile
    <3>2. ~(i = n /\ ok)
      BY <1>3, <2>5, <3>1
    <3> QED BY <2>4, <3>1, <3>2 DEF KeepsFile
  <2>6. Held(files)'
    BY <1>3, <2>4, <2>5 DEF Held
  <2> QED BY <1>2, <1>3, <2>2, <2>3, <2>6 DEF Undoing
<1>4. CASE UndoFile
  <2>0. fs' = fs /\ Held(old)' /\ Held(d)'
    <3>1. fs' = fs
      BY <1>4 DEF UndoFile
    <3> QED BY <1>0, <1>a, <3>1 DEF Held
  <2>1. CASE AsBefore(old[n]) /\ FileDone(TRUE)
    <3>1. old[n].restored \/ old[n].applied = "no" \/ fs[old[n].path] = old[n].before
      BY <2>1 DEF AsBefore
    <3>2. old[n].before \notin SyncValues
      BY <1>0, <1>a DEF Held
    <3>3. FileDone(TRUE)
      BY <2>1
    <3>4. fs'[old[n].path] \notin SyncValues \/ old[n].restored \/ old[n].applied = "no"
      BY <2>0, <3>1, <3>2
    <3> QED BY <1>3, <2>0, <3>3, <3>4
  <2>2. CASE GoTo("replaceFile") /\ mem' = mem
    <3>1. sync'.stage = "replaceFile"
      BY <1>0, <2>2 DEF GoTo, Process
    <3> QED BY <1>0, <1>2, <1>a, <2>0, <2>2, <3>1 DEF Undoing
  <2>3. CASE FileDone(FALSE)
    BY <1>3, <2>0, <2>3
  <2> QED BY <1>4, <1>a, <2>1, <2>2, <2>3 DEF UndoFile
<1>5. CASE ReplaceFile
  <2>1. /\ fs' = [fs EXCEPT ![old[n].path] = old[n].before]
        /\ \E ok \in BOOLEAN : FileDone(ok)
    BY <1>5, <1>a DEF ReplaceFile
  <2>2. old[n].path \in Files /\ old[n].before \notin SyncValues
    <3>1. old[n] \in FileChange
      BY <1>a
    <3> QED BY <1>0, <1>a, <3>1 DEF FileChange, Held
  <2>3. \A g \in Files : fs'[g] = IF g = old[n].path THEN old[n].before ELSE fs[g]
    BY <2>1 DEF Stored
  <2>4. Held(old)' /\ Held(d)'
    BY <1>0, <1>a, <2>2, <2>3 DEF Held
  <2> QED BY <1>3, <2>1, <2>2, <2>3, <2>4
<1> QED BY <1>4, <1>5

LEMMA FilesStep ==
    ASSUME Stored, Booked, FilesKept, [Next]_vars PROVE FilesKept'
<1>1. CASE \/ RolloutMissing \/ RewriteRollout \/ BeginTransaction \/ CommitTransaction
           \/ MarkCommitted \/ SyncFails \/ CheckGlobalState \/ Complete
  BY <1>1, SyncFilesQuiet, QuietFilesStep
<1>2. CASE UndoEntry \/ KeepEntry \/ EntriesUndone \/ EndRollback \/ Crash \/ Recover
  BY <1>2, UndoFilesQuiet, QuietFilesStep
<1>3. CASE NewSync
  BY <1>3, NewSyncFiles
<1>4. CASE PrepareRollouts
  BY <1>4, PlansFiles
<1>5. CASE RenameRollout \/ RestoreRewritten \/ WriteGlobalState \/ WriteBackup
  BY <1>5, RewriteFiles
<1>6. CASE MarkRolloutsApplied
  BY <1>6, MarkFiles
<1>7. CASE PrepareGlobalState \/ PrepareBackup
  BY <1>7, GlobalFiles
<1>8. CASE UndoFile \/ ReplaceFile
  BY <1>8, UndoneFiles
<1>9. CASE \E f \in Files : OtherFile(f)
  <2>1. PICK f \in Files : OtherFile(f)
    BY <1>9
  <2>2. UNCHANGED <<disk, mem, sync>> /\ \A g \in Files : fs'[g] \in SyncValues => fs'[g] = fs[g]
    BY <2>1, JournalAssumption DEF OtherFile, Stored
  <2>3. \A files : Held(files) => Held(files)'
    BY <2>2 DEF Held
  <2>4. SyncFiles' \subseteq SyncFiles
    BY <2>2 DEF SyncFiles
  <2>5. Papers' = Papers
    BY <2>2 DEF Papers
  <2> QED BY <2>2, <2>3, <2>4, <2>5 DEF FilesKept, InSync, FilesAt, Fresh
<1>10. CASE (\E r \in Rows : OtherRow(r)) \/ UNCHANGED vars
  <2>1. UNCHANGED <<fs, disk, mem, sync>>
    BY <1>10 DEF OtherRow, vars
  <2> QED BY <2>1 DEF FilesKept, Papers, Held, SyncFiles, InSync, FilesAt, Fresh
<1> QED BY <1>1, <1>2, <1>3, <1>4, <1>5, <1>6, <1>7, <1>8, <1>9, <1>10 DEF Next, SyncStep, UndoStep

LEMMA FilesInit == Init => FilesKept
<1> SUFFICES ASSUME Init PROVE FilesKept
  OBVIOUS
<1>1. mem = NoJournal /\ disk = NoJournal /\ sync.stage = "off"
  BY OffPlaced DEF Init
<1>2. SyncFiles = {}
  BY JournalAssumption DEF Init, SyncFiles
<1>3. Papers = {}
  BY <1>1 DEF Papers
<1> QED BY <1>1, <1>2, <1>3, FilesAtElse DEF FilesKept, InSync
-----------------------------------------------------------------------------
(* What is undone: a rollback that met no error has crossed everything off. *)

\* Nothing is left to be undone: of a file, of the entries and of the files after
\* the first n, of a journal.
Settled(file)         == file.restored \/ file.applied = "no"
EntriesDone(es, n)    == \A i \in DOMAIN es : i > n => Open(es[i]) = {}
FilesDone(files, n)   == \A i \in DOMAIN files : i > n => Settled(files[i])
AllDone(journal)      == EntriesDone(journal.entries, 0) /\ FilesDone(journal.files, 0)

\* A journal that says "rolled_back" has everything crossed off, and a rollback
\* that has met no error so far everything that had its turn.
Done ==
    /\ \A j \in {mem, disk} \ {NoJournal} : j.state = "rolled_back" => AllDone(j)
    /\ InSync => mem.state = "prepared"
    /\ ~sync.errs =>
          /\ At("undoEntries") => EntriesDone(mem.entries, sync.at)
          /\ At("keepEntry") => EntriesDone(mem.entries, sync.at - 1)
          /\ sync.stage \in {"undoFiles", "replaceFile"} =>
                EntriesDone(mem.entries, 0) /\ FilesDone(mem.files, sync.at)

\* What a step of a sync makes of its journal: it is saved or not, and the sync
\* goes on, ends, or fails.
SyncTo(j) ==
    /\ disk' \in {disk, j} /\ mem' \in {j, NoJournal}
    /\ \/ InSync' /\ mem' = j /\ j.state = mem.state
       \/ Fails(j) /\ mem' = j
       \/ sync'.stage = "off" /\ mem' = NoJournal

LEMMA PersistTo ==
    ASSUME NEW j \in OurJournal, j.state = mem.state, NEW next,
           next.stage \notin Undoing \cup {"off"}, PersistThen(j, next)
    PROVE  SyncTo(j)
BY PersistFacts DEF SyncTo, InSync

LEMMA SyncSteps ==
    ASSUME Stored, Booked, SyncStep, ~NewSync
    PROVE  /\ InSync /\ mem \in OurJournal
           /\ \E j \in OurJournal : j.state \in {mem.state, "complete"} /\ SyncTo(j)
<1>0. /\ InSync /\ mem \in OurJournal /\ mem # NoJournal /\ sync \in Process
  <2>1. InSync
    BY DEF SyncStep, PrepareRollouts, RolloutMissing, RewriteRollout, RenameRollout,
           RestoreRewritten, MarkRolloutsApplied, BeginTransaction, CommitTransaction,
           MarkCommitted, SyncFails, PrepareGlobalState, PrepareBackup, CheckGlobalState,
           WriteGlobalState, WriteBackup, Complete, At, InSync, Undoing
  <2> QED BY <2>1, Working DEF InSync
<1>1. SUFFICES \E j \in OurJournal : j.state \in {mem.state, "complete"} /\ SyncTo(j)
  BY <1>0
<1>2. CASE PrepareRollouts
  <2>1. PICK x \in Seq(FileChange) :
           LET journal == [mem EXCEPT !.files = x] IN
           \/ /\ mem' = journal /\ disk' = journal
              /\ sync' = [Off EXCEPT !.stage = "rewrite", !.at = 1]
           \/ disk' \in {disk, journal} /\ mem' = NoJournal /\ sync' = Off
    BY <1>2, PlansPlaced
  <2> DEFINE j == [mem EXCEPT !.files = x]
  <2>2. j \in OurJournal /\ j.state = mem.state
    BY <1>0, NewFields
  <2>3. \/ mem' = j /\ disk' = j /\ sync' = [Off EXCEPT !.stage = "rewrite", !.at = 1]
        \/ disk' \in {disk, j} /\ mem' = NoJournal /\ sync' = Off
    BY <2>1
  <2>4. [Off EXCEPT !.stage = "rewrite", !.at = 1].stage = "rewrite"
    BY DEF Off
  <2> HIDE DEF j
  <2> QED BY <2>2, <2>3, <2>4, OffPlaced DEF SyncTo, InSync, Undoing
<1>3. CASE RolloutMissing
  <2>1. SyncTo(mem)
    BY <1>3, OffPlaced DEF RolloutMissing, SyncTo
  <2> QED BY <1>0, <2>1
<1>4. CASE \/ RewriteRollout \/ RenameRollout \/ RestoreRewritten \/ CommitTransaction \/ SyncFails
           \/ CheckGlobalState \/ WriteGlobalState \/ WriteBackup
  <2>1. mem' = mem /\ disk' = disk
    BY <1>4 DEF RewriteRollout, RenameRollout, RestoreRewritten, CommitTransaction, SyncFails,
                CheckGlobalState, WriteGlobalState, WriteBackup
  <2>2. \/ Fails(mem)
        \/ sync'.stage \in {"rewrite", "rename", "restore", "committed", "write", "writeBackup", "complete"}
    BY <1>0, <1>4 DEF RewriteRollout, RenameRollout, RestoreRewritten, CommitTransaction, SyncFails,
                      CheckGlobalState, WriteGlobalState, WriteBackup, At, GoTo, Process
  <2>3. SyncTo(mem)
    BY <2>1, <2>2 DEF SyncTo, InSync, Undoing
  <2> QED BY <1>0, <2>3
<1>5. CASE MarkRolloutsApplied
  <2>1. PICK x \in Seq(FileChange) :
           PersistThen([mem EXCEPT !.files = x], [Off EXCEPT !.stage = "ready"])
    BY <1>0, <1>5, MarkFacts
  <2> DEFINE j == [mem EXCEPT !.files = x]
  <2>2. j \in OurJournal /\ j.state = mem.state
    BY <1>0, NewFields
  <2>3. [Off EXCEPT !.stage = "ready"].stage \notin Undoing \cup {"off"}
    BY DEF Off, Undoing
  <2>4. SyncTo(j)
    BY <2>1, <2>2, <2>3, PersistTo
  <2> QED BY <2>2, <2>4
<1>6. CASE BeginTransaction
  <2>1. PICK edit \in Edits : PersistThen(WithIntent(edit), [sync EXCEPT !.stage = "intent"])
    BY <1>6 DEF BeginTransaction
  <2>2. WithIntent(edit) \in OurJournal /\ WithIntent(edit).state = mem.state
    <3>1. PICK e \in OurEntry : WithIntent(edit) = [mem EXCEPT !.entries = Append(mem.entries, e)]
      BY <1>0, IntentFacts
    <3> DEFINE es == Append(mem.entries, e)
    <3>2. es \in Seq(OurEntry)
      BY <1>0, JournalFacts
    <3>3. WithIntent(edit) = [mem EXCEPT !.entries = es]
      BY <3>1
    <3> HIDE DEF es
    <3> QED BY <1>0, <3>2, <3>3, NewFields
  <2>3. [sync EXCEPT !.stage = "intent"].stage \notin Undoing \cup {"off"}
    BY <1>0 DEF Process, Undoing
  <2>4. SyncTo(WithIntent(edit))
    BY <2>1, <2>2, <2>3, PersistTo
  <2> QED BY <2>2, <2>4
<1>7. CASE MarkCommitted
  <2>1. [sync EXCEPT !.stage = "ready"].stage \notin Undoing \cup {"off"}
    BY <1>0 DEF Process, Undoing
  <2>2. SyncTo(mem)
    BY <1>0, <1>7, <2>1, PersistTo DEF MarkCommitted
  <2> QED BY <1>0, <2>2
<1>8. CASE PrepareGlobalState \/ PrepareBackup
  <2>1. PICK x \in FileChange, stage \in {"prepareBackup", "check"} :
           PersistThen([mem EXCEPT !.files = Append(mem.files, x)], [sync EXCEPT !.stage = stage])
    BY <1>8, GlobalFacts
  <2> DEFINE files == Append(mem.files, x)
  <2>2. files \in Seq(FileChange)
    BY <1>0, JournalFacts
  <2>3. PersistThen([mem EXCEPT !.files = files], [sync EXCEPT !.stage = stage])
    BY <2>1
  <2>4. [sync EXCEPT !.stage = stage].stage \notin Undoing \cup {"off"}
    BY <1>0 DEF Process, Undoing
  <2> HIDE DEF files
  <2> DEFINE j == [mem EXCEPT !.files = files]
  <2>5. j \in OurJournal /\ j.state = mem.state
    BY <1>0, <2>2, NewFields
  <2>6. SyncTo(j)
    BY <2>3, <2>4, <2>5, PersistTo
  <2> QED BY <2>5, <2>6
<1>9. CASE Complete
  <2> DEFINE j == [mem EXCEPT !.state = "complete"]
  <2>1. j \in OurJournal /\ j.state = "complete"
    BY <1>0, NewFields DEF State
  <2>2. \/ disk' = j /\ mem' = NoJournal /\ sync' = Off
        \/ disk' \in {disk, j} /\ mem' = j /\ Fails(j)
    BY <1>9 DEF Complete
  <2> HIDE DEF j
  <2>3. SyncTo(j)
    BY <2>2, OffPlaced DEF SyncTo
  <2> QED BY <2>1, <2>3
<1> QED BY <1>2, <1>3, <1>4, <1>5, <1>6, <1>7, <1>8, <1>9 DEF SyncStep

LEMMA SyncDone ==
    ASSUME Stored, Booked, Done, SyncStep PROVE Done'
<1>1. CASE NewSync
  <2>1. /\ mem = NoJournal /\ disk = NoJournal
        /\ mem' \in {NoJournal, NewJournal} /\ disk' \in {NoJournal, NewJournal}
        /\ \/ mem' = NewJournal /\ sync'.stage = "new"
           \/ sync'.stage = "off"
    <3>1. sync \in Process /\ sync.stage = "off" /\ mem = NoJournal /\ disk = NoJournal
      BY <1>1 DEF NewSync, Booked, Placed, At
    <3> QED BY <1>1, <3>1 DEF NewSync, GoTo, Process
  <2> QED BY <2>1, NewJournalIsOurs DEF Done, InSync, At
<1>2. CASE ~NewSync
  <2>1. InSync /\ mem \in OurJournal /\ mem.state = "prepared"
    BY <1>2, SyncSteps DEF Done
  <2>2. PICK j \in OurJournal : j.state \in {"prepared", "complete"} /\ SyncTo(j)
    BY <1>2, <2>1, SyncSteps
  <2>3. \A k \in {mem', disk'} \ {NoJournal} : k.state = "rolled_back" => AllDone(k)
    BY <2>1, <2>2 DEF SyncTo, Done
  <2>4. InSync' => mem'.state = "prepared"
    BY <2>1, <2>2, FailsPlaced DEF SyncTo, InSync, Undoing
  <2>5. \/ sync'.stage \notin Undoing
        \/ sync'.stage = "undoEntries" /\ EntriesDone(mem'.entries, sync'.at)
    <3>1. CASE Fails(j) /\ mem' = j
      <4>1. sync'.stage = "undoEntries" /\ sync'.at = Len(j.entries)
        BY <3>1, FailsPlaced
      <4>2. EntriesDone(j.entries, Len(j.entries))
        BY JournalFacts DEF EntriesDone
      <4> QED BY <3>1, <4>1, <4>2
    <3> QED BY <2>2, <3>1 DEF SyncTo, InSync, Undoing
  <2> QED BY <2>3, <2>4, <2>5 DEF Done, At, Undoing
<1> QED BY <1>1, <1>2

LEMMA UndoEntryDone ==
    ASSUME Stored, Booked, Done, UndoEntry PROVE Done'
<1>0. /\ mem \in OurJournal /\ sync.stage = "undoEntries" /\ sync.at \in DOMAIN mem.entries
      /\ mem' \in OurJournal /\ mem'.state = mem.state /\ mem'.files = mem.files
      /\ disk' = disk /\ sync'.stage = "keepEntry" /\ sync'.at = sync.at
      /\ mem # NoJournal /\ mem.entries \in Seq(OurEntry) /\ sync \in Process
  <2>1. sync.stage = "undoEntries"
    BY UndoEntryFacts
  <2> QED BY <2>1, UndoEntryFacts, Working, JournalFacts
<1>a. PICK es \in Seq(OurEntry), n \in Nat : es = mem.entries /\ n = sync.at /\ n \in DOMAIN es
  BY <1>0
<1>1. mem.state = "rolled_back" => AllDone(mem)
  BY <1>0 DEF Done
<1>2. CASE mem' = mem /\ sync'.errs = TRUE
  BY <1>0, <1>1, <1>2 DEF Done, InSync, Undoing, At
<1>3. CASE /\ mem'.entries = [es EXCEPT ![n] = Crossed(es[n], Restorable(es[n]))]
           /\ sync'.errs <=> sync.errs \/ Restorable(es[n]) # Open(es[n])
  <2>a. PICK rs : rs = Restorable(es[n])
    OBVIOUS
  <2>0. PICK new \in Seq(OurEntry) : new = mem'.entries
    BY <1>0, JournalFacts
  <2>1. /\ DOMAIN new = DOMAIN es /\ new[n] = Crossed(es[n], rs) /\ es[n] \in OurEntry
        /\ \A i \in DOMAIN es : i # n => new[i] = es[i]
    BY <1>3, <1>a, <2>0, <2>a
  <2>2. Open(new[n]) = Open(es[n]) \ rs
    BY <2>1, CrossedFacts DEF Open
  <2>3. \A i \in DOMAIN es : Open(new[i]) \subseteq Open(es[i])
    BY <2>1, <2>2
  <2>4. mem'.state = "rolled_back" => AllDone(mem')
    BY <1>0, <1>1, <1>a, <2>0, <2>1, <2>3 DEF AllDone, EntriesDone
  <2>5. ~sync'.errs => EntriesDone(new, n - 1)
    <3>1. SUFFICES ASSUME ~sync'.errs PROVE EntriesDone(new, n - 1)
      OBVIOUS
    <3>2. ~sync.errs /\ rs = Open(es[n])
      BY <1>3, <2>a, <3>1
    <3>3. EntriesDone(es, n)
      BY <1>0, <1>a, <3>2 DEF Done, At
    <3>4. \A i \in DOMAIN new : i > n - 1 => i = n \/ i > n
      OBVIOUS
    <3>5. Open(new[n]) = {}
      BY <2>2, <3>2
    <3> QED BY <2>1, <2>3, <3>3, <3>4, <3>5 DEF EntriesDone
  <2> QED BY <1>0, <1>a, <2>0, <2>4, <2>5 DEF Done, InSync, Undoing, At
<1> QED BY <1>2, <1>3, <1>a, UndoEntryFacts

LEMMA FilesMarkedDone ==
    ASSUME Booked, Done, mem \in OurJournal, mem # NoJournal,
           sync.stage \in {"undoFiles", "replaceFile"},
           disk' = disk, NEW ok \in BOOLEAN, FileMarked(ok)
    PROVE  Done'
<1>0. mem.state = "rolled_back" => AllDone(mem)
  BY DEF Done
<1>1. PICK files \in Seq(FileChange) :
         /\ mem' \in OurJournal /\ mem'.entries = mem.entries /\ mem'.state = mem.state
         /\ mem'.files = files /\ Len(files) = Len(mem.files)
         /\ \A i \in DOMAIN mem.files :
               /\ files[i].path = mem.files[i].path /\ files[i].before = mem.files[i].before
               /\ files[i].after = mem.files[i].after /\ files[i].applied = mem.files[i].applied
               /\ files[i].restored <=> mem.files[i].restored \/ (i = sync.at /\ ok)
         /\ sync' \in Process /\ sync'.stage = "undoFiles" /\ sync'.at = sync.at - 1
         /\ sync'.errs <=> sync.errs \/ ~ok
  BY DEF FileMarked
<1>a. PICK old \in Seq(FileChange) : old = mem.files
  BY JournalFacts
<1>2. /\ DOMAIN files = DOMAIN old /\ DOMAIN old = 1 .. Len(old)
      /\ \A i \in DOMAIN old : Settled(files[i]) <=> Settled(old[i]) \/ (i = sync.at /\ ok)
  BY <1>1, <1>a DEF Settled
<1>3. mem'.state = "rolled_back" => AllDone(mem')
  BY <1>0, <1>1, <1>2, <1>a DEF AllDone, FilesDone
<1>4. ~sync'.errs => EntriesDone(mem'.entries, 0) /\ FilesDone(files, sync'.at)
  <2>1. SUFFICES ASSUME ~sync'.errs PROVE EntriesDone(mem'.entries, 0) /\ FilesDone(files, sync'.at)
    OBVIOUS
  <2>2. ~sync.errs /\ ok
    BY <1>1, <2>1
  <2>3. EntriesDone(mem.entries, 0) /\ FilesDone(old, sync.at)
    BY <1>a, <2>2 DEF Done, At
  <2>4. sync.at \in Nat
    BY DEF Booked, Placed, Process
  <2>5. \A i \in DOMAIN files : i > sync'.at => i = sync.at \/ i > sync.at
    BY <1>1, <1>2, <2>4
  <2> QED BY <1>1, <1>2, <2>2, <2>3, <2>5 DEF FilesDone
<1> QED BY <1>1, <1>3, <1>4 DEF Done, InSync, Undoing, At

LEMMA UndoDone ==
    ASSUME Booked, Done,
           KeepEntry \/ EntriesUndone \/ UndoFile \/ ReplaceFile \/ EndRollback \/ Crash \/ Recover
    PROVE  Done'
<1>1. CASE KeepEntry
  <2>1. /\ mem \in OurJournal /\ mem' = mem /\ disk' \in {disk, mem}
        /\ sync.stage = "keepEntry" /\ sync'.stage = "undoEntries" /\ sync'.at = sync.at - 1
        /\ sync.errs => sync'.errs
    BY <1>1, KeepEntryFacts
  <2> QED BY <2>1, JournalFacts DEF Done, InSync, Undoing, At
<1>2. CASE EntriesUndone
  <2>1. sync \in Process /\ mem \in OurJournal
    BY <1>2, Working DEF EntriesUndone, At
  <2>2. /\ mem' = mem /\ disk' = disk /\ sync.stage = "undoEntries" /\ sync.at = 0
        /\ sync'.stage = "undoFiles" /\ sync'.at = Len(mem.files) /\ sync'.errs = sync.errs
    BY <1>2, <2>1 DEF EntriesUndone, At, Process
  <2>3. FilesDone(mem.files, Len(mem.files))
    BY <2>1, JournalFacts DEF FilesDone
  <2> QED BY <2>2, <2>3 DEF Done, InSync, Undoing, At
<1>3. CASE UndoFile \/ ReplaceFile
  <2>0. /\ mem \in OurJournal /\ sync \in Process /\ mem # NoJournal /\ disk' = disk
        /\ sync.at \in 1 .. Len(mem.files) /\ sync.stage \in {"undoFiles", "replaceFile"}
    <3>1. disk' = disk
      <4>1. CASE UndoFile
        BY <4>1 DEF UndoFile
      <4>2. CASE ReplaceFile
        BY <4>2 DEF ReplaceFile
      <4> QED BY <1>3, <4>1, <4>2
    <3> QED BY <1>3, <3>1, AtFiles, JournalFacts
  <2>1. (\E ok \in BOOLEAN : FileDone(ok)) \/ (At("undoFiles") /\ GoTo("replaceFile") /\ mem' = mem)
    BY <1>3 DEF UndoFile, ReplaceFile
  <2>2. CASE \E ok \in BOOLEAN : FileDone(ok)
    BY <2>0, <2>2, FileDoneFacts, FilesMarkedDone
  <2>3. CASE At("undoFiles") /\ GoTo("replaceFile") /\ mem' = mem
    <3>1. sync'.stage = "replaceFile" /\ sync'.at = sync.at /\ sync'.errs = sync.errs
      BY <2>0, <2>3 DEF GoTo, Process
    <3> QED BY <2>0, <2>3, <3>1 DEF Done, InSync, Undoing, At
  <2> QED BY <2>1, <2>2, <2>3
<1>4. CASE EndRollback
  <2>0. mem \in OurJournal /\ mem # NoJournal /\ sync.at = 0 /\ sync.stage = "undoFiles"
    BY <1>4, Working DEF EndRollback, At
  <2> DEFINE j == [mem EXCEPT !.state = FinalState]
  <2>1. disk' \in {disk, j} /\ mem' = NoJournal /\ sync' = Off
    BY <1>4 DEF EndRollback
  <2>2. /\ j.files = mem.files /\ j.entries = mem.entries
        /\ j.state = IF sync.errs THEN "partial_failure" ELSE "rolled_back"
    BY <2>0, NewFields DEF FinalState, State
  <2> HIDE DEF j
  <2>3. j.state = "rolled_back" => AllDone(j)
    BY <2>0, <2>2 DEF Done, AllDone, At
  <2> QED BY <2>1, <2>3, OffPlaced DEF Done, InSync, At
<1>5. CASE Crash
  BY <1>5, OffPlaced DEF Crash, Done, InSync, At
<1>6. CASE Recover
  <2>1. disk \in OurJournal /\ mem' = disk /\ disk' = disk /\ Fails(disk) /\ disk # NoJournal
    BY <1>6 DEF Booked, Recover
  <2>2. sync'.stage = "undoEntries" /\ sync'.at = Len(disk.entries)
    BY <2>1, FailsPlaced
  <2>3. EntriesDone(disk.entries, Len(disk.entries))
    BY <2>1, JournalFacts DEF EntriesDone
  <2> QED BY <2>1, <2>2, <2>3 DEF Done, InSync, Undoing, At
<1> QED BY <1>1, <1>2, <1>3, <1>4, <1>5, <1>6

LEMMA DoneStep ==
    ASSUME Stored, Booked, Done, [Next]_vars PROVE Done'
<1>1. CASE \/ \E r \in Rows : OtherRow(r)
           \/ \E f \in Files : OtherFile(f)
           \/ UNCHANGED vars
  <2>1. UNCHANGED <<disk, mem, sync>>
    BY <1>1 DEF OtherRow, OtherFile, vars
  <2> QED BY <2>1 DEF Done, InSync, At, AllDone, EntriesDone, FilesDone, Open, Settled
<1> QED BY <1>1, SyncDone, UndoEntryDone, UndoDone DEF Next, UndoStep

LEMMA DoneInit == Init => Done
BY OffPlaced DEF Init, Done, InSync, At
-----------------------------------------------------------------------------
(* The theorems on what the journal tells. *)

LEMMA Kept == Spec => [](RowsKept /\ FilesKept /\ Done)
<1>1. Init => RowsKept /\ FilesKept /\ Done
  BY RowsInit, FilesInit, DoneInit
<1>2. IInv /\ (RowsKept /\ FilesKept /\ Done) /\ [Next]_vars => (RowsKept /\ FilesKept /\ Done)'
  BY RowsStep, FilesStep, DoneStep DEF IInv
<1> QED BY <1>1, <1>2, Inductive, PTL DEF Spec

\* Whatever a sync has done so far, the journal on disk can undo it, unless it says
\* "complete" or others have removed the row meanwhile: it is saved
\* before the transaction commits and before a file is replaced (provider_sync.rs),
\* and a change is crossed off only when it is undone (sync_journal.rs).
THEOREM SavesIntent == Spec => []IntentBeforeWrite
<1>1. IInv /\ RowsKept /\ FilesKept => IntentBeforeWrite
  <2> SUFFICES ASSUME IInv, RowsKept, FilesKept, disk # NoJournal PROVE IntentBeforeWrite
    BY DEF IntentBeforeWrite
  <2>1. Covers(disk.entries) /\ Held(disk.files)
    BY DEF RowsKept, FilesKept, Images, Papers
  <2>2. ASSUME NEW rc \in SyncCells \ (dropped \X Columns)
        PROVE  \E i \in DOMAIN disk.entries :
                  /\ rc[1] \in DOMAIN disk.entries[i]
                  /\ LET change == disk.entries[i][rc[1]] IN
                     /\ ~change.restored /\ change.after # NoRow
                     /\ change.after[rc[2]] = db[rc[1]][rc[2]]
    <3>1. PICK r \in Rows, c \in Columns : rc = <<r, c>> /\ db[r] # NoRow /\ db[r][c] \in SyncValues
      BY <2>2 DEF SyncCells
    <3>2. r \notin dropped
      BY <2>2, <3>1
    <3>3. KeepsCell(disk.entries, r, c, db[r][c])
      BY <2>1, <3>1, <3>2 DEF Covers
    <3> QED BY <3>1, <3>3 DEF KeepsCell, Open, Gives
  <2>3. ASSUME NEW r \in removed
        PROVE  \E i \in DOMAIN disk.entries :
                  /\ r \in DOMAIN disk.entries[i]
                  /\ ~disk.entries[i][r].restored /\ disk.entries[i][r].after = NoRow
    BY <2>1 DEF Covers, KeepsRemoval, Open
  <2>4. ASSUME NEW f \in SyncFiles
        PROVE  \E i \in DOMAIN disk.files :
                  /\ disk.files[i].path = f /\ disk.files[i].after = fs[f]
                  /\ ~disk.files[i].restored /\ disk.files[i].applied # "no"
    BY <2>1 DEF Held, KeepsFile, SyncFiles
  <2> QED BY <2>2, <2>3, <2>4 DEF IntentBeforeWrite
<1> QED BY <1>1, Kept, Inductive, PTL

\* A journal that says "rolled_back" means it: nothing that the sync wrote is left,
\* and no row that it removed is missing, however often a rollback failed, crashed
\* and was begun again before (sync_journal.rs, rollback).  Rows that others have
\* removed meanwhile are left out.
THEOREM RolledBack == Spec => []RolledBackIsUndone
<1>1. IInv /\ RowsKept /\ FilesKept /\ Done => RolledBackIsUndone
  <2> SUFFICES ASSUME IInv, RowsKept, FilesKept, Done, disk # NoJournal, disk.state = "rolled_back"
               PROVE  SyncCells \subseteq dropped \X Columns /\ SyncFiles = {} /\ removed = {}
    BY DEF RolledBackIsUndone
  <2>0. disk \in OurJournal /\ DOMAIN disk.entries \subseteq Nat \ {0} /\ DOMAIN disk.files \subseteq Nat \ {0}
    <3>1. disk \in OurJournal
      BY DEF IInv, Booked
    <3> QED BY <3>1, JournalFacts
  <2>1. Covers(disk.entries) /\ Held(disk.files) /\ AllDone(disk)
    BY DEF RowsKept, FilesKept, Images, Papers, Done
  <2>2. /\ \A i \in DOMAIN disk.entries : Open(disk.entries[i]) = {}
        /\ \A i \in DOMAIN disk.files : Settled(disk.files[i])
    BY <2>0, <2>1 DEF AllDone, EntriesDone, FilesDone
  <2>3. \A rc \in SyncCells : rc[1] \in dropped /\ rc \in Rows \X Columns
    BY <2>1, <2>2 DEF Covers, KeepsCell, SyncCells
  <2>4. SyncFiles = {}
    BY <2>1, <2>2 DEF Held, KeepsFile, SyncFiles, Settled
  <2>5. removed = {}
    BY <2>1, <2>2 DEF Covers, KeepsRemoval
  <2> QED BY <2>3, <2>4, <2>5
<1> QED BY <1>1, Kept, Inductive, PTL
-----------------------------------------------------------------------------
(* When nobody else writes and nothing fails: no entry or file is in conflict. *)

\* Without a write of others and without a fault so far.
Calm == others = 0 /\ faults = 0

LEMMA CalmBefore ==
    ASSUME Stored, [Next]_vars, Calm'
    PROVE  Calm /\ UNCHANGED <<others, faults>> /\ ~Fault
<1>1. faults' = faults \/ Fault
  <2>1. CASE SyncStep
    BY <2>1 DEF SyncStep, NewSync, PrepareRollouts, RolloutMissing, RewriteRollout, RenameRollout,
           RestoreRewritten, MarkRolloutsApplied, BeginTransaction, CommitTransaction,
           MarkCommitted, SyncFails, PrepareGlobalState, PrepareBackup, CheckGlobalState,
           WriteGlobalState, WriteBackup, Complete, PersistThen
  <2>2. CASE UndoStep
    BY <2>2 DEF UndoStep, UndoEntry, KeepEntry, EntriesUndone, UndoFile, ReplaceFile, EndRollback,
                PersistUndoThen
  <2>3. CASE ~SyncStep /\ ~UndoStep
    BY <2>3 DEF Next, Crash, Recover, OtherRow, OtherFile, vars
  <2> QED BY <2>1, <2>2, <2>3
<1>2. others' = others \/ Other
  <2>1. CASE SyncStep
    BY <2>1 DEF SyncStep, NewSync, PrepareRollouts, RolloutMissing, RewriteRollout, RenameRollout,
           RestoreRewritten, MarkRolloutsApplied, BeginTransaction, CommitTransaction,
           MarkCommitted, SyncFails, PrepareGlobalState, PrepareBackup, CheckGlobalState,
           WriteGlobalState, WriteBackup, Complete
  <2>2. CASE UndoStep
    BY <2>2 DEF UndoStep, UndoEntry, KeepEntry, EntriesUndone, UndoFile, ReplaceFile, EndRollback
  <2>3. CASE ~SyncStep /\ ~UndoStep
    BY <2>3 DEF Next, Crash, Recover, OtherRow, OtherFile, vars
  <2> QED BY <2>1, <2>2, <2>3
<1>3. others \in Nat /\ faults \in Nat
  BY DEF Stored
<1> QED BY <1>1, <1>2, <1>3 DEF Calm, Fault, Other

\* An entry begins where the one before it of the same row ended.
Linked(es) ==
    \A i, k \in DOMAIN es : \A r \in DOMAIN es[i] \cap DOMAIN es[k] :
       i < k /\ (\A h \in DOMAIN es : i < h /\ h < k => r \notin DOMAIN es[h])
       => es[i][r].after = es[k][r].before

\* A row is crossed off last entry first.
LastFirst(es) ==
    \A i, k \in DOMAIN es : \A r \in DOMAIN es[i] \cap DOMAIN es[k] :
       i < k /\ es[i][r].restored => es[k][r].restored

\* The row is at one end of the last entry of it that is not crossed off.
Here(es) ==
    \A i \in DOMAIN es : \A r \in Open(es[i]) :
       (\A k \in DOMAIN es : k > i /\ r \in DOMAIN es[k] => es[k][r].restored)
       => db[r] \in {es[i][r].before, es[i][r].after}

\* The row is as the last of the first n entries left it.
Exact(es, n) ==
    \A i \in DOMAIN es : \A r \in DOMAIN es[i] :
       i <= n /\ (\A k \in DOMAIN es : i < k /\ k <= n => r \notin DOMAIN es[k])
       => db[r] = es[i][r].after

\* Without other writes, the rows are where the entries put them: the chain of
\* a row's entries ends at the row, but for those that are crossed off.
CalmRows ==
    Calm => /\ \A es \in Images : Linked(es) /\ LastFirst(es) /\ Here(es)
            /\ InSync => Exact(mem.entries, IF At("intent") THEN Len(mem.entries) - 1
                                            ELSE Len(mem.entries))
            /\ At("undoEntries") => disk.entries = mem.entries

LEMMA CalmQuiet ==
    ASSUME CalmRows, QuietRows, Calm, ~At("intent"),
           sync'.stage = "undoEntries" => disk'.entries = mem'.entries
    PROVE  CalmRows'
<1>1. Images' \subseteq Images /\ db' = db /\ ~At("intent")'
  BY DEF QuietRows, Images, At
<1>2. \A es \in Images' : Linked(es) /\ LastFirst(es) /\ Here(es)'
  BY <1>1 DEF CalmRows, Here
<1>3. InSync' => mem'.entries = mem.entries /\ InSync
  BY DEF QuietRows
<1>4. InSync' => Exact(mem.entries, Len(mem.entries))'
  BY <1>1, <1>3 DEF CalmRows, Exact
<1> QED BY <1>1, <1>2, <1>4 DEF CalmRows, At

LEMMA QuietCalm ==
    ASSUME Stored, Booked, RowsKept, CalmRows, [Next]_vars, Calm',
           \/ SyncStep /\ ~NewSync /\ ~BeginTransaction /\ ~CommitTransaction
           \/ KeepEntry \/ EntriesUndone \/ UndoFile \/ ReplaceFile \/ EndRollback
           \/ Crash \/ Recover
    PROVE  CalmRows'
<1>0. Calm /\ faults' = faults /\ ~Fault
  BY CalmBefore
<1>1. CASE SyncStep /\ ~NewSync /\ ~BeginTransaction /\ ~CommitTransaction
  <2>1. QuietRows
    BY <1>1, SyncQuiet DEF SyncStep
  <2>2. InSync
    BY <1>1, SyncSteps
  <2>3. ~At("intent")
    BY <1>1 DEF SyncStep, PrepareRollouts, RolloutMissing, RewriteRollout, RenameRollout,
           RestoreRewritten, MarkRolloutsApplied,
           MarkCommitted, SyncFails, PrepareGlobalState, PrepareBackup, CheckGlobalState,
           WriteGlobalState, WriteBackup, Complete, At
  <2>4. ASSUME sync'.stage = "undoEntries" PROVE disk'.entries = mem'.entries
    <3>1. Booked'
      BY <1>1, FilesBooked, TransactionBooked, GlobalBooked DEF SyncStep
    <3>2. mem' # NoJournal /\ disk' # NoJournal
      <4>1. mem' \in OurJournal /\ disk' # NoJournal
        BY <2>4, <3>1 DEF Booked, Placed
      <4> QED BY <4>1, JournalFacts
    <3>3. \A i \in {mem, disk} \ {NoJournal} : i.entries = mem.entries
      BY <2>2 DEF RowsKept
    <3> QED BY <2>1, <3>2, <3>3 DEF QuietRows
  <2> QED BY <1>0, <2>1, <2>3, <2>4, CalmQuiet
<1>2. CASE KeepEntry
  <2>1. disk' = mem /\ mem' = mem
    BY <1>0, <1>2 DEF KeepEntry, PersistUndoThen
  <2> QED BY <1>0, <1>2, <2>1, UndoQuiet, CalmQuiet DEF KeepEntry, At
<1>3. CASE Recover
  <2>1. disk' = disk /\ mem' = disk /\ ~At("intent")
    BY <1>3 DEF Recover, At
  <2> QED BY <1>0, <1>3, <2>1, UndoQuiet, CalmQuiet
<1>4. CASE EntriesUndone \/ UndoFile \/ ReplaceFile \/ EndRollback
  <2>1. sync \in Process
    BY DEF Booked, Placed
  <2>2. sync'.stage # "undoEntries" /\ ~At("intent")
    BY <1>4, <2>1, OffPlaced DEF EntriesUndone, UndoFile, ReplaceFile, EndRollback, FileDone, GoTo, At, Process
  <2> QED BY <1>0, <1>4, <2>2, UndoQuiet, CalmQuiet
<1>5. CASE Crash
  <2>1. Images' \subseteq Images /\ db' = db /\ sync'.stage = "off"
    BY <1>5, OffPlaced DEF Crash, Images
  <2>2. \A es \in Images' : Linked(es) /\ LastFirst(es) /\ Here(es)'
    BY <1>0, <2>1 DEF CalmRows, Here
  <2> QED BY <2>1, <2>2 DEF CalmRows, InSync, At
<1> QED BY <1>1, <1>2, <1>3, <1>4, <1>5

LEMMA BeginCalm ==
    ASSUME Stored, Booked, RowsKept, CalmRows, [Next]_vars, Calm', BeginTransaction
    PROVE  CalmRows'
<1>0. /\ Calm /\ ~Fault /\ InSync /\ ~At("intent") /\ mem \in OurJournal /\ sync \in Process
      /\ db' = db /\ mem.entries \in Seq(OurEntry)
  <2>1. InSync /\ ~At("intent") /\ db' = db
    BY DEF BeginTransaction, At, InSync, Undoing
  <2> QED BY <2>1, CalmBefore, Working, JournalFacts DEF InSync
<1>a. PICK es \in Seq(OurEntry) : es = mem.entries
  BY <1>0
<1>1. /\ Linked(es) /\ Exact(es, Len(es))
      /\ \A i \in DOMAIN es : Open(es[i]) = DOMAIN es[i]
  <2>1. es \in Images
    BY <1>0, <1>a, TwoImages DEF InSync
  <2> QED BY <1>0, <1>a, <2>1 DEF CalmRows, RowsKept
<1>2. PICK edit \in Edits : PersistThen(WithIntent(edit), [sync EXCEPT !.stage = "intent"])
  BY DEF BeginTransaction
<1>3. PICK e \in OurEntry :
         /\ WithIntent(edit) \in OurJournal /\ WithIntent(edit).entries = Append(es, e)
         /\ \A r \in DOMAIN e : ~e[r].restored /\ e[r].before = db[r]
  BY <1>0, <1>a, IntentFacts
<1> DEFINE new == Append(es, e)
<1>4. mem' = WithIntent(edit) /\ disk' = mem' /\ sync'.stage = "intent"
  <2>1. [sync EXCEPT !.stage = "intent"].stage = "intent"
    BY <1>0 DEF Process
  <2> QED BY <1>0, <1>2, <2>1, PersistFacts
<1>5. /\ Len(es) \in Nat /\ DOMAIN es = 1 .. Len(es) /\ DOMAIN new = 1 .. Len(es) + 1
      /\ Len(new) = Len(es) + 1 /\ new[Len(es) + 1] = e
      /\ \A i \in DOMAIN es : new[i] = es[i]
  OBVIOUS
<1>6. Images' = {new} /\ mem'.entries = new
  BY <1>3, <1>4, JournalFacts DEF Images
<1> HIDE DEF new
<1>7. \A i \in DOMAIN new : \A r \in DOMAIN new[i] : ~new[i][r].restored
  <2>1. ASSUME NEW i \in DOMAIN new, NEW r \in DOMAIN new[i] PROVE ~new[i][r].restored
    <3>1. CASE i \in DOMAIN es
      BY <1>1, <1>5, <2>1, <3>1 DEF Open
    <3>2. CASE i = Len(es) + 1
      BY <1>3, <1>5, <2>1, <3>2
    <3> QED BY <1>5, <3>1, <3>2
  <2> QED BY <2>1
<1>8. LastFirst(new)
  BY <1>7 DEF LastFirst
<1>9. Linked(new)
  <2>1. ASSUME NEW i \in DOMAIN new, NEW k \in DOMAIN new, NEW r \in DOMAIN new[i] \cap DOMAIN new[k],
               i < k, \A h \in DOMAIN new : i < h /\ h < k => r \notin DOMAIN new[h]
        PROVE  new[i][r].after = new[k][r].before
    <3>1. CASE k \in DOMAIN es
      <4>1. i \in DOMAIN es
        BY <1>5, <2>1, <3>1
      <4>2. \A h \in DOMAIN es : i < h /\ h < k => r \notin DOMAIN es[h]
        BY <1>5, <2>1
      <4> QED BY <1>1, <1>5, <2>1, <3>1, <4>1, <4>2 DEF Linked
    <3>2. CASE k = Len(es) + 1
      <4>1. i \in DOMAIN es /\ i <= Len(es) /\ new[k] = e
        BY <1>5, <2>1, <3>2
      <4>2. \A h \in DOMAIN es : i < h /\ h <= Len(es) => r \notin DOMAIN es[h]
        BY <1>5, <2>1, <3>2
      <4>3. db[r] = es[i][r].after
        BY <1>1, <1>5, <2>1, <4>1, <4>2 DEF Exact
      <4> QED BY <1>3, <1>5, <2>1, <4>1, <4>3
    <3> QED BY <1>5, <3>1, <3>2
  <2> QED BY <2>1 DEF Linked
<1>10. Exact(new, Len(new) - 1)
  <2>1. ASSUME NEW i \in DOMAIN new, NEW r \in DOMAIN new[i], i <= Len(new) - 1,
               \A k \in DOMAIN new : i < k /\ k <= Len(new) - 1 => r \notin DOMAIN new[k]
        PROVE  db[r] = new[i][r].after
    <3>1. i \in DOMAIN es /\ i <= Len(es)
      BY <1>5, <2>1
    <3>2. \A k \in DOMAIN es : i < k /\ k <= Len(es) => r \notin DOMAIN es[k]
      BY <1>5, <2>1
    <3> QED BY <1>1, <1>5, <2>1, <3>1, <3>2 DEF Exact
  <2> QED BY <2>1 DEF Exact
<1>11. Here(new)
  <2>1. ASSUME NEW i \in DOMAIN new, NEW r \in Open(new[i]),
               \A k \in DOMAIN new : k > i /\ r \in DOMAIN new[k] => new[k][r].restored
        PROVE  db[r] \in {new[i][r].before, new[i][r].after}
    <3>0. r \in DOMAIN new[i]
      BY DEF Open
    <3>1. CASE i = Len(es) + 1
      BY <1>3, <1>5, <3>0, <3>1
    <3>2. CASE i \in DOMAIN es
      <4>1. \A k \in DOMAIN new : i < k /\ k <= Len(new) - 1 => r \notin DOMAIN new[k]
        BY <1>5, <1>7, <2>1
      <4>2. i <= Len(new) - 1
        BY <1>5, <3>2
      <4> QED BY <1>10, <3>0, <4>1, <4>2 DEF Exact
    <3> QED BY <1>5, <3>1, <3>2
  <2> QED BY <2>1 DEF Here
<1>12. Here(new)' /\ Exact(new, Len(new) - 1)'
  BY <1>0, <1>10, <1>11 DEF Here, Exact, new
<1> QED BY <1>4, <1>6, <1>8, <1>9, <1>12 DEF CalmRows, At

LEMMA CommitCalm ==
    ASSUME Stored, Booked, RowsKept, CalmRows, [Next]_vars, Calm', CommitTransaction
    PROVE  CalmRows'
<1>0. /\ Calm /\ ~Fault /\ InSync /\ At("intent") /\ mem \in OurJournal /\ sync \in Process
      /\ mem' = mem /\ disk' = disk /\ disk # NoJournal /\ mem # NoJournal
      /\ Len(mem.entries) > 0 /\ Last(mem.entries) = mem.entries[Len(mem.entries)]
      /\ mem.entries \in Seq(OurEntry) /\ disk.entries = mem.entries
  <2>1. InSync /\ At("intent") /\ mem' = mem /\ disk' = disk
    BY DEF CommitTransaction, At, InSync, Undoing
  <2> QED BY <2>1, CalmBefore, CommitFacts, Working, JournalFacts DEF InSync, RowsKept
<1>a. PICK es \in Seq(OurEntry) : es = mem.entries
  BY <1>0
<1>b. PICK e \in OurEntry : e = Last(es)
  BY <1>a, CommitFacts
<1>1. Images = {es} /\ Images' = {es}
  BY <1>0, <1>a DEF Images
<1>2. /\ Linked(es) /\ LastFirst(es) /\ Exact(es, Len(es) - 1)
      /\ \A i \in DOMAIN es : Open(es[i]) = DOMAIN es[i]
      /\ Len(es) \in DOMAIN es /\ es[Len(es)] = e /\ DOMAIN es = 1 .. Len(es) /\ Len(es) \in Nat
  BY <1>0, <1>1, <1>a, <1>b DEF CalmRows, RowsKept
<1>3. db' = Committed(e) /\ sync'.stage = "committed"
  BY <1>0, <1>a, <1>b DEF CommitTransaction, GoTo, Process
<1>4. \A r \in Rows : db'[r] = IF r \in DOMAIN e THEN e[r].after ELSE db[r]
  BY <1>3 DEF Committed
<1>5. Exact(es, Len(es))'
  <2>1. ASSUME NEW i \in DOMAIN es, NEW r \in DOMAIN es[i], i <= Len(es),
               \A k \in DOMAIN es : i < k /\ k <= Len(es) => r \notin DOMAIN es[k]
        PROVE  db'[r] = es[i][r].after
    <3>0. r \in Rows
      <4>1. es[i] \in OurEntry
        OBVIOUS
      <4> QED BY <4>1, EntryFacts
    <3>1. CASE i = Len(es)
      BY <1>2, <1>4, <2>1, <3>0, <3>1
    <3>2. CASE i < Len(es)
      <4>1. r \notin DOMAIN e
        BY <1>2, <2>1, <3>2
      <4>2. i <= Len(es) - 1 /\ \A k \in DOMAIN es : i < k /\ k <= Len(es) - 1 => r \notin DOMAIN es[k]
        BY <1>2, <2>1, <3>2
      <4>3. db[r] = es[i][r].after
        BY <1>2, <2>1, <4>2 DEF Exact
      <4> QED BY <1>4, <3>0, <4>1, <4>3
    <3> QED BY <1>2, <3>1, <3>2
  <2> QED BY <2>1 DEF Exact
<1>6. Here(es)'
  <2>1. ASSUME NEW i \in DOMAIN es, NEW r \in Open(es[i]),
               \A k \in DOMAIN es : k > i /\ r \in DOMAIN es[k] => es[k][r].restored
        PROVE  db'[r] = es[i][r].after
    <3>1. \A k \in DOMAIN es : \A s \in DOMAIN es[k] : ~es[k][s].restored
      BY <1>2 DEF Open
    <3>2. \A k \in DOMAIN es : i < k /\ k <= Len(es) => r \notin DOMAIN es[k]
      BY <1>2, <2>1, <3>1
    <3>3. i <= Len(es) /\ r \in DOMAIN es[i]
      BY <1>2 DEF Open
    <3> QED BY <1>5, <3>2, <3>3 DEF Exact
  <2> QED BY <2>1 DEF Here
<1>7. mem'.entries = es
  BY <1>0, <1>a
<1> QED BY <1>1, <1>2, <1>3, <1>5, <1>6, <1>7 DEF CalmRows, At

\* A row that is at one end of a change is put back to the other.
LEMMA UndoneBefore ==
    ASSUME NEW row \in Row \cup {NoRow}, NEW change \in OurChange,
           row \in {change.before, change.after}
    PROVE  ~Conflicts(row, change) /\ Restored(row, change) = change.before
<1>0. change.before \in Row \cup {NoRow} /\ change.after \in Row \cup {NoRow}
  BY DEF OurChange, Change
<1>1. CASE IsSet(change)
  <2>1. change.before \in Row /\ change.after \in Row /\ row \in Row /\ row # NoRow
    BY <1>0, <1>1, NoRowAssumption DEF IsSet
  <2>2. ~Conflicts(row, change)
    BY <1>1, <2>1 DEF Conflicts, IsSet, Holds
  <2>3. Restored(row, change) = [c \in Columns |-> IF c \in Changed(change) THEN change.before[c] ELSE row[c]]
    BY <1>1 DEF Restored, IsSet
  <2>4. \A c \in Columns : (IF c \in Changed(change) THEN change.before[c] ELSE row[c]) = change.before[c]
    BY DEF Changed
  <2>5. change.before = [c \in Columns |-> change.before[c]]
    BY <2>1 DEF Row
  <2>6. Restored(row, change) = [c \in Columns |-> change.before[c]]
    BY <2>3, <2>4
  <2> QED BY <2>2, <2>5, <2>6
<1>2. CASE change.before = NoRow
  BY <1>2 DEF Conflicts, Restored
<1>3. CASE change.before # NoRow /\ change.after = NoRow
  BY <1>3 DEF Conflicts, Restored
<1> QED BY <1>1, <1>2, <1>3 DEF IsSet

LEMMA UndoEntryCalm ==
    ASSUME Stored, Booked, Done, CalmRows, ConflictsHaveACause, [Next]_vars, Calm', UndoEntry
    PROVE  CalmRows' /\ ~sync'.errs
<1>0. /\ Calm /\ ~Fault /\ ~sync.errs
      /\ mem \in OurJournal /\ sync.stage = "undoEntries" /\ sync.at \in DOMAIN mem.entries
      /\ mem' \in OurJournal /\ disk' = disk /\ sync'.stage = "keepEntry"
      /\ disk.entries = mem.entries
      /\ disk # NoJournal /\ mem # NoJournal /\ mem' # NoJournal
  <2>1. sync.stage = "undoEntries"
    BY UndoEntryFacts
  <2>2. Calm /\ ~Fault
    BY CalmBefore
  <2>3. ~sync.errs /\ disk.entries = mem.entries
    BY <2>1, <2>2 DEF ConflictsHaveACause, Calm, CalmRows, At
  <2> QED BY <2>1, <2>2, <2>3, UndoEntryFacts, Working, JournalFacts
<1>a. PICK es \in Seq(OurEntry), n \in Nat : es = mem.entries /\ n = sync.at /\ n \in DOMAIN es
  BY <1>0, JournalFacts
<1>b. PICK e \in OurEntry : e = es[n]
  BY <1>0, <1>a
<1>1. /\ Linked(es) /\ LastFirst(es) /\ Here(es)
      /\ \A i \in DOMAIN es : i > n => Open(es[i]) = {}
  <2>1. es \in Images
    BY <1>0, <1>a DEF Images
  <2>2. EntriesDone(es, n)
    BY <1>0, <1>a DEF Done, At
  <2> QED BY <1>0, <2>1, <2>2 DEF CalmRows, EntriesDone
<1>2. ASSUME NEW r \in Open(e)
      PROVE  /\ r \in Rows /\ ~Conflicts(db[r], e[r]) /\ Restored(db[r], e[r]) = e[r].before
  <2>1. r \in Rows /\ e[r] \in OurChange
    BY EntryFacts DEF Open
  <2>2. \A k \in DOMAIN es : k > n /\ r \in DOMAIN es[k] => es[k][r].restored
    BY <1>1 DEF Open
  <2>3. db[r] \in {e[r].before, e[r].after}
    BY <1>1, <1>a, <1>b, <2>2 DEF Here
  <2>4. db[r] \in Row \cup {NoRow}
    BY <2>1 DEF Stored
  <2> QED BY <2>1, <2>3, <2>4, UndoneBefore
<1>3. Restorable(e) = Open(e)
  BY <1>2 DEF Restorable
<1>4. PICK new \in Seq(OurEntry) :
         /\ new = mem'.entries /\ new = [es EXCEPT ![n] = Crossed(e, Open(e))]
         /\ \A r \in Rows : db'[r] = IF r \in Open(e) THEN e[r].before ELSE db[r]
         /\ ~sync'.errs
  <2>1. PICK new \in Seq(OurEntry) : new = mem'.entries
    BY <1>0, JournalFacts
  <2>2. /\ db' = [r \in Rows |-> IF r \in Restorable(e) THEN Restored(db[r], e[r]) ELSE db[r]]
        /\ mem'.entries = [es EXCEPT ![n] = Crossed(e, Restorable(e))]
        /\ sync'.errs <=> sync.errs \/ Restorable(e) # Open(e)
    BY <1>0, <1>a, <1>b, UndoEntryFacts
  <2> QED BY <1>0, <1>2, <1>3, <2>1, <2>2
<1>5. /\ DOMAIN new = DOMAIN es /\ new[n] = Crossed(e, Open(e))
      /\ \A i \in DOMAIN es : i # n => new[i] = es[i]
      /\ DOMAIN es \subseteq Nat
  BY <1>4, <1>a
<1>6. /\ DOMAIN new[n] = DOMAIN e /\ Open(new[n]) = {}
      /\ \A r \in DOMAIN e : /\ new[n][r].before = e[r].before /\ new[n][r].after = e[r].after
                             /\ new[n][r].restored
  <2>1. \A r \in DOMAIN e : new[n][r].restored
    BY <1>5, CrossedFacts DEF Open
  <2> QED BY <1>5, <2>1, CrossedFacts DEF Open
\* Each entry is of the same rows and ends, and later ones are crossed off.
<1>7. ASSUME NEW i \in DOMAIN es
      PROVE  /\ DOMAIN new[i] = DOMAIN es[i]
             /\ \A r \in DOMAIN es[i] :
                   /\ new[i][r].before = es[i][r].before /\ new[i][r].after = es[i][r].after
                   /\ es[i][r].restored => new[i][r].restored
                   /\ i >= n => new[i][r].restored
                   /\ i < n => new[i] = es[i]
  <2>1. CASE i = n
    BY <1>6, <1>b, <2>1
  <2>2. CASE i # n
    <3>1. new[i] = es[i]
      BY <1>5, <2>2
    <3>2. i > n => \A r \in DOMAIN es[i] : es[i][r].restored
      BY <1>1 DEF Open
    <3> QED BY <1>5, <2>2, <3>1, <3>2
  <2> QED BY <2>1, <2>2
<1>8. Linked(new)
  BY <1>1, <1>5, <1>7 DEF Linked
<1>9. LastFirst(new)
  <2>1. ASSUME NEW i \in DOMAIN new, NEW k \in DOMAIN new, NEW r \in DOMAIN new[i] \cap DOMAIN new[k],
               i < k, new[i][r].restored
        PROVE  new[k][r].restored
    <3>1. CASE k >= n
      BY <1>5, <1>7, <2>1, <3>1
    <3>2. CASE k < n
      <4>1. i < n /\ new[i] = es[i] /\ new[k] = es[k]
        BY <1>5, <1>7, <2>1, <3>2
      <4> QED BY <1>1, <1>5, <2>1, <4>1 DEF LastFirst
    <3> QED BY <1>5, <3>1, <3>2
  <2> QED BY <2>1 DEF LastFirst
<1>10. Here(new)'
  <2>1. ASSUME NEW i \in DOMAIN new, NEW r \in Open(new[i]),
               \A k \in DOMAIN new : k > i /\ r \in DOMAIN new[k] => new[k][r].restored
        PROVE  db'[r] \in {new[i][r].before, new[i][r].after}
    <3>1. /\ r \in DOMAIN es[i] /\ i < n /\ new[i] = es[i] /\ r \in Open(es[i])
      BY <1>5, <1>7, <2>1 DEF Open
    <3>2. r \in Rows
      <4>1. es[i] \in OurEntry
        BY <1>5
      <4> QED BY <3>1, <4>1, EntryFacts
    <3>3. CASE r \in Open(e)
      <4>1. \A h \in DOMAIN es : i < h /\ h < n => r \notin DOMAIN es[h]
        <5>1. ASSUME NEW h \in DOMAIN es, i < h, h < n, r \in DOMAIN es[h] PROVE FALSE
          <6>1. es[h][r].restored
            BY <1>5, <1>7, <2>1, <5>1
          <6>2. es[n][r].restored
            BY <1>1, <1>a, <1>b, <3>3, <5>1, <6>1 DEF LastFirst, Open
          <6> QED BY <1>b, <3>3, <6>2 DEF Open
        <5> QED BY <5>1
      <4>2. es[i][r].after = e[r].before
        BY <1>1, <1>5, <1>a, <1>b, <3>1, <3>3, <4>1 DEF Linked, Open
      <4> QED BY <1>4, <3>1, <3>2, <3>3, <4>2
    <3>4. CASE r \notin Open(e)
      <4>1. \A k \in DOMAIN es : k > i /\ r \in DOMAIN es[k] => es[k][r].restored
        <5>1. ASSUME NEW k \in DOMAIN es, k > i, r \in DOMAIN es[k] PROVE es[k][r].restored
          <6>1. CASE k = n
            BY <1>b, <3>4, <5>1, <6>1 DEF Open
          <6>2. CASE k # n
            BY <1>5, <1>7, <2>1, <5>1, <6>2
          <6> QED BY <6>1, <6>2
        <5> QED BY <5>1
      <4>2. db[r] \in {es[i][r].before, es[i][r].after}
        BY <1>1, <1>5, <3>1, <4>1 DEF Here
      <4> QED BY <1>4, <3>1, <3>2, <3>4, <4>2
    <3> QED BY <3>3, <3>4
  <2> QED BY <2>1 DEF Here
<1>11. Here(es)'
  <2>1. ASSUME NEW i \in DOMAIN es, NEW r \in Open(es[i]),
               \A k \in DOMAIN es : k > i /\ r \in DOMAIN es[k] => es[k][r].restored
        PROVE  db'[r] \in {es[i][r].before, es[i][r].after}
    <3>0. r \in Rows
      <4>1. es[i] \in OurEntry
        OBVIOUS
      <4> QED BY <4>1, EntryFacts DEF Open
    <3>1. CASE i = n
      BY <1>4, <1>b, <3>0, <3>1
    <3>2. CASE i # n
      <4>1. i < n
        <5>1. ~(i > n)
          BY <1>1, <2>1
        <5>2. i \in Nat
          BY <1>5
        <5> QED BY <3>2, <5>1, <5>2
      <4>2. r \notin Open(e)
        BY <1>a, <1>b, <2>1, <4>1 DEF Open
      <4>3. db[r] \in {es[i][r].before, es[i][r].after}
        BY <1>1, <2>1 DEF Here
      <4> QED BY <1>4, <3>0, <4>2, <4>3
    <3> QED BY <3>1, <3>2
  <2> QED BY <2>1 DEF Here
<1>12. Images' \subseteq {es, new}
  BY <1>0, <1>4, <1>a DEF Images
<1>13. \A x \in Images' : Linked(x) /\ LastFirst(x) /\ Here(x)'
  BY <1>1, <1>8, <1>9, <1>10, <1>11, <1>12
<1> QED BY <1>0, <1>4, <1>13 DEF CalmRows, InSync, Undoing, At

LEMMA CalmRowsStep ==
    ASSUME Stored, Booked, RowsKept, Done, CalmRows, ConflictsHaveACause, [Next]_vars
    PROVE  CalmRows'
<1> SUFFICES ASSUME Calm' PROVE CalmRows'
  BY DEF CalmRows
<1>0. Calm /\ ~Fault /\ UNCHANGED <<others, faults>>
  BY CalmBefore
<1>1. CASE NewSync
  <2>1. mem = NoJournal /\ disk = NoJournal /\ db' = db /\ sync \in Process /\ sync.stage = "off"
    BY <1>1 DEF NewSync, Booked, Placed, At
  <2>2. mem' = NewJournal /\ disk' = NewJournal /\ sync'.stage = "new"
    BY <1>0, <1>1, <2>1 DEF NewSync, GoTo, Process
  <2>3. Images' = {<< >>} /\ mem'.entries = << >>
    BY <2>2, NewJournalIsOurs, JournalFacts DEF Images
  <2> QED BY <2>2, <2>3 DEF CalmRows, Linked, LastFirst, Here, Exact, At
<1>2. CASE (\E r \in Rows : OtherRow(r)) \/ (\E f \in Files : OtherFile(f))
  <2>1. Other
    BY <1>2 DEF OtherRow, OtherFile
  <2>2. others' = others + 1 /\ others = 0
    BY <1>0, <2>1 DEF Other, Calm
  <2> QED BY <1>0, <2>2
<1>3. CASE UNCHANGED vars
  <2>1. UNCHANGED <<db, disk, mem, sync, others, faults>>
    BY <1>3 DEF vars
  <2>2. Images' = Images
    BY <2>1 DEF Images
  <2>3. \A es \in Images' : Linked(es) /\ LastFirst(es) /\ Here(es)'
    BY <1>0, <2>1, <2>2 DEF CalmRows, Here
  <2>4. InSync' => Exact(mem.entries, IF At("intent") THEN Len(mem.entries) - 1 ELSE Len(mem.entries))'
    BY <1>0, <2>1 DEF CalmRows, Exact, InSync, At
  <2> QED BY <1>0, <2>1, <2>3, <2>4 DEF CalmRows, At
<1> QED BY <1>1, <1>2, <1>3, BeginCalm, CommitCalm, UndoEntryCalm, QuietCalm DEF Next, UndoStep

\* Every file is at one end of its image, and has one.
Intact(files) ==
    /\ \A i \in DOMAIN files : fs[files[i].path] \in {files[i].before, files[i].after}
    /\ \A i, k \in DOMAIN files : files[i].path = files[k].path => i = k

\* The same images, crossed off or not.
SameFiles(a, b) ==
    /\ DOMAIN a = DOMAIN b
    /\ \A i \in DOMAIN a : /\ a[i].path = b[i].path /\ a[i].before = b[i].before
                           /\ a[i].after = b[i].after

\* Without other writes, each file is at one end of its image, in both journals.
CalmFiles ==
    Calm => /\ \A files \in Papers : Intact(files)
            /\ sync.stage # "off" => SameFiles(disk.files, mem.files)
            /\ At("replaceFile") => LET file == mem.files[sync.at] IN fs[file.path] = file.after

LEMMA CalmFilesQuiet ==
    ASSUME CalmFiles, Calm, fs' = fs, sync'.stage # "replaceFile",
           \A j \in {mem', disk'} : j = NoJournal \/ \E i \in {mem, disk} \ {NoJournal} : j.files = i.files,
           sync'.stage # "off" => SameFiles(disk'.files, mem'.files)
    PROVE  CalmFiles'
<1>1. Papers' \subseteq Papers
  BY DEF Papers
<1>2. \A files \in Papers' : Intact(files)'
  BY <1>1 DEF CalmFiles, Intact
<1> QED BY <1>2 DEF CalmFiles, At

LEMMA SyncFilesCalm ==
    ASSUME Stored, Booked, FilesKept, CalmFiles, [Next]_vars, Calm',
           \/ RolloutMissing \/ RewriteRollout \/ BeginTransaction \/ CommitTransaction
           \/ MarkCommitted \/ SyncFails \/ CheckGlobalState \/ Complete
    PROVE  CalmFiles'
<1>1. QuietFiles /\ Calm
  BY SyncFilesQuiet, CalmBefore
<1>2. InSync /\ disk.files = mem.files
  <2>1. InSync
    BY DEF RolloutMissing, RewriteRollout, BeginTransaction, CommitTransaction,
           MarkCommitted, SyncFails, CheckGlobalState, Complete, At, InSync, Undoing
  <2> QED BY <2>1 DEF FilesKept
<1>3. sync'.stage # "replaceFile"
  <2>1. SyncStep /\ ~NewSync
    BY <1>2 DEF SyncStep, NewSync, InSync, At
  <2>2. PICK j \in OurJournal : SyncTo(j)
    BY <2>1, SyncSteps
  <2> QED BY <2>2, FailsPlaced DEF SyncTo, InSync, Undoing
<1>4. sync'.stage # "off" => mem' # NoJournal /\ disk' # NoJournal
  <2>1. Booked'
    BY FilesBooked, TransactionBooked, GlobalBooked
  <2> QED BY <2>1, JournalFacts DEF Booked, Placed
<1>5. sync'.stage # "off" => disk'.files = mem'.files
  BY <1>1, <1>2, <1>4 DEF QuietFiles
<1>6. sync'.stage # "off" => SameFiles(disk'.files, mem'.files)
  BY <1>5 DEF SameFiles
<1> QED BY <1>1, <1>3, <1>6, CalmFilesQuiet DEF QuietFiles

LEMMA UndoFilesCalm ==
    ASSUME Stored, Booked, CalmFiles, [Next]_vars, Calm',
           \/ UndoEntry \/ KeepEntry \/ EntriesUndone \/ EndRollback \/ Crash \/ Recover
    PROVE  CalmFiles'
<1>1. QuietFiles /\ Calm /\ ~Fault
  BY UndoFilesQuiet, CalmBefore
<1>2. sync'.stage # "replaceFile" /\ (sync'.stage # "off" => SameFiles(disk'.files, mem'.files))
  <2>1. CASE UndoEntry
    <3>1. /\ mem'.files = mem.files /\ disk' = disk /\ sync'.stage = "keepEntry"
          /\ sync.stage = "undoEntries"
      BY <2>1, UndoEntryFacts
    <3> QED BY <1>1, <3>1 DEF CalmFiles
  <2>2. CASE KeepEntry
    <3>1. mem' = mem /\ disk' = mem /\ sync'.stage = "undoEntries"
      BY <1>1, <2>2, KeepEntryFacts DEF KeepEntry, PersistUndoThen
    <3> QED BY <3>1 DEF SameFiles
  <2>3. CASE EntriesUndone
    <3>1. sync \in Process
      BY DEF Booked, Placed
    <3>2. mem' = mem /\ disk' = disk /\ sync'.stage = "undoFiles" /\ sync.stage = "undoEntries"
      BY <2>3, <3>1 DEF EntriesUndone, At, Process
    <3> QED BY <1>1, <3>2 DEF CalmFiles
  <2>4. CASE EndRollback \/ Crash
    BY <2>4, OffPlaced DEF EndRollback, Crash
  <2>5. CASE Recover
    <3>1. disk \in OurJournal /\ mem' = disk /\ disk' = disk /\ Fails(disk)
      BY <2>5 DEF Booked, Recover
    <3> QED BY <3>1, FailsPlaced DEF SameFiles
  <2> QED BY <2>1, <2>2, <2>3, <2>4, <2>5
<1> QED BY <1>1, <1>2, CalmFilesQuiet DEF QuietFiles

\* A file that goes from one end of its image to the other.
LEMMA IntactWrite ==
    ASSUME Stored, NEW files, Intact(files), NEW i \in DOMAIN files,
           \A k \in DOMAIN files : files[k].path \in Files,
           fs' \in {[fs EXCEPT ![files[i].path] = files[i].before],
                    [fs EXCEPT ![files[i].path] = files[i].after]}
    PROVE  Intact(files)'
<1>1. \A k \in DOMAIN files :
         fs'[files[k].path] \in (IF k = i THEN {files[i].before, files[i].after} ELSE {fs[files[k].path]})
  <2>1. \A g \in Files \ {files[i].path} : fs'[g] = fs[g]
    BY DEF Stored
  <2>2. fs'[files[i].path] \in {files[i].before, files[i].after}
    BY DEF Stored
  <2> QED BY <2>1, <2>2 DEF Intact
<1> QED BY <1>1 DEF Intact

LEMMA SameAfter ==
    ASSUME NEW a, NEW b, SameFiles(a, b), Intact(a)' PROVE Intact(b)'
BY DEF SameFiles, Intact

LEMMA WriteCalm ==
    ASSUME Stored, Booked, FilesKept, CalmFiles, [Next]_vars, Calm',
           RenameRollout \/ RestoreRewritten \/ WriteGlobalState \/ WriteBackup
    PROVE  CalmFiles'
<1>0. /\ sync.stage # "off" /\ InSync /\ mem \in OurJournal /\ disk \in OurJournal /\ mem' = mem
      /\ sync \in Process /\ mem # NoJournal /\ disk # NoJournal /\ disk' = disk /\ Calm /\ ~Fault
      /\ disk.files = mem.files /\ FilesAt(sync.stage, mem.files) /\ Len(mem.files) \in Nat
      /\ DOMAIN mem.files = 1 .. Len(mem.files)
      /\ \A i \in DOMAIN mem.files : mem.files[i].path \in Files
  <2>1. InSync /\ sync.stage # "off" /\ mem' = mem /\ disk' = disk
    BY DEF RenameRollout, RestoreRewritten, WriteGlobalState, WriteBackup, At, InSync, Undoing
  <2>2. mem \in OurJournal /\ disk \in OurJournal /\ sync \in Process /\ mem # NoJournal
    BY <2>1, Working
  <2>3. \A i \in DOMAIN mem.files : mem.files[i].path \in Files
    BY <2>2, JournalFacts DEF FileChange
  <2> QED BY <2>1, <2>2, <2>3, JournalFacts, CalmBefore DEF FilesKept
<1>a. PICK files \in Seq(FileChange) : files = mem.files
  BY <1>0, JournalFacts
<1>1. Intact(files) /\ Papers' = {files}
  BY <1>0, <1>a DEF CalmFiles, Papers
<1>2. \/ fs' = fs
      \/ \E i \in DOMAIN files : fs' \in {[fs EXCEPT ![files[i].path] = files[i].before],
                                          [fs EXCEPT ![files[i].path] = files[i].after]}
  <2>1. CASE RenameRollout
    <3>1. sync.at \in DOMAIN files
      BY <1>0, <1>a, <2>1 DEF RenameRollout, At, Booked, Placed
    <3> QED BY <1>a, <2>1, <3>1 DEF RenameRollout
  <2>2. CASE RestoreRewritten
    <3>1. CASE sync.done = {}
      BY <2>2, <3>1 DEF RestoreRewritten
    <3>2. CASE sync.done # {}
      BY <1>a, <2>2, <3>2, RestoreFacts
    <3> QED BY <3>1, <3>2
  <2>3. CASE WriteGlobalState
    <3>1. sync.stage = "write"
      BY <2>3 DEF WriteGlobalState, At
    <3>2. Len(files) - 1 \in DOMAIN files /\ files[Len(files) - 1].path = GlobalState
      BY <1>0, <1>a, <3>1 DEF Booked, Placed, FilesAt
    <3>3. fs' = [fs EXCEPT ![GlobalState] = files[Len(files) - 1].after]
      BY <1>0, <1>a, <2>3 DEF WriteGlobalState
    <3> QED BY <3>2, <3>3
  <2>4. CASE WriteBackup
    <3>1. sync.stage = "writeBackup"
      BY <2>4 DEF WriteBackup, At
    <3>2. Len(files) \in DOMAIN files /\ files[Len(files)].path = GlobalBackup
      BY <1>0, <1>a, <3>1 DEF Booked, Placed, FilesAt
    <3>3. fs' = [fs EXCEPT ![GlobalBackup] = files[Len(files)].after]
      BY <1>0, <1>a, <2>4 DEF WriteBackup, Last
    <3> QED BY <3>2, <3>3
  <2> QED BY <2>1, <2>2, <2>3, <2>4
<1>3. Intact(files)'
  <2>1. CASE fs' = fs
    BY <1>1, <2>1 DEF Intact
  <2>2. CASE fs' # fs
    BY <1>0, <1>1, <1>2, <1>a, <2>2, IntactWrite
  <2> QED BY <2>1, <2>2
<1>4. sync'.stage # "replaceFile"
  <2>1. SyncStep /\ ~NewSync
    BY <1>0 DEF SyncStep, NewSync, InSync, At
  <2>2. PICK j \in OurJournal : SyncTo(j)
    BY <2>1, SyncSteps
  <2> QED BY <2>2, FailsPlaced DEF SyncTo, InSync, Undoing
<1>5. SameFiles(disk'.files, mem'.files)
  BY <1>0 DEF SameFiles
<1> QED BY <1>1, <1>3, <1>4, <1>5 DEF CalmFiles, At

\* The journal in memory and on disk have the same images after all.
LEMMA SavedCalm ==
    ASSUME NEW j \in OurJournal, mem' = j, disk' = j, Intact(j.files)', sync'.stage # "replaceFile"
    PROVE  CalmFiles'
<1>1. Papers' = {j.files}
  BY JournalFacts DEF Papers
<1>2. SameFiles(disk'.files, mem'.files)
  BY DEF SameFiles
<1> QED BY <1>1, <1>2 DEF CalmFiles, At

LEMMA PlansCalm ==
    ASSUME Stored, Booked, CalmFiles, [Next]_vars, Calm', PrepareRollouts
    PROVE  CalmFiles'
<1>0. mem \in OurJournal /\ mem # NoJournal /\ disk # NoJournal /\ fs' = fs /\ Calm
      /\ Intact(disk.files) /\ sync.stage = "new" /\ mem = NewJournal
      /\ Intact(mem.files)
  <2>1. sync.stage = "new" /\ fs' = fs
    BY DEF PrepareRollouts, At
  <2>2. mem \in OurJournal /\ mem # NoJournal /\ disk \in OurJournal /\ mem = NewJournal
    BY <2>1, Working DEF Booked, Placed
  <2> QED BY <2>1, <2>2, CalmBefore, JournalFacts DEF CalmFiles, Papers
<1>1. PICK x \in Seq(FileChange) :
         LET journal == [mem EXCEPT !.files = x] IN
         /\ \/ /\ mem' = journal /\ disk' = journal
               /\ sync' = [Off EXCEPT !.stage = "rewrite", !.at = 1]
            \/ disk' \in {disk, journal} /\ mem' = NoJournal /\ sync' = Off
         /\ \A i \in DOMAIN x : x[i].before = fs[x[i].path]
         /\ \A i, k \in DOMAIN x : x[i].path = x[k].path => i = k
  BY PlansPlaced
<1> DEFINE j == [mem EXCEPT !.files = x]
<1>2. j \in OurJournal /\ j.files = x /\ j # NoJournal
  BY <1>0, NewFields, JournalFacts
<1>3. \/ mem' = j /\ disk' = j /\ sync' = [Off EXCEPT !.stage = "rewrite", !.at = 1]
      \/ disk' \in {disk, j} /\ mem' = NoJournal /\ sync' = Off
  BY <1>1
<1> HIDE DEF j
<1>4. Intact(x)'
  BY <1>0, <1>1 DEF Intact
<1>5. CASE mem' = j /\ disk' = j /\ sync' = [Off EXCEPT !.stage = "rewrite", !.at = 1]
  <2>1. sync'.stage # "replaceFile"
    BY <1>5 DEF Off
  <2> QED BY <1>2, <1>4, <1>5, <2>1, SavedCalm
<1>6. CASE disk' \in {disk, j} /\ mem' = NoJournal /\ sync' = Off
  <2>1. Papers' \subseteq {disk.files, x}
    BY <1>2, <1>6 DEF Papers
  <2>3. \A files \in Papers' : Intact(files)'
    <3>1. PICK d : d = disk.files
      OBVIOUS
    <3>2. Intact(d)'
      BY <1>0, <3>1 DEF Intact
    <3> QED BY <1>4, <2>1, <3>1, <3>2
  <2>4. sync'.stage = "off"
    BY <1>6, OffPlaced
  <2> QED BY <2>3, <2>4 DEF CalmFiles, At
<1> QED BY <1>3, <1>5, <1>6

LEMMA SaveCalm ==
    ASSUME Stored, Booked, FilesKept, CalmFiles, [Next]_vars, Calm',
           MarkRolloutsApplied \/ PrepareGlobalState \/ PrepareBackup
    PROVE  CalmFiles'
<1>0. /\ sync.stage # "off" /\ mem \in OurJournal /\ sync \in Process /\ mem # NoJournal
      /\ Calm /\ ~Fault /\ fs' = fs /\ FilesAt(sync.stage, mem.files) /\ Intact(mem.files)
  <2>1. sync.stage # "off" /\ fs' = fs
    BY DEF MarkRolloutsApplied, PrepareGlobalState, PrepareBackup, At
  <2>2. mem \in OurJournal /\ mem # NoJournal /\ sync \in Process
    BY <2>1, Working
  <2> QED BY <2>1, <2>2, CalmBefore DEF FilesKept, CalmFiles, Papers
<1>a. PICK old \in Seq(FileChange) : old = mem.files
  BY <1>0, JournalFacts
<1>1. CASE MarkRolloutsApplied
  <2>1. PICK x \in Seq(FileChange) :
           /\ PersistThen([mem EXCEPT !.files = x], [Off EXCEPT !.stage = "ready"])
           /\ Len(x) = Len(mem.files)
           /\ \A i \in DOMAIN mem.files :
                 /\ x[i].path = mem.files[i].path /\ x[i].before = mem.files[i].before
                 /\ x[i].after = mem.files[i].after
    BY <1>0, <1>1, MarkFacts
  <2>2. SameFiles(old, x)
    BY <1>a, <2>1 DEF SameFiles
  <2>3. Intact(old)'
    BY <1>0, <1>a DEF Intact
  <2>4. Intact(x)'
    BY <2>2, <2>3, SameAfter
  <2>5. PICK j \in OurJournal : j = [mem EXCEPT !.files = x] /\ j.files = x
    <3>1. [mem EXCEPT !.files = x] \in OurJournal /\ [mem EXCEPT !.files = x].files = x
      BY <1>0, NewFields
    <3> QED BY <3>1
  <2>6. mem' = j /\ disk' = j /\ sync' = [Off EXCEPT !.stage = "ready"]
    BY <1>0, <2>1, <2>5 DEF PersistThen
  <2>7. sync'.stage # "replaceFile"
    BY <2>6 DEF Off
  <2>8. Intact(j.files)'
    BY <2>4, <2>5
  <2> QED BY <2>6, <2>7, <2>8, SavedCalm
<1>2. CASE PrepareGlobalState \/ PrepareBackup
  <2>1. PICK x \in FileChange, stage \in {"prepareBackup", "check"} :
           /\ PersistThen([mem EXCEPT !.files = Append(mem.files, x)],
                          [sync EXCEPT !.stage = stage])
           /\ x.path = IF stage = "check" THEN GlobalBackup ELSE GlobalState
           /\ x.before = fs[x.path]
           /\ sync.stage = IF stage = "check" THEN "prepareBackup" ELSE "ready"
    BY <1>2, GlobalFacts
  <2> DEFINE new == Append(old, x)
  <2>2. /\ new \in Seq(FileChange) /\ Len(new) = Len(old) + 1 /\ Len(old) \in Nat
        /\ DOMAIN new = 1 .. Len(old) + 1 /\ DOMAIN old = 1 .. Len(old)
        /\ new[Len(old) + 1] = x /\ \A i \in DOMAIN old : new[i] = old[i]
    OBVIOUS
  <2>3. PersistThen([mem EXCEPT !.files = new], [sync EXCEPT !.stage = stage])
    BY <1>a, <2>1
  <2> HIDE DEF new
  <2>4. \A i \in DOMAIN old : old[i].path # x.path
    BY <1>0, <1>a, <2>1 DEF FilesAt
  <2>5. ASSUME NEW i \in DOMAIN new PROVE fs'[new[i].path] \in {new[i].before, new[i].after}
    <3>1. CASE i \in DOMAIN old
      BY <1>0, <1>a, <2>2, <3>1 DEF Intact
    <3>2. CASE i = Len(old) + 1
      BY <1>0, <2>1, <2>2, <3>2
    <3> QED BY <2>2, <3>1, <3>2
  <2>6. ASSUME NEW i \in DOMAIN new, NEW k \in DOMAIN new, new[i].path = new[k].path PROVE i = k
    <3>1. CASE i \in DOMAIN old /\ k \in DOMAIN old
      BY <1>0, <1>a, <2>2, <2>6, <3>1 DEF Intact
    <3>2. CASE i = Len(old) + 1 \/ k = Len(old) + 1
      BY <2>2, <2>4, <2>6, <3>2
    <3> QED BY <2>2, <3>1, <3>2
  <2>7. Intact(new)'
    BY <2>5, <2>6 DEF Intact
  <2>8. PICK j \in OurJournal : j = [mem EXCEPT !.files = new] /\ j.files = new
    <3>1. [mem EXCEPT !.files = new] \in OurJournal /\ [mem EXCEPT !.files = new].files = new
      BY <1>0, <2>2, NewFields
    <3> QED BY <3>1
  <2>9. mem' = j /\ disk' = j /\ sync' = [sync EXCEPT !.stage = stage]
    BY <1>0, <2>3, <2>8 DEF PersistThen
  <2>10. sync'.stage # "replaceFile"
    BY <1>0, <2>9 DEF Process
  <2>11. Intact(j.files)'
    BY <2>7, <2>8
  <2> QED BY <2>9, <2>10, <2>11, SavedCalm
<1> QED BY <1>1, <1>2

LEMMA UndoneCalm ==
    ASSUME Stored, Booked, CalmFiles, [Next]_vars, Calm', UndoFile \/ ReplaceFile
    PROVE  CalmFiles'
<1>0. /\ mem \in OurJournal /\ sync \in Process /\ disk \in OurJournal
      /\ mem # NoJournal /\ disk # NoJournal /\ Calm
      /\ sync.at \in DOMAIN mem.files /\ sync.stage \in {"undoFiles", "replaceFile"}
      /\ \A i \in DOMAIN mem.files : mem.files[i].path \in Files
  <2>1. /\ mem \in OurJournal /\ sync \in Process /\ disk \in OurJournal
        /\ sync.at \in DOMAIN mem.files /\ sync.stage \in {"undoFiles", "replaceFile"}
    BY AtFiles, JournalFacts
  <2>2. \A i \in DOMAIN mem.files : mem.files[i].path \in Files
    BY <2>1, JournalFacts DEF FileChange
  <2> QED BY <2>1, <2>2, JournalFacts, CalmBefore
<1>1. disk' = disk
  <2>1. CASE UndoFile
    BY <2>1 DEF UndoFile
  <2>2. CASE ReplaceFile
    BY <2>2 DEF ReplaceFile
  <2> QED BY <2>1, <2>2
<1>a. PICK old \in Seq(FileChange), d \in Seq(FileChange), n \in Nat :
         old = mem.files /\ d = disk.files /\ n = sync.at /\ n \in DOMAIN old
  BY <1>0, JournalFacts
<1>2. Intact(old) /\ SameFiles(d, old)
  BY <1>0, <1>a DEF CalmFiles, Papers
<1>3. ASSUME NEW files \in Seq(FileChange), mem' \in OurJournal, mem'.files = files,
             SameFiles(old, files), Intact(old)',
             sync'.stage = "replaceFile" => fs'[files[sync'.at].path] = files[sync'.at].after
      PROVE  CalmFiles'
  <2>1. Papers' \subseteq {files, d}
    BY <1>1, <1>3, <1>a DEF Papers
  <2>2. Intact(files)' /\ Intact(d)'
    <3>1. SameFiles(old, d)
      BY <1>2 DEF SameFiles
    <3> QED BY <1>3, <3>1, SameAfter
  <2>3. \A x \in Papers' : Intact(x)'
    BY <2>1, <2>2
  <2>4. SameFiles(d, files)
    BY <1>2, <1>3 DEF SameFiles
  <2>5. SameFiles(disk'.files, mem'.files)
    BY <1>1, <1>3, <1>a, <2>4
  <2> QED BY <1>3, <2>3, <2>5 DEF CalmFiles, At
<1>4. ASSUME NEW ok \in BOOLEAN, FileDone(ok), Intact(old)'
      PROVE  CalmFiles'
  <2>1. FileMarked(ok)
    BY <1>0, <1>4, FileDoneFacts, JournalFacts
  <2>2. PICK files \in Seq(FileChange) :
           /\ mem' \in OurJournal /\ mem'.files = files /\ Len(files) = Len(mem.files)
           /\ \A i \in DOMAIN mem.files :
                 /\ files[i].path = mem.files[i].path /\ files[i].before = mem.files[i].before
                 /\ files[i].after = mem.files[i].after
    BY <2>1 DEF FileMarked
  <2>3. sync'.stage = "undoFiles"
    BY <2>1 DEF FileMarked
  <2>4. SameFiles(old, files)
    BY <1>a, <2>2 DEF SameFiles
  <2> QED BY <1>3, <1>4, <2>2, <2>3, <2>4
<1>5. CASE UndoFile
  <2>1. fs' = fs
    BY <1>5 DEF UndoFile
  <2>2. Intact(old)'
    BY <1>2, <2>1 DEF Intact
  <2>3. CASE \E ok \in BOOLEAN : FileDone(ok)
    BY <1>4, <2>2, <2>3
  <2>4. CASE fs[old[n].path] = old[n].after /\ GoTo("replaceFile") /\ mem' = mem
    <3>1. sync'.stage = "replaceFile" /\ sync'.at = n
      BY <1>0, <1>a, <2>4 DEF GoTo, Process
    <3>2. SameFiles(old, old)
      BY DEF SameFiles
    <3> QED BY <1>0, <1>3, <1>a, <2>1, <2>2, <2>4, <3>1, <3>2
  <2> QED BY <1>5, <1>a, <2>3, <2>4 DEF UndoFile
<1>6. CASE ReplaceFile
  <2>1. /\ fs' = [fs EXCEPT ![old[n].path] = old[n].before]
        /\ \E ok \in BOOLEAN : FileDone(ok)
    BY <1>6, <1>a DEF ReplaceFile
  <2>2. Intact(old)'
    BY <1>0, <1>2, <1>a, <2>1, IntactWrite
  <2> QED BY <1>4, <2>1, <2>2
<1> QED BY <1>5, <1>6

LEMMA CalmFilesStep ==
    ASSUME Stored, Booked, FilesKept, CalmFiles, [Next]_vars
    PROVE  CalmFiles'
<1> SUFFICES ASSUME Calm' PROVE CalmFiles'
  BY DEF CalmFiles
<1>0. Calm /\ ~Fault /\ UNCHANGED <<others, faults>>
  BY CalmBefore
<1>1. CASE NewSync
  <2>1. sync \in Process /\ sync.stage = "off"
    BY <1>1 DEF NewSync, Booked, Placed, At
  <2>2. mem' = NewJournal /\ disk' = NewJournal /\ sync'.stage = "new"
    BY <1>0, <1>1, <2>1 DEF NewSync, GoTo, Process
  <2>3. Intact(NewJournal.files)'
    <3>1. Intact(<< >>)'
      BY DEF Intact
    <3>2. NewJournal.files' = << >>
      BY NewJournalIsOurs DEF NewJournal
    <3> QED BY <3>1, <3>2, NewJournalIsOurs
  <2> QED BY <2>2, <2>3, NewJournalIsOurs, SavedCalm
<1>2. CASE (\E r \in Rows : OtherRow(r)) \/ (\E f \in Files : OtherFile(f))
  <2>1. Other
    BY <1>2 DEF OtherRow, OtherFile
  <2>2. others' = others + 1 /\ others = 0
    BY <1>0, <2>1 DEF Other, Calm
  <2> QED BY <1>0, <2>2
<1>3. CASE UNCHANGED vars
  <2>1. UNCHANGED <<fs, disk, mem, sync>>
    BY <1>3 DEF vars
  <2> QED BY <1>0, <2>1 DEF CalmFiles, Papers, Intact, SameFiles, At
<1> QED BY <1>1, <1>2, <1>3, SyncFilesCalm, UndoFilesCalm, WriteCalm, PlansCalm, SaveCalm, UndoneCalm
        DEF Next, SyncStep, UndoStep

LEMMA CleanStep ==
    ASSUME Stored, Booked, FilesKept, Done, CalmRows, CalmFiles, ConflictsHaveACause, [Next]_vars
    PROVE  ConflictsHaveACause'
<1> SUFFICES ASSUME Calm' PROVE ~sync'.errs
  <2>1. others \in Nat /\ faults \in Nat /\ others' \in Nat /\ faults' \in Nat
    <3>1. Stored'
      BY NextTyped DEF IInv
    <3> QED BY <3>1 DEF Stored
  <2> QED BY <2>1 DEF ConflictsHaveACause, Calm
<1>0. Calm /\ ~Fault /\ UNCHANGED <<others, faults>> /\ ~sync.errs /\ sync \in Process
  BY CalmBefore DEF ConflictsHaveACause, Calm, Booked, Placed
<1>1. CASE SyncStep
  <2>1. CASE NewSync
    BY <1>0, <2>1 DEF NewSync, GoTo, Process
  <2>2. CASE PrepareRollouts \/ RolloutMissing
    BY <2>2, OffPlaced DEF PrepareRollouts, RolloutMissing, Off
  <2>a. Fails(mem) => ~sync'.errs
    BY DEF Fails, Off
  <2>3. CASE \/ RewriteRollout \/ RenameRollout \/ RestoreRewritten \/ CommitTransaction \/ SyncFails
             \/ CheckGlobalState \/ WriteGlobalState \/ WriteBackup
    BY <1>0, <2>3, <2>a DEF RewriteRollout, RenameRollout, RestoreRewritten, CommitTransaction, SyncFails,
                CheckGlobalState, WriteGlobalState, WriteBackup, GoTo, Process
  <2>4. CASE MarkRolloutsApplied
    BY <1>0, <2>4 DEF MarkRolloutsApplied, PersistThen, Off
  <2>5. CASE \/ BeginTransaction \/ MarkCommitted \/ PrepareGlobalState \/ PrepareBackup
    BY <1>0, <2>5 DEF BeginTransaction, MarkCommitted, PrepareGlobalState, PrepareBackup, PersistThen, Process
  <2>6. CASE Complete
    BY <1>0, <2>6, OffPlaced DEF Complete
  <2> QED BY <1>1, <2>1, <2>2, <2>3, <2>4, <2>5, <2>6 DEF SyncStep
<1>2. CASE UndoEntry
  BY <1>2, UndoEntryCalm
<1>3. CASE KeepEntry \/ EntriesUndone
  BY <1>0, <1>3 DEF KeepEntry, EntriesUndone, PersistUndoThen, Process
<1>4. CASE UndoFile \/ ReplaceFile
  <2>0. /\ mem \in OurJournal /\ mem # NoJournal /\ sync.at \in DOMAIN mem.files
        /\ mem.files[sync.at] \in FileChange
    BY <1>4, AtFiles, JournalFacts
  <2>1. Intact(mem.files)
    BY <1>0, <2>0 DEF CalmFiles, Papers
  <2>2. FileDone(TRUE) \/ (GoTo("replaceFile") /\ mem' = mem)
    <3>1. CASE UndoFile
      <4>1. fs[mem.files[sync.at].path] \in {mem.files[sync.at].before, mem.files[sync.at].after}
        BY <2>0, <2>1 DEF Intact
      <4> QED BY <1>0, <3>1, <4>1 DEF UndoFile, AsBefore
    <3>2. CASE ReplaceFile
      <4>1. fs[mem.files[sync.at].path] = mem.files[sync.at].after
        BY <1>0, <3>2 DEF CalmFiles, ReplaceFile, At
      <4>2. mem.files[sync.at].after # NoFile
        BY <2>0, JournalAssumption DEF FileChange
      <4>3. {fs[mem.files[sync.at].path], mem.files[sync.at].before} # {NoFile}
        BY <4>1, <4>2
      <4> QED BY <3>2, <4>3 DEF ReplaceFile
    <3> QED BY <1>4, <3>1, <3>2
  <2> QED BY <1>0, <2>2 DEF FileDone, GoTo, Process
<1>5. CASE EndRollback \/ Crash
  BY <1>5, OffPlaced DEF EndRollback, Crash
<1>6. CASE Recover
  BY <1>6 DEF Recover, Fails, Off
<1>7. CASE \/ \E r \in Rows : OtherRow(r)
           \/ \E f \in Files : OtherFile(f)
           \/ UNCHANGED vars
  BY <1>0, <1>7 DEF OtherRow, OtherFile, vars
<1> QED BY <1>1, <1>2, <1>3, <1>4, <1>5, <1>6, <1>7 DEF Next, UndoStep

LEMMA CalmInit == Init => CalmRows /\ CalmFiles /\ ConflictsHaveACause
<1> SUFFICES ASSUME Init PROVE CalmRows /\ CalmFiles /\ ConflictsHaveACause
  OBVIOUS
<1>1. mem = NoJournal /\ disk = NoJournal /\ sync.stage = "off" /\ ~sync.errs
  BY OffPlaced DEF Init
<1>2. Images = {} /\ Papers = {}
  BY <1>1 DEF Images, Papers
<1> QED BY <1>1, <1>2 DEF CalmRows, CalmFiles, ConflictsHaveACause, InSync, At

\* A rollback, begun once or again after any number of crashes, never takes what
\* the sync itself wrote, or what it has put back already, for the write of
\* somebody else (restore_change, restore_file).
THEOREM ConflictsAreOthers == Spec => []ConflictsHaveACause
<1>1. Init => CalmRows /\ CalmFiles /\ ConflictsHaveACause
  BY CalmInit
<1>2. /\ IInv /\ (RowsKept /\ FilesKept /\ Done)
      /\ CalmRows /\ CalmFiles /\ ConflictsHaveACause /\ [Next]_vars
      => (CalmRows /\ CalmFiles /\ ConflictsHaveACause)'
  BY CalmRowsStep, CalmFilesStep, CleanStep DEF IInv
<1> QED BY <1>1, <1>2, Kept, Inductive, PTL DEF Spec
=============================================================================
