SPECIFICATION Spec
CONSTANTS
    Rows = {r1, r2}
    Columns = {c1, c2}
    OldRows = {r1}
    Rollouts <- MCRollouts
    GlobalState = g1
    GlobalBackup = g2
    f1 = f1
    f2 = f2
    SyncValues = {target}
    OtherValues = {base, other}
    Base = base
    NoRow = NoRow
    NoFile = NoFile
    NoJournal = NoJournal
    MaxEntries = 2
    MaxOthers = 1
    MaxFaults = 1
INVARIANTS
    TypeOK
    RolledBackIsUndone
    IntentBeforeWrite
    ConflictsHaveACause
PROPERTY RollbackSparesOthers
CONSTRAINT SmallSync
SYMMETRY Symmetry
CHECK_DEADLOCK FALSE
