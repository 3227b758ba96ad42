----------------------------- MODULE MCSyncJournal -----------------------------
(***************************************************************************)
(* Small instances of SyncJournal.                                         *)
(***************************************************************************)
EXTENDS SyncJournal

CONSTANTS f1, f2

MCRollouts == <<f1, f2>>

Symmetry == Permutations(Columns)

\* Up to three files and transactions in one sync, of whatever kinds.
SmallSync == mem # NoJournal => Len(mem.files) + Len(mem.entries) <= 3
=============================================================================
