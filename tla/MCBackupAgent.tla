---------------------------- MODULE MCBackupAgent ----------------------------
(* Small instances of BackupAgent for TLC. *)
EXTENDS BackupAgent, TLC

CONSTANTS d1, d2, j1, j2, s1, s2, n1, n2

\* Both runs back up the same database.
OneDb == [j \in Job |-> d1]
\* Each run backs up a database of its own; the names differ, or do not.
EachItsDb == (j1 :> d1 @@ j2 :> d2)
OwnNames  == (d1 :> n1 @@ d2 :> n2)
SameNames == [d \in DB |-> n1]

SlotSymmetry == Permutations(Slot)
RunSymmetry  == Permutations(Job)      \* only where both runs back up one database
=============================================================================
