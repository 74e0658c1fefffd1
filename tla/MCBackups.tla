----------------------------- MODULE MCBackups -----------------------------
EXTENDS Backups, TLC

CONSTANTS b1, b2, b3, f1, f2, f3, shop, nightly, weekly

MCBackup   == {b1, b2, b3}
MCInstance == {shop}
MCFile     == {f1, f2, f3}

\* Two scheduled tasks on one instance and a manual backup.
Nightly == [inst |-> shop, source |-> "scheduled", group |-> nightly, keep |-> 1]
Weekly  == [inst |-> shop, source |-> "scheduled", group |-> weekly, keep |-> 1]
Spare   == [inst |-> shop, source |-> "scheduled", group |-> nightly, keep |-> 2]
Manual  == [inst |-> shop, source |-> "manual", group |-> NoGroup, keep |-> 1]

MCRequest    == {Nightly, Spare, Manual}
MCTwoTasks   == {Nightly, Weekly}

MCSymmetry == Permutations(MCBackup) \cup Permutations(MCFile)
=============================================================================
