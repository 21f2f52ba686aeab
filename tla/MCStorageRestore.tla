-------------------------- MODULE MCStorageRestore --------------------------
(* Two commands at a time and a name for a backup.                         *)
EXTENDS StorageRestore, TLC

CONSTANTS p1, p2, d1

MCSymmetry == Permutations({p1, p2})
=============================================================================
