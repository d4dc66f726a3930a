-------------------------- MODULE MCBackupOnDelete --------------------------
(* BackupOnDelete on small sets of files, names, threads and processes. *)
EXTENDS BackupRefinesCustody, TLC

CONSTANTS f1, f2, f3, d1, d2, n1, n2, n3, t1, t2, app, other

MCMessage == Path

Symmetry == Permutations(File) \cup Permutations(Thread)

\* For runs without Protected, Ignored and TooLong names.
SymmetryOfNames == Symmetry \cup Permutations(Name)
=============================================================================
