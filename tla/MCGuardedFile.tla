--------------------------- MODULE MCGuardedFile ---------------------------
(* Two operations, an edit and a death.  Three files are enough for the    *)
(* target and a staged file of each; what is erased can be used again.     *)
EXTENDS GuardedFile, TLC

FileSymmetry == Permutations(Inodes) \cup Permutations(Procs)
=============================================================================
