------------------------------ MODULE MCInode ------------------------------
(* Inode with two processes and two names.                                 *)
EXTENDS Inode, TLC

\* No operator of Inode tells processes, or names, apart.
Symmetry == Permutations(Procs) \cup Permutations(Names)
=============================================================================
