------------------------------- MODULE MCProc -------------------------------
(* Proc with a table of three slots and one or two CPUs.                   *)
EXTENDS Proc
=============================================================================
