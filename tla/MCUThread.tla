----------------------------- MODULE MCUThread -----------------------------
(* UThread with a pool of three threads.                                   *)
EXTENDS UThread

\* Every property but RunsOnOwnStack holds for ever once breached is TRUE: the
\* states beyond the first such one need no exploring for them.
UntilBreach == ~breached
=============================================================================
