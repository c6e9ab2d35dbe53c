----------------------------- MODULE MCSignals -----------------------------
(* Signals with two signal numbers, of which 1 is the alarm.               *)
EXTENDS Signals

\* Nothing is claimed of a process once it is torn, so its later states add
\* nothing to the run.
UntilTorn == ~torn
=============================================================================
