----------------------------- MODULE MCDevices -----------------------------
(* The places where a process sleeps for bytes or for time: a pipe, the      *)
(* console and the clock.  They share no state, so that it is enough to look *)
(* at behaviours in which one of them moves.  The keyboard and the serial    *)
(* port both call consoleintr(): readers are looked at with the serial port. *)
EXTENDS Pipe, Console, Clock

VARIABLE device

deviceVars == <<vars, consoleVars, clockVars, device>>

DevicesInit ==
    /\ Init /\ ConsoleInit /\ ClockInit
    /\ device \in {"pipe", "console", "keyboard", "clock"}

DevicesNext ==
    \/ device = "pipe" /\ Next /\ UNCHANGED <<consoleVars, clockVars, device>>
    \/ device = "console" /\ ConsoleNext /\ UNCHANGED <<vars, clockVars, device>>
    \/ device = "keyboard" /\ KeyboardNext /\ UNCHANGED <<vars, clockVars, device>>
    \/ device = "clock" /\ ClockNext /\ UNCHANGED <<vars, consoleVars, device>>

Clocked(A) == device = "clock" /\ A /\ UNCHANGED <<vars, consoleVars, device>>

\* The fairness of Pipe, and the timer ticks.  A process that is RUNNABLE again
\* and again while its time is up gets to run in one of those intervals: for
\* n >= 0 each is at least half of TickWrap long.
DevicesSpec ==
    /\ DevicesInit /\ [][DevicesNext]_deviceVars
    /\ Fair
    /\ WF_deviceVars(Clocked(Tick))
    /\ \A p \in Sleepers :
          WF_deviceVars(Clocked(NapGoesOn(p))) /\ SF_deviceVars(Clocked(NapDone(p)))

MCNaps == {-2, 0, 3}
=============================================================================
