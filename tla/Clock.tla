------------------------------- MODULE Clock -------------------------------
(* The clock: the timer interrupt of CPU 0 counts ticks and wakes the       *)
(* processes in sys_sleep(), which compare a difference of unsigned counts  *)
(* with their argument.  Sections under tickslock are single steps.         *)
EXTENDS Integers

CONSTANTS
    Sleepers,      \* processes that call sleep()
    TickWrap,      \* ticks is counted modulo TickWrap: 2^32 in the code
    Naps           \* the arguments of sleep(), which are ints

ASSUME ClockAssumption ==
    /\ TickWrap \in Nat \ {0, 1}
    /\ \A m \in Naps : m \in -(TickWrap \div 2) .. TickWrap \div 2 - 1

VARIABLES
    ticks,
    spc,           \* "user", "run" or "sleep" (in sys_sleep())
    nap, ticks0,   \* n and ticks0 of sys_sleep()
    doomed,        \* the processes with proc->killed set
    since,         \* history: ticks since the call, up to TickWrap
    early          \* history: 1 if a call returned 0 before its time

clockVars == <<ticks, spc, nap, ticks0, doomed, since, early>>

\* n as the unsigned number it is compared as.
Unsigned(m) == m % TickWrap

\* Mutant: the deadline ticks0 + n, which wraps around, is compared.
WaitsForDeadline(p) == ticks < (ticks0[p] + Unsigned(nap[p])) % TickWrap

\* ticks - ticks0 < n
Waits(p) == (ticks - ticks0[p]) % TickWrap < Unsigned(nap[p])

\* Mutant: the tick wakes nobody.
TickSilent ==
    /\ ticks' = (ticks + 1) % TickWrap
    /\ since' = [p \in Sleepers |->
                   IF spc[p] # "user" /\ since[p] < TickWrap THEN since[p] + 1 ELSE since[p]]
    /\ UNCHANGED <<spc, nap, ticks0, doomed, early>>

\* trap(): "case T_IRQ0 + IRQ_TIMER" on CPU 0.
Tick ==
    /\ ticks' = (ticks + 1) % TickWrap
    /\ spc' = [p \in Sleepers |-> IF spc[p] = "sleep" THEN "run" ELSE spc[p]]
    /\ since' = [p \in Sleepers |->
                   IF spc[p] # "user" /\ since[p] < TickWrap THEN since[p] + 1 ELSE since[p]]
    /\ UNCHANGED <<nap, ticks0, doomed, early>>

NapStart(p, m) ==
    /\ spc[p] = "user" /\ p \notin doomed
    /\ spc' = [spc EXCEPT ![p] = "run"]
    /\ nap' = [nap EXCEPT ![p] = m]
    /\ ticks0' = [ticks0 EXCEPT ![p] = ticks]
    /\ UNCHANGED <<ticks, doomed, since, early>>

NapLeave(p) ==
    /\ spc' = [spc EXCEPT ![p] = "user"]
    /\ nap' = [nap EXCEPT ![p] = 0] /\ ticks0' = [ticks0 EXCEPT ![p] = 0]
    /\ since' = [since EXCEPT ![p] = 0]

\* The test of the loop succeeds: sleep() returns 0.
NapDone(p) ==
    /\ spc[p] = "run" /\ ~Waits(p)
    /\ NapLeave(p)
    /\ early' = IF since[p] < Unsigned(nap[p]) THEN 1 ELSE early
    /\ UNCHANGED <<ticks, doomed>>

\* It fails: sleep(), or -1 if the process has been killed.
NapGoesOn(p) ==
    /\ spc[p] = "run" /\ Waits(p)
    /\ IF p \in doomed
       THEN NapLeave(p)
       ELSE spc' = [spc EXCEPT ![p] = "sleep"] /\ UNCHANGED <<nap, ticks0, since>>
    /\ UNCHANGED <<ticks, doomed, early>>

KillSleeper(p) ==
    /\ p \notin doomed
    /\ doomed' = doomed \cup {p}
    /\ spc' = [spc EXCEPT ![p] = IF @ = "sleep" THEN "run" ELSE @]
    /\ UNCHANGED <<ticks, nap, ticks0, since, early>>

SleeperExits(p) ==
    /\ spc[p] = "user" /\ p \in doomed
    /\ doomed' = doomed \ {p}
    /\ UNCHANGED <<ticks, spc, nap, ticks0, since, early>>

ClockInit ==
    /\ ticks = 0
    /\ spc = [p \in Sleepers |-> "user"]
    /\ nap = [p \in Sleepers |-> 0] /\ ticks0 = [p \in Sleepers |-> 0]
    /\ doomed = {}
    /\ since = [p \in Sleepers |-> 0] /\ early = 0

ClockNext ==
    \/ Tick
    \/ \E p \in Sleepers :
          \/ \E m \in Naps : NapStart(p, m)
          \/ NapDone(p) \/ NapGoesOn(p) \/ KillSleeper(p) \/ SleeperExits(p)

ClockSpec == ClockInit /\ [][ClockNext]_clockVars

-----------------------------------------------------------------------------
\* sys_sleep() never returns 0 before its n ticks have passed, also when ticks
\* wraps around meanwhile (sysproc.c:69).
NapsLongEnough == early = 0

\* sys_sleep(n) with n >= 0 returns, however ticks wraps around; a killed
\* process returns whatever its n.
NapsEnd ==
    \A p \in Sleepers :
        spc[p] # "user" /\ (nap[p] >= 0 \/ p \in doomed) ~> spc[p] = "user"
=============================================================================
