------------------------------ MODULE UThread ------------------------------
(* The user-level threads of uthread.c: create, exit, yield with its       *)
(* lottery, join, and preemption by SIGALRM, whose handler is              *)
(* uthread_yield().                                                        *)
(*                                                                         *)
(* All threads share one kernel process.  A thread is the stack it runs on *)
(* and a stack is the sequence of calls in progress on it; c_uthread_index *)
(* says which thread the library believes is running.  A pending SIGALRM   *)
(* is delivered at the return of a trap: a timer interrupt anywhere in     *)
(* user code, and at the latest the next system call.                      *)
EXTENDS Integers, Sequences, FiniteSets

CONSTANTS
    MAX_THREADS,
    NTICKET,      \* tickets a thread holds in the lottery
    MaxTid,       \* bound: no uthread_create() is called once next_tid is larger
    MaxDepth,     \* bound: no alarm expires while a stack holds more calls
    Joins         \* TRUE iff threads call uthred_join()

ASSUME UThreadAssumption ==
    /\ MAX_THREADS \in Nat \ {0} /\ NTICKET \in Nat \ {0, 1} /\ MaxTid \in Nat /\ MaxDepth \in Nat
    /\ Joins \in BOOLEAN

VARIABLES
    state,            \* uthread_pool[i].state
    tid,              \* uthread_pool[i].tid
    esp,              \* uthread_pool[i].esp and ebp: a stack and a depth, or Null
    next_tid,
    c_uthread_index,
    calls,            \* calls in progress on each stack
    sp,               \* the stack the CPU is on
    armed,            \* an alarm() is counting down
    pending,          \* SIGALRM is pending
    trapped,          \* the last step was a system call
    exited,           \* the process has called exit()
    breached          \* history: an alarm has expired after the alarm(0) of a
                      \* library call and before the end of that call

poolVars == <<state, tid, esp, next_tid, c_uthread_index>>
signalVars == <<armed, pending, trapped, breached>>
vars == <<poolVars, calls, sp, signalVars, exited>>

Pool == 0 .. MAX_THREADS - 1
Null == <<>>
Call(fn, at) == [fn |-> fn, at |-> at, arg |-> 0]
Top == calls[sp][Len(calls[sp])]

-----------------------------------------------------------------------------
\* After uthread_init(): thread 0 runs.  signal() returns the handler it
\* replaces, which is never 0, so uthread_init() gives up before its alarm().
Init ==
    /\ state = [i \in Pool |-> IF i = 0 THEN "RUNNING" ELSE "FREE"]
    /\ tid = [i \in Pool |-> 0]
    /\ esp = [i \in Pool |-> Null]
    /\ next_tid = 1
    /\ c_uthread_index = 0
    /\ calls = [i \in Pool |-> IF i = 0 THEN <<Call("thread", "run")>> ELSE <<>>]
    /\ sp = 0
    /\ armed = FALSE
    /\ pending = FALSE
    /\ trapped = FALSE
    /\ exited = FALSE
    /\ breached = FALSE

\* The CPU is in function fn at at, and no signal is delivered first.
In(fn, at) ==
    /\ ~exited
    /\ Top.fn = fn /\ Top.at = at
    /\ ~(trapped /\ pending)

Goto(at) == calls' = [calls EXCEPT ![sp][Len(calls[sp])].at = at]
CallOn(s, k) == [calls EXCEPT ![s] = Append(@, k)]
Returns == calls' = [calls EXCEPT ![sp] = SubSeq(@, 1, Len(@) - 1)]

\* The system call alarm(): a count, or 0.
Alarm(on) == armed' = on /\ trapped' = TRUE /\ UNCHANGED <<pending, breached>>
NoTrap == trapped' = FALSE /\ UNCHANGED <<armed, pending, breached>>

-----------------------------------------------------------------------------
\* What a thread does: it calls the library, and its start_func returns into
\* uthread_exit().
ThreadCalls(k) ==
    /\ In("thread", "run")
    /\ k.fn = "create" => next_tid <= MaxTid
    /\ calls' = CallOn(sp, k)
    /\ NoTrap
    /\ UNCHANGED <<poolVars, sp, exited>>

\* execute_thread(), entered on a fresh stack.
ThreadStarts ==
    /\ In("thread", "start")
    /\ Alarm(TRUE)
    /\ Goto("run")
    /\ UNCHANGED <<poolVars, sp, exited>>

\* "disable thread switching": every library call begins with alarm(0).
SwitchingOff(fn, next) ==
    /\ In(fn, "off")
    /\ Alarm(FALSE)
    /\ Goto(next)
    /\ UNCHANGED <<poolVars, sp, exited>>

\* ... and ends with alarm(UTHREAD_QUANTA).
SwitchingOn(fn) ==
    /\ In(fn, "on")
    /\ Alarm(TRUE)
    /\ Returns
    /\ UNCHANGED <<poolVars, sp, exited>>

\* uthread_create(): the first FREE entry gets a tid and a stack and becomes
\* RUNNABLE; esp is reset only after that.
Free == {i \in Pool : state[i] = "FREE"}
FirstFree == CHOOSE i \in Free : \A j \in Free : i <= j

CreateLoads ==
    /\ In("create", "body")
    /\ IF Free = {} THEN Goto("on") /\ UNCHANGED <<state, tid, next_tid>>
       ELSE /\ tid' = [tid EXCEPT ![FirstFree] = next_tid]
            /\ next_tid' = next_tid + 1
            /\ state' = [state EXCEPT ![FirstFree] = "RUNNABLE"]
            /\ calls' = [calls EXCEPT ![FirstFree] = <<Call("thread", "start")>>,
                                      ![sp][Len(calls[sp])] = [@ EXCEPT !.at = "zero", !.arg = FirstFree]]
    /\ NoTrap
    /\ UNCHANGED <<esp, c_uthread_index, sp, exited>>

CreateZeroes ==
    /\ In("create", "zero")
    /\ esp' = [esp EXCEPT ![Top.arg] = Null]
    /\ Goto("on")
    /\ NoTrap
    /\ UNCHANGED <<state, tid, next_tid, c_uthread_index, sp, exited>>

\* uthread_exit(): free the entry, wake every sleeper, then yield if any entry
\* is left, else exit the process.
ExitFrees ==
    /\ In("exit", "body")
    /\ state' = [i \in Pool |-> IF i = c_uthread_index THEN "FREE"
                                ELSE IF state[i] = "SLEEP" THEN "RUNNABLE" ELSE state[i]]
    /\ Goto("zero")
    /\ NoTrap
    /\ UNCHANGED <<tid, esp, next_tid, c_uthread_index, sp, exited>>

ExitLeaves ==
    /\ In("exit", "zero")
    /\ IF Free = Pool THEN exited' = TRUE /\ UNCHANGED calls
       ELSE calls' = CallOn(sp, Call("yield", "off")) /\ UNCHANGED exited
    /\ NoTrap
    /\ UNCHANGED <<poolVars, sp>>

\* uthred_join(t): sleep while some entry has tid t.
JoinScans ==
    /\ In("join", "body")
    /\ IF \E i \in Pool : tid[i] = Top.arg
       THEN /\ state' = [state EXCEPT ![c_uthread_index] = "SLEEP"]
            /\ calls' = [calls EXCEPT ![sp] =
                            Append([@ EXCEPT ![Len(@)].at = "off"], Call("yield", "off"))]
       ELSE Goto("on") /\ UNCHANGED state
    /\ NoTrap
    /\ UNCHANGED <<tid, esp, next_tid, c_uthread_index, sp, exited>>

\* Mutant: the stack pointer is saved after c_uthread_index++.
YieldSavesLate ==
    /\ In("yield", "save")
    /\ c_uthread_index \in Pool
    /\ state' = [state EXCEPT ![c_uthread_index] = IF @ = "RUNNING" THEN "RUNNABLE" ELSE @]
    /\ esp' = [esp EXCEPT ![(c_uthread_index + 1) % MAX_THREADS] = <<sp, Len(calls[sp])>>]
    /\ c_uthread_index' = c_uthread_index + 1
    /\ Goto("pick")
    /\ NoTrap
    /\ UNCHANGED <<tid, next_tid, sp, exited>>

\* uthread_yield(): give up RUNNING, save the stack pointer, step the index ...
YieldSaves ==
    /\ In("yield", "save")
    /\ c_uthread_index \in Pool
    /\ state' = [state EXCEPT ![c_uthread_index] = IF @ = "RUNNING" THEN "RUNNABLE" ELSE @]
    /\ esp' = [esp EXCEPT ![c_uthread_index] = <<sp, Len(calls[sp])>>]
    /\ c_uthread_index' = c_uthread_index + 1
    /\ Goto("pick")
    /\ NoTrap
    /\ UNCHANGED <<tid, next_tid, sp, exited>>

\* ... draw a ticket among NTICKET per thread that is neither FREE nor asleep,
\* less one; the ticket divided by NTICKET numbers the winner among the
\* RUNNABLE, and the search for a number no thread has ends at MAX_THREADS.
\* With no thread to count, rand() % -1 is no thread's number either ...
Runnable == {i \in Pool : state[i] = "RUNNABLE"}
Live == {i \in Pool : state[i] \notin {"FREE", "SLEEP"}}

\* Mutant: tickets are numbered from 0 to their number.
DrawsOneMore(n) == {r \div NTICKET : r \in 0 .. n * NTICKET}

Draws(n) == {r \div NTICKET : r \in 0 .. n * NTICKET - 2}
Numbered(k) == {i \in Runnable : Cardinality({j \in Runnable : j < i}) = k}
Winners ==
    IF Live = {} THEN {MAX_THREADS}
    ELSE UNION {IF Numbered(k) = {} THEN {MAX_THREADS} ELSE Numbered(k) : k \in Draws(Cardinality(Live))}

YieldPicks ==
    /\ In("yield", "pick")
    /\ \E j \in Winners :
        /\ c_uthread_index' = j
        /\ state' = [i \in Pool |-> IF i = j THEN "RUNNING" ELSE state[i]]
    /\ Goto("load")
    /\ NoTrap
    /\ UNCHANGED <<tid, esp, next_tid, sp, exited>>

\* Mutant: a fresh thread is started on the stack of the one that yields.
YieldLoadsHere ==
    /\ In("yield", "load")
    /\ c_uthread_index \in Pool
    /\ LET e == esp[c_uthread_index] IN
        IF e = Null
        THEN calls' = CallOn(sp, Call("thread", "start")) /\ UNCHANGED sp
        ELSE /\ sp' = e[1]
             /\ calls' = [calls EXCEPT ![e[1]] =
                            Append(SubSeq(@, 1, e[2] - 1), Call("yield", "on"))]
    /\ NoTrap
    /\ UNCHANGED <<poolVars, exited>>

\* ... and continue on the winner's stack, where it had called yield or afresh.
YieldLoads ==
    /\ In("yield", "load")
    /\ c_uthread_index \in Pool
    /\ LET e == esp[c_uthread_index] IN
        IF e = Null
        THEN sp' = c_uthread_index /\ UNCHANGED calls
        ELSE /\ sp' = e[1]
             /\ calls' = [calls EXCEPT ![e[1]] =
                            Append(SubSeq(@, 1, e[2] - 1), Call("yield", "on"))]
    /\ NoTrap
    /\ UNCHANGED <<poolVars, exited>>

-----------------------------------------------------------------------------
\* The kernel: the alarm expires, and SIGALRM interrupts with uthread_yield().
Tick ==
    /\ armed /\ ~exited
    /\ \A i \in Pool : Len(calls[i]) <= MaxDepth
    /\ armed' = FALSE
    /\ pending' = TRUE
    /\ trapped' = FALSE
    /\ breached' = (breached \/ Top.at \notin {"run", "off"})
    /\ UNCHANGED <<poolVars, calls, sp, exited>>

Deliver ==
    /\ pending /\ ~exited
    /\ calls' = CallOn(sp, Call("yield", "off"))
    /\ pending' = FALSE
    /\ trapped' = FALSE
    /\ UNCHANGED <<poolVars, sp, armed, exited, breached>>

\* uthread_pool[MAX_THREADS] is no thread: what its esp and stack read as is
\* undefined, and the model ends where it is used.
OffPool == c_uthread_index \notin Pool /\ Top.at # "pick" /\ UNCHANGED vars

Done == exited /\ UNCHANGED vars

Next ==
    \/ \E fn \in {"create", "exit", "yield"} : ThreadCalls(Call(fn, "off"))
    \/ Joins /\ \E t \in 0 .. next_tid - 1 : ThreadCalls([Call("join", "off") EXCEPT !.arg = t])
    \/ ThreadStarts
    \/ \E fn \in {"create", "exit", "join"} : SwitchingOff(fn, "body")
    \/ SwitchingOff("yield", "save")
    \/ \E fn \in {"create", "join", "yield"} : SwitchingOn(fn)
    \/ CreateLoads \/ CreateZeroes
    \/ ExitFrees \/ ExitLeaves
    \/ JoinScans
    \/ YieldSaves \/ YieldPicks \/ YieldLoads
    \/ Tick \/ Deliver
    \/ OffPool
    \/ Done

Spec == Init /\ [][Next]_vars

-----------------------------------------------------------------------------
(* Properties *)

\* uthread_yield(): the CPU is on the stack of the thread the library takes to
\* be running, except between giving up the CPU and loading the next stack.
RunsOnOwnStack == exited \/ Top.at \in {"pick", "load"} \/ sp = c_uthread_index

\* So it is, however alarms and calls interleave, until an alarm expires in
\* what alarm(0) is there to protect: a SIGALRM that comes before the alarm(0)
\* of a library call, or is delivered at its return, does no harm yet.
OwnStackUntilBreach == breached \/ RunsOnOwnStack

\* uthread_yield(): a switch to a thread that has run before goes to that
\* thread's own stack, at the yield it called last.
SwitchResumesThread ==
    LET c == c_uthread_index IN
    ~breached /\ ~exited /\ Top.at = "load" /\ c \in Pool /\ esp[c] # Null =>
        /\ esp[c][1] = c
        /\ Len(calls[c]) = esp[c][2]
        /\ calls[c][esp[c][2]].fn = "yield"

\* uthread_yield(): every ticket that can be drawn belongs to a RUNNABLE thread,
\* so the search misses only when all threads have exited or sleep.
TicketHasOwner == ~breached /\ Top.at = "load" /\ c_uthread_index \notin Pool => Live = {}
=============================================================================
