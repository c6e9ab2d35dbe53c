-------------------------------- MODULE Proc --------------------------------
(* The process table of proc.c: allocproc, fork, exit, wait, kill, sleep,  *)
(* wakeup, the scheduler of every CPU and the kill checks of trap.c, with  *)
(* init.c as the program of the first process.                             *)
(*                                                                         *)
(* A section under ptable.lock is one step.  fork() fills its child's slot *)
(* without the lock, so fork is two steps with others in between.  What a  *)
(* process runs is its pc: user code, or the system call it is in.         *)
EXTENDS Integers

CONSTANTS
    NPROC,      \* slots of ptable
    CPUs,
    KillPids,   \* pids that processes pass to kill()
    Nobody      \* no process: a null pointer, an idle CPU

ASSUME ProcAssumption ==
    /\ NPROC \in Nat \ {0, 1}
    /\ KillPids \subseteq 0 .. NPROC
    /\ Nobody \notin 1 .. NPROC

VARIABLES
    state,      \* p->state
    pid,        \* p->pid
    parent,     \* p->parent
    killed,     \* p->killed
    chan,       \* p->chan
    pc,         \* where the process is
    child,      \* np of a fork() in progress
    shell,      \* pid of the child init started last
    cpu,        \* the process each CPU runs
    scan,       \* where each CPU's scheduler loop is
    panicked,   \* a panic has halted the machine
    targeted,   \* history: pids that were given to kill() since they were issued
    stray       \* history: free slots left with a killed flag

tableVars == <<state, pid, parent, killed, chan>>
vars == <<tableVars, pc, child, shell, cpu, scan, panicked, targeted, stray>>

Slots == 1 .. NPROC
initproc == 1
event == 0      \* the channel of a sleep other than wait()'s

UNUSED == "UNUSED"
EMBRYO == "EMBRYO"
SLEEPING == "SLEEPING"
RUNNABLE == "RUNNABLE"
RUNNING == "RUNNING"
ZOMBIE == "ZOMBIE"
Alive == {SLEEPING, RUNNABLE, RUNNING}

-----------------------------------------------------------------------------
\* After userinit(): init is the only process, about to return to user space.
Init ==
    /\ state = [s \in Slots |-> IF s = initproc THEN RUNNABLE ELSE UNUSED]
    /\ pid = [s \in Slots |-> IF s = initproc THEN 1 ELSE 0]
    /\ parent = [s \in Slots |-> Nobody]
    /\ killed = [s \in Slots |-> FALSE]
    /\ chan = [s \in Slots |-> Nobody]
    /\ pc = [s \in Slots |-> IF s = initproc THEN "forkret" ELSE "user"]
    /\ child = [s \in Slots |-> Nobody]
    /\ shell = 0
    /\ cpu = [c \in CPUs |-> Nobody]
    /\ scan = [c \in CPUs |-> 0]
    /\ panicked = FALSE
    /\ targeted = {}
    /\ stray = {}

First(S) == CHOOSE s \in S : \A t \in S : s <= t
Children(p) == {s \in Slots : parent[s] = p}
Zombies(p) == {s \in Children(p) : state[s] = ZOMBIE}

\* p is running and no panic has halted its CPU.
Runs(c, p) == cpu[c] = p /\ p # Nobody /\ ~panicked

\* wakeup1(ch): every process sleeping on ch becomes RUNNABLE.
wakeup1(st, ch) ==
    [s \in Slots |-> IF st[s] = SLEEPING /\ chan[s] = ch THEN RUNNABLE ELSE st[s]]

\* The end of a system call in trap(): a killed process exits instead.
Return(p, k) == pc' = [pc EXCEPT ![p] = IF k THEN "exit" ELSE "user"]

\* A system call is entered from user code by a process not yet killed; init
\* only makes the calls of init.c.
EntersCall(p) == pc[p] = "user" /\ ~killed[p]

-----------------------------------------------------------------------------
\* allocproc(), called by fork(): the first UNUSED slot.  nextpid++ yields a
\* pid that no slot holds.  p->killed is not touched.
NewPid(s) == First({n \in 1 .. NPROC : \A t \in Slots \ {s} : pid[t] # n})

ForkAlloc(c, p) ==
    /\ Runs(c, p) /\ EntersCall(p)
    /\ \E s \in Slots :
        /\ state[s] = UNUSED
        /\ s = First({t \in Slots : state[t] = UNUSED})
        /\ state' = [state EXCEPT ![s] = EMBRYO]
        /\ pid' = [pid EXCEPT ![s] = NewPid(s)]
        /\ child' = [child EXCEPT ![p] = s]
        /\ targeted' = targeted \ {NewPid(s)}
    /\ pc' = [pc EXCEPT ![p] = "fork"]
    /\ UNCHANGED <<parent, killed, chan, shell, cpu, scan, panicked, stray>>

\* fork() returning -1: no slot, no kernel stack or no page table.  The slot
\* goes back to UNUSED without the lock and keeps its pid.  init exits.
ForkFails(c, p) ==
    /\ Runs(c, p)
    /\ \/ /\ pc[p] = "fork"
          /\ state' = [state EXCEPT ![child[p]] = UNUSED]
          /\ stray' = stray \cup {s \in {child[p]} : killed[s]}
       \/ /\ EntersCall(p)
          /\ \A t \in Slots : state[t] # UNUSED
          /\ UNCHANGED <<state, stray>>
    /\ child' = [child EXCEPT ![p] = Nobody]
    /\ Return(p, killed[p] \/ p = initproc)
    /\ UNCHANGED <<pid, parent, killed, chan, shell, cpu, scan, panicked, targeted>>

\* The rest of fork(): the child gets its parent and becomes RUNNABLE.
ForkDone(c, p) ==
    /\ Runs(c, p)
    /\ pc[p] = "fork"
    /\ parent' = [parent EXCEPT ![child[p]] = p]
    /\ state' = [state EXCEPT ![child[p]] = RUNNABLE]
    /\ child' = [child EXCEPT ![p] = Nobody]
    /\ pc' = [pc EXCEPT ![child[p]] = "forkret",
                        ![p] = IF killed[p] THEN "exit"
                               ELSE IF p = initproc THEN "wait" ELSE "user"]
    /\ shell' = IF p = initproc THEN pid[child[p]] ELSE shell
    /\ UNCHANGED <<pid, killed, chan, cpu, scan, panicked, targeted, stray>>

\* The exit() system call, or the kill check of a trap from user space.
EnterExit(c, p) ==
    /\ Runs(c, p)
    /\ pc[p] = "user"
    /\ killed[p] \/ p # initproc
    /\ pc' = [pc EXCEPT ![p] = "exit"]
    /\ UNCHANGED <<tableVars, child, shell, cpu, scan, panicked, targeted, stray>>

\* Mutant: the parent is not woken.
ExitSilent(c, p) ==
    /\ Runs(c, p)
    /\ pc[p] = "exit"
    /\ p # initproc
    /\ state' = [state EXCEPT ![p] = ZOMBIE]
    /\ parent' = [s \in Slots |-> IF parent[s] = p THEN initproc ELSE parent[s]]
    /\ cpu' = [cpu EXCEPT ![c] = Nobody]
    /\ UNCHANGED <<pid, killed, chan, pc, child, shell, scan, panicked, targeted, stray>>

\* exit() from acquire(&ptable.lock) on: wake the parent, hand the children to
\* init (waking it for a zombie among them), become a zombie.
Exit(c, p) ==
    /\ Runs(c, p)
    /\ pc[p] = "exit"
    /\ p # initproc
    /\ LET woken == wakeup1(state, parent[p])
           passed == IF Zombies(p) # {} THEN wakeup1(woken, initproc) ELSE woken
       IN  state' = [passed EXCEPT ![p] = ZOMBIE]
    /\ parent' = [s \in Slots |-> IF parent[s] = p THEN initproc ELSE parent[s]]
    /\ cpu' = [cpu EXCEPT ![c] = Nobody]
    /\ UNCHANGED <<pid, killed, chan, pc, child, shell, scan, panicked, targeted, stray>>

InitExits(c) ==
    /\ Runs(c, initproc)
    /\ pc[initproc] = "exit"
    /\ panicked' = TRUE
    /\ UNCHANGED <<tableVars, pc, child, shell, cpu, scan, targeted, stray>>

EnterWait(c, p) ==
    /\ Runs(c, p) /\ EntersCall(p)
    /\ p # initproc
    /\ pc' = [pc EXCEPT ![p] = "wait"]
    /\ UNCHANGED <<tableVars, child, shell, cpu, scan, panicked, targeted, stray>>

\* Mutant: the slot of a reaped child is not freed.
ReapLeaks(c, p) ==
    /\ Runs(c, p)
    /\ pc[p] = "wait"
    /\ Zombies(p) # {}
    /\ LET z == First(Zombies(p)) IN
        /\ pid' = [pid EXCEPT ![z] = 0]
        /\ parent' = [parent EXCEPT ![z] = Nobody]
        /\ killed' = [killed EXCEPT ![z] = FALSE]
        /\ stray' = stray \ {z}
        /\ IF p = initproc /\ pid[z] # shell /\ ~killed[p]
           THEN UNCHANGED pc
           ELSE Return(p, killed[p])
    /\ UNCHANGED <<state, chan, child, shell, cpu, scan, panicked, targeted>>

\* Mutant: wait() does not clear p->killed.
ReapKeepsKilled(c, p) ==
    /\ Runs(c, p)
    /\ pc[p] = "wait"
    /\ Zombies(p) # {}
    /\ LET z == First(Zombies(p)) IN
        /\ state' = [state EXCEPT ![z] = UNUSED]
        /\ pid' = [pid EXCEPT ![z] = 0]
        /\ parent' = [parent EXCEPT ![z] = Nobody]
        /\ stray' = stray \ {z}
        /\ IF p = initproc /\ pid[z] # shell /\ ~killed[p]
           THEN UNCHANGED pc
           ELSE Return(p, killed[p])
    /\ UNCHANGED <<killed, chan, child, shell, cpu, scan, panicked, targeted>>

\* One pass of wait()'s loop: reap the first zombie child, give up, or sleep.
\* init calls wait() again unless it reaped its shell or has no children.
Reap(c, p) ==
    /\ Runs(c, p)
    /\ pc[p] = "wait"
    /\ Zombies(p) # {}
    /\ LET z == First(Zombies(p)) IN
        /\ state' = [state EXCEPT ![z] = UNUSED]
        /\ pid' = [pid EXCEPT ![z] = 0]
        /\ parent' = [parent EXCEPT ![z] = Nobody]
        /\ killed' = [killed EXCEPT ![z] = FALSE]
        /\ stray' = stray \ {z}
        /\ IF p = initproc /\ pid[z] # shell /\ ~killed[p]
           THEN UNCHANGED pc
           ELSE Return(p, killed[p])
    /\ UNCHANGED <<chan, child, shell, cpu, scan, panicked, targeted>>

WaitFails(c, p) ==
    /\ Runs(c, p)
    /\ pc[p] = "wait"
    /\ Zombies(p) = {}
    /\ Children(p) = {} \/ killed[p]
    /\ Return(p, killed[p])
    /\ UNCHANGED <<tableVars, child, shell, cpu, scan, panicked, targeted, stray>>

\* sleep(ch, lk): chan and state are set and the CPU is given up under
\* ptable.lock, acquired before the condition's lock is released.
Sleep(c, p, ch) ==
    /\ chan' = [chan EXCEPT ![p] = ch]
    /\ state' = [state EXCEPT ![p] = SLEEPING]
    /\ cpu' = [cpu EXCEPT ![c] = Nobody]
    /\ UNCHANGED <<pid, parent, killed, child, shell, scan, panicked, targeted, stray>>

WaitSleeps(c, p) ==
    /\ Runs(c, p)
    /\ pc[p] = "wait"
    /\ Zombies(p) = {} /\ Children(p) # {} /\ ~killed[p]
    /\ Sleep(c, p, p)
    /\ UNCHANGED pc

\* A call such as sleep(), read() on a pipe or the console: a loop that sleeps
\* until its condition holds and gives up when the process has been killed.
EventSleeps(c, p) ==
    /\ Runs(c, p)
    /\ p # initproc
    /\ EntersCall(p) \/ (pc[p] = "event" /\ ~killed[p])
    /\ Sleep(c, p, event)
    /\ pc' = [pc EXCEPT ![p] = "event"]

EventReturns(c, p) ==
    /\ Runs(c, p)
    /\ pc[p] = "event"
    /\ Return(p, killed[p])
    /\ UNCHANGED <<tableVars, child, shell, cpu, scan, panicked, targeted, stray>>

\* wakeup() on such a channel, from an interrupt or another process.
EventHappens ==
    /\ ~panicked
    /\ \E s \in Slots : state[s] = SLEEPING /\ chan[s] = event
    /\ state' = wakeup1(state, event)
    /\ UNCHANGED <<pid, parent, killed, chan, pc, child, shell, cpu, scan, panicked, targeted, stray>>

\* Mutants: a running target becomes RUNNABLE too; a sleeper stays asleep.
KillMakesRunnable(c, p, k) ==
    /\ Runs(c, p) /\ EntersCall(p)
    /\ p # initproc
    /\ \E s \in Slots : pid[s] = k
    /\ LET t == First({s \in Slots : pid[s] = k}) IN
        /\ killed' = [killed EXCEPT ![t] = TRUE]
        /\ state' = [state EXCEPT ![t] = IF @ \in Alive THEN RUNNABLE ELSE @]
        /\ stray' = stray \cup {s \in {t} : state[s] = UNUSED}
        /\ Return(p, t = p)
    /\ targeted' = targeted \cup {k}
    /\ UNCHANGED <<pid, parent, chan, child, shell, cpu, scan, panicked>>

KillLetsSleep(c, p, k) ==
    /\ Runs(c, p) /\ EntersCall(p)
    /\ p # initproc
    /\ \E s \in Slots : pid[s] = k
    /\ LET t == First({s \in Slots : pid[s] = k}) IN
        /\ killed' = [killed EXCEPT ![t] = TRUE]
        /\ stray' = stray \cup {s \in {t} : state[s] = UNUSED}
        /\ Return(p, t = p)
    /\ targeted' = targeted \cup {k}
    /\ UNCHANGED <<state, pid, parent, chan, child, shell, cpu, scan, panicked>>

\* kill(k): the first slot whose pid is k, whatever its state.
Kill(c, p, k) ==
    /\ Runs(c, p) /\ EntersCall(p)
    /\ p # initproc
    /\ \E s \in Slots : pid[s] = k
    /\ LET t == First({s \in Slots : pid[s] = k}) IN
        /\ killed' = [killed EXCEPT ![t] = TRUE]
        /\ state' = [state EXCEPT ![t] = IF @ = SLEEPING THEN RUNNABLE ELSE @]
        /\ stray' = stray \cup {s \in {t} : state[s] = UNUSED}
        /\ Return(p, t = p)
    /\ targeted' = targeted \cup {k}
    /\ UNCHANGED <<pid, parent, chan, child, shell, cpu, scan, panicked>>

\* A fault in user space: trap() marks the process killed.
Fault(c, p) ==
    /\ Runs(c, p)
    /\ pc[p] = "user" /\ p # initproc
    /\ killed' = [killed EXCEPT ![p] = TRUE]
    /\ targeted' = targeted \cup {pid[p]}
    /\ pc' = [pc EXCEPT ![p] = "exit"]
    /\ UNCHANGED <<state, pid, parent, chan, child, shell, cpu, scan, panicked, stray>>

\* A timer interrupt: yield(), unless the kill check comes first.
Yield(c, p) ==
    /\ Runs(c, p)
    /\ ~(pc[p] = "user" /\ killed[p])
    /\ state' = [state EXCEPT ![p] = RUNNABLE]
    /\ cpu' = [cpu EXCEPT ![c] = Nobody]
    /\ UNCHANGED <<pid, parent, killed, chan, pc, child, shell, scan, panicked, targeted, stray>>

\* scheduler(): the next RUNNABLE slot in table order after the one run last.
\* The chosen process resumes in sleep(), which clears its chan, in yield(),
\* after which trap() checks killed again, or in forkret().
Schedule(c) ==
    /\ cpu[c] = Nobody /\ ~panicked
    /\ LET ready == {s \in Slots : state[s] = RUNNABLE}
           after == {s \in ready : s > scan[c]}
           p == First(IF after # {} THEN after ELSE ready)
       IN  /\ ready # {}
           /\ state' = [state EXCEPT ![p] = RUNNING]
           /\ chan' = [chan EXCEPT ![p] = Nobody]
           /\ cpu' = [cpu EXCEPT ![c] = p]
           /\ scan' = [scan EXCEPT ![c] = p]
           /\ pc' = [pc EXCEPT ![p] = IF @ = "forkret" THEN "user"
                                      ELSE IF @ = "user" /\ killed[p] THEN "exit"
                                      ELSE @]
    /\ UNCHANGED <<pid, parent, killed, child, shell, panicked, targeted, stray>>

Halted == panicked /\ UNCHANGED vars

\* The steps of a system call or trap that a running process is bound to take.
Progress(c, p) ==
    \/ ForkAlloc(c, p) \/ ForkFails(c, p) \/ ForkDone(c, p)
    \/ Exit(c, p)
    \/ Reap(c, p) \/ WaitFails(c, p) \/ WaitSleeps(c, p)
    \/ EventReturns(c, p)

Next ==
    \/ \E c \in CPUs, p \in Slots :
        \/ Progress(c, p)
        \/ EnterExit(c, p)
        \/ EnterWait(c, p)
        \/ EventSleeps(c, p)
        \/ \E k \in KillPids : Kill(c, p, k)
        \/ Fault(c, p)
        \/ Yield(c, p)
    \/ \E c \in CPUs : Schedule(c) \/ InitExits(c)
    \/ EventHappens
    \/ Halted

Spec == Init /\ [][Next]_vars

\* Fairness.  The scheduler loop of every CPU runs, and the timer preempts what
\* it runs.  A process that gets the CPU again and again advances (a time slice
\* is many instructions): through its system call, through init.c, or into
\* exit() once killed.  User code other than init's owes nothing, and neither
\* does the event a system call waits for.
Obliged(p) ==
    \E c \in CPUs :
        \/ pc[p] \in {"fork", "exit", "wait"} /\ Progress(c, p)
        \/ killed[p] /\ (EventReturns(c, p) \/ EnterExit(c, p))
        \/ p = initproc /\ (ForkAlloc(c, p) \/ ForkFails(c, p) \/ InitExits(c))

LiveSpec ==
    /\ Spec
    /\ \A c \in CPUs : WF_vars(Schedule(c))
    /\ \A p \in Slots : WF_vars(\E c \in CPUs : Yield(c, p))
    /\ \A p \in Slots : SF_vars(Obliged(p))

-----------------------------------------------------------------------------
(* Properties *)

\* scheduler(), sched(): a RUNNING process is on exactly one CPU, and a CPU
\* runs a RUNNING process, across fork, exit, sleep, wakeup and kill.
OneCpuEach ==
    /\ \A p \in Slots : state[p] = RUNNING <=> \E c \in CPUs : cpu[c] = p
    /\ \A c, d \in CPUs : cpu[c] = cpu[d] /\ cpu[c] # Nobody => c = d

\* wait() misses no wakeup: a process sleeping in wait() has children, none of
\* them a zombie, and has not been killed.
WaiterNotForgotten ==
    \A p \in Slots :
        state[p] = SLEEPING /\ chan[p] = p =>
            Zombies(p) = {} /\ Children(p) # {} /\ ~killed[p]

\* "Kill the process with the given pid": a process is marked killed only if
\* its own pid was given to kill(), it faulted, or its slot was free with the
\* mark on.  allocproc() does not clear killed, and kill() looks at no state:
\* pid 0 finds a free slot, and so does the pid of a fork() that failed.
OnlyTargetKilled ==
    \A s \in Slots :
        killed[s] /\ state[s] \in Alive => pid[s] \in targeted \/ s \in stray

\* kill(): a killed process exits, also when it sleeps in wait() or in an
\* interruptible call.
KilledExits ==
    \A s \in Slots :
        killed[s] /\ state[s] \in Alive
            ~> state[s] \in {ZOMBIE, UNUSED} \/ panicked

\* exit(), wait(), init.c: once a shell stays alive, an orphan's slot is freed
\* by init.  (While shells keep dying, wait()'s scan in table order may prefer
\* a dead shell in a lower slot every time.)
ShellLives == \E s \in Slots : pid[s] = shell /\ state[s] \in Alive

OrphansReaped ==
    <>[]ShellLives =>
        \A s \in Slots :
            state[s] = ZOMBIE /\ parent[s] = initproc ~> state[s] = UNUSED \/ panicked
=============================================================================
