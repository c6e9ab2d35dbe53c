----------------------------- MODULE ProcProofs -----------------------------
(* The process table for every NPROC, every set of CPUs and every argument   *)
(* of kill(); and sys_sleep(), which sleeps long enough: the unsigned        *)
(* difference ticks - ticks0 is the number of ticks since the call for as    *)
(* long as that number fits the counter.                                     *)
EXTENDS Proc, Clock, FiniteSetTheorems, TLAPS

\* A set of naturals has a least element.
LEMMA LeastExists ==
    ASSUME NEW T, T \subseteq Nat, T # {} PROVE \E x \in T : \A y \in T : x <= y
<1>1. \A x, y \in Nat : x < y => <<x, y>> \in OpToRel(<, Nat)
  BY DEF OpToRel
<1>2. PICK x \in T : \A y \in T : ~(<<y, x>> \in OpToRel(<, Nat))
  BY ZenonT(60), WFMin, NatLessThanWellFounded
<1>3. ASSUME NEW y \in T PROVE x <= y
  <2>1. x \in Nat /\ y \in Nat
    OBVIOUS
  <2>2. ~(y < x)
    BY ZenonT(60), <1>1, <1>2, <2>1
  <2>. QED
    BY <2>1, <2>2
<1>. QED
  BY <1>3

States == {UNUSED, EMBRYO, SLEEPING, RUNNABLE, RUNNING, ZOMBIE}
PCs == {"user", "forkret", "fork", "exit", "wait", "event"}

TypeOK ==
    /\ state \in [Slots -> States] /\ pid \in [Slots -> Int]
    /\ parent \in [Slots -> Slots \cup {Nobody}]
    /\ killed \in [Slots -> BOOLEAN] /\ chan \in [Slots -> Slots \cup {event, Nobody}]
    /\ pc \in [Slots -> PCs] /\ child \in [Slots -> Slots \cup {Nobody}]
    /\ cpu \in [CPUs -> Slots \cup {Nobody}] /\ scan \in [CPUs -> Int]

\* A fork() in progress belongs to a process that runs or waits for a CPU, and
\* has an embryo of its own.
Forking ==
    /\ \A p \in Slots : pc[p] = "fork" =>
          state[p] \in {RUNNABLE, RUNNING} /\ child[p] \in Slots /\ state[child[p]] = EMBRYO
    /\ \A p, q \in Slots :
          pc[p] = "fork" /\ pc[q] = "fork" /\ child[p] = child[q] => p = q

\* A slot that is free or being filled is nobody's child; init lives and has no
\* parent; nobody is its own parent.
Unowned ==
    /\ \A s \in Slots : state[s] \in {UNUSED, EMBRYO} => parent[s] = Nobody
    /\ state[initproc] \in Alive /\ parent[initproc] = Nobody
    /\ \A s \in Slots : parent[s] # s

\* Where the killed flag of a slot comes from, also before the slot runs.
Marked ==
    \A s \in Slots : killed[s] =>
        /\ state[s] \in Alive \cup {EMBRYO} => pid[s] \in targeted \/ s \in stray
        /\ state[s] = UNUSED => s \in stray

Inv == TypeOK /\ OneCpuEach /\ Forking /\ Unowned /\ WaiterNotForgotten /\ Marked

\* The assumptions on the constants, and what they say of the slots.
LEMMA Sizes == NPROC \in Nat \ {0, 1} /\ Nobody \notin Slots /\ event \notin Slots /\ initproc \in Slots
  BY ProcAssumption DEF Slots, event, initproc

\* The first slot of a set of slots is in it.
LEMMA FirstIn ==
    ASSUME NEW S, S \subseteq Slots, S # {} PROVE First(S) \in S
<1>1. S \subseteq Nat
  BY Sizes DEF Slots
<1>2. \E x \in S : \A y \in S : x <= y
  BY Zenon, <1>1, LeastExists
<1>. QED
  BY <1>2 DEF First

\* nextpid++ finds a pid that no other slot holds: there are NPROC of them.
LEMMA PidsDiffer ==
    ASSUME NEW s \in Slots PROVE NewPid(s) \in Int /\ \A t \in Slots \ {s} : pid[t] # NewPid(s)
<1>. DEFINE T == Slots \ {s}
            R == {pid[t] : t \in T}
            free == {n \in 1 .. NPROC : \A t \in T : pid[t] # n}
            f == [t \in T |-> pid[t]]
<1>1. IsFiniteSet(Slots) /\ Cardinality(Slots) = NPROC /\ NPROC \in Nat /\ Slots = 1 .. NPROC
  <2>1. 1 \in Int /\ NPROC \in Int
    BY Sizes
  <2>2. IsFiniteSet(1 .. NPROC) /\ Cardinality(1 .. NPROC) = (IF 1 > NPROC THEN 0 ELSE NPROC - 1 + 1)
    BY <2>1, FS_Interval
  <2>. QED
    BY <2>2, Sizes DEF Slots
<1>2. IsFiniteSet(T) /\ Cardinality(T) = NPROC - 1
  BY Zenon, <1>1, FS_RemoveElement
<1>3. f \in Surjection(T, R)
  BY DEF Surjection
<1>4. IsFiniteSet(R) /\ Cardinality(R) <= Cardinality(T)
  <2>. HIDE DEF f, T, R
  <2>. QED
    BY <1>2, <1>3, FS_Surjection
<1>5. free # {}
  <2>. SUFFICES ASSUME free = {} PROVE FALSE
    OBVIOUS
  <2>1. Slots \subseteq R
    BY Zenon, <1>1
  <2>. HIDE DEF R, T, free
  <2>2. Cardinality(Slots) <= Cardinality(R)
    BY <1>4, <2>1, FS_Subset
  <2>3. Cardinality(R) \in Nat
    BY <1>4, FS_CardinalityType
  <2>. QED
    BY <1>1, <1>2, <1>4, <2>2, <2>3
<1>6. free \subseteq Slots
  BY <1>1
<1>7. NewPid(s) = First(free)
  BY DEF NewPid
<1>8. First(free) \in free
  <2>. HIDE DEF free
  <2>. QED
    BY <1>5, <1>6, FirstIn
<1>9. NewPid(s) \in free
  BY ZenonT(60), <1>7, <1>8
<1>. QED
  BY <1>1, <1>9

\* What a step of a running process starts from.
LEMMA RunsRunning ==
    ASSUME Inv, NEW c \in CPUs, NEW p \in Slots, Runs(c, p)
    PROVE  /\ state[p] = RUNNING /\ cpu[c] = p
           /\ \A d \in CPUs : cpu[d] = p => d = c
  BY Sizes DEF Inv, OneCpuEach, Runs

\* Steps that change the pc of the running process and nothing in the table.
LEMMA PcStep ==
    ASSUME Inv, NEW c \in CPUs, NEW p \in Slots, Runs(c, p), NEW l \in PCs \ {"fork"},
           pc' = [pc EXCEPT ![p] = l],
           UNCHANGED <<tableVars, child, cpu, scan, targeted, stray>>
    PROVE  Inv'
<1>. USE DEF tableVars
<1>1. TypeOK'
  BY DEF Inv, TypeOK
<1>2. OneCpuEach'
  BY DEF Inv, OneCpuEach
<1>3. Forking'
  BY DEF Inv, TypeOK, Forking
<1>4. Unowned' /\ Marked'
  BY DEF Inv, Unowned, Marked
<1>5. WaiterNotForgotten'
  BY DEF Inv, WaiterNotForgotten, Zombies, Children
<1>. QED
  BY <1>1, <1>2, <1>3, <1>4, <1>5 DEF Inv

\* allocproc() takes a free slot, which is nobody's child, and a new pid.
LEMMA ForkAllocStep ==
    ASSUME Inv, NEW c \in CPUs, NEW p \in Slots, ForkAlloc(c, p) PROVE Inv'
<1>1. state[p] = RUNNING /\ cpu[c] = p
  BY RunsRunning DEF ForkAlloc
<1>2. PICK s \in Slots :
        /\ state[s] = UNUSED
        /\ state' = [state EXCEPT ![s] = EMBRYO]
        /\ pid' = [pid EXCEPT ![s] = NewPid(s)]
        /\ child' = [child EXCEPT ![p] = s]
        /\ targeted' = targeted \ {NewPid(s)}
  BY Zenon DEF ForkAlloc
<1>3. /\ pc' = [pc EXCEPT ![p] = "fork"]
      /\ UNCHANGED <<parent, killed, chan, cpu, scan, stray>>
  BY DEF ForkAlloc
<1>4. NewPid(s) \in Int /\ \A t \in Slots \ {s} : pid[t] # NewPid(s)
  BY PidsDiffer
<1>. HIDE DEF NewPid
<1>5. TypeOK'
  BY <1>2, <1>3, <1>4 DEF Inv, TypeOK, States, PCs
<1>6. OneCpuEach'
  BY <1>2, <1>3 DEF Inv, TypeOK, OneCpuEach, UNUSED, EMBRYO, RUNNING
<1>7. Forking'
  BY <1>1, <1>2, <1>3 DEF Inv, TypeOK, Forking, UNUSED, EMBRYO, RUNNING, RUNNABLE
<1>8. Unowned'
  BY <1>2, <1>3, Sizes DEF Inv, TypeOK, Unowned, Alive, UNUSED, RUNNABLE, RUNNING, SLEEPING
<1>9. WaiterNotForgotten'
  BY <1>2, <1>3 DEF Inv, TypeOK, WaiterNotForgotten, Zombies, Children, EMBRYO, SLEEPING, ZOMBIE
<1>10. Marked'
  BY <1>2, <1>3, <1>4 DEF Inv, TypeOK, Marked, Alive, EMBRYO, UNUSED
<1>. QED
  BY <1>5, <1>6, <1>7, <1>8, <1>9, <1>10 DEF Inv

\* The embryo becomes RUNNABLE and a child of the process that forks.
LEMMA ForkDoneStep ==
    ASSUME Inv, NEW c \in CPUs, NEW p \in Slots, ForkDone(c, p) PROVE Inv'
<1>. DEFINE s == child[p]
            l == IF killed[p] THEN "exit" ELSE IF p = initproc THEN "wait" ELSE "user"
<1>1. state[p] = RUNNING /\ cpu[c] = p /\ pc[p] = "fork"
  BY RunsRunning DEF ForkDone
<1>2. s \in Slots /\ state[s] = EMBRYO /\ s # p
  BY <1>1 DEF Inv, Forking, EMBRYO, RUNNING
<1>3. /\ parent' = [parent EXCEPT ![s] = p] /\ state' = [state EXCEPT ![s] = RUNNABLE]
      /\ child' = [child EXCEPT ![p] = Nobody]
      /\ pc' = [pc EXCEPT ![s] = "forkret", ![p] = l]
      /\ UNCHANGED <<pid, killed, chan, cpu, scan, targeted, stray>>
  BY DEF ForkDone
<1>4. l \in PCs \ {"fork"}
  BY DEF PCs
<1>5. \A q \in Slots \ {p} : pc[q] = "fork" => child[q] # s
  BY <1>1 DEF Inv, Forking
<1>6. parent[s] = Nobody
  BY <1>2 DEF Inv, Unowned
<1>. HIDE DEF s, l
<1>7. TypeOK'
  BY <1>2, <1>3, <1>4 DEF Inv, TypeOK, States, PCs
<1>8. OneCpuEach'
  BY <1>2, <1>3 DEF Inv, TypeOK, OneCpuEach, RUNNABLE, EMBRYO, RUNNING
<1>9. Forking'
  BY <1>1, <1>2, <1>3, <1>4, <1>5 DEF Inv, TypeOK, Forking, EMBRYO, RUNNING, RUNNABLE
<1>10. Unowned'
  BY <1>1, <1>2, <1>3, Sizes DEF Inv, TypeOK, Unowned, Alive, UNUSED, EMBRYO, RUNNABLE, RUNNING, SLEEPING
<1>11. WaiterNotForgotten'
  <2>. SUFFICES ASSUME NEW q \in Slots, state'[q] = SLEEPING, chan'[q] = q
                PROVE  Zombies(q)' = {} /\ Children(q)' # {} /\ ~killed'[q]
    BY DEF WaiterNotForgotten
  <2>1. q # s /\ q # p /\ state[q] = SLEEPING /\ chan[q] = q
    BY <1>1, <1>2, <1>3 DEF Inv, TypeOK, SLEEPING, RUNNABLE, RUNNING
  <2>2. Zombies(q) = {} /\ Children(q) # {} /\ ~killed[q]
    BY <2>1 DEF Inv, WaiterNotForgotten
  <2>3. Children(q)' = Children(q)
    BY <1>2, <1>3, <1>6, <2>1, Sizes DEF Inv, TypeOK, Children
  <2>4. Zombies(q)' = {}
    BY <1>2, <1>3, <2>2, <2>3 DEF Inv, TypeOK, Zombies, ZOMBIE, RUNNABLE
  <2>. QED
    BY <1>3, <2>2, <2>3, <2>4
<1>12. Marked'
  BY <1>2, <1>3 DEF Inv, TypeOK, Marked, Alive, EMBRYO, UNUSED, RUNNABLE
<1>. QED
  BY <1>7, <1>8, <1>9, <1>10, <1>11, <1>12 DEF Inv

\* fork() fails: the embryo, if there is one, is free again.
LEMMA ForkFailsStep ==
    ASSUME Inv, NEW c \in CPUs, NEW p \in Slots, ForkFails(c, p) PROVE Inv'
<1>. DEFINE s == child[p]
            l == IF killed[p] \/ p = initproc THEN "exit" ELSE "user"
<1>1. state[p] = RUNNING /\ cpu[c] = p
  BY RunsRunning DEF ForkFails
<1>2. /\ child' = [child EXCEPT ![p] = Nobody] /\ pc' = [pc EXCEPT ![p] = l]
      /\ UNCHANGED <<pid, parent, killed, chan, cpu, scan, targeted>>
  BY DEF ForkFails, Return
<1>3. l \in PCs \ {"fork"}
  BY DEF PCs
<1>4. CASE /\ pc[p] = "fork"
           /\ state' = [state EXCEPT ![s] = UNUSED]
           /\ stray' = stray \cup {x \in {s} : killed[x]}
  <2>1. s \in Slots /\ state[s] = EMBRYO /\ \A q \in Slots \ {p} : pc[q] = "fork" => child[q] # s
    BY <1>4 DEF Inv, Forking
  <2>. HIDE DEF s, l
  <2>2. TypeOK'
    BY <1>2, <1>3, <1>4, <2>1 DEF Inv, TypeOK, States
  <2>3. OneCpuEach'
    BY <1>2, <1>4, <2>1 DEF Inv, TypeOK, OneCpuEach, UNUSED, EMBRYO, RUNNING
  <2>4. Forking'
    BY <1>2, <1>3, <1>4, <2>1 DEF Inv, TypeOK, Forking, EMBRYO, RUNNING, RUNNABLE
  <2>5. Unowned'
    BY <1>2, <1>4, <2>1, Sizes DEF Inv, TypeOK, Unowned, Alive, UNUSED, EMBRYO, RUNNABLE, RUNNING, SLEEPING
  <2>6. WaiterNotForgotten'
    BY <1>2, <1>4, <2>1 DEF Inv, TypeOK, WaiterNotForgotten, Zombies, Children, UNUSED, SLEEPING, ZOMBIE
  <2>7. Marked'
    BY <1>2, <1>4, <2>1 DEF Inv, TypeOK, Marked, Alive, EMBRYO, UNUSED, RUNNABLE, RUNNING, SLEEPING
  <2>. QED
    BY <2>2, <2>3, <2>4, <2>5, <2>6, <2>7 DEF Inv
<1>5. CASE UNCHANGED <<state, stray>>
  <2>. HIDE DEF l
  <2>1. TypeOK'
    BY <1>2, <1>3, <1>5 DEF Inv, TypeOK
  <2>2. Forking'
    BY Zenon, <1>2, <1>3, <1>5 DEF Inv, TypeOK, Forking
  <2>3. OneCpuEach' /\ Unowned' /\ Marked' /\ WaiterNotForgotten'
    BY <1>2, <1>5 DEF Inv, OneCpuEach, Unowned, Marked, WaiterNotForgotten, Zombies, Children
  <2>. QED
    BY <2>1, <2>2, <2>3 DEF Inv
<1>. QED
  BY <1>4, <1>5 DEF ForkFails

\* exit() wakes the parent that gets a zombie, and init if it inherits one.
LEMMA ExitStep ==
    ASSUME Inv, NEW c \in CPUs, NEW p \in Slots, Exit(c, p) PROVE Inv'
<1>. DEFINE woken == wakeup1(state, parent[p])
            passed == IF Zombies(p) # {} THEN wakeup1(woken, initproc) ELSE woken
<1>1. /\ state[p] = RUNNING /\ cpu[c] = p /\ \A d \in CPUs : cpu[d] = p => d = c
      /\ pc[p] = "exit" /\ p # initproc
  BY Zenon, RunsRunning DEF Exit
<1>2. /\ state' = [passed EXCEPT ![p] = ZOMBIE]
      /\ parent' = [s \in Slots |-> IF parent[s] = p THEN initproc ELSE parent[s]]
      /\ cpu' = [cpu EXCEPT ![c] = Nobody]
      /\ UNCHANGED <<pid, killed, chan, pc, child, scan, targeted, stray>>
  BY DEF Exit
<1>3. state' \in [Slots -> States] /\ state'[p] = ZOMBIE
  BY Zenon, <1>2 DEF Inv, TypeOK, wakeup1, States
<1>4. \A s \in Slots \ {p} : \/ state'[s] = state[s]
                             \/ state[s] = SLEEPING /\ state'[s] = RUNNABLE
  BY <1>2 DEF wakeup1, SLEEPING, RUNNABLE
<1>5. \A s \in Slots \ {p} : state'[s] = SLEEPING =>
          state[s] = SLEEPING /\ chan[s] # parent[p] /\ (chan[s] = initproc => Zombies(p) = {})
  BY <1>2 DEF wakeup1, SLEEPING, RUNNABLE
<1>. HIDE DEF passed, woken
<1>6. TypeOK'
  BY <1>2, <1>3, Sizes DEF Inv, TypeOK
<1>7. OneCpuEach'
  <2>1. \A s \in Slots \ {p} : state'[s] = RUNNING <=> state[s] = RUNNING
    BY <1>4 DEF RUNNING, SLEEPING, RUNNABLE
  <2>2. \A s \in Slots \ {p} : \A d \in CPUs : cpu'[d] = s <=> cpu[d] = s
    BY <1>1, <1>2, Sizes DEF Inv, TypeOK
  <2>3. \A d \in CPUs : cpu'[d] # p
    BY <1>1, <1>2, Sizes DEF Inv, TypeOK
  <2>4. \A s \in Slots : state'[s] = RUNNING <=> \E d \in CPUs : cpu'[d] = s
    BY <1>3, <2>1, <2>2, <2>3 DEF Inv, OneCpuEach, ZOMBIE, RUNNING
  <2>5. \A d, h \in CPUs : cpu'[d] = cpu'[h] /\ cpu'[d] # Nobody => d = h
    BY Zenon, <1>2 DEF Inv, TypeOK, OneCpuEach
  <2>. QED
    BY <2>4, <2>5 DEF OneCpuEach
<1>8. Forking'
  <2>1. \A q \in Slots : pc[q] = "fork" => q # p /\ child[q] # p
    BY <1>1 DEF Inv, Forking, EMBRYO, RUNNING
  <2>. QED
    BY <1>2, <1>4, <2>1 DEF Inv, Forking, EMBRYO, RUNNING, RUNNABLE, SLEEPING
<1>9. Unowned'
  BY <1>1, <1>2, <1>3, <1>4, Sizes DEF Inv, Unowned, Alive, UNUSED, EMBRYO, RUNNABLE, RUNNING, SLEEPING, ZOMBIE
<1>10. WaiterNotForgotten'
  <2>. SUFFICES ASSUME NEW q \in Slots, state'[q] = SLEEPING, chan'[q] = q
                PROVE  Zombies(q)' = {} /\ Children(q)' # {} /\ ~killed'[q]
    BY DEF WaiterNotForgotten
  <2>1. q # p /\ state[q] = SLEEPING /\ chan[q] = q /\ parent[p] # q
        /\ (q = initproc => Zombies(p) = {})
    BY <1>2, <1>3, <1>5 DEF SLEEPING, ZOMBIE
  <2>2. Zombies(q) = {} /\ Children(q) # {} /\ ~killed[q]
    BY <2>1 DEF Inv, WaiterNotForgotten
  <2>3. Children(q) \subseteq Children(q)'
    BY <1>2, <2>1 DEF Children
  <2>4. ASSUME NEW z \in Slots, parent'[z] = q, state'[z] = ZOMBIE PROVE FALSE
    <3>1. CASE z = p
      BY <1>2, <2>1, <2>4, <3>1 DEF Inv, Unowned
    <3>2. CASE z # p
      <4>1. state[z] = ZOMBIE
        BY Zenon, <1>4, <2>4, <3>2 DEF ZOMBIE, RUNNABLE
      <4>2. CASE parent[z] = p
        BY Zenon, <1>2, <2>1, <2>4, <4>1, <4>2 DEF Zombies, Children
      <4>3. CASE parent[z] # p
        BY <1>2, <2>2, <2>4, <4>1, <4>3 DEF Zombies, Children
      <4>. QED
        BY <4>2, <4>3
    <3>. QED
      BY <3>1, <3>2
  <2>5. Zombies(q)' = {}
    BY Zenon, <2>4 DEF Zombies, Children
  <2>. QED
    BY Zenon, <1>2, <2>2, <2>3, <2>5
<1>11. Marked'
  BY <1>2, <1>3, <1>4 DEF Inv, Marked, Alive, UNUSED, EMBRYO, RUNNABLE, SLEEPING, RUNNING, ZOMBIE
<1>. QED
  BY <1>6, <1>7, <1>8, <1>9, <1>10, <1>11 DEF Inv

\* sched() from sleep() or yield(): the process leaves its CPU.
LEMMA LeavesCpu ==
    ASSUME Inv, NEW c \in CPUs, NEW p \in Slots, Runs(c, p), NEW st \in {SLEEPING, RUNNABLE},
           state' = [state EXCEPT ![p] = st], cpu' = [cpu EXCEPT ![c] = Nobody]
    PROVE  OneCpuEach'
<1>1. \A d \in CPUs : cpu[d] = p => d = c
  BY RunsRunning
<1>2. state'[p] # RUNNING /\ \A s \in Slots \ {p} : state'[s] = state[s]
  BY DEF Inv, TypeOK, RUNNING, SLEEPING, RUNNABLE
<1>3. \A d \in CPUs : cpu'[d] # p
  BY <1>1, Sizes DEF Inv, TypeOK
<1>4. \A s \in Slots \ {p} : \A d \in CPUs : cpu'[d] = s <=> cpu[d] = s
  BY Sizes DEF Inv, TypeOK, Runs
<1>5. \A s \in Slots : state'[s] = RUNNING <=> \E d \in CPUs : cpu'[d] = s
  BY <1>2, <1>3, <1>4 DEF Inv, OneCpuEach
<1>6. \A d, h \in CPUs : cpu'[d] = cpu'[h] /\ cpu'[d] # Nobody => d = h
  BY DEF Inv, TypeOK, OneCpuEach
<1>. QED
  BY <1>5, <1>6 DEF OneCpuEach

\* wait() sleeps on the process itself, the other calls on an event.
LEMMA SleepStep ==
    ASSUME Inv, NEW c \in CPUs, NEW p \in Slots, Runs(c, p), NEW ch \in {p, event}, Sleep(c, p, ch),
           ch = p => Zombies(p) = {} /\ Children(p) # {} /\ ~killed[p],
           NEW l \in PCs \ {"fork"}, pc' = [pc EXCEPT ![p] = l]
    PROVE  Inv'
<1>1. state[p] = RUNNING /\ cpu[c] = p
  BY RunsRunning
<1>2. /\ chan' = [chan EXCEPT ![p] = ch] /\ state' = [state EXCEPT ![p] = SLEEPING]
      /\ cpu' = [cpu EXCEPT ![c] = Nobody]
      /\ UNCHANGED <<pid, parent, killed, child, scan, targeted, stray>>
  BY DEF Sleep
<1>3. TypeOK'
  BY <1>2 DEF Inv, TypeOK, States
<1>4. OneCpuEach'
  BY Zenon, <1>2, LeavesCpu
<1>5. Forking'
  <2>1. \A q \in Slots : pc'[q] = "fork" => q # p /\ pc[q] = "fork" /\ child[q] # p
    BY <1>1 DEF Inv, TypeOK, Forking, RUNNING, EMBRYO
  <2>. QED
    BY <1>2, <2>1 DEF Inv, TypeOK, Forking
<1>6. Unowned'
  BY <1>1, <1>2 DEF Inv, TypeOK, Unowned, Alive, UNUSED, EMBRYO, SLEEPING
<1>7. WaiterNotForgotten'
  <2>1. \A q \in Slots : Children(q)' = Children(q)
    BY <1>2 DEF Children
  <2>2. \A q \in Slots : Zombies(q)' \subseteq Zombies(q)
    BY <1>2, <2>1 DEF Zombies, Inv, TypeOK, SLEEPING, ZOMBIE
  <2>3. event # p
    BY Zenon, Sizes
  <2>. QED
    BY SMTT(60), <1>2, <2>1, <2>2, <2>3 DEF Inv, TypeOK, WaiterNotForgotten
<1>8. Marked'
  BY SMTT(30), <1>1, <1>2 DEF Inv, TypeOK, Marked, Alive, UNUSED, SLEEPING, RUNNING
<1>. QED
  BY <1>3, <1>4, <1>5, <1>6, <1>7, <1>8 DEF Inv

\* A preempted process keeps everything but its CPU.
LEMMA YieldStep ==
    ASSUME Inv, NEW c \in CPUs, NEW p \in Slots, Yield(c, p) PROVE Inv'
<1>1. state[p] = RUNNING /\ cpu[c] = p
  BY RunsRunning DEF Yield
<1>2. /\ state' = [state EXCEPT ![p] = RUNNABLE]
      /\ cpu' = [cpu EXCEPT ![c] = Nobody]
      /\ UNCHANGED <<pid, parent, killed, chan, pc, child, scan, targeted, stray>>
  BY DEF Yield
<1>3. TypeOK'
  BY Zenon, <1>2 DEF Inv, TypeOK, States
<1>4. OneCpuEach'
  BY Zenon, <1>2, LeavesCpu DEF Yield
<1>5. Forking'
  <2>1. \A q \in Slots : pc[q] = "fork" => child[q] # p
    BY <1>1 DEF Inv, Forking, RUNNING, EMBRYO
  <2>. QED
    BY <1>2, <2>1 DEF Inv, TypeOK, Forking
<1>6. Unowned'
  BY <1>1, <1>2 DEF Inv, TypeOK, Unowned, Alive, UNUSED, EMBRYO, RUNNABLE
<1>7. WaiterNotForgotten'
  BY <1>1, <1>2 DEF Inv, TypeOK, WaiterNotForgotten, Zombies, Children, RUNNABLE, SLEEPING, ZOMBIE
<1>8. Marked'
  BY <1>1, <1>2 DEF Inv, TypeOK, Marked, Alive, UNUSED, RUNNABLE, RUNNING
<1>. QED
  BY <1>3, <1>4, <1>5, <1>6, <1>7, <1>8 DEF Inv

\* wakeup() makes sleepers RUNNABLE and touches nothing else.
LEMMA EventStep ==
    ASSUME Inv, EventHappens PROVE Inv'
<1>1. /\ state' = wakeup1(state, event)
      /\ UNCHANGED <<pid, parent, killed, chan, pc, child, cpu, scan, targeted, stray>>
  BY DEF EventHappens
<1>2. state' \in [Slots -> States]
  BY SMTT(30), <1>1 DEF Inv, TypeOK, wakeup1, States
<1>3. \A s \in Slots : state'[s] = state[s] \/ (state[s] = SLEEPING /\ state'[s] = RUNNABLE)
  BY <1>1 DEF wakeup1
<1>4. TypeOK'
  BY <1>1, <1>2 DEF Inv, TypeOK
<1>5. OneCpuEach'
  BY <1>1, <1>3 DEF Inv, OneCpuEach, RUNNING, RUNNABLE, SLEEPING
<1>6. Forking'
  BY <1>1, <1>3 DEF Inv, Forking, RUNNING, RUNNABLE, SLEEPING, EMBRYO
<1>7. Unowned'
  BY Zenon, <1>1, <1>3, Sizes DEF Inv, Unowned, Alive, UNUSED, EMBRYO, RUNNABLE, SLEEPING
<1>8. WaiterNotForgotten'
  BY <1>1, <1>3 DEF Inv, WaiterNotForgotten, Zombies, Children, RUNNABLE, SLEEPING, ZOMBIE
<1>9. Marked'
  BY <1>1, <1>3 DEF Inv, Marked, Alive, UNUSED, EMBRYO, RUNNABLE, SLEEPING
<1>. QED
  BY <1>4, <1>5, <1>6, <1>7, <1>8, <1>9 DEF Inv

\* wait() frees the slot of a zombie, which runs nowhere and forks nothing.
LEMMA ReapStep ==
    ASSUME Inv, NEW c \in CPUs, NEW p \in Slots, Reap(c, p) PROVE Inv'
<1>. DEFINE z == First(Zombies(p))
<1>1. state[p] = RUNNING /\ cpu[c] = p /\ pc[p] = "wait"
  BY Zenon, RunsRunning DEF Reap
<1>2. z \in Slots /\ parent[z] = p /\ state[z] = ZOMBIE
  <2>1. Zombies(p) \subseteq Slots /\ Zombies(p) # {}
    BY DEF Reap, Zombies, Children
  <2>2. z \in Zombies(p)
    BY Zenon, <2>1, FirstIn
  <2>. QED
    BY Zenon, <2>2 DEF Zombies, Children
<1>3. /\ state' = [state EXCEPT ![z] = UNUSED] /\ pid' = [pid EXCEPT ![z] = 0]
      /\ parent' = [parent EXCEPT ![z] = Nobody] /\ killed' = [killed EXCEPT ![z] = FALSE]
      /\ stray' = stray \ {z} /\ UNCHANGED <<chan, child, cpu, scan, targeted>>
  BY DEF Reap
<1>4. \E l \in PCs \ {"fork"} : pc' = [pc EXCEPT ![p] = l]
  <2>1. CASE UNCHANGED pc
    <3>1. pc' = [pc EXCEPT ![p] = "wait"]
      BY <1>1, <2>1 DEF Inv, TypeOK
    <3>. QED
      BY Zenon, <3>1 DEF PCs
  <2>2. CASE Return(p, killed[p])
    <3>. DEFINE l == IF killed[p] THEN "exit" ELSE "user"
    <3>1. l \in PCs \ {"fork"}
      BY DEF PCs
    <3>2. pc' = [pc EXCEPT ![p] = l]
      BY <2>2 DEF Return
    <3>. HIDE DEF l
    <3>. QED
      BY Zenon, <3>1, <3>2
  <2>. QED
    BY <2>1, <2>2 DEF Reap
<1>5. PICK l \in PCs \ {"fork"} : pc' = [pc EXCEPT ![p] = l]
  BY Zenon, <1>4
<1>. HIDE DEF z
<1>6. TypeOK'
  BY <1>2, <1>3, <1>5 DEF Inv, TypeOK, States
<1>7. OneCpuEach'
  BY <1>2, <1>3 DEF Inv, TypeOK, OneCpuEach, UNUSED, RUNNING, ZOMBIE
<1>8. Forking'
  <2>1. \A q \in Slots : pc'[q] = "fork" => pc[q] = "fork" /\ q # z /\ child[q] # z
    BY <1>2, <1>5 DEF Inv, TypeOK, Forking, RUNNING, RUNNABLE, EMBRYO, ZOMBIE
  <2>. QED
    BY <1>3, <2>1 DEF Inv, TypeOK, Forking
<1>9. Unowned'
  <2>1. z # initproc
    BY Zenon, <1>2 DEF Inv, Unowned, Alive, SLEEPING, RUNNABLE, RUNNING, ZOMBIE
  <2>. QED
    BY <1>2, <1>3, <2>1, Sizes DEF Inv, TypeOK, Unowned
<1>10. WaiterNotForgotten'
  <2>. SUFFICES ASSUME NEW q \in Slots, state'[q] = SLEEPING, chan'[q] = q
                PROVE  Zombies(q)' = {} /\ Children(q)' # {} /\ ~killed'[q]
    BY DEF WaiterNotForgotten
  <2>1. q # z /\ q # p /\ state[q] = SLEEPING /\ chan[q] = q
    BY Zenon, <1>1, <1>2, <1>3 DEF Inv, TypeOK, SLEEPING, UNUSED, RUNNING, ZOMBIE
  <2>2. Zombies(q) = {} /\ Children(q) # {} /\ ~killed[q]
    BY Zenon, <2>1 DEF Inv, WaiterNotForgotten
  <2>3. Children(q)' = Children(q)
    BY <1>2, <1>3, <2>1, Sizes DEF Inv, TypeOK, Children
  <2>4. Zombies(q)' = {}
    BY <1>3, <2>2, <2>3 DEF Zombies, Inv, TypeOK, UNUSED, ZOMBIE
  <2>. QED
    BY <1>3, <2>1, <2>2, <2>3, <2>4 DEF Inv, TypeOK
<1>11. Marked'
  BY <1>2, <1>3 DEF Inv, TypeOK, Marked
<1>. QED
  BY Zenon, <1>6, <1>7, <1>8, <1>9, <1>10, <1>11 DEF Inv

\* kill() marks the first slot with the pid and wakes it if it sleeps.
LEMMA KillStep ==
    ASSUME Inv, NEW c \in CPUs, NEW p \in Slots, NEW k \in KillPids, Kill(c, p, k) PROVE Inv'
<1>. DEFINE t == First({s \in Slots : pid[s] = k})
            l == IF t = p THEN "exit" ELSE "user"
<1>1. t \in Slots /\ pid[t] = k
  <2>. DEFINE S == {s \in Slots : pid[s] = k}
  <2>1. S \subseteq Slots /\ S # {}
    BY DEF Kill
  <2>2. First(S) \in S
    <3>. HIDE DEF S
    <3>. QED
      BY ZenonT(60), <2>1, FirstIn
  <2>. QED
    BY Zenon, <2>2
<1>2. /\ killed' = [killed EXCEPT ![t] = TRUE]
      /\ state' = [state EXCEPT ![t] = IF @ = SLEEPING THEN RUNNABLE ELSE @]
      /\ stray' = stray \cup {s \in {t} : state[s] = UNUSED}
      /\ pc' = [pc EXCEPT ![p] = l] /\ targeted' = targeted \cup {k}
      /\ UNCHANGED <<pid, parent, chan, child, cpu, scan>>
  BY ZenonT(60) DEF Kill, Return
<1>3. l \in PCs \ {"fork"}
  BY Zenon DEF PCs
<1>. HIDE DEF t, l
<1>4. TypeOK'
  BY <1>1, <1>2, <1>3 DEF Inv, TypeOK, States
<1>5. \A s \in Slots : state'[s] = state[s] \/ (state[s] = SLEEPING /\ state'[s] = RUNNABLE)
  BY ZenonT(60), <1>1, <1>2 DEF Inv, TypeOK
<1>6. OneCpuEach'
  BY <1>2, <1>5 DEF Inv, OneCpuEach, RUNNING, RUNNABLE, SLEEPING
<1>7. Forking'
  <2>1. \A q \in Slots : pc'[q] = "fork" => pc[q] = "fork"
    BY Zenon, <1>2, <1>3 DEF Inv, TypeOK
  <2>. QED
    BY <1>2, <1>5, <2>1 DEF Inv, Forking, RUNNING, RUNNABLE, SLEEPING, EMBRYO
<1>8. Unowned'
  BY Zenon, <1>2, <1>5, Sizes DEF Inv, Unowned, Alive, UNUSED, EMBRYO, RUNNABLE, SLEEPING
<1>9. WaiterNotForgotten'
  <2>1. state'[t] # SLEEPING
    BY Zenon, <1>1, <1>2 DEF Inv, TypeOK, SLEEPING, RUNNABLE
  <2>2. \A s \in Slots \ {t} : state'[s] = state[s] /\ killed'[s] = killed[s]
    BY Zenon, <1>1, <1>2 DEF Inv, TypeOK
  <2>. QED
    BY <1>2, <1>5, <2>1, <2>2 DEF Inv, WaiterNotForgotten, Zombies, Children, RUNNABLE, ZOMBIE
<1>10. Marked'
  BY <1>1, <1>2 DEF Inv, TypeOK, Marked, Alive, UNUSED, EMBRYO, RUNNABLE, SLEEPING
<1>. QED
  BY Zenon, <1>4, <1>6, <1>7, <1>8, <1>9, <1>10 DEF Inv

\* A fault marks the running process itself.
LEMMA FaultStep ==
    ASSUME Inv, NEW c \in CPUs, NEW p \in Slots, Fault(c, p) PROVE Inv'
<1>1. state[p] = RUNNING /\ cpu[c] = p
  BY RunsRunning DEF Fault
<1>2. /\ killed' = [killed EXCEPT ![p] = TRUE] /\ targeted' = targeted \cup {pid[p]}
      /\ pc' = [pc EXCEPT ![p] = "exit"]
      /\ UNCHANGED <<state, pid, parent, chan, child, cpu, scan, stray>>
  BY Zenon DEF Fault
<1>3. TypeOK'
  BY Zenon, <1>2 DEF Inv, TypeOK, PCs
<1>4. OneCpuEach' /\ Unowned'
  BY Zenon, <1>2 DEF Inv, OneCpuEach, Unowned
<1>5. Forking'
  BY Zenon, <1>2 DEF Inv, TypeOK, Forking
<1>6. WaiterNotForgotten'
  BY <1>1, <1>2 DEF Inv, TypeOK, WaiterNotForgotten, Zombies, Children, RUNNING, SLEEPING
<1>7. Marked'
  BY <1>1, <1>2 DEF Inv, TypeOK, Marked, RUNNING, UNUSED
<1>. QED
  BY Zenon, <1>3, <1>4, <1>5, <1>6, <1>7 DEF Inv

\* scheduler() takes a RUNNABLE process, so one that no CPU has.
LEMMA ScheduleStep ==
    ASSUME Inv, NEW c \in CPUs, Schedule(c) PROVE Inv'
<1>. DEFINE ready == {s \in Slots : state[s] = RUNNABLE}
            after == {s \in ready : s > scan[c]}
            S == IF after # {} THEN after ELSE ready
            p == First(S)
            l == IF pc[p] = "forkret" THEN "user"
                 ELSE IF pc[p] = "user" /\ killed[p] THEN "exit" ELSE pc[p]
<1>1. p \in Slots /\ state[p] = RUNNABLE
  <2>1. S \subseteq ready /\ S # {}
    BY DEF Schedule
  <2>2. ready \subseteq Slots
    OBVIOUS
  <2>3. First(S) \in S
    <3>. HIDE DEF S, ready
    <3>. QED
      BY Zenon, <2>1, <2>2, FirstIn
  <2>. QED
    BY SMTT(30), <2>1, <2>3
<1>2. /\ state' = [state EXCEPT ![p] = RUNNING] /\ chan' = [chan EXCEPT ![p] = Nobody]
      /\ cpu' = [cpu EXCEPT ![c] = p] /\ scan' = [scan EXCEPT ![c] = p]
      /\ UNCHANGED <<pid, parent, killed, child, targeted, stray>>
  BY Zenon DEF Schedule
<1>3. pc' = [pc EXCEPT ![p] = l]
  BY Zenon DEF Schedule
<1>4. l \in PCs /\ (l = "fork" => pc[p] = "fork")
  BY SMTT(30), <1>1 DEF Inv, TypeOK, PCs
<1>5. cpu[c] = Nobody
  BY DEF Schedule
<1>. HIDE DEF p, l
<1>6. p \in Int
  BY <1>1, Sizes DEF Slots
<1>7. TypeOK'
  BY <1>1, <1>2, <1>3, <1>4, <1>6 DEF Inv, TypeOK, States
<1>8. \A d \in CPUs : cpu[d] # p
  BY <1>1 DEF Inv, OneCpuEach, RUNNABLE, RUNNING
<1>9. OneCpuEach'
  <2>1. \A s \in Slots \ {p} : state'[s] = state[s]
    BY Zenon, <1>2 DEF Inv, TypeOK
  <2>2. \A d \in CPUs \ {c} : cpu'[d] = cpu[d]
    BY Zenon, <1>2 DEF Inv, TypeOK
  <2>3. state'[p] = RUNNING /\ cpu'[c] = p
    BY Zenon, <1>1, <1>2 DEF Inv, TypeOK
  <2>4. \A s \in Slots : state'[s] = RUNNING <=> \E d \in CPUs : cpu'[d] = s
    BY <1>5, <2>1, <2>2, <2>3, Sizes DEF Inv, OneCpuEach
  <2>5. \A d, h \in CPUs : cpu'[d] = cpu'[h] /\ cpu'[d] # Nobody => d = h
    BY SMTT(30), <1>8, <2>2, <2>3 DEF Inv, OneCpuEach
  <2>. QED
    BY Zenon, <2>4, <2>5 DEF OneCpuEach
<1>10. Forking'
  <2>1. \A q \in Slots : pc'[q] = "fork" => pc[q] = "fork" /\ child[q] # p
    BY Zenon, <1>1, <1>3, <1>4 DEF Inv, TypeOK, Forking, RUNNABLE, EMBRYO
  <2>. QED
    BY Zenon, <1>1, <1>2, <2>1 DEF Inv, TypeOK, Forking
<1>11. Unowned'
  BY Zenon, <1>1, <1>2, Sizes DEF Inv, TypeOK, Unowned, Alive, UNUSED, EMBRYO, RUNNING
<1>12. WaiterNotForgotten'
  BY SMTT(30), <1>1, <1>2 DEF Inv, TypeOK, WaiterNotForgotten, Zombies, Children, RUNNING, SLEEPING, ZOMBIE
<1>13. Marked'
  BY <1>1, <1>2 DEF Inv, TypeOK, Marked, Alive, UNUSED, RUNNABLE, RUNNING
<1>. QED
  BY Zenon, <1>7, <1>9, <1>10, <1>11, <1>12, <1>13 DEF Inv

\* The table userinit() leaves satisfies the invariant.
LEMMA Init_Inv == Init => Inv
<1>. SUFFICES ASSUME Init PROVE Inv
  OBVIOUS
<1>1. TypeOK
  BY Sizes DEF Init, TypeOK, States, PCs, RUNNABLE, UNUSED
<1>2. OneCpuEach
  BY Zenon, Sizes DEF Init, OneCpuEach, RUNNABLE, UNUSED, RUNNING
<1>3. Forking /\ Unowned /\ Marked
  BY Zenon, Sizes DEF Init, Forking, Unowned, Marked, Alive, RUNNABLE
<1>4. WaiterNotForgotten
  BY Zenon, Sizes DEF Init, WaiterNotForgotten
<1>. QED
  BY <1>1, <1>2, <1>3, <1>4 DEF Inv

\* Every step of a process, a CPU or the outside world preserves it.
LEMMA Next_Inv == Inv /\ [Next]_vars => Inv'
<1>. SUFFICES ASSUME Inv, [Next]_vars PROVE Inv'
  OBVIOUS
<1>1. ASSUME NEW c \in CPUs, NEW p \in Slots, Progress(c, p) PROVE Inv'
  <2>1. CASE ForkAlloc(c, p)
    BY <2>1, ForkAllocStep
  <2>2. CASE ForkFails(c, p)
    BY <2>2, ForkFailsStep
  <2>3. CASE ForkDone(c, p)
    BY <2>3, ForkDoneStep
  <2>4. CASE Exit(c, p)
    BY <2>4, ExitStep
  <2>5. CASE Reap(c, p)
    BY <2>5, ReapStep
  <2>6. CASE WaitFails(c, p) \/ EventReturns(c, p)
    <3>. DEFINE l == IF killed[p] THEN "exit" ELSE "user"
    <3>1. l \in PCs \ {"fork"}
      BY DEF PCs
    <3>2. /\ Runs(c, p) /\ pc' = [pc EXCEPT ![p] = l]
          /\ UNCHANGED <<tableVars, child, cpu, scan, targeted, stray>>
      BY <2>6 DEF WaitFails, EventReturns, Return
    <3>. HIDE DEF l
    <3>. QED
      BY Zenon, <3>1, <3>2, PcStep
  <2>7. CASE WaitSleeps(c, p)
    <3>1. pc' = [pc EXCEPT ![p] = "wait"]
      BY SMTT(60), <2>7 DEF WaitSleeps, Inv, TypeOK
    <3>2. /\ Runs(c, p) /\ Sleep(c, p, p)
          /\ Zombies(p) = {} /\ Children(p) # {} /\ ~killed[p]
      BY <2>7 DEF WaitSleeps
    <3>3. "wait" \in PCs \ {"fork"}
      BY DEF PCs
    <3>. QED
      BY Zenon, <3>1, <3>2, <3>3, SleepStep
  <2>. QED
    BY <1>1, <2>1, <2>2, <2>3, <2>4, <2>5, <2>6, <2>7 DEF Progress
<1>2. ASSUME NEW c \in CPUs, NEW p \in Slots, EnterExit(c, p) PROVE Inv'
  <2>1. "exit" \in PCs \ {"fork"}
    BY DEF PCs
  <2>. QED
    BY Zenon, <1>2, <2>1, PcStep DEF EnterExit
<1>3. ASSUME NEW c \in CPUs, NEW p \in Slots, EnterWait(c, p) PROVE Inv'
  <2>1. "wait" \in PCs \ {"fork"}
    BY DEF PCs
  <2>. QED
    BY Zenon, <1>3, <2>1, PcStep DEF EnterWait
<1>4. ASSUME NEW c \in CPUs, NEW p \in Slots, EventSleeps(c, p) PROVE Inv'
  <2>1. "event" \in PCs \ {"fork"} /\ event # p
    BY Sizes DEF PCs
  <2>2. Runs(c, p) /\ Sleep(c, p, event) /\ pc' = [pc EXCEPT ![p] = "event"]
    BY <1>4 DEF EventSleeps
  <2>. QED
    BY Zenon, <2>1, <2>2, SleepStep
<1>5. ASSUME NEW c \in CPUs, InitExits(c) PROVE Inv'
  BY <1>5 DEF InitExits, tableVars, Inv, TypeOK, OneCpuEach, Forking, Unowned, Marked,
              WaiterNotForgotten, Zombies, Children
<1>6. CASE UNCHANGED vars
  BY <1>6 DEF vars, tableVars, Inv, TypeOK, OneCpuEach, Forking, Unowned, Marked,
              WaiterNotForgotten, Zombies, Children
<1>. QED
  BY <1>1, <1>2, <1>3, <1>4, <1>5, <1>6, YieldStep, FaultStep, KillStep, ScheduleStep, EventStep
     DEF Next, Halted

\* The invariant holds in every reachable state.
LEMMA Always == Spec => []Inv
  BY Init_Inv, Next_Inv, PTL DEF Spec

\* scheduler(), sched(): in every reachable state of any table, the RUNNING
\* processes are those the CPUs run, each on one CPU.
THEOREM RunningOnOneCpu == Spec => []OneCpuEach
<1>1. Inv => OneCpuEach
  BY DEF Inv
<1>. QED
  BY <1>1, Always, PTL

\* sleep(), wakeup1(), exit(): no process ever sleeps in wait() with a zombie
\* child, without children, or killed.
THEOREM NoWaiterForgotten == Spec => []WaiterNotForgotten
<1>1. Inv => WaiterNotForgotten
  BY SMTT(30) DEF Inv
<1>. QED
  BY <1>1, Always, PTL

\* kill(), allocproc(), wait(): a live process is marked killed only if its pid
\* was given to kill(), it faulted, or its slot was free with the mark on.
THEOREM KilledByItsPid == Spec => []OnlyTargetKilled
<1>1. Inv => OnlyTargetKilled
  BY DEF Inv, Marked, OnlyTargetKilled
<1>. QED
  BY <1>1, Always, PTL

-----------------------------------------------------------------------------
(* The clock.                                                                *)

ClockTypeOK ==
    /\ ticks \in 0 .. TickWrap - 1
    /\ spc \in [Sleepers -> {"user", "run", "sleep"}]
    /\ nap \in [Sleepers -> Naps \cup {0}]
    /\ ticks0 \in [Sleepers -> 0 .. TickWrap - 1]
    /\ since \in [Sleepers -> 0 .. TickWrap]

\* The difference sys_sleep() computes counts the ticks since the call, until
\* they are TickWrap or more; outside the call nothing has been counted.
Counted ==
    \A p \in Sleepers :
        IF spc[p] = "user" THEN since[p] = 0
        ELSE since[p] < TickWrap => (ticks - ticks0[p]) % TickWrap = since[p]

ClockInv == ClockTypeOK /\ Counted /\ NapsLongEnough

\* The argument of sys_sleep(), compared as an unsigned number, fits the counter.
LEMMA NapFits == ASSUME NEW m \in Naps \cup {0} PROVE Unsigned(m) \in 0 .. TickWrap - 1
<1>1. m \in Int
  BY ClockAssumption
<1>. QED
  BY <1>1, ClockAssumption DEF Unsigned

\* One tick more makes the difference one more, unless that is TickWrap.
LEMMA OneMore ==
    ASSUME NEW t \in 0 .. TickWrap - 1, NEW u \in 0 .. TickWrap - 1,
           ((t - u) % TickWrap) + 1 < TickWrap
    PROVE  (((t + 1) % TickWrap) - u) % TickWrap = ((t - u) % TickWrap) + 1
<1>. DEFINE N == TickWrap
<1>0. N \in Nat \ {0, 1}
  BY ClockAssumption
<1>1. CASE t >= u
  <2>1. (t - u) % N = t - u
    BY <1>0, <1>1
  <2>2. t - u + 1 < N
    BY SMTT(30), <2>1
  <2>3. CASE t + 1 < N
    <3>1. (t + 1) % N = t + 1
      BY SMTT(30), <1>0, <2>3
    <3>2. ((t + 1) - u) % N = (t + 1) - u
      BY SMTT(30), <1>0, <1>1, <2>2
    <3>. QED
      BY SMTT(30), <2>1, <3>1, <3>2
  <2>4. CASE t + 1 = N
    <3>1. (t + 1) % N = 0
      BY SMTT(30), <1>0, <2>4
    <3>2. u > 0
      BY SMTT(30), <2>2, <2>4
    <3>3. (0 - u) % N = N - u
      BY SMTT(30), <1>0, <3>2
    <3>. QED
      BY SMTT(30), <2>1, <2>4, <3>1, <3>3
  <2>. QED
    BY SMTT(30), <1>0, <2>3, <2>4
<1>2. CASE t < u
  <2>1. (t - u) % N = t - u + N
    BY SMTT(30), <1>0, <1>2
  <2>2. (t + 1) % N = t + 1
    BY SMTT(30), <1>0, <1>2
  <2>3. t + 1 < u
    BY SMTT(30), <1>0, <1>2, <2>1
  <2>4. ((t + 1) - u) % N = (t + 1) - u + N
    BY SMTT(30), <1>0, <2>3
  <2>. QED
    BY SMTT(30), <1>0, <2>1, <2>2, <2>4
<1>. QED
  BY <1>1, <1>2

\* Nobody sleeps at the start.
LEMMA ClockInit_Inv == ClockInit => ClockInv
  BY SMTT(30), ClockAssumption DEF ClockInit, ClockInv, ClockTypeOK, Counted, NapsLongEnough

\* Every step of the clock and of sys_sleep() keeps the difference right.
LEMMA ClockNext_Inv == ClockInv /\ [ClockNext]_clockVars => ClockInv'
<1>. SUFFICES ASSUME ClockInv, [ClockNext]_clockVars PROVE ClockInv'
  BY Zenon
<1>. USE DEF ClockInv, NapsLongEnough
<1>0. TickWrap \in Nat \ {0, 1}
  BY Zenon, ClockAssumption
<1>1. CASE Tick
  <2>1. ClockTypeOK'
    BY SMTT(30), <1>0, <1>1 DEF Tick, ClockTypeOK
  <2>2. ASSUME NEW p \in Sleepers, spc'[p] # "user", since'[p] < TickWrap
        PROVE  (ticks' - ticks0'[p]) % TickWrap = since'[p]
    <3>1. spc[p] # "user" /\ since[p] < TickWrap /\ since'[p] = since[p] + 1
      BY Zenon, <1>0, <1>1, <2>2 DEF Tick, ClockTypeOK
    <3>2. (ticks - ticks0[p]) % TickWrap = since[p]
      BY Zenon, <3>1 DEF Counted
    <3>3. ticks \in 0 .. TickWrap - 1 /\ ticks0[p] \in 0 .. TickWrap - 1
      BY Zenon DEF ClockTypeOK
    <3>4. (((ticks + 1) % TickWrap) - ticks0[p]) % TickWrap = since[p] + 1
      BY SMTT(30), <2>2, <3>1, <3>2, <3>3, OneMore
    <3>. QED
      BY ZenonT(60), <1>1, <3>1, <3>4 DEF Tick
  <2>3. ASSUME NEW p \in Sleepers, spc'[p] = "user" PROVE since'[p] = 0
    BY ZenonT(30), <1>1, <2>3 DEF Tick, ClockTypeOK, Counted
  <2>4. Counted'
    BY Zenon, <2>2, <2>3 DEF Counted
  <2>. QED
    BY ZenonT(30), <1>1, <2>1, <2>4 DEF Tick
<1>2. ASSUME NEW p \in Sleepers, NEW m \in Naps, NapStart(p, m) PROVE ClockInv'
  <2>1. ClockTypeOK'
    BY SMTT(30), <1>2 DEF NapStart, ClockTypeOK
  <2>2. (ticks - ticks) % TickWrap = 0
    BY SMTT(30), <1>0 DEF ClockTypeOK
  <2>3. Counted'
    BY Zenon, <1>2, <2>2 DEF NapStart, ClockTypeOK, Counted
  <2>. QED
    BY ZenonT(30), <1>2, <2>1, <2>3 DEF NapStart
<1>3. ASSUME NEW p \in Sleepers, NapDone(p) PROVE ClockInv'
  <2>1. ClockTypeOK'
    BY SMTT(30), <1>0, <1>3 DEF NapDone, NapLeave, ClockTypeOK
  <2>2. Counted'
    BY Zenon, <1>3 DEF NapDone, NapLeave, ClockTypeOK, Counted
  <2>3. Unsigned(nap[p]) \in 0 .. TickWrap - 1
    BY Zenon, NapFits DEF ClockTypeOK
  <2>4. (ticks - ticks0[p]) % TickWrap \in 0 .. TickWrap - 1
    BY SMTT(30), <1>0 DEF ClockTypeOK
  <2>5. ~(since[p] < Unsigned(nap[p]))
    <3>1. ~((ticks - ticks0[p]) % TickWrap < Unsigned(nap[p]))
      BY ZenonT(60), <1>3 DEF NapDone, Waits
    <3>2. since[p] < TickWrap => (ticks - ticks0[p]) % TickWrap = since[p]
      BY ZenonT(60), <1>3 DEF NapDone, Counted
    <3>3. since[p] \in 0 .. TickWrap
      BY Zenon DEF ClockTypeOK
    <3>. QED
      BY SMTT(30), <1>0, <2>3, <2>4, <3>1, <3>2, <3>3
  <2>. QED
    BY ZenonT(60), <1>3, <2>1, <2>2, <2>5 DEF NapDone
<1>4. ASSUME NEW p \in Sleepers, NapGoesOn(p) PROVE ClockInv'
  <2>1. ClockTypeOK'
    BY SMTT(30), <1>0, <1>4 DEF NapGoesOn, NapLeave, ClockTypeOK
  <2>2. Counted'
    BY Zenon, <1>4 DEF NapGoesOn, NapLeave, ClockTypeOK, Counted
  <2>. QED
    BY ZenonT(30), <1>4, <2>1, <2>2 DEF NapGoesOn
<1>5. ASSUME NEW p \in Sleepers, KillSleeper(p) PROVE ClockInv'
  BY Zenon, <1>5 DEF KillSleeper, ClockTypeOK, Counted
<1>6. ASSUME NEW p \in Sleepers, SleeperExits(p) PROVE ClockInv'
  BY Zenon, <1>6 DEF SleeperExits, ClockTypeOK, Counted
<1>7. CASE UNCHANGED clockVars
  BY <1>7 DEF clockVars, ClockTypeOK, Counted
<1>. QED
  BY Zenon, <1>1, <1>2, <1>3, <1>4, <1>5, <1>6, <1>7 DEF ClockNext

\* sys_sleep() never returns 0 before its n ticks have passed, whatever the
\* width of ticks and however often it wraps around meanwhile (sysproc.c:69).
THEOREM SleepsLongEnough == ClockSpec => []NapsLongEnough
<1>1. ClockInv => NapsLongEnough
  BY DEF ClockInv
<1>. QED
  BY ClockInit_Inv, ClockNext_Inv, <1>1, PTL DEF ClockSpec
=============================================================================
