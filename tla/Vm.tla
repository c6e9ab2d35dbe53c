--------------------------------- MODULE Vm ---------------------------------
(* Memory: the page allocator of kalloc.c, the page tables of vm.c, and the *)
(* operations that build, change, copy, switch and free an address space:   *)
(* exec(), sbrk(), fork(), exit(), wait() and the scheduler, any of whose   *)
(* kalloc()s may find no page.  Physical pages are alike, so the free list  *)
(* is their number; a page table is known by its directory, and holds its   *)
(* tables and the user pages they map.  Sizes and addresses are in bytes.   *)
EXTENDS Integers, Sequences, FiniteSets

CONSTANTS
    NPROC, CPUs,
    Memory,        \* the numbers of pages kinit1() and kinit2() may free
    PGSIZE, NPTENTRIES,
    UserTables,    \* directory entries below KERNBASE
    KernTables,    \* page tables the kernel part of a directory needs
    RetFuncSize,   \* bytes of sigretimplicit
    Programs,      \* the files exec() may load: sequences of segments
    ArgSizes,      \* bytes the arguments of exec() take on the stack
    Grows          \* the arguments of sbrk()

ASSUME VmAssumption ==
    /\ NPROC \in Nat \ {0} /\ IsFiniteSet(CPUs)
    /\ PGSIZE \in Nat \ {0} /\ NPTENTRIES \in Nat \ {0}
    /\ UserTables \in Nat \ {0} /\ KernTables \in Nat \ {0}
    /\ RetFuncSize \in 1 .. PGSIZE
    /\ ArgSizes \subseteq Nat /\ Grows \subseteq Int \ {0}
    /\ \A m \in Memory : m \in Nat /\ m >= 4 + KernTables

Procs == 1 .. NPROC
initproc == 1
Dirs == 1 .. 2 * NPROC              \* one of each process and one it works on
Tables == 0 .. UserTables - 1
UserPages == 0 .. UserTables * NPTENTRIES - 1
KERNBASE == UserTables * NPTENTRIES * PGSIZE
Wrap == 2 * KERNBASE                \* addresses are uints: 2^32 in the code

VARIABLES
    free,        \* how many pages kmem.freelist holds
    dirs,        \* the page tables
    state, kstack, pgdir, sz, parent, sigretAdd,
    pc, loc,     \* where each process is, and the locals of its call
    on, cr3,     \* what each CPU runs, and the page table it has loaded
    total,       \* history: pages there were at boot
    lost,        \* history: pages setupkvm() and copyuvm() lost when they failed
    panic

procVars == <<state, kstack, pgdir, sz, parent, sigretAdd>>
vars == <<free, dirs, procVars, pc, loc, on, cr3, total, lost, panic>>

NoSpace == [live |-> 0, tabs |-> {}, pte |-> [v \in UserPages |-> "none"]]
NoLocals == [dir |-> 0, prog |-> << >>, old |-> 0, new |-> 0, a |-> 0,
             ret |-> "user", np |-> 0]

-----------------------------------------------------------------------------
\* PGROUNDUP(x), as a page number.
PageUp(x) == (x + PGSIZE - 1) \div PGSIZE
Table(v) == v \div NPTENTRIES
Mapped(s) == {v \in UserPages : s.pte[v] # "none"}

\* What kalloc() and mappages() take to map one more page at page number v:
\* the page, and a page table when walkpgdir() finds none.
Need(s, v) == IF Table(v) \in s.tabs THEN 1 ELSE 2

\* mappages() of one page, which panics when the page is mapped already.
Mappages(s, v, perm) ==
    [s EXCEPT !.tabs = @ \cup {Table(v)}, !.pte = [s.pte EXCEPT ![v] = perm]]

Remap(s, v) == s.pte[v] # "none"

\* Mutant: the page that holds the new end is freed too.
ComesRoundsDown(s, oldsz, newsz) ==
    {v \in Mapped(s) : newsz \div PGSIZE <= v /\ v * PGSIZE < oldsz}

\* The mapped pages the loop of deallocuvm() comes across.  Where there is no
\* page table it moves on by NPTENTRIES pages, wherever in a table it was.
Comes(s, oldsz, newsz) ==
    LET visit[v \in 0 .. (UserTables + 1) * NPTENTRIES] ==
            IF v * PGSIZE >= oldsz THEN {}
            ELSE IF Table(v) \notin s.tabs THEN visit[v + NPTENTRIES]
            ELSE {v} \cup visit[v + 1]
    IN  visit[PageUp(newsz)] \cap Mapped(s)

Deallocuvm(s, oldsz, newsz) ==
    [s EXCEPT !.pte = [v \in UserPages |->
        IF v \in Comes(s, oldsz, newsz) THEN "none" ELSE @[v]]]

\* How many pages freevm() frees: the user pages deallocuvm() comes across,
\* the page tables and the directory.
Freevm(s) ==
    Cardinality(Comes(s, KERNBASE, 0)) + Cardinality(s.tabs) + KernTables + 1

\* setupkvm() takes a directory and the kernel's page tables.  When there are
\* too few pages it returns 0 and frees none of those it took.
KvmPages == 1 + KernTables
NewDir == CHOOSE d \in Dirs : dirs[d].live = 0
Kvm == [NoSpace EXCEPT !.live = 1]

Running(p) == \E c \in CPUs : on[c] = p
CpuOf(p) == CHOOSE c \in CPUs : on[c] = p
\* A process goes on in user space only while its text is mapped: otherwise it
\* faults and trap() makes it exit.
InUser(p) == Running(p) /\ pc[p] = "user"
HasText(p) == dirs[pgdir[p]].pte[0] = "user"

Return(p) == pc' = [pc EXCEPT ![p] = "user"] /\ loc' = [loc EXCEPT ![p] = NoLocals]

-----------------------------------------------------------------------------
\* kinit1(), kinit2() and userinit(): the kernel's own page table is not counted
\* in Memory; process 1 runs initcode in one page.
Init ==
    /\ total \in Memory
    /\ free = total - (4 + KernTables)
    /\ dirs = [d \in Dirs |-> IF d = 1 THEN Mappages(Kvm, 0, "user") ELSE NoSpace]
    /\ state = [p \in Procs |-> IF p = initproc THEN "RUNNABLE" ELSE "UNUSED"]
    /\ kstack = [p \in Procs |-> IF p = initproc THEN 1 ELSE 0]
    /\ pgdir = [p \in Procs |-> IF p = initproc THEN 1 ELSE 0]
    /\ sz = [p \in Procs |-> IF p = initproc THEN PGSIZE ELSE 0]
    /\ parent = [p \in Procs |-> 0] /\ sigretAdd = [p \in Procs |-> 0]
    /\ pc = [p \in Procs |-> "user"] /\ loc = [p \in Procs |-> NoLocals]
    /\ on = [c \in CPUs |-> 0] /\ cr3 = [c \in CPUs |-> 0]
    /\ lost = 0 /\ panic = 0

-----------------------------------------------------------------------------
(* allocuvm(dir, old, new), which returns to ret.  Its loop takes a step per *)
(* page.                                                                     *)

CallAlloc(p, l, ret, old, new) ==
    /\ pc' = [pc EXCEPT ![p] = "alloc"]
    /\ loc' = [loc EXCEPT ![p] = [l EXCEPT
         !.ret = ret, !.old = old, !.a = PageUp(old),
         !.new = IF new < KERNBASE /\ new < old THEN old ELSE new]]

AllocRuns(p) == loc[p].new < KERNBASE /\ loc[p].a * PGSIZE < loc[p].new
AllocReturns(p, ret) ==
    /\ Running(p) /\ pc[p] = "alloc" /\ loc[p].ret = ret
    /\ loc[p].new < KERNBASE /\ loc[p].a * PGSIZE >= loc[p].new

AllocPage(p) ==
    LET l == loc[p]
        s == dirs[l.dir]
    IN  /\ Running(p) /\ pc[p] = "alloc" /\ AllocRuns(p)
        /\ free >= Need(s, l.a)
        /\ free' = free - Need(s, l.a)
        /\ dirs' = [dirs EXCEPT ![l.dir] = Mappages(s, l.a, "user")]
        /\ loc' = [loc EXCEPT ![p] = [l EXCEPT !.a = l.a + 1]]
        /\ panic' = IF Remap(s, l.a) THEN 1 ELSE panic
        /\ UNCHANGED <<procVars, pc, on, cr3, total, lost>>

\* No page for the memory or for its page table (the memory is freed then), or
\* the size reaches KERNBASE: growproc() returns -1 and exec() goes to bad.
AllocFails(p) ==
    LET l == loc[p]
        s == dirs[l.dir]
        t == IF l.new >= KERNBASE THEN s ELSE Deallocuvm(s, l.new, l.old)
        back == Cardinality(Mapped(s)) - Cardinality(Mapped(t))
    IN  /\ Running(p) /\ pc[p] = "alloc"
        /\ l.new >= KERNBASE \/ (AllocRuns(p) /\ free < Need(s, l.a))
        /\ IF l.ret = "grow"
           THEN free' = free + back /\ dirs' = [dirs EXCEPT ![l.dir] = t]
           ELSE free' = free + back + Freevm(t) /\ dirs' = [dirs EXCEPT ![l.dir] = NoSpace]
        /\ Return(p)
        /\ UNCHANGED <<procVars, on, cr3, total, lost, panic>>

-----------------------------------------------------------------------------
(* sbrk(): growproc().                                                       *)

Grow(p, n) ==
    /\ InUser(p) /\ HasText(p) /\ p # initproc /\ n > 0
    /\ CallAlloc(p, [NoLocals EXCEPT !.dir = pgdir[p]], "grow", sz[p], sz[p] + n)
    /\ UNCHANGED <<free, dirs, procVars, on, cr3, total, lost, panic>>

GrowDone(p) ==
    /\ AllocReturns(p, "grow")
    /\ sz' = [sz EXCEPT ![p] = loc[p].new]
    /\ cr3' = [cr3 EXCEPT ![CpuOf(p)] = pgdir[p]]
    /\ Return(p)
    /\ UNCHANGED <<free, dirs, state, kstack, pgdir, parent, sigretAdd, on, total, lost, panic>>

\* A size of 0 is taken for a failure: the pages are gone and sz stays.
Shrink(p, n) ==
    LET s == dirs[pgdir[p]]
        newsz == (sz[p] + n) % Wrap
        t == IF newsz >= sz[p] THEN s ELSE Deallocuvm(s, sz[p], newsz)
    IN  /\ InUser(p) /\ HasText(p) /\ p # initproc /\ n < 0
        /\ dirs' = [dirs EXCEPT ![pgdir[p]] = t]
        /\ free' = free + Cardinality(Mapped(s)) - Cardinality(Mapped(t))
        /\ sz' = [sz EXCEPT ![p] = IF newsz \in 1 .. @ THEN newsz ELSE @]
        /\ cr3' = [cr3 EXCEPT ![CpuOf(p)] = pgdir[p]]
        /\ UNCHANGED <<state, kstack, pgdir, parent, sigretAdd, pc, loc, on, total, lost, panic>>

-----------------------------------------------------------------------------
(* exec().                                                                   *)

\* initcode execs init, which never execs again.
Exec(p, prog) ==
    /\ InUser(p) /\ HasText(p) /\ (p = initproc => sigretAdd[p] = 0)
    /\ IF free >= KvmPages
       THEN /\ free' = free - KvmPages /\ lost' = lost
            /\ dirs' = [dirs EXCEPT ![NewDir] = Kvm]
            /\ pc' = [pc EXCEPT ![p] = "load"]
            /\ loc' = [loc EXCEPT ![p] = [NoLocals EXCEPT !.dir = NewDir, !.prog = prog]]
       ELSE free' = 0 /\ lost' = lost + free /\ UNCHANGED <<dirs, pc, loc>>
    /\ UNCHANGED <<procVars, on, cr3, total, panic>>

\* Mutant: the pages of the abandoned image are not freed.
ExecBadLeaks(p) ==
    /\ free' = free
    /\ dirs' = [dirs EXCEPT ![loc[p].dir] = NoSpace]
    /\ Return(p)

\* bad: the new image is abandoned.
ExecBad(p) ==
    /\ free' = free + Freevm(dirs[loc[p].dir])
    /\ dirs' = [dirs EXCEPT ![loc[p].dir] = NoSpace]
    /\ Return(p)

\* The head of the loop: the next program header, or the stack after the last.
\* loc.new is exec()'s sz.
LoadHeader(p) ==
    LET l == loc[p]
        ph == Head(l.prog)
        top == (ph.vaddr + ph.memsz) % Wrap
        base == PageUp(l.new) * PGSIZE
    IN  /\ Running(p) /\ pc[p] = "load"
        /\ IF l.prog = << >>
           THEN CallAlloc(p, l, "stack", base, base + 2 * PGSIZE) /\ UNCHANGED <<free, dirs>>
           ELSE IF ph.memsz < ph.filesz \/ top < ph.vaddr THEN ExecBad(p)
           ELSE CallAlloc(p, l, "load", l.new, top) /\ UNCHANGED <<free, dirs>>
        /\ UNCHANGED <<procVars, on, cr3, total, lost, panic>>

\* A short read in loaduvm(), a segment off a page boundary or an empty image
\* is bad; loaduvm() panics at an address that has no page table.
LoadSegment(p) ==
    LET l == loc[p]
        ph == Head(l.prog)
        tables == {Table(v) : v \in PageUp(ph.vaddr) .. PageUp(ph.vaddr + ph.filesz) - 1}
        aligned == l.new # 0 /\ ph.vaddr % PGSIZE = 0
    IN  /\ AllocReturns(p, "load")
        /\ IF aligned /\ ph.whole = 1
           THEN /\ pc' = [pc EXCEPT ![p] = "load"]
                /\ loc' = [loc EXCEPT ![p] = [l EXCEPT !.prog = Tail(l.prog)]]
                /\ UNCHANGED <<free, dirs>>
           ELSE ExecBad(p)
        /\ panic' = IF aligned /\ ~ tables \subseteq dirs[l.dir].tabs THEN 1 ELSE panic
        /\ UNCHANGED <<procVars, on, cr3, total, lost>>

\* The guard page stays mapped, and is no longer the user's.
Clearpteu(s, v) == [s EXCEPT !.pte = [s.pte EXCEPT ![v] = "guard"]]

\* clearpteu() of the page below the stack, sigretimplicit copied to the top of
\* the stack, and its address stored in the process.
StackReady(p) ==
    LET l == loc[p]
        sp == l.new - RetFuncSize
        guard == (l.new - 2 * PGSIZE) \div PGSIZE
    IN  /\ AllocReturns(p, "stack")
        /\ dirs' = [dirs EXCEPT ![l.dir] = Clearpteu(dirs[l.dir], guard)]
        /\ sigretAdd' = [sigretAdd EXCEPT ![p] = sp]
        /\ pc' = [pc EXCEPT ![p] = "args"]
        /\ panic' = IF Table(guard) \notin dirs[l.dir].tabs THEN 1 ELSE panic
        /\ UNCHANGED <<free, state, kstack, pgdir, sz, parent, loc, on, cr3, total, lost>>

\* copyout() of args bytes below sigretimplicit stays within the stack page: the
\* next page down is the guard page, which uva2ka() refuses.
Copyout(args) == args <= PGSIZE - RetFuncSize

\* Mutant: the old image is freed before the new one is loaded.
PushArgsFrees(p, args) ==
    LET l == loc[p]
    IN  /\ Running(p) /\ pc[p] = "args"
        /\ IF ~Copyout(args)
           THEN ExecBad(p) /\ UNCHANGED <<pgdir, sz>>
           ELSE /\ pgdir' = [pgdir EXCEPT ![p] = l.dir]
                /\ sz' = [sz EXCEPT ![p] = l.new]
                /\ loc' = [loc EXCEPT ![p] = [NoLocals EXCEPT !.dir = pgdir[p]]]
                /\ pc' = [pc EXCEPT ![p] = "freeold"]
                /\ UNCHANGED <<free, dirs>>
        /\ UNCHANGED <<state, kstack, parent, sigretAdd, on, cr3, total, lost, panic>>

\* The arguments do not fit and exec() goes to bad, or the new image is committed
\* to; loc.dir is oldpgdir from here on.
PushArgs(p, args) ==
    LET l == loc[p]
    IN  /\ Running(p) /\ pc[p] = "args"
        /\ IF ~Copyout(args)
           THEN ExecBad(p) /\ UNCHANGED <<pgdir, sz>>
           ELSE /\ pgdir' = [pgdir EXCEPT ![p] = l.dir]
                /\ sz' = [sz EXCEPT ![p] = l.new]
                /\ loc' = [loc EXCEPT ![p] = [NoLocals EXCEPT !.dir = pgdir[p]]]
                /\ pc' = [pc EXCEPT ![p] = "switch"]
                /\ UNCHANGED <<free, dirs>>
        /\ UNCHANGED <<state, kstack, parent, sigretAdd, on, cr3, total, lost, panic>>

Switchuvm(p) ==
    /\ Running(p) /\ pc[p] = "switch"
    /\ cr3' = [cr3 EXCEPT ![CpuOf(p)] = pgdir[p]]
    /\ pc' = [pc EXCEPT ![p] = "freeold"]
    /\ UNCHANGED <<free, dirs, procVars, loc, on, total, lost, panic>>

FreeOld(p) ==
    /\ Running(p) /\ pc[p] = "freeold"
    /\ ExecBad(p)
    /\ UNCHANGED <<procVars, on, cr3, total, lost, panic>>

-----------------------------------------------------------------------------
(* fork(): allocproc() takes a kernel stack, copyuvm() a directory and then  *)
(* a page per page of the parent.                                            *)

Fork(p, np) ==
    /\ InUser(p) /\ HasText(p) /\ state[np] = "UNUSED" /\ free > 0
    /\ IF free >= 1 + KvmPages
       THEN /\ free' = free - (1 + KvmPages) /\ lost' = lost
            /\ dirs' = [dirs EXCEPT ![NewDir] = Kvm]
            /\ state' = [state EXCEPT ![np] = "EMBRYO"]
            /\ kstack' = [kstack EXCEPT ![np] = 1]
            /\ pgdir' = pgdir
            /\ pc' = [pc EXCEPT ![p] = "copy"]
            /\ loc' = [loc EXCEPT ![p] = [NoLocals EXCEPT !.dir = NewDir, !.np = np]]
       ELSE /\ free' = 1 /\ lost' = lost + free - 1
            /\ pgdir' = [pgdir EXCEPT ![np] = 0]
            /\ UNCHANGED <<dirs, state, kstack, pc, loc>>
    /\ UNCHANGED <<sz, parent, sigretAdd, on, cr3, total, panic>>

\* A page whose page table cannot be had is lost: copyuvm() frees only what
\* the new directory maps.
CopyPage(p) ==
    LET l == loc[p]
        s == dirs[pgdir[p]]
        t == dirs[l.dir]
    IN  /\ Running(p) /\ pc[p] = "copy" /\ l.a * PGSIZE < sz[p]
        /\ panic' = IF s.pte[l.a] = "none" \/ Remap(t, l.a) THEN 1 ELSE panic
        /\ IF free >= Need(t, l.a)
           THEN /\ free' = free - Need(t, l.a) /\ lost' = lost
                /\ dirs' = [dirs EXCEPT ![l.dir] = Mappages(t, l.a, s.pte[l.a])]
                /\ loc' = [loc EXCEPT ![p] = [l EXCEPT !.a = l.a + 1]]
                /\ UNCHANGED <<pc, state, kstack, pgdir>>
           ELSE /\ free' = Freevm(t) + 1
                /\ lost' = lost + free
                /\ dirs' = [dirs EXCEPT ![l.dir] = NoSpace]
                /\ state' = [state EXCEPT ![l.np] = "UNUSED"]
                /\ kstack' = [kstack EXCEPT ![l.np] = 0]
                /\ pgdir' = [pgdir EXCEPT ![l.np] = 0]
                /\ Return(p)
        /\ UNCHANGED <<sz, parent, sigretAdd, on, cr3, total>>

\* The child gets the parent's size; sigretAdd keeps what the slot held.
ForkDone(p) ==
    LET np == loc[p].np
        d == loc[p].dir
    IN  /\ Running(p) /\ pc[p] = "copy" /\ loc[p].a * PGSIZE >= sz[p]
        /\ pgdir' = [pgdir EXCEPT ![np] = d]
        /\ sz' = [sz EXCEPT ![np] = sz[p]]
        /\ parent' = [parent EXCEPT ![np] = p]
        /\ state' = [state EXCEPT ![np] = "RUNNABLE"]
        /\ Return(p)
        /\ UNCHANGED <<free, dirs, kstack, sigretAdd, on, cr3, total, lost, panic>>

-----------------------------------------------------------------------------
\* exit(): the scheduler has switched to its own page table before it lets go
\* of ptable.lock.
Exit(p) ==
    /\ InUser(p) /\ p # initproc
    /\ state' = [state EXCEPT ![p] = "ZOMBIE"]
    /\ parent' = [q \in Procs |-> IF parent[q] = p THEN initproc ELSE parent[q]]
    /\ on' = [on EXCEPT ![CpuOf(p)] = 0] /\ cr3' = [cr3 EXCEPT ![CpuOf(p)] = 0]
    /\ UNCHANGED <<free, dirs, kstack, pgdir, sz, sigretAdd, pc, loc, total, lost, panic>>

\* wait() when it finds a zombie: its kernel stack and address space are freed.
Wait(p, q) ==
    /\ InUser(p) /\ HasText(p) /\ state[q] = "ZOMBIE" /\ parent[q] = p
    /\ free' = free + 1 + Freevm(dirs[pgdir[q]])
    /\ dirs' = [dirs EXCEPT ![pgdir[q]] = NoSpace]
    /\ kstack' = [kstack EXCEPT ![q] = 0]
    /\ parent' = [parent EXCEPT ![q] = 0]
    /\ state' = [state EXCEPT ![q] = "UNUSED"]
    /\ UNCHANGED <<pgdir, sz, sigretAdd, pc, loc, on, cr3, total, lost, panic>>

\* scheduler(): switchuvm() of a RUNNABLE process, and switchkvm() when it
\* yields.
Dispatch(c, p) ==
    /\ on[c] = 0 /\ state[p] = "RUNNABLE"
    /\ state' = [state EXCEPT ![p] = "RUNNING"]
    /\ on' = [on EXCEPT ![c] = p] /\ cr3' = [cr3 EXCEPT ![c] = pgdir[p]]
    /\ UNCHANGED <<free, dirs, kstack, pgdir, sz, parent, sigretAdd, pc, loc, total, lost, panic>>

Yield(c) ==
    /\ on[c] # 0
    /\ state' = [state EXCEPT ![on[c]] = "RUNNABLE"]
    /\ on' = [on EXCEPT ![c] = 0] /\ cr3' = [cr3 EXCEPT ![c] = 0]
    /\ UNCHANGED <<free, dirs, kstack, pgdir, sz, parent, sigretAdd, pc, loc, total, lost, panic>>

Next ==
    \/ \E p \in Procs :
          \/ AllocPage(p) \/ AllocFails(p) \/ GrowDone(p)
          \/ \E n \in Grows : Grow(p, n) \/ Shrink(p, n)
          \/ \E prog \in Programs : Exec(p, prog)
          \/ LoadHeader(p) \/ LoadSegment(p) \/ StackReady(p)
          \/ \E args \in ArgSizes : PushArgs(p, args)
          \/ Switchuvm(p) \/ FreeOld(p)
          \/ \E np \in Procs : Fork(p, np)
          \/ CopyPage(p) \/ ForkDone(p) \/ Exit(p)
          \/ \E q \in Procs : Wait(p, q)
    \/ \E c \in CPUs : Yield(c) \/ \E p \in Procs : Dispatch(c, p)

Spec == Init /\ [][Next]_vars

-----------------------------------------------------------------------------
\* The pages something holds: kernel stacks, directories with the kernel's page
\* tables, user page tables, user pages.
Held ==
    LET live == {d \in Dirs : dirs[d].live = 1}
    IN  {<<"kstack", p, 0>> : p \in {q \in Procs : kstack[q] = 1}}
        \cup {<<"kvm", d, k>> : d \in live, k \in 0 .. KernTables}
        \cup {<<"table", x[1], x[2]>> : x \in {y \in live \X Tables : y[2] \in dirs[y[1]].tabs}}
        \cup {<<"page", x[1], x[2]>> :
                x \in {y \in live \X UserPages : dirs[y[1]].pte[y[2]] # "none"}}

\* Whatever kalloc() fails in exec(), fork() or sbrk(), no page is freed twice
\* and none is lost except the ones setupkvm() and copyuvm() drop when they fail.
PagesConserved == free + Cardinality(Held) + lost = total

\* The pages of a process that is not growing are exactly those below sz, as
\* copyuvm(), argptr() and loaduvm() assume, and none of the panics of
\* mappages(), copyuvm(), loaduvm() and clearpteu() is reached.  A process that
\* gave up its text by sbrk() no longer runs.
SizeMapped ==
    /\ panic = 0
    /\ \A p \in Procs :
         state[p] \in {"RUNNABLE", "RUNNING"} /\ HasText(p) /\ loc[p].ret # "grow"
         => Mapped(dirs[pgdir[p]]) = {v \in UserPages : v * PGSIZE < sz[p]}

\* The page table a CPU has loaded has not been freed, and is its process's
\* own: exec() may have replaced the process's page table and still run on the
\* old one, wait() may be freeing a zombie on another CPU.
LoadedTableLives ==
    \A c \in CPUs :
        IF on[c] = 0 THEN cr3[c] = 0
        ELSE /\ dirs[cr3[c]].live = 1
             /\ cr3[c] = pgdir[on[c]] \/ (pc[on[c]] = "switch" /\ cr3[c] = loc[on[c]].dir)
             /\ \A p \in Procs : state[p] \notin {"UNUSED", "EMBRYO"} /\ p # on[c] => pgdir[p] # cr3[c]
=============================================================================
