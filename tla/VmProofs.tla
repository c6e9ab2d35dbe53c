------------------------------ MODULE VmProofs ------------------------------
(* Address spaces: for any number of processes and CPUs, any memory and any  *)
(* programs, the page table a CPU has loaded is its process's own and has    *)
(* not been freed.                                                           *)
(*                                                                           *)
(* It rests on who owns which page directory: a process that exists owns     *)
(* its pgdir, a call of exec() or fork() in progress owns the one it builds  *)
(* or is about to free, no directory has two owners and none lives without.  *)
EXTENDS Vm, FiniteSetTheorems, TLAPS

States == {"UNUSED", "EMBRYO", "RUNNABLE", "RUNNING", "ZOMBIE"}
Places == {"user", "alloc", "load", "args", "switch", "freeold", "copy"}

IsSpace(s) == s = [live |-> s.live, tabs |-> s.tabs, pte |-> s.pte]
IsLocals(l) ==
    l = [dir |-> l.dir, prog |-> l.prog, old |-> l.old, new |-> l.new, a |-> l.a,
         ret |-> l.ret, np |-> l.np]

TypeOK ==
    /\ dirs = [d \in Dirs |-> dirs[d]]
    /\ \A d \in Dirs : IsSpace(dirs[d]) /\ dirs[d].live \in {0, 1}
    /\ state \in [Procs -> States]
    /\ pgdir \in [Procs -> Dirs \cup {0}]
    /\ pc \in [Procs -> Places]
    /\ loc = [p \in Procs |-> loc[p]] /\ \A p \in Procs : IsLocals(loc[p])
    /\ on \in [CPUs -> Procs \cup {0}]
    /\ cr3 \in [CPUs -> Dirs \cup {0}]
    /\ sigretAdd = [p \in Procs |-> sigretAdd[p]]

\* p owns pgdir[p], or the directory of its call.
Alive(p) == state[p] \in {"RUNNABLE", "RUNNING", "ZOMBIE"}
Growing(p) == pc[p] = "alloc" /\ loc[p].ret = "grow"
Working(p) == pc[p] # "user" /\ ~Growing(p)

OwnedLive ==
    \A p \in Procs :
        /\ Alive(p) => pgdir[p] \in Dirs /\ dirs[pgdir[p]].live = 1
        /\ Working(p) => loc[p].dir \in Dirs /\ dirs[loc[p].dir].live = 1

OneOwner ==
    \A p, q \in Procs :
        /\ Alive(p) /\ Alive(q) /\ pgdir[p] = pgdir[q] => p = q
        /\ Working(p) /\ Working(q) /\ loc[p].dir = loc[q].dir => p = q
        /\ Working(p) /\ Alive(q) => loc[p].dir # pgdir[q]

LiveOwned ==
    \A d \in Dirs : dirs[d].live = 1 =>
        \E p \in Procs : (Alive(p) /\ pgdir[p] = d) \/ (Working(p) /\ loc[p].dir = d)

\* Only a process that exists is in a call; sbrk() works on its own pages, and
\* fork() on a slot that nobody else uses.
Busy ==
    /\ \A p \in Procs : pc[p] # "user" => state[p] \in {"RUNNABLE", "RUNNING"}
    /\ \A p \in Procs : Growing(p) => loc[p].dir = pgdir[p]
    /\ \A p \in Procs : pc[p] = "copy" => loc[p].np \in Procs /\ state[loc[p].np] = "EMBRYO"
    /\ \A p, q \in Procs : pc[p] = "copy" /\ pc[q] = "copy" /\ loc[p].np = loc[q].np => p = q

OnCpus ==
    /\ \A c \in CPUs : on[c] = 0 => cr3[c] = 0
    /\ \A c \in CPUs : on[c] # 0 =>
            /\ state[on[c]] = "RUNNING"
            /\ cr3[c] = pgdir[on[c]] \/ (pc[on[c]] = "switch" /\ cr3[c] = loc[on[c]].dir)
    /\ \A c, e \in CPUs : on[c] = on[e] /\ on[c] # 0 => c = e

Inv == TypeOK /\ OwnedLive /\ OneOwner /\ LiveOwned /\ Busy /\ OnCpus

-----------------------------------------------------------------------------
(* Spaces and locals *)

\* Mapping, unmapping and protecting pages leaves a directory in place.
LEMMA SpacesKept ==
    ASSUME NEW s, IsSpace(s)
    PROVE  /\ \A v, perm : LET t == Mappages(s, v, perm)
                           IN  IsSpace(t) /\ t.live = s.live
           /\ \A o, n : LET t == Deallocuvm(s, o, n)
                        IN  IsSpace(t) /\ t.live = s.live
           /\ \A v : LET t == Clearpteu(s, v)
                     IN  IsSpace(t) /\ t.live = s.live
<1>1. ASSUME NEW v, NEW perm
      PROVE  LET t == Mappages(s, v, perm) IN IsSpace(t) /\ t.live = s.live
  <2>. DEFINE x == s.tabs \cup {Table(v)}
  <2>. DEFINE y == [s.pte EXCEPT ![v] = perm]
  <2>1. Mappages(s, v, perm) = [s EXCEPT !.tabs = x, !.pte = y]
    BY DEF Mappages
  <2>. HIDE DEF x, y
  <2>. QED
    BY Zenon, <2>1 DEF IsSpace
<1>2. ASSUME NEW o, NEW n
      PROVE  LET t == Deallocuvm(s, o, n) IN IsSpace(t) /\ t.live = s.live
  BY DEF IsSpace, Deallocuvm
<1>3. ASSUME NEW v
      PROVE  LET t == Clearpteu(s, v) IN IsSpace(t) /\ t.live = s.live
  <2>. DEFINE y == [s.pte EXCEPT ![v] = "guard"]
  <2>1. Clearpteu(s, v) = [s EXCEPT !.pte = y]
    BY DEF Clearpteu
  <2>. HIDE DEF y
  <2>. QED
    BY <2>1 DEF IsSpace
<1>. QED
  BY <1>1, <1>2, <1>3

\* The empty space and the one setupkvm() returns are well formed.
LEMMA NewSpaces ==
    /\ IsSpace(NoSpace) /\ NoSpace.live = 0
    /\ IsSpace(Kvm) /\ Kvm.live = 1
  BY DEF IsSpace, NoSpace, Kvm

\* Process slots and page directories are numbers other than 0.
LEMMA DirsAreNumbers ==
    /\ NPROC \in Nat \ {0} /\ Procs \subseteq Nat /\ Dirs \subseteq Nat
    /\ 0 \notin Procs /\ 0 \notin Dirs /\ initproc \in Procs /\ 1 \in Dirs
  BY VmAssumption DEF Procs, Dirs, initproc

-----------------------------------------------------------------------------
(* Who owns which directory *)

\* The owners and what they own stay.
LEMMA OwnersKept ==
    ASSUME OwnedLive, OneOwner, LiveOwned,
           \A q \in Procs : /\ Alive(q)' <=> Alive(q)
                            /\ Alive(q) => pgdir'[q] = pgdir[q]
                            /\ Working(q)' <=> Working(q)
                            /\ Working(q) => loc'[q].dir = loc[q].dir,
           \A d \in Dirs : dirs'[d].live = dirs[d].live
    PROVE  OwnedLive' /\ OneOwner' /\ LiveOwned'
<1>1. OwnedLive'
  BY DEF OwnedLive
<1>2. OneOwner'
  BY DEF OneOwner
<1>3. LiveOwned'
  <2>. SUFFICES ASSUME NEW d \in Dirs, dirs[d].live = 1
                PROVE  \E q \in Procs : \/ Alive(q)' /\ pgdir'[q] = d
                                        \/ Working(q)' /\ loc'[q].dir = d
    BY DEF LiveOwned
  <2>. QED
    BY DEF LiveOwned
<1>. QED
  BY <1>1, <1>2, <1>3

\* p gives up the directory of its call, which is freed.
LEMMA OwnerFrees ==
    ASSUME OwnedLive, OneOwner, LiveOwned, NEW p \in Procs, Working(p), ~Working(p)',
           \A q \in Procs : /\ Alive(q)' <=> Alive(q)
                            /\ Alive(q) => pgdir'[q] = pgdir[q],
           \A q \in Procs : q # p => /\ Working(q)' <=> Working(q)
                                     /\ Working(q) => loc'[q].dir = loc[q].dir,
           NEW f \in Dirs, f = loc[p].dir,
           \A d \in Dirs : dirs'[d].live = IF d = f THEN 0 ELSE dirs[d].live
    PROVE  OwnedLive' /\ OneOwner' /\ LiveOwned'
<1>1. OwnedLive'
  <2>1. ASSUME NEW q \in Procs, Alive(q) PROVE pgdir[q] \in Dirs /\ dirs'[pgdir[q]].live = 1
    <3>1. pgdir[q] # f
      BY <2>1 DEF OneOwner
    <3>. QED
      BY <2>1, <3>1 DEF OwnedLive
  <2>2. ASSUME NEW q \in Procs, q # p, Working(q) PROVE loc[q].dir \in Dirs /\ dirs'[loc[q].dir].live = 1
    <3>1. loc[q].dir # f
      BY <2>2 DEF OneOwner
    <3>. QED
      BY <2>2, <3>1 DEF OwnedLive
  <2>. QED
    BY <2>1, <2>2 DEF OwnedLive
<1>2. OneOwner'
  BY DEF OneOwner
<1>3. LiveOwned'
  <2>. SUFFICES ASSUME NEW d \in Dirs, dirs[d].live = 1, d # f
                PROVE  \E q \in Procs : \/ Alive(q)' /\ pgdir'[q] = d
                                        \/ Working(q)' /\ loc'[q].dir = d
    BY DEF LiveOwned
  <2>1. PICK q \in Procs : (Alive(q) /\ pgdir[q] = d) \/ (Working(q) /\ loc[q].dir = d)
    BY DEF LiveOwned
  <2>. QED
    BY <2>1
<1>. QED
  BY <1>1, <1>2, <1>3

\* p takes a new directory.
LEMMA OwnerTakes ==
    ASSUME OwnedLive, OneOwner, LiveOwned, NEW p \in Procs, ~Working(p),
           \A q \in Procs : /\ Alive(q)' <=> Alive(q)
                            /\ Alive(q) => pgdir'[q] = pgdir[q],
           \A q \in Procs : q # p => /\ Working(q)' <=> Working(q)
                                     /\ Working(q) => loc'[q].dir = loc[q].dir,
           NEW f \in Dirs, Working(p)', loc'[p].dir = f, dirs[f].live = 0,
           \A d \in Dirs : dirs'[d].live = IF d = f THEN 1 ELSE dirs[d].live
    PROVE  OwnedLive' /\ OneOwner' /\ LiveOwned'
<1>0. /\ \A q \in Procs : Alive(q) => pgdir[q] # f
      /\ \A q \in Procs : Working(q) => loc[q].dir # f
  BY DEF OwnedLive
<1>1. OwnedLive'
  BY DEF OwnedLive
<1>2. OneOwner'
  BY <1>0 DEF OneOwner
<1>3. LiveOwned'
  <2>. SUFFICES ASSUME NEW d \in Dirs, dirs[d].live = 1 \/ d = f
                PROVE  \E q \in Procs : \/ Alive(q)' /\ pgdir'[q] = d
                                        \/ Working(q)' /\ loc'[q].dir = d
    BY DEF LiveOwned
  <2>1. CASE d # f
    <3>1. PICK q \in Procs : (Alive(q) /\ pgdir[q] = d) \/ (Working(q) /\ loc[q].dir = d)
      BY <2>1 DEF LiveOwned
    <3>. QED
      BY <3>1
  <2>. QED
    BY <2>1
<1>. QED
  BY <1>1, <1>2, <1>3

\* While a process is in no call there is a directory left for it: 2 * NPROC of
\* them are enough.
LEMMA DirectoryLeft ==
    ASSUME TypeOK, OneOwner, LiveOwned, NEW p \in Procs, pc[p] = "user"
    PROVE  NewDir \in Dirs /\ dirs[NewDir].live = 0
<1>1. \E d \in Dirs : dirs[d].live = 0
  <2>. SUFFICES ASSUME \A d \in Dirs : dirs[d].live = 1 PROVE FALSE
    BY DEF TypeOK
  <2>. DEFINE own(d) == CHOOSE q \in Procs : (Alive(q) /\ pgdir[q] = d) \/ (Working(q) /\ loc[q].dir = d)
  <2>. DEFINE num(d) == IF Alive(own(d)) /\ pgdir[own(d)] = d THEN own(d) ELSE own(d) + NPROC
  <2>1. \A d \in Dirs : /\ own(d) \in Procs
                        /\ \/ Alive(own(d)) /\ pgdir[own(d)] = d
                           \/ Working(own(d)) /\ loc[own(d)].dir = d
    BY DEF LiveOwned
  <2>. HIDE DEF own
  <2>2. \A d \in Dirs : num(d) \in Dirs \ {p + NPROC}
    <3>. TAKE d \in Dirs
    <3>1. ~Working(p) /\ own(d) \in 1 .. NPROC /\ p \in 1 .. NPROC /\ NPROC \in Nat
      BY <2>1, VmAssumption DEF Working, Procs
    <3>2. CASE Alive(own(d)) /\ pgdir[own(d)] = d
      BY <3>1, <3>2 DEF Dirs
    <3>3. CASE ~(Alive(own(d)) /\ pgdir[own(d)] = d)
      <4>1. own(d) # p
        BY <2>1, <3>1, <3>3
      <4>. QED
        BY <3>1, <3>3, <4>1 DEF Dirs
    <3>. QED
      BY <3>2, <3>3
  <2>3. \A d, e \in Dirs : num(d) = num(e) => d = e
    <3>. SUFFICES ASSUME NEW d \in Dirs, NEW e \in Dirs, num(d) = num(e) PROVE d = e
      OBVIOUS
    <3>1. own(d) \in 1 .. NPROC /\ own(e) \in 1 .. NPROC /\ NPROC \in Nat
      BY <2>1, VmAssumption DEF Procs
    <3>2. own(d) = own(e) /\ ((Alive(own(d)) /\ pgdir[own(d)] = d) <=> (Alive(own(e)) /\ pgdir[own(e)] = e))
      BY <3>1
    <3>. QED
      BY <2>1, <3>2
  <2>. HIDE DEF num
  <2>. DEFINE f == [d \in Dirs |-> num(d)]
  <2>4. IsFiniteSet(Dirs) /\ Cardinality(Dirs) \in Nat
    <3>1. 1 \in Int /\ 2 * NPROC \in Int
      BY VmAssumption
    <3>2. IsFiniteSet(1 .. 2 * NPROC)
      BY <3>1, FS_Interval
    <3>. QED
      BY <3>2, FS_CardinalityType DEF Dirs
  <2>5. p + NPROC \in Dirs
    <3>1. p \in 1 .. NPROC /\ NPROC \in Nat
      BY VmAssumption DEF Procs
    <3>. QED
      BY <3>1 DEF Dirs
  <2>. DEFINE x == p + NPROC
  <2>6. f \in [Dirs -> Dirs \ {x}] /\ x \in Dirs
    BY <2>2, <2>5
  <2>. HIDE DEF f, x
  <2>7. IsFiniteSet(Dirs \ {x}) /\ Cardinality(Dirs \ {x}) = Cardinality(Dirs) - 1
    BY Zenon, <2>4, <2>6, FS_RemoveElement
  <2>8. Cardinality(Dirs \ {x}) < Cardinality(Dirs)
    BY <2>4, <2>7
  <2>9. \E d, e \in Dirs : d # e /\ f[d] = f[e]
    BY <2>4, <2>6, <2>7, <2>8, FS_PigeonHole
  <2>. QED
    BY <2>3, <2>9 DEF f
<1>. QED
  BY <1>1 DEF NewDir

-----------------------------------------------------------------------------
(* Steps of a call *)

\* Storing a well-formed space in one directory keeps dirs typed.
LEMMA DirsTyped ==
    ASSUME TypeOK, NEW f \in Dirs, NEW s, IsSpace(s), s.live \in {0, 1},
           dirs' = [dirs EXCEPT ![f] = s]
    PROVE  /\ dirs' = [d \in Dirs |-> dirs'[d]]
           /\ \A d \in Dirs : IsSpace(dirs'[d]) /\ dirs'[d].live \in {0, 1}
           /\ \A d \in Dirs : dirs'[d] = IF d = f THEN s ELSE dirs[d]
<1>1. dirs = [d \in Dirs |-> dirs[d]]
  BY DEF TypeOK
<1>2. \A d \in Dirs : dirs'[d] = IF d = f THEN s ELSE dirs[d]
  BY <1>1
<1>3. dirs' = [d \in Dirs |-> dirs'[d]]
  BY <1>1
<1>. QED
  BY <1>2, <1>3 DEF TypeOK

\* Storing well-formed locals of one process keeps loc typed.
LEMMA LocTyped ==
    ASSUME TypeOK, NEW p \in Procs, NEW l, IsLocals(l), loc' = [loc EXCEPT ![p] = l]
    PROVE  /\ loc' = [q \in Procs |-> loc'[q]]
           /\ \A q \in Procs : IsLocals(loc'[q])
           /\ \A q \in Procs : loc'[q] = IF q = p THEN l ELSE loc[q]
<1>1. loc = [q \in Procs |-> loc[q]]
  BY DEF TypeOK
<1>2. \A q \in Procs : loc'[q] = IF q = p THEN l ELSE loc[q]
  BY <1>1
<1>3. loc' = [q \in Procs |-> loc'[q]]
  BY <1>1
<1>. QED
  BY <1>2, <1>3 DEF TypeOK

\* A running process is on one CPU, which CpuOf() names.
LEMMA RunsOnCpu ==
    ASSUME TypeOK, OnCpus, NEW p \in Procs, Running(p)
    PROVE  /\ CpuOf(p) \in CPUs /\ on[CpuOf(p)] = p /\ state[p] = "RUNNING"
           /\ \A c \in CPUs : on[c] = p => c = CpuOf(p)
<1>1. CpuOf(p) \in CPUs /\ on[CpuOf(p)] = p
  BY DEF Running, CpuOf
<1>. QED
  BY <1>1, DirsAreNumbers DEF OnCpus

\* Who is alive or in a call depends on these.
LEMMA RolesKept ==
    ASSUME NEW q, state'[q] = state[q], pc'[q] = pc[q], loc'[q] = loc[q]
    PROVE  /\ Alive(q)' <=> Alive(q)
           /\ Working(q)' <=> Working(q)
           /\ Growing(q)' <=> Growing(q)
  BY DEF Alive, Working, Growing

\* A call goes on with the directory it has.
LEMMA CallGoesOn ==
    ASSUME Inv, NEW p \in Procs, TypeOK',
           state' = state, pgdir' = pgdir, on' = on, sigretAdd' = sigretAdd,
           \A q \in Procs : q # p => pc'[q] = pc[q] /\ loc'[q] = loc[q],
           \A d \in Dirs : dirs'[d].live = dirs[d].live,
           Working(p)' <=> Working(p),
           Working(p) => loc'[p].dir = loc[p].dir,
           Growing(p)' => loc'[p].dir = pgdir[p],
           pc'[p] # "user" => state[p] \in {"RUNNABLE", "RUNNING"},
           pc'[p] = "copy" => pc[p] = "copy" /\ loc'[p].np = loc[p].np,
           pc[p] \notin {"switch", "args"}, pc'[p] # "args",
           \A c \in CPUs : cr3'[c] = cr3[c] \/ (on[c] = p /\ cr3'[c] = pgdir[p])
    PROVE  Inv'
<1>0. TypeOK /\ OwnedLive /\ OneOwner /\ LiveOwned /\ Busy /\ OnCpus
  BY Zenon DEF Inv
<1>1. \A q \in Procs : q # p => /\ Alive(q)' <=> Alive(q)
                                /\ Working(q)' <=> Working(q)
                                /\ Growing(q)' <=> Growing(q)
  BY Zenon, RolesKept
<1>2. \A q \in Procs : Alive(q)' <=> Alive(q)
  BY Zenon DEF Alive
<1>3. OwnedLive' /\ OneOwner' /\ LiveOwned'
  BY Zenon, <1>0, <1>1, <1>2, OwnersKept
<1>4. Busy'
  <2>1. \A q \in Procs : pc'[q] # "user" => state'[q] \in {"RUNNABLE", "RUNNING"}
    BY <1>0 DEF Busy
  <2>2. \A q \in Procs : Growing(q)' => loc'[q].dir = pgdir'[q]
    BY <1>0, <1>1 DEF Busy
  <2>3. \A q \in Procs : pc'[q] = "copy" => pc[q] = "copy" /\ loc'[q].np = loc[q].np
    OBVIOUS
  <2>. QED
    BY <1>0, <2>1, <2>2, <2>3 DEF Busy
<1>5. OnCpus'
  <2>1. \A c \in CPUs : on[c] = 0 => cr3'[c] = 0
    BY <1>0, DirsAreNumbers DEF OnCpus
  <2>2. ASSUME NEW c \in CPUs, on[c] # 0
        PROVE  /\ state[on[c]] = "RUNNING"
               /\ cr3'[c] = pgdir[on[c]] \/ (pc'[on[c]] = "switch" /\ cr3'[c] = loc'[on[c]].dir)
    <3>1. PICK r \in Procs : r = on[c]
      BY <1>0, <2>2 DEF TypeOK
    <3>2. /\ state[r] = "RUNNING"
          /\ cr3[c] = pgdir[r] \/ (pc[r] = "switch" /\ cr3[c] = loc[r].dir)
      BY Zenon, <1>0, <2>2, <3>1 DEF OnCpus
    <3>3. pc[r] = "switch" => pc'[r] = "switch" /\ loc'[r] = loc[r]
      BY Zenon
    <3>. QED
      BY Zenon, <3>1, <3>2, <3>3
  <2>. QED
    BY Zenon, <1>0, <2>1, <2>2 DEF OnCpus
<1>. QED
  BY Zenon, <1>3, <1>4, <1>5 DEF Inv

\* A call ends by freeing its directory.
LEMMA CallFrees ==
    ASSUME Inv, NEW p \in Procs, TypeOK', Working(p), pc[p] # "switch", pc'[p] = "user",
           on' = on, cr3' = cr3, sigretAdd' = sigretAdd,
           \A q \in Procs : /\ Alive(q)' <=> Alive(q)
                            /\ Alive(q) => pgdir'[q] = pgdir[q] /\ state'[q] = state[q],
           \A q \in Procs : q # p => pc'[q] = pc[q] /\ loc'[q] = loc[q],
           \A q \in Procs : q # p /\ pc[q] = "copy" => state'[loc[q].np] = "EMBRYO",
           dirs' = [dirs EXCEPT ![loc[p].dir] = NoSpace]
    PROVE  Inv'
<1>0. TypeOK /\ OwnedLive /\ OneOwner /\ LiveOwned /\ Busy /\ OnCpus
  BY DEF Inv
<1>f. PICK f \in Dirs : f = loc[p].dir
  BY <1>0 DEF OwnedLive
<1>1. \A q \in Procs : q # p => /\ Working(q)' <=> Working(q)
                                /\ Growing(q)' <=> Growing(q)
  BY DEF Working, Growing
<1>2. ~Working(p)' /\ ~Growing(p)'
  BY Zenon DEF Working, Growing
<1>3. \A d \in Dirs : dirs'[d] = IF d = f THEN NoSpace ELSE dirs[d]
  BY Zenon, <1>0, <1>f DEF TypeOK
<1>4. OwnedLive' /\ OneOwner' /\ LiveOwned'
  <2>1. \A d \in Dirs : dirs'[d].live = IF d = f THEN 0 ELSE dirs[d].live
    BY <1>3, NewSpaces
  <2>2. \A q \in Procs : q # p => /\ Working(q)' <=> Working(q)
                                  /\ Working(q) => loc'[q].dir = loc[q].dir
    BY Zenon, <1>1
  <2>. QED
    BY Zenon, <1>0, <1>f, <1>2, <2>1, <2>2, OwnerFrees
<1>5. Busy'
  <2>1. \A q \in Procs : pc'[q] # "user" => q # p /\ pc[q] = pc'[q]
    BY Zenon
  <2>2. \A q \in Procs : pc'[q] # "user" => Alive(q) /\ state'[q] \in {"RUNNABLE", "RUNNING"}
    BY SMTT(30), <1>0, <2>1 DEF Busy, Alive
  <2>3. \A q \in Procs : Growing(q)' => loc'[q].dir = pgdir'[q]
    <3>. SUFFICES ASSUME NEW q \in Procs, Growing(q)' PROVE loc'[q].dir = pgdir'[q]
      OBVIOUS
    <3>1. q # p /\ Growing(q)
      BY Zenon, <1>1, <1>2
    <3>2. Alive(q)
      BY Zenon, <1>0, <3>1 DEF Busy, Alive, Growing
    <3>. QED
      BY Zenon, <1>0, <3>1, <3>2 DEF Busy
  <2>4. \A q \in Procs : pc'[q] = "copy" => loc'[q].np \in Procs /\ state'[loc'[q].np] = "EMBRYO"
    BY <1>0, <2>1 DEF Busy
  <2>5. \A q, r \in Procs : pc'[q] = "copy" /\ pc'[r] = "copy" /\ loc'[q].np = loc'[r].np => q = r
    BY <1>0, <2>1 DEF Busy
  <2>. QED
    BY Zenon, <2>2, <2>3, <2>4, <2>5 DEF Busy
<1>6. OnCpus'
  <2>1. ASSUME NEW c \in CPUs, on[c] # 0
        PROVE  /\ state'[on[c]] = "RUNNING"
               /\ cr3[c] = pgdir'[on[c]] \/ (pc'[on[c]] = "switch" /\ cr3[c] = loc'[on[c]].dir)
    <3>1. PICK r \in Procs : r = on[c]
      BY <1>0, <2>1 DEF TypeOK
    <3>2. /\ Alive(r) /\ state[r] = "RUNNING"
          /\ cr3[c] = pgdir[r] \/ (pc[r] = "switch" /\ cr3[c] = loc[r].dir)
      BY Zenon, <1>0, <2>1, <3>1 DEF OnCpus, Alive
    <3>3. pc[r] = "switch" => pc'[r] = "switch" /\ loc'[r] = loc[r]
      BY Zenon
    <3>. QED
      BY <3>1, <3>2, <3>3
  <2>. QED
    BY Zenon, <1>0, <2>1 DEF OnCpus
<1>. QED
  BY <1>4, <1>5, <1>6 DEF Inv

\* A call takes a new directory: exec() or fork() starts.
LEMMA CallTakes ==
    ASSUME Inv, NEW p \in Procs, TypeOK', pc[p] = "user", pc'[p] \in {"load", "copy"},
           state[p] = "RUNNING",
           on' = on, cr3' = cr3, sigretAdd' = sigretAdd, pgdir' = pgdir,
           \A q \in Procs : /\ Alive(q)' <=> Alive(q)
                            /\ Alive(q) => state'[q] = state[q],
           \A q \in Procs : state[q] = "EMBRYO" => state'[q] = "EMBRYO",
           \A q \in Procs : q # p => pc'[q] = pc[q] /\ loc'[q] = loc[q],
           pc'[p] = "copy" => /\ loc'[p].np \in Procs /\ state[loc'[p].np] # "EMBRYO"
                              /\ state'[loc'[p].np] = "EMBRYO",
           NEW f \in Dirs, dirs[f].live = 0, loc'[p].dir = f, dirs' = [dirs EXCEPT ![f] = Kvm]
    PROVE  Inv'
<1>0. TypeOK /\ OwnedLive /\ OneOwner /\ LiveOwned /\ Busy /\ OnCpus
  BY Zenon DEF Inv
<1>1. \A q \in Procs : q # p => /\ Working(q)' <=> Working(q)
                                /\ Growing(q)' <=> Growing(q)
  BY Zenon DEF Working, Growing
<1>2. ~Working(p) /\ Working(p)' /\ ~Growing(p)'
  BY Zenon DEF Working, Growing
<1>3. \A d \in Dirs : dirs'[d] = IF d = f THEN Kvm ELSE dirs[d]
  BY Zenon, <1>0 DEF TypeOK
<1>4. OwnedLive' /\ OneOwner' /\ LiveOwned'
  <2>1. \A d \in Dirs : dirs'[d].live = IF d = f THEN 1 ELSE dirs[d].live
    BY <1>3, NewSpaces
  <2>2. \A q \in Procs : q # p => /\ Working(q)' <=> Working(q)
                                  /\ Working(q) => loc'[q].dir = loc[q].dir
    BY Zenon, <1>1
  <2>. QED
    BY Zenon, <1>0, <1>2, <2>1, <2>2, OwnerTakes
<1>5. Busy'
  <2>1. ASSUME NEW q \in Procs, pc'[q] # "user" PROVE state'[q] \in {"RUNNABLE", "RUNNING"}
    <3>1. state[q] \in {"RUNNABLE", "RUNNING"}
      BY Zenon, <1>0, <2>1 DEF Busy
    <3>. QED
      BY Zenon, <3>1 DEF Alive
  <2>2. \A q \in Procs : Growing(q)' => loc'[q].dir = pgdir'[q]
    BY <1>0, <1>1, <1>2 DEF Busy
  <2>3. \A q \in Procs : pc'[q] = "copy" => loc'[q].np \in Procs /\ state'[loc'[q].np] = "EMBRYO"
    BY <1>0 DEF Busy
  <2>4. \A q \in Procs : q # p /\ pc'[q] = "copy" => pc[q] = "copy" /\ loc'[q] = loc[q] /\ state[loc[q].np] = "EMBRYO"
    BY <1>0 DEF Busy
  <2>5. \A q, r \in Procs : pc'[q] = "copy" /\ pc'[r] = "copy" /\ loc'[q].np = loc'[r].np => q = r
    BY SMTT(30), <1>0, <2>4 DEF Busy
  <2>. QED
    BY Zenon, <2>1, <2>2, <2>3, <2>5 DEF Busy
<1>6. OnCpus'
  <2>1. ASSUME NEW c \in CPUs, on[c] # 0
        PROVE  /\ state'[on[c]] = "RUNNING"
               /\ cr3[c] = pgdir[on[c]] \/ (pc'[on[c]] = "switch" /\ cr3[c] = loc'[on[c]].dir)
    <3>1. PICK r \in Procs : r = on[c]
      BY SMTT(30), <1>0, <2>1 DEF TypeOK
    <3>2. /\ Alive(r) /\ state[r] = "RUNNING"
          /\ cr3[c] = pgdir[r] \/ (pc[r] = "switch" /\ cr3[c] = loc[r].dir)
      BY Zenon, <1>0, <2>1, <3>1 DEF OnCpus, Alive
    <3>3. pc[r] = "switch" => pc'[r] = "switch" /\ loc'[r] = loc[r]
      BY Zenon
    <3>. QED
      BY Zenon, <3>1, <3>2, <3>3
  <2>. QED
    BY Zenon, <1>0, <2>1 DEF OnCpus
<1>. QED
  BY Zenon, <1>4, <1>5, <1>6 DEF Inv

-----------------------------------------------------------------------------
(* allocuvm() and sbrk() *)

\* Storing in a local leaves the others.
LEMMA LocalsKept ==
    ASSUME NEW l, IsLocals(l), NEW x
    PROVE  /\ LET k == [l EXCEPT !.a = x]
              IN  IsLocals(k) /\ k.dir = l.dir /\ k.np = l.np /\ k.ret = l.ret
           /\ LET k == [l EXCEPT !.prog = x]
              IN  IsLocals(k) /\ k.dir = l.dir /\ k.np = l.np /\ k.ret = l.ret
           /\ LET k == [l EXCEPT !.np = x] IN IsLocals(k) /\ k.dir = l.dir /\ k.np = x
           /\ LET k == [l EXCEPT !.dir = x] IN IsLocals(k) /\ k.dir = x
           /\ IsLocals([l EXCEPT !.ret = x])
           /\ IsLocals([l EXCEPT !.old = x])
           /\ IsLocals([l EXCEPT !.new = x])
<1>1. LET k == [l EXCEPT !.a = x]
      IN  IsLocals(k) /\ k.dir = l.dir /\ k.np = l.np /\ k.ret = l.ret
  BY DEF IsLocals
<1>2. LET k == [l EXCEPT !.prog = x]
      IN  IsLocals(k) /\ k.dir = l.dir /\ k.np = l.np /\ k.ret = l.ret
  BY DEF IsLocals
<1>3. LET k == [l EXCEPT !.np = x] IN IsLocals(k) /\ k.dir = l.dir /\ k.np = x
  BY DEF IsLocals
<1>4. LET k == [l EXCEPT !.dir = x] IN IsLocals(k) /\ k.dir = x
  BY DEF IsLocals
<1>5. IsLocals([l EXCEPT !.ret = x])
  BY DEF IsLocals
<1>6. IsLocals([l EXCEPT !.old = x])
  BY DEF IsLocals
<1>7. IsLocals([l EXCEPT !.new = x])
  BY DEF IsLocals
<1>. QED
  BY <1>1, <1>2, <1>3, <1>4, <1>5, <1>6, <1>7

\* The locals exec(), fork() and sbrk() start with.
LEMMA NewLocals ==
    ASSUME NEW x, NEW y
    PROVE  /\ IsLocals(NoLocals)
           /\ LET k == [NoLocals EXCEPT !.dir = x] IN IsLocals(k) /\ k.dir = x
           /\ LET k == [NoLocals EXCEPT !.dir = x, !.prog = y] IN IsLocals(k) /\ k.dir = x
           /\ LET k == [NoLocals EXCEPT !.dir = x, !.np = y]
              IN  IsLocals(k) /\ k.dir = x /\ k.np = y
<1>. DEFINE m == [NoLocals EXCEPT !.dir = x]
<1>1. IsLocals(NoLocals)
  BY DEF IsLocals, NoLocals
<1>2. IsLocals(m) /\ m.dir = x
  BY ZenonT(60), <1>1, LocalsKept
<1>3. /\ [NoLocals EXCEPT !.dir = x, !.prog = y] = [m EXCEPT !.prog = y]
      /\ [NoLocals EXCEPT !.dir = x, !.np = y] = [m EXCEPT !.np = y]
  BY Zenon
<1>. HIDE DEF m
<1>4. LET k == [m EXCEPT !.prog = y] IN IsLocals(k) /\ k.dir = x
  BY Zenon, <1>2, LocalsKept
<1>5. LET k == [m EXCEPT !.np = y] IN IsLocals(k) /\ k.dir = x /\ k.np = y
  BY ZenonT(60), <1>2, LocalsKept
<1>. QED
  BY <1>1, <1>2, <1>3, <1>4, <1>5 DEF m

\* CallAlloc() moves p to allocuvm() and keeps the directory of its locals.
LEMMA CallAllocs ==
    ASSUME TypeOK, NEW p \in Procs, NEW l, IsLocals(l), NEW r, NEW o, NEW n, CallAlloc(p, l, r, o, n)
    PROVE  /\ pc' \in [Procs -> Places] /\ pc'[p] = "alloc"
           /\ loc' = [q \in Procs |-> loc'[q]] /\ \A q \in Procs : IsLocals(loc'[q])
           /\ \A q \in Procs : q # p => pc'[q] = pc[q] /\ loc'[q] = loc[q]
           /\ loc'[p].dir = l.dir /\ loc'[p].ret = r
<1>. DEFINE x == PageUp(o)
<1>. DEFINE m == IF n < KERNBASE /\ n < o THEN o ELSE n
<1>. DEFINE k == [l EXCEPT !.ret = r, !.old = o, !.a = x, !.new = m]
<1>1. loc' = [loc EXCEPT ![p] = k] /\ pc' = [pc EXCEPT ![p] = "alloc"]
  BY DEF CallAlloc
<1>. HIDE DEF x, m
<1>2. IsLocals(k) /\ k.dir = l.dir /\ k.ret = r
  <2>1. k.dir = l.dir /\ k.ret = r
    BY DEF IsLocals
  <2>. DEFINE k1 == [l EXCEPT !.ret = r]
  <2>. DEFINE k2 == [k1 EXCEPT !.old = o]
  <2>. DEFINE k3 == [k2 EXCEPT !.a = x]
  <2>2. k = [k3 EXCEPT !.new = m]
    BY Zenon
  <2>3. IsLocals(k1)
    BY Zenon, LocalsKept
  <2>. HIDE DEF k1
  <2>4. IsLocals(k2)
    BY Zenon, <2>3, LocalsKept
  <2>. HIDE DEF k2
  <2>5. IsLocals(k3)
    BY Zenon, <2>4, LocalsKept
  <2>. HIDE DEF k3
  <2>6. IsLocals([k3 EXCEPT !.new = m])
    BY Zenon, <2>5, LocalsKept
  <2>. HIDE DEF k
  <2>. QED
    BY <2>1, <2>2, <2>6
<1>. HIDE DEF k
<1>3. /\ loc' = [q \in Procs |-> loc'[q]]
      /\ \A q \in Procs : IsLocals(loc'[q])
      /\ \A q \in Procs : loc'[q] = IF q = p THEN k ELSE loc[q]
  BY Zenon, <1>1, <1>2, LocTyped
<1>4. pc' \in [Procs -> Places] /\ \A q \in Procs : pc'[q] = IF q = p THEN "alloc" ELSE pc[q]
  BY <1>1 DEF TypeOK, Places
<1>. QED
  BY <1>2, <1>3, <1>4

\* Return() leaves the call.
LEMMA Returns ==
    ASSUME TypeOK, NEW p \in Procs, Return(p)
    PROVE  /\ pc' \in [Procs -> Places] /\ pc'[p] = "user"
           /\ loc' = [q \in Procs |-> loc'[q]] /\ \A q \in Procs : IsLocals(loc'[q])
           /\ \A q \in Procs : q # p => pc'[q] = pc[q] /\ loc'[q] = loc[q]
<1>1. /\ loc' = [q \in Procs |-> loc'[q]]
      /\ \A q \in Procs : IsLocals(loc'[q])
      /\ \A q \in Procs : loc'[q] = IF q = p THEN NoLocals ELSE loc[q]
  BY Zenon, NewLocals, LocTyped DEF Return
<1>2. pc' \in [Procs -> Places] /\ \A q \in Procs : pc'[q] = IF q = p THEN "user" ELSE pc[q]
  BY DEF TypeOK, Places, Return
<1>. QED
  BY Zenon, <1>1, <1>2

\* switchuvm() loads the process's own page table.
LEMMA Loads ==
    ASSUME TypeOK, OnCpus, NEW p \in Procs, Running(p), pgdir[p] \in Dirs,
           cr3' = [cr3 EXCEPT ![CpuOf(p)] = pgdir[p]]
    PROVE  /\ cr3' \in [CPUs -> Dirs \cup {0}]
           /\ \A c \in CPUs : cr3'[c] = IF on[c] = p THEN pgdir[p] ELSE cr3[c]
<1>1. /\ CpuOf(p) \in CPUs /\ on[CpuOf(p)] = p
      /\ \A c \in CPUs : on[c] = p => c = CpuOf(p)
  BY RunsOnCpu
<1>. QED
  BY Zenon, <1>1 DEF TypeOK

\* What a process that runs may count on.
LEMMA Runner ==
    ASSUME Inv, NEW p \in Procs, Running(p)
    PROVE  /\ TypeOK /\ OnCpus
           /\ state[p] = "RUNNING" /\ Alive(p) /\ pgdir[p] \in Dirs
           /\ Growing(p) => loc[p].dir = pgdir[p]
           /\ pc[p] # "user" => loc[p].dir \in Dirs
<1>1. TypeOK /\ OnCpus /\ OwnedLive /\ Busy
  BY DEF Inv
<1>2. state[p] = "RUNNING"
  BY <1>1, RunsOnCpu
<1>3. Alive(p) /\ pgdir[p] \in Dirs
  BY Zenon, <1>1, <1>2 DEF Alive, OwnedLive
<1>4. Growing(p) => loc[p].dir = pgdir[p]
  BY Zenon, <1>1 DEF Busy
<1>5. pc[p] # "user" => loc[p].dir \in Dirs
  BY <1>1, <1>3, <1>4 DEF OwnedLive, Working
<1>. QED
  BY <1>1, <1>2, <1>3, <1>4, <1>5

\* allocuvm() maps one more page of the directory it fills.
LEMMA AllocPageInv ==
    ASSUME Inv, NEW p \in Procs, AllocPage(p)
    PROVE  Inv'
<1>0. Running(p) /\ pc[p] = "alloc"
  BY DEF AllocPage
<1>1. TypeOK /\ state[p] = "RUNNING" /\ loc[p].dir \in Dirs
  BY <1>0, Runner
<1>. DEFINE s == dirs[loc[p].dir]
<1>. DEFINE t == Mappages(s, loc[p].a, "user")
<1>. DEFINE l == loc[p]
<1>. DEFINE k == [l EXCEPT !.a = loc[p].a + 1]
<1>2. /\ dirs' = [dirs EXCEPT ![loc[p].dir] = t] /\ loc' = [loc EXCEPT ![p] = k]
      /\ state' = state /\ pgdir' = pgdir /\ sigretAdd' = sigretAdd
      /\ pc' = pc /\ on' = on /\ cr3' = cr3
  BY DEF AllocPage, procVars
<1>3. IsSpace(t) /\ t.live = s.live /\ t.live \in {0, 1}
  BY <1>1, SpacesKept DEF TypeOK
<1>4. IsLocals(k) /\ k.dir = loc[p].dir /\ k.np = loc[p].np /\ k.ret = loc[p].ret
  BY ZenonT(60), <1>1, LocalsKept DEF TypeOK
<1>. HIDE DEF t, k
<1>5. /\ dirs' = [d \in Dirs |-> dirs'[d]]
      /\ \A d \in Dirs : IsSpace(dirs'[d]) /\ dirs'[d].live \in {0, 1}
      /\ \A d \in Dirs : dirs'[d] = IF d = loc[p].dir THEN t ELSE dirs[d]
  BY Zenon, <1>1, <1>2, <1>3, DirsTyped
<1>6. /\ loc' = [q \in Procs |-> loc'[q]]
      /\ \A q \in Procs : IsLocals(loc'[q])
      /\ \A q \in Procs : loc'[q] = IF q = p THEN k ELSE loc[q]
  BY Zenon, <1>1, <1>2, <1>4, LocTyped
<1>7. TypeOK'
  BY <1>1, <1>2, <1>5, <1>6 DEF TypeOK
<1>8. /\ Working(p)' <=> Working(p)
      /\ Growing(p)' <=> Growing(p)
  BY Zenon, <1>2, <1>4, <1>6 DEF Working, Growing
<1>9. \A d \in Dirs : dirs'[d].live = dirs[d].live
  BY Zenon, <1>3, <1>5
<1>10. Growing(p)' => loc'[p].dir = pgdir[p]
  BY Zenon, <1>0, <1>4, <1>6, <1>8, Runner
<1>. QED
  BY SMTT(30), <1>0, <1>1, <1>2, <1>4, <1>6, <1>7, <1>8, <1>9, <1>10, CallGoesOn

\* growproc() with n > 0 starts allocuvm() on its own directory.
LEMMA GrowInv ==
    ASSUME Inv, NEW p \in Procs, NEW n, Grow(p, n)
    PROVE  Inv'
<1>0. Running(p) /\ pc[p] = "user"
  BY DEF Grow, InUser
<1>1. TypeOK /\ state[p] = "RUNNING"
  BY <1>0, Runner
<1>2. /\ CallAlloc(p, [NoLocals EXCEPT !.dir = pgdir[p]], "grow", sz[p], sz[p] + n)
      /\ dirs' = dirs /\ state' = state /\ pgdir' = pgdir /\ sigretAdd' = sigretAdd
      /\ on' = on /\ cr3' = cr3
  BY SMTT(30) DEF Grow, procVars
<1>. DEFINE l == [NoLocals EXCEPT !.dir = pgdir[p]]
<1>3. IsLocals(l) /\ l.dir = pgdir[p]
  BY Zenon, NewLocals
<1>. HIDE DEF l
<1>4. CallAlloc(p, l, "grow", sz[p], sz[p] + n)
  BY Zenon, <1>2 DEF l
<1>5. /\ pc' \in [Procs -> Places] /\ pc'[p] = "alloc"
      /\ loc' = [q \in Procs |-> loc'[q]] /\ \A q \in Procs : IsLocals(loc'[q])
      /\ \A q \in Procs : q # p => pc'[q] = pc[q] /\ loc'[q] = loc[q]
      /\ loc'[p].dir = pgdir[p] /\ loc'[p].ret = "grow"
  BY <1>1, <1>3, <1>4, CallAllocs
<1>6. TypeOK'
  BY Zenon, <1>1, <1>2, <1>5 DEF TypeOK
<1>7. Growing(p)' /\ ~Working(p)' /\ ~Working(p)
  BY Zenon, <1>0, <1>5 DEF Working, Growing
<1>. QED
  BY Zenon, <1>0, <1>1, <1>2, <1>5, <1>6, <1>7, CallGoesOn

\* growproc() stores the new size and reloads the directory.
LEMMA GrowDoneInv ==
    ASSUME Inv, NEW p \in Procs, GrowDone(p)
    PROVE  Inv'
<1>0. Running(p) /\ pc[p] = "alloc" /\ loc[p].ret = "grow"
  BY Zenon DEF GrowDone, AllocReturns
<1>1. TypeOK /\ OnCpus /\ state[p] = "RUNNING" /\ pgdir[p] \in Dirs
  BY Zenon, <1>0, Runner
<1>2. /\ Return(p) /\ cr3' = [cr3 EXCEPT ![CpuOf(p)] = pgdir[p]]
      /\ dirs' = dirs /\ state' = state /\ pgdir' = pgdir /\ sigretAdd' = sigretAdd
      /\ on' = on
  BY Zenon DEF GrowDone
<1>3. /\ pc' \in [Procs -> Places] /\ pc'[p] = "user"
      /\ loc' = [q \in Procs |-> loc'[q]] /\ \A q \in Procs : IsLocals(loc'[q])
      /\ \A q \in Procs : q # p => pc'[q] = pc[q] /\ loc'[q] = loc[q]
  BY Zenon, <1>1, <1>2, Returns
<1>4. /\ cr3' \in [CPUs -> Dirs \cup {0}]
      /\ \A c \in CPUs : cr3'[c] = IF on[c] = p THEN pgdir[p] ELSE cr3[c]
  BY Zenon, <1>0, <1>1, <1>2, Loads
<1>5. TypeOK'
  BY <1>1, <1>2, <1>3, <1>4 DEF TypeOK
<1>6. ~Working(p)' /\ ~Working(p) /\ ~Growing(p)'
  BY <1>0, <1>3 DEF Working, Growing
<1>. QED
  BY Zenon, <1>0, <1>1, <1>2, <1>3, <1>4, <1>5, <1>6, CallGoesOn

\* growproc() with n < 0 unmaps pages of its own directory.
LEMMA ShrinkInv ==
    ASSUME Inv, NEW p \in Procs, NEW n, Shrink(p, n)
    PROVE  Inv'
<1>0. Running(p) /\ pc[p] = "user"
  BY Zenon DEF Shrink, InUser
<1>1. TypeOK /\ OnCpus /\ state[p] = "RUNNING" /\ pgdir[p] \in Dirs
  BY Zenon, <1>0, Runner
<1>. DEFINE s == dirs[pgdir[p]]
<1>. DEFINE newsz == (sz[p] + n) % Wrap
<1>. DEFINE t == IF newsz >= sz[p] THEN s ELSE Deallocuvm(s, sz[p], newsz)
<1>2. /\ dirs' = [dirs EXCEPT ![pgdir[p]] = t] /\ cr3' = [cr3 EXCEPT ![CpuOf(p)] = pgdir[p]]
      /\ state' = state /\ pgdir' = pgdir /\ sigretAdd' = sigretAdd
      /\ pc' = pc /\ loc' = loc /\ on' = on
  BY Zenon DEF Shrink
<1>. HIDE DEF newsz
<1>3. IsSpace(t) /\ t.live = s.live /\ t.live \in {0, 1}
  <2>1. IsSpace(s) /\ s.live \in {0, 1}
    BY <1>1 DEF TypeOK
  <2>2. LET u == Deallocuvm(s, sz[p], newsz)
        IN  IsSpace(u) /\ u.live = s.live
    BY <2>1, SpacesKept
  <2>. QED
    BY <2>1, <2>2
<1>. HIDE DEF t
<1>4. /\ dirs' = [d \in Dirs |-> dirs'[d]]
      /\ \A d \in Dirs : IsSpace(dirs'[d]) /\ dirs'[d].live \in {0, 1}
      /\ \A d \in Dirs : dirs'[d] = IF d = pgdir[p] THEN t ELSE dirs[d]
  BY Zenon, <1>1, <1>2, <1>3, DirsTyped
<1>5. /\ cr3' \in [CPUs -> Dirs \cup {0}]
      /\ \A c \in CPUs : cr3'[c] = IF on[c] = p THEN pgdir[p] ELSE cr3[c]
  BY ZenonT(60), <1>0, <1>1, <1>2, Loads
<1>6. TypeOK'
  BY <1>1, <1>2, <1>4, <1>5 DEF TypeOK
<1>7. ~Working(p)' /\ ~Working(p) /\ ~Growing(p)'
  BY Zenon, <1>0, <1>2 DEF Working, Growing
<1>8. \A d \in Dirs : dirs'[d].live = dirs[d].live
  BY Zenon, <1>3, <1>4
<1>. QED
  BY ZenonT(60), <1>0, <1>1, <1>2, <1>5, <1>6, <1>7, <1>8, CallGoesOn

\* exec() goes to bad, or frees the old image.
LEMMA Abandons ==
    ASSUME Inv, NEW p \in Procs, Running(p), Working(p), pc[p] # "switch", Return(p),
           dirs' = [dirs EXCEPT ![loc[p].dir] = NoSpace],
           state' = state, pgdir' = pgdir, on' = on, cr3' = cr3, sigretAdd' = sigretAdd
    PROVE  Inv'
<1>1. TypeOK /\ loc[p].dir \in Dirs /\ Busy
  BY Runner DEF Inv, Working
<1>2. /\ pc' \in [Procs -> Places] /\ pc'[p] = "user"
      /\ loc' = [q \in Procs |-> loc'[q]] /\ \A q \in Procs : IsLocals(loc'[q])
      /\ \A q \in Procs : q # p => pc'[q] = pc[q] /\ loc'[q] = loc[q]
  BY <1>1, Returns
<1>3. NoSpace.live \in {0, 1}
  BY NewSpaces
<1>4. /\ dirs' = [d \in Dirs |-> dirs'[d]]
      /\ \A d \in Dirs : IsSpace(dirs'[d]) /\ dirs'[d].live \in {0, 1}
  BY Zenon, <1>1, <1>3, NewSpaces, DirsTyped
<1>5. TypeOK'
  BY <1>1, <1>2, <1>4 DEF TypeOK
<1>6. \A q \in Procs : Alive(q)' <=> Alive(q)
  BY DEF Alive
<1>7. \A q \in Procs : pc[q] = "copy" => state'[loc[q].np] = "EMBRYO"
  BY <1>1 DEF Busy
<1>. QED
  BY Zenon, <1>2, <1>5, <1>6, <1>7, CallFrees

\* allocuvm() out of memory undoes its pages and returns 0.
LEMMA AllocFailsInv ==
    ASSUME Inv, NEW p \in Procs, AllocFails(p)
    PROVE  Inv'
<1>0. Running(p) /\ pc[p] = "alloc" /\ Return(p)
  BY Zenon DEF AllocFails
<1>1. TypeOK /\ state[p] = "RUNNING" /\ loc[p].dir \in Dirs
  BY Zenon, <1>0, Runner
<1>. DEFINE s == dirs[loc[p].dir]
<1>. DEFINE t == IF loc[p].new >= KERNBASE THEN s ELSE Deallocuvm(s, loc[p].new, loc[p].old)
<1>2. /\ IF loc[p].ret = "grow" THEN dirs' = [dirs EXCEPT ![loc[p].dir] = t]
                                ELSE dirs' = [dirs EXCEPT ![loc[p].dir] = NoSpace]
      /\ state' = state /\ pgdir' = pgdir /\ sigretAdd' = sigretAdd
      /\ on' = on /\ cr3' = cr3
  BY Zenon DEF AllocFails, procVars
<1>3. CASE loc[p].ret = "grow"
  <2>1. IsSpace(t) /\ t.live = s.live /\ t.live \in {0, 1}
    <3>1. IsSpace(s) /\ s.live \in {0, 1}
      BY <1>1 DEF TypeOK
    <3>2. LET u == Deallocuvm(s, loc[p].new, loc[p].old)
          IN  IsSpace(u) /\ u.live = s.live
      BY <3>1, SpacesKept
    <3>. QED
      BY Zenon, <3>1, <3>2
  <2>. HIDE DEF t
  <2>2. /\ dirs' = [d \in Dirs |-> dirs'[d]]
        /\ \A d \in Dirs : IsSpace(dirs'[d]) /\ dirs'[d].live \in {0, 1}
        /\ \A d \in Dirs : dirs'[d] = IF d = loc[p].dir THEN t ELSE dirs[d]
    BY ZenonT(60), <1>1, <1>2, <1>3, <2>1, DirsTyped
  <2>3. /\ pc' \in [Procs -> Places] /\ pc'[p] = "user"
        /\ loc' = [q \in Procs |-> loc'[q]] /\ \A q \in Procs : IsLocals(loc'[q])
        /\ \A q \in Procs : q # p => pc'[q] = pc[q] /\ loc'[q] = loc[q]
    BY Zenon, <1>0, <1>1, Returns
  <2>4. TypeOK'
    BY Zenon, <1>1, <1>2, <2>2, <2>3 DEF TypeOK
  <2>5. ~Working(p)' /\ ~Working(p) /\ ~Growing(p)'
    BY Zenon, <1>0, <1>3, <2>3 DEF Working, Growing
  <2>6. \A d \in Dirs : dirs'[d].live = dirs[d].live
    BY <2>1, <2>2
  <2>. QED
    BY Zenon, <1>0, <1>1, <1>2, <2>3, <2>4, <2>5, <2>6, CallGoesOn
<1>4. CASE loc[p].ret # "grow"
  <2>1. Working(p)
    BY <1>0, <1>4 DEF Working, Growing
  <2>. QED
    BY Zenon, <1>0, <1>2, <1>4, <2>1, Abandons
<1>. QED
  BY Zenon, <1>3, <1>4

-----------------------------------------------------------------------------
(* exec() *)

\* exec() begins: a directory with the kernel part only.
LEMMA ExecInv ==
    ASSUME Inv, NEW p \in Procs, NEW prog, Exec(p, prog)
    PROVE  Inv'
<1>0. Running(p) /\ pc[p] = "user"
  BY Zenon DEF Exec, InUser
<1>1. TypeOK /\ state[p] = "RUNNING"
  BY <1>0, Runner
<1>2. PICK f \in Dirs : f = NewDir /\ dirs[f].live = 0
  BY <1>0, DirectoryLeft DEF Inv
<1>3. /\ state' = state /\ pgdir' = pgdir /\ sigretAdd' = sigretAdd
      /\ on' = on /\ cr3' = cr3
  BY DEF Exec, procVars
<1>4. CASE free >= KvmPages
  <2>. DEFINE k == [NoLocals EXCEPT !.dir = f, !.prog = prog]
  <2>1. /\ dirs' = [dirs EXCEPT ![f] = Kvm]
        /\ pc' = [pc EXCEPT ![p] = "load"]
        /\ loc' = [loc EXCEPT ![p] = k]
    BY <1>2, <1>4 DEF Exec
  <2>2. IsLocals(k) /\ k.dir = f
    BY Zenon, NewLocals
  <2>. HIDE DEF k
  <2>3. /\ loc' = [q \in Procs |-> loc'[q]]
        /\ \A q \in Procs : IsLocals(loc'[q])
        /\ \A q \in Procs : loc'[q] = IF q = p THEN k ELSE loc[q]
    BY Zenon, <1>1, <2>1, <2>2, LocTyped
  <2>4. /\ dirs' = [d \in Dirs |-> dirs'[d]]
        /\ \A d \in Dirs : IsSpace(dirs'[d]) /\ dirs'[d].live \in {0, 1}
    <3>1. Kvm.live \in {0, 1}
      BY NewSpaces
    <3>. QED
      BY Zenon, <1>1, <2>1, <3>1, NewSpaces, DirsTyped
  <2>5. pc' \in [Procs -> Places] /\ \A q \in Procs : pc'[q] = IF q = p THEN "load" ELSE pc[q]
    BY <1>1, <2>1 DEF TypeOK, Places
  <2>6. TypeOK'
    BY <1>1, <1>3, <2>3, <2>4, <2>5 DEF TypeOK
  <2>7. \A q \in Procs : Alive(q)' <=> Alive(q)
    BY Zenon, <1>3 DEF Alive
  <2>. QED
    BY Zenon, <1>0, <1>1, <1>2, <1>3, <2>1, <2>2, <2>3, <2>5, <2>6, <2>7, CallTakes
<1>5. CASE ~(free >= KvmPages)
  <2>1. dirs' = dirs /\ pc' = pc /\ loc' = loc
    BY Zenon, <1>5 DEF Exec
  <2>2. TypeOK'
    BY Zenon, <1>1, <1>3, <2>1 DEF TypeOK
  <2>3. ~Working(p)' /\ ~Working(p) /\ ~Growing(p)'
    BY Zenon, <1>0, <2>1 DEF Working, Growing
  <2>. QED
    BY Zenon, <1>0, <1>3, <2>1, <2>2, <2>3, CallGoesOn
<1>. QED
  BY <1>4, <1>5

\* exec() calls allocuvm() for the directory it builds.
LEMMA ExecAllocs ==
    ASSUME Inv, NEW p \in Procs, Running(p), pc[p] = "load",
           NEW r \in {"load", "stack"}, NEW o, NEW n, CallAlloc(p, loc[p], r, o, n),
           dirs' = dirs, state' = state, pgdir' = pgdir, on' = on, cr3' = cr3,
           sigretAdd' = sigretAdd
    PROVE  Inv'
<1>1. TypeOK /\ state[p] = "RUNNING"
  BY Zenon, Runner
<1>2. IsLocals(loc[p])
  BY Zenon, <1>1 DEF TypeOK
<1>3. /\ pc' \in [Procs -> Places] /\ pc'[p] = "alloc"
      /\ loc' = [q \in Procs |-> loc'[q]] /\ \A q \in Procs : IsLocals(loc'[q])
      /\ \A q \in Procs : q # p => pc'[q] = pc[q] /\ loc'[q] = loc[q]
      /\ loc'[p].dir = loc[p].dir /\ loc'[p].ret = r
  BY Zenon, <1>1, <1>2, CallAllocs
<1>4. TypeOK'
  BY Zenon, <1>1, <1>3 DEF TypeOK
<1>5. Working(p)' /\ Working(p) /\ ~Growing(p)'
  BY Zenon, <1>3 DEF Working, Growing
<1>. QED
  BY ZenonT(30), <1>1, <1>3, <1>4, <1>5, CallGoesOn

\* exec() takes the next program header, or the stack after the last.
LEMMA LoadHeaderInv ==
    ASSUME Inv, NEW p \in Procs, LoadHeader(p)
    PROVE  Inv'
<1>0. Running(p) /\ pc[p] = "load" /\ Working(p)
  BY ZenonT(60) DEF LoadHeader, Working, Growing
<1>1. /\ state' = state /\ pgdir' = pgdir /\ sigretAdd' = sigretAdd
      /\ on' = on /\ cr3' = cr3
  BY Zenon DEF LoadHeader, procVars
<1>2. \/ \E r \in {"load", "stack"} : \E o, n : CallAlloc(p, loc[p], r, o, n) /\ dirs' = dirs
      \/ ExecBad(p)
  BY Zenon DEF LoadHeader
<1>3. CASE ExecBad(p)
  BY Zenon, <1>0, <1>1, <1>3, Abandons DEF ExecBad
<1>4. ASSUME NEW r \in {"load", "stack"}, NEW o, NEW n, CallAlloc(p, loc[p], r, o, n), dirs' = dirs
      PROVE  Inv'
  BY Zenon, <1>0, <1>1, <1>4, ExecAllocs
<1>. QED
  BY SMTT(30), <1>2, <1>3, <1>4

\* loaduvm() fills the pages allocuvm() has just mapped.
LEMMA LoadSegmentInv ==
    ASSUME Inv, NEW p \in Procs, LoadSegment(p)
    PROVE  Inv'
<1>0. Running(p) /\ pc[p] = "alloc" /\ loc[p].ret = "load" /\ Working(p)
  BY Zenon DEF LoadSegment, AllocReturns, Working, Growing
<1>1. TypeOK /\ state[p] = "RUNNING"
  BY Zenon, <1>0, Runner
<1>2. /\ state' = state /\ pgdir' = pgdir /\ sigretAdd' = sigretAdd
      /\ on' = on /\ cr3' = cr3
  BY Zenon DEF LoadSegment, procVars
<1>. DEFINE l == loc[p]
<1>. DEFINE k == [l EXCEPT !.prog = Tail(loc[p].prog)]
<1>3. \/ ExecBad(p)
      \/ pc' = [pc EXCEPT ![p] = "load"] /\ loc' = [loc EXCEPT ![p] = k] /\ dirs' = dirs
  BY Zenon DEF LoadSegment
<1>4. CASE ExecBad(p)
  BY Zenon, <1>0, <1>2, <1>4, Abandons DEF ExecBad
<1>5. CASE pc' = [pc EXCEPT ![p] = "load"] /\ loc' = [loc EXCEPT ![p] = k] /\ dirs' = dirs
  <2>1. IsLocals(k) /\ k.dir = loc[p].dir
    BY Zenon, <1>1, LocalsKept DEF TypeOK
  <2>. HIDE DEF k
  <2>2. /\ loc' = [q \in Procs |-> loc'[q]]
        /\ \A q \in Procs : IsLocals(loc'[q])
        /\ \A q \in Procs : loc'[q] = IF q = p THEN k ELSE loc[q]
    BY Zenon, <1>1, <1>5, <2>1, LocTyped
  <2>3. pc' \in [Procs -> Places] /\ \A q \in Procs : pc'[q] = IF q = p THEN "load" ELSE pc[q]
    BY Zenon, <1>1, <1>5 DEF TypeOK, Places
  <2>4. TypeOK'
    BY Zenon, <1>1, <1>2, <1>5, <2>2, <2>3 DEF TypeOK
  <2>5. Working(p)' /\ ~Growing(p)'
    BY <2>3 DEF Working, Growing
  <2>. QED
    BY <1>0, <1>1, <1>2, <1>5, <2>1, <2>2, <2>3, <2>4, <2>5, CallGoesOn
<1>. QED
  BY Zenon, <1>3, <1>4, <1>5

\* exec() guards its stack and stores the address of sigretimplicit.
LEMMA StackReadyInv ==
    ASSUME Inv, NEW p \in Procs, StackReady(p)
    PROVE  Inv'
<1>0. Running(p) /\ pc[p] = "alloc" /\ loc[p].ret = "stack" /\ Working(p)
  BY Zenon DEF StackReady, AllocReturns, Working, Growing
<1>1. TypeOK /\ state[p] = "RUNNING" /\ loc[p].dir \in Dirs
  BY <1>0, Runner
<1>i. OwnedLive /\ OneOwner /\ LiveOwned /\ Busy /\ OnCpus
  BY DEF Inv
<1>. DEFINE s == dirs[loc[p].dir]
<1>. DEFINE sp == loc[p].new - RetFuncSize
<1>. DEFINE g == (loc[p].new - 2 * PGSIZE) \div PGSIZE
<1>. DEFINE t == Clearpteu(s, g)
<1>2. /\ dirs' = [dirs EXCEPT ![loc[p].dir] = t]
      /\ sigretAdd' = [sigretAdd EXCEPT ![p] = sp]
      /\ pc' = [pc EXCEPT ![p] = "args"]
      /\ state' = state /\ pgdir' = pgdir /\ loc' = loc
      /\ on' = on /\ cr3' = cr3
  BY DEF StackReady
<1>. HIDE DEF sp, g
<1>3. IsSpace(t) /\ t.live = s.live /\ t.live \in {0, 1}
  <2>1. IsSpace(s) /\ s.live \in {0, 1}
    BY <1>1 DEF TypeOK
  <2>. HIDE DEF s
  <2>3. \A v : LET r == Clearpteu(s, v) IN IsSpace(r) /\ r.live = s.live
    BY <2>1, SpacesKept, Zenon
  <2>2. IsSpace(t) /\ t.live = s.live
    BY <2>3, Zenon
  <2>. HIDE DEF t
  <2>. QED
    BY <2>1, <2>2
<1>. HIDE DEF t
<1>4. /\ dirs' = [d \in Dirs |-> dirs'[d]]
      /\ \A d \in Dirs : IsSpace(dirs'[d]) /\ dirs'[d].live \in {0, 1}
      /\ \A d \in Dirs : dirs'[d] = IF d = loc[p].dir THEN t ELSE dirs[d]
  BY Zenon, <1>1, <1>2, <1>3, DirsTyped
<1>5. pc' \in [Procs -> Places] /\ \A q \in Procs : pc'[q] = IF q = p THEN "args" ELSE pc[q]
  BY <1>1, <1>2 DEF TypeOK, Places
<1>6. /\ sigretAdd' = [q \in Procs |-> sigretAdd'[q]]
      /\ \A q \in Procs : sigretAdd'[q] = IF q = p THEN sp ELSE sigretAdd[q]
  BY ZenonT(60), <1>1, <1>2 DEF TypeOK
<1>7. TypeOK'
  BY <1>1, <1>2, <1>4, <1>5, <1>6 DEF TypeOK
<1>8. /\ \A q \in Procs : Alive(q)' <=> Alive(q)
      /\ \A q \in Procs : Working(q)' <=> Working(q)
      /\ \A q \in Procs : Growing(q)' <=> Growing(q)
  BY ZenonT(60), <1>0, <1>2, <1>5 DEF Alive, Working, Growing
<1>9. OwnedLive' /\ OneOwner' /\ LiveOwned'
  <2>1. \A d \in Dirs : dirs'[d].live = dirs[d].live
    BY Zenon, <1>3, <1>4
  <2>. QED
    BY Zenon, <1>i, <1>2, <1>8, <2>1, OwnersKept
<1>10. Busy'
  BY ZenonT(60), <1>i, <1>1, <1>2, <1>5, <1>8 DEF Busy
<1>11. OnCpus'
  <2>1. \A q \in Procs : pc[q] = "switch" => pc'[q] = "switch"
    BY Zenon, <1>0, <1>5
  <2>2. \A c \in CPUs : on[c] # 0 => on[c] \in Procs
    BY Zenon, <1>1 DEF TypeOK
  <2>. QED
    BY ZenonT(60), <1>i, <1>2, <2>1, <2>2 DEF OnCpus
<1>. QED
  BY <1>7, <1>9, <1>10, <1>11 DEF Inv

\* exec() commits: p owns the new image, and its call the old one.
LEMMA CommitInv ==
    ASSUME Inv, NEW p \in Procs, Running(p), pc[p] = "args",
           pgdir' = [pgdir EXCEPT ![p] = loc[p].dir],
           loc' = [loc EXCEPT ![p] = [NoLocals EXCEPT !.dir = pgdir[p]]],
           pc' = [pc EXCEPT ![p] = "switch"],
           dirs' = dirs, state' = state, on' = on, cr3' = cr3, sigretAdd' = sigretAdd
    PROVE  Inv'
<1>1. TypeOK /\ state[p] = "RUNNING" /\ loc[p].dir \in Dirs /\ pgdir[p] \in Dirs /\ Alive(p)
  BY Runner
<1>i. OwnedLive /\ OneOwner /\ LiveOwned /\ Busy /\ OnCpus
  BY SMTT(30) DEF Inv
<1>. DEFINE k == [NoLocals EXCEPT !.dir = pgdir[p]]
<1>2. IsLocals(k) /\ k.dir = pgdir[p]
  BY Zenon, NewLocals
<1>3. /\ loc' = [q \in Procs |-> loc'[q]]
      /\ \A q \in Procs : IsLocals(loc'[q])
      /\ \A q \in Procs : loc'[q] = IF q = p THEN k ELSE loc[q]
  BY Zenon, <1>1, <1>2, LocTyped
<1>. HIDE DEF k
<1>4. pc' \in [Procs -> Places] /\ \A q \in Procs : pc'[q] = IF q = p THEN "switch" ELSE pc[q]
  BY <1>1 DEF TypeOK, Places
<1>5. /\ pgdir' \in [Procs -> Dirs \cup {0}]
      /\ \A q \in Procs : pgdir'[q] = IF q = p THEN loc[p].dir ELSE pgdir[q]
  BY <1>1 DEF TypeOK
<1>6. TypeOK'
  BY Zenon, <1>1, <1>3, <1>4, <1>5 DEF TypeOK
<1>7. /\ \A q \in Procs : Alive(q)' <=> Alive(q)
      /\ \A q \in Procs : Working(q)' <=> Working(q)
      /\ \A q \in Procs : q # p => (Growing(q)' <=> Growing(q))
      /\ Working(p) /\ ~Growing(p)'
  BY <1>3, <1>4 DEF Alive, Working, Growing
<1>8. OwnedLive'
  BY SMTT(30), <1>i, <1>1, <1>2, <1>3, <1>5, <1>7 DEF OwnedLive
<1>9. OneOwner'
  BY <1>i, <1>1, <1>2, <1>3, <1>5, <1>7 DEF OneOwner
<1>10. LiveOwned'
  <2>. SUFFICES ASSUME NEW d \in Dirs, dirs[d].live = 1
                PROVE  \E q \in Procs : \/ Alive(q)' /\ pgdir'[q] = d
                                        \/ Working(q)' /\ loc'[q].dir = d
    BY DEF LiveOwned
  <2>1. PICK q \in Procs : (Alive(q) /\ pgdir[q] = d) \/ (Working(q) /\ loc[q].dir = d)
    BY <1>i DEF LiveOwned
  <2>2. CASE q # p
    BY Zenon, <2>1, <2>2, <1>3, <1>5, <1>7
  <2>3. CASE q = p
    BY SMTT(30), <2>1, <2>3, <1>1, <1>2, <1>3, <1>5, <1>7
  <2>. QED
    BY Zenon, <2>2, <2>3
<1>11. Busy'
  <2>1. \A q \in Procs : Growing(q)' => loc'[q].dir = pgdir'[q]
    BY <1>i, <1>3, <1>5, <1>7 DEF Busy
  <2>2. \A q \in Procs : pc'[q] # "user" => state[q] \in {"RUNNABLE", "RUNNING"}
    BY <1>i, <1>1, <1>4 DEF Busy
  <2>3. \A q \in Procs : pc'[q] = "copy" => pc[q] = "copy" /\ loc'[q] = loc[q]
    BY <1>3, <1>4
  <2>. QED
    BY <1>i, <2>1, <2>2, <2>3 DEF Busy
<1>12. OnCpus'
  <2>1. ASSUME NEW c \in CPUs, on[c] # 0
        PROVE  /\ state[on[c]] = "RUNNING"
               /\ cr3[c] = pgdir'[on[c]] \/ (pc'[on[c]] = "switch" /\ cr3[c] = loc'[on[c]].dir)
    <3>1. PICK r \in Procs : r = on[c]
      BY <1>1, <2>1 DEF TypeOK
    <3>2. /\ state[r] = "RUNNING"
          /\ cr3[c] = pgdir[r] \/ (pc[r] = "switch" /\ cr3[c] = loc[r].dir)
      BY <1>i, <2>1, <3>1 DEF OnCpus
    <3>3. CASE r = p
      BY <1>2, <1>3, <1>4, <3>1, <3>2, <3>3
    <3>4. CASE r # p
      BY SMTT(30), <1>3, <1>4, <1>5, <3>1, <3>2, <3>4
    <3>. QED
      BY <3>3, <3>4
  <2>. QED
    BY <1>i, <2>1 DEF OnCpus
<1>. QED
  BY SMTT(30), <1>6, <1>8, <1>9, <1>10, <1>11, <1>12 DEF Inv

\* exec() commits to the new image, or its arguments do not fit.
LEMMA PushArgsInv ==
    ASSUME Inv, NEW p \in Procs, NEW args, PushArgs(p, args)
    PROVE  Inv'
<1>0. Running(p) /\ pc[p] = "args" /\ Working(p)
  BY DEF PushArgs, Working, Growing
<1>1. state' = state /\ on' = on /\ cr3' = cr3 /\ sigretAdd' = sigretAdd
  BY Zenon DEF PushArgs
<1>2. CASE ~Copyout(args)
  <2>1. ExecBad(p) /\ pgdir' = pgdir
    BY <1>2 DEF PushArgs
  <2>. QED
    BY Zenon, <1>0, <1>1, <2>1, Abandons DEF ExecBad
<1>3. CASE Copyout(args)
  <2>1. /\ pgdir' = [pgdir EXCEPT ![p] = loc[p].dir]
        /\ loc' = [loc EXCEPT ![p] = [NoLocals EXCEPT !.dir = pgdir[p]]]
        /\ pc' = [pc EXCEPT ![p] = "switch"] /\ dirs' = dirs
    BY <1>3 DEF PushArgs
  <2>. QED
    BY Zenon, <1>0, <1>1, <2>1, CommitInv
<1>. QED
  BY <1>2, <1>3

\* exec() loads the directory it has committed to.
LEMMA SwitchuvmInv ==
    ASSUME Inv, NEW p \in Procs, Switchuvm(p)
    PROVE  Inv'
<1>0. Running(p) /\ pc[p] = "switch"
  BY DEF Switchuvm
<1>1. TypeOK /\ state[p] = "RUNNING" /\ pgdir[p] \in Dirs
  BY <1>0, Runner
<1>i. OwnedLive /\ OneOwner /\ LiveOwned /\ Busy /\ OnCpus
  BY DEF Inv
<1>2. /\ cr3' = [cr3 EXCEPT ![CpuOf(p)] = pgdir[p]] /\ pc' = [pc EXCEPT ![p] = "freeold"]
      /\ dirs' = dirs /\ state' = state /\ pgdir' = pgdir /\ sigretAdd' = sigretAdd
      /\ loc' = loc /\ on' = on
  BY DEF Switchuvm, procVars
<1>3. /\ cr3' \in [CPUs -> Dirs \cup {0}]
      /\ \A c \in CPUs : cr3'[c] = IF on[c] = p THEN pgdir[p] ELSE cr3[c]
  BY ZenonT(60), <1>0, <1>1, <1>i, <1>2, Loads
<1>4. pc' \in [Procs -> Places] /\ \A q \in Procs : pc'[q] = IF q = p THEN "freeold" ELSE pc[q]
  BY <1>1, <1>2 DEF TypeOK, Places
<1>5. TypeOK'
  BY <1>1, <1>2, <1>3, <1>4 DEF TypeOK
<1>6. /\ \A q \in Procs : Alive(q)' <=> Alive(q)
      /\ \A q \in Procs : Working(q)' <=> Working(q)
      /\ \A q \in Procs : Growing(q)' <=> Growing(q)
  BY <1>0, <1>2, <1>4 DEF Alive, Working, Growing
<1>7. OwnedLive' /\ OneOwner' /\ LiveOwned'
  BY ZenonT(60), <1>i, <1>2, <1>6, OwnersKept
<1>8. Busy'
  BY SMTT(90), <1>i, <1>1, <1>2, <1>4, <1>6 DEF Busy
<1>9. OnCpus'
  <2>1. \A c \in CPUs : on[c] = 0 => cr3'[c] = 0
    BY SMTT(30), <1>i, <1>3, DirsAreNumbers DEF OnCpus
  <2>2. ASSUME NEW c \in CPUs, on[c] # 0
        PROVE  /\ state[on[c]] = "RUNNING"
               /\ cr3'[c] = pgdir[on[c]] \/ (pc'[on[c]] = "switch" /\ cr3'[c] = loc[on[c]].dir)
    <3>1. PICK r \in Procs : r = on[c]
      BY Zenon, <1>1, <2>2 DEF TypeOK
    <3>2. /\ state[r] = "RUNNING"
          /\ cr3[c] = pgdir[r] \/ (pc[r] = "switch" /\ cr3[c] = loc[r].dir)
      BY ZenonT(60), <1>i, <2>2, <3>1 DEF OnCpus
    <3>. QED
      BY Zenon, <1>3, <1>4, <3>1, <3>2
  <2>. QED
    BY Zenon, <1>i, <1>2, <2>1, <2>2 DEF OnCpus
<1>. QED
  BY <1>5, <1>7, <1>8, <1>9 DEF Inv

\* exec() frees the directory it has replaced.
LEMMA FreeOldInv ==
    ASSUME Inv, NEW p \in Procs, FreeOld(p)
    PROVE  Inv'
<1>0. Running(p) /\ pc[p] = "freeold" /\ Working(p) /\ ExecBad(p)
  BY DEF FreeOld, Working, Growing
<1>1. /\ state' = state /\ pgdir' = pgdir /\ sigretAdd' = sigretAdd
      /\ on' = on /\ cr3' = cr3
  BY DEF FreeOld, procVars
<1>. QED
  BY Zenon, <1>0, <1>1, Abandons DEF ExecBad

-----------------------------------------------------------------------------
(* fork() *)

\* fork() takes a slot and starts copyuvm().
LEMMA ForkInv ==
    ASSUME Inv, NEW p \in Procs, NEW np \in Procs, Fork(p, np)
    PROVE  Inv'
<1>0. Running(p) /\ pc[p] = "user" /\ state[np] = "UNUSED"
  BY DEF Fork, InUser
<1>1. TypeOK /\ state[p] = "RUNNING"
  BY <1>0, Runner
<1>i. OwnedLive /\ OneOwner /\ LiveOwned /\ Busy /\ OnCpus
  BY Zenon DEF Inv
<1>2. PICK f \in Dirs : f = NewDir /\ dirs[f].live = 0
  BY Zenon, <1>0, DirectoryLeft DEF Inv
<1>3. sigretAdd' = sigretAdd /\ on' = on /\ cr3' = cr3
  BY Zenon DEF Fork
<1>4. CASE free >= 1 + KvmPages
  <2>. DEFINE k == [NoLocals EXCEPT !.dir = f, !.np = np]
  <2>1. /\ dirs' = [dirs EXCEPT ![f] = Kvm] /\ pgdir' = pgdir
        /\ pc' = [pc EXCEPT ![p] = "copy"] /\ state' = [state EXCEPT ![np] = "EMBRYO"]
        /\ loc' = [loc EXCEPT ![p] = k]
    BY <1>2, <1>4 DEF Fork
  <2>2. IsLocals(k) /\ k.dir = f /\ k.np = np
    BY Zenon, NewLocals
  <2>. HIDE DEF k
  <2>3. /\ loc' = [q \in Procs |-> loc'[q]]
        /\ \A q \in Procs : IsLocals(loc'[q])
        /\ \A q \in Procs : loc'[q] = IF q = p THEN k ELSE loc[q]
    BY Zenon, <1>1, <2>1, <2>2, LocTyped
  <2>4. /\ dirs' = [d \in Dirs |-> dirs'[d]]
        /\ \A d \in Dirs : IsSpace(dirs'[d]) /\ dirs'[d].live \in {0, 1}
    <3>1. Kvm.live \in {0, 1}
      BY NewSpaces
    <3>. QED
      BY Zenon, <1>1, <2>1, <3>1, NewSpaces, DirsTyped
  <2>5. pc' \in [Procs -> Places] /\ \A q \in Procs : pc'[q] = IF q = p THEN "copy" ELSE pc[q]
    BY <1>1, <2>1 DEF TypeOK, Places
  <2>6. /\ state' \in [Procs -> States]
        /\ \A q \in Procs : state'[q] = IF q = np THEN "EMBRYO" ELSE state[q]
    BY Zenon, <1>1, <2>1 DEF TypeOK, States
  <2>7. TypeOK'
    BY Zenon, <1>1, <1>3, <2>1, <2>3, <2>4, <2>5, <2>6 DEF TypeOK
  <2>8. \A q \in Procs : /\ Alive(q)' <=> Alive(q)
                         /\ Alive(q) => state'[q] = state[q]
    BY <1>0, <2>6 DEF Alive
  <2>9. \A q \in Procs : state[q] = "EMBRYO" => state'[q] = "EMBRYO"
    BY Zenon, <2>6
  <2>10. loc'[p].np \in Procs /\ state[loc'[p].np] # "EMBRYO" /\ state'[loc'[p].np] = "EMBRYO"
    BY SMTT(30), <1>0, <2>2, <2>3, <2>6
  <2>. QED
    BY ZenonT(60), <1>0, <1>1, <1>2, <1>3, <2>1, <2>2, <2>3, <2>5, <2>7, <2>8, <2>9, <2>10, CallTakes
<1>5. CASE ~(free >= 1 + KvmPages)
  <2>1. /\ pgdir' = [pgdir EXCEPT ![np] = 0]
        /\ dirs' = dirs /\ state' = state /\ pc' = pc /\ loc' = loc
    BY Zenon, <1>5 DEF Fork
  <2>2. /\ pgdir' \in [Procs -> Dirs \cup {0}]
        /\ \A q \in Procs : q # np => pgdir'[q] = pgdir[q]
    BY Zenon, <1>1, <2>1 DEF TypeOK
  <2>3. TypeOK'
    BY ZenonT(30), <1>1, <1>3, <2>1, <2>2 DEF TypeOK
  <2>4. /\ \A q \in Procs : Alive(q)' <=> Alive(q)
        /\ \A q \in Procs : Working(q)' <=> Working(q)
        /\ \A q \in Procs : Growing(q)' <=> Growing(q)
    BY ZenonT(60), <2>1 DEF Alive, Working, Growing
  <2>5. \A q \in Procs : Alive(q) => q # np
    BY Zenon, <1>0 DEF Alive
  <2>6. OwnedLive' /\ OneOwner' /\ LiveOwned'
    BY SMTT(30), <1>i, <2>1, <2>2, <2>4, <2>5, OwnersKept
  <2>7. Busy'
    <3>1. \A q \in Procs : Growing(q) => q # np
      BY ZenonT(60), <1>i, <1>0 DEF Busy, Growing
    <3>. QED
      BY ZenonT(60), <1>i, <2>1, <2>2, <2>4, <3>1 DEF Busy
  <2>8. OnCpus'
    <3>1. \A c \in CPUs : on[c] # 0 => on[c] \in Procs /\ on[c] # np
      BY ZenonT(60), <1>0, <1>1, <1>i DEF TypeOK, OnCpus
    <3>. QED
      BY Zenon, <1>i, <1>3, <2>1, <2>2, <3>1 DEF OnCpus
  <2>. QED
    BY <2>3, <2>6, <2>7, <2>8 DEF Inv
<1>. QED
  BY <1>4, <1>5

\* copyuvm() copies one page, and fork() ends with the last.
LEMMA CopyPageInv ==
    ASSUME Inv, NEW p \in Procs, CopyPage(p)
    PROVE  Inv'
<1>0. Running(p) /\ pc[p] = "copy" /\ Working(p)
  BY Zenon DEF CopyPage, Working, Growing
<1>1. TypeOK /\ state[p] = "RUNNING" /\ loc[p].dir \in Dirs
  BY Zenon, <1>0, Runner
<1>i. OwnedLive /\ OneOwner /\ LiveOwned /\ Busy /\ OnCpus
  BY DEF Inv
<1>2. sigretAdd' = sigretAdd /\ on' = on /\ cr3' = cr3
  BY Zenon DEF CopyPage
<1>. DEFINE s == dirs[pgdir[p]]
<1>. DEFINE u == dirs[loc[p].dir]
<1>3. CASE free >= Need(u, loc[p].a)
  <2>. DEFINE t == Mappages(u, loc[p].a, s.pte[loc[p].a])
  <2>. DEFINE l == loc[p]
  <2>. DEFINE k == [l EXCEPT !.a = loc[p].a + 1]
  <2>1. /\ dirs' = [dirs EXCEPT ![loc[p].dir] = t] /\ loc' = [loc EXCEPT ![p] = k]
        /\ state' = state /\ pgdir' = pgdir /\ pc' = pc
    BY Zenon, <1>3 DEF CopyPage
  <2>2. IsSpace(t) /\ t.live = u.live /\ t.live \in {0, 1}
    BY SMTT(90), <1>1, SpacesKept DEF TypeOK
  <2>3. IsLocals(k) /\ k.dir = loc[p].dir /\ k.np = loc[p].np /\ k.ret = loc[p].ret
    BY ZenonT(60), <1>1, LocalsKept DEF TypeOK
  <2>. HIDE DEF t, k
  <2>4. /\ dirs' = [d \in Dirs |-> dirs'[d]]
        /\ \A d \in Dirs : IsSpace(dirs'[d]) /\ dirs'[d].live \in {0, 1}
        /\ \A d \in Dirs : dirs'[d] = IF d = loc[p].dir THEN t ELSE dirs[d]
    BY Zenon, <1>1, <2>1, <2>2, DirsTyped
  <2>5. /\ loc' = [q \in Procs |-> loc'[q]]
        /\ \A q \in Procs : IsLocals(loc'[q])
        /\ \A q \in Procs : loc'[q] = IF q = p THEN k ELSE loc[q]
    BY ZenonT(60), <1>1, <2>1, <2>3, LocTyped
  <2>6. TypeOK'
    BY <1>1, <1>2, <2>1, <2>4, <2>5 DEF TypeOK
  <2>7. Working(p)' /\ ~Growing(p)'
    BY Zenon, <1>0, <2>1 DEF Working, Growing
  <2>8. \A d \in Dirs : dirs'[d].live = dirs[d].live
    BY <2>2, <2>4
  <2>. QED
    BY SMTT(30), <1>0, <1>1, <1>2, <2>1, <2>3, <2>5, <2>6, <2>7, <2>8, CallGoesOn
<1>4. CASE ~(free >= Need(u, loc[p].a))
  <2>1. /\ dirs' = [dirs EXCEPT ![loc[p].dir] = NoSpace]
        /\ state' = [state EXCEPT ![loc[p].np] = "UNUSED"]
        /\ pgdir' = [pgdir EXCEPT ![loc[p].np] = 0]
        /\ Return(p)
    BY <1>4 DEF CopyPage
  <2>2. PICK n \in Procs : n = loc[p].np /\ state[n] = "EMBRYO"
    BY <1>0, <1>i DEF Busy
  <2>3. /\ pgdir' \in [Procs -> Dirs \cup {0}]
        /\ \A q \in Procs : q # n => pgdir'[q] = pgdir[q]
    BY Zenon, <1>1, <2>1, <2>2 DEF TypeOK
  <2>4. /\ state' \in [Procs -> States]
        /\ \A q \in Procs : state'[q] = IF q = n THEN "UNUSED" ELSE state[q]
    BY Zenon, <1>1, <2>1, <2>2 DEF TypeOK, States
  <2>5. /\ pc' \in [Procs -> Places] /\ pc'[p] = "user"
        /\ loc' = [q \in Procs |-> loc'[q]] /\ \A q \in Procs : IsLocals(loc'[q])
        /\ \A q \in Procs : q # p => pc'[q] = pc[q] /\ loc'[q] = loc[q]
    BY SMTT(30), <1>1, <2>1, Returns
  <2>6. /\ dirs' = [d \in Dirs |-> dirs'[d]]
        /\ \A d \in Dirs : IsSpace(dirs'[d]) /\ dirs'[d].live \in {0, 1}
    <3>1. NoSpace.live \in {0, 1}
      BY NewSpaces
    <3>. QED
      BY ZenonT(60), <1>1, <2>1, <3>1, NewSpaces, DirsTyped
  <2>7. TypeOK'
    BY <1>1, <1>2, <2>3, <2>4, <2>5, <2>6 DEF TypeOK
  <2>8. \A q \in Procs : /\ Alive(q)' <=> Alive(q)
                         /\ Alive(q) => pgdir'[q] = pgdir[q] /\ state'[q] = state[q]
    BY Zenon, <2>2, <2>3, <2>4 DEF Alive
  <2>9. \A q \in Procs : q # p /\ pc[q] = "copy" => state'[loc[q].np] = "EMBRYO"
    BY ZenonT(60), <1>0, <1>i, <2>2, <2>4 DEF Busy
  <2>. QED
    BY ZenonT(60), <1>0, <1>2, <2>1, <2>5, <2>7, <2>8, <2>9, CallFrees
<1>. QED
  BY Zenon, <1>3, <1>4

\* The child owns what the call of its parent built.
LEMMA ForkDoneInv ==
    ASSUME Inv, NEW p \in Procs, ForkDone(p)
    PROVE  Inv'
<1>0. Running(p) /\ pc[p] = "copy" /\ Working(p) /\ Return(p)
  BY Zenon DEF ForkDone, Working, Growing
<1>1. TypeOK /\ state[p] = "RUNNING" /\ loc[p].dir \in Dirs
  BY Zenon, <1>0, Runner
<1>i. OwnedLive /\ OneOwner /\ LiveOwned /\ Busy /\ OnCpus
  BY DEF Inv
<1>n. PICK n \in Procs : n = loc[p].np /\ state[n] = "EMBRYO"
  BY Zenon, <1>0, <1>i DEF Busy
<1>f. PICK f \in Dirs : f = loc[p].dir
  BY <1>1
<1>2. /\ dirs' = dirs /\ pgdir' = [pgdir EXCEPT ![n] = f]
      /\ state' = [state EXCEPT ![n] = "RUNNABLE"]
      /\ sigretAdd' = sigretAdd /\ on' = on /\ cr3' = cr3
  BY Zenon, <1>n, <1>f DEF ForkDone
<1>5. /\ pc' \in [Procs -> Places] /\ pc'[p] = "user"
      /\ loc' = [q \in Procs |-> loc'[q]] /\ \A q \in Procs : IsLocals(loc'[q])
      /\ \A q \in Procs : q # p => pc'[q] = pc[q] /\ loc'[q] = loc[q]
  BY <1>0, <1>1, Returns
<1>6. /\ pgdir' \in [Procs -> Dirs \cup {0}]
      /\ \A q \in Procs : pgdir'[q] = IF q = n THEN f ELSE pgdir[q]
  BY <1>1, <1>2 DEF TypeOK
<1>7. /\ state' \in [Procs -> States]
      /\ \A q \in Procs : state'[q] = IF q = n THEN "RUNNABLE" ELSE state[q]
  BY Zenon, <1>1, <1>2 DEF TypeOK, States
<1>8. TypeOK'
  BY Zenon, <1>1, <1>2, <1>5, <1>6, <1>7 DEF TypeOK
<1>9. /\ ~Alive(n) /\ Alive(n)' /\ ~Working(n) /\ ~Working(p)' /\ ~Growing(p)' /\ n # p
      /\ \A q \in Procs : q # n => (Alive(q)' <=> Alive(q))
      /\ \A q \in Procs : q # p => (Working(q)' <=> Working(q))
      /\ \A q \in Procs : q # p => (Growing(q)' <=> Growing(q))
  BY SMTT(30), <1>1, <1>i, <1>n, <1>5, <1>7 DEF Alive, Working, Growing, Busy
<1>l. \A d \in Dirs : dirs'[d].live = dirs[d].live
  BY <1>2
<1>10. OwnedLive'
  BY SMTT(30), <1>i, <1>0, <1>f, <1>l, <1>5, <1>6, <1>9 DEF OwnedLive
<1>11. OneOwner'
  BY SMTT(30), <1>i, <1>0, <1>f, <1>5, <1>6, <1>9 DEF OneOwner
<1>12. LiveOwned'
  <2>. SUFFICES ASSUME NEW d \in Dirs, dirs[d].live = 1
                PROVE  \E q \in Procs : \/ Alive(q)' /\ pgdir'[q] = d
                                        \/ Working(q)' /\ loc'[q].dir = d
    BY ZenonT(60), <1>l DEF LiveOwned
  <2>1. PICK q \in Procs : (Alive(q) /\ pgdir[q] = d) \/ (Working(q) /\ loc[q].dir = d)
    BY ZenonT(60), <1>i DEF LiveOwned
  <2>2. CASE Alive(q) /\ pgdir[q] = d
    BY Zenon, <2>2, <1>6, <1>9
  <2>3. CASE Working(q) /\ loc[q].dir = d /\ q # p
    BY Zenon, <2>3, <1>5, <1>9
  <2>4. CASE d = f
    BY ZenonT(60), <2>4, <1>6, <1>9
  <2>. QED
    BY ZenonT(60), <2>1, <2>2, <2>3, <2>4, <1>f
<1>13. Busy'
  <2>1. \A q \in Procs : pc'[q] # "user" => q # p /\ q # n /\ pc[q] # "user"
    BY Zenon, <1>i, <1>n, <1>5 DEF Busy
  <2>2. \A q \in Procs : pc'[q] # "user" => state'[q] \in {"RUNNABLE", "RUNNING"}
    BY Zenon, <1>i, <1>7, <2>1 DEF Busy
  <2>3. \A q \in Procs : Growing(q)' => q # p /\ q # n /\ Growing(q)
    BY Zenon, <1>9, <2>1 DEF Growing
  <2>4. \A q \in Procs : Growing(q)' => loc'[q].dir = pgdir'[q]
    BY SMTT(30), <1>i, <1>5, <1>6, <2>3 DEF Busy
  <2>5. \A q \in Procs : pc'[q] = "copy" => pc[q] = "copy" /\ loc'[q] = loc[q] /\ loc[q].np # n
    BY SMTT(30), <1>0, <1>i, <1>n, <1>5 DEF Busy
  <2>6. \A q \in Procs : pc'[q] = "copy" => loc'[q].np \in Procs /\ state'[loc'[q].np] = "EMBRYO"
    BY SMTT(30), <1>i, <1>7, <2>5 DEF Busy
  <2>. QED
    BY SMTT(90), <1>i, <2>2, <2>4, <2>5, <2>6 DEF Busy
<1>14. OnCpus'
  <2>1. ASSUME NEW c \in CPUs, on[c] # 0
        PROVE  /\ state'[on[c]] = "RUNNING"
               /\ cr3[c] = pgdir'[on[c]] \/ (pc'[on[c]] = "switch" /\ cr3[c] = loc'[on[c]].dir)
    <3>1. PICK r \in Procs : r = on[c]
      BY Zenon, <1>1, <2>1 DEF TypeOK
    <3>2. /\ state[r] = "RUNNING" /\ r # n
          /\ cr3[c] = pgdir[r] \/ (pc[r] = "switch" /\ cr3[c] = loc[r].dir)
      BY ZenonT(60), <1>i, <1>n, <2>1, <3>1 DEF OnCpus
    <3>3. pc[r] = "switch" => pc'[r] = "switch" /\ loc'[r] = loc[r]
      BY ZenonT(30), <1>0, <1>5
    <3>. QED
      BY ZenonT(60), <1>6, <1>7, <3>1, <3>2, <3>3
  <2>. QED
    BY ZenonT(60), <1>i, <1>2, <2>1 DEF OnCpus
<1>. QED
  BY <1>8, <1>10, <1>11, <1>12, <1>13, <1>14 DEF Inv

-----------------------------------------------------------------------------
(* exit(), wait() and the scheduler *)

\* A process leaves a CPU: it is RUNNABLE, or a ZOMBIE in no call.
LEMMA LeavesInv ==
    ASSUME Inv, NEW c \in CPUs, NEW p \in Procs, on[c] = p,
           NEW st \in {"RUNNABLE", "ZOMBIE"}, st = "ZOMBIE" => pc[p] = "user",
           state' = [state EXCEPT ![p] = st],
           on' = [on EXCEPT ![c] = 0], cr3' = [cr3 EXCEPT ![c] = 0],
           dirs' = dirs, pgdir' = pgdir, sigretAdd' = sigretAdd, pc' = pc, loc' = loc
    PROVE  Inv'
<1>i. TypeOK /\ OwnedLive /\ OneOwner /\ LiveOwned /\ Busy /\ OnCpus
  BY Zenon DEF Inv
<1>0. p # 0 /\ state[p] = "RUNNING"
  BY Zenon, <1>i, DirsAreNumbers DEF OnCpus
<1>1. /\ state' \in [Procs -> States]
      /\ \A q \in Procs : state'[q] = IF q = p THEN st ELSE state[q]
  BY Zenon, <1>i DEF TypeOK, States
<1>2. /\ on' \in [CPUs -> Procs \cup {0}] /\ cr3' \in [CPUs -> Dirs \cup {0}]
      /\ \A e \in CPUs : on'[e] = IF e = c THEN 0 ELSE on[e]
      /\ \A e \in CPUs : cr3'[e] = IF e = c THEN 0 ELSE cr3[e]
  BY Zenon, <1>i DEF TypeOK
<1>3. TypeOK'
  BY Zenon, <1>i, <1>1, <1>2 DEF TypeOK
<1>4. /\ \A q \in Procs : Alive(q)' <=> Alive(q)
      /\ \A q \in Procs : Working(q)' <=> Working(q)
      /\ \A q \in Procs : Growing(q)' <=> Growing(q)
  BY Zenon, <1>0, <1>1 DEF Alive, Working, Growing
<1>5. OwnedLive' /\ OneOwner' /\ LiveOwned'
  BY Zenon, <1>i, <1>4, OwnersKept
<1>6. Busy'
  <2>1. \A q \in Procs : pc[q] # "user" => state'[q] \in {"RUNNABLE", "RUNNING"}
    BY Zenon, <1>i, <1>1 DEF Busy
  <2>2. \A q \in Procs : state[q] = "EMBRYO" => state'[q] = "EMBRYO"
    BY ZenonT(60), <1>0, <1>1
  <2>. QED
    BY ZenonT(30), <1>i, <1>4, <2>1, <2>2 DEF Busy
<1>7. OnCpus'
  <2>1. \A e \in CPUs : on'[e] # 0 => e # c /\ on'[e] = on[e] /\ on[e] \in Procs /\ on[e] # p
    BY SMTT(30), <1>0, <1>2, <1>i DEF OnCpus, TypeOK
  <2>. QED
    BY SMTT(30), <1>i, <1>1, <1>2, <2>1 DEF OnCpus
<1>. QED
  BY <1>3, <1>5, <1>6, <1>7 DEF Inv

\* exit() makes a zombie that still owns its directory.
LEMMA ExitInv ==
    ASSUME Inv, NEW p \in Procs, Exit(p)
    PROVE  Inv'
<1>0. Running(p) /\ pc[p] = "user"
  BY Zenon DEF Exit, InUser
<1>1. PICK c \in CPUs : c = CpuOf(p) /\ on[c] = p
  BY Zenon, <1>0, RunsOnCpu DEF Inv
<1>2. /\ state' = [state EXCEPT ![p] = "ZOMBIE"]
      /\ on' = [on EXCEPT ![c] = 0] /\ cr3' = [cr3 EXCEPT ![c] = 0]
      /\ dirs' = dirs /\ pgdir' = pgdir /\ sigretAdd' = sigretAdd /\ pc' = pc /\ loc' = loc
     
  BY Zenon, <1>1 DEF Exit
<1>. QED
  BY Zenon, <1>0, <1>1, <1>2, LeavesInv

\* yield() leaves the CPU, which goes back to the directory kpgdir.
LEMMA YieldInv ==
    ASSUME Inv, NEW c \in CPUs, Yield(c)
    PROVE  Inv'
<1>1. PICK p \in Procs : on[c] = p
  BY DEF Yield, Inv, TypeOK
<1>2. /\ state' = [state EXCEPT ![p] = "RUNNABLE"]
      /\ on' = [on EXCEPT ![c] = 0] /\ cr3' = [cr3 EXCEPT ![c] = 0]
      /\ dirs' = dirs /\ pgdir' = pgdir /\ sigretAdd' = sigretAdd /\ pc' = pc /\ loc' = loc
     
  BY <1>1 DEF Yield
<1>. QED
  BY Zenon, <1>1, <1>2, LeavesInv

\* scheduler() loads the directory of the process it chose.
LEMMA DispatchInv ==
    ASSUME Inv, NEW c \in CPUs, NEW p \in Procs, Dispatch(c, p)
    PROVE  Inv'
<1>i. TypeOK /\ OwnedLive /\ OneOwner /\ LiveOwned /\ Busy /\ OnCpus
  BY DEF Inv
<1>0. /\ on[c] = 0 /\ state[p] = "RUNNABLE"
      /\ state' = [state EXCEPT ![p] = "RUNNING"]
      /\ on' = [on EXCEPT ![c] = p] /\ cr3' = [cr3 EXCEPT ![c] = pgdir[p]]
      /\ dirs' = dirs /\ pgdir' = pgdir /\ sigretAdd' = sigretAdd /\ pc' = pc /\ loc' = loc
     
  BY Zenon DEF Dispatch
<1>d. pgdir[p] \in Dirs
  BY Zenon, <1>0, <1>i DEF OwnedLive, Alive
<1>1. /\ state' \in [Procs -> States]
      /\ \A q \in Procs : state'[q] = IF q = p THEN "RUNNING" ELSE state[q]
  BY Zenon, <1>i, <1>0 DEF TypeOK, States
<1>2. /\ on' \in [CPUs -> Procs \cup {0}] /\ cr3' \in [CPUs -> Dirs \cup {0}]
      /\ \A e \in CPUs : on'[e] = IF e = c THEN p ELSE on[e]
      /\ \A e \in CPUs : cr3'[e] = IF e = c THEN pgdir[p] ELSE cr3[e]
  BY Zenon, <1>i, <1>0, <1>d DEF TypeOK
<1>3. TypeOK'
  BY Zenon, <1>i, <1>0, <1>1, <1>2 DEF TypeOK
<1>4. /\ \A q \in Procs : Alive(q)' <=> Alive(q)
      /\ \A q \in Procs : Working(q)' <=> Working(q)
      /\ \A q \in Procs : Growing(q)' <=> Growing(q)
  BY Zenon, <1>0, <1>1 DEF Alive, Working, Growing
<1>5. OwnedLive' /\ OneOwner' /\ LiveOwned'
  BY ZenonT(30), <1>i, <1>0, <1>4, OwnersKept
<1>6. Busy'
  <2>1. \A q \in Procs : pc[q] # "user" => state'[q] \in {"RUNNABLE", "RUNNING"}
    BY Zenon, <1>i, <1>1 DEF Busy
  <2>2. \A q \in Procs : state[q] = "EMBRYO" => state'[q] = "EMBRYO"
    BY Zenon, <1>0, <1>1
  <2>. QED
    BY ZenonT(60), <1>i, <1>0, <1>4, <2>1, <2>2 DEF Busy
<1>7. OnCpus'
  <2>1. \A e \in CPUs : e # c /\ on[e] # 0 => on[e] \in Procs /\ on[e] # p
    BY Zenon, <1>0, <1>i DEF OnCpus, TypeOK
  <2>2. p # 0
    BY DirsAreNumbers
  <2>. QED
    BY SMTT(30), <1>i, <1>0, <1>1, <1>2, <2>1, <2>2 DEF OnCpus
<1>. QED
  BY <1>3, <1>5, <1>6, <1>7 DEF Inv

\* wait() frees the image of a zombie, which nobody else owns and no CPU has
\* loaded.
LEMMA WaitInv ==
    ASSUME Inv, NEW p \in Procs, NEW q \in Procs, Wait(p, q)
    PROVE  Inv'
<1>i. TypeOK /\ OwnedLive /\ OneOwner /\ LiveOwned /\ Busy /\ OnCpus
  BY Zenon DEF Inv
<1>0. /\ state[q] = "ZOMBIE"
      /\ dirs' = [dirs EXCEPT ![pgdir[q]] = NoSpace]
      /\ state' = [state EXCEPT ![q] = "UNUSED"]
      /\ pgdir' = pgdir /\ sigretAdd' = sigretAdd /\ pc' = pc /\ loc' = loc
      /\ on' = on /\ cr3' = cr3
  BY Zenon DEF Wait
<1>z. Alive(q) /\ ~Working(q) /\ ~Growing(q)
  BY Zenon, <1>0, <1>i DEF Alive, Busy, Working, Growing
<1>f. PICK f \in Dirs : f = pgdir[q]
  BY Zenon, <1>z, <1>i DEF OwnedLive
<1>1. /\ state' \in [Procs -> States]
      /\ \A r \in Procs : state'[r] = IF r = q THEN "UNUSED" ELSE state[r]
  BY <1>i, <1>0 DEF TypeOK, States
<1>2. /\ dirs' = [d \in Dirs |-> dirs'[d]]
      /\ \A d \in Dirs : IsSpace(dirs'[d]) /\ dirs'[d].live \in {0, 1}
      /\ \A d \in Dirs : dirs'[d] = IF d = f THEN NoSpace ELSE dirs[d]
  <2>1. NoSpace.live \in {0, 1} /\ dirs' = [dirs EXCEPT ![f] = NoSpace]
    BY <1>0, <1>f, NewSpaces
  <2>. QED
    BY ZenonT(60), <1>i, <2>1, NewSpaces, DirsTyped
<1>3. TypeOK'
  BY <1>i, <1>0, <1>1, <1>2 DEF TypeOK
<1>4. /\ ~Alive(q)'
      /\ \A r \in Procs : r # q => (Alive(r)' <=> Alive(r))
      /\ \A r \in Procs : Working(r)' <=> Working(r)
      /\ \A r \in Procs : Growing(r)' <=> Growing(r)
  BY Zenon, <1>0, <1>1 DEF Alive, Working, Growing
<1>5. /\ \A r \in Procs : r # q /\ Alive(r) => pgdir[r] \in Dirs /\ pgdir[r] # f
      /\ \A r \in Procs : Working(r) => loc[r].dir \in Dirs /\ loc[r].dir # f
  BY Zenon, <1>i, <1>z, <1>f DEF OwnedLive, OneOwner
<1>6. OwnedLive'
  BY SMTT(30), <1>i, <1>0, <1>2, <1>4, <1>5 DEF OwnedLive
<1>7. OneOwner'
  BY ZenonT(60), <1>i, <1>0, <1>4 DEF OneOwner
<1>8. LiveOwned'
  <2>. SUFFICES ASSUME NEW d \in Dirs, dirs'[d].live = 1
                PROVE  \E r \in Procs : \/ Alive(r)' /\ pgdir'[r] = d
                                        \/ Working(r)' /\ loc'[r].dir = d
    BY DEF LiveOwned
  <2>1. d # f /\ dirs[d].live = 1
    BY SMTT(30), <1>2, NewSpaces
  <2>2. PICK r \in Procs : (Alive(r) /\ pgdir[r] = d) \/ (Working(r) /\ loc[r].dir = d)
    BY Zenon, <1>i, <2>1 DEF LiveOwned
  <2>. QED
    BY ZenonT(60), <1>0, <1>f, <1>4, <2>1, <2>2
<1>9. Busy'
  <2>1. \A r \in Procs : pc[r] # "user" => state'[r] \in {"RUNNABLE", "RUNNING"}
    BY <1>i, <1>0, <1>1 DEF Busy
  <2>2. \A r \in Procs : state[r] = "EMBRYO" => state'[r] = "EMBRYO"
    BY <1>0, <1>1
  <2>. QED
    BY ZenonT(60), <1>i, <1>0, <1>4, <2>1, <2>2 DEF Busy
<1>10. OnCpus'
  <2>1. \A c \in CPUs : on[c] # 0 => on[c] \in Procs /\ on[c] # q
    BY ZenonT(60), <1>0, <1>i DEF OnCpus, TypeOK
  <2>. QED
    BY SMTT(90), <1>i, <1>0, <1>1, <2>1 DEF OnCpus
<1>. QED
  BY <1>3, <1>6, <1>7, <1>8, <1>9, <1>10 DEF Inv

-----------------------------------------------------------------------------
(* The theorems *)

\* The first process, made by userinit(), satisfies the invariant.
LEMMA InitInv == Init => Inv
<1>. SUFFICES ASSUME Init PROVE Inv
  OBVIOUS
<1>. DEFINE s == Mappages(Kvm, 0, "user")
<1>1. IsSpace(s) /\ s.live = 1
  <2>1. LET u == Mappages(Kvm, 0, "user") IN IsSpace(u) /\ u.live = Kvm.live
    <3>1. IsSpace(Kvm)
      BY NewSpaces
    <3>2. \A v, perm : LET u == Mappages(Kvm, v, perm)
                       IN  IsSpace(u) /\ u.live = Kvm.live
      BY Zenon, <3>1, SpacesKept
    <3>. QED
      BY <3>2, Zenon
  <2>. QED
    BY <2>1, NewSpaces, Zenon
<1>2. \A d \in Dirs : dirs[d] = IF d = 1 THEN s ELSE NoSpace
  BY Zenon DEF Init
<1>. HIDE DEF s
<1>3. /\ \A p \in Procs : state[p] = IF p = 1 THEN "RUNNABLE" ELSE "UNUSED"
      /\ \A p \in Procs : pgdir[p] = IF p = 1 THEN 1 ELSE 0
      /\ \A p \in Procs : pc[p] = "user" /\ loc[p] = NoLocals /\ sigretAdd[p] = 0
      /\ \A c \in CPUs : on[c] = 0 /\ cr3[c] = 0
      /\ 1 \in Procs /\ 1 \in Dirs
  BY Zenon, DirsAreNumbers DEF Init, initproc
<1>4. TypeOK
  <2>1. dirs = [d \in Dirs |-> dirs[d]]
    BY Zenon DEF Init
  <2>2. \A d \in Dirs : IsSpace(dirs[d]) /\ dirs[d].live \in {0, 1}
    BY Zenon, <1>1, <1>2, NewSpaces
  <2>3. /\ state \in [Procs -> States] /\ pgdir \in [Procs -> Dirs \cup {0}]
        /\ pc \in [Procs -> Places]
    BY SMTT(30), <1>3 DEF Init, States, Places
  <2>4. loc = [p \in Procs |-> loc[p]] /\ \A p \in Procs : IsLocals(loc[p])
    BY ZenonT(60), <1>3, NewLocals DEF Init
  <2>5. /\ on \in [CPUs -> Procs \cup {0}] /\ cr3 \in [CPUs -> Dirs \cup {0}]
        /\ sigretAdd = [p \in Procs |-> sigretAdd[p]]
    BY Zenon DEF Init
  <2>. QED
    BY Zenon, <2>1, <2>2, <2>3, <2>4, <2>5 DEF TypeOK
<1>5. /\ \A p \in Procs : Alive(p) <=> p = 1
      /\ \A p \in Procs : ~Working(p) /\ ~Growing(p)
  BY Zenon, <1>3 DEF Alive, Working, Growing
<1>6. OwnedLive /\ OneOwner
  BY SMTT(30), <1>1, <1>2, <1>3, <1>5 DEF OwnedLive, OneOwner
<1>7. LiveOwned
  BY SMTT(30), <1>2, <1>3, <1>5, NewSpaces DEF LiveOwned
<1>8. Busy
  BY Zenon, <1>3, <1>5 DEF Busy
<1>9. OnCpus
  BY Zenon, <1>3 DEF OnCpus
<1>. QED
  BY Zenon, <1>4, <1>6, <1>7, <1>8, <1>9 DEF Inv

\* A step that changes nothing keeps the invariant.
LEMMA StutterInv ==
    ASSUME Inv, UNCHANGED vars
    PROVE  Inv'
<1>. USE DEF vars, procVars
<1>1. TypeOK'
  BY ZenonT(60) DEF Inv, TypeOK
<1>2. OwnedLive' /\ OneOwner' /\ LiveOwned'
  BY SMTT(90) DEF Inv, OwnedLive, OneOwner, LiveOwned, Alive, Working, Growing
<1>3. Busy' /\ OnCpus'
  BY Zenon DEF Inv, Busy, OnCpus, Growing
<1>. QED
  BY Zenon, <1>1, <1>2, <1>3 DEF Inv

\* Every step keeps the invariant.
LEMMA NextInv ==
    ASSUME Inv, [Next]_vars
    PROVE  Inv'
<1>1. ASSUME NEW p \in Procs,
             \/ AllocPage(p) \/ AllocFails(p) \/ GrowDone(p)
             \/ \E n \in Grows : Grow(p, n) \/ Shrink(p, n)
             \/ \E prog \in Programs : Exec(p, prog)
             \/ LoadHeader(p) \/ LoadSegment(p) \/ StackReady(p)
      PROVE  Inv'
  BY ZenonT(60), <1>1, AllocPageInv, AllocFailsInv, GrowDoneInv, GrowInv, ShrinkInv, ExecInv,
     LoadHeaderInv, LoadSegmentInv, StackReadyInv
<1>2. ASSUME NEW p \in Procs,
             \/ \E args \in ArgSizes : PushArgs(p, args)
             \/ Switchuvm(p) \/ FreeOld(p)
             \/ \E np \in Procs : Fork(p, np)
             \/ CopyPage(p) \/ ForkDone(p) \/ Exit(p)
             \/ \E q \in Procs : Wait(p, q)
      PROVE  Inv'
  BY SMTT(30), <1>2, PushArgsInv, SwitchuvmInv, FreeOldInv, ForkInv, CopyPageInv, ForkDoneInv,
     ExitInv, WaitInv
<1>3. ASSUME NEW c \in CPUs, Yield(c) \/ \E p \in Procs : Dispatch(c, p)
      PROVE  Inv'
  BY <1>3, YieldInv, DispatchInv
<1>. QED
  BY Zenon, <1>1, <1>2, <1>3, StutterInv DEF Next

\* Ownership of the page directories, and what it rests on, holds for ever.
THEOREM Invariance == Spec => []Inv
  BY InitInv, NextInv, PTL DEF Spec

\* The page table a CPU has loaded has not been freed and is its process's own,
\* whatever exec(), wait() and exit() do on the other CPUs.
THEOREM LoadedTablesLive == Spec => []LoadedTableLives
<1>1. Inv => LoadedTableLives
  <2>. SUFFICES ASSUME Inv, NEW c \in CPUs
                PROVE  IF on[c] = 0 THEN cr3[c] = 0
                       ELSE /\ dirs[cr3[c]].live = 1
                            /\ cr3[c] = pgdir[on[c]] \/ (pc[on[c]] = "switch" /\ cr3[c] = loc[on[c]].dir)
                            /\ \A p \in Procs : state[p] \notin {"UNUSED", "EMBRYO"} /\ p # on[c] => pgdir[p] # cr3[c]
    BY DEF LoadedTableLives
  <2>i. TypeOK /\ OwnedLive /\ OneOwner /\ OnCpus
    BY Zenon DEF Inv
  <2>1. CASE on[c] = 0
    BY Zenon, <2>i, <2>1 DEF OnCpus
  <2>2. CASE on[c] # 0
    <3>1. PICK r \in Procs : r = on[c]
      BY Zenon, <2>i, <2>2 DEF TypeOK
    <3>2. /\ state[r] = "RUNNING" /\ Alive(r)
          /\ cr3[c] = pgdir[r] \/ (pc[r] = "switch" /\ cr3[c] = loc[r].dir /\ Working(r))
      BY Zenon, <2>i, <2>2, <3>1 DEF OnCpus, Alive, Working, Growing
    <3>3. dirs[cr3[c]].live = 1
      BY Zenon, <2>i, <3>2 DEF OwnedLive
    <3>4. \A p \in Procs : state[p] \notin {"UNUSED", "EMBRYO"} => Alive(p)
      BY Zenon, <2>i DEF TypeOK, States, Alive
    <3>5. \A p \in Procs : state[p] \notin {"UNUSED", "EMBRYO"} /\ p # r => pgdir[p] # cr3[c]
      BY ZenonT(30), <2>i, <3>2, <3>4 DEF OneOwner
    <3>. QED
      BY SMTT(30), <2>2, <3>1, <3>2, <3>3, <3>5
  <2>. QED
    BY ZenonT(30), <2>1, <2>2
<1>. QED
  BY <1>1, Invariance, PTL
=============================================================================
