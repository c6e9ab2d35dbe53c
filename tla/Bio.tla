-------------------------------- MODULE Bio --------------------------------
(* The buffer cache of bio.c with its sleep locks (sleeplock.c) over the   *)
(* disk driver of ide.c: processes that read, change, write, pin and       *)
(* release blocks, the driver's queue, and the interrupt that serves it.   *)
(*                                                                         *)
(* A section under bcache.lock, under a sleep lock's spinlock or under     *)
(* idelock is one step.  A sleeping process goes back to the test of its   *)
(* loop when it is woken, also by kill().  The disk is external: it        *)
(* finishes the request it was given and interrupts.                       *)
EXTENDS Naturals, Sequences, FiniteSets

CONSTANTS
    Procs,
    Blocks,      \* disk blocks
    Bufs,        \* bcache.buf: NBUF buffers
    Vals,        \* contents of a block
    Faulty,      \* blocks that the disk may report an error for on a read
    NoBlock,     \* a buffer never used
    Nobody,      \* the sleep lock is free, the process holds no buffer
    NoRequest,   \* the disk is idle
    MaxPinned    \* the most buffers the log keeps dirty

ASSUME BioAssumption ==
    /\ NoBlock \notin Blocks /\ Nobody \notin Procs \cup Bufs
    /\ NoRequest \notin [block : Blocks, write : BOOLEAN, data : Vals]
    /\ IsFiniteSet(Bufs) /\ IsFiniteSet(Procs)
    /\ Faulty \subseteq Blocks /\ MaxPinned \in Nat

VARIABLES
    blockno,     \* b->blockno
    refcnt,      \* b->refcnt
    flags,       \* b->flags, a subset of {"B_VALID", "B_DIRTY"}
    data,        \* b->data
    lock,        \* b->lock: the process that has it
    mru,         \* the list of bcache.head, most recently used first
    idequeue,    \* buffers waiting for the disk, the active one first
    request,     \* what idestart() gave to the disk
    disk,        \* contents of the disk
    pc,          \* where each process is
    held,        \* the buffer its bread() returned or is going to return
    panicked,
    latest       \* history: what was last stored in each block

bcacheVars == <<blockno, refcnt, mru>>
ideVars == <<idequeue, request, disk>>
vars == <<bcacheVars, flags, data, lock, ideVars, pc, held, panicked, latest>>

-----------------------------------------------------------------------------
\* After binit() and ideinit().
Init ==
    /\ blockno = [b \in Bufs |-> NoBlock]
    /\ refcnt = [b \in Bufs |-> 0]
    /\ flags = [b \in Bufs |-> {}]
    /\ \E v \in Vals : data = [b \in Bufs |-> v]
    /\ lock = [b \in Bufs |-> Nobody]
    /\ mru = CHOOSE s \in [1 .. Cardinality(Bufs) -> Bufs] :
                 \A b \in Bufs : \E i \in DOMAIN s : s[i] = b
    /\ idequeue = <<>>
    /\ request = NoRequest
    /\ disk \in [Blocks -> Vals]
    /\ pc = [p \in Procs |-> "idle"]
    /\ held = [p \in Procs |-> Nobody]
    /\ panicked = "no"
    /\ latest = disk

Goto(p, l) == pc' = [pc EXCEPT ![p] = l]
At(p, l) == pc[p] = l /\ panicked = "no"

\* The list searched from bcache.head.next, and from bcache.head.prev.
First(S) == mru[CHOOSE i \in DOMAIN mru : mru[i] \in S /\ \A j \in 1 .. i - 1 : mru[j] \notin S]
Last(S) == mru[CHOOSE i \in DOMAIN mru : mru[i] \in S /\ \A j \in i + 1 .. Len(mru) : mru[j] \notin S]

\* The list after b has been taken out and put in front.
Moved(b) ==
    LET n == CHOOSE i \in DOMAIN mru : mru[i] = b
    IN  [i \in DOMAIN mru |-> IF i = 1 THEN b ELSE IF i <= n THEN mru[i - 1] ELSE mru[i]]

Cached(k) == {b \in Bufs : blockno[b] = k}

Recyclable == {b \in Bufs : refcnt[b] = 0 /\ "B_DIRTY" \notin flags[b]}

\* bget() up to acquiresleep(): the cached buffer, else the least recently used
\* one that is unused and clean.
BGetHit(p, k) ==
    /\ At(p, "idle")
    /\ Cached(k) # {}
    /\ refcnt' = [refcnt EXCEPT ![First(Cached(k))] = @ + 1]
    /\ held' = [held EXCEPT ![p] = First(Cached(k))]
    /\ Goto(p, "lock")
    /\ UNCHANGED <<blockno, mru, flags, data, lock, ideVars, panicked, latest>>

\* Mutant: B_VALID survives the recycling.
BGetMissStale(p, k) ==
    /\ At(p, "idle")
    /\ Cached(k) = {} /\ Recyclable # {}
    /\ LET b == Last(Recyclable) IN
        /\ blockno' = [blockno EXCEPT ![b] = k]
        /\ refcnt' = [refcnt EXCEPT ![b] = 1]
        /\ held' = [held EXCEPT ![p] = b]
    /\ Goto(p, "lock")
    /\ UNCHANGED <<mru, flags, data, lock, ideVars, panicked, latest>>

\* Mutant: bcache.lock was released between the two searches of bget().
BGetMissLate(p, k) ==
    /\ At(p, "idle")
    /\ Recyclable # {}
    /\ LET b == Last(Recyclable) IN
        /\ blockno' = [blockno EXCEPT ![b] = k]
        /\ flags' = [flags EXCEPT ![b] = {}]
        /\ refcnt' = [refcnt EXCEPT ![b] = 1]
        /\ held' = [held EXCEPT ![p] = b]
    /\ Goto(p, "lock")
    /\ UNCHANGED <<mru, data, lock, ideVars, panicked, latest>>

BGetMiss(p, k) ==
    /\ At(p, "idle")
    /\ Cached(k) = {} /\ Recyclable # {}
    /\ LET b == Last(Recyclable) IN
        /\ blockno' = [blockno EXCEPT ![b] = k]
        /\ flags' = [flags EXCEPT ![b] = {}]
        /\ refcnt' = [refcnt EXCEPT ![b] = 1]
        /\ held' = [held EXCEPT ![p] = b]
    /\ Goto(p, "lock")
    /\ UNCHANGED <<mru, data, lock, ideVars, panicked, latest>>

BGetPanics(p, k) ==
    /\ At(p, "idle")
    /\ Cached(k) = {} /\ Recyclable = {}
    /\ panicked' = "bget: no buffers"
    /\ UNCHANGED <<bcacheVars, flags, data, lock, ideVars, pc, held, latest>>

\* acquiresleep(), then bread()'s test of B_VALID.
AcquireSleep(p) ==
    /\ At(p, "lock")
    /\ LET b == held[p] IN
        IF lock[b] # Nobody THEN Goto(p, "lock sleep") /\ UNCHANGED lock
        ELSE /\ lock' = [lock EXCEPT ![b] = p]
             /\ Goto(p, IF "B_VALID" \in flags[b] THEN "use" ELSE "io")
    /\ UNCHANGED <<bcacheVars, flags, data, ideVars, held, panicked, latest>>

\* idestart(b): the command and, for a write, the data.
idestart(b) ==
    [block |-> blockno[b], write |-> "B_DIRTY" \in flags[b], data |-> data[b]]

Finished(b) == flags[b] = {"B_VALID"}

\* iderw() up to its sleep(): the request goes to the end of the queue, and to
\* the disk when it is the first.
Iderw(p) ==
    /\ At(p, "io")
    /\ panicked' = IF Finished(held[p]) THEN "iderw: nothing to do" ELSE "no"
    /\ idequeue' = Append(idequeue, held[p])
    /\ request' = IF idequeue = <<>> THEN idestart(held[p]) ELSE request
    /\ Goto(p, "io sleep")
    /\ UNCHANGED <<bcacheVars, flags, data, lock, disk, held, latest>>

\* Mutant: the process polls until the whole queue is served.
IderwPolls(p) ==
    /\ At(p, "io wait")
    /\ Goto(p, IF Finished(held[p]) /\ idequeue = <<>> THEN "use" ELSE "io wait")
    /\ UNCHANGED <<bcacheVars, flags, data, lock, ideVars, held, panicked, latest>>

\* The loop of iderw(), after sleep() has returned.
IderwReturns(p) ==
    /\ At(p, "io wait")
    /\ Goto(p, IF Finished(held[p]) THEN "use" ELSE "io sleep")
    /\ UNCHANGED <<bcacheVars, flags, data, lock, ideVars, held, panicked, latest>>

\* The disk finishes its request and ideintr() runs: it completes the first
\* buffer of the queue, wakes who waits for it, and starts the next.  When
\* idewait(1) sees an error no data is read, and the buffer becomes valid as it is.
Ideintr ==
    /\ request # NoRequest /\ panicked = "no"
    /\ disk' = IF request.write THEN [disk EXCEPT ![request.block] = request.data] ELSE disk
    /\ LET b == Head(idequeue) IN
        /\ \/ data' = IF "B_DIRTY" \in flags[b] THEN data
                      ELSE [data EXCEPT ![b] = disk[request.block]]
           \/ request.block \in Faulty /\ data' = data
        /\ flags' = [flags EXCEPT ![b] = {"B_VALID"}]
        /\ pc' = [p \in Procs |-> IF pc[p] = "io sleep" /\ held[p] = b THEN "io wait" ELSE pc[p]]
    /\ idequeue' = Tail(idequeue)
    /\ request' = IF Tail(idequeue) = <<>> THEN NoRequest ELSE idestart(Head(Tail(idequeue)))
    /\ UNCHANGED <<bcacheVars, lock, held, panicked, latest>>

\* The holder changes b->data and calls bwrite().
BWrite(p, v) ==
    /\ At(p, "use")
    /\ data' = [data EXCEPT ![held[p]] = v]
    /\ flags' = [flags EXCEPT ![held[p]] = @ \cup {"B_DIRTY"}]
    /\ latest' = [latest EXCEPT ![blockno[held[p]]] = v]
    /\ Goto(p, "io")
    /\ UNCHANGED <<bcacheVars, lock, ideVars, held, panicked>>

InDriver(p) == pc[p] \in {"io", "io wait", "io sleep"}

\* Dirty, and not on the way to the disk.
Pinned == {b \in Bufs : "B_DIRTY" \in flags[b] /\ ~\E p \in Procs : lock[b] = p /\ InDriver(p)}

\* The holder changes b->data and calls log_write(), which sets B_DIRTY to keep
\* the buffer until the log's own bwrite(); the log bounds how many there are.
LogWrite(p, v) ==
    /\ At(p, "use")
    /\ Cardinality(Pinned \cup {held[p]}) <= MaxPinned
    /\ data' = [data EXCEPT ![held[p]] = v]
    /\ flags' = [flags EXCEPT ![held[p]] = @ \cup {"B_DIRTY"}]
    /\ latest' = [latest EXCEPT ![blockno[held[p]]] = v]
    /\ UNCHANGED <<bcacheVars, lock, ideVars, pc, held, panicked>>

\* Mutant: nobody is woken.
BrelseUnlocksSilently(p) ==
    /\ At(p, "use")
    /\ lock' = [lock EXCEPT ![held[p]] = Nobody]
    /\ Goto(p, "drop")
    /\ UNCHANGED <<bcacheVars, flags, data, ideVars, held, panicked, latest>>

\* brelse(): releasesleep() first ...
BrelseUnlocks(p) ==
    /\ At(p, "use")
    /\ lock' = [lock EXCEPT ![held[p]] = Nobody]
    /\ pc' = [q \in Procs |-> IF q = p THEN "drop"
                              ELSE IF pc[q] = "lock sleep" /\ held[q] = held[p] THEN "lock"
                              ELSE pc[q]]
    /\ UNCHANGED <<bcacheVars, flags, data, ideVars, held, panicked, latest>>

\* ... then the reference; an unused buffer becomes the most recently used.
BrelseDrops(p) ==
    /\ At(p, "drop")
    /\ LET b == held[p] IN
        /\ refcnt' = [refcnt EXCEPT ![b] = @ - 1]
        /\ mru' = IF refcnt[b] = 1 THEN Moved(b) ELSE mru
    /\ held' = [held EXCEPT ![p] = Nobody]
    /\ Goto(p, "idle")
    /\ UNCHANGED <<blockno, flags, data, lock, ideVars, panicked, latest>>

\* kill() makes a sleeping process RUNNABLE whatever it waits for.
KillWakes(p) ==
    /\ panicked = "no"
    /\ \/ pc[p] = "lock sleep" /\ Goto(p, "lock")
       \/ pc[p] = "io sleep" /\ Goto(p, "io wait")
    /\ UNCHANGED <<bcacheVars, flags, data, lock, ideVars, held, panicked, latest>>

Halted == panicked # "no" /\ UNCHANGED vars

Next ==
    \/ \E p \in Procs, k \in Blocks : BGetHit(p, k) \/ BGetMiss(p, k) \/ BGetPanics(p, k)
    \/ \E p \in Procs, v \in Vals : BWrite(p, v) \/ LogWrite(p, v)
    \/ \E p \in Procs :
        \/ AcquireSleep(p) \/ Iderw(p) \/ IderwReturns(p)
        \/ BrelseUnlocks(p) \/ BrelseDrops(p) \/ KillWakes(p)
    \/ Ideintr
    \/ Halted

Spec == Init /\ [][Next]_vars

\* The disk answers, and a process in the driver runs.
LiveSpec ==
    /\ Spec
    /\ WF_vars(Ideintr)
    /\ \A p \in Procs : WF_vars(Iderw(p)) /\ WF_vars(IderwReturns(p))

-----------------------------------------------------------------------------
(* Properties *)

\* bget(), brelse(): a block is cached in at most one buffer, so that locking the
\* buffer is locking the block; and no reference is leaked, so the kernel stops
\* for lack of buffers only when the log or a process needs every one.
OneBufferPerBlock ==
    /\ \A k \in Blocks : Cardinality(Cached(k)) <= 1
    /\ panicked # "no" =>
        /\ panicked = "bget: no buffers"
        /\ \A b \in Bufs : b \in Pinned \/ \E p \in Procs : held[p] = b

\* bread(), bwrite(), brelse(): whoever has a buffer locked and valid sees what
\* was last stored in that block, through recycling, writing back and pinning,
\* if the disk has no read errors there.
ReadsLatest ==
    \A p \in Procs : pc[p] = "use" =>
        /\ lock[held[p]] = p
        /\ blockno[held[p]] \in Faulty \/ data[held[p]] = latest[blockno[held[p]]]

\* acquiresleep(), iderw(): a process sleeping for a lock sleeps while somebody
\* has it, and one sleeping for the disk has its request in the queue, the first
\* of which the disk is working on.
SleepersWillBeWoken ==
    /\ \A p \in Procs : pc[p] = "lock sleep" => lock[held[p]] # Nobody
    /\ \A p \in Procs : pc[p] = "io sleep" => \E i \in DOMAIN idequeue : idequeue[i] = held[p]
    /\ idequeue # <<>> => request # NoRequest /\ request.block = blockno[Head(idequeue)]

\* iderw() returns: every request is served, unless the kernel stops.
RequestsServed == \A p \in Procs : pc[p] = "io" ~> pc[p] = "use" \/ panicked # "no"
=============================================================================
