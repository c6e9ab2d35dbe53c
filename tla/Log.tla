-------------------------------- MODULE Log --------------------------------
(* The write-ahead log of log.c over the buffer cache of bio.c: begin_op,  *)
(* log_write and end_op called by several processes, the group commit run  *)
(* by the last of them, a power failure at any point, and the recovery     *)
(* that the first process runs after a restart.                            *)
(*                                                                         *)
(* Every section under log.lock is one step, and so is every bwrite(): a   *)
(* block is one disk sector (BSIZE 512) and is written whole or not at     *)
(* all.  log_write() reads log.lh.n before it takes the lock, so it is two *)
(* steps.  A file system operation is what it does to blocks: any number   *)
(* of bread / modify / log_write / brelse rounds, on at most OpBlocks      *)
(* different blocks.                                                       *)
(*                                                                         *)
(* A disk block is named by its distance from log.start: 0 is the header,  *)
(* 1 .. LogSize - 1 are the log blocks, and the home blocks come after     *)
(* them, so a transaction that outgrows the log is written over the first  *)
(* home blocks.                                                            *)
EXTENDS Naturals, Sequences, FiniteSets

CONSTANTS
    Procs,        \* processes that make file system calls
    InitProc,     \* the first process, which runs initlog() from forkret()
    Blocks,       \* home blocks, at LogSize or beyond
    Vals,         \* contents of a block
    NoBuf,        \* the block is not in the buffer cache
    NoBlock,      \* the process holds no buffer
    MAXOPBLOCKS,  \* what begin_op() reserves for an operation
    LOGSIZE,      \* entries of struct logheader
    LogSize,      \* log.size = sb.nlog: the header block and the log blocks
    OpBlocks      \* the most different blocks an operation logs

ASSUME LogAssumption ==
    /\ IsFiniteSet(Procs) /\ InitProc \in Procs
    /\ NoBuf \notin Vals /\ NoBlock \notin Blocks
    /\ \A b \in Blocks : b \in Nat /\ b >= LogSize
    /\ MAXOPBLOCKS \in Nat \ {0} /\ LOGSIZE \in Nat \ {0}
    /\ MAXOPBLOCKS <= LOGSIZE
    /\ LogSize \in Nat \ {0} /\ OpBlocks \in Nat

VARIABLES
    disk,         \* home blocks on disk
    logDisk,      \* log blocks on disk
    headDisk,     \* header block on disk: the blocks of a committed transaction
    cache,        \* buffer cache
    dirty,        \* blocks whose buffer is B_DIRTY, hence never recycled
    lh,           \* log.lh: block[0..n-1]
    outstanding,  \* log.outstanding
    committing,   \* log.committing
    pc,           \* where each process is
    buf,          \* the buffer each process holds locked
    wrote,        \* blocks the process's operation has written
    tail,         \* loop index of write_log() and install_trans()
    phase,        \* "up" once initlog() has returned
    panicked      \* the message of a panic, which halts every CPU

durableVars  == <<disk, logDisk, headDisk>>
bufVars      == <<cache, dirty, buf>>
logVars      == <<lh, outstanding, committing>>
controlVars  == <<tail, phase, panicked>>
vars == <<durableVars, bufVars, logVars, controlVars, pc, wrote>>

Slots == 1 .. LogSize - 1
InOp  == {"op", "check", "append"}
InCommit == {"write_log", "write_head", "install", "erase", "finish"}
PCs == {"idle", "begin", "sleeping"} \cup InOp \cup InCommit

Logged == {lh[i] : i \in DOMAIN lh}
Locked == {buf[p] : p \in Procs} \ {NoBlock}

\* What bread(b) returns: the cached contents, else the home block.
View(b) == IF cache[b] = NoBuf THEN disk[b] ELSE cache[b]

TypeOK ==
    /\ disk \in [Blocks -> Vals]
    /\ logDisk \in [Slots -> Vals]
    /\ headDisk \in Seq(Blocks)
    /\ cache \in [Blocks -> Vals \cup {NoBuf}]
    /\ dirty \subseteq Blocks
    /\ lh \in Seq(Blocks)
    /\ outstanding \in Nat
    /\ committing \in {0, 1}
    /\ pc \in [Procs -> PCs]
    /\ buf \in [Procs -> Blocks \cup {NoBlock}]
    /\ wrote \in [Procs -> SUBSET Blocks]
    /\ tail \in [Procs -> Nat]
    /\ phase \in {"recovering", "up"}
    /\ panicked \in {"no", "too big a transaction", "log_write outside of trans",
                     "log.committing"}

-----------------------------------------------------------------------------
\* Power on after mkfs, which leaves an empty log header; memory holds nothing.
Init ==
    /\ disk \in [Blocks -> Vals]
    /\ \E v \in Vals : logDisk = [i \in Slots |-> v]
    /\ headDisk = <<>>
    /\ cache = [b \in Blocks |-> NoBuf]
    /\ dirty = {}
    /\ lh = <<>>
    /\ outstanding = 0
    /\ committing = 0
    /\ pc = [p \in Procs |-> "idle"]
    /\ buf = [p \in Procs |-> NoBlock]
    /\ wrote = [p \in Procs |-> {}]
    /\ tail = [p \in Procs |-> 1]
    /\ phase = "recovering"
    /\ panicked = "no"

Goto(p, l) == pc' = [pc EXCEPT ![p] = l]

\* wakeup(&log): every sleeper goes back to the top of begin_op()'s loop.
Woken(f) == [p \in Procs |-> IF f[p] = "sleeping" THEN "begin" ELSE f[p]]

\* The reservation test of begin_op().
NoSpace == Len(lh) + (outstanding + 1) * MAXOPBLOCKS > LOGSIZE

\* Mutant: begin_op() does not wait for a commit.
BeginOpDuringCommit(p) ==
    /\ phase = "up"
    /\ pc[p] \in {"idle", "begin"}
    /\ ~NoSpace
    /\ Goto(p, "op")
    /\ outstanding' = outstanding + 1
    /\ UNCHANGED <<durableVars, bufVars, lh, committing, controlVars, wrote>>

\* begin_op(): sleep on &log, or join the operations in progress.
BeginOp(p) ==
    /\ phase = "up"
    /\ pc[p] \in {"idle", "begin"}
    /\ \/ /\ committing = 1 \/ NoSpace
          /\ Goto(p, "sleeping")
          /\ UNCHANGED outstanding
       \/ /\ committing = 0 /\ ~NoSpace
          /\ Goto(p, "op")
          /\ outstanding' = outstanding + 1
    /\ UNCHANGED <<durableVars, bufVars, lh, committing, controlVars, wrote>>

\* bread() of a block nobody else has locked, then a change to b->data.
Modify(p, b, v) ==
    /\ pc[p] = "op"
    /\ b \notin Locked
    /\ Cardinality(wrote[p] \cup {b}) <= OpBlocks
    /\ cache' = [cache EXCEPT ![b] = v]
    /\ buf' = [buf EXCEPT ![p] = b]
    /\ wrote' = [wrote EXCEPT ![p] = @ \cup {b}]
    /\ Goto(p, "check")
    /\ UNCHANGED <<durableVars, dirty, logVars, controlVars>>

\* Mutant: only the in-memory header is tested for room.
LogWritePanicHeader ==
    IF Len(lh) >= LOGSIZE THEN "too big a transaction"
    ELSE IF outstanding < 1 THEN "log_write outside of trans"
    ELSE "no"

\* The tests of log_write(), made before it acquires log.lock.
LogWritePanic ==
    IF Len(lh) >= LOGSIZE \/ Len(lh) >= LogSize - 1 THEN "too big a transaction"
    ELSE IF outstanding < 1 THEN "log_write outside of trans"
    ELSE "no"

LogWriteCheck(p) ==
    /\ pc[p] = "check"
    /\ panicked' = LogWritePanic
    /\ Goto(p, IF LogWritePanic = "no" THEN "append" ELSE "check")
    /\ UNCHANGED <<durableVars, bufVars, logVars, tail, phase, wrote>>

\* The locked part of log_write(): absorb or append, pin; the caller's brelse().
LogWriteAppend(p) ==
    /\ pc[p] = "append"
    /\ lh' = IF buf[p] \in Logged THEN lh ELSE Append(lh, buf[p])
    /\ dirty' = dirty \cup {buf[p]}
    /\ buf' = [buf EXCEPT ![p] = NoBlock]
    /\ Goto(p, "op")
    /\ UNCHANGED <<durableVars, cache, outstanding, committing, controlVars, wrote>>

\* Mutant: commit() writes the header without having written the log.
EndOpHeaderOnly(p) ==
    /\ pc[p] = "op"
    /\ outstanding' = outstanding - 1
    /\ wrote' = [wrote EXCEPT ![p] = {}]
    /\ committing' = IF outstanding = 1 THEN 1 ELSE 0
    /\ pc' = IF outstanding # 1 THEN Woken([pc EXCEPT ![p] = "idle"])
             ELSE [pc EXCEPT ![p] = IF lh = <<>> THEN "finish" ELSE "write_head"]
    /\ UNCHANGED <<durableVars, bufVars, lh, controlVars>>

\* Mutant: end_op() does not wake begin_op() when other operations go on.
EndOpSilent(p) ==
    /\ pc[p] = "op"
    /\ outstanding' = outstanding - 1
    /\ wrote' = [wrote EXCEPT ![p] = {}]
    /\ \/ /\ outstanding = 1
          /\ committing' = 1
          /\ Goto(p, IF lh = <<>> THEN "finish" ELSE "write_log")
          /\ tail' = [tail EXCEPT ![p] = 1]
       \/ /\ outstanding # 1
          /\ Goto(p, "idle")
          /\ UNCHANGED <<committing, tail>>
    /\ UNCHANGED <<durableVars, bufVars, lh, phase, panicked>>

\* Mutant: the last operation out does not call commit().
EndOpNoCommit(p) ==
    /\ pc[p] = "op"
    /\ outstanding' = outstanding - 1
    /\ wrote' = [wrote EXCEPT ![p] = {}]
    /\ committing' = IF outstanding = 1 THEN 1 ELSE 0
    /\ pc' = IF outstanding = 1 THEN [pc EXCEPT ![p] = "finish"]
             ELSE Woken([pc EXCEPT ![p] = "idle"])
    /\ UNCHANGED <<durableVars, bufVars, lh, controlVars>>

\* end_op() up to its first release(): the last operation out commits.
EndOp(p) ==
    /\ pc[p] = "op"
    /\ outstanding' = outstanding - 1
    /\ wrote' = [wrote EXCEPT ![p] = {}]
    /\ panicked' = IF committing = 1 THEN "log.committing" ELSE "no"
    /\ \/ /\ outstanding = 1
          /\ committing' = 1
          /\ Goto(p, IF lh = <<>> THEN "finish" ELSE "write_log")
          /\ tail' = [tail EXCEPT ![p] = 1]
       \/ /\ outstanding # 1
          /\ pc' = Woken([pc EXCEPT ![p] = "idle"])
          /\ UNCHANGED <<committing, tail>>
    /\ UNCHANGED <<durableVars, bufVars, lh, phase>>

\* One round of write_log(): cache block to log block.  Past the log the block
\* written is the home block there, unless it is the one being copied: then the
\* second bread() waits for the buffer lock that the first one took.
WriteLog(p) ==
    LET b == lh[tail[p]] IN
    /\ pc[p] = "write_log"
    /\ \/ /\ tail[p] \in Slots
          /\ logDisk' = [logDisk EXCEPT ![tail[p]] = View(b)]
          /\ cache' = [cache EXCEPT ![b] = View(b)]
          /\ UNCHANGED <<disk, dirty>>
       \/ /\ tail[p] \in Blocks \ {b}
          /\ disk' = [disk EXCEPT ![tail[p]] = View(b)]
          /\ cache' = [cache EXCEPT ![b] = View(b), ![tail[p]] = View(b)]
          /\ dirty' = dirty \ {tail[p]}
          /\ UNCHANGED logDisk
    /\ tail' = [tail EXCEPT ![p] = @ + 1]
    /\ Goto(p, IF tail[p] = Len(lh) THEN "write_head" ELSE "write_log")
    /\ UNCHANGED <<headDisk, buf, logVars, phase, panicked, wrote>>

\* write_head() with n > 0: "the true point at which the current transaction
\* commits".
WriteHead(p) ==
    /\ pc[p] = "write_head"
    /\ headDisk' = lh
    /\ tail' = [tail EXCEPT ![p] = 1]
    /\ Goto(p, "install")
    /\ UNCHANGED <<disk, logDisk, bufVars, logVars, phase, panicked, wrote>>

\* One round of install_trans(), run by commit() and by recovery: log block to
\* home block; the bwrite() clears B_DIRTY.  Past the log the block read is the
\* home block there, with the same wait when it is the one to be written.
Install(p) ==
    LET b == lh[tail[p]] IN
    /\ pc[p] = "install"
    /\ \/ /\ tail[p] \in Slots
          /\ disk' = [disk EXCEPT ![b] = logDisk[tail[p]]]
          /\ cache' = [cache EXCEPT ![b] = logDisk[tail[p]]]
       \/ /\ tail[p] \in Blocks \ {b}
          /\ disk' = [disk EXCEPT ![b] = View(tail[p])]
          /\ cache' = [cache EXCEPT ![b] = View(tail[p]), ![tail[p]] = View(tail[p])]
    /\ dirty' = dirty \ {b}
    /\ tail' = [tail EXCEPT ![p] = @ + 1]
    /\ Goto(p, IF tail[p] = Len(lh) THEN "erase" ELSE "install")
    /\ UNCHANGED <<logDisk, headDisk, buf, logVars, phase, panicked, wrote>>

\* log.lh.n = 0; write_head(): back to end_op(), or to initlog()'s caller.
Erase(p) ==
    /\ pc[p] = "erase"
    /\ lh' = <<>>
    /\ headDisk' = <<>>
    /\ Goto(p, IF phase = "up" THEN "finish" ELSE "idle")
    /\ phase' = "up"
    /\ UNCHANGED <<disk, logDisk, bufVars, outstanding, committing, tail, panicked, wrote>>

\* The rest of end_op() after commit().
Finish(p) ==
    /\ pc[p] = "finish"
    /\ committing' = 0
    /\ pc' = Woken([pc EXCEPT ![p] = "idle"])
    /\ UNCHANGED <<durableVars, bufVars, lh, outstanding, controlVars, wrote>>

\* recover_from_log() up to install_trans(): read_head().
ReadHead ==
    /\ phase = "recovering"
    /\ pc[InitProc] = "idle"
    /\ lh' = headDisk
    /\ tail' = [tail EXCEPT ![InitProc] = 1]
    /\ Goto(InitProc, IF headDisk = <<>> THEN "erase" ELSE "install")
    /\ UNCHANGED <<durableVars, bufVars, outstanding, committing, phase, panicked, wrote>>

\* bget() for some other block recycles the buffer of b, which must be clean
\* and unlocked.
Recycle(b) ==
    /\ cache[b] # NoBuf
    /\ b \notin dirty \cup Locked
    /\ cache' = [cache EXCEPT ![b] = NoBuf]
    /\ UNCHANGED <<durableVars, dirty, buf, logVars, controlVars, pc, wrote>>

\* Power failure, or the reset that follows a panic: only the disk survives.
Crash ==
    /\ cache' = [b \in Blocks |-> NoBuf]
    /\ dirty' = {}
    /\ buf' = [p \in Procs |-> NoBlock]
    /\ lh' = <<>>
    /\ outstanding' = 0
    /\ committing' = 0
    /\ pc' = [p \in Procs |-> "idle"]
    /\ wrote' = [p \in Procs |-> {}]
    /\ tail' = [p \in Procs |-> 1]
    /\ phase' = "recovering"
    /\ panicked' = "no"
    /\ UNCHANGED durableVars

ProcStep(p) ==
    \/ BeginOp(p)
    \/ \E b \in Blocks, v \in Vals : Modify(p, b, v)
    \/ LogWriteCheck(p)
    \/ LogWriteAppend(p)
    \/ EndOp(p)
    \/ WriteLog(p)
    \/ WriteHead(p)
    \/ Install(p)
    \/ Erase(p)
    \/ Finish(p)

\* Everything but power failure.
Step ==
    /\ panicked = "no"
    /\ \/ \E p \in Procs : ProcStep(p)
       \/ ReadHead
       \/ \E b \in Blocks : Recycle(b)

Next == Step \/ Crash

Spec == Init /\ [][Next]_vars

\* Without power failures, and with the scheduler running every process that
\* can run: a process outside a file system call may stay there for ever.
Busy(p) == pc[p] # "idle" /\ panicked = "no" /\ ProcStep(p)

LiveSpec ==
    /\ Init /\ [][Step]_vars
    /\ WF_vars(panicked = "no" /\ ReadHead)
    /\ \A p \in Procs : WF_vars(Busy(p))

-----------------------------------------------------------------------------
(* Properties *)

\* The disk as recovery will leave it: the home blocks, overwritten by the log
\* blocks of a transaction whose header has been written.
Recovered ==
    [b \in Blocks |->
        IF \E i \in DOMAIN headDisk \cap Slots : headDisk[i] = b
        THEN logDisk[CHOOSE i \in DOMAIN headDisk \cap Slots : headDisk[i] = b]
        ELSE disk[b]]

Seen == IF phase = "up" THEN [b \in Blocks |-> View(b)] ELSE Recovered

Active == {p \in Procs : pc[p] \in InOp}

Store == INSTANCE AtomicStore
            WITH durable <- Recovered, current <- Seen, active <- Active

\* Crash atomicity: whatever the interleaving of operations, commits and power
\* failures (also during recovery), the log implements the atomic store: the
\* recovered disk only changes at write_head(), when no operation is in
\* progress, and then becomes what the file system was reading.
CrashAtomic == Store!Spec

\* commit() runs alone: while a process is between setting log.committing and
\* clearing it, no other process is inside an operation or a commit, so
\* write_log() copies blocks nobody is changing.
CommitRunsAlone ==
    phase = "up" => \A p, q \in Procs :
        pc[p] \in InCommit /\ p # q => pc[q] \notin InOp \cup InCommit

\* No lost wakeup: a process sleeping in begin_op() has a reason to sleep that
\* still holds, so every change of log.committing, log.outstanding or log.lh.n
\* that could let it in has been followed by wakeup(&log).
SleepersHaveReason ==
    \A p \in Procs : pc[p] = "sleeping" => committing = 1 \/ NoSpace

\* The transaction fits in the log blocks on disk.
LogFits == Len(lh) <= LogSize - 1

\* The entries that log_write() lets a transaction have, and the operations
\* that begin_op() lets into one.
Room == IF LOGSIZE < LogSize - 1 THEN LOGSIZE ELSE LogSize - 1
Admitted == LOGSIZE \div MAXOPBLOCKS

\* Nothing keeps a transaction inside the log but the tests that log_write()
\* makes before it takes log.lock: begin_op() counts MAXOPBLOCKS for an
\* operation whatever it goes on to write.  Processes that pass the tests
\* together overrun the room there is, by fewer blocks than begin_op() admits
\* operations.
OverrunBounded == Len(lh) < Room + Admitted

\* Once operations stop, every change has been committed and installed, and
\* nobody is left asleep in begin_op(), unless a transaction outgrew the log
\* and commit() waits for a buffer that it holds itself.
NobodyLeftBehind ==
    []LogFits /\ <>[](outstanding = 0) =>
        <>[](lh = <<>> /\ \A p \in Procs : pc[p] # "sleeping")
=============================================================================
