# TLA+ models of xv6-ex2

This directory holds TLA+ specifications of the xv6 kernel in this repository,
with the signals, alarms and user-level threads added to it, and of its shell;
the TLC configurations that check them on small instances; and TLAPS proofs
about the log, the buffer cache, the process table, address spaces, signals,
threads, pipes, the console and the clock for every instance. `PROJECT.json`
maps definitions to source lines and lists runs, mutants, hazards and theorems.

## The system and its parts

| part | source | what it does | here |
|---|---|---|---|
| write-ahead log | `log.c` | groups file system operations into transactions that survive a power failure | `Log`, `AtomicStore`, proofs |
| buffer cache, sleep locks | `bio.c`, `sleeplock.c` | one locked copy of each disk block | `Bio`, proofs; as the log uses them, in `Log` |
| disk driver | `ide.c` | a queue of requests and an interrupt | `Bio`, proofs |
| process table, scheduler | `proc.c`, `trap.c`, `init.c` | fork, exit, wait, kill, sleep, wakeup, one scheduler loop per CPU | `Proc`, proofs |
| memory, exec | `kalloc.c`, `vm.c`, `exec.c`, `proc.c` | page tables, sbrk, the image of a process | `Vm`, proofs |
| signals and alarms | `proc.c`, `trap.c`, `trapasm.S`, `sysproc.c`, `syscall.c` | `sigsend`, `alarm`, delivery on the way out of every trap, handlers on the user stack | `Signals`, proofs; the address of the return trampoline, in `Vm` |
| user-level threads | `uthread.c` | threads of one process, preempted by SIGALRM, chosen by lottery | `UThread`, proofs |
| inodes and directories | `fs.c`, `sysfile.c` | reference-counted files over the log | `Inode`: files of one directory |
| files and descriptors | `file.c`, `sysfile.c` | the open-file table, `open`, `dup`, `pipe`, `close` | `FileTable` |
| pipes | `pipe.c` | a ring of bytes with sleeping readers and writers | `Pipe`, `Stream`, proofs |
| console input | `console.c`, `kbd.c`, `uart.c` | scan codes, line editing, the input ring | `Console`, `Tty`, proofs |
| clock | `trap.c`, `sysproc.c` | `ticks`, `sys_sleep` | `Clock`, proofs |
| shell | `sh.c` | parses a line and runs it with forks, pipes and redirections | `ShParse`, `Shell` over `FileTable` |
| spinlocks, boot, interrupt controllers, disk image builder, user library, tests | `spinlock.c`, `main.c`, `mkfs.c`, ... | | not modelled, see below |

The log calls the buffer cache and sleeps and wakes through the process table;
the process table is locked by `ptable.lock`, so each of its sections is one
step for everybody else. Signals are flags in the process table, set by other
CPUs and read by `handling_signal()` without a lock. The thread library runs in
user space and uses only `alarm()` and the delivery of SIGALRM. The shell uses
the file table through system calls that run to their end.

## Modules

**`Log`** models `log.c` over `bio.c`. `disk`, `logDisk` and `headDisk` survive
a power failure; `cache`, `dirty`, `lh`, `outstanding`, `committing` and the
processes' positions do not. A section under `log.lock` is one step, and so is
every `bwrite()` (a block is one sector). `log_write()` is two steps, because it
tests `log.lh.n` before it takes the lock. A file system operation is any
sequence of `bread`/change/`log_write`/`brelse` rounds on at most `OpBlocks`
blocks; `OpBlocks` may be more than `MAXOPBLOCKS`, which `begin_op()` counts and
nothing enforces. Home blocks are numbered as on the disk, right after the log,
so a commit that has outgrown the log writes over them. `Crash` may happen in
every state, including inside recovery; `ReadHead`, `Install` and `Erase` are
`recover_from_log()`. A panic halts everything until the next power cycle.
**`AtomicStore`** is what the log promises: a store with a durable and a current
copy, whose durable copy changes only when no operation is in progress, to the
whole of the current one. `Log!Store` instantiates it with the disk as recovery
would leave it (`Recovered`), what `bread()` returns (`Seen`) and the processes
inside an operation.

**`Bio`** models the buffer cache over the disk driver. Per buffer it has the
fields of `struct buf`; `mru` is the LRU list, `idequeue` the driver's queue and
`request` what the disk has been told to do. A process reads a block (`BGetHit`
or `BGetMiss`, `AcquireSleep`, and `Iderw` if the buffer is not valid), changes
it and calls `bwrite()` or `log_write()`, and releases it in the two steps of
`brelse()`. `latest` is a history variable: what was last stored in each block.
A process holds one buffer at a time. The disk may fail to read the blocks in
`Faulty`: `ideintr()` then leaves `b->data` as it was and marks it valid all the
same. Failed writes, which the driver does not look at, are not modelled.

**`Proc`** models the process table. `state`, `pid`, `parent`, `killed` and
`chan` are the fields of `struct proc`; `cpu` and `scan` are each CPU's process
and place in the scheduler's loop; `pc` says which system call a process is in.
`fork()` is two steps with others in between, since it fills its child's slot
without the lock. Slot 1 runs `init.c`. Pids are reused as soon as no slot holds
them, in place of the code's growing counter. `targeted` and `stray` are history
variables: the pids that `kill()` was given, and the slots that were marked
killed while they were free.

**`Vm`** models memory: the free list as a number of pages, page tables as the
tables and user pages a directory holds, and step by step the operations that
build and free them: `exec()`, `sbrk()`, `fork()`, `exit()`, `wait()` and the
scheduler's `switchuvm()`/`switchkvm()`. Every `kalloc()` may find no page.
Sizes and addresses are bytes and wrap. `lost` counts the pages that
`setupkvm()` (its directory, on failure) and `copyuvm()` (the page it could not
map) do not give back. `sigretAdd` is written where `exec()` writes it, before
it commits to the new image, and `fork()` does not copy it. No property is about
it: a child, or a process whose `exec()` failed late, has a value that is not
its own, and nothing in the code says otherwise.

**`Signals`** models one process. `act` holds the activations of
`handling_signal()`: one on the way out of a system call, one on the way out of
an interrupt that may have arrived inside the first (system calls enter through
a trap gate and stay interruptible, see `tvinit()`). Its statements that touch
`pending`, the trap frame or the user stack are separate steps, as nothing locks
them: `pushHandlingSig()` pushes three words, each in three steps (load of
`tf->esp`, store of it, store of the word), and then stores `tf->eip`. The user
stack is a sequence of words: return addresses, arguments, handlers' frames. The
program installs any handlers and calls `alarm()`, `signal()` and `wait()`,
which stands for every call that sleeps: `sigsend()` does not wake it. A call
pushes its arguments, and `argint()` reads the words that are in their place
when it runs: those of a handler's frame, if an interrupt pushed one in between.
`Alarm()` reads and writes the tick count in two steps, since `sys_alarm()`
stores it without the lock. Two history variables are the exact exceptions of
the properties: `owed` says which signals are yet to be acted on and which were
`"dropped"` by the second `pending = 0` after the default handler; `torn` says
that an interrupt inside the `pushHandlingSig()` of a system call pushed a frame
of its own.

**`UThread`** models `uthread.c`. A stack is the sequence of calls in progress
on it; `sp` is the stack the CPU is on and `c_uthread_index` the thread the
library believes in. `uthread_yield()` is four steps (alarm off, save, draw,
load). A pending SIGALRM is delivered at the latest when the next system call
returns. `breached` is a history variable: an alarm has expired between the
`alarm(0)` of a library call and the end of that call, which a yield nested in
the `alarm(0)` makes possible. The initial state has no alarm running:
`uthread_init()` compares the result of `signal()` with 0, but `signal()`
returns the handler it replaces, which is `0xFFFF` for the default one, so it
returns before its own `alarm()`.

**`Inode`** models the inode cache and the calls that use it on one directory.
`dinode` and `bitmap` are the disk, `icache` the cache, `dir` the names, `ip`
and `file` the references of each process. `iput()` is four steps (test,
`itrunc()`, `type = 0`, drop), because it frees an inode without holding its
lock. A crash is not modelled here: each call is a transaction of `Log`. `stale`
records that `create()` found the inode it had just allocated in the cache and
valid.

**`FileTable`** has the file structures, the descriptors of each process and the
ends of pipes as one record, and the system calls as functions of it that return
the new record and a descriptor, with each way they fail. `fileclose()` is one
step with the `pipeclose()` that follows its last reference, although it gives
up `ftable.lock` in between: others can only see the end open a little longer.

**`Pipe`** models `pipe.c` together with the reference counts of the two files
of a pipe. `nread` and `nwrite` wrap at `Wrap`, a multiple of `PIPESIZE` as 2^32
is. A step lasts from getting `p->lock` to releasing it or sleeping. `sent` and
`got` are history variables, and **`Stream`**, a bounded byte stream, is stated
over them; `abandoned` records that a killed writer left bytes that no wakeup
announced.

**`Console`** models input: `kbdgetc()` with its modifiers and two-byte codes
(the byte E0 and the code may come in two interrupts), `consoleintr()` with its
line editing, and `consoleread()` from one sleep to the next. The indices `r`,
`w`, `e` wrap at `IndexWrap`. **`Tty`** is what it promises: a line editor in
front of a queue of finished lines, which are read once and in order, and never
past the end of a line.

**`Clock`** models the tick of CPU 0 and `sys_sleep()`, which compares the
unsigned difference of two counts with its argument; a negative argument is a
long sleep, as in the code.

**`ShParse`** is the recursive descent of `sh.c` over tokens, next to a grammar
(`LineOf`) that it is compared with. **`Shell`** runs commands: a process is the
list of system calls it has still to make, and `runcmd` replaces a command by
the calls of its case. A program reads its standard input to the end; a write to
a pipe stores while there is room and fails when the ring is full and the read
end closed. `want` is a history variable: the ends the command language gives a
process.

**`MCLog`, `MCProc`, `MCSignals`, `MCUThread`, `MCBio`, `MCInode`, `MCVm`,
`MCShell`** instantiate these for TLC. **`MCDevices`** puts `Pipe`, `Console`
and `Clock` into one run. They share no variable, and each of its properties is
about one of them, so it suffices to let one move per behaviour (`device`). The
keyboard and the serial port both call `consoleintr()`, so readers are looked at
with the serial port, and the keyboard without them.

**`LogProofs`, `BioProofs`, `PipeProofs`, `ConsoleProofs`, `ProcProofs`** (with
the clock), **`VmProofs`, `SignalsProofs`, `UThreadProofs`** hold the proofs.

## Runs

| run | checks | result |
|---|---|---|
| `log_atomic` | `CommitRunsAlone`, `CrashAtomic` | hold |
| `log_space` | `SleepersHaveReason`, `OverrunBounded`, `NobodyLeftBehind` | hold |
| `proc_table` | `OneCpuEach`, `WaiterNotForgotten`, `OnlyTargetKilled`, `KilledExits`, `OrphansReaped` | hold |
| `signals` | `NoSignalLost`, `StackBalanced`, `SignalsHandled` | hold |
| `uthread_switch` | `OwnStackUntilBreach`, `SwitchResumesThread`, `TicketHasOwner` | hold |
| `uthread_preempt` | `RunsOnOwnStack` | violated |
| `bio_cache` | `OneBufferPerBlock`, `ReadsLatest`, `SleepersWillBeWoken`, `RequestsServed` | hold |
| `devices` | `SleepsWithCause`, `ReadersSleepForInput`, `NoStuckModifier`, `NapsLongEnough`, `ImplementsStream`, `ReleasedByCloseOrKill`, `ImplementsTty`, `NapsEnd` | hold |
| `inode_links` | `RefsCounted`, `NlinkCountsNames`, `NothingLeaks` | hold |
| `inode_free` | `NamedIsAllocated` | violated |
| `vm` | `PagesConserved`, `SizeMapped`, `LoadedTableLives` | hold |
| `shell` | `FileRefsCounted`, `ExecSeesItsEnds`, `ParserMatchesGrammar`, `PromptReturns` | hold |

Each property is defined, with what it says of the code, at the end of its
module. Every property that holds has a mutant in `PROJECT.json`: a plausible
bug in one definition that makes TLC find it violated.

What the violated ones show:

- `uthread_preempt`: `alarm(0)` does not withdraw a SIGALRM that is pending, and
  the nested `uthread_yield()` it causes turns the alarm on again, so that the
  outer one is preempted half way. `uthread_switch` shows that nothing goes
  wrong before an alarm expires in there (`breached`).
- `inode_free`: `iput()` marks an inode free on disk while its cache entry is
  still valid and referenced. A `create()` that is given this inode finds the
  entry, does not read the disk, and writes the old type 0 back over its own.
  `inode_links` shows that counts and blocks are right until this happens, which
  is what its condition `stale = 0` says.

Several properties hold with an exception, which a history variable states
exactly. Each exception is something the code does that a reader may not expect:

- `OnlyTargetKilled`, `stray`. `kill()` does not look at `p->state` ("Kill the
  process with the given pid", `proc.c:446`). `kill(0)`, or the pid a failed
  `fork()` left in its slot, marks a free slot; `allocproc()` does not clear the
  mark and the next process in the slot dies of it.
- `NoSignalLost`, `"dropped"`. A signal sent while the default handler prints is
  cleared by the second `pending = 0` of `handling_signal()`.
- `NoSignalLost`, `StackBalanced`, `SignalsHandled`, `torn`. An interrupt inside
  `pushHandlingSig()` pushes its own frame over or into the one being built, and
  the outer store to `eip` replaces the handler that the interrupt has put
  there.
- `OwnStackUntilBreach`, `SwitchResumesThread`, `TicketHasOwner`, `breached`. As
  in `uthread_preempt`.
- `ReadsLatest`, `Faulty`. A failed read is not reported: the caller of
  `bread()` gets a valid buffer with what the buffer held before.
- `PagesConserved`, `lost`. See `Vm` above.
- `NobodyLeftBehind`, `LogFits`. See below.
- `SleepsWithCause`, `abandoned`. A writer killed in a full pipe returns without
  the wakeup for what it stored. A reader stays asleep beside the full ring as
  long as another process keeps the write end open and does not write.

More disagreements follow from the same modules with other constants, and have
no run of their own:

- `LogFits`: the transaction fits the log blocks on disk. It is violated in the
  instance of `log_space`: nothing holds an operation to the `MAXOPBLOCKS` that
  `begin_op()` counts for it ("max # of blocks any FS op writes", `param.h:10`),
  and `log_write()` tests `log.lh.n` before it locks, so processes that have
  passed the test together write past the log. `OverrunBounded` says how far:
  each of them by one block. A commit of such a transaction copies blocks over
  the home blocks behind the log, or waits for a buffer that it holds itself.
  The entries past `lh.block[LOGSIZE]` are in the model elements of a sequence;
  what they overwrite in memory is not modelled.
- A finished thread keeps its tid, so joining it sleeps for ever; when no thread
  is left to run, the search of `uthread_yield()` ends at entry `MAX_THREADS`.
  `TicketHasOwner` says that this is the only way it gets there.

### Bounds

- Log: two processes suffice for one to sleep, join or overtake another's
  transaction; two blocks and two values for a torn transaction to differ from
  both the old and the new state; one or two blocks per operation. The log of
  `log_atomic` has eight data blocks, of which a transaction uses two: this run
  is about crashes, not about space. `log_space` has a log of one data block,
  for which `begin_op()` admits two operations of one block each: three
  processes with operations of up to two blocks fill it, sleep for room while
  another operation goes on (so that each `wakeup(&log)` has a sleeper), pass
  the test of `log_write()` together and overrun it. Deadlock is not checked in
  `log_space`, as the system stops in a panic.
- Proc: three slots are init, its shell and one descendant, enough for an
  orphan, a failed fork and two sleepers; two CPUs for two concurrent steps.
  `kill()` is given a pid in use and 0, which only free slots have.
- Signals: two signal numbers (the code has 32, handled alike), either with
  either kind of handler, which `signal()` changes on the way. `MaxTicks = 1` is
  an alarm that is off or about to expire. `MaxStack = 3` stops senders and new
  calls while there is more than one frame on the stack, not the process, so
  that every frame is unwound. A behaviour is followed until `torn`
  (`UntilTorn`), as every property exempts what comes after it.
- UThread: three entries of seven; `MaxTid` bounds creations, `MaxDepth`
  nested deliveries. `uthread_switch` follows a behaviour until `breached`
  (`UntilBreach`); `uthread_preempt` goes on.
- Bio: two buffers for three blocks, so that blocks are recycled while others
  wait; `MaxPinned = 1` leaves one buffer for two processes at times, so that
  the cache does run out and the panic of `bget()` is reached. One block is
  `Faulty`.
- Devices: a pipe of two bytes between two writers and a reader, written one and
  three at a time, fills in the middle of a write; `MaxSent` stops new writes,
  not those in progress. The console's ring has three entries and two readers of
  one and two bytes, so that a full ring ends a line and a line is read in
  parts. All counters are twice as wide as their ring or a little more (`Wrap =
  4`, `IndexWrap = 6`, `TickWrap = 8`), so that they wrap within a run. Sleeps
  last -2, 0 and 3 ticks. Deadlock is not checked, as killed processes and full
  histories end a device's behaviour.
- Inode: two names and two inodes, so that link, unlink and create meet on one
  file and inodes are reused; files of at most one block, with just as many
  blocks as that needs, so that a leaked block would be missed. `AfterStale = 0`
  ends a behaviour when `stale` is set; `inode_free` goes on.
- Vm: two processes, two CPUs, pages of two bytes, tables of two pages and three
  tables of user memory. A machine has 7, 9, 12 or 20 pages, so that each
  `kalloc()` is in some behaviour the one that fails. Four programs: small, two
  segments, a file that is cut short, a header that wraps around. `sbrk()` grows
  by three bytes, inside a page, and shrinks by six, below zero. Deadlock is not
  checked, as the machine stops in a panic.
- Shell: pipelines, redirections, blocks, lists, background commands, `cd` and
  a syntax error, and drafts of up to five tokens that are only parsed. Seven
  file structures, five descriptors, two pipes and six processes are too few for
  some of the lines and programs, so that `pipe()` fails for want of files and
  after its first descriptor, and `fork()` for want of a slot. A redirection may
  name a file that cannot be opened. Three words in a command reach `MAXARGS`.

### Fairness

`Log!LiveSpec` has no power failure and weak fairness for each process that is
inside a file system call: the scheduler runs every runnable process and the
disk answers. Processes outside a call owe nothing. `Proc!LiveSpec` has weak
fairness for every CPU's scheduler loop and for the timer, and strong fairness
for the steps a process is bound to take once it runs: it is preempted again and
again, but each slice is many instructions long. User programs other than init
owe nothing, and no event a process waits for is assumed. `Signals!LiveSpec` has
recurring interrupts while the process is not asleep, and strong fairness for
the steps of a delivery, of a system call and for a handler that is next to run,
since between two interrupts the CPU executes many instructions. Nothing is
assumed to wake a process asleep in `wait()`, and the program owes no system
call. `SignalsHandled` has two premises: the process is not asleep for ever,
which no `sigsend()` would end, and other signals stop, as frames are last in
first out, so one can stay buried. `Bio!LiveSpec` has a
disk that answers and processes that run while they are inside the driver.
Waiting for a sleep lock is not assumed to be fair.

`MCDevices!DevicesSpec` has processes that run while they are inside the pipe,
killed ones that close their files, as `exit()` does, and a timer that ticks.
Nobody is assumed to read, write, type or close otherwise. A sleeper whose time
is up over and over runs in one of those intervals (strong fairness), because
for `n >= 0` each of them is at least half of the counter's range long.
`Shell!LiveSpec` has weak fairness for every process, which is the scheduler's
round. Programs read to the end of their input and exit.

## Proofs

TLAPS checks these for every value of the constants that the named assumptions
admit. TLC finds the conjuncts of each inductive invariant true on the runs'
instances.

- `LogProofs`, from `LogAssumption` (the constants are what their names say).
  `Control` is the inductive invariant behind `CommitRunsAlone` and
  `SleepersHaveReason`: `outstanding` is the number of processes inside an
  operation, `committing` is 1 exactly when one process is in the commit, only
  the first process moves during recovery, and loop indices stay inside the
  header. Without the count, nothing rules out a commit that starts beside an
  operation. `Buffers` adds who holds which buffer. `Contents` says what the
  disk holds at each point of a commit: log blocks before `tail` equal the
  cached blocks (`LoggedUpTo`), home blocks before `tail` equal the log blocks
  (`InstalledUpTo`), the header is empty or equals `log.lh`.

  `LogImplementsStore` is `Spec /\ []LogFits => CrashAtomic`: in a behaviour
  whose transactions fit the log on disk, every step of the log is a step of
  `AtomicStore` or leaves `Recovered`, `Seen` and `Active` alone. `WriteHead` is
  the commit: `Contents` says the log blocks hold what was cached. Installing is
  invisible because the header still covers the block, and erasing because all
  of them are installed. The hypothesis is needed, see `LogFits` above, and is
  no consequence of `Spec` for constants that the code justifies.

  `OverrunIsBounded` needs no hypothesis. The blocks logged and the processes
  between the test and the append of `log_write()` together are at most the room
  the test leaves and the operations that `begin_op()` admits: a process joins
  the second group only while the first is below the room, and moves from the
  second to the first when it appends.
- `ProcProofs`, from `ProcAssumption` (at least two slots; `kill()` is given
  pids or 0), for any number of slots and CPUs: `RunningOnOneCpu`,
  `NoWaiterForgotten` and `KilledByItsPid`. They are proved together. `Forking`
  says that a fork in progress owns an EMBRYO of its own, `Unowned` that slots
  not yet in use have no parent, that init is alive without one and that nobody
  is its own parent, `Marked` where a `killed` mark comes from. `exit()` needs
  `Unowned`: it wakes its parent and hands its children to init in one section,
  and a sleeper would be missed if the two could be the same process. A
  pigeonhole argument (`PidsDiffer`) shows that a pid is always to be had.

  The clock, from `ClockAssumption` (`n` fits into a signed count):
  `SleepsLongEnough`. The unsigned difference that `sys_sleep()` computes is the
  number of ticks since the call until they no longer fit the counter, and any
  `n` does fit.
- `PipeProofs`, from `PipeAssumption` (`PIPESIZE` divides the width of the
  counters and is smaller): `NoPointlessSleep`, and `PipeIsStream`, that the
  pipe implements `Stream`. `Ring` says that the ring between the wrapping
  counters holds just the bytes sent and not yet taken, in order. `Files` says
  that `f->ref` is the number of descriptors, that a closed end has none, and
  that a process inside the pipe has one; without it a close could free the ring
  under a sleeping process.
- `ConsoleProofs`, from `ConsoleAssumption` (`INPUT_BUF` divides the width of
  the indices and is smaller): `NoReaderForgotten`, `ModifiersFollowKeys`, and
  `ConsoleIsTty`, that the console implements `Tty`. The invariant says that the
  finished and the unfinished part of the ring together fit into it, so that a
  character is stored outside of both; every interrupt stores one character,
  erases some of the unfinished part, or changes nothing. `PipeProofs` and
  `ConsoleProofs` begin with the arithmetic of counters that wrap.
- `BioProofs`, from `BioAssumption`, for any number of processes, buffers and
  blocks: `CacheIsConsistent`, `ReadersSeeLatest` and `SleepersAreNotForgotten`.
  `Counted` says that `b->refcnt` is the number of processes between `bget()`
  and `brelse()`, so that a buffer is recycled only when nobody has it; `Locks`
  that the lock belongs to the one process past `acquiresleep()`; `Queue` that
  the driver's queue has the unfinished buffers of the processes inside
  `iderw()`, once each, and that the disk works on the first; `Contents` that a
  valid buffer has what was last stored in its block, and the disk too unless
  the buffer is dirty, for blocks that are not `Faulty`. That a dirty buffer is
  never recycled keeps the last part true, and this is why `bget()` must test
  `B_DIRTY` beside `refcnt`.
- `VmProofs`, from `VmAssumption`, for any number of processes, CPUs, pages and
  any programs: `LoadedTablesLive`. It is about who owns a page directory: a
  process owns its `pgdir`, a call of `exec()` or `fork()` in progress the
  directory it builds or is about to free; no directory has two owners
  (`OneOwner`), and none is live without one (`LiveOwned`, which gives a new
  directory to its builder alone). `OnCpus` says that a CPU has its process's
  directory loaded, or, between `switchuvm()` and `freevm()` of `exec()`, the
  new one.
- `SignalsProofs`, from `SignalsAssumption`, for any number of signals, calls
  and nested deliveries: `SignalsAreNotLost` and `FramesBalance`. The invariant
  is the shape of the user stack (`Shape`): whatever a return address on it pops
  lies right below it, a handler above `sigretimplicit`, that above a signal
  number and a code address, a stub above the caller and its arguments. `Stage`
  says what `pushHandlingSig()` has built on top after each of its stores, in
  particular that the first word is the `eip` it is going to overwrite; without
  this a handler displaced from the trap frame would be lost. `Exclusive` says
  that one activation builds at a time, which is what ends when `torn` is set.
- `UThreadProofs`, from `UThreadAssumption`, for any pool, any number of tickets
  and any depth of calls: `ThreadsKeepTheirStacks`, `SwitchesResume` and
  `LotteryHasWinner`, all for `Spec` without further hypotheses, up to
  `breached`; the run `uthread_preempt` shows that the first fails after it.
  Yields nested in an `alarm(0)` are covered. The invariant describes the
  stacks: a thread off the CPU is in a yield at the depth its `esp` says, or has
  never run (`OffCpu`); every call below the top of the one in use can be
  returned to (`OnCpu`); a signal is pending only where a yield that interrupts
  is safe (`Quiet`), which is what an alarm that expires inside a library call
  breaks. The lottery has a winner because every number below that of the
  RUNNABLE threads is the place of one of them (`PlaceTaken`).

Only model-checked:

- liveness, which is out of the prover's reach;
- `Vm`'s `PagesConserved` and `SizeMapped`: the number of pages in use is a sum
  over all directories, and the pages of a space follow from a loop over its
  size, so both need an induction over data;
- `Inode`'s `RefsCounted`, `NlinkCountsNames` and `NothingLeaks`;
- `FileTable` and `Shell`, and the shell's parser, whose definition is
  recursive.

## What is not modelled

- Spinlocks and the ordering of memory accesses: a section under a spinlock is
  one step. `acquire()` is one atomic exchange with interrupts off.
- Boot, interrupt controllers, the timer's set-up, port I/O and the console's
  output: straight-line code that talks to hardware.
- `mkfs.c` beyond the log it leaves, the user library and the test programs.
  `umalloc.c` is a sequential allocator.
- Processes: `procdump()`, and the registers that `swtch.S` saves.
- Signals: `sigreturn()`, which no code in the delivery path calls.
- Memory: the kernel's own mappings, the contents of pages, the format of ELF
  files beyond their segments.
- Files: `mkdir`, `mknod`, `chdir`, `fstat`, nested directories and path lookup,
  devices, indirect blocks, and the chunks of `filewrite()`. How many blocks a
  chunk logs depends on bitmap, indirect and inode blocks that `Inode` does not
  count, so `Log` takes it as the constant `OpBlocks`.
- Disk writes that fail, processes that hold two buffers at once, `malloc`
  failures in the thread library, and the character scanning of `gettoken()`.

## Where to go on

1. Directories in `Inode`: `mkdir`, `unlink` of directories, `chdir` and path
   lookup, with the lock order between parent and child.
2. `filewrite()`'s chunks against the log's reservation, composed with `Log`.
3. Theorems about `Inode`: its reference counts are numbers of references that
   processes hold, as `refcnt` is in `BioProofs`.
