-------------------------------- MODULE Pipe --------------------------------
(* One pipe of pipe.c: its ring of PIPESIZE bytes with the free-running    *)
(* counters nread and nwrite, the two struct files that refer to it, the    *)
(* descriptors of the processes that write, read, dup and close them, and  *)
(* kill().  A step is what a process does from the moment it has p->lock   *)
(* until it releases it or sleeps.  The bytes of the stream are numbered,  *)
(* so that a lost, repeated or reordered byte shows.                       *)
EXTENDS Naturals, Sequences, FiniteSets

CONSTANTS
    Writers,     \* processes with the write end open at the start
    Readers,     \* processes with the read end open at the start
    NOFILE,      \* descriptors a process can have
    PIPESIZE,
    Wrap,        \* nread and nwrite are counted modulo Wrap: 2^32 in the code
    Counts,      \* the values of n in read(fd, buf, n) and write(fd, buf, n)
    MaxSent      \* bound: no write() begins after that many bytes

ASSUME PipeAssumption ==
    /\ Writers \cap Readers = {} /\ IsFiniteSet(Writers) /\ IsFiniteSet(Readers)
    /\ NOFILE \in Nat \ {0}
    /\ PIPESIZE \in Nat \ {0} /\ Wrap \in Nat
    /\ Wrap > PIPESIZE /\ Wrap % PIPESIZE = 0
    /\ Counts \subseteq Nat \ {0}

Procs == Writers \cup Readers

VARIABLES
    data, nread, nwrite, readopen, writeopen,
    allocated,   \* 1 until kfree()
    ref,         \* f->ref of the file of each end
    fd,          \* how many descriptors of its end each process has
    pc,          \* "user", "run" (in the loop of pipewrite() or piperead()), "sleep"
    n, i,        \* arguments and locals of pipewrite(), piperead()
    killed,      \* the processes with proc->killed set
    sent, got,   \* history: the bytes stored into and taken out of the ring
    abandoned    \* history: 1 if bytes were stored that no wakeup announced

pipeVars == <<data, nread, nwrite, readopen, writeopen, allocated>>
callVars == <<n, i>>
fileVars == <<ref, fd>>
vars == <<pipeVars, fileVars, pc, callVars, killed, sent, got, abandoned>>

-----------------------------------------------------------------------------
\* pipealloc(): an empty ring with both ends open.
Pipealloc ==
    /\ data = [j \in 0 .. PIPESIZE - 1 |-> 0]
    /\ nread = 0 /\ nwrite = 0
    /\ readopen = 1 /\ writeopen = 1 /\ allocated = 1

\* sys_pipe(), then a fork() for each process, which duplicates the descriptors,
\* and each has closed the end that it does not use.
Init ==
    /\ Pipealloc
    /\ ref = [read |-> Cardinality(Readers), write |-> Cardinality(Writers)]
    /\ fd = [p \in Procs |-> 1]
    /\ pc = [p \in Procs |-> "user"]
    /\ n = [p \in Procs |-> 0] /\ i = [p \in Procs |-> 0]
    /\ killed = {}
    /\ sent = <<>> /\ got = <<>>
    /\ abandoned = 0

Least(a, b) == IF a < b THEN a ELSE b

\* Bytes in the ring, by unsigned subtraction.
InRing == (nwrite + Wrap - nread) % Wrap

\* wakeup() of the sleepers in S, and the process p goes to l.
Wake(S, p, l) ==
    pc' = [q \in Procs |-> IF q = p THEN l
                           ELSE IF q \in S /\ pc[q] = "sleep" THEN "run" ELSE pc[q]]

End(p) == IF p \in Writers THEN "write" ELSE "read"

\* argfd(): p is in user space and the descriptor it names is open.
HasFd(p) == pc[p] = "user" /\ fd[p] > 0

\* write(fd, buf, n) and read(fd, buf, n) by a process with the descriptor open.
Call(p, k) ==
    /\ HasFd(p) /\ p \notin killed
    /\ p \in Writers => Len(sent) < MaxSent
    /\ pc' = [pc EXCEPT ![p] = "run"]
    /\ n' = [n EXCEPT ![p] = k]
    /\ i' = [i EXCEPT ![p] = 0]
    /\ UNCHANGED <<pipeVars, fileVars, killed, sent, got, abandoned>>

\* The locals are gone when the call returns.
Return(p) ==
    /\ n' = [n EXCEPT ![p] = 0]
    /\ i' = [i EXCEPT ![p] = 0]

\* The bytes pipewrite() can store before it finds the ring full.
Room(p) == Least(n[p] - i[p], PIPESIZE - InRing)

\* The byte that goes to place x of the ring: the j-th of k is number
\* Len(sent) + j of the stream and goes to nwrite + j - 1.
Stored(x, k) ==
    LET J == {j \in 1 .. k : (nwrite + j - 1) % PIPESIZE = x}
    IN IF J = {} THEN data[x] ELSE Len(sent) + CHOOSE j \in J : TRUE

Store(p) ==
    /\ data' = [x \in 0 .. PIPESIZE - 1 |-> Stored(x, Room(p))]
    /\ nwrite' = (nwrite + Room(p)) % Wrap
    /\ sent' = sent \o [j \in 1 .. Room(p) |-> Len(sent) + j]

\* pipewrite(): everything was stored, the readers are told.
WriteReturns(p) ==
    /\ p \in Writers /\ pc[p] = "run"
    /\ i[p] + Room(p) = n[p]
    /\ Store(p)
    /\ Return(p)
    /\ Wake(Readers, p, "user")
    /\ abandoned' = 0
    /\ UNCHANGED <<nread, readopen, writeopen, allocated, fileVars, killed, got>>

\* Mutant: the process sleeps without telling the readers.
WriteSleepsSilently(p) ==
    /\ p \in Writers /\ pc[p] = "run"
    /\ i[p] + Room(p) < n[p]
    /\ readopen = 1 /\ p \notin killed
    /\ Store(p)
    /\ i' = [i EXCEPT ![p] = @ + Room(p)]
    /\ pc' = [pc EXCEPT ![p] = "sleep"]
    /\ UNCHANGED <<nread, readopen, writeopen, allocated, fileVars, n, killed, got, abandoned>>

\* pipewrite(): the ring is full, the readers are told and the process sleeps.
WriteSleeps(p) ==
    /\ p \in Writers /\ pc[p] = "run"
    /\ i[p] + Room(p) < n[p]
    /\ readopen = 1 /\ p \notin killed
    /\ Store(p)
    /\ i' = [i EXCEPT ![p] = @ + Room(p)]
    /\ Wake(Readers, p, "sleep")
    /\ abandoned' = 0
    /\ UNCHANGED <<nread, readopen, writeopen, allocated, fileVars, n, killed, got>>

\* pipewrite(): the ring is full and nobody can read, or the process is killed:
\* -1, without a wakeup for the bytes stored so far.
WriteFails(p) ==
    /\ p \in Writers /\ pc[p] = "run"
    /\ i[p] + Room(p) < n[p]
    /\ readopen = 0 \/ p \in killed
    /\ Store(p)
    /\ Return(p)
    /\ pc' = [pc EXCEPT ![p] = "user"]
    /\ abandoned' = IF Room(p) > 0 THEN 1 ELSE abandoned
    /\ UNCHANGED <<nread, readopen, writeopen, allocated, fileVars, killed, got>>

Empty == nread = nwrite

ReadSleeps(p) ==
    /\ p \in Readers /\ pc[p] = "run"
    /\ Empty /\ writeopen = 1 /\ p \notin killed
    /\ pc' = [pc EXCEPT ![p] = "sleep"]
    /\ UNCHANGED <<pipeVars, fileVars, callVars, killed, sent, got, abandoned>>

ReadFails(p) ==
    /\ p \in Readers /\ pc[p] = "run"
    /\ Empty /\ writeopen = 1 /\ p \in killed
    /\ Return(p)
    /\ pc' = [pc EXCEPT ![p] = "user"]
    /\ UNCHANGED <<pipeVars, fileVars, killed, sent, got, abandoned>>

\* Mutant: nread is incremented before it is used.
ReadReturnsShifted(p) ==
    /\ p \in Readers /\ pc[p] = "run"
    /\ ~Empty \/ writeopen = 0
    /\ LET k == Least(n[p], InRing) IN
        /\ nread' = (nread + k) % Wrap
        /\ got' = got \o [j \in 1 .. k |-> data[(nread + j) % PIPESIZE]]
    /\ Return(p)
    /\ Wake(Writers, p, "user")
    /\ UNCHANGED <<data, nwrite, readopen, writeopen, allocated, fileVars, killed, sent, abandoned>>

\* piperead(): what is there, at most n bytes, none at the end of the stream.
ReadReturns(p) ==
    /\ p \in Readers /\ pc[p] = "run"
    /\ ~Empty \/ writeopen = 0
    /\ LET k == Least(n[p], InRing) IN
        /\ nread' = (nread + k) % Wrap
        /\ got' = got \o [j \in 1 .. k |-> data[(nread + j - 1) % PIPESIZE]]
    /\ Return(p)
    /\ Wake(Writers, p, "user")
    /\ UNCHANGED <<data, nwrite, readopen, writeopen, allocated, fileVars, killed, sent, abandoned>>

Filedup(p) == ref' = [ref EXCEPT ![End(p)] = @ + 1]

\* sys_dup(): fdalloc() finds a free descriptor and filedup() counts it.
Dup(p) ==
    /\ HasFd(p) /\ p \notin killed
    /\ fd[p] < NOFILE
    /\ fd' = [fd EXCEPT ![p] = @ + 1]
    /\ Filedup(p)
    /\ UNCHANGED <<pipeVars, pc, callVars, killed, sent, got, abandoned>>

\* sys_close(), and exit() for each descriptor: ofile[fd] = 0 and fileclose().
CloseFd(p) ==
    /\ HasFd(p)
    /\ fd' = [fd EXCEPT ![p] = @ - 1]
    /\ ref' = [ref EXCEPT ![End(p)] = @ - 1]

\* fileclose() of a file that has other descriptors.
Close(p) ==
    /\ CloseFd(p)
    /\ ref[End(p)] > 1
    /\ UNCHANGED <<pipeVars, pc, callVars, killed, sent, got, abandoned>>

Frees == readopen' = 0 /\ writeopen' = 0

\* fileclose() of the last descriptor of an end: pipeclose().
Pipeclose(p) ==
    /\ CloseFd(p)
    /\ ref[End(p)] = 1
    /\ IF p \in Writers THEN writeopen' = 0 /\ UNCHANGED readopen
                        ELSE readopen' = 0 /\ UNCHANGED writeopen
    /\ Wake(IF p \in Writers THEN Readers ELSE Writers, p, "user")
    /\ allocated' = IF Frees THEN 0 ELSE allocated
    /\ abandoned' = IF p \in Writers THEN 0 ELSE abandoned
    /\ UNCHANGED <<data, nread, nwrite, callVars, killed, sent, got>>

\* Mutant: a sleeping process stays asleep.
KillSilently(p) ==
    /\ fd[p] > 0 /\ p \notin killed
    /\ killed' = killed \cup {p}
    /\ UNCHANGED <<pipeVars, fileVars, pc, callVars, sent, got, abandoned>>

\* kill(): the process is marked and, if it sleeps, made RUNNABLE.
Kill(p) ==
    /\ fd[p] > 0 /\ p \notin killed
    /\ killed' = killed \cup {p}
    /\ pc' = IF pc[p] = "sleep" THEN [pc EXCEPT ![p] = "run"] ELSE pc
    /\ UNCHANGED <<pipeVars, fileVars, callVars, sent, got, abandoned>>

InPipe(p) ==
    \/ WriteReturns(p) \/ WriteSleeps(p) \/ WriteFails(p)
    \/ ReadReturns(p) \/ ReadSleeps(p) \/ ReadFails(p)

Next ==
    \E p \in Procs :
        InPipe(p) \/ (\E k \in Counts : Call(p, k)) \/ Dup(p) \/ Close(p) \/ Pipeclose(p) \/ Kill(p)

Spec == Init /\ [][Next]_vars

\* A runnable process runs, and one that was killed closes its files in exit().
Fair ==
    \A p \in Procs :
        /\ WF_vars(InPipe(p))
        /\ WF_vars(p \in killed /\ (Close(p) \/ Pipeclose(p)))

-----------------------------------------------------------------------------
(* Properties *)

S == INSTANCE Stream WITH Capacity <- PIPESIZE, readEnd <- readopen, writeEnd <- writeopen

\* pipewrite(), piperead(): the ring with its wrapping counters implements a
\* bounded stream: each byte is read once, in order, and none is overwritten.
ImplementsStream == S!StreamSpec

\* sleep() and wakeup() of pipe.c: a writer sleeps only while the ring is full
\* and can be read; a reader only while it is empty and can be written, or when
\* a killed writer stored bytes and left without a wakeup.
SleepsWithCause ==
    \A p \in Procs : pc[p] = "sleep" =>
        IF p \in Writers THEN InRing = PIPESIZE /\ readopen = 1
        ELSE writeopen = 1 /\ (Empty \/ abandoned = 1)

\* pipeclose(), kill(): a process in the pipe returns once the other end is
\* closed, or once it is killed.
ReleasedByCloseOrKill ==
    \A p \in Procs :
        (pc[p] # "user" /\ (p \in killed \/ (IF p \in Writers THEN readopen ELSE writeopen) = 0))
            ~> pc[p] = "user"
=============================================================================
