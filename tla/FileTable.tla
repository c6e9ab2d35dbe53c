----------------------------- MODULE FileTable -----------------------------
(* The open-file table of file.c, the descriptors of a process and the ends *)
(* of pipes, with the system calls that move them.  A table is a record     *)
(*   file[f]  ref, and the object a file structure stands for               *)
(*   fd[p]    ofile[] of process p: a file per descriptor, 0 when closed    *)
(*   pipe[i]  readopen, writeopen and the bytes waiting                     *)
(* A call returns the new table and fd, which is -1 when it failed.         *)
EXTENDS Integers, FiniteSets, FiniteSetsExt

CONSTANTS NFILE, NOFILE, NPIPE, PIPESIZE, Procs

Files == 1..NFILE
Fds == 0..NOFILE - 1
Pipes == 1..NPIPE       \* the pages kalloc() finds for pipes

\* What a descriptor refers to: a device, an inode or one end of a pipe.
Console == <<"console", 0>>
Inode == <<"inode", 0>>
ReadEnd(i) == <<"read", i>>
WriteEnd(i) == <<"write", i>>
None == <<"none", 0>>

ClosedFile == [ref |-> 0, obj |-> None]
NoPipe == [readopen |-> 0, writeopen |-> 0, n |-> 0]

ObjAt(t, p, i) == IF t.fd[p][i] = 0 THEN None ELSE t.file[t.fd[p][i]].obj
Returns(t, fd) == [t |-> t, fd |-> fd]

-----------------------------------------------------------------------------
FreeFiles(t) == {f \in Files : t.file[f].ref = 0}
FreeFds(t, p) == {i \in Fds : t.fd[p][i] = 0}
FreePipes(t) == {i \in Pipes : t.pipe[i].readopen = 0 /\ t.pipe[i].writeopen = 0}

filealloc(t) == Min(FreeFiles(t))
fdalloc(t, p, f) == [t EXCEPT !.fd[p][Min(FreeFds(t, p))] = f]
filedup(t, f) == [t EXCEPT !.file[f].ref = @ + 1]

\* pipeclose(): a pipe with both ends closed is given back with its bytes.
pipeclose(t, obj) ==
    LET i == obj[2]
        s == IF obj[1] = "write" THEN [t EXCEPT !.pipe[i].writeopen = 0]
             ELSE [t EXCEPT !.pipe[i].readopen = 0]
    IN  IF s.pipe[i].readopen = 0 /\ s.pipe[i].writeopen = 0
        THEN [s EXCEPT !.pipe[i] = NoPipe] ELSE s

fileclose(t, f) ==
    LET s == [t EXCEPT !.file[f] = IF @.ref > 1 THEN [@ EXCEPT !.ref = @ - 1]
                                   ELSE ClosedFile]
        obj == t.file[f].obj
    IN  IF s.file[f].ref = 0 /\ obj[1] \in {"read", "write"}
        THEN pipeclose(s, obj) ELSE s

sys_close(t, p, i) ==
    IF t.fd[p][i] = 0 THEN Returns(t, -1)
    ELSE Returns(fileclose([t EXCEPT !.fd[p][i] = 0], t.fd[p][i]), 0)

sys_dup(t, p, i) ==
    IF t.fd[p][i] = 0 \/ FreeFds(t, p) = {} THEN Returns(t, -1)
    ELSE Returns(filedup(fdalloc(t, p, t.fd[p][i]), t.fd[p][i]), Min(FreeFds(t, p)))

\* Opening a path that exists or has been created.
sys_open(t, p, obj) ==
    IF FreeFiles(t) = {} \/ FreeFds(t, p) = {} THEN Returns(t, -1)
    ELSE LET f == filealloc(t)
         IN  Returns([fdalloc(t, p, f) EXCEPT !.file[f] = [ref |-> 1, obj |-> obj]],
                     Min(FreeFds(t, p)))

\* pipealloc() in full: a file structure that was found is closed again when
\* the other one, or the page, is missing.
pipealloc(t) ==
    LET f0 == filealloc(t)
        t0 == [t EXCEPT !.file[f0].ref = 1]
        f1 == filealloc(t0)
        t1 == [t0 EXCEPT !.file[f1].ref = 1]
        i == Min(FreePipes(t))
    IN  IF FreeFiles(t) = {} THEN Returns(t, -1)
        ELSE IF FreeFiles(t0) = {} THEN Returns(fileclose(t0, f0), -1)
        ELSE IF FreePipes(t) = {} THEN Returns(fileclose(fileclose(t1, f0), f1), -1)
        ELSE [t |-> [t1 EXCEPT !.file[f0].obj = ReadEnd(i), !.file[f1].obj = WriteEnd(i),
                               !.pipe[i] = [readopen |-> 1, writeopen |-> 1, n |-> 0]],
              fd |-> 0, rf |-> f0, wf |-> f1]

\* Mutant: the first descriptor stays.
sys_pipeKeepsFirst(t, p) ==
    LET a == pipealloc(t)
        fd0 == Min(FreeFds(t, p))
        t0 == fdalloc(a.t, p, a.rf)
        fd1 == Min(FreeFds(t0, p))
    IN  IF a.fd < 0 THEN [t |-> a.t, fd |-> -1, pfd |-> <<0, 0>>]
        ELSE IF FreeFds(t, p) # {} /\ FreeFds(t0, p) = {}
        THEN [t |-> fileclose(fileclose(t0, a.rf), a.wf), fd |-> -1, pfd |-> <<0, 0>>]
        ELSE [t |-> fdalloc(t0, p, a.wf), fd |-> 0, pfd |-> <<fd0, fd1>>]

\* sys_pipe(): when the second descriptor is missing the first is taken back.
\* pfd is the user's array, untouched on failure.
sys_pipe(t, p) ==
    LET a == pipealloc(t)
        fd0 == Min(FreeFds(t, p))
        t0 == fdalloc(a.t, p, a.rf)
        fd1 == Min(FreeFds(t0, p))
    IN  IF a.fd < 0 THEN [t |-> a.t, fd |-> -1, pfd |-> <<0, 0>>]
        ELSE IF Cardinality(FreeFds(t, p)) < 2
        THEN [t |-> fileclose(fileclose(a.t, a.rf), a.wf), fd |-> -1, pfd |-> <<0, 0>>]
        ELSE [t |-> fdalloc(t0, p, a.wf), fd |-> 0, pfd |-> <<fd0, fd1>>]

-----------------------------------------------------------------------------
\* The loop of fork() over ofile[].
DupAll(t, p, c) ==
    [t EXCEPT !.fd[c] = t.fd[p],
              !.file = [f \in Files |-> [t.file[f] EXCEPT !.ref =
                            @ + Cardinality({i \in Fds : t.fd[p][i] = f})]]]
=============================================================================
