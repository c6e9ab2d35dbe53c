------------------------------- MODULE Shell -------------------------------
(* The shell (sh.c) over the file table: it reads a line, forks a child     *)
(* that parses and runs it, and waits.  A process is the script of system   *)
(* calls it has still to make; runcmd() replaces a command by the calls of  *)
(* its case, and a call that fails ends the process, as panic() and exit()  *)
(* do.  A program that was exec'ed reads its standard input to the end, and *)
(* may write, duplicate descriptors and make pipes on the way.              *)
EXTENDS ShParse, FileTable

CONSTANTS
    Lines,       \* bound: the lines that are entered
    QuietLines,  \* bound: those entered only when nothing runs in the background
    Tokens,      \* what a draft of a line is made of
    TOKENS,      \* bound: the length of a draft
    CALLS        \* bound: the descriptors and writes a program asks for

ASSUME ShellAssumption == /\ {0, 1} \subseteq Procs /\ NFILE > 0 /\ NOFILE > 3
                          /\ PIPESIZE > 0 /\ MAXARGS > 1

VARIABLES
    table,       \* the file table, a record of FileTable
    script,      \* per process, the calls to come
    state,       \* "UNUSED", "RUNNING" or "ZOMBIE"
    parent,
    pfd,         \* p[2] of runcmd(), copied by fork
    line,        \* the draft of a line
    want         \* history: the ends the command language gives a process

vars == <<table, script, state, parent, pfd, line, want>>

init == 0
sh == 1
Stdio == [i \in 0..1 |-> Console]

\* Scripts.  A descriptor is a number or an index of p[2].
Run(cmd) == [op |-> "run", cmd |-> cmd]
Close(i) == [op |-> "close", fd |-> i]
CloseP(k) == [op |-> "closep", k |-> k]
DupP(k) == [op |-> "dupp", k |-> k]
Fork(child) == [op |-> "fork", end |-> 2, child |-> child]
ForkEnd(end, child) == [op |-> "fork", end |-> end, child |-> child]
Op(name) == [op |-> name]

\* Mutant: the reader of a pipe keeps the write end.
runcmdKeepsEnd(cmd) ==
    CASE cmd.type = "EXEC" /\ cmd.argv = << >> -> <<Op("exit")>>
      [] cmd.type = "EXEC" /\ cmd.argv # << >> -> <<Op("exec")>>
      [] cmd.type = "REDIR" ->
           <<Close(cmd.fd), [op |-> "open", fd |-> cmd.fd], Run(cmd.cmd)>>
      [] cmd.type = "LIST" -> <<Fork(<<Run(cmd.left)>>), Op("wait"), Run(cmd.right)>>
      [] cmd.type = "PIPE" ->
           <<Op("pipe"),
             ForkEnd(1, <<Close(1), DupP(2), CloseP(1), CloseP(2), Run(cmd.left)>>),
             ForkEnd(0, <<Close(0), DupP(1), CloseP(1), Run(cmd.right)>>),
             CloseP(1), CloseP(2), Op("wait"), Op("wait"), Op("exit")>>
      [] cmd.type = "BACK" -> <<Fork(<<Run(cmd.cmd)>>), Op("exit")>>

\* Mutant: the shell keeps the write end while it waits.
runcmdParentWrites(cmd) ==
    CASE cmd.type = "EXEC" /\ cmd.argv = << >> -> <<Op("exit")>>
      [] cmd.type = "EXEC" /\ cmd.argv # << >> -> <<Op("exec")>>
      [] cmd.type = "REDIR" ->
           <<Close(cmd.fd), [op |-> "open", fd |-> cmd.fd], Run(cmd.cmd)>>
      [] cmd.type = "LIST" -> <<Fork(<<Run(cmd.left)>>), Op("wait"), Run(cmd.right)>>
      [] cmd.type = "PIPE" ->
           <<Op("pipe"),
             ForkEnd(1, <<Close(1), DupP(2), CloseP(1), CloseP(2), Run(cmd.left)>>),
             ForkEnd(0, <<Close(0), DupP(1), CloseP(1), CloseP(2), Run(cmd.right)>>),
             CloseP(1), Op("wait"), Op("wait"), Op("exit")>>
      [] cmd.type = "BACK" -> <<Fork(<<Run(cmd.cmd)>>), Op("exit")>>

\* runcmd(), by the type of the command.  The end of a fork says which end of
\* the pipe the command language gives the child as its descriptor of that
\* number; only the history reads it.
runcmd(cmd) ==
    CASE cmd.type = "EXEC" /\ cmd.argv = << >> -> <<Op("exit")>>
      [] cmd.type = "EXEC" /\ cmd.argv # << >> -> <<Op("exec")>>
      [] cmd.type = "REDIR" ->
           <<Close(cmd.fd), [op |-> "open", fd |-> cmd.fd], Run(cmd.cmd)>>
      [] cmd.type = "LIST" -> <<Fork(<<Run(cmd.left)>>), Op("wait"), Run(cmd.right)>>
      [] cmd.type = "PIPE" ->
           <<Op("pipe"),
             ForkEnd(1, <<Close(1), DupP(2), CloseP(1), CloseP(2), Run(cmd.left)>>),
             ForkEnd(0, <<Close(0), DupP(1), CloseP(1), CloseP(2), Run(cmd.right)>>),
             CloseP(1), CloseP(2), Op("wait"), Op("wait"), Op("exit")>>
      [] cmd.type = "BACK" -> <<Fork(<<Run(cmd.cmd)>>), Op("exit")>>

-----------------------------------------------------------------------------
Init ==
    /\ table = [file |-> [f \in Files |-> IF f = 1 THEN [ref |-> 6, obj |-> Console]
                                          ELSE ClosedFile],
                fd |-> [p \in Procs |-> [i \in Fds |-> IF p \in {init, sh} /\ i < 3 THEN 1 ELSE 0]],
                pipe |-> [i \in Pipes |-> NoPipe]]
    /\ script = [p \in Procs |-> << >>]
    /\ state = [p \in Procs |-> IF p \in {init, sh} THEN "RUNNING" ELSE "UNUSED"]
    /\ parent = [p \in Procs |-> 0]
    /\ pfd = [p \in Procs |-> <<0, 0>>]
    /\ line = << >>
    /\ want = [p \in Procs |-> Stdio]

Calls(p, op) == state[p] = "RUNNING" /\ script[p] # << >> /\ Head(script[p]).op = op
Goes(p, ops) == script' = [script EXCEPT ![p] = ops]
Goon(p) == Goes(p, Tail(script[p]))
\* A call that returned -1 is followed by exit().
GoonIf(p, ok) == Goes(p, IF ok THEN Tail(script[p]) ELSE <<Op("exit")>>)

-----------------------------------------------------------------------------
Quiet == \A p \in Procs \ {init, sh} : state[p] = "UNUSED"

\* Somebody types at the prompt of a shell that runs nothing else.
typing(tok) ==
    /\ script[sh] = << >> /\ Len(line) < TOKENS
    /\ Quiet
    /\ line' = Append(line, tok)
    /\ UNCHANGED <<table, script, state, parent, pfd, want>>

\* getcmd() clears buf before it reads the next line.
clearbuf ==
    /\ line # << >>
    /\ line' = << >>
    /\ UNCHANGED <<table, script, state, parent, pfd, want>>

\* The child's part of main(): runcmd(parsecmd(buf)), where the parser panics on
\* a line outside the language.
Child(l) == LET c == parsecmd(l)
            IN  IF c.ok = 1 THEN <<Run(c.cmd)>> ELSE <<Op("exit")>>

\* main(): a line is read; "cd" is run by the shell itself and changes nothing
\* here, any other line by a child.
getcmd(l) ==
    /\ script[sh] = << >> /\ line = << >>
    /\ l \in QuietLines => Quiet
    /\ Goes(sh, IF l = <<"cd">> THEN << >> ELSE <<Fork(Child(l)), Op("wait")>>)
    /\ UNCHANGED <<table, state, parent, pfd, line, want>>

\* The end of the terminal's input: the shell leaves its loop.
getcmdEof ==
    /\ script[sh] = << >> /\ line = << >>
    /\ Goes(sh, <<Op("exit")>>)
    /\ UNCHANGED <<table, state, parent, pfd, line, want>>

run(p) ==
    /\ Calls(p, "run")
    /\ LET cmd == Head(script[p]).cmd
       IN  /\ Goes(p, runcmd(cmd))
           /\ want' = IF cmd.type = "REDIR" THEN [want EXCEPT ![p][cmd.fd] = Inode] ELSE want
    /\ UNCHANGED <<table, state, parent, pfd, line>>

\* exec() of a program that exists, or of one that does not.
exec(p) ==
    /\ Calls(p, "exec")
    /\ \/ Goes(p, <<[op |-> "prog", left |-> CALLS]>>)
       \/ Goes(p, <<Op("exit")>>)
    /\ UNCHANGED <<table, state, parent, pfd, line, want>>

closes(p) ==
    /\ \/ Calls(p, "close") /\ table' = sys_close(table, p, Head(script[p]).fd).t
       \/ Calls(p, "closep") /\ table' = sys_close(table, p, pfd[p][Head(script[p]).k]).t
    /\ Goon(p)
    /\ UNCHANGED <<state, parent, pfd, line, want>>

dup(p) ==
    /\ Calls(p, "dupp")
    /\ table' = sys_dup(table, p, pfd[p][Head(script[p]).k]).t
    /\ Goon(p)
    /\ UNCHANGED <<state, parent, pfd, line, want>>

open(p) ==
    /\ Calls(p, "open")
    /\ \/ LET r == sys_open(table, p, Inode)
          IN  table' = r.t /\ GoonIf(p, r.fd >= 0)
       \/ UNCHANGED table /\ GoonIf(p, FALSE)        \* no such file, or no inode
    /\ UNCHANGED <<state, parent, pfd, line, want>>

pipe(p) ==
    /\ Calls(p, "pipe")
    /\ LET r == sys_pipe(table, p)
       IN  /\ table' = r.t
           /\ pfd' = [pfd EXCEPT ![p] = IF r.fd = 0 THEN r.pfd ELSE @]
           /\ GoonIf(p, r.fd = 0)
    /\ UNCHANGED <<state, parent, line, want>>

\* fork1(): the child has the parent's descriptors and its p[2].
fork1(p) ==
    /\ Calls(p, "fork")
    /\ LET free == {c \in Procs : state[c] = "UNUSED"}
           c == Min(free)
           end == Head(script[p]).end
       IN  IF free = {}
           THEN GoonIf(p, FALSE) /\ UNCHANGED <<table, state, parent, pfd, want>>
           ELSE /\ script' = [script EXCEPT ![p] = Tail(@), ![c] = Head(script[p]).child]
                /\ state' = [state EXCEPT ![c] = "RUNNING"]
                /\ parent' = [parent EXCEPT ![c] = p]
                /\ table' = DupAll(table, p, c)
                /\ pfd' = [pfd EXCEPT ![c] = pfd[p]]
                /\ want' = [want EXCEPT ![c] =
                       [i \in 0..1 |-> IF i = end THEN ObjAt(table, p, pfd[p][i + 1])
                                       ELSE want[p][i]]]
    /\ UNCHANGED line

Children(p) == {c \in Procs : state[c] # "UNUSED" /\ parent[c] = p}

\* The slots cs are free and those of zs zombies; what nobody reads again is
\* cleared.
Freed(cs, zs) ==
    /\ state' = [q \in Procs |-> IF q \in cs THEN "UNUSED"
                                 ELSE IF q \in zs THEN "ZOMBIE" ELSE state[q]]
    /\ pfd' = [q \in Procs |-> IF q \in cs THEN <<0, 0>> ELSE pfd[q]]
    /\ want' = [q \in Procs |-> IF q \in cs THEN Stdio ELSE want[q]]

wait(p) ==
    /\ Calls(p, "wait")
    /\ \/ /\ Children(p) = {}
          /\ UNCHANGED <<state, parent, pfd, want>>
       \/ \E c \in Children(p) :
            /\ state[c] = "ZOMBIE"
            /\ Freed({c}, {})
            /\ parent' = [parent EXCEPT ![c] = 0]
    /\ Goon(p)
    /\ UNCHANGED <<table, line>>

OpenFds(p) == {i \in Fds : table.fd[p][i] # 0}

\* exit() closes the descriptors one after the other.
exitclose(p) ==
    /\ Calls(p, "exit") /\ OpenFds(p) # {}
    /\ table' = sys_close(table, p, Min(OpenFds(p))).t
    /\ UNCHANGED <<script, state, parent, pfd, line, want>>

\* Then the children pass to init, which reaps them and p at once when they are
\* its zombies.  When it is the shell that ends, init forks another; the console
\* that its main() opens as a fourth descriptor is closed again and leaves no
\* trace.
exit(p) ==
    /\ Calls(p, "exit") /\ OpenFds(p) = {}
    /\ LET orphans == Children(p)
           reaped == {c \in orphans : state[c] = "ZOMBIE"}
       IN  /\ parent' = [q \in Procs |-> IF q \in orphans THEN init ELSE parent[q]]
           /\ IF p = sh THEN Freed(reaped, {})
              ELSE IF parent[p] = init THEN Freed(reaped \cup {p}, {})
              ELSE Freed(reaped, {p})
    /\ table' = IF p = sh THEN DupAll(table, init, sh) ELSE table
    /\ Goes(p, << >>)
    /\ UNCHANGED line

-----------------------------------------------------------------------------
(* Programs.  A write to a full pipe waits for a reader, and fails when there *)
(* is none, which ends the program.                                          *)
write(p) ==
    /\ Calls(p, "write")
    /\ LET obj == ObjAt(table, p, 1)
           i == obj[2]
       IN  IF obj[1] # "write" THEN Goon(p) /\ UNCHANGED table
           ELSE IF table.pipe[i].n < PIPESIZE
           THEN table' = [table EXCEPT !.pipe[i].n = @ + 1] /\ Goon(p)
           ELSE /\ table.pipe[i].readopen = 0
                /\ GoonIf(p, FALSE)
                /\ UNCHANGED table
    /\ UNCHANGED <<state, parent, pfd, line, want>>

\* A read of standard input; the end of it ends the program.
read(p) ==
    /\ Calls(p, "prog")
    /\ LET obj == ObjAt(table, p, 0)
           i == obj[2]
       IN  IF obj[1] # "read" THEN Goes(p, <<Op("exit")>>) /\ UNCHANGED table
           ELSE IF table.pipe[i].n > 0
           THEN table' = [table EXCEPT !.pipe[i].n = @ - 1] /\ UNCHANGED script
           ELSE /\ table.pipe[i].writeopen = 0
                /\ Goes(p, <<Op("exit")>>)
                /\ UNCHANGED table
    /\ UNCHANGED <<state, parent, pfd, line, want>>

\* What a program may do besides: write, pipe, dup and pipe, or end early.
progcall(p) ==
    /\ Calls(p, "prog")
    /\ LET left == Head(script[p]).left
           less == <<[op |-> "prog", left |-> left - 1]>>
       IN  \/ left > 0 /\ Goes(p, <<Op("write")>> \o less) /\ UNCHANGED table
           \/ left > 0 /\ Goes(p, less) /\ table' = sys_pipe(table, p).t
           \/ left > 0 /\ Goes(p, less) /\ table' = sys_pipe(sys_dup(table, p, 0).t, p).t
           \/ Goes(p, <<Op("exit")>>) /\ UNCHANGED table
    /\ UNCHANGED <<state, parent, pfd, line, want>>

\* The calls a process makes for certain, in the order of its script.
Step(p) ==
    \/ run(p) \/ exec(p) \/ closes(p) \/ dup(p) \/ open(p)
    \/ pipe(p) \/ fork1(p) \/ wait(p) \/ exitclose(p) \/ exit(p) \/ write(p) \/ read(p)

Next ==
    \/ \E l \in Lines : getcmd(l)
    \/ \E tok \in Tokens : typing(tok)
    \/ clearbuf
    \/ getcmdEof
    \/ \E p \in Procs : Step(p) \/ progcall(p)

Spec == Init /\ [][Next]_vars

\* The scheduler is fair to every process that can go on.
LiveSpec == Spec /\ \A p \in Procs : WF_vars(Step(p))

-----------------------------------------------------------------------------
Refs(f) == {<<p, i>> \in Procs \X Fds : table.fd[p][i] = f}
Holders(obj) == {f \in Files : table.file[f].obj = obj /\ table.file[f].ref > 0}

\* The recursive descent of parsecmd() reads a line as the grammar of the shell
\* does: it accepts the lines of the language, each in its only reading, with
\* | binding closer than &, & closer than ; and a redirection closest of all,
\* and it panics on every other line (sh.c:327).
ParserMatchesGrammar == Reading(line) = LineOf(line)

\* A file structure is in use exactly as often as descriptors name it, and an
\* end of a pipe is open exactly while one file structure stands for it: no
\* failing call of pipe(), dup() or open(), and no exit, leaks or doubles one
\* (sysfile.c:433, pipe.c:48, file.c:62).
FileRefsCounted ==
    /\ \A f \in Files : table.file[f].ref = Cardinality(Refs(f))
    /\ \A i \in Pipes :
         /\ Cardinality(Holders(ReadEnd(i))) = table.pipe[i].readopen
         /\ Cardinality(Holders(WriteEnd(i))) = table.pipe[i].writeopen

\* A program starts with the standard input and output that the command
\* language gives it, with the terminal as descriptor 2, and with no other
\* descriptor, whatever pipes and redirections its ancestors went through
\* (sh.c:79, sh.c:100).
ExecSeesItsEnds ==
    \A p \in Procs : Calls(p, "exec") =>
        /\ \A i \in 0..1 : ObjAt(table, p, i) = want[p][i]
        /\ ObjAt(table, p, 2) = Console
        /\ \A i \in Fds : i > 2 => table.fd[p][i] = 0

\* The prompt comes back: no pipeline waits for an end of input that a
\* descriptor somebody forgot to close withholds, and no wait() for a child
\* that never ends (sh.c:118, sh.c:169).
PromptReturns == (script[sh] # << >>) ~> (script[sh] = << >>)
=============================================================================
