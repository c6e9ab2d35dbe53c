------------------------------ MODULE ShParse ------------------------------
(* The parser of sh.c: a recursive descent over the tokens of a line.  A    *)
(* parser takes the tokens that are left and returns a command and what it  *)
(* leaves, or fails where the code panics.  Tokens are separated already:   *)
(* gettoken()'s scanning of characters is left out.                         *)
EXTENDS Naturals, Sequences, SequencesExt

CONSTANTS
    Words,       \* command names, arguments and file names
    MAXARGS

RedirSyms == {"<", ">", ">>"}

\* The constructors.  >> appends as little as > does: both open the file with
\* the same mode.
execcmd(argv) == [type |-> "EXEC", argv |-> argv]
redircmd(cmd, red) == [type |-> "REDIR", cmd |-> cmd, file |-> red.file, fd |-> red.fd]
pipecmd(left, right) == [type |-> "PIPE", left |-> left, right |-> right]
listcmd(left, right) == [type |-> "LIST", left |-> left, right |-> right]
backcmd(cmd) == [type |-> "BACK", cmd |-> cmd]

Redir(sym, word) == [file |-> word, fd |-> IF sym = "<" THEN 0 ELSE 1]
Wrapped(cmd, reds) == FoldLeft(redircmd, cmd, reds)

peek(s) == IF s = << >> THEN "end" ELSE Head(s)
Parsed(cmd, rest) == [ok |-> 1, cmd |-> cmd, rest |-> rest]
Panics == [ok |-> 0, cmd |-> << >>, rest |-> << >>]

-----------------------------------------------------------------------------
RECURSIVE parseredirs(_, _)
RECURSIVE parseargs(_, _, _)
RECURSIVE parsepipe(_)
RECURSIVE parseline(_)

\* The redirections at the head of s, appended to reds, as the "command".
parseredirs(reds, s) ==
    IF peek(s) \notin RedirSyms THEN Parsed(reds, s)
    ELSE IF peek(Tail(s)) \notin Words THEN Panics
    ELSE parseredirs(Append(reds, Redir(s[1], s[2])), SubSeq(s, 3, Len(s)))

\* Mutant: the redirections after a block are left to the caller.
parseblockBare(s) ==
    LET body == parseline(Tail(s))
    IN  IF body.ok = 0 \/ peek(body.rest) # ")" THEN Panics
        ELSE Parsed(body.cmd, Tail(body.rest))

parseblock(s) ==
    LET body == parseline(Tail(s))
        reds == parseredirs(<< >>, Tail(body.rest))
    IN  IF body.ok = 0 \/ peek(body.rest) # ")" THEN Panics
        ELSE IF reds.ok = 0 THEN Panics
        ELSE Parsed(Wrapped(body.cmd, reds.cmd), reds.rest)

\* The loop of parseexec().
parseargs(argv, reds, s) ==
    IF peek(s) \in {"|", ")", "&", ";", "end"}
    THEN Parsed(Wrapped(execcmd(argv), reds), s)
    ELSE IF peek(s) \notin Words \/ Len(argv) + 1 >= MAXARGS THEN Panics
    ELSE LET more == parseredirs(reds, Tail(s))
         IN  IF more.ok = 0 THEN Panics
             ELSE parseargs(Append(argv, Head(s)), more.cmd, more.rest)

parseexec(s) ==
    IF peek(s) = "(" THEN parseblock(s)
    ELSE LET reds == parseredirs(<< >>, s)
         IN  IF reds.ok = 0 THEN Panics ELSE parseargs(<< >>, reds.cmd, reds.rest)

parsepipe(s) ==
    LET left == parseexec(s)
        right == parsepipe(Tail(left.rest))
    IN  IF left.ok = 0 \/ peek(left.rest) # "|" THEN left
        ELSE IF right.ok = 0 THEN Panics
        ELSE Parsed(pipecmd(left.cmd, right.cmd), right.rest)

\* Any number of &, each of which puts the command in the background.
RECURSIVE parseback(_)
parseback(p) ==
    IF p.ok = 0 \/ peek(p.rest) # "&" THEN p
    ELSE parseback(Parsed(backcmd(p.cmd), Tail(p.rest)))

parseline(s) ==
    LET left == parseback(parsepipe(s))
        right == parseline(Tail(left.rest))
    IN  IF left.ok = 0 \/ peek(left.rest) # ";" THEN left
        ELSE IF right.ok = 0 THEN Panics
        ELSE Parsed(listcmd(left.cmd, right.cmd), right.rest)

parsecmd(s) ==
    LET line == parseline(s)
    IN  IF line.ok = 1 /\ line.rest = << >> THEN line ELSE Panics

-----------------------------------------------------------------------------
(* The language of the shell, as a grammar: the set of commands a sequence   *)
(* of tokens may be read as.                                                 *)
(*   line  ::= back | back ; line       back ::= pipe | back &               *)
(*   pipe  ::= item | item "|" pipe     item ::= ( line ) redirs | simple    *)
(* A simple command is a sequence of words and redirections, maybe empty.    *)
RECURSIVE LineOf(_)

Before(s, j) == SubSeq(s, 1, j - 1)
After(s, j) == SubSeq(s, j + 1, Len(s))
At(s, sym) == {j \in DOMAIN s : s[j] = sym}

\* The redirections of s, and its words that no redirection sign precedes.
RedirsOf(s) ==
    LET at == SetToSortSeq({j \in DOMAIN s : s[j] \in RedirSyms}, <)
    IN  [k \in DOMAIN at |-> Redir(s[at[k]], s[at[k] + 1])]
ArgsOf(s) ==
    LET at == SetToSortSeq({j \in DOMAIN s : s[j] \in Words
                                /\ (j = 1 \/ s[j - 1] \notin RedirSyms)}, <)
    IN  [k \in DOMAIN at |-> s[at[k]]]

IsSimple(s) ==
    /\ \A j \in DOMAIN s : s[j] \in Words \cup RedirSyms
    /\ \A j \in DOMAIN s : s[j] \in RedirSyms => j < Len(s) /\ s[j + 1] \in Words

SimpleOf(s) ==
    IF IsSimple(s) /\ Len(ArgsOf(s)) < MAXARGS
    THEN {Wrapped(execcmd(ArgsOf(s)), RedirsOf(s))} ELSE {}

BlockOf(s) ==
    UNION {IF peek(s) = "(" /\ IsSimple(After(s, j)) /\ ArgsOf(After(s, j)) = << >>
           THEN {Wrapped(c, RedirsOf(After(s, j))) : c \in LineOf(SubSeq(s, 2, j - 1))}
           ELSE {} : j \in At(s, ")")}

RECURSIVE PipeOf(_)
PipeOf(s) ==
    SimpleOf(s) \cup BlockOf(s) \cup
    UNION {{pipecmd(l, r) : l \in SimpleOf(Before(s, j)) \cup BlockOf(Before(s, j)),
                            r \in PipeOf(After(s, j))} : j \in At(s, "|")}

RECURSIVE BackOf(_)
BackOf(s) ==
    PipeOf(s) \cup
    IF s # << >> /\ Last(s) = "&" THEN {backcmd(c) : c \in BackOf(Front(s))} ELSE {}

LineOf(s) ==
    BackOf(s) \cup
    UNION {{listcmd(l, r) : l \in BackOf(Before(s, j)), r \in LineOf(After(s, j))}
             : j \in At(s, ";")}

\* What parsecmd() makes of a line, as such a set.
Reading(s) == LET p == parsecmd(s) IN IF p.ok = 1 THEN {p.cmd} ELSE {}
=============================================================================
