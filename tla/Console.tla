------------------------------ MODULE Console ------------------------------
(* Console input: the keyboard's scan codes (kbd.c), the interrupts of the  *)
(* keyboard and the serial port, the ring of typed characters with its line *)
(* editing (console.c), and the processes that read it.  cons.lock is held  *)
(* from one sleep to the next, so a run of consoleread() between two sleeps *)
(* is one step, and so is consoleintr() for one character.                  *)
EXTENDS Naturals, Sequences

CONSTANTS
    Users,         \* processes that read the console
    INPUT_BUF,
    IndexWrap,     \* r, w and e are counted modulo IndexWrap: 2^32 in the code
    Serial,        \* characters that come over the serial port
    Keys,          \* keys of the keyboard
    ExtKeys,       \* keys whose codes come after a byte E0
    ReadSizes      \* the values of n in read(fd, buf, n)

ASSUME ConsoleAssumption ==
    /\ INPUT_BUF \in Nat \ {0} /\ IndexWrap \in Nat
    /\ IndexWrap > INPUT_BUF /\ IndexWrap % INPUT_BUF = 0
    /\ ReadSizes \subseteq Nat \ {0}
    /\ Serial \subseteq {"x", "NL", "CR", "^D", "^H", "^P", "^U", "DEL"}
    /\ Keys \cup ExtKeys \subseteq {"ctl", "shift", "d", "h", "p", "u", "enter"}

VARIABLES
    buf, r, w, e,    \* input
    shift,           \* the static variable of kbdgetc()
    rpc,             \* "user", "run" or "sleep" (in consoleread())
    left, took,      \* n and target - n of consoleread()
    condemned,       \* the processes with proc->killed set
    escaped,         \* the keyboard has sent E0 and owes the code of the key
    held             \* history: the modifier keys that are down

ring == <<buf, r, w, e>>
readVars == <<rpc, left, took, condemned>>
keyVars == <<shift, escaped, held>>
consoleVars == <<ring, keyVars, readVars>>

-----------------------------------------------------------------------------
\* The tables of kbd.h: a key is <<name, 1>> after E0.  The case of letters is
\* left out, and a letter is "x" unless CTL is down.
ctlmap == [d |-> "^D", h |-> "^H", p |-> "^P", u |-> "^U", enter |-> "CR"]

shiftcode(key) ==
    IF key[1] = "ctl" THEN {"CTL"} ELSE IF key = <<"shift", 0>> THEN {"SHIFT"} ELSE {}

charcode(mods, key) ==
    IF key[1] \in {"ctl", "shift"} \/ (key[2] = 1 /\ key[1] # "enter") THEN "NO"
    ELSE IF "CTL" \in mods THEN ctlmap[key[1]]
    ELSE IF key[1] = "enter" THEN "NL" ELSE "x"

\* Mutant: the release of an extended key clears the key of the same code only
\* when no E0 came before.
kbdgetcKeeps(key, up) ==
    LET ext == IF "E0ESC" \in shift THEN 1 ELSE 0
        data == <<key, ext>>
        mods == (shift \ {"E0ESC"}) \cup shiftcode(data)
    IN  IF up = 1
        THEN [shift |-> IF ext = 1 THEN shift \ {"E0ESC"} ELSE shift \ shiftcode(data),
              c |-> "NO"]
        ELSE [shift |-> mods, c |-> charcode(mods, data)]

\* kbdgetc() on the byte of a key going down (up = 0) or up.
kbdgetc(key, up) ==
    LET ext == IF "E0ESC" \in shift THEN 1 ELSE 0
        data == <<key, ext>>
        mods == (shift \ {"E0ESC"}) \cup shiftcode(data)
    IN  IF up = 1
        THEN [shift |-> shift \ (shiftcode(data) \cup {"E0ESC"}), c |-> "NO"]
        ELSE [shift |-> mods, c |-> charcode(mods, data)]

-----------------------------------------------------------------------------
\* input.buf between two indices, oldest first.
Used(from, to) == (to + IndexWrap - from) % IndexWrap
Slice(from, to) ==
    [j \in 1 .. Used(from, to) |-> buf[(from + j - 1) % INPUT_BUF]]

Wakeup == rpc' = [p \in Users |-> IF rpc[p] = "sleep" THEN "run" ELSE rpc[p]]

\* Mutant: one character more than the ring has room for.
StoreCharOver(c) ==
    LET ch == IF c = "CR" THEN "NL" ELSE c
        next == (e + 1) % IndexWrap
    IN  IF c # "NO" /\ Used(r, e) <= INPUT_BUF
        THEN /\ buf' = [buf EXCEPT ![e % INPUT_BUF] = ch]
             /\ e' = next /\ r' = r
             /\ IF ch \in {"NL", "^D"} \/ next = (r + INPUT_BUF) % IndexWrap
                THEN w' = next /\ Wakeup
                ELSE UNCHANGED <<w, rpc>>
        ELSE UNCHANGED <<ring, rpc>>

\* Mutant: a line ended by a full ring wakes nobody.
StoreCharSilently(c) ==
    LET ch == IF c = "CR" THEN "NL" ELSE c
        next == (e + 1) % IndexWrap
    IN  IF c # "NO" /\ Used(r, e) < INPUT_BUF
        THEN /\ buf' = [buf EXCEPT ![e % INPUT_BUF] = ch]
             /\ e' = next /\ r' = r
             /\ IF ch \in {"NL", "^D"} \/ next = (r + INPUT_BUF) % IndexWrap
                THEN w' = next /\ IF ch = "x" THEN UNCHANGED rpc ELSE Wakeup
                ELSE UNCHANGED <<w, rpc>>
        ELSE UNCHANGED <<ring, rpc>>

\* The default case of consoleintr(): the character is dropped when the ring is
\* full, and ends a line when it fills the ring.
StoreChar(c) ==
    LET ch == IF c = "CR" THEN "NL" ELSE c
        next == (e + 1) % IndexWrap
    IN  IF c # "NO" /\ Used(r, e) < INPUT_BUF
        THEN /\ buf' = [buf EXCEPT ![e % INPUT_BUF] = ch]
             /\ e' = next /\ r' = r
             /\ IF ch \in {"NL", "^D"} \/ next = (r + INPUT_BUF) % IndexWrap
                THEN w' = next /\ Wakeup
                ELSE UNCHANGED <<w, rpc>>
        ELSE UNCHANGED <<ring, rpc>>

\* ^U takes back what was typed since the last newline or the last line read.
KillLine ==
    LET erasable == {k \in 0 .. Used(w, e) :
                        \A j \in 1 .. k : buf[(e + IndexWrap - j) % INPUT_BUF] # "NL"}
        k == CHOOSE m \in erasable : \A j \in erasable : j <= m
    IN  e' = (e + IndexWrap - k) % IndexWrap

\* consoleintr() for one character.  ^P prints the process table after the lock
\* is released.
consoleintr(c) ==
    CASE c = "^P" -> UNCHANGED <<ring, rpc>>
      [] c = "^U" -> KillLine /\ UNCHANGED <<buf, r, w, rpc>>
      [] c \in {"^H", "DEL"} ->
            /\ e' = IF e # w THEN (e + IndexWrap - 1) % IndexWrap ELSE e
            /\ UNCHANGED <<buf, r, w, rpc>>
      [] OTHER -> StoreChar(c)

\* uartintr()
Uartintr(c) ==
    /\ consoleintr(c)
    /\ UNCHANGED <<keyVars, left, took, condemned>>

\* kbdintr() on E0, which announces the code of an extended key.
KbdEscape ==
    /\ escaped = 0 /\ escaped' = 1
    /\ shift' = shift \cup {"E0ESC"}
    /\ UNCHANGED <<ring, held, readVars>>

\* kbdintr() on the code of a key, which goes down, repeats or goes up; held
\* follows the modifiers.
Kbdintr(key, up) ==
    /\ key \in IF escaped = 1 THEN ExtKeys ELSE Keys
    /\ up = 1 => key \notin {"ctl", "shift"} \/ <<key, escaped>> \in held
    /\ shift' = kbdgetc(key, up).shift
    /\ consoleintr(kbdgetc(key, up).c)
    /\ held' = IF up = 1 THEN held \ {<<key, escaped>>}
               ELSE IF key \in {"ctl", "shift"} THEN held \cup {<<key, escaped>>} ELSE held
    /\ escaped' = 0
    /\ UNCHANGED <<left, took, condemned>>

-----------------------------------------------------------------------------
ReadStart(p, count) ==
    /\ rpc[p] = "user" /\ p \notin condemned
    /\ rpc' = [rpc EXCEPT ![p] = "run"]
    /\ left' = [left EXCEPT ![p] = count] /\ took' = [took EXCEPT ![p] = 0]
    /\ UNCHANGED <<ring, keyVars, condemned>>

Leave(p) ==
    /\ rpc' = [rpc EXCEPT ![p] = "user"]
    /\ left' = [left EXCEPT ![p] = 0] /\ took' = [took EXCEPT ![p] = 0]

\* How many characters the loop of consoleread() takes from input.r on: to the
\* end of the line, to a ^D, to n or to input.w.
Takes(p) ==
    LET line == Slice(r, w)
        ok == {k \in 0 .. Len(line) : /\ k <= left[p]
                                      /\ \A j \in 1 .. k : line[j] # "^D"
                                      /\ \A j \in 1 .. k - 1 : line[j] # "NL"}
    IN  CHOOSE k \in ok : \A j \in ok : j <= k

\* consoleread() from having cons.lock to returning or sleeping.  A ^D is taken
\* only by a read that has nothing else to return.  A killed process returns -1
\* when it comes to an empty ring.
ReadRun(p) ==
    LET line == Slice(r, w)
        k == Takes(p)
        eof == k < Len(line) /\ k < left[p] /\ line[k + 1] = "^D"
                 /\ (k = 0 \/ line[k] # "NL")
        taken == IF eof /\ took[p] + k = 0 THEN 1 ELSE k
        done == eof \/ k = left[p] \/ (k > 0 /\ line[k] = "NL")
    IN  /\ rpc[p] = "run"
        /\ r' = (r + taken) % IndexWrap
        /\ IF done \/ p \in condemned
           THEN Leave(p)
           ELSE /\ rpc' = [rpc EXCEPT ![p] = "sleep"]
                /\ left' = [left EXCEPT ![p] = @ - k] /\ took' = [took EXCEPT ![p] = @ + k]
        /\ UNCHANGED <<buf, w, e, keyVars, condemned>>

\* kill(): a sleeping reader becomes RUNNABLE.
KillReader(p) ==
    /\ p \notin condemned
    /\ condemned' = condemned \cup {p}
    /\ rpc' = [rpc EXCEPT ![p] = IF @ = "sleep" THEN "run" ELSE @]
    /\ UNCHANGED <<ring, keyVars, left, took>>

\* A killed process exits on its way to user space; the slot's next process is
\* a reader too.
ReaderExits(p) ==
    /\ rpc[p] = "user" /\ p \in condemned
    /\ condemned' = condemned \ {p}
    /\ UNCHANGED <<ring, keyVars, rpc, left, took>>

-----------------------------------------------------------------------------
ConsoleInit ==
    /\ buf = [j \in 0 .. INPUT_BUF - 1 |-> "NO"] /\ r = 0 /\ w = 0 /\ e = 0
    /\ shift = {} /\ escaped = 0 /\ held = {}
    /\ rpc = [p \in Users |-> "user"]
    /\ left = [p \in Users |-> 0] /\ took = [p \in Users |-> 0]
    /\ condemned = {}

KeyboardNext ==
    \/ KbdEscape
    \/ \E key \in Keys \cup ExtKeys, up \in {0, 1} : Kbdintr(key, up)

ConsoleNext ==
    \/ \E c \in Serial : Uartintr(c)
    \/ \E p \in Users :
          \/ \E count \in ReadSizes : ReadStart(p, count)
          \/ ReadRun(p) \/ KillReader(p) \/ ReaderExits(p)

ConsoleSpec == ConsoleInit /\ [][KeyboardNext \/ ConsoleNext]_consoleVars

-----------------------------------------------------------------------------
Line == INSTANCE Tty WITH
    Size <- INPUT_BUF, Ends <- {"NL", "^D"},
    Chars <- {"x", "NL", "^D"},
    lines <- Slice(r, w), edit <- Slice(w, e)

\* consoleintr() and consoleread() together are a line editor and a queue of
\* lines, although the three indices wrap, the ring fills, and readers take
\* parts of lines and give a ^D back.
ImplementsTty == Line!Spec

\* A reader sleeps only beside an empty ring and is not killed: no wakeup of
\* consoleintr() or kill() is missed.
ReadersSleepForInput ==
    \A p \in Users : rpc[p] = "sleep" => r = w /\ p \notin condemned

\* kbdgetc() never goes on applying a modifier when no such key is down, through
\* left and right keys, E0 codes that arrive in two interrupts and repeats.
NoStuckModifier ==
    \A m \in {"CTL", "SHIFT"} :
        m \in shift => \E key \in held : m \in shiftcode(key)
=============================================================================
