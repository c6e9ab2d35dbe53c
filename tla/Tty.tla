-------------------------------- MODULE Tty --------------------------------
(* What the console promises: a line editor in front of a queue of typed    *)
(* characters.  What is typed can be edited until the line ends, or until   *)
(* there is no room left; from then on it is read once and in order, by     *)
(* reads that do not go past the end of a line.                             *)
EXTENDS Naturals, Sequences

CONSTANTS
    Size,     \* characters the two queues have room for
    Chars,    \* what may be typed
    Ends      \* the ones that end a line

VARIABLES lines, edit

Init == lines = << >> /\ edit = << >>

Room == Len(lines) + Len(edit) < Size

Type(c) ==
    /\ Room
    /\ IF c \in Ends \/ Len(lines) + Len(edit) + 1 = Size
       THEN lines' = lines \o Append(edit, c) /\ edit' = << >>
       ELSE edit' = Append(edit, c) /\ lines' = lines

Erase(k) ==
    /\ edit' = SubSeq(edit, 1, Len(edit) - k)
    /\ lines' = lines

Take(k) ==
    /\ \A j \in 1 .. k - 1 : lines[j] \notin Ends
    /\ lines' = SubSeq(lines, k + 1, Len(lines))
    /\ edit' = edit

Next ==
    \/ \E c \in Chars : Type(c)
    \/ \E k \in 1 .. Len(edit) : Erase(k)
    \/ \E k \in 1 .. Len(lines) : Take(k)

Spec == Init /\ [][Next]_<<lines, edit>>
=============================================================================
