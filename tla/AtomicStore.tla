---------------------------- MODULE AtomicStore ----------------------------
(* What log.c promises to the file system: the blocks behave like one      *)
(* store whose durable copy only ever changes from one state between       *)
(* operations to another, all the writes of the finished operations at a   *)
(* time.  A power failure takes the store back to its durable copy.        *)

CONSTANTS Procs, Blocks, Vals

VARIABLES
    durable,   \* what the disk holds once recovery has run
    current,   \* what the file system reads
    active     \* processes between begin_op() and end_op()

vars == <<durable, current, active>>

Init ==
    /\ durable \in [Blocks -> Vals]
    /\ current = durable
    /\ active = {}

Begin(p) ==
    /\ p \notin active
    /\ active' = active \cup {p}
    /\ UNCHANGED <<durable, current>>

Write(p, b, v) ==
    /\ p \in active
    /\ current' = [current EXCEPT ![b] = v]
    /\ UNCHANGED <<durable, active>>

End(p) ==
    /\ p \in active
    /\ active' = active \ {p}
    /\ UNCHANGED <<durable, current>>

\* Only whole operations become durable: no operation is in progress.
Commit ==
    /\ active = {}
    /\ durable' = current
    /\ UNCHANGED <<current, active>>

Crash ==
    /\ current' = durable
    /\ active' = {}
    /\ UNCHANGED durable

Next ==
    \/ \E p \in Procs : Begin(p) \/ End(p)
    \/ \E p \in Procs, b \in Blocks, v \in Vals : Write(p, b, v)
    \/ Commit
    \/ Crash

Spec == Init /\ [][Next]_vars
=============================================================================
