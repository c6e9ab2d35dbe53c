------------------------------- MODULE Stream -------------------------------
(* What a pipe promises: a bounded stream of bytes.  What is read is a     *)
(* prefix of what was written, nothing is lost, repeated or reordered, and *)
(* at most Capacity bytes are on the way.                                  *)
EXTENDS Naturals, Sequences

CONSTANT Capacity

VARIABLES
    sent,        \* the bytes written so far
    got,         \* the bytes read so far
    readEnd,     \* 1 while a reader may come, then 0
    writeEnd     \* 1 while a writer may come, then 0

svars == <<sent, got, readEnd, writeEnd>>

Extends(s, t) == Len(t) >= Len(s) /\ SubSeq(t, 1, Len(s)) = s

StreamInit == sent = <<>> /\ got = <<>> /\ readEnd = 1 /\ writeEnd = 1

Put ==
    /\ writeEnd = 1
    /\ Extends(sent, sent')
    /\ Len(sent') - Len(got) <= Capacity
    /\ UNCHANGED <<got, readEnd, writeEnd>>

Get ==
    /\ readEnd = 1
    /\ Extends(got, got')
    /\ Extends(got', sent)
    /\ UNCHANGED <<sent, readEnd, writeEnd>>

CloseRead == readEnd = 1 /\ readEnd' = 0 /\ UNCHANGED <<sent, got, writeEnd>>

CloseWrite == writeEnd = 1 /\ writeEnd' = 0 /\ UNCHANGED <<sent, got, readEnd>>

StreamSpec == StreamInit /\ [][Put \/ Get \/ CloseRead \/ CloseWrite]_svars
=============================================================================
