------------------------------ MODULE BioProofs ------------------------------
(* The buffer cache: for every number of processes, buffers and blocks, a    *)
(* block has one buffer, whoever has it locked sees what was last stored in  *)
(* it, and no sleeper is forgotten.                                          *)
(*                                                                           *)
(* The inductive invariant says who holds and who has locked each buffer,    *)
(* what is in the driver's queue, and where the latest contents of a block   *)
(* are: in its buffer when that is valid, on the disk when it is clean.      *)
EXTENDS Bio, FiniteSetTheorems, TLAPS

\* A sequence is a function on an interval, and its elements have its type.
LEMMA SeqTyped ==
    ASSUME NEW S, NEW s \in Seq(S)
    PROVE  /\ Len(s) \in Nat /\ DOMAIN s = 1 .. Len(s) /\ s \in [1 .. Len(s) -> S]
           /\ \A i \in 1 .. Len(s) : s[i] \in S
           /\ (s = <<>>) <=> (Len(s) = 0)
  OBVIOUS

\* A set of naturals has a least element.
LEMMA LeastExists ==
    ASSUME NEW T, T \subseteq Nat, T # {} PROVE \E x \in T : \A y \in T : x <= y
<1>1. \A x, y \in Nat : x < y => <<x, y>> \in OpToRel(<, Nat)
  BY DEF OpToRel
<1>2. PICK x \in T : \A y \in T : ~(<<y, x>> \in OpToRel(<, Nat))
  BY ZenonT(60), WFMin, NatLessThanWellFounded
<1>3. ASSUME NEW y \in T PROVE x <= y
  <2>1. x \in Nat /\ y \in Nat
    OBVIOUS
  <2>2. ~(y < x)
    BY ZenonT(60), <1>1, <1>2, <2>1
  <2>. QED
    BY <2>1, <2>2
<1>. QED
  BY <1>3

\* A set of naturals with a bound has a greatest element.
LEMMA GreatestExists ==
    ASSUME NEW m \in Nat, NEW T, T \subseteq 0 .. m, T # {}
    PROVE  \E x \in T : \A y \in T : y <= x
<1>. DEFINE U == {z \in 0 .. m : m - z \in T}
<1>1. U \subseteq Nat /\ U # {}
  <2>1. PICK y \in T : TRUE
    BY ZenonT(60)
  <2>2. m - y \in 0 .. m /\ m - (m - y) = y
    OBVIOUS
  <2>3. m - y \in U
    BY <2>2
  <2>4. U \subseteq Nat
    OBVIOUS
  <2>. HIDE DEF U
  <2>. QED
    BY <2>3, <2>4
<1>2. PICK z \in U : \A y \in U : z <= y
  BY ZenonT(60), <1>1, LeastExists
<1>3. m - z \in T
  BY <1>2
<1>4. ASSUME NEW y \in T PROVE y <= m - z
  <2>1. y \in 0 .. m /\ m - y \in 0 .. m /\ m - (m - y) = y
    OBVIOUS
  <2>2. m - y \in U
    BY <2>1
  <2>3. z <= m - y /\ z \in 0 .. m
    BY <1>2, <2>2
  <2>. QED
    BY <2>1, <2>3
<1>. QED
  BY <1>3, <1>4

Locs == {"idle", "lock", "lock sleep", "io", "io sleep", "io wait", "use", "drop"}

\* Between acquiresleep() and releasesleep().
Locking == {"io", "io sleep", "io wait", "use"}

\* Between the start of a request and the end of iderw().
Waiting == {"io sleep", "io wait"}

TypeOK ==
    /\ blockno \in [Bufs -> Blocks \cup {NoBlock}]
    /\ refcnt \in [Bufs -> Nat]
    /\ flags \in [Bufs -> SUBSET {"B_VALID", "B_DIRTY"}]
    /\ data \in [Bufs -> Vals]
    /\ lock \in [Bufs -> Procs \cup {Nobody}]
    /\ mru \in Seq(Bufs)
    /\ idequeue \in Seq(Bufs)
    /\ disk \in [Blocks -> Vals] /\ latest \in [Blocks -> Vals]
    /\ pc \in [Procs -> Locs] /\ held \in [Procs -> Bufs \cup {Nobody}]

\* Every buffer is on the list.
Listed == \A b \in Bufs : \E i \in DOMAIN mru : mru[i] = b

References(b) == {p \in Procs : held[p] = b}

\* b->refcnt is the number of processes between bget() and brelse(), which hold
\* a buffer of some block; a block has one buffer.
Counted ==
    /\ \A b \in Bufs : refcnt[b] = Cardinality(References(b))
    /\ \A p \in Procs : pc[p] = "idle" <=> held[p] = Nobody
    /\ \A p \in Procs : pc[p] # "idle" => held[p] \in Bufs /\ blockno[held[p]] \in Blocks
    /\ \A a, b \in Bufs : blockno[a] = blockno[b] /\ blockno[a] # NoBlock => a = b

\* The lock of a buffer is had by the one process that is past acquiresleep().
Locks ==
    /\ \A p \in Procs : pc[p] \in Locking => lock[held[p]] = p
    /\ \A b \in Bufs : lock[b] # Nobody => pc[lock[b]] \in Locking /\ held[lock[b]] = b
    /\ \A p \in Procs : pc[p] = "lock sleep" => lock[held[p]] # Nobody

\* The queue has the unfinished buffers of the processes in iderw(), once each,
\* and the disk works on the first.
Queue ==
    /\ \A i \in DOMAIN idequeue :
          /\ lock[idequeue[i]] # Nobody /\ pc[lock[idequeue[i]]] \in Waiting
          /\ ~Finished(idequeue[i])
    /\ \A i, j \in DOMAIN idequeue : idequeue[i] = idequeue[j] => i = j
    /\ \A p \in Procs : pc[p] \in Waiting =>
          \/ \E i \in DOMAIN idequeue : idequeue[i] = held[p]
          \/ pc[p] = "io wait" /\ Finished(held[p])
    /\ request = IF idequeue = <<>> THEN NoRequest ELSE idestart(Head(idequeue))

\* A valid buffer has the latest contents of its block, and so has the disk
\* unless the buffer is dirty; but for the blocks that have read errors.
Contents ==
    /\ \A p \in Procs : pc[p] = "io" => ~Finished(held[p])
    /\ \A p \in Procs : pc[p] = "use" => "B_VALID" \in flags[held[p]]
    /\ \A b \in Bufs : "B_DIRTY" \in flags[b] => "B_VALID" \in flags[b]
    /\ \A b \in Bufs : "B_VALID" \in flags[b] /\ blockno[b] # NoBlock /\ blockno[b] \notin Faulty
                           => data[b] = latest[blockno[b]]
    /\ \A k \in Blocks : k \notin Faulty /\ (\A b \in Bufs : blockno[b] = k => "B_DIRTY" \notin flags[b])
                             => disk[k] = latest[k]

\* The one panic there is.
OutOfBuffers ==
    panicked # "no" =>
        /\ panicked = "bget: no buffers"
        /\ \A b \in Bufs : refcnt[b] # 0 \/ "B_DIRTY" \in flags[b]

Inv == TypeOK /\ Listed /\ Counted /\ Locks /\ Queue /\ Contents /\ OutOfBuffers

-----------------------------------------------------------------------------
(* The list of bcache.head *)

\* Both searches of bget() find a buffer of a set that has one.
LEMMA SearchFinds ==
    ASSUME TypeOK, Listed, NEW S, S \subseteq Bufs, S # {}
    PROVE  First(S) \in S /\ Last(S) \in S
<1>. DEFINE T == {i \in DOMAIN mru : mru[i] \in S}
<1>1. mru \in Seq(Bufs) /\ Len(mru) \in Nat /\ DOMAIN mru = 1 .. Len(mru)
  BY DEF TypeOK
<1>2. T \subseteq 0 .. Len(mru) /\ T # {}
  <2>1. PICK b \in S : TRUE
    OBVIOUS
  <2>2. PICK i \in DOMAIN mru : mru[i] = b
    BY <2>1 DEF Listed
  <2>3. i \in T
    BY <2>1, <2>2
  <2>4. T \subseteq 0 .. Len(mru)
    BY <1>1
  <2>. HIDE DEF T
  <2>. QED
    BY <2>3, <2>4
<1>3. PICK x \in T : \A y \in T : x <= y
  <2>1. T \subseteq Nat
    BY <1>1, <1>2
  <2>. HIDE DEF T
  <2>. QED
    BY Zenon, <1>2, <2>1, LeastExists
<1>4. PICK z \in T : \A y \in T : y <= z
  <2>. HIDE DEF T
  <2>. QED
    BY Zenon, <1>1, <1>2, GreatestExists
<1>5. First(S) \in S
  <2>1. \A j \in 1 .. x - 1 : mru[j] \notin S
    BY <1>1, <1>3
  <2>2. x \in DOMAIN mru /\ mru[x] \in S
    BY <1>3
  <2>. QED
    BY <2>1, <2>2 DEF First
<1>6. Last(S) \in S
  <2>1. \A j \in z + 1 .. Len(mru) : mru[j] \notin S
    BY <1>1, <1>4
  <2>2. z \in DOMAIN mru /\ mru[z] \in S
    BY <1>4
  <2>. QED
    BY Zenon, <2>1, <2>2 DEF Last
<1>. QED
  BY <1>5, <1>6

\* Moving a buffer to the front keeps every buffer on the list.
LEMMA MovedKeeps ==
    ASSUME TypeOK, Listed, NEW b \in Bufs
    PROVE  /\ Moved(b) \in Seq(Bufs)
           /\ \A c \in Bufs : \E i \in DOMAIN Moved(b) : Moved(b)[i] = c
<1>. DEFINE n == CHOOSE i \in DOMAIN mru : mru[i] = b
<1>1. Len(mru) \in Nat /\ DOMAIN mru = 1 .. Len(mru) /\ mru \in [1 .. Len(mru) -> Bufs]
  BY DEF TypeOK
<1>2. n \in 1 .. Len(mru) /\ mru[n] = b
  BY <1>1 DEF Listed
<1>3. Moved(b) = [i \in 1 .. Len(mru) |->
                    IF i = 1 THEN b ELSE IF i <= n THEN mru[i - 1] ELSE mru[i]]
  BY <1>1 DEF Moved
<1>. HIDE DEF n
<1>4. Moved(b) \in [1 .. Len(mru) -> Bufs]
  <2>1. ASSUME NEW i \in 1 .. Len(mru), i # 1 PROVE i - 1 \in 1 .. Len(mru)
    BY <1>1, <2>1
  <2>. QED
    BY <1>1, <1>3, <2>1
<1>5. ASSUME NEW c \in Bufs PROVE \E i \in DOMAIN Moved(b) : Moved(b)[i] = c
  <2>1. PICK j \in 1 .. Len(mru) : mru[j] = c
    BY <1>1 DEF Listed
  <2>2. CASE c = b
    <3>1. 1 \in 1 .. Len(mru) /\ Moved(b)[1] = b
      BY <1>1, <1>2, <1>3
    <3>. QED
      BY <1>3, <2>2, <3>1
  <2>3. CASE c # b /\ j < n
    <3>1. j + 1 \in 1 .. Len(mru) /\ j + 1 # 1 /\ j + 1 <= n /\ (j + 1) - 1 = j
      BY <1>1, <1>2, <2>3
    <3>2. Moved(b)[j + 1] = mru[j]
      BY <1>3, <3>1
    <3>. QED
      BY Zenon, <1>3, <2>1, <3>1, <3>2
  <2>4. CASE c # b /\ ~(j < n)
    <3>1. j # 1 /\ ~(j <= n)
      BY <1>1, <1>2, <2>1, <2>4
    <3>2. Moved(b)[j] = mru[j]
      BY <1>3, <3>1
    <3>. QED
      BY <1>3, <2>1, <3>2
  <2>. QED
    BY <2>2, <2>3, <2>4
<1>. QED
  BY <1>1, <1>4, <1>5

\* The first element of a queue, and the rest.
LEMMA HeadAndTail ==
    ASSUME NEW S, NEW s \in Seq(S), s # <<>>
    PROVE  /\ 1 \in DOMAIN s /\ Head(s) = s[1] /\ Head(s) \in S
           /\ Tail(s) \in Seq(S)
           /\ \A i \in DOMAIN Tail(s) : i + 1 \in DOMAIN s /\ Tail(s)[i] = s[i + 1]
           /\ \A i \in DOMAIN s : i # 1 => i - 1 \in DOMAIN Tail(s) /\ (i - 1) + 1 = i
<1>1. Len(s) \in Nat /\ DOMAIN s = 1 .. Len(s) /\ Len(s) # 0
  BY SeqTyped
<1>2. Head(s) = s[1] /\ Head(s) \in S
  BY <1>1
<1>3. Tail(s) \in Seq(S) /\ Len(Tail(s)) = Len(s) - 1
      /\ \A i \in 1 .. Len(Tail(s)) : Tail(s)[i] = s[i + 1]
  BY <1>1
<1>. QED
  BY <1>1, <1>2, <1>3

\* A queue after an element has been put at its end.
LEMMA AppendAt ==
    ASSUME NEW S, NEW s \in Seq(S), NEW e \in S
    PROVE  /\ Append(s, e) \in Seq(S) /\ Append(s, e) # <<>>
           /\ \A i \in DOMAIN s : i \in DOMAIN Append(s, e) /\ Append(s, e)[i] = s[i]
           /\ \A i \in DOMAIN Append(s, e) : i \in DOMAIN s \/ i = Len(s) + 1
           /\ Len(s) + 1 \in DOMAIN Append(s, e) /\ Append(s, e)[Len(s) + 1] = e
           /\ Head(Append(s, e)) = IF s = <<>> THEN e ELSE Head(s)
<1>1. Len(s) \in Nat /\ DOMAIN s = 1 .. Len(s)
  OBVIOUS
<1>2. /\ Append(s, e) \in Seq(S) /\ Len(Append(s, e)) = Len(s) + 1
      /\ \A i \in 1 .. Len(s) : Append(s, e)[i] = s[i]
      /\ Append(s, e)[Len(s) + 1] = e
  BY <1>1
<1>3. DOMAIN Append(s, e) = 1 .. Len(s) + 1 /\ Append(s, e) # <<>>
  BY <1>1, <1>2
<1>4. Head(Append(s, e)) = IF s = <<>> THEN e ELSE Head(s)
  OBVIOUS
<1>. QED
  BY <1>1, <1>2, <1>3, <1>4

-----------------------------------------------------------------------------
(* References *)

\* The references to a buffer are finitely many.
LEMMA FiniteReferences ==
    ASSUME NEW b PROVE IsFiniteSet(References(b)) /\ Cardinality(References(b)) \in Nat
<1>1. References(b) \in SUBSET Procs
  BY DEF References
<1>2. IsFiniteSet(Procs)
  BY BioAssumption
<1>. QED
  BY <1>1, <1>2, FS_Subset, FS_CardinalityType

\* bget() adds a reference.
LEMMA ReferenceAdded ==
    ASSUME TypeOK, NEW p \in Procs, NEW b \in Bufs, held[p] = Nobody,
           held' = [held EXCEPT ![p] = b], NEW a \in Bufs
    PROVE  Cardinality(References(a)') =
               IF a = b THEN Cardinality(References(a)) + 1 ELSE Cardinality(References(a))
<1>1. held \in [Procs -> Bufs \cup {Nobody}] /\ Nobody \notin Bufs
  BY BioAssumption DEF TypeOK
<1>2. CASE a = b
  <2>1. References(a)' = References(a) \cup {p} /\ p \notin References(a)
    BY <1>1, <1>2 DEF References
  <2>. QED
    BY Zenon, <1>2, <2>1, FiniteReferences, FS_AddElement
<1>3. CASE a # b
  <2>1. References(a)' = References(a)
    BY <1>1, <1>3 DEF References
  <2>. QED
    BY <1>3, <2>1
<1>. QED
  BY <1>2, <1>3

\* brelse() drops one.
LEMMA ReferenceDropped ==
    ASSUME TypeOK, NEW p \in Procs, held[p] \in Bufs,
           held' = [held EXCEPT ![p] = Nobody], NEW a \in Bufs
    PROVE  /\ Cardinality(References(a)') =
                IF a = held[p] THEN Cardinality(References(a)) - 1 ELSE Cardinality(References(a))
           /\ a = held[p] => Cardinality(References(a)) > 0
<1>1. held \in [Procs -> Bufs \cup {Nobody}] /\ Nobody \notin Bufs
  BY BioAssumption DEF TypeOK
<1>2. CASE a = held[p]
  <2>1. References(a)' = References(a) \ {p} /\ p \in References(a)
    BY <1>1, <1>2 DEF References
  <2>2. Cardinality(References(a)) # 0
    BY <2>1, FiniteReferences, FS_EmptySet
  <2>. QED
    BY SMTT(30), <1>2, <2>1, <2>2, FiniteReferences, FS_RemoveElement
<1>3. CASE a # held[p]
  <2>1. References(a)' = References(a)
    BY <1>1, <1>3 DEF References
  <2>. QED
    BY <1>3, <2>1
<1>. QED
  BY <1>2, <1>3

\* A buffer without references is held and locked by nobody.
LEMMA Unreferenced ==
    ASSUME TypeOK, Counted, Locks, NEW b \in Bufs, refcnt[b] = 0
    PROVE  /\ \A p \in Procs : held[p] # b
           /\ lock[b] = Nobody
<1>1. References(b) = {}
  BY FiniteReferences, FS_EmptySet DEF Counted
<1>2. \A p \in Procs : held[p] # b
  BY <1>1 DEF References
<1>3. lock[b] # Nobody => lock[b] \in Procs /\ held[lock[b]] = b
  <2>1. lock[b] \in Procs \cup {Nobody}
    BY DEF TypeOK
  <2>2. lock[b] # Nobody => held[lock[b]] = b
    BY ZenonT(60) DEF Locks
  <2>. QED
    BY <2>1, <2>2
<1>4. lock[b] = Nobody
  BY <1>2, <1>3
<1>. QED
  BY <1>2, <1>4

\* Who has a lock is a process, and what is in the queue is a buffer.
LEMMA Holders ==
    ASSUME TypeOK
    PROVE  /\ \A b \in Bufs : lock[b] # Nobody => lock[b] \in Procs
           /\ \A i \in DOMAIN idequeue : idequeue[i] \in Bufs
           /\ Nobody \notin Procs /\ Nobody \notin Bufs /\ NoBlock \notin Blocks
<1>1. lock \in [Bufs -> Procs \cup {Nobody}] /\ idequeue \in Seq(Bufs)
  BY DEF TypeOK
<1>. QED
  BY <1>1, BioAssumption

\* A step of a process that is neither taking, waiting for nor releasing a lock.
LEMMA LocksKept ==
    ASSUME TypeOK, Locks, lock' = lock,
           \A q \in Procs :
              /\ pc'[q] \in Locking <=> pc[q] \in Locking
              /\ pc[q] \in Locking => held'[q] = held[q]
              /\ pc'[q] = "lock sleep" => pc[q] = "lock sleep" /\ held'[q] = held[q]
    PROVE  Locks'
<1>1. \A q \in Procs : pc'[q] \in Locking => lock'[held'[q]] = q
  BY ZenonT(60) DEF Locks
<1>2. ASSUME NEW b \in Bufs, lock'[b] # Nobody
      PROVE  pc'[lock'[b]] \in Locking /\ held'[lock'[b]] = b
  <2>1. lock[b] \in Procs /\ pc[lock[b]] \in Locking /\ held[lock[b]] = b
    BY ZenonT(60), <1>2, Holders DEF Locks
  <2>. QED
    BY ZenonT(60), <2>1
<1>3. \A q \in Procs : pc'[q] = "lock sleep" => lock'[held'[q]] # Nobody
  BY ZenonT(60) DEF Locks
<1>. QED
  BY ZenonT(60), <1>1, <1>2, <1>3 DEF Locks, Locking

\* A step that leaves the queue and the buffers in it alone.
LEMMA QueueKept ==
    ASSUME TypeOK, Locks, Queue, idequeue' = idequeue, request' = request,
           \A q \in Procs :
              /\ pc[q] \in Waiting => /\ pc'[q] \in Waiting \/ Finished(held[q])
                                      /\ flags'[held[q]] = flags[held[q]]
              /\ pc'[q] \in Waiting => /\ pc[q] \in Waiting /\ held'[q] = held[q]
                                       /\ pc[q] = "io wait" /\ Finished(held[q]) => pc'[q] = "io wait",
           \A i \in DOMAIN idequeue : /\ lock'[idequeue[i]] = lock[idequeue[i]]
                                      /\ blockno'[idequeue[i]] = blockno[idequeue[i]]
                                      /\ flags'[idequeue[i]] = flags[idequeue[i]]
                                      /\ data'[idequeue[i]] = data[idequeue[i]]
    PROVE  Queue'
<1>1. ASSUME NEW i \in DOMAIN idequeue'
      PROVE  /\ lock'[idequeue'[i]] # Nobody /\ pc'[lock'[idequeue'[i]]] \in Waiting
             /\ ~Finished(idequeue[i])'
  <2>1. /\ lock[idequeue[i]] # Nobody /\ pc[lock[idequeue[i]]] \in Waiting
        /\ ~Finished(idequeue[i])
    BY ZenonT(60) DEF Queue
  <2>2. idequeue[i] \in Bufs /\ lock[idequeue[i]] \in Procs
    BY ZenonT(60), <2>1, Holders
  <2>3. held[lock[idequeue[i]]] = idequeue[i]
    BY ZenonT(60), <2>1, <2>2 DEF Locks
  <2>4. pc'[lock[idequeue[i]]] \in Waiting
    BY ZenonT(60), <2>1, <2>2, <2>3
  <2>5. ~Finished(idequeue[i])'
    BY ZenonT(60), <2>1 DEF Finished
  <2>. QED
    BY ZenonT(60), <2>1, <2>4, <2>5
<1>2. \A i, j \in DOMAIN idequeue' : idequeue'[i] = idequeue'[j] => i = j
  BY ZenonT(60) DEF Queue
<1>3. ASSUME NEW q \in Procs, pc'[q] \in Waiting
      PROVE  \/ \E i \in DOMAIN idequeue' : idequeue'[i] = held'[q]
             \/ pc'[q] = "io wait" /\ Finished(held[q])'
  <2>1. pc[q] \in Waiting /\ held'[q] = held[q] /\ flags'[held[q]] = flags[held[q]]
    BY ZenonT(60), <1>3
  <2>2. CASE \E i \in DOMAIN idequeue : idequeue[i] = held[q]
    BY ZenonT(60), <2>1, <2>2
  <2>3. CASE pc[q] = "io wait" /\ Finished(held[q])
    <3>1. pc'[q] = "io wait"
      BY ZenonT(60), <1>3, <2>3
    <3>2. Finished(held[q])'
      BY ZenonT(60), <2>1, <2>3 DEF Finished
    <3>. QED
      BY ZenonT(60), <3>1, <3>2
  <2>. QED
    BY ZenonT(60), <2>1, <2>2, <2>3 DEF Queue
<1>4. request' = IF idequeue' = <<>> THEN NoRequest ELSE idestart(Head(idequeue))'
  <2>1. CASE idequeue = <<>>
    BY ZenonT(60), <2>1 DEF Queue
  <2>2. CASE idequeue # <<>>
    <3>1. 1 \in DOMAIN idequeue /\ Head(idequeue) = idequeue[1]
      <4>1. idequeue \in Seq(Bufs)
        BY ZenonT(60) DEF TypeOK
      <4>. QED
        BY ZenonT(60), <2>2, <4>1, HeadAndTail
    <3>2. idestart(Head(idequeue))' = idestart(Head(idequeue))
      BY ZenonT(60), <3>1 DEF idestart
    <3>. QED
      BY ZenonT(60), <2>2, <3>2 DEF Queue
  <2>. QED
    BY ZenonT(60), <2>1, <2>2
<1>. QED
  BY ZenonT(60), <1>1, <1>2, <1>3, <1>4 DEF Queue, Waiting

\* A step that neither takes nor drops a reference.
LEMMA CountedKept ==
    ASSUME Counted, blockno' = blockno, refcnt' = refcnt, held' = held,
           \A q \in Procs : pc'[q] = "idle" <=> pc[q] = "idle"
    PROVE  Counted'
<1>1. \A b : References(b)' = References(b)
  BY DEF References
<1>2. \A b \in Bufs : refcnt'[b] = Cardinality(References(b)')
  BY <1>1 DEF Counted
<1>3. /\ \A q \in Procs : pc'[q] = "idle" <=> held'[q] = Nobody
      /\ \A q \in Procs : pc'[q] # "idle" => held'[q] \in Bufs /\ blockno'[held'[q]] \in Blocks
      /\ \A a, b \in Bufs : blockno'[a] = blockno'[b] /\ blockno'[a] # NoBlock => a = b
  BY DEF Counted
<1>. QED
  BY <1>2, <1>3 DEF Counted

\* A step that changes no contents.
LEMMA ContentsKept ==
    ASSUME Contents, blockno' = blockno, flags' = flags, data' = data, disk' = disk,
           latest' = latest, held' = held,
           \A q \in Procs :
              /\ pc'[q] = "io" => pc[q] = "io" \/ ~Finished(held[q])
              /\ pc'[q] = "use" => pc[q] = "use" \/ "B_VALID" \in flags[held[q]]
    PROVE  Contents'
<1>1. \A q \in Procs : pc'[q] = "io" => ~Finished(held[q])'
  <2>1. \A q \in Procs : pc[q] = "io" => ~Finished(held[q])
    BY DEF Contents
  <2>. QED
    BY <2>1 DEF Finished
<1>2. \A q \in Procs : pc'[q] = "use" => "B_VALID" \in flags'[held'[q]]
  <2>1. \A q \in Procs : pc[q] = "use" => "B_VALID" \in flags[held[q]]
    BY DEF Contents
  <2>. QED
    BY <2>1
<1>. QED
  BY <1>1, <1>2 DEF Contents

-----------------------------------------------------------------------------
(* One lemma per action *)

\* binit(), ideinit().
LEMMA InitInv == Init => Inv
<1>. SUFFICES ASSUME Init PROVE Inv
  OBVIOUS
<1>1. /\ mru \in [1 .. Cardinality(Bufs) -> Bufs]
      /\ \A b \in Bufs : \E i \in DOMAIN mru : mru[i] = b
  <2>1. IsFiniteSet(Bufs)
    BY BioAssumption
  <2>2. \E s \in [1 .. Cardinality(Bufs) -> Bufs] :
            \A b \in Bufs : \E i \in DOMAIN s : s[i] = b
    <3>1. PICK f : ExistsBijection(1 .. Cardinality(Bufs), Bufs)
      BY <2>1, FS_CardinalityType
    <3>2. PICK g \in Bijection(1 .. Cardinality(Bufs), Bufs) : TRUE
      BY <3>1 DEF ExistsBijection
    <3>3. g \in [1 .. Cardinality(Bufs) -> Bufs]
      BY <3>2 DEF Bijection, Injection
    <3>4. \A b \in Bufs : \E i \in 1 .. Cardinality(Bufs) : g[i] = b
      BY <3>2 DEF Bijection, Surjection
    <3>. QED
      BY Zenon, <3>3, <3>4
  <2>. QED
    BY Zenon, <2>2 DEF Init
<1>2. TypeOK
  <2>1. Cardinality(Bufs) \in Nat
    BY BioAssumption, FS_CardinalityType
  <2>2. mru \in Seq(Bufs)
    BY <1>1, <2>1
  <2>. QED
    BY <2>2 DEF Init, TypeOK, Locs
<1>3. Listed
  BY <1>1 DEF Listed
<1>4. Counted
  <2>1. ASSUME NEW b \in Bufs PROVE References(b) = {}
    BY BioAssumption DEF Init, References
  <2>. QED
    BY Zenon, <2>1, FS_EmptySet DEF Init, Counted
<1>5. Locks /\ Queue
  BY DEF Init, Locks, Queue, Locking, Waiting
<1>6. Contents /\ OutOfBuffers
  BY DEF Init, Contents, OutOfBuffers
<1>. QED
  BY <1>2, <1>3, <1>4, <1>5, <1>6 DEF Inv

\* bget() finds the block.
LEMMA BGetHitInv ==
    ASSUME Inv, NEW p \in Procs, NEW k \in Blocks, BGetHit(p, k)
    PROVE  Inv'
<1>. DEFINE b == First(Cached(k))
<1>0. TypeOK /\ Listed /\ Counted /\ Locks /\ Queue /\ Contents /\ OutOfBuffers
  BY DEF Inv
<1>1. b \in Bufs /\ blockno[b] = k
  <2>1. Cached(k) \subseteq Bufs /\ Cached(k) # {}
    BY DEF BGetHit, Cached
  <2>2. b \in Cached(k)
    BY <1>0, <2>1, SearchFinds
  <2>. QED
    BY <2>2 DEF Cached
<1>2. /\ pc[p] = "idle" /\ held[p] = Nobody /\ panicked = "no"
      /\ refcnt' = [refcnt EXCEPT ![b] = refcnt[b] + 1]
      /\ held' = [held EXCEPT ![p] = b]
      /\ pc' = [pc EXCEPT ![p] = "lock"]
      /\ blockno' = blockno /\ mru' = mru /\ flags' = flags /\ data' = data /\ lock' = lock
      /\ idequeue' = idequeue /\ request' = request /\ disk' = disk
      /\ panicked' = panicked /\ latest' = latest
  <2>1. pc[p] = "idle" /\ panicked = "no"
    BY DEF BGetHit, At
  <2>2. held[p] = Nobody
    BY <1>0, <2>1 DEF Counted
  <2>. QED
    BY <2>1, <2>2 DEF BGetHit, Goto, ideVars
<1>. HIDE DEF b
<1>3. TypeOK'
  <2>1. refcnt' \in [Bufs -> Nat]
    BY <1>0, <1>1, <1>2 DEF TypeOK
  <2>2. held' \in [Procs -> Bufs \cup {Nobody}] /\ pc' \in [Procs -> Locs]
    BY ZenonT(60), <1>0, <1>1, <1>2 DEF TypeOK, Locs
  <2>. QED
    BY <1>0, <1>2, <2>1, <2>2 DEF TypeOK
<1>a. \A q \in Procs : /\ pc'[q] = IF q = p THEN "lock" ELSE pc[q]
                       /\ held'[q] = IF q = p THEN b ELSE held[q]
  BY Zenon, <1>0, <1>2 DEF TypeOK
<1>b. pc[p] = "idle"
  BY <1>2
<1>4. Listed'
  BY <1>0, <1>2 DEF Listed
<1>5. Counted'
  <2>1. \A a \in Bufs : refcnt'[a] = Cardinality(References(a)')
    <3>. TAKE a \in Bufs
    <3>1. refcnt[a] = Cardinality(References(a))
      BY <1>0 DEF Counted
    <3>2. refcnt'[a] = IF a = b THEN refcnt[a] + 1 ELSE refcnt[a]
      BY <1>0, <1>1, <1>2 DEF TypeOK
    <3>. QED
      BY Zenon, <1>0, <1>1, <1>2, <3>1, <3>2, ReferenceAdded
  <2>2. \A q \in Procs : pc'[q] = "idle" <=> held'[q] = Nobody
    BY <1>0, <1>1, <1>a, Holders DEF Counted
  <2>3. \A q \in Procs : pc'[q] # "idle" => held'[q] \in Bufs /\ blockno'[held'[q]] \in Blocks
    BY <1>0, <1>1, <1>2, <1>a DEF Counted
  <2>4. \A a, c \in Bufs : blockno'[a] = blockno'[c] /\ blockno'[a] # NoBlock => a = c
    BY Zenon, <1>0, <1>2 DEF Counted
  <2>. QED
    BY <2>1, <2>2, <2>3, <2>4 DEF Counted
<1>6. Locks'
  <2>1. \A q \in Procs :
           /\ pc'[q] \in Locking <=> pc[q] \in Locking
           /\ pc[q] \in Locking => held'[q] = held[q]
           /\ pc'[q] = "lock sleep" => pc[q] = "lock sleep" /\ held'[q] = held[q]
    BY ZenonT(60), <1>b, <1>a DEF Locking
  <2>. QED
    BY ZenonT(60), <1>0, <1>2, <2>1, LocksKept
<1>7. Queue'
  <2>1. \A q \in Procs :
              /\ pc[q] \in Waiting => pc'[q] \in Waiting
              /\ pc'[q] \in Waiting => pc[q] \in Waiting /\ held'[q] = held[q] /\ pc'[q] = pc[q]
    BY ZenonT(60), <1>b, <1>a DEF Waiting
  <2>. QED
    BY ZenonT(60), <1>0, <1>2, <2>1, QueueKept
<1>8. Contents' /\ OutOfBuffers'
  BY <1>0, <1>2, <1>a DEF Contents, OutOfBuffers, Finished
<1>. QED
  BY <1>3, <1>4, <1>5, <1>6, <1>7, <1>8 DEF Inv

\* bget() recycles a buffer.
LEMMA BGetMissInv ==
    ASSUME Inv, NEW p \in Procs, NEW k \in Blocks, BGetMiss(p, k)
    PROVE  Inv'
<1>. DEFINE b == Last(Recyclable)
<1>0. TypeOK /\ Listed /\ Counted /\ Locks /\ Queue /\ Contents /\ OutOfBuffers
  BY DEF Inv
<1>1. b \in Bufs /\ refcnt[b] = 0 /\ "B_DIRTY" \notin flags[b]
  <2>1. Recyclable \subseteq Bufs /\ Recyclable # {}
    BY DEF BGetMiss, Recyclable
  <2>2. b \in Recyclable
    BY <1>0, <2>1, SearchFinds
  <2>. QED
    BY Zenon, <2>2 DEF Recyclable
<1>2. /\ held[p] = Nobody /\ panicked = "no"
      /\ refcnt' = [refcnt EXCEPT ![b] = 1]
      /\ held' = [held EXCEPT ![p] = b]
      /\ pc' = [pc EXCEPT ![p] = "lock"]
      /\ blockno' = [blockno EXCEPT ![b] = k]
      /\ flags' = [flags EXCEPT ![b] = {}]
  <2>1. pc[p] = "idle" /\ panicked = "no"
    BY DEF BGetMiss, At
  <2>2. held[p] = Nobody
    BY <1>0, <2>1 DEF Counted
  <2>. QED
    BY <2>1, <2>2 DEF BGetMiss, Goto
<1>u. /\ mru' = mru /\ data' = data /\ lock' = lock
      /\ idequeue' = idequeue /\ request' = request /\ disk' = disk
      /\ panicked' = panicked /\ latest' = latest
  BY DEF BGetMiss, ideVars
<1>c. \A a \in Bufs : blockno[a] # k
  BY DEF BGetMiss, Cached
<1>. HIDE DEF b
<1>3. TypeOK'
  <2>1. refcnt' \in [Bufs -> Nat]
    BY <1>0, <1>1, <1>2 DEF TypeOK
  <2>2. held' \in [Procs -> Bufs \cup {Nobody}] /\ pc' \in [Procs -> Locs]
    BY ZenonT(60), <1>0, <1>1, <1>2 DEF TypeOK, Locs
  <2>3. blockno' \in [Bufs -> Blocks \cup {NoBlock}]
    BY Zenon, <1>0, <1>2 DEF TypeOK
  <2>4. flags' \in [Bufs -> SUBSET {"B_VALID", "B_DIRTY"}]
    BY Zenon, <1>0, <1>2 DEF TypeOK
  <2>. QED
    BY SMTT(30), <1>0, <1>u, <2>1, <2>2, <2>3, <2>4 DEF TypeOK
<1>a. \A q \in Procs : /\ pc'[q] = IF q = p THEN "lock" ELSE pc[q]
                       /\ held'[q] = IF q = p THEN b ELSE held[q]
  BY <1>0, <1>2 DEF TypeOK
<1>b. pc[p] = "idle"
  BY DEF BGetMiss, At
<1>d. \A a \in Bufs : /\ blockno'[a] = IF a = b THEN k ELSE blockno[a]
                      /\ flags'[a] = IF a = b THEN {} ELSE flags[a]
  BY <1>0, <1>2 DEF TypeOK
<1>e. (\A q \in Procs : held[q] # b) /\ lock[b] = Nobody
  BY <1>0, <1>1, Unreferenced
<1>4. Listed'
  BY <1>0, <1>u DEF Listed
<1>5. Counted'
  <2>1. \A a \in Bufs : refcnt'[a] = Cardinality(References(a)')
    <3>. TAKE a \in Bufs
    <3>1. refcnt[a] = Cardinality(References(a))
      BY <1>0 DEF Counted
    <3>2. refcnt'[a] = IF a = b THEN refcnt[a] + 1 ELSE refcnt[a]
      BY <1>0, <1>1, <1>2 DEF TypeOK
    <3>. QED
      BY Zenon, <1>0, <1>1, <1>2, <3>1, <3>2, ReferenceAdded
  <2>2. \A q \in Procs : pc'[q] = "idle" <=> held'[q] = Nobody
    BY <1>0, <1>1, <1>a, Holders DEF Counted
  <2>3. \A q \in Procs : pc'[q] # "idle" => held'[q] \in Bufs /\ blockno'[held'[q]] \in Blocks
    <3>. TAKE q \in Procs
    <3>1. CASE q = p
      BY SMTT(60), <1>1, <1>a, <1>d, <3>1
    <3>2. CASE q # p
      BY SMTT(30), <1>0, <1>a, <1>d, <1>e, <3>2 DEF Counted
    <3>. QED
      BY <3>1, <3>2
  <2>4. \A a, c \in Bufs : blockno'[a] = blockno'[c] /\ blockno'[a] # NoBlock => a = c
    BY <1>0, <1>c, <1>d DEF Counted
  <2>. QED
    BY <2>1, <2>2, <2>3, <2>4 DEF Counted
<1>6. Locks'
  <2>1. \A q \in Procs :
           /\ pc'[q] \in Locking <=> pc[q] \in Locking
           /\ pc[q] \in Locking => held'[q] = held[q]
           /\ pc'[q] = "lock sleep" => pc[q] = "lock sleep" /\ held'[q] = held[q]
    BY ZenonT(60), <1>b, <1>a DEF Locking
  <2>. QED
    BY ZenonT(60), <1>0, <1>u, <2>1, LocksKept
<1>7. Queue'
  <2>1. \A q \in Procs :
              /\ pc[q] \in Waiting => pc'[q] \in Waiting
              /\ pc'[q] \in Waiting => pc[q] \in Waiting /\ held'[q] = held[q] /\ pc'[q] = pc[q]
    BY ZenonT(60), <1>b, <1>a DEF Waiting
  <2>2. \A q \in Procs : pc[q] \in Waiting => flags'[held[q]] = flags[held[q]]
    BY ZenonT(60), <1>0, <1>d, <1>e DEF Counted, Waiting
  <2>3. \A i \in DOMAIN idequeue : idequeue[i] \in Bufs /\ idequeue[i] # b
    BY ZenonT(60), <1>0, <1>e, Holders DEF Queue
  <2>4. \A i \in DOMAIN idequeue : /\ blockno'[idequeue[i]] = blockno[idequeue[i]]
                                   /\ flags'[idequeue[i]] = flags[idequeue[i]]
                                   /\ data'[idequeue[i]] = data[idequeue[i]]
    BY <1>d, <1>u, <2>3
  <2>. QED
    BY ZenonT(60), <1>0, <1>u, <2>1, <2>2, <2>4, QueueKept
<1>8. Contents'
  <2>1. \A q \in Procs : pc'[q] = "io" => ~Finished(held[q])'
    BY SMTT(30), <1>0, <1>a, <1>d, <1>e DEF Contents, Counted, Finished
  <2>2. \A q \in Procs : pc'[q] = "use" => "B_VALID" \in flags'[held'[q]]
    BY SMTT(30), <1>0, <1>a, <1>d, <1>e DEF Contents, Counted
  <2>3. \A a \in Bufs : "B_DIRTY" \in flags'[a] => "B_VALID" \in flags'[a]
    BY Zenon, <1>0, <1>d DEF Contents
  <2>4. \A a \in Bufs : "B_VALID" \in flags'[a] /\ blockno'[a] # NoBlock /\ blockno'[a] \notin Faulty
                           => data'[a] = latest'[blockno'[a]]
    BY SMTT(30), <1>0, <1>d, <1>u DEF Contents
  <2>5. \A j \in Blocks : j \notin Faulty /\ (\A a \in Bufs : blockno'[a] = j => "B_DIRTY" \notin flags'[a])
                             => disk'[j] = latest'[j]
    BY <1>0, <1>1, <1>d, <1>u DEF Contents
  <2>. QED
    BY SMTT(30), <2>1, <2>2, <2>3, <2>4, <2>5 DEF Contents
<1>9. OutOfBuffers'
  BY <1>2, <1>u DEF OutOfBuffers
<1>. QED
  BY Zenon, <1>3, <1>4, <1>5, <1>6, <1>7, <1>8, <1>9 DEF Inv

\* bget() panics: every buffer is referenced or dirty.
LEMMA BGetPanicsInv ==
    ASSUME Inv, NEW p \in Procs, NEW k \in Blocks, BGetPanics(p, k)
    PROVE  Inv'
<1>1. TypeOK /\ Listed /\ Counted /\ Locks /\ Queue /\ Contents
  BY DEF Inv
<1>2. /\ UNCHANGED <<blockno, refcnt, mru, flags, data, lock, idequeue, request, disk>>
      /\ UNCHANGED <<pc, held, latest>>
  BY ZenonT(60) DEF BGetPanics, bcacheVars, ideVars
<1>3. TypeOK' /\ Listed' /\ Counted'
  BY SMTT(30), <1>1, <1>2 DEF TypeOK, Listed, Counted, References
<1>4. Locks'
  BY ZenonT(60), <1>1, <1>2, LocksKept
<1>6. Queue'
  BY ZenonT(60), <1>1, <1>2, QueueKept
<1>7. Contents'
  BY <1>1, <1>2 DEF Contents, Finished
<1>5. OutOfBuffers'
  BY ZenonT(60), <1>2 DEF BGetPanics, Recyclable, OutOfBuffers
<1>. QED
  BY <1>3, <1>4, <1>5, <1>6, <1>7 DEF Inv

\* acquiresleep() goes to sleep or takes the lock.
LEMMA AcquireSleepInv ==
    ASSUME Inv, NEW p \in Procs, AcquireSleep(p)
    PROVE  Inv'
<1>. DEFINE b == held[p]
<1>0. TypeOK /\ Listed /\ Counted /\ Locks /\ Queue /\ Contents /\ OutOfBuffers
  BY DEF Inv
<1>1. pc[p] = "lock" /\ panicked = "no"
  BY ZenonT(60) DEF AcquireSleep, At
<1>2. b \in Bufs
  BY <1>0, <1>1 DEF Counted
<1>3. /\ blockno' = blockno /\ refcnt' = refcnt /\ mru' = mru /\ flags' = flags /\ data' = data
      /\ idequeue' = idequeue /\ request' = request /\ disk' = disk
      /\ held' = held /\ panicked' = panicked /\ latest' = latest
  BY ZenonT(60) DEF AcquireSleep, bcacheVars, ideVars
<1>4. PICK l \in {"lock sleep", "use", "io"} :
        /\ pc' = [pc EXCEPT ![p] = l]
        /\ l = "lock sleep" => lock[b] # Nobody /\ lock' = lock
        /\ l # "lock sleep" => lock[b] = Nobody /\ lock' = [lock EXCEPT ![b] = p]
        /\ l = "use" => "B_VALID" \in flags[b]
        /\ l = "io" => "B_VALID" \notin flags[b]
  BY ZenonT(60) DEF AcquireSleep, Goto
<1>5. \A q \in Procs : pc'[q] = IF q = p THEN l ELSE pc[q]
  BY ZenonT(60), <1>0, <1>4 DEF TypeOK
<1>6. \A a \in Bufs : lock'[a] = IF a = b /\ l # "lock sleep" THEN p ELSE lock[a]
  BY ZenonT(60), <1>0, <1>4 DEF TypeOK
<1>. HIDE DEF b
<1>7. TypeOK'
  <2>1. pc' \in [Procs -> Locs]
    BY ZenonT(60), <1>0, <1>4 DEF TypeOK, Locs
  <2>2. lock' \in [Bufs -> Procs \cup {Nobody}]
    BY ZenonT(60), <1>0, <1>4 DEF TypeOK
  <2>. QED
    BY ZenonT(60), <1>0, <1>3, <2>1, <2>2 DEF TypeOK
<1>8. Listed' /\ OutOfBuffers'
  BY ZenonT(60), <1>0, <1>1, <1>3 DEF Listed, OutOfBuffers
<1>9. Counted'
  BY ZenonT(60), <1>0, <1>1, <1>3, <1>5, CountedKept
<1>10. Locks'
  <2>1. ASSUME NEW q \in Procs, pc'[q] \in Locking PROVE lock'[held'[q]] = q
    <3>1. CASE q = p
      BY ZenonT(60), <1>2, <1>3, <1>5, <1>6, <2>1, <3>1 DEF Locking, b
    <3>2. CASE q # p
      <4>1. pc[q] \in Locking
        BY ZenonT(60), <1>5, <2>1, <3>2
      <4>2. held[q] \in Bufs /\ lock[held[q]] = q /\ q # Nobody
        BY ZenonT(60), <1>0, <4>1, Holders DEF Locks, Counted, Locking
      <4>3. CASE l = "lock sleep"
        BY ZenonT(60), <1>3, <1>6, <4>2, <4>3
      <4>4. CASE l # "lock sleep"
        BY ZenonT(60), <1>3, <1>4, <1>6, <4>2, <4>4
      <4>. QED
        BY ZenonT(60), <4>3, <4>4
    <3>. QED
      BY ZenonT(60), <3>1, <3>2
  <2>2. ASSUME NEW a \in Bufs, lock'[a] # Nobody
        PROVE  pc'[lock'[a]] \in Locking /\ held'[lock'[a]] = a
    <3>1. CASE a = b /\ l # "lock sleep"
      BY ZenonT(60), <1>3, <1>4, <1>5, <1>6, <3>1 DEF Locking, b
    <3>2. CASE ~(a = b /\ l # "lock sleep")
      <4>1. lock'[a] = lock[a]
        BY ZenonT(60), <1>6, <3>2
      <4>2. lock[a] \in Procs /\ pc[lock[a]] \in Locking /\ held[lock[a]] = a
        BY ZenonT(60), <1>0, <2>2, <4>1, Holders DEF Locks
      <4>3. lock[a] # p
        BY ZenonT(60), <1>1, <4>2 DEF Locking
      <4>. QED
        BY ZenonT(60), <1>3, <1>5, <4>1, <4>2, <4>3
    <3>. QED
      BY ZenonT(60), <3>1, <3>2
  <2>3. ASSUME NEW q \in Procs, pc'[q] = "lock sleep" PROVE lock'[held'[q]] # Nobody
    <3>1. CASE q = p
      BY ZenonT(60), <1>3, <1>4, <1>5, <2>3, <3>1 DEF b
    <3>2. CASE q # p
      <4>1. pc[q] = "lock sleep"
        BY ZenonT(60), <1>5, <2>3, <3>2
      <4>2. held[q] \in Bufs /\ lock[held[q]] # Nobody
        BY ZenonT(60), <1>0, <4>1 DEF Counted, Locks
      <4>. QED
        BY ZenonT(60), <1>0, <1>3, <1>6, <4>2, Holders
    <3>. QED
      BY ZenonT(60), <3>1, <3>2
  <2>. QED
    BY ZenonT(60), <2>1, <2>2, <2>3 DEF Locks, Locking
<1>11. Queue'
  <2>1. \A q \in Procs :
              /\ pc[q] \in Waiting => pc'[q] \in Waiting
              /\ pc'[q] \in Waiting => pc[q] \in Waiting /\ held'[q] = held[q] /\ pc'[q] = pc[q]
    BY ZenonT(60), <1>1, <1>3, <1>4, <1>5 DEF Waiting
  <2>2. ASSUME NEW i \in DOMAIN idequeue PROVE lock'[idequeue[i]] = lock[idequeue[i]]
    <3>1. idequeue[i] \in Bufs /\ lock[idequeue[i]] # Nobody
      BY ZenonT(60), <1>0, Holders DEF Queue
    <3>. QED
      BY ZenonT(60), <1>4, <1>6, <3>1
  <2>. QED
    BY ZenonT(60), <1>0, <1>3, <2>1, <2>2, QueueKept
<1>12. Contents'
  <2>1. l = "io" => ~Finished(b)
    BY SMTT(30), <1>4 DEF Finished
  <2>2. \A q \in Procs : /\ pc'[q] = "io" => pc[q] = "io" \/ ~Finished(held[q])
                         /\ pc'[q] = "use" => pc[q] = "use" \/ "B_VALID" \in flags[held[q]]
    BY ZenonT(60), <1>4, <1>5, <2>1 DEF b
  <2>. QED
    BY ZenonT(60), <1>0, <1>3, <2>2, ContentsKept
<1>. QED
  BY ZenonT(60), <1>7, <1>8, <1>9, <1>10, <1>11, <1>12 DEF Inv

\* iderw() puts a buffer that has work to do at the end of the queue.
LEMMA IderwInv ==
    ASSUME Inv, NEW p \in Procs, Iderw(p)
    PROVE  Inv'
<1>. DEFINE b == held[p]
<1>. DEFINE n == Len(idequeue) + 1
<1>0. TypeOK /\ Listed /\ Counted /\ Locks /\ Queue /\ Contents /\ OutOfBuffers
  BY DEF Inv
<1>1. pc[p] = "io" /\ panicked = "no"
  BY ZenonT(60) DEF Iderw, At
<1>2. b \in Bufs /\ ~Finished(b) /\ lock[b] = p /\ p # Nobody
  BY ZenonT(60), <1>0, <1>1, Holders DEF Counted, Contents, Locks, Locking
<1>3. /\ blockno' = blockno /\ refcnt' = refcnt /\ mru' = mru /\ flags' = flags /\ data' = data
      /\ lock' = lock /\ disk' = disk /\ held' = held /\ latest' = latest
      /\ panicked' = "no"
  BY ZenonT(60), <1>2 DEF Iderw, bcacheVars
<1>4. /\ idequeue' = Append(idequeue, b)
      /\ request' = IF idequeue = <<>> THEN idestart(b) ELSE request
      /\ pc' = [pc EXCEPT ![p] = "io sleep"]
  BY ZenonT(60) DEF Iderw, Goto
<1>5. \A q \in Procs : pc'[q] = IF q = p THEN "io sleep" ELSE pc[q]
  BY ZenonT(60), <1>0, <1>4 DEF TypeOK
<1>6. idequeue \in Seq(Bufs)
  BY <1>0 DEF TypeOK
<1>e. /\ idequeue' \in Seq(Bufs) /\ idequeue' # <<>>
      /\ \A i \in DOMAIN idequeue : i \in DOMAIN idequeue' /\ idequeue'[i] = idequeue[i]
      /\ \A i \in DOMAIN idequeue' : i \in DOMAIN idequeue \/ i = n
      /\ n \in DOMAIN idequeue' /\ idequeue'[n] = b
      /\ Head(idequeue') = IF idequeue = <<>> THEN b ELSE Head(idequeue)
  <2>1. b \in Bufs /\ idequeue' = Append(idequeue, b)
    BY ZenonT(60), <1>2, <1>4
  <2>. HIDE DEF b
  <2>. QED
    BY SMTT(30), <1>6, <2>1, AppendAt
<1>. HIDE DEF b, n
<1>7. TypeOK'
  <2>1. pc' \in [Procs -> Locs]
    BY ZenonT(60), <1>0, <1>4 DEF TypeOK, Locs
  <2>. QED
    BY Zenon, <1>0, <1>3, <1>e, <2>1 DEF TypeOK
<1>8. Listed' /\ OutOfBuffers'
  BY ZenonT(60), <1>0, <1>3 DEF Listed, OutOfBuffers
<1>9. Counted'
  <2>1. \A q \in Procs : pc'[q] = "idle" <=> pc[q] = "idle"
    BY ZenonT(60), <1>1, <1>5
  <2>. QED
    BY SMTT(30), <1>0, <1>3, <2>1, CountedKept
<1>10. Locks'
  <2>1. \A q \in Procs :
           /\ pc'[q] \in Locking <=> pc[q] \in Locking
           /\ pc'[q] = "lock sleep" => pc[q] = "lock sleep"
    BY ZenonT(60), <1>1, <1>5 DEF Locking
  <2>. QED
    BY ZenonT(60), <1>0, <1>3, <2>1, LocksKept
<1>11. Queue'
  <2>1. ASSUME NEW i \in DOMAIN idequeue
        PROVE  /\ idequeue[i] # b
               /\ lock'[idequeue[i]] # Nobody /\ pc'[lock'[idequeue[i]]] \in Waiting
               /\ flags'[idequeue[i]] # {"B_VALID"}
    <3>1. idequeue[i] \in Bufs /\ lock[idequeue[i]] # Nobody /\ lock[idequeue[i]] \in Procs
      BY ZenonT(60), <1>0, Holders DEF Queue
    <3>2. pc[lock[idequeue[i]]] \in Waiting /\ ~Finished(idequeue[i])
      BY ZenonT(60), <1>0 DEF Queue
    <3>3. lock[idequeue[i]] # p
      BY ZenonT(60), <1>1, <3>2 DEF Waiting
    <3>4. pc'[lock[idequeue[i]]] \in Waiting
      BY ZenonT(60), <1>5, <3>1, <3>2, <3>3
    <3>. QED
      BY ZenonT(30), <1>2, <1>3, <3>1, <3>2, <3>3, <3>4 DEF Finished
  <2>2. ASSUME NEW i \in DOMAIN idequeue'
        PROVE  /\ lock'[idequeue'[i]] # Nobody /\ pc'[lock'[idequeue'[i]]] \in Waiting
               /\ flags'[idequeue'[i]] # {"B_VALID"}
    <3>1. CASE i \in DOMAIN idequeue
      BY <1>e, <2>1, <3>1
    <3>2. CASE i = n
      <4>1. idequeue'[i] = b /\ lock'[b] = p
        BY SMTT(30), <1>2, <1>3, <1>e, <3>2
      <4>2. pc'[p] \in Waiting
        BY ZenonT(60), <1>5 DEF Waiting
      <4>. QED
        BY SMTT(30), <1>2, <1>3, <4>1, <4>2 DEF Finished
    <3>. QED
      BY <1>e, <3>1, <3>2
  <2>3. ASSUME NEW i \in DOMAIN idequeue', NEW j \in DOMAIN idequeue', idequeue'[i] = idequeue'[j]
        PROVE  i = j
    <3>1. CASE i = n \/ j = n
      BY SMTT(30), <1>e, <2>1, <2>3, <3>1
    <3>2. CASE i # n /\ j # n
      <4>1. i \in DOMAIN idequeue /\ j \in DOMAIN idequeue /\ idequeue[i] = idequeue[j]
        BY SMTT(30), <1>e, <2>3, <3>2
      <4>. QED
        BY ZenonT(60), <1>0, <4>1 DEF Queue
    <3>. QED
      BY SMTT(30), <3>1, <3>2
  <2>4. ASSUME NEW q \in Procs, pc'[q] \in Waiting
        PROVE  \/ \E i \in DOMAIN idequeue' : idequeue'[i] = held'[q]
               \/ pc'[q] = "io wait" /\ Finished(held[q])'
    <3>1. CASE q = p
      BY ZenonT(60), <1>3, <1>e, <3>1 DEF b
    <3>2. CASE q # p
      <4>1. pc'[q] = pc[q] /\ held'[q] = held[q]
        BY ZenonT(60), <1>3, <1>5, <3>2
      <4>2. \/ \E i \in DOMAIN idequeue : idequeue[i] = held[q]
            \/ pc[q] = "io wait" /\ Finished(held[q])
        BY ZenonT(60), <1>0, <2>4, <4>1 DEF Queue
      <4>. QED
        BY ZenonT(60), <1>3, <1>e, <4>1, <4>2 DEF Finished
    <3>. QED
      BY ZenonT(60), <3>1, <3>2
  <2>5. request' = idestart(Head(idequeue))'
    <3>1. request' = idestart(IF idequeue = <<>> THEN b ELSE Head(idequeue))
      BY ZenonT(60), <1>0, <1>4 DEF Queue
    <3>. QED
      BY SMTT(30), <1>3, <1>e, <3>1 DEF idestart
  <2>6. \A i \in DOMAIN idequeue' : ~Finished(idequeue[i])'
    BY <2>2 DEF Finished
  <2>. QED
    BY ZenonT(60), <1>e, <2>2, <2>3, <2>4, <2>5, <2>6 DEF Queue, Waiting
<1>12. Contents'
  <2>1. \A q \in Procs : (pc'[q] = "io" => pc[q] = "io") /\ (pc'[q] = "use" => pc[q] = "use")
    BY ZenonT(60), <1>5
  <2>. QED
    BY SMTT(30), <1>0, <1>3, <2>1, ContentsKept
<1>. QED
  BY SMTT(30), <1>7, <1>8, <1>9, <1>10, <1>11, <1>12 DEF Inv

\* The loop of iderw() after a wakeup.
LEMMA IderwReturnsInv ==
    ASSUME Inv, NEW p \in Procs, IderwReturns(p)
    PROVE  Inv'
<1>0. TypeOK /\ Listed /\ Counted /\ Locks /\ Queue /\ Contents /\ OutOfBuffers
  BY DEF Inv
<1>1. pc[p] = "io wait" /\ panicked = "no"
  BY ZenonT(60) DEF IderwReturns, At
<1>3. /\ blockno' = blockno /\ refcnt' = refcnt /\ mru' = mru /\ flags' = flags /\ data' = data
      /\ lock' = lock /\ idequeue' = idequeue /\ request' = request /\ disk' = disk
      /\ held' = held /\ panicked' = panicked /\ latest' = latest
  BY ZenonT(60) DEF IderwReturns, bcacheVars, ideVars
<1>4. PICK l \in {"use", "io sleep"} :
        pc' = [pc EXCEPT ![p] = l] /\ (l = "use" <=> Finished(held[p]))
  BY ZenonT(60) DEF IderwReturns, Goto
<1>5. \A q \in Procs : pc'[q] = IF q = p THEN l ELSE pc[q]
  BY ZenonT(60), <1>0, <1>4 DEF TypeOK
<1>7. TypeOK'
  <2>1. pc' \in [Procs -> Locs]
    BY ZenonT(60), <1>0, <1>4 DEF TypeOK, Locs
  <2>. QED
    BY ZenonT(60), <1>0, <1>3, <2>1 DEF TypeOK
<1>8. Listed' /\ OutOfBuffers'
  BY ZenonT(60), <1>0, <1>1, <1>3 DEF Listed, OutOfBuffers
<1>9. Counted'
  BY ZenonT(60), <1>0, <1>1, <1>3, <1>5, CountedKept
<1>10. Locks'
  <2>1. \A q \in Procs :
           /\ pc'[q] \in Locking <=> pc[q] \in Locking
           /\ pc'[q] = "lock sleep" => pc[q] = "lock sleep"
    BY ZenonT(60), <1>1, <1>4, <1>5 DEF Locking
  <2>. QED
    BY ZenonT(60), <1>0, <1>3, <2>1, LocksKept
<1>11. Queue'
  <2>1. \A q \in Procs :
          /\ pc[q] \in Waiting => pc'[q] \in Waiting \/ Finished(held[q])
          /\ pc'[q] \in Waiting => /\ pc[q] \in Waiting
                                   /\ pc[q] = "io wait" /\ Finished(held[q]) => pc'[q] = "io wait"
    BY ZenonT(60), <1>1, <1>4, <1>5 DEF Waiting
  <2>. QED
    BY ZenonT(60), <1>0, <1>3, <2>1, QueueKept
<1>12. Contents'
  <2>1. l = "use" => "B_VALID" \in flags[held[p]]
    BY <1>4 DEF Finished
  <2>2. \A q \in Procs : /\ pc'[q] = "io" => pc[q] = "io"
                         /\ pc'[q] = "use" => pc[q] = "use" \/ "B_VALID" \in flags[held[q]]
    BY ZenonT(60), <1>4, <1>5, <2>1
  <2>. QED
    BY ZenonT(60), <1>0, <1>3, <2>2, ContentsKept
<1>. QED
  BY ZenonT(60), <1>7, <1>8, <1>9, <1>10, <1>11, <1>12 DEF Inv

\* kill() wakes a sleeper.
LEMMA KillWakesInv ==
    ASSUME Inv, NEW p \in Procs, KillWakes(p)
    PROVE  Inv'
<1>0. TypeOK /\ Listed /\ Counted /\ Locks /\ Queue /\ Contents /\ OutOfBuffers
  BY DEF Inv
<1>1. panicked = "no"
  BY ZenonT(60) DEF KillWakes
<1>3. /\ blockno' = blockno /\ refcnt' = refcnt /\ mru' = mru /\ flags' = flags /\ data' = data
      /\ lock' = lock /\ idequeue' = idequeue /\ request' = request /\ disk' = disk
      /\ held' = held /\ panicked' = panicked /\ latest' = latest
  BY ZenonT(60) DEF KillWakes, bcacheVars, ideVars
<1>4. PICK l \in {"lock", "io wait"} :
        /\ pc' = [pc EXCEPT ![p] = l]
        /\ pc[p] = IF l = "lock" THEN "lock sleep" ELSE "io sleep"
  BY ZenonT(60) DEF KillWakes, Goto
<1>5. \A q \in Procs : pc'[q] = IF q = p THEN l ELSE pc[q]
  BY ZenonT(60), <1>0, <1>4 DEF TypeOK
<1>7. TypeOK'
  <2>1. pc' \in [Procs -> Locs]
    BY ZenonT(60), <1>0, <1>4 DEF TypeOK, Locs
  <2>. QED
    BY ZenonT(60), <1>0, <1>3, <2>1 DEF TypeOK
<1>8. Listed' /\ OutOfBuffers'
  BY ZenonT(60), <1>0, <1>1, <1>3 DEF Listed, OutOfBuffers
<1>9. Counted'
  BY ZenonT(60), <1>0, <1>3, <1>4, <1>5, CountedKept
<1>10. Locks'
  <2>1. \A q \in Procs :
           /\ pc'[q] \in Locking <=> pc[q] \in Locking
           /\ pc'[q] = "lock sleep" => pc[q] = "lock sleep"
    BY ZenonT(60), <1>4, <1>5 DEF Locking
  <2>. QED
    BY ZenonT(60), <1>0, <1>3, <2>1, LocksKept
<1>11. Queue'
  <2>1. \A q \in Procs :
          /\ pc[q] \in Waiting <=> pc'[q] \in Waiting
          /\ pc[q] = "io wait" => pc'[q] = "io wait"
    BY ZenonT(60), <1>4, <1>5 DEF Waiting
  <2>. QED
    BY ZenonT(60), <1>0, <1>3, <2>1, QueueKept
<1>12. Contents'
  <2>1. \A q \in Procs : (pc'[q] = "io" => pc[q] = "io") /\ (pc'[q] = "use" => pc[q] = "use")
    BY ZenonT(60), <1>4, <1>5
  <2>. QED
    BY ZenonT(60), <1>0, <1>3, <2>1, ContentsKept
<1>. QED
  BY ZenonT(60), <1>7, <1>8, <1>9, <1>10, <1>11, <1>12 DEF Inv

\* What bwrite() and log_write() have in common: the holder of a buffer stores in
\* it and makes it dirty.
LEMMA StoreInv ==
    ASSUME Inv, NEW p \in Procs, NEW v \in Vals, NEW l \in {"use", "io"},
           pc[p] = "use", panicked = "no",
           data' = [data EXCEPT ![held[p]] = v],
           flags' = [flags EXCEPT ![held[p]] = @ \cup {"B_DIRTY"}],
           latest' = [latest EXCEPT ![blockno[held[p]]] = v],
           \A q \in Procs : pc'[q] = IF q = p THEN l ELSE pc[q],
           pc' \in [Procs -> Locs],
           UNCHANGED <<bcacheVars, lock, ideVars, held, panicked>>
    PROVE  Inv'
<1>. DEFINE b == held[p]
<1>0. TypeOK /\ Listed /\ Counted /\ Locks /\ Queue /\ Contents
  BY SMTT(30) DEF Inv
<1>1. b \in Bufs /\ blockno[b] \in Blocks /\ lock[b] = p /\ "B_VALID" \in flags[b]
  BY ZenonT(60), <1>0 DEF Counted, Locks, Locking, Contents
<1>2. /\ blockno' = blockno /\ refcnt' = refcnt /\ mru' = mru
      /\ lock' = lock /\ idequeue' = idequeue /\ request' = request /\ disk' = disk
      /\ held' = held /\ panicked' = panicked
  BY Zenon DEF bcacheVars, ideVars
<1>3. /\ \A a \in Bufs : data'[a] = IF a = b THEN v ELSE data[a]
      /\ \A a \in Bufs : flags'[a] = IF a = b THEN flags[a] \cup {"B_DIRTY"} ELSE flags[a]
      /\ \A k \in Blocks : latest'[k] = IF k = blockno[b] THEN v ELSE latest[k]
  BY Zenon, <1>0 DEF TypeOK
<1>4. TypeOK'
  <2>1. data' \in [Bufs -> Vals] /\ latest' \in [Blocks -> Vals]
    BY Zenon, <1>0 DEF TypeOK
  <2>2. flags' \in [Bufs -> SUBSET {"B_VALID", "B_DIRTY"}]
    <3>1. flags \in [Bufs -> SUBSET {"B_VALID", "B_DIRTY"}]
      BY Zenon, <1>0 DEF TypeOK
    <3>2. \A S \in SUBSET {"B_VALID", "B_DIRTY"} : S \cup {"B_DIRTY"} \in SUBSET {"B_VALID", "B_DIRTY"}
      OBVIOUS
    <3>. QED
      BY Zenon, <1>1, <3>1, <3>2
  <2>. QED
    BY <1>0, <1>2, <2>1, <2>2 DEF TypeOK
<1>. HIDE DEF b
<1>5. Listed' /\ OutOfBuffers'
  BY <1>0, <1>2 DEF Listed, OutOfBuffers
<1>6. Counted'
  <2>1. \A q \in Procs : pc'[q] = "idle" <=> pc[q] = "idle"
    BY SMTT(30)
  <2>. QED
    BY Zenon, <1>0, <1>2, <2>1, CountedKept
<1>7. Locks'
  <2>1. \A q \in Procs :
           /\ pc'[q] \in Locking <=> pc[q] \in Locking
           /\ pc'[q] = "lock sleep" => pc[q] = "lock sleep"
    BY ZenonT(60) DEF Locking
  <2>. QED
    BY ZenonT(60), <1>0, <1>2, <2>1, LocksKept
<1>8. \A q \in Procs : q # p /\ pc[q] \in Locking => held[q] \in Bufs /\ held[q] # b
  BY ZenonT(60), <1>0, <1>1 DEF Counted, Locks, Locking
<1>9. Queue'
  <2>1. \A q \in Procs :
              /\ pc[q] \in Waiting <=> pc'[q] \in Waiting
              /\ pc'[q] \in Waiting => q # p /\ pc'[q] = pc[q]
    BY ZenonT(60) DEF Waiting
  <2>2. \A q \in Procs : pc[q] \in Waiting => flags'[held[q]] = flags[held[q]]
    <3>1. \A q \in Procs : pc[q] \in Waiting => pc[q] \in Locking
      BY ZenonT(60) DEF Waiting, Locking
    <3>. QED
      BY ZenonT(60), <1>3, <1>8, <2>1, <3>1
  <2>3. ASSUME NEW i \in DOMAIN idequeue PROVE idequeue[i] \in Bufs /\ idequeue[i] # b
    <3>1. idequeue[i] \in Bufs /\ pc[lock[idequeue[i]]] \in Waiting
      BY ZenonT(60), <1>0, Holders DEF Queue
    <3>2. pc[p] \notin Waiting
      BY SMTT(30) DEF Waiting
    <3>. QED
      BY <1>1, <3>1, <3>2
  <2>4. \A i \in DOMAIN idequeue : /\ blockno'[idequeue[i]] = blockno[idequeue[i]]
                                   /\ flags'[idequeue[i]] = flags[idequeue[i]]
                                   /\ data'[idequeue[i]] = data[idequeue[i]]
    BY ZenonT(60), <1>2, <1>3, <2>3
  <2>. QED
    BY ZenonT(60), <1>0, <1>2, <2>1, <2>2, <2>4, QueueKept
<1>10. Contents'
  <2>1. ASSUME NEW q \in Procs, pc'[q] = "io" PROVE ~Finished(held[q])'
    <3>1. CASE q = p
      <4>1. "B_DIRTY" \in flags'[held'[q]]
        <5>1. held'[q] = b /\ flags'[b] = flags[b] \cup {"B_DIRTY"}
          BY ZenonT(60), <1>1, <1>2, <1>3, <3>1 DEF b
        <5>. QED
          BY <5>1
      <4>. QED
        BY Zenon, <4>1 DEF Finished
    <3>2. CASE q # p
      <4>1. pc[q] = "io" /\ held[q] \in Bufs /\ held[q] # b
        BY ZenonT(60), <1>8, <2>1, <3>2 DEF Locking
      <4>2. ~Finished(held[q])
        BY ZenonT(30), <1>0, <4>1 DEF Contents
      <4>. QED
        BY ZenonT(60), <1>2, <1>3, <4>1, <4>2 DEF Finished
    <3>. QED
      BY Zenon, <3>1, <3>2
  <2>2. ASSUME NEW q \in Procs, pc'[q] = "use" PROVE "B_VALID" \in flags'[held'[q]]
    <3>1. pc[q] = "use"
      BY <2>2
    <3>2. held[q] \in Bufs /\ "B_VALID" \in flags[held[q]]
      BY ZenonT(60), <1>0, <3>1 DEF Contents, Counted
    <3>3. flags[held[q]] \subseteq flags'[held[q]]
      <4>1. PICK a \in Bufs : a = held[q]
        BY Zenon, <3>2
      <4>2. flags'[a] = IF a = b THEN flags[a] \cup {"B_DIRTY"} ELSE flags[a]
        BY Zenon, <1>3
      <4>3. flags[a] \subseteq flags'[a]
        BY <4>2
      <4>. QED
        BY Zenon, <4>1, <4>3
    <3>. QED
      BY Zenon, <1>2, <3>2, <3>3
  <2>3. \A a \in Bufs : "B_DIRTY" \in flags'[a] => "B_VALID" \in flags'[a]
    BY SMTT(30), <1>0, <1>1, <1>3 DEF Contents
  <2>4. ASSUME NEW a \in Bufs, "B_VALID" \in flags'[a], blockno'[a] # NoBlock, blockno'[a] \notin Faulty
        PROVE  data'[a] = latest'[blockno'[a]]
    <3>1. CASE a = b
      BY SMTT(30), <1>1, <1>2, <1>3, <3>1
    <3>2. CASE a # b
      <4>1. "B_VALID" \in flags[a] /\ blockno[a] # NoBlock /\ blockno[a] \notin Faulty
        BY Zenon, <1>2, <1>3, <2>4, <3>2
      <4>2. data[a] = latest[blockno[a]]
        BY Zenon, <1>0, <4>1 DEF Contents
      <4>3. blockno[a] # blockno[b] /\ blockno[a] \in Blocks
        BY SMTT(30), <1>0, <1>1, <3>2, <4>1 DEF Counted, TypeOK
      <4>. QED
        BY SMTT(30), <1>2, <1>3, <3>2, <4>2, <4>3
    <3>. QED
      BY Zenon, <3>1, <3>2
  <2>5. ASSUME NEW k \in Blocks, k \notin Faulty,
               \A a \in Bufs : blockno'[a] = k => "B_DIRTY" \notin flags'[a]
        PROVE  disk'[k] = latest'[k]
    <3>1. k # blockno[b]
      <4>1. flags'[b] = flags[b] \cup {"B_DIRTY"}
        BY ZenonT(60), <1>1, <1>3
      <4>2. "B_DIRTY" \in flags'[b]
        BY <4>1
      <4>. QED
        BY SMTT(30), <1>1, <1>2, <2>5, <4>2
    <3>2. \A a \in Bufs : blockno[a] = k => "B_DIRTY" \notin flags[a]
      BY <1>2, <1>3, <2>5, <3>1
    <3>. QED
      BY Zenon, <1>0, <1>2, <1>3, <2>5, <3>1, <3>2 DEF Contents
  <2>. QED
    BY <2>1, <2>2, <2>3, <2>4, <2>5 DEF Contents
<1>. QED
  BY ZenonT(60), <1>4, <1>5, <1>6, <1>7, <1>9, <1>10 DEF Inv

\* bwrite().
LEMMA BWriteInv ==
    ASSUME Inv, NEW p \in Procs, NEW v \in Vals, BWrite(p, v)
    PROVE  Inv'
<1>1. pc \in [Procs -> Locs]
  BY DEF Inv, TypeOK
<1>2. pc' = [pc EXCEPT ![p] = "io"] /\ "io" \in Locs
  BY DEF BWrite, Goto, Locs
<1>3. pc' \in [Procs -> Locs] /\ \A q \in Procs : pc'[q] = IF q = p THEN "io" ELSE pc[q]
  BY <1>1, <1>2
<1>. QED
  BY ZenonT(60), <1>3, StoreInv DEF BWrite, At

\* log_write().
LEMMA LogWriteInv ==
    ASSUME Inv, NEW p \in Procs, NEW v \in Vals, LogWrite(p, v)
    PROVE  Inv'
<1>1. pc \in [Procs -> Locs]
  BY DEF Inv, TypeOK
<1>2. pc' = pc /\ pc[p] = "use"
  BY DEF LogWrite, At
<1>3. pc' \in [Procs -> Locs] /\ \A q \in Procs : pc'[q] = IF q = p THEN "use" ELSE pc[q]
  BY <1>1, <1>2
<1>. QED
  BY ZenonT(60), <1>3, StoreInv DEF LogWrite, At

\* brelse() releases the lock.
LEMMA BrelseUnlocksInv ==
    ASSUME Inv, NEW p \in Procs, BrelseUnlocks(p)
    PROVE  Inv'
<1>. DEFINE b == held[p]
<1>0. TypeOK /\ Listed /\ Counted /\ Locks /\ Queue /\ Contents /\ OutOfBuffers
  BY DEF Inv
<1>1. pc[p] = "use" /\ panicked = "no"
  BY ZenonT(60) DEF BrelseUnlocks, At
<1>2. b \in Bufs /\ lock[b] = p
  BY ZenonT(60), <1>0, <1>1 DEF Counted, Locks, Locking
<1>3. /\ blockno' = blockno /\ refcnt' = refcnt /\ mru' = mru /\ flags' = flags /\ data' = data
      /\ idequeue' = idequeue /\ request' = request /\ disk' = disk
      /\ held' = held /\ panicked' = panicked /\ latest' = latest
  BY ZenonT(60) DEF BrelseUnlocks, bcacheVars, ideVars
<1>4. /\ lock' = [lock EXCEPT ![b] = Nobody]
      /\ pc' = [q \in Procs |-> IF q = p THEN "drop"
                                ELSE IF pc[q] = "lock sleep" /\ held[q] = b THEN "lock"
                                ELSE pc[q]]
  BY ZenonT(60) DEF BrelseUnlocks
<1>5. \A q \in Procs : pc'[q] = IF q = p THEN "drop"
                                ELSE IF pc[q] = "lock sleep" /\ held[q] = b THEN "lock"
                                ELSE pc[q]
  BY ZenonT(60), <1>4
<1>6. \A a \in Bufs : lock'[a] = IF a = b THEN Nobody ELSE lock[a]
  BY ZenonT(60), <1>0, <1>4 DEF TypeOK
<1>. HIDE DEF b
<1>7. TypeOK'
  <2>1. pc' \in [Procs -> Locs]
    BY ZenonT(60), <1>0, <1>4 DEF TypeOK, Locs
  <2>2. lock' \in [Bufs -> Procs \cup {Nobody}]
    BY ZenonT(60), <1>0, <1>4 DEF TypeOK
  <2>. QED
    BY SMTT(30), <1>0, <1>3, <2>1, <2>2 DEF TypeOK
<1>8. Listed' /\ OutOfBuffers'
  BY SMTT(30), <1>0, <1>1, <1>3 DEF Listed, OutOfBuffers
<1>9. Counted'
  <2>1. \A q \in Procs : pc'[q] = "idle" <=> pc[q] = "idle"
    BY ZenonT(60), <1>1, <1>5
  <2>. QED
    BY SMTT(30), <1>0, <1>3, <2>1, CountedKept
<1>10. Locks'
  <2>1. ASSUME NEW q \in Procs, pc'[q] \in Locking PROVE lock'[held'[q]] = q
    <3>1. q # p /\ pc[q] \in Locking
      BY ZenonT(60), <1>5, <2>1 DEF Locking
    <3>2. held[q] \in Bufs /\ lock[held[q]] = q
      BY ZenonT(60), <1>0, <3>1 DEF Locks, Counted, Locking
    <3>. QED
      BY SMTT(30), <1>2, <1>3, <1>6, <3>1, <3>2
  <2>2. ASSUME NEW a \in Bufs, lock'[a] # Nobody
        PROVE  pc'[lock'[a]] \in Locking /\ held'[lock'[a]] = a
    <3>1. a # b /\ lock'[a] = lock[a]
      BY SMTT(30), <1>6, <2>2
    <3>2. lock[a] \in Procs /\ pc[lock[a]] \in Locking /\ held[lock[a]] = a
      BY ZenonT(60), <1>0, <2>2, <3>1, Holders DEF Locks
    <3>3. lock[a] # p
      BY SMTT(30), <3>1, <3>2 DEF b
    <3>4. pc'[lock[a]] = pc[lock[a]]
      BY ZenonT(60), <1>5, <3>2, <3>3 DEF Locking
    <3>. QED
      BY ZenonT(30), <1>3, <3>1, <3>2, <3>4
  <2>3. ASSUME NEW q \in Procs, pc'[q] = "lock sleep" PROVE lock'[held'[q]] # Nobody
    <3>1. pc[q] = "lock sleep" /\ held[q] # b
      BY ZenonT(60), <1>5, <2>3
    <3>2. held[q] \in Bufs /\ lock[held[q]] # Nobody
      BY ZenonT(60), <1>0, <3>1 DEF Counted, Locks
    <3>. QED
      BY ZenonT(60), <1>3, <1>6, <3>1, <3>2
  <2>. QED
    BY ZenonT(60), <2>1, <2>2, <2>3 DEF Locks, Locking
<1>11. Queue'
  <2>1. \A q \in Procs :
              /\ pc[q] \in Waiting <=> pc'[q] \in Waiting
              /\ pc'[q] \in Waiting => pc'[q] = pc[q]
    BY ZenonT(60), <1>1, <1>5 DEF Waiting
  <2>2. ASSUME NEW i \in DOMAIN idequeue PROVE lock'[idequeue[i]] = lock[idequeue[i]]
    <3>1. idequeue[i] \in Bufs /\ pc[lock[idequeue[i]]] \in Waiting
      BY ZenonT(60), <1>0, Holders DEF Queue
    <3>2. pc[p] \notin Waiting
      BY Zenon, <1>1 DEF Waiting
    <3>. QED
      BY ZenonT(30), <1>2, <1>6, <3>1, <3>2
  <2>. QED
    BY ZenonT(60), <1>0, <1>3, <2>1, <2>2, QueueKept
<1>12. Contents'
  <2>1. \A q \in Procs : (pc'[q] = "io" => pc[q] = "io") /\ (pc'[q] = "use" => pc[q] = "use")
    BY Zenon, <1>5
  <2>. QED
    BY ZenonT(30), <1>0, <1>3, <2>1, ContentsKept
<1>. QED
  BY <1>7, <1>8, <1>9, <1>10, <1>11, <1>12 DEF Inv

\* brelse() drops the reference.
LEMMA BrelseDropsInv ==
    ASSUME Inv, NEW p \in Procs, BrelseDrops(p)
    PROVE  Inv'
<1>. DEFINE b == held[p]
<1>0. TypeOK /\ Listed /\ Counted /\ Locks /\ Queue /\ Contents /\ OutOfBuffers
  BY DEF Inv
<1>1. pc[p] = "drop" /\ panicked = "no"
  BY DEF BrelseDrops, At
<1>2. b \in Bufs
  BY <1>0, <1>1 DEF Counted
<1>3. /\ blockno' = blockno /\ flags' = flags /\ data' = data /\ lock' = lock
      /\ idequeue' = idequeue /\ request' = request /\ disk' = disk
      /\ panicked' = panicked /\ latest' = latest
  BY DEF BrelseDrops, ideVars
<1>4. /\ refcnt' = [refcnt EXCEPT ![b] = refcnt[b] - 1]
      /\ mru' \in {Moved(b), mru}
      /\ held' = [held EXCEPT ![p] = Nobody]
      /\ pc' = [pc EXCEPT ![p] = "idle"]
  BY DEF BrelseDrops, Goto
<1>5. \A q \in Procs : /\ pc'[q] = IF q = p THEN "idle" ELSE pc[q]
                       /\ held'[q] = IF q = p THEN Nobody ELSE held[q]
  BY SMTT(30), <1>0, <1>4 DEF TypeOK
<1>6. ASSUME NEW a \in Bufs
      PROVE  /\ refcnt'[a] = Cardinality(References(a)')
             /\ a = b => refcnt[a] > 0
  <2>1. refcnt[a] = Cardinality(References(a))
    BY <1>0 DEF Counted
  <2>2. refcnt'[a] = IF a = b THEN refcnt[a] - 1 ELSE refcnt[a]
    BY <1>0, <1>2, <1>4 DEF TypeOK
  <2>. QED
    BY ZenonT(60), <1>0, <1>2, <1>4, <2>1, <2>2, ReferenceDropped
<1>. HIDE DEF b
<1>7. TypeOK'
  <2>1. pc' \in [Procs -> Locs] /\ held' \in [Procs -> Bufs \cup {Nobody}]
    BY ZenonT(60), <1>0, <1>4 DEF TypeOK, Locs
  <2>2. refcnt' \in [Bufs -> Nat]
    <3>1. refcnt \in [Bufs -> Nat] /\ refcnt[b] > 0
      BY Zenon, <1>0, <1>2, <1>6 DEF TypeOK
    <3>. QED
      BY SMTT(30), <1>2, <1>4, <3>1
  <2>3. mru' \in Seq(Bufs)
    <3>1. Moved(b) \in Seq(Bufs) /\ mru \in Seq(Bufs)
      BY <1>0, <1>2, MovedKeeps DEF TypeOK
    <3>. QED
      BY Zenon, <1>4, <3>1
  <2>. QED
    BY SMTT(30), <1>0, <1>3, <2>1, <2>2, <2>3 DEF TypeOK
<1>8. Listed'
  <2>1. /\ \A c \in Bufs : \E i \in DOMAIN Moved(b) : Moved(b)[i] = c
        /\ \A c \in Bufs : \E i \in DOMAIN mru : mru[i] = c
    BY ZenonT(60), <1>0, <1>2, MovedKeeps DEF Listed
  <2>2. \A c \in Bufs : \E i \in DOMAIN mru' : mru'[i] = c
    BY <1>4, <2>1
  <2>. QED
    BY SMTT(30), <2>2 DEF Listed
<1>9. Counted'
  <2>1. \A q \in Procs : pc'[q] = "idle" <=> held'[q] = Nobody
    BY Zenon, <1>0, <1>5 DEF Counted
  <2>2. \A q \in Procs : pc'[q] # "idle" => held'[q] \in Bufs /\ blockno'[held'[q]] \in Blocks
    BY ZenonT(30), <1>0, <1>3, <1>5 DEF Counted
  <2>3. \A a, c \in Bufs : blockno'[a] = blockno'[c] /\ blockno'[a] # NoBlock => a = c
    BY SMTT(30), <1>0, <1>3 DEF Counted
  <2>. QED
    BY <1>6, <2>1, <2>2, <2>3 DEF Counted
<1>10. Locks'
  <2>1. \A q \in Procs :
           /\ pc'[q] \in Locking <=> pc[q] \in Locking
           /\ pc[q] \in Locking => held'[q] = held[q]
           /\ pc'[q] = "lock sleep" => pc[q] = "lock sleep" /\ held'[q] = held[q]
    BY ZenonT(60), <1>1, <1>5 DEF Locking
  <2>. QED
    BY ZenonT(60), <1>0, <1>3, <2>1, LocksKept
<1>11. Queue'
  <2>1. \A q \in Procs :
              /\ pc[q] \in Waiting => pc'[q] \in Waiting
              /\ pc'[q] \in Waiting => pc[q] \in Waiting /\ held'[q] = held[q] /\ pc'[q] = pc[q]
    BY ZenonT(60), <1>1, <1>5 DEF Waiting
  <2>. QED
    BY ZenonT(60), <1>0, <1>3, <2>1, QueueKept
<1>12. Contents'
  <2>1. \A q \in Procs : pc'[q] = "io" => ~Finished(held[q])'
    <3>1. \A q \in Procs : pc[q] = "io" => ~Finished(held[q])
      BY SMTT(30), <1>0 DEF Contents
    <3>. QED
      BY SMTT(30), <1>3, <1>5, <3>1 DEF Finished
  <2>2. \A q \in Procs : pc'[q] = "use" => "B_VALID" \in flags'[held'[q]]
    <3>1. \A q \in Procs : pc[q] = "use" => "B_VALID" \in flags[held[q]]
      BY SMTT(30), <1>0 DEF Contents
    <3>. QED
      BY SMTT(30), <1>3, <1>5, <3>1
  <2>3. \A c \in Bufs : "B_DIRTY" \in flags'[c] => "B_VALID" \in flags'[c]
    BY ZenonT(60), <1>0, <1>3 DEF Contents
  <2>4. \A c \in Bufs : "B_VALID" \in flags'[c] /\ blockno'[c] # NoBlock /\ blockno'[c] \notin Faulty
                             => data'[c] = latest'[blockno'[c]]
    BY ZenonT(60), <1>0, <1>3 DEF Contents
  <2>5. \A k \in Blocks : k \notin Faulty /\ (\A c \in Bufs : blockno'[c] = k => "B_DIRTY" \notin flags'[c])
                               => disk'[k] = latest'[k]
    BY ZenonT(60), <1>0, <1>3 DEF Contents
  <2>. QED
    BY ZenonT(60), <2>1, <2>2, <2>3, <2>4, <2>5 DEF Contents
<1>13. OutOfBuffers'
  BY <1>1, <1>3 DEF OutOfBuffers
<1>. QED
  BY SMTT(30), <1>7, <1>8, <1>9, <1>10, <1>11, <1>12, <1>13 DEF Inv

\* ideintr() finishes the first request of the queue.
LEMMA IdeintrInv ==
    ASSUME Inv, Ideintr
    PROVE  Inv'
<1>. DEFINE b == Head(idequeue)
<1>. DEFINE h == lock[b]
<1>. DEFINE k == blockno[b]
<1>0. TypeOK /\ Listed /\ Counted /\ Locks /\ Queue /\ Contents /\ OutOfBuffers
  BY DEF Inv
<1>q. idequeue \in Seq(Bufs)
  BY <1>0 DEF TypeOK
<1>1. idequeue # <<>> /\ request = idestart(b) /\ panicked = "no"
  <2>1. request # NoRequest /\ panicked = "no"
    BY ZenonT(60) DEF Ideintr
  <2>2. request = IF idequeue = <<>> THEN NoRequest ELSE idestart(b)
    BY ZenonT(60), <1>0 DEF Queue
  <2>. QED
    BY SMTT(30), <2>1, <2>2
<1>2. /\ 1 \in DOMAIN idequeue /\ b = idequeue[1] /\ b \in Bufs
      /\ Tail(idequeue) \in Seq(Bufs)
      /\ \A i \in DOMAIN Tail(idequeue) :
            i + 1 \in DOMAIN idequeue /\ Tail(idequeue)[i] = idequeue[i + 1]
      /\ \A i \in DOMAIN idequeue : i # 1 => i - 1 \in DOMAIN Tail(idequeue) /\ (i - 1) + 1 = i
  BY SMTT(30), <1>q, <1>1, HeadAndTail
<1>3. h \in Procs /\ pc[h] \in Waiting /\ held[h] = b /\ ~Finished(b) /\ k \in Blocks
  <2>1. h # Nobody /\ pc[h] \in Waiting /\ ~Finished(b)
    BY ZenonT(60), <1>0, <1>2 DEF Queue
  <2>2. h \in Procs
    BY <1>0, <1>2, <2>1, Holders
  <2>3. held[h] = b
    BY ZenonT(60), <1>0, <1>2, <2>1 DEF Locks
  <2>4. k \in Blocks
    BY ZenonT(60), <1>0, <2>1, <2>2, <2>3 DEF Counted, Waiting
  <2>. QED
    BY SMTT(30), <2>1, <2>2, <2>3, <2>4
<1>4. request.block = k /\ request.write = ("B_DIRTY" \in flags[b]) /\ request.data = data[b]
  BY SMTT(30), <1>1 DEF idestart
<1>5. /\ disk' = IF "B_DIRTY" \in flags[b] THEN [disk EXCEPT ![k] = data[b]] ELSE disk
      /\ \/ data' = IF "B_DIRTY" \in flags[b] THEN data ELSE [data EXCEPT ![b] = disk[k]]
         \/ k \in Faulty /\ data' = data
      /\ flags' = [flags EXCEPT ![b] = {"B_VALID"}]
      /\ pc' = [p \in Procs |-> IF pc[p] = "io sleep" /\ held[p] = b THEN "io wait" ELSE pc[p]]
      /\ idequeue' = Tail(idequeue)
      /\ request' = IF Tail(idequeue) = <<>> THEN NoRequest ELSE idestart(Head(Tail(idequeue)))
  BY ZenonT(60), <1>4 DEF Ideintr
<1>6. /\ blockno' = blockno /\ refcnt' = refcnt /\ mru' = mru /\ lock' = lock
      /\ held' = held /\ panicked' = panicked /\ latest' = latest
  BY ZenonT(60) DEF Ideintr, bcacheVars
<1>7. \A q \in Procs : pc'[q] = IF pc[q] = "io sleep" /\ held[q] = b THEN "io wait" ELSE pc[q]
  BY ZenonT(60), <1>5
<1>8. \A a \in Bufs : /\ flags'[a] = IF a = b THEN {"B_VALID"} ELSE flags[a]
                      /\ a # b => data'[a] = data[a]
  BY ZenonT(60), <1>0, <1>5 DEF TypeOK
<1>. HIDE DEF b, h, k
\* The buffer and the disk now agree, and have the latest contents.
<1>9. ASSUME k \notin Faulty PROVE data'[b] = latest[k] /\ disk'[k] = latest[k]
  <2>1. CASE "B_DIRTY" \in flags[b]
    <3>1. "B_VALID" \in flags[b]
      BY SMTT(30), <1>0, <1>2, <2>1 DEF Contents
    <3>2. k # NoBlock
      BY Zenon, <1>3, BioAssumption
    <3>3. data[b] = latest[k]
      BY SMTT(30), <1>0, <1>2, <1>9, <3>1, <3>2 DEF Contents, k
    <3>4. disk'[k] = data[b] /\ data'[b] = data[b]
      BY ZenonT(60), <1>0, <1>3, <1>5, <1>9, <2>1 DEF TypeOK
    <3>. QED
      BY SMTT(30), <3>3, <3>4
  <2>2. CASE "B_DIRTY" \notin flags[b]
    <3>1. \A a \in Bufs : blockno[a] = k => a = b
      BY ZenonT(30), <1>0, <1>2, <1>3, BioAssumption DEF Counted, k
    <3>2. disk[k] = latest[k]
      BY ZenonT(30), <1>0, <1>3, <1>9, <2>2, <3>1 DEF Contents
    <3>3. disk'[k] = disk[k] /\ data'[b] = disk[k]
      BY ZenonT(60), <1>0, <1>2, <1>5, <1>9, <2>2 DEF TypeOK
    <3>. QED
      BY ZenonT(30), <3>2, <3>3
  <2>. QED
    BY SMTT(30), <2>1, <2>2
<1>10. \A j \in Blocks : j # k => disk'[j] = disk[j]
  BY ZenonT(60), <1>0, <1>5 DEF TypeOK
<1>11. TypeOK'
  <2>1. pc' \in [Procs -> Locs]
    BY ZenonT(60), <1>0, <1>5 DEF TypeOK, Locs
  <2>2. flags' \in [Bufs -> SUBSET {"B_VALID", "B_DIRTY"}]
    BY ZenonT(60), <1>0, <1>5 DEF TypeOK
  <2>3. disk' \in [Blocks -> Vals] /\ data' \in [Bufs -> Vals]
    BY ZenonT(60), <1>0, <1>2, <1>3, <1>5 DEF TypeOK
  <2>4. idequeue' \in Seq(Bufs)
    BY ZenonT(60), <1>2, <1>5
  <2>. QED
    BY SMTT(30), <1>0, <1>6, <2>1, <2>2, <2>3, <2>4 DEF TypeOK
<1>12. Listed' /\ OutOfBuffers'
  BY SMTT(30), <1>0, <1>1, <1>6 DEF Listed, OutOfBuffers
<1>13. Counted'
  <2>1. \A q \in Procs : pc'[q] = "idle" <=> pc[q] = "idle"
    BY ZenonT(60), <1>7
  <2>. QED
    BY SMTT(30), <1>0, <1>6, <2>1, CountedKept
<1>14. Locks'
  <2>1. \A q \in Procs :
           /\ pc'[q] \in Locking <=> pc[q] \in Locking
           /\ pc'[q] = "lock sleep" => pc[q] = "lock sleep"
    BY ZenonT(60), <1>7 DEF Locking
  <2>. QED
    BY ZenonT(60), <1>0, <1>6, <2>1, LocksKept
\* Who is past the lock of another buffer than the finished one.
<1>15. \A q \in Procs : q # h /\ pc[q] \in Locking => held[q] \in Bufs /\ held[q] # b
  BY ZenonT(60), <1>0 DEF Counted, Locks, Locking, h
<1>16. Queue'
  <2>0. \A i \in DOMAIN idequeue' : i \in Nat /\ i + 1 # 1
    <3>1. idequeue' \in Seq(Bufs)
      BY ZenonT(60), <1>2, <1>5
    <3>. QED
      BY SMTT(30), <3>1
  <2>1. ASSUME NEW i \in DOMAIN idequeue'
        PROVE  /\ i + 1 \in DOMAIN idequeue /\ idequeue'[i] = idequeue[i + 1]
               /\ idequeue'[i] \in Bufs /\ idequeue'[i] # b
    <3>1. i + 1 \in DOMAIN idequeue /\ idequeue'[i] = idequeue[i + 1]
      BY ZenonT(60), <1>2, <1>5
    <3>2. i + 1 # 1
      BY SMTT(30), <2>0
    <3>3. idequeue[i + 1] # idequeue[1]
      BY ZenonT(60), <1>0, <1>2, <3>1, <3>2 DEF Queue
    <3>. QED
      BY SMTT(30), <1>0, <1>2, <3>1, <3>3, Holders
  <2>2. ASSUME NEW i \in DOMAIN idequeue'
        PROVE  /\ lock'[idequeue'[i]] # Nobody /\ pc'[lock'[idequeue'[i]]] \in Waiting
               /\ ~Finished(idequeue[i])'
    <3>. DEFINE a == idequeue[i + 1]
    <3>1. idequeue'[i] = a /\ a \in Bufs /\ a # b
      BY SMTT(30), <2>1
    <3>2. lock[a] # Nobody /\ pc[lock[a]] \in Waiting /\ ~Finished(a)
      BY ZenonT(60), <1>0, <2>1 DEF Queue
    <3>. HIDE DEF a
    <3>3. lock[a] \in Procs
      BY SMTT(30), <1>0, <3>1, <3>2, Holders
    <3>4. pc'[lock[a]] \in Waiting
      BY ZenonT(60), <1>7, <3>2, <3>3 DEF Waiting
    <3>5. ~Finished(idequeue[i])'
      BY SMTT(30), <1>8, <3>1, <3>2 DEF Finished
    <3>. QED
      BY ZenonT(30), <1>6, <3>1, <3>2, <3>4, <3>5
  <2>3. ASSUME NEW i \in DOMAIN idequeue', NEW j \in DOMAIN idequeue', idequeue'[i] = idequeue'[j]
        PROVE  i = j
    <3>1. i + 1 = j + 1
      BY ZenonT(60), <1>0, <2>1, <2>3 DEF Queue
    <3>. QED
      BY SMTT(30), <2>0, <3>1
  <2>4. ASSUME NEW q \in Procs, pc'[q] \in Waiting
        PROVE  \/ \E i \in DOMAIN idequeue' : idequeue'[i] = held'[q]
               \/ pc'[q] = "io wait" /\ Finished(held[q])'
    <3>1. pc[q] \in Waiting
      BY ZenonT(60), <1>7, <2>4 DEF Waiting
    <3>2. CASE held[q] = b
      <4>1. pc'[q] = "io wait"
        BY ZenonT(60), <1>7, <3>1, <3>2 DEF Waiting
      <4>2. flags'[held'[q]] = {"B_VALID"}
        BY SMTT(30), <1>2, <1>6, <1>8, <3>2
      <4>. QED
        BY ZenonT(60), <4>1, <4>2 DEF Finished
    <3>3. CASE held[q] # b
      <4>1. pc'[q] = pc[q] /\ held'[q] = held[q] /\ held[q] \in Bufs
        BY ZenonT(60), <1>0, <1>6, <1>7, <3>1, <3>3 DEF Counted, Waiting
      <4>2. CASE \E i \in DOMAIN idequeue : idequeue[i] = held[q]
        <5>1. PICK i \in DOMAIN idequeue : idequeue[i] = held[q]
          BY SMTT(30), <4>2
        <5>2. i - 1 \in DOMAIN idequeue' /\ (i - 1) + 1 = i
          BY ZenonT(60), <1>2, <1>5, <3>3, <5>1
        <5>3. idequeue'[i - 1] = held'[q]
          BY SMTT(30), <2>1, <4>1, <5>1, <5>2
        <5>. QED
          BY ZenonT(60), <5>2, <5>3
      <4>3. CASE pc[q] = "io wait" /\ Finished(held[q])
        BY ZenonT(60), <1>8, <3>3, <4>1, <4>3 DEF Finished
      <4>. QED
        BY ZenonT(60), <1>0, <3>1, <4>2, <4>3 DEF Queue
    <3>. QED
      BY ZenonT(60), <3>2, <3>3
  <2>5. request' = IF idequeue' = <<>> THEN NoRequest ELSE idestart(Head(idequeue))'
    <3>1. CASE Tail(idequeue) = <<>>
      BY ZenonT(60), <1>5, <3>1
    <3>2. CASE Tail(idequeue) # <<>>
      <4>1. 1 \in DOMAIN Tail(idequeue) /\ Head(Tail(idequeue)) = Tail(idequeue)[1]
        BY SMTT(30), <1>2, <3>2, HeadAndTail
      <4>2. Head(idequeue') \in Bufs /\ Head(idequeue') # b
        BY ZenonT(60), <1>5, <2>1, <4>1
      <4>3. idestart(Head(idequeue))' = idestart(Head(Tail(idequeue)))
        BY ZenonT(60), <1>5, <1>6, <1>8, <4>2 DEF idestart
      <4>. QED
        BY ZenonT(60), <1>5, <3>2, <4>3
    <3>. QED
      BY SMTT(30), <3>1, <3>2
  <2>. QED
    BY ZenonT(60), <2>2, <2>3, <2>4, <2>5 DEF Queue, Waiting
<1>17. Contents'
  <2>1. ASSUME NEW q \in Procs, pc'[q] = "io" PROVE ~Finished(held[q])'
    <3>1. pc[q] = "io"
      BY ZenonT(60), <1>7, <2>1
    <3>2. q # h /\ held[q] \in Bufs /\ held[q] # b
      BY ZenonT(60), <1>3, <1>15, <3>1 DEF Locking, Waiting
    <3>3. ~Finished(held[q])
      BY SMTT(30), <1>0, <3>1 DEF Contents
    <3>. QED
      BY SMTT(30), <1>6, <1>8, <3>2, <3>3 DEF Finished
  <2>2. ASSUME NEW q \in Procs, pc'[q] = "use" PROVE "B_VALID" \in flags'[held'[q]]
    <3>1. pc[q] = "use"
      BY ZenonT(60), <1>7, <2>2
    <3>2. q # h /\ held[q] \in Bufs /\ held[q] # b
      BY ZenonT(60), <1>3, <1>15, <3>1 DEF Locking, Waiting
    <3>3. "B_VALID" \in flags[held[q]]
      BY Zenon, <1>0, <3>1 DEF Contents
    <3>. QED
      BY SMTT(30), <1>6, <1>8, <3>2, <3>3
  <2>3. \A a \in Bufs : "B_DIRTY" \in flags'[a] => "B_VALID" \in flags'[a]
    BY SMTT(30), <1>0, <1>8 DEF Contents
  <2>4. ASSUME NEW a \in Bufs, "B_VALID" \in flags'[a], blockno'[a] # NoBlock, blockno'[a] \notin Faulty
        PROVE  data'[a] = latest'[blockno'[a]]
    <3>1. CASE a = b
      BY Zenon, <1>6, <1>9, <2>4, <3>1 DEF k
    <3>2. CASE a # b
      BY SMTT(30), <1>0, <1>6, <1>8, <2>4, <3>2 DEF Contents
    <3>. QED
      BY Zenon, <3>1, <3>2
  <2>5. ASSUME NEW j \in Blocks, j \notin Faulty,
               \A a \in Bufs : blockno'[a] = j => "B_DIRTY" \notin flags'[a]
        PROVE  disk'[j] = latest'[j]
    <3>1. CASE j = k
      BY SMTT(30), <1>6, <1>9, <2>5, <3>1
    <3>2. CASE j # k
      <4>1. \A a \in Bufs : blockno[a] = j => a # b
        BY Zenon, <3>2 DEF k
      <4>2. \A a \in Bufs : blockno[a] = j => "B_DIRTY" \notin flags[a]
        BY Zenon, <1>6, <1>8, <2>5, <4>1
      <4>. QED
        BY ZenonT(60), <1>0, <1>6, <1>10, <2>5, <3>2, <4>2 DEF Contents
    <3>. QED
      BY SMTT(30), <3>1, <3>2
  <2>. QED
    BY SMTT(30), <2>1, <2>2, <2>3, <2>4, <2>5 DEF Contents
<1>. QED
  BY SMTT(30), <1>11, <1>12, <1>13, <1>14, <1>16, <1>17 DEF Inv

-----------------------------------------------------------------------------
(* Theorems *)

\* Every step of bio.c, sleeplock.c and ide.c keeps the invariant.
LEMMA NextInv == Inv /\ [Next]_vars => Inv'
<1>. SUFFICES ASSUME Inv, [Next]_vars PROVE Inv'
  BY Zenon
<1>1. ASSUME UNCHANGED vars PROVE Inv'
  <2>1. TypeOK /\ Listed /\ Counted /\ Locks /\ Queue /\ Contents /\ OutOfBuffers
    BY Zenon DEF Inv
  <2>2. /\ blockno' = blockno /\ refcnt' = refcnt /\ mru' = mru /\ flags' = flags /\ data' = data
        /\ lock' = lock /\ idequeue' = idequeue /\ request' = request /\ disk' = disk
        /\ pc' = pc /\ held' = held /\ panicked' = panicked /\ latest' = latest
    BY ZenonT(30), <1>1 DEF vars, bcacheVars, ideVars
  <2>3. TypeOK' /\ Listed' /\ OutOfBuffers'
    BY ZenonT(60), <2>1, <2>2 DEF TypeOK, Listed, OutOfBuffers
  <2>4. Counted' /\ Locks'
    BY ZenonT(60), <2>1, <2>2, CountedKept, LocksKept
  <2>5. Queue' /\ Contents'
    BY ZenonT(60), <2>1, <2>2, QueueKept, ContentsKept
  <2>. QED
    BY Zenon, <2>3, <2>4, <2>5 DEF Inv
<1>2. ASSUME NEW p \in Procs, NEW k \in Blocks, BGetHit(p, k) \/ BGetMiss(p, k) \/ BGetPanics(p, k)
      PROVE  Inv'
  BY SMTT(30), <1>2, BGetHitInv, BGetMissInv, BGetPanicsInv
<1>3. ASSUME NEW p \in Procs, NEW v \in Vals, BWrite(p, v) \/ LogWrite(p, v) PROVE Inv'
  BY SMTT(30), <1>3, BWriteInv, LogWriteInv
<1>4. ASSUME NEW p \in Procs, AcquireSleep(p) \/ Iderw(p) \/ IderwReturns(p) PROVE Inv'
  BY SMTT(30), <1>4, AcquireSleepInv, IderwInv, IderwReturnsInv
<1>5. ASSUME NEW p \in Procs, BrelseUnlocks(p) \/ BrelseDrops(p) \/ KillWakes(p) PROVE Inv'
  BY SMTT(30), <1>5, BrelseUnlocksInv, BrelseDropsInv, KillWakesInv
<1>6. ASSUME Ideintr PROVE Inv'
  BY <1>6, IdeintrInv
<1>. QED
  BY SMTT(30), <1>1, <1>2, <1>3, <1>4, <1>5, <1>6 DEF Next, Halted

\* The invariant holds in every reachable state.
THEOREM Invariance == Spec => []Inv
BY InitInv, NextInv, PTL DEF Spec

\* bget(), brelse(): however many processes and buffers there are, a block is in
\* at most one buffer, and the kernel stops only for lack of buffers, when the
\* log or a process needs every one.
THEOREM CacheIsConsistent == Spec => []OneBufferPerBlock
<1>1. ASSUME Inv PROVE OneBufferPerBlock
  <2>0. TypeOK /\ Counted /\ Locks /\ OutOfBuffers
    BY <1>1 DEF Inv
  <2>1. ASSUME NEW k \in Blocks PROVE Cardinality(Cached(k)) <= 1
    <3>1. CASE Cached(k) = {}
      BY <3>1, FS_EmptySet
    <3>2. CASE Cached(k) # {}
      <4>1. PICK b \in Cached(k) : TRUE
        BY Zenon, <3>2
      <4>2. Cached(k) = {b}
        BY Zenon, <2>0, <4>1, BioAssumption DEF Cached, Counted
      <4>. QED
        BY <4>2, FS_Singleton
    <3>. QED
      BY <3>1, <3>2
  <2>2. ASSUME panicked # "no", NEW b \in Bufs, \A p \in Procs : held[p] # b PROVE b \in Pinned
    <3>1. References(b) = {}
      BY Zenon, <2>2 DEF References
    <3>2. refcnt[b] = 0
      BY SMTT(30), <2>0, <3>1, FS_EmptySet DEF Counted
    <3>3. "B_DIRTY" \in flags[b]
      BY ZenonT(60), <2>0, <2>2, <3>2 DEF OutOfBuffers
    <3>4. lock[b] = Nobody
      BY ZenonT(30), <2>0, <3>2, Unreferenced
    <3>. QED
      BY Zenon, <3>3, <3>4, BioAssumption DEF Pinned
  <2>. QED
    BY ZenonT(60), <2>0, <2>1, <2>2 DEF OneBufferPerBlock, OutOfBuffers
<1>. QED
  BY <1>1, Invariance, PTL

\* bread(), bwrite(), brelse(): whoever uses a buffer has its lock and sees what
\* was last stored in the block, whatever was recycled and written back between.
THEOREM ReadersSeeLatest == Spec => []ReadsLatest
<1>1. ASSUME Inv PROVE ReadsLatest
  <2>0. TypeOK /\ Counted /\ Locks /\ Contents
    BY Zenon, <1>1 DEF Inv
  <2>1. ASSUME NEW p \in Procs, pc[p] = "use"
        PROVE  /\ lock[held[p]] = p
               /\ blockno[held[p]] \in Faulty \/ data[held[p]] = latest[blockno[held[p]]]
    <3>1. lock[held[p]] = p /\ "B_VALID" \in flags[held[p]]
      BY ZenonT(60), <2>0, <2>1 DEF Locks, Locking, Contents
    <3>2. held[p] \in Bufs /\ blockno[held[p]] # NoBlock
      BY SMTT(30), <2>0, <2>1, BioAssumption DEF Counted
    <3>. QED
      BY SMTT(30), <2>0, <3>1, <3>2 DEF Contents
  <2>. QED
    BY <2>1 DEF ReadsLatest
<1>. QED
  BY <1>1, Invariance, PTL

\* acquiresleep(), iderw(): who sleeps for a lock sleeps while somebody has it;
\* who sleeps for the disk is in the queue, and the disk works on its first.
THEOREM SleepersAreNotForgotten == Spec => []SleepersWillBeWoken
<1>1. ASSUME Inv PROVE SleepersWillBeWoken
  <2>0. TypeOK /\ Counted /\ Locks /\ Queue
    BY SMTT(30), <1>1 DEF Inv
  <2>1. \A p \in Procs : pc[p] = "lock sleep" => lock[held[p]] # Nobody
    BY ZenonT(60), <2>0 DEF Locks
  <2>2. \A p \in Procs : pc[p] = "io sleep" => \E i \in DOMAIN idequeue : idequeue[i] = held[p]
    BY ZenonT(60), <2>0 DEF Queue, Waiting
  <2>3. ASSUME idequeue # <<>> PROVE request # NoRequest /\ request.block = blockno[Head(idequeue)]
    <3>. DEFINE b == Head(idequeue)
    <3>1. request = idestart(b)
      BY ZenonT(60), <2>0, <2>3 DEF Queue
    <3>2. 1 \in DOMAIN idequeue /\ b = idequeue[1] /\ b \in Bufs
      <4>1. idequeue \in Seq(Bufs)
        BY SMTT(30), <2>0 DEF TypeOK
      <4>. QED
        BY SMTT(30), <2>3, <4>1, HeadAndTail
    <3>3. blockno[b] \in Blocks
      <4>1. lock[b] # Nobody /\ pc[lock[b]] \in Waiting
        BY ZenonT(60), <2>0, <3>2 DEF Queue
      <4>2. lock[b] \in Procs /\ held[lock[b]] = b
        BY ZenonT(60), <2>0, <3>2, <4>1, Holders DEF Locks
      <4>. QED
        BY ZenonT(60), <2>0, <4>1, <4>2 DEF Counted, Waiting
    <3>4. idestart(b) \in [block : Blocks, write : BOOLEAN, data : Vals]
      <4>1. data[b] \in Vals /\ ("B_DIRTY" \in flags[b]) \in BOOLEAN
        BY <2>0, <3>2 DEF TypeOK
      <4>. QED
        BY Zenon, <3>3, <4>1 DEF idestart
    <3>5. request # NoRequest
      BY Zenon, <3>1, <3>4, BioAssumption
    <3>6. request.block = blockno[b]
      BY <3>1 DEF idestart
    <3>. QED
      BY SMTT(30), <3>5, <3>6
  <2>. QED
    BY ZenonT(60), <2>1, <2>2, <2>3 DEF SleepersWillBeWoken
<1>. QED
  BY <1>1, Invariance, PTL
=============================================================================
