----------------------------- MODULE PipeProofs -----------------------------
(* The pipe for every PIPESIZE, every width of nread and nwrite and every    *)
(* number of processes: it loses, repeats, reorders and overwrites no byte,  *)
(* and nobody sleeps in it without a reason.                                 *)
EXTENDS Pipe, FiniteSetTheorems, TLAPS

-----------------------------------------------------------------------------
(* Arithmetic of the ring: counters that run modulo N, which is larger than  *)
(* the ring, index a ring of B places, where B divides N.                    *)

\* A sequence is a function on an interval, and its elements have its type.
LEMMA SeqTyped ==
    ASSUME NEW T, NEW t \in Seq(T)
    PROVE  /\ Len(t) \in Nat /\ DOMAIN t = 1 .. Len(t) /\ t \in [1 .. Len(t) -> T]
           /\ \A k \in 1 .. Len(t) : t[k] \in T
           /\ (t = <<>>) <=> (Len(t) = 0)
  OBVIOUS

\* Division with remainder.
LEMMA DivMod ==
    ASSUME NEW B \in Nat \ {0}, NEW x \in Int
    PROVE  x \div B \in Int /\ x % B \in 0 .. B - 1 /\ x = B * (x \div B) + (x % B)
  OBVIOUS

\* The remainder is the only one.
LEMMA ModUnique ==
    ASSUME NEW B \in Nat \ {0}, NEW q \in Int, NEW x \in 0 .. B - 1
    PROVE  (B * q + x) % B = x
  OBVIOUS

\* A multiple of B does not change the place in a ring of B.
LEMMA ModShift ==
    ASSUME NEW B \in Nat \ {0}, NEW q \in Int, NEW x \in Int
    PROVE  (B * q + x) % B = x % B
<1>1. x \div B \in Int /\ x % B \in 0 .. B - 1 /\ x = B * (x \div B) + (x % B)
  BY DivMod
<1>2. q + (x \div B) \in Int
  BY <1>1
<1>3. (B * (q + (x \div B)) + (x % B)) % B = x % B
  BY ZenonT(60), <1>1, <1>2, ModUnique
<1>4. B * (q + (x \div B)) + (x % B) = B * q + x
  BY <1>1
<1>. QED
  BY <1>3, <1>4

\* A counter may be reduced before or after it is advanced.
LEMMA ModAdd ==
    ASSUME NEW N \in Nat \ {0}, NEW x \in Int, NEW y \in Int
    PROVE  ((x % N) + y) % N = (x + y) % N
<1>1. x \div N \in Int /\ x % N \in 0 .. N - 1 /\ x = N * (x \div N) + (x % N)
  BY DivMod
<1>2. (x % N) + y \in Int
  BY <1>1
<1>3. (N * (x \div N) + ((x % N) + y)) % N = ((x % N) + y) % N
  BY ZenonT(60), <1>1, <1>2, ModShift
<1>4. N * (x \div N) + ((x % N) + y) = x + y
  BY <1>1
<1>. QED
  BY <1>3, <1>4

\* A counter modulo N, and what lies y ahead of it, indexes the ring as the
\* number it stands for does.
LEMMA ModOfMod ==
    ASSUME NEW B \in Nat \ {0}, NEW N \in Nat \ {0}, N % B = 0,
           NEW x \in Int, NEW y \in Int
    PROVE  ((x % N) + y) % B = (x + y) % B
<1>1. x \div N \in Int /\ x % N \in 0 .. N - 1 /\ x = N * (x \div N) + (x % N)
  BY DivMod
<1>2. N \div B \in Int /\ N = B * (N \div B)
  <2>1. N \div B \in Int /\ N = B * (N \div B) + (N % B)
    BY DivMod
  <2>. QED
    BY <2>1
<1>. DEFINE a == N \div B
            b == x \div N
            z == (x % N) + y
<1>3. a \in Int /\ b \in Int /\ z \in Int /\ a * b \in Int
  BY <1>1, <1>2
<1>4. (B * (a * b) + z) % B = z % B
  BY ZenonT(60), <1>3, ModShift
<1>5. B * (a * b) + z = x + y
  <2>1. x = (B * a) * b + (x % N)
    BY ZenonT(60), <1>1, <1>2
  <2>. DEFINE m == x % N
              t == (B * a) * b
  <2>. HIDE DEF a, b
  <2>2. x + y = t + z
    <3>1. t \in Int /\ m \in Int
      BY <1>1, <1>3
    <3>2. x = t + m
      BY <2>1
    <3>. HIDE DEF t, m
    <3>3. x + y = t + (m + y)
      BY <3>1, <3>2
    <3>. QED
      BY <3>3 DEF m
  <2>. HIDE DEF z
  <2>3. (B * a) * b = B * (a * b)
    BY <1>3
  <2>. QED
    BY <2>2, <2>3
<1>. QED
  BY ZenonT(60), <1>4, <1>5

\* Numbers less than B apart have different places in the ring.
LEMMA PlacesDiffer ==
    ASSUME NEW B \in Nat \ {0}, NEW x \in Int, NEW d \in 1 .. B - 1
    PROVE  (x + d) % B # x % B
<1>. SUFFICES ASSUME (x + d) % B = x % B PROVE FALSE
  OBVIOUS
<1>1. x \div B \in Int /\ x % B \in 0 .. B - 1 /\ x = B * (x \div B) + (x % B)
  BY DivMod
<1>2. (x + d) \div B \in Int /\ x + d = B * ((x + d) \div B) + ((x + d) % B)
  <2>1. x + d \in Int
    OBVIOUS
  <2>. QED
    BY <2>1, DivMod
<1>. DEFINE q == ((x + d) \div B) - (x \div B)
<1>3. q \in Int /\ d = B * q
  BY <1>1, <1>2
<1>. HIDE DEF q
<1>4. CASE q <= 0
  <2>1. B * q <= 0
    BY <1>3, <1>4
  <2>. QED
    BY <1>3, <2>1
<1>5. CASE q >= 1
  <2>1. B * q >= B
    BY <1>3, <1>5
  <2>. QED
    BY <1>3, <2>1
<1>. QED
  BY <1>3, <1>4, <1>5

\* The difference of a counter and the same counter advanced by k is k.
LEMMA DiffOfSum ==
    ASSUME NEW N \in Nat \ {0}, NEW a \in 0 .. N - 1, NEW k \in 0 .. N - 1
    PROVE  (a + k) % N \in 0 .. N - 1 /\ (((a + k) % N) + N - a) % N = k
<1>1. CASE a + k < N
  <2>1. (a + k) % N = a + k
    BY <1>1
  <2>2. (k + N) % N = k
    OBVIOUS
  <2>3. (a + k) + N - a = k + N
    OBVIOUS
  <2>. QED
    BY <1>1, <2>1, <2>2, <2>3
<1>2. CASE a + k >= N
  <2>1. (a + k) % N = a + k - N
    <3>1. a + k - N \in 0 .. N - 1
      BY <1>2
    <3>2. (N * 1 + (a + k - N)) % N = a + k - N
      BY <3>1, ModUnique
    <3>. QED
      BY <3>2
  <2>2. k % N = k
    OBVIOUS
  <2>3. (a + k - N) + N - a = k
    OBVIOUS
  <2>. QED
    BY <1>2, <2>1, <2>2, <2>3
<1>. QED
  BY <1>1, <1>2

\* A counter advanced by its difference to another one is that other one.
LEMMA SumOfDiff ==
    ASSUME NEW N \in Nat \ {0}, NEW a \in 0 .. N - 1, NEW b \in 0 .. N - 1
    PROVE  (b + N - a) % N \in 0 .. N - 1 /\ (a + ((b + N - a) % N)) % N = b
<1>1. CASE b >= a
  <2>1. (b + N - a) % N = b - a
    <3>1. b - a \in 0 .. N - 1
      BY <1>1
    <3>2. (N * 1 + (b - a)) % N = b - a
      BY <3>1, ModUnique
    <3>. QED
      BY <3>2
  <2>2. b % N = b
    OBVIOUS
  <2>. QED
    BY <1>1, <2>1, <2>2
<1>2. CASE b < a
  <2>1. (b + N - a) % N = b + N - a
    BY <1>2
  <2>2. (N * 1 + b) % N = b
    BY ModUnique
  <2>3. a + (b + N - a) = N * 1 + b
    OBVIOUS
  <2>. QED
    BY <1>2, <2>1, <2>2, <2>3
<1>. QED
  BY <1>1, <1>2

-----------------------------------------------------------------------------
(* The invariant.                                                            *)

Counter == 0 .. Wrap - 1
Places == 0 .. PIPESIZE - 1

TypeOK ==
    /\ data \in [Places -> Nat] /\ nread \in Counter /\ nwrite \in Counter
    /\ readopen \in {0, 1} /\ writeopen \in {0, 1} /\ abandoned \in {0, 1}
    /\ ref \in [{"read", "write"} -> Int] /\ fd \in [Procs -> 0 .. NOFILE]
    /\ pc \in [Procs -> {"user", "run", "sleep"}]
    /\ n \in [Procs -> Nat] /\ i \in [Procs -> Nat] /\ \A p \in Procs : i[p] <= n[p]
    /\ sent \in Seq(Nat) /\ got \in Seq(Nat)

\* The ring holds the bytes that were sent and not taken yet, oldest first.
\* They are numbered from 1 in the order of the stream.
Ring ==
    /\ InRing <= PIPESIZE /\ Len(sent) = Len(got) + InRing
    /\ \A j \in 1 .. InRing : data[(nread + j - 1) % PIPESIZE] = Len(got) + j
    /\ sent = [j \in 1 .. Len(sent) |-> j] /\ got = [j \in 1 .. Len(got) |-> j]

\* The descriptors of an end: the k-th one of process p is <<p, k>>.
Holders(end) == {p \in Procs : End(p) = end}
Descriptors(end) == {d \in Holders(end) \X (1 .. NOFILE) : d[2] <= fd[d[1]]}

\* f->ref counts them; an end that is marked closed has none; a process inside
\* pipewrite() or piperead() has one.
Files ==
    /\ \A end \in {"read", "write"} : ref[end] = Cardinality(Descriptors(end))
    /\ writeopen = 0 => ref["write"] = 0
    /\ readopen = 0 => ref["read"] = 0
    /\ \A p \in Procs : pc[p] # "user" => fd[p] > 0

Inv == TypeOK /\ Ring /\ Files /\ SleepsWithCause

\* The assumptions on the sizes, in the form the lemmas on rings take.
LEMMA Sizes ==
    /\ PIPESIZE \in Nat \ {0} /\ Wrap \in Nat \ {0}
    /\ Wrap > PIPESIZE /\ Wrap % PIPESIZE = 0
  BY PipeAssumption

-----------------------------------------------------------------------------
(* The ring.                                                                 *)

\* The number of bytes in the ring leads from nread to nwrite.
LEMMA InRingSpans ==
    ASSUME TypeOK PROVE InRing \in Counter /\ (nread + InRing) % Wrap = nwrite
<1>1. Wrap \in Nat \ {0} /\ nread \in 0 .. Wrap - 1 /\ nwrite \in 0 .. Wrap - 1
  BY Sizes DEF TypeOK, Counter
<1>. QED
  BY <1>1, SumOfDiff, ZenonT(60) DEF InRing, Counter

\* The ring is empty when the counters are equal, and only then.
LEMMA EmptyRing ==
    ASSUME TypeOK PROVE Empty <=> InRing = 0
<1>1. InRing \in Counter /\ (nread + InRing) % Wrap = nwrite
  BY InRingSpans
<1>2. nread \in 0 .. Wrap - 1 /\ nwrite \in 0 .. Wrap - 1 /\ Wrap \in Nat \ {0}
  BY Sizes DEF TypeOK, Counter
<1>3. ASSUME InRing = 0 PROVE Empty
  <2>1. nread % Wrap = nread /\ nread + 0 = nread
    BY <1>2
  <2>2. (nread + 0) % Wrap = nwrite
    BY <1>1, <1>3
  <2>. QED
    BY <2>1, <2>2 DEF Empty
<1>4. ASSUME Empty PROVE InRing = 0
  <2>1. nwrite + Wrap - nread = Wrap
    BY <1>2, <1>4 DEF Empty
  <2>2. Wrap % Wrap = 0
    BY <1>2
  <2>. QED
    BY <2>1, <2>2 DEF InRing
<1>. QED
  BY <1>3, <1>4

\* The k bytes a writer stores fit behind those that are there.
LEMMA RoomFits ==
    ASSUME TypeOK, Ring, NEW p \in Procs
    PROVE  /\ InRing \in Nat /\ Room(p) \in Nat
           /\ Room(p) <= PIPESIZE - InRing /\ Room(p) <= n[p] - i[p]
           /\ (Room(p) = n[p] - i[p] \/ InRing + Room(p) = PIPESIZE)
<1>1. InRing \in Nat
  BY InRingSpans, Sizes DEF Counter
<1>2. InRing <= PIPESIZE /\ PIPESIZE \in Nat
  BY Sizes DEF Ring
<1>3. n[p] \in Nat /\ i[p] \in Nat /\ i[p] <= n[p]
  BY DEF TypeOK
<1>. HIDE DEF InRing
<1>. QED
  BY <1>1, <1>2, <1>3 DEF Room, Least

\* A place of the ring may be counted from nwrite or from nread.
LEMMA FromNread ==
    ASSUME TypeOK, NEW j \in Int
    PROVE  (nwrite + j) % PIPESIZE = (nread + InRing + j) % PIPESIZE
<1>. DEFINE x == nread + InRing
<1>1. x \in Int /\ x % Wrap = nwrite
  BY InRingSpans, Sizes DEF Counter, TypeOK
<1>. HIDE DEF x
<1>2. PIPESIZE \in Nat \ {0} /\ Wrap \in Nat \ {0} /\ Wrap % PIPESIZE = 0
  BY Sizes
<1>3. ((x % Wrap) + j) % PIPESIZE = (x + j) % PIPESIZE
  BY <1>1, <1>2, ModOfMod, ZenonT(60)
<1>. QED
  BY <1>1, <1>3 DEF x

\* k bytes stored behind nwrite are in the ring behind those that were there,
\* none of which is overwritten.
LEMMA StoredPlaces ==
    ASSUME TypeOK, Ring, NEW k \in Nat, InRing + k <= PIPESIZE, NEW j \in 1 .. InRing + k
    PROVE  Stored((nread + j - 1) % PIPESIZE, k) = Len(got) + j
<1>. DEFINE u == InRing
            x == (nread + j - 1) % PIPESIZE
            J == {m \in 1 .. k : (nwrite + m - 1) % PIPESIZE = x}
<1>0. u \in Nat /\ nread \in Int /\ nwrite \in Int /\ PIPESIZE \in Nat \ {0}
  BY InRingSpans, Sizes DEF TypeOK, Counter
<1>1. ASSUME NEW m \in 1 .. k
      PROVE  (nwrite + m - 1) % PIPESIZE = (nread + u + (m - 1)) % PIPESIZE
  <2>. DEFINE y == m - 1
  <2>1. y \in Int /\ nwrite + m - 1 = nwrite + y
    BY <1>0
  <2>. HIDE DEF y
  <2>2. (nwrite + y) % PIPESIZE = (nread + u + y) % PIPESIZE
    BY <2>1, FromNread, ZenonT(60)
  <2>. QED
    BY <2>1, <2>2 DEF y
<1>2. ASSUME NEW m \in 1 .. k, (nwrite + m - 1) % PIPESIZE = x PROVE j = u + m
  <2>. DEFINE a == nread + j - 1
              b == nread + u + (m - 1)
  <2>1. a \in Int /\ b \in Int /\ a % PIPESIZE = b % PIPESIZE
    BY <1>0, <1>1, <1>2
  <2>2. CASE j < u + m
    <3>. DEFINE d == u + m - j
    <3>1. d \in 1 .. PIPESIZE - 1 /\ a + d = b
      BY <1>0, <2>2
    <3>. HIDE DEF a, b, d
    <3>2. (a + d) % PIPESIZE # a % PIPESIZE
      BY <1>0, <2>1, <3>1, PlacesDiffer, ZenonT(60)
    <3>. QED
      BY <2>1, <3>1, <3>2
  <2>3. CASE j > u + m
    <3>. DEFINE d == j - (u + m)
    <3>1. d \in 1 .. PIPESIZE - 1 /\ b + d = a
      BY <1>0, <2>3
    <3>. HIDE DEF a, b, d
    <3>2. (b + d) % PIPESIZE # b % PIPESIZE
      BY <1>0, <2>1, <3>1, PlacesDiffer, ZenonT(60)
    <3>. QED
      BY <2>1, <3>1, <3>2
  <2>. HIDE DEF u
  <2>. QED
    BY <1>0, <2>2, <2>3
<1>3. Stored(x, k) = IF J = {} THEN data[x] ELSE Len(sent) + CHOOSE m \in J : TRUE
  BY DEF Stored
<1>4. CASE j <= u
  <2>1. J = {}
    <3>. SUFFICES ASSUME NEW m \in J PROVE FALSE
      OBVIOUS
    <3>1. m \in 1 .. k /\ j = u + m
      BY <1>2
    <3>. HIDE DEF u, x, J
    <3>. QED
      BY <1>0, <1>4, <3>1
  <2>2. data[x] = Len(got) + j
    <3>1. j \in 1 .. InRing
      BY <1>0, <1>4
    <3>. QED
      BY <3>1 DEF Ring
  <2>. QED
    BY <1>3, <2>1, <2>2
<1>5. CASE j > u
  <2>. DEFINE m == j - u
  <2>1. m \in 1 .. k /\ nread + u + (m - 1) = nread + j - 1
    BY <1>0, <1>5
  <2>2. m \in J
    BY <1>1, <2>1
  <2>3. \A o \in J : o = m
    <3>1. ASSUME NEW o \in J PROVE o = m
      <4>1. o \in 1 .. k /\ j = u + o
        BY <1>2
      <4>. HIDE DEF u, J, x
      <4>. QED
        BY <1>0, <4>1
    <3>. QED
      BY <3>1
  <2>4. Stored(x, k) = Len(sent) + m
    <3>. HIDE DEF J, m, x
    <3>. QED
      BY <1>3, <2>2, <2>3
  <2>5. Len(sent) = Len(got) + u /\ Len(got) \in Nat
    BY DEF Ring, TypeOK
  <2>. HIDE DEF u
  <2>. QED
    BY <1>0, <2>4, <2>5 DEF m
<1>. QED
  <2>. HIDE DEF u
  <2>. QED
    BY <1>0, <1>4, <1>5

\* A run of numbers, extended by the numbers that follow.
LEMMA Numbered ==
    ASSUME NEW s, NEW a \in Nat, NEW k \in Nat, s = [j \in 1 .. a |-> j]
    PROVE  /\ s \o [j \in 1 .. k |-> a + j] = [j \in 1 .. a + k |-> j]
           /\ s \in Seq(Nat) /\ Len(s) = a
<1>. DEFINE t == [j \in 1 .. k |-> a + j]
            v == s \o t
<1>1. s \in Seq(Nat) /\ Len(s) = a
  OBVIOUS
<1>2. t \in Seq(Nat) /\ Len(t) = k
  OBVIOUS
<1>3. v \in Seq(Nat) /\ Len(v) = a + k
  <2>. HIDE DEF t
  <2>. QED
    BY <1>1, <1>2
<1>4. ASSUME NEW j \in 1 .. a + k PROVE v[j] = j
  <2>1. CASE j <= a
    <3>1. s[j] = j
      BY <2>1
    <3>2. v[j] = s[j]
      <4>. HIDE DEF t
      <4>. QED
        BY <1>1, <1>2, <2>1
    <3>. QED
      BY <3>1, <3>2
  <2>2. CASE j > a
    <3>1. t[j - a] = j
      BY <2>2
    <3>2. v[j] = t[j - a]
      <4>. HIDE DEF t
      <4>. QED
        BY <1>1, <1>2, <2>2
    <3>. QED
      BY <3>1, <3>2
  <2>. QED
    BY <2>1, <2>2
<1>5. v = [j \in 1 .. a + k |-> v[j]]
  <2>. HIDE DEF v
  <2>. QED
    BY <1>3, SeqTyped, ZenonT(60)
<1>6. v = [j \in 1 .. a + k |-> j]
  <2>. HIDE DEF v
  <2>. QED
    BY <1>4, <1>5
<1>. QED
  BY <1>1, <1>6

\* A shorter run of numbers is a prefix of a longer one.
LEMMA NumberedPrefix ==
    ASSUME NEW a \in Nat, NEW b \in Nat, a <= b, NEW s, s = [j \in 1 .. a |-> j],
           NEW t, t = [j \in 1 .. b |-> j]
    PROVE  S!Extends(s, t)
<1>1. s \in Seq(Nat) /\ Len(s) = a /\ t \in Seq(Nat) /\ Len(t) = b
  OBVIOUS
<1>2. SubSeq(t, 1, a) = [j \in 1 .. a |-> t[j]]
  BY <1>1
<1>3. [j \in 1 .. a |-> t[j]] = s
  OBVIOUS
<1>. QED
  BY <1>1, <1>2, <1>3 DEF S!Extends

\* What the loop of pipewrite() does to the ring before it returns or sleeps.
LEMMA StoreStep ==
    ASSUME TypeOK, Ring, NEW p \in Procs, Store(p), UNCHANGED <<nread, got>>
    PROVE  /\ data' \in [Places -> Nat] /\ nwrite' \in Counter /\ sent' \in Seq(Nat)
           /\ InRing' = InRing + Room(p) /\ Ring'
           /\ S!Extends(sent, sent') /\ Len(sent') - Len(got) <= PIPESIZE
           /\ Room(p) = 0 => UNCHANGED <<nwrite, sent>>
<1>. DEFINE k == Room(p)
            u == InRing
            a == Len(sent)
<1>1. k \in Nat /\ u \in Nat /\ u + k <= PIPESIZE
  BY RoomFits, Sizes
<1>2. /\ PIPESIZE \in Nat \ {0} /\ Wrap \in Nat \ {0} /\ PIPESIZE < Wrap
      /\ nread \in 0 .. Wrap - 1 /\ nwrite \in 0 .. Wrap - 1 /\ a \in Nat
  BY Sizes DEF TypeOK, Counter
<1>3. nwrite' = (nread + (u + k)) % Wrap
  <2>1. (nread + u) % Wrap = nwrite /\ nread + u \in Int /\ k \in Int /\ nwrite' = (nwrite + k) % Wrap
    BY <1>1, <1>2, InRingSpans DEF Store
  <2>. HIDE DEF u, k
  <2>2. (((nread + u) % Wrap) + k) % Wrap = (nread + u + k) % Wrap
    BY <1>1, <1>2, <2>1, ModAdd, ZenonT(60)
  <2>3. nread + u + k = nread + (u + k)
    BY <1>1, <1>2
  <2>. QED
    BY <2>1, <2>2, <2>3
<1>4. nwrite' \in Counter /\ InRing' = u + k
  <2>. DEFINE m == u + k
  <2>1. m \in 0 .. Wrap - 1
    BY <1>1, <1>2
  <2>. HIDE DEF m, u, k
  <2>2. (nread + m) % Wrap \in 0 .. Wrap - 1 /\ (((nread + m) % Wrap) + Wrap - nread) % Wrap = m
    BY <1>2, <2>1, DiffOfSum, ZenonT(60)
  <2>3. nwrite' = (nread + m) % Wrap
    BY <1>3 DEF m
  <2>4. InRing' = (nwrite' + Wrap - nread) % Wrap
    BY DEF InRing
  <2>5. nwrite' \in Counter /\ InRing' = m
    BY <2>2, <2>3, <2>4 DEF Counter
  <2>. QED
    BY <2>5 DEF m
<1>5. data' = [x \in Places |-> Stored(x, k)]
  BY DEF Store, Places
<1>6. data' \in [Places -> Nat]
  <2>. HIDE DEF k
  <2>1. ASSUME NEW x \in Places PROVE Stored(x, k) \in Nat
    <3>. DEFINE J == {j \in 1 .. k : (nwrite + j - 1) % PIPESIZE = x}
    <3>1. Stored(x, k) = IF J = {} THEN data[x] ELSE Len(sent) + CHOOSE j \in J : TRUE
      BY DEF Stored
    <3>2. J \subseteq Nat /\ data[x] \in Nat
      BY <1>1 DEF TypeOK
    <3>. DEFINE b == CHOOSE j \in J : TRUE
    <3>. HIDE DEF J
    <3>3. J # {} => b \in Nat
      BY Zenon, <3>2
    <3>4. Stored(x, k) = IF J = {} THEN data[x] ELSE a + b
      BY <3>1
    <3>. HIDE DEF b, a
    <3>. QED
      BY <1>2, <3>2, <3>3, <3>4
  <2>. QED
    BY <1>5, <2>1
<1>7. /\ sent' = [j \in 1 .. a + k |-> j] /\ sent = [j \in 1 .. a |-> j]
  <2>1. sent = [j \in 1 .. a |-> j]
    BY DEF Ring
  <2>2. sent' = sent \o [j \in 1 .. k |-> a + j]
    BY DEF Store
  <2>. HIDE DEF k, a
  <2>3. sent \o [j \in 1 .. k |-> a + j] = [j \in 1 .. a + k |-> j]
    BY <1>1, <1>2, <2>1, Numbered
  <2>. QED
    BY Zenon, <2>1, <2>2, <2>3
<1>8. sent' \in Seq(Nat) /\ Len(sent') = a + k
  <2>. HIDE DEF k, a
  <2>. QED
    BY <1>1, <1>2, <1>7
<1>9. a = Len(got) + u /\ Len(got) \in Nat /\ got = [j \in 1 .. Len(got) |-> j]
  BY DEF Ring, TypeOK
<1>10. ASSUME NEW j \in 1 .. u + k PROVE data'[(nread + j - 1) % PIPESIZE] = Len(got) + j
  <2>1. Stored((nread + j - 1) % PIPESIZE, k) = Len(got) + j
    BY <1>1, StoredPlaces
  <2>2. nread + j - 1 \in Int
    BY <1>1, <1>2
  <2>3. (nread + j - 1) % PIPESIZE \in Places
    BY <1>2, <2>2, DivMod, ZenonT(60) DEF Places
  <2>. HIDE DEF k, u
  <2>. QED
    BY Zenon, <1>5, <2>1, <2>3
<1>11. Ring'
  <2>. HIDE DEF k, u, a
  <2>1. InRing' <= PIPESIZE /\ Len(sent') = Len(got') + InRing'
    BY <1>1, <1>4, <1>8, <1>9
  <2>2. \A j \in 1 .. InRing' : data'[(nread' + j - 1) % PIPESIZE] = Len(got') + j
    BY Zenon, <1>4, <1>10
  <2>3. sent' = [j \in 1 .. Len(sent') |-> j] /\ got' = [j \in 1 .. Len(got') |-> j]
    BY Zenon, <1>7, <1>8, <1>9
  <2>. QED
    BY <2>1, <2>2, <2>3 DEF Ring
<1>12. S!Extends(sent, sent')
  <2>. DEFINE b == a + k
              t == sent'
  <2>1. a <= b /\ b \in Nat
    BY <1>1, <1>2
  <2>2. t = [j \in 1 .. b |-> j]
    BY <1>7
  <2>. HIDE DEF a, b, t
  <2>3. S!Extends(sent, t)
    BY <1>2, <1>7, <2>1, <2>2, NumberedPrefix
  <2>. QED
    BY <2>3 DEF t
<1>13. Len(sent') - Len(got) <= PIPESIZE
  <2>. HIDE DEF k, u, a
  <2>. QED
    BY <1>1, <1>2, <1>8, <1>9
<1>14. ASSUME k = 0 PROVE UNCHANGED <<nwrite, sent>>
  <2>1. nwrite' = (nwrite + 0) % Wrap /\ (nwrite + 0) % Wrap = nwrite
    BY <1>2, <1>14 DEF Store
  <2>2. sent' = sent
    <3>. HIDE DEF k, a
    <3>. QED
      BY <1>2, <1>7, <1>14
  <2>. QED
    BY Zenon, <2>1, <2>2
<1>. QED
  BY <1>4, <1>6, <1>8, <1>11, <1>12, <1>13, <1>14

\* piperead() takes the oldest bytes, and the rest stays as it was.
LEMMA TakeStep ==
    ASSUME TypeOK, Ring, NEW k \in Nat, k <= InRing,
           nread' = (nread + k) % Wrap,
           got' = got \o [j \in 1 .. k |-> data[(nread + j - 1) % PIPESIZE]],
           UNCHANGED <<data, nwrite, sent>>
    PROVE  /\ nread' \in Counter /\ got' \in Seq(Nat) /\ InRing' = InRing - k /\ Ring'
           /\ S!Extends(got, got') /\ S!Extends(got', sent)
<1>. DEFINE u == InRing
            rd == (nread + k) % Wrap
            a == Len(got)
<1>1. u \in Nat /\ k <= u /\ u <= PIPESIZE /\ u - k \in Nat
  BY InRingSpans, Sizes DEF Counter, Ring
<1>2. /\ PIPESIZE \in Nat \ {0} /\ Wrap \in Nat \ {0} /\ PIPESIZE < Wrap
      /\ Wrap % PIPESIZE = 0 /\ nread \in 0 .. Wrap - 1 /\ a \in Nat
      /\ nread + k \in Int /\ u - k \in 0 .. Wrap - 1 /\ u - k \in Int
  <2>1. nread \in 0 .. Wrap - 1 /\ a \in Nat
    BY DEF TypeOK, Counter
  <2>. HIDE DEF u
  <2>. QED
    BY <1>1, <2>1, Sizes
<1>3. rd \in 0 .. Wrap - 1
  BY <1>2, DivMod, ZenonT(60)
<1>4. (rd + (u - k)) % Wrap = nwrite
  <2>. DEFINE m == u - k
  <2>1. nread + k + m = nread + u
    BY <1>1, <1>2
  <2>2. (nread + u) % Wrap = nwrite
    BY InRingSpans
  <2>3. m \in Int
    BY <1>2
  <2>. HIDE DEF m, u
  <2>4. (((nread + k) % Wrap) + m) % Wrap = (nread + k + m) % Wrap
    BY <1>2, <2>3, ModAdd, ZenonT(60)
  <2>5. (rd + m) % Wrap = nwrite
    BY <2>1, <2>2, <2>4
  <2>. QED
    BY <2>5 DEF m
<1>5. InRing' = u - k
  <2>. DEFINE m == u - k
  <2>1. Wrap \in Nat \ {0} /\ rd \in 0 .. Wrap - 1 /\ m \in 0 .. Wrap - 1
    BY <1>2, <1>3
  <2>2. (rd + m) % Wrap = nwrite
    BY <1>4
  <2>. HIDE DEF m, u, rd
  <2>3. (((rd + m) % Wrap) + Wrap - rd) % Wrap = m
    BY <2>1, DiffOfSum, ZenonT(60)
  <2>4. InRing' = (nwrite + Wrap - rd) % Wrap
    BY DEF InRing, rd
  <2>5. InRing' = m
    BY <2>2, <2>3, <2>4
  <2>. QED
    BY <2>5 DEF m
<1>6. Len(sent) = a + u /\ sent = [j \in 1 .. a + u |-> j] /\ got = [j \in 1 .. a |-> j]
  BY DEF Ring
<1>7. [j \in 1 .. k |-> data[(nread + j - 1) % PIPESIZE]] = [j \in 1 .. k |-> a + j]
  <2>1. \A j \in 1 .. u : data[(nread + j - 1) % PIPESIZE] = a + j
    BY DEF Ring
  <2>2. \A j \in 1 .. k : j \in 1 .. u
    BY <1>1
  <2>. HIDE DEF u, a
  <2>. QED
    BY <2>1, <2>2
<1>8. got' = [j \in 1 .. a + k |-> j]
  <2>1. got' = got \o [j \in 1 .. k |-> a + j]
    BY Zenon, <1>7
  <2>. HIDE DEF a
  <2>2. got \o [j \in 1 .. k |-> a + j] = [j \in 1 .. a + k |-> j]
    BY <1>2, <1>6, Numbered
  <2>. QED
    BY Zenon, <2>1, <2>2
<1>9. got' \in Seq(Nat) /\ Len(got') = a + k
  <2>. DEFINE b == a + k
              t == got'
  <2>1. t = [j \in 1 .. b |-> j]
    BY <1>8, Zenon
  <2>2. a \in Nat
    BY <1>2
  <2>. HIDE DEF t, a
  <2>3. b \in Nat
    BY <2>2
  <2>. HIDE DEF b
  <2>4. t \in Seq(Nat) /\ Len(t) = b
    BY <2>1, <2>3
  <2>. QED
    BY <2>4 DEF b, t
<1>10. ASSUME NEW j \in 1 .. u - k PROVE data[(rd + j - 1) % PIPESIZE] = a + k + j
  <2>. DEFINE y == j - 1
  <2>1. y \in Int /\ k + j \in 1 .. u /\ nread + k + y = nread + (k + j) - 1 /\ rd + y = rd + j - 1
    BY <1>1, <1>2, <1>3
  <2>. HIDE DEF y
  <2>2. (((nread + k) % Wrap) + y) % PIPESIZE = (nread + k + y) % PIPESIZE
    BY <1>2, <2>1, ModOfMod, ZenonT(60)
  <2>3. data[(nread + (k + j) - 1) % PIPESIZE] = a + (k + j)
    BY <2>1 DEF Ring
  <2>4. a + (k + j) = a + k + j
    BY <1>2, <2>1
  <2>5. (rd + j - 1) % PIPESIZE = (nread + (k + j) - 1) % PIPESIZE
    BY <2>1, <2>2
  <2>. HIDE DEF rd, a
  <2>. QED
    BY <2>3, <2>4, <2>5
<1>11. Ring'
  <2>. HIDE DEF u, a
  <2>1. InRing' <= PIPESIZE /\ Len(sent') = Len(got') + InRing'
    BY <1>1, <1>2, <1>5, <1>6, <1>9
  <2>2. nread' = rd /\ data' = data
    OBVIOUS
  <2>. HIDE DEF rd
  <2>3. \A j \in 1 .. InRing' : data'[(nread' + j - 1) % PIPESIZE] = Len(got') + j
    BY <1>5, <1>9, <1>10, <2>2
  <2>4. sent' = [j \in 1 .. Len(sent') |-> j] /\ got' = [j \in 1 .. Len(got') |-> j]
    BY Zenon, <1>6, <1>8, <1>9
  <2>. QED
    BY Zenon, <2>1, <2>3, <2>4 DEF Ring
<1>12. S!Extends(got, got') /\ S!Extends(got', sent)
  <2>. DEFINE b == a + k
              d == a + u
              t == got'
  <2>1. a <= b /\ b \in Nat /\ b <= d /\ d \in Nat
    BY <1>1, <1>2
  <2>2. t = [j \in 1 .. b |-> j] /\ sent = [j \in 1 .. d |-> j]
    BY Zenon, <1>6, <1>8
  <2>. HIDE DEF a, b, d, t
  <2>3. S!Extends(got, t)
    BY Zenon, <1>2, <1>6, <2>1, <2>2, NumberedPrefix
  <2>4. S!Extends(t, sent)
    BY <2>1, <2>2, NumberedPrefix
  <2>. QED
    BY <2>3, <2>4 DEF t
<1>. QED
  BY Zenon, <1>3, <1>5, <1>9, <1>11, <1>12 DEF Counter

-----------------------------------------------------------------------------
(* The descriptors.                                                          *)

\* A process holds descriptors of one end: writers of one, readers of the other.
LEMMA HoldersEnd ==
    /\ Holders("write") = Writers /\ Holders("read") = Readers
    /\ \A p \in Procs : End(p) \in {"read", "write"} /\ p \in Holders(End(p))
    /\ IsFiniteSet(Writers) /\ IsFiniteSet(Readers)
  BY PipeAssumption DEF Holders, End, Procs

\* There are finitely many descriptors.
LEMMA DescriptorsFinite ==
    ASSUME NEW end \in {"read", "write"}
    PROVE  IsFiniteSet(Descriptors(end)) /\ Cardinality(Descriptors(end)) \in Nat
<1>. DEFINE H == Holders(end)
            K == 1 .. NOFILE
<1>1. IsFiniteSet(H)
  BY HoldersEnd
<1>2. IsFiniteSet(K)
  <2>1. 1 \in Int /\ NOFILE \in Int
    BY PipeAssumption
  <2>. QED
    BY <2>1, FS_Interval
<1>3. Descriptors(end) \in SUBSET (H \X K)
  BY DEF Descriptors
<1>. HIDE DEF H, K
<1>4. IsFiniteSet(H \X K)
  BY <1>1, <1>2, FS_Product
<1>5. IsFiniteSet(Descriptors(end))
  BY <1>3, <1>4, FS_Subset
<1>. QED
  BY <1>5, FS_CardinalityType

\* An end that a process has a descriptor of is counted and not marked closed.
LEMMA OpenEnd ==
    ASSUME TypeOK, Files, NEW p \in Procs, fd[p] > 0
    PROVE  /\ ref[End(p)] >= 1
           /\ p \in Writers => writeopen = 1
           /\ p \in Readers => readopen = 1
<1>. DEFINE D == Descriptors(End(p))
<1>1. End(p) \in {"read", "write"} /\ p \in Holders(End(p))
  BY Zenon, HoldersEnd
<1>2. <<p, 1>> \in D
  BY <1>1, PipeAssumption DEF Descriptors, TypeOK
<1>3. IsFiniteSet(D) /\ Cardinality(D) \in Nat
  BY Zenon, <1>1, DescriptorsFinite
<1>4. ref[End(p)] = Cardinality(D)
  BY <1>1 DEF Files
<1>5. Cardinality(D) # 0
  <2>. HIDE DEF D
  <2>. QED
    BY <1>2, <1>3, FS_EmptySet
<1>6. ref[End(p)] >= 1
  <2>. HIDE DEF D
  <2>. QED
    BY <1>3, <1>4, <1>5
<1>7. p \in Writers => End(p) = "write"
  BY DEF End
<1>8. p \in Readers => End(p) = "read"
  BY PipeAssumption DEF End
<1>. QED
  BY <1>6, <1>7, <1>8 DEF Files, TypeOK

\* dup() adds a descriptor of its end.
LEMMA DupCounts ==
    ASSUME TypeOK, Files, NEW p \in Procs, fd[p] < NOFILE,
           fd' = [fd EXCEPT ![p] = @ + 1], ref' = [ref EXCEPT ![End(p)] = @ + 1]
    PROVE  \A end \in {"read", "write"} : ref'[end] = Cardinality(Descriptors(end)')
<1>. DEFINE D == Descriptors(End(p))
            G == Descriptors(End(p))'
            x == <<p, fd[p] + 1>>
<1>1. End(p) \in {"read", "write"} /\ p \in Holders(End(p))
  BY HoldersEnd
<1>2. fd[p] \in Nat /\ NOFILE \in Nat /\ fd[p] + 1 \in 1 .. NOFILE
  BY PipeAssumption DEF TypeOK
<1>3. G = D \cup {x}
  <2>1. ASSUME NEW q \in Holders(End(p)), NEW k \in 1 .. NOFILE
        PROVE  k <= fd'[q] <=> (k <= fd[q] \/ (q = p /\ k = fd[p] + 1))
    <3>1. q \in Procs /\ k \in Nat /\ fd[q] \in Nat
      BY PipeAssumption DEF Holders, TypeOK
    <3>. QED
      BY <1>2, <3>1 DEF TypeOK
  <2>2. G = {d \in Holders(End(p)) \X (1 .. NOFILE) : d[2] <= fd'[d[1]]}
    BY DEF Descriptors, Holders, End
  <2>3. D = {d \in Holders(End(p)) \X (1 .. NOFILE) : d[2] <= fd[d[1]]}
    BY DEF Descriptors
  <2>4. x \in Holders(End(p)) \X (1 .. NOFILE)
    BY <1>1, <1>2
  <2>. QED
    BY <2>1, <2>2, <2>3, <2>4
<1>4. x \notin D
  BY <1>2 DEF Descriptors
<1>5. IsFiniteSet(D) /\ ref[End(p)] = Cardinality(D)
  BY <1>1, DescriptorsFinite DEF Files
<1>6. Cardinality(G) = Cardinality(D) + 1
  <2>. HIDE DEF D, G, x
  <2>. QED
    BY <1>3, <1>4, <1>5, FS_AddElement
<1>7. ASSUME NEW end \in {"read", "write"}, end # End(p) PROVE Descriptors(end)' = Descriptors(end)
  <2>1. p \notin Holders(end)
    BY <1>7 DEF Holders
  <2>2. \A q \in Holders(end) : fd'[q] = fd[q]
    BY <2>1 DEF TypeOK, Holders
  <2>3. Holders(end)' = Holders(end)
    BY DEF Holders, End
  <2>. QED
    BY <2>2, <2>3 DEF Descriptors
<1>8. ASSUME NEW end \in {"read", "write"} PROVE ref'[end] = Cardinality(Descriptors(end)')
  <2>1. CASE end = End(p)
    <3>1. ref'[end] = ref[End(p)] + 1
      BY <1>1, <2>1 DEF TypeOK
    <3>. QED
      BY <1>5, <1>6, <2>1, <3>1
  <2>2. CASE end # End(p)
    <3>1. ref'[end] = ref[end]
      BY <2>2 DEF TypeOK
    <3>. QED
      BY <1>7, <2>2, <3>1 DEF Files
  <2>. QED
    BY <2>1, <2>2
<1>. QED
  BY <1>8

\* close() takes one descriptor of its end away.
LEMMA CloseCounts ==
    ASSUME TypeOK, Files, NEW p \in Procs, fd[p] > 0,
           fd' = [fd EXCEPT ![p] = @ - 1], ref' = [ref EXCEPT ![End(p)] = @ - 1]
    PROVE  \A end \in {"read", "write"} : ref'[end] = Cardinality(Descriptors(end)')
<1>. DEFINE D == Descriptors(End(p))
            G == Descriptors(End(p))'
            x == <<p, fd[p]>>
<1>1. End(p) \in {"read", "write"} /\ p \in Holders(End(p))
  BY HoldersEnd
<1>2. fd[p] \in Nat /\ NOFILE \in Nat /\ fd[p] \in 1 .. NOFILE
  BY PipeAssumption DEF TypeOK
<1>3. G = D \ {x}
  <2>1. ASSUME NEW q \in Holders(End(p)), NEW k \in 1 .. NOFILE
        PROVE  k <= fd'[q] <=> (k <= fd[q] /\ ~(q = p /\ k = fd[p]))
    <3>1. q \in Procs /\ k \in Nat /\ fd[q] \in Nat
      BY PipeAssumption DEF Holders, TypeOK
    <3>. QED
      BY <1>2, <3>1 DEF TypeOK
  <2>2. G = {d \in Holders(End(p)) \X (1 .. NOFILE) : d[2] <= fd'[d[1]]}
    BY DEF Descriptors, Holders, End
  <2>3. D = {d \in Holders(End(p)) \X (1 .. NOFILE) : d[2] <= fd[d[1]]}
    BY DEF Descriptors
  <2>. QED
    BY <2>1, <2>2, <2>3
<1>4. x \in D
  BY <1>1, <1>2 DEF Descriptors
<1>5. IsFiniteSet(D) /\ ref[End(p)] = Cardinality(D)
  BY <1>1, DescriptorsFinite DEF Files
<1>6. Cardinality(G) = Cardinality(D) - 1
  <2>. HIDE DEF D, G, x
  <2>. QED
    BY SMTT(30), <1>3, <1>4, <1>5, FS_RemoveElement
<1>7. ASSUME NEW end \in {"read", "write"}, end # End(p) PROVE Descriptors(end)' = Descriptors(end)
  <2>1. p \notin Holders(end)
    BY <1>7 DEF Holders
  <2>2. \A q \in Holders(end) : fd'[q] = fd[q]
    BY <2>1 DEF TypeOK, Holders
  <2>3. Holders(end)' = Holders(end)
    BY DEF Holders, End
  <2>. QED
    BY <2>2, <2>3 DEF Descriptors
<1>8. ASSUME NEW end \in {"read", "write"} PROVE ref'[end] = Cardinality(Descriptors(end)')
  <2>1. CASE end = End(p)
    <3>1. ref'[end] = ref[End(p)] - 1
      BY <1>1, <2>1 DEF TypeOK
    <3>. QED
      BY <1>5, <1>6, <2>1, <3>1
  <2>2. CASE end # End(p)
    <3>1. ref'[end] = ref[end]
      BY <2>2 DEF TypeOK
    <3>. QED
      BY <1>7, <2>2, <3>1 DEF Files
  <2>. QED
    BY <2>1, <2>2
<1>. QED
  BY <1>8

\* A step that leaves the descriptors alone.
LEMMA FilesKept ==
    ASSUME Files, UNCHANGED <<fileVars, readopen, writeopen>>,
           \A p \in Procs : pc'[p] # "user" => pc[p] # "user"
    PROVE  Files'
<1>1. UNCHANGED <<ref, fd, readopen, writeopen>>
  BY DEF fileVars
<1>2. \A end \in {"read", "write"} : Descriptors(end)' = Descriptors(end)
  BY <1>1 DEF Descriptors, Holders, End
<1>. QED
  BY <1>1, <1>2 DEF Files

-----------------------------------------------------------------------------
(* The steps.                                                                *)

\* A step of the abstract stream, or none.
Streams ==
    \/ S!Put \/ S!Get \/ S!CloseRead \/ S!CloseWrite
    \/ UNCHANGED <<sent, got, readopen, writeopen>>

\* pipewrite(), up to its return, its sleep or its failure.
LEMMA WriteStep ==
    ASSUME Inv, NEW p \in Writers, WriteReturns(p) \/ WriteSleeps(p) \/ WriteFails(p)
    PROVE  Inv' /\ Streams
<1>1. /\ p \in Procs /\ pc[p] = "run" /\ Store(p)
      /\ UNCHANGED <<nread, readopen, writeopen, fileVars, got>>
  BY DEF Procs, WriteReturns, WriteSleeps, WriteFails
<1>2. TypeOK /\ Ring /\ Files /\ SleepsWithCause
  BY DEF Inv
<1>3. /\ data' \in [Places -> Nat] /\ nwrite' \in Counter /\ sent' \in Seq(Nat)
      /\ InRing' = InRing + Room(p) /\ Ring'
      /\ S!Extends(sent, sent') /\ Len(sent') - Len(got) <= PIPESIZE
      /\ (Room(p) = 0 => UNCHANGED <<nwrite, sent>>)
  BY SMTT(30), <1>1, <1>2, StoreStep
<1>4. /\ InRing \in Nat /\ Room(p) \in Nat
      /\ Room(p) <= PIPESIZE - InRing /\ Room(p) <= n[p] - i[p]
      /\ (Room(p) = n[p] - i[p] \/ InRing + Room(p) = PIPESIZE)
  BY SMTT(30), <1>1, <1>2, RoomFits
<1>. DEFINE k == Room(p)
<1>5. /\ pc' \in [Procs -> {"user", "run", "sleep"}]
      /\ \A q \in Procs : pc'[q] # "user" => pc[q] # "user"
  BY Zenon, <1>1, <1>2 DEF TypeOK, WriteReturns, WriteSleeps, WriteFails, Wake
<1>6. /\ n' \in [Procs -> Nat] /\ i' \in [Procs -> Nat] /\ \A q \in Procs : i'[q] <= n'[q]
  <2>1. CASE Return(p)
    BY <1>1, <1>2, <2>1 DEF Return, TypeOK
  <2>2. CASE n' = n /\ i' = [i EXCEPT ![p] = @ + k]
    <3>1. i[p] \in Nat /\ n[p] \in Nat /\ k \in Nat /\ i[p] + k <= n[p]
      BY SMTT(30), <1>1, <1>2, <1>4 DEF TypeOK
    <3>. HIDE DEF k
    <3>. QED
      BY SMTT(30), <1>1, <1>2, <2>2, <3>1 DEF TypeOK
  <2>. QED
    BY <2>1, <2>2 DEF WriteReturns, WriteSleeps, WriteFails
<1>7. abandoned' \in {0, 1}
  BY Zenon, <1>2 DEF TypeOK, WriteReturns, WriteSleeps, WriteFails
<1>8. TypeOK'
  BY SMTT(30), <1>1, <1>2, <1>3, <1>5, <1>6, <1>7 DEF TypeOK, fileVars
<1>9. Files'
  BY <1>1, <1>2, <1>5, FilesKept
<1>10. SleepsWithCause'
  <2>. SUFFICES ASSUME NEW q \in Procs, pc'[q] = "sleep"
                PROVE  IF q \in Writers THEN InRing' = PIPESIZE /\ readopen' = 1
                       ELSE writeopen' = 1 /\ (Empty' \/ abandoned' = 1)
    BY DEF SleepsWithCause
  <2>1. CASE q \in Writers /\ q # p
    <3>1. pc[q] = "sleep"
      BY SMTT(30), <1>1, <1>2, <2>1 DEF TypeOK, WriteReturns, WriteSleeps, WriteFails, Wake
    <3>2. InRing = PIPESIZE /\ readopen = 1
      BY SMTT(30), <1>2, <2>1, <3>1 DEF SleepsWithCause
    <3>. HIDE DEF InRing, Room
    <3>. QED
      BY SMTT(30), <1>1, <1>3, <1>4, <2>1, <3>2, Sizes
  <2>2. CASE q = p
    <3>1. WriteSleeps(p)
      BY SMTT(30), <1>1, <1>2, <2>2 DEF TypeOK, WriteReturns, WriteFails, Wake
    <3>2. readopen = 1 /\ i[p] + Room(p) < n[p] /\ i[p] \in Nat /\ n[p] \in Nat
      BY SMTT(30), <1>1, <1>2, <3>1 DEF WriteSleeps, TypeOK
    <3>. HIDE DEF InRing, Room
    <3>. QED
      BY SMTT(30), <1>1, <1>3, <1>4, <2>2, <3>2
  <2>3. CASE q \notin Writers
    <3>1. q \in Readers /\ q # p
      BY SMTT(30), <2>3 DEF Procs
    <3>2. WriteFails(p) /\ pc[q] = "sleep"
      BY SMTT(30), <1>1, <1>2, <3>1 DEF TypeOK, WriteReturns, WriteSleeps, WriteFails, Wake
    <3>3. writeopen = 1 /\ (Empty \/ abandoned = 1)
      BY SMTT(30), <1>2, <2>3, <3>2 DEF SleepsWithCause
    <3>4. abandoned' = IF Room(p) > 0 THEN 1 ELSE abandoned
      BY ZenonT(60), <3>2 DEF WriteFails
    <3>. HIDE DEF Room
    <3>5. CASE Room(p) > 0
      BY ZenonT(60), <1>1, <2>3, <3>3, <3>4, <3>5
    <3>6. CASE Room(p) = 0
      BY ZenonT(60), <1>1, <1>3, <2>3, <3>3, <3>4, <3>6 DEF Empty
    <3>. QED
      BY <1>4, <3>5, <3>6
  <2>. QED
    BY <2>1, <2>2, <2>3
<1>11. S!Put
  <2>1. fd[p] > 0
    BY ZenonT(60), <1>1, <1>2 DEF Files
  <2>2. writeopen = 1
    BY Zenon, <1>1, <1>2, <2>1, OpenEnd
  <2>. QED
    BY SMTT(30), <1>1, <1>3, <2>2 DEF S!Put
<1>. QED
  BY SMTT(30), <1>3, <1>8, <1>9, <1>10, <1>11 DEF Inv, Streams

\* piperead(), once there is something to read or nobody left to write.
LEMMA ReadStep ==
    ASSUME Inv, NEW p \in Readers, ReadReturns(p)
    PROVE  Inv' /\ Streams
<1>. DEFINE k == Least(n[p], InRing)
<1>1. /\ p \in Procs /\ p \notin Writers /\ pc[p] = "run" /\ (~Empty \/ writeopen = 0)
      /\ nread' = (nread + k) % Wrap
      /\ got' = got \o [j \in 1 .. k |-> data[(nread + j - 1) % PIPESIZE]]
      /\ Return(p) /\ Wake(Writers, p, "user")
      /\ UNCHANGED <<data, nwrite, readopen, writeopen, fileVars, sent, abandoned>>
  BY PipeAssumption DEF Procs, ReadReturns
<1>2. TypeOK /\ Ring /\ Files /\ SleepsWithCause
  BY DEF Inv
<1>3. k \in Nat /\ k <= InRing
  <2>1. InRing \in Nat /\ n[p] \in Nat
    BY SMTT(30), <1>1, <1>2, InRingSpans, Sizes DEF Counter, TypeOK
  <2>. HIDE DEF InRing
  <2>. QED
    BY <2>1 DEF Least
<1>4. /\ nread' \in Counter /\ got' \in Seq(Nat) /\ Ring'
      /\ S!Extends(got, got') /\ S!Extends(got', sent)
  <2>. HIDE DEF k
  <2>. QED
    BY Zenon, <1>1, <1>2, <1>3, TakeStep
<1>5. /\ pc' \in [Procs -> {"user", "run", "sleep"}]
      /\ \A q \in Procs : pc'[q] # "user" => pc[q] # "user"
      /\ \A q \in Procs : pc'[q] = "sleep" => pc[q] = "sleep" /\ q \notin Writers
  BY <1>1, <1>2 DEF TypeOK, Wake
<1>6. /\ n' \in [Procs -> Nat] /\ i' \in [Procs -> Nat] /\ \A q \in Procs : i'[q] <= n'[q]
  BY SMTT(30), <1>1, <1>2 DEF Return, TypeOK
<1>7. TypeOK'
  BY Zenon, <1>1, <1>2, <1>4, <1>5, <1>6 DEF TypeOK, fileVars
<1>8. Files'
  BY Zenon, <1>1, <1>2, <1>5, FilesKept
<1>9. SleepsWithCause'
  BY SMTT(30), <1>1, <1>2, <1>5 DEF SleepsWithCause
<1>10. S!Get
  <2>1. p \in Procs /\ pc[p] # "user"
    BY Zenon, <1>1
  <2>2. fd[p] > 0
    BY Zenon, <1>2, <2>1 DEF Files
  <2>3. readopen = 1
    BY Zenon, <1>2, <2>1, <2>2, OpenEnd
  <2>. QED
    BY Zenon, <1>1, <1>4, <2>3 DEF S!Get
<1>. QED
  BY SMTT(30), <1>4, <1>7, <1>8, <1>9, <1>10 DEF Inv, Streams

\* The steps that touch neither the ring nor the descriptors: a call begins, a
\* reader sleeps or fails, a process is killed.
LEMMA PcStep ==
    ASSUME Inv, NEW p \in Procs,
           \/ \E k \in Counts : Call(p, k)
           \/ ReadSleeps(p) \/ ReadFails(p) \/ Kill(p)
    PROVE  Inv' /\ Streams
<1>1. UNCHANGED <<data, nread, nwrite, readopen, writeopen, ref, fd, sent, got, abandoned>>
  BY DEF Call, ReadSleeps, ReadFails, Kill, pipeVars, fileVars
<1>2. TypeOK /\ Ring /\ Files /\ SleepsWithCause
  BY DEF Inv
<1>3. /\ pc' \in [Procs -> {"user", "run", "sleep"}]
      /\ \A q \in Procs \ {p} : pc'[q] = pc[q]
      /\ pc'[p] # "user" => fd[p] > 0
      /\ pc'[p] = "sleep" => ReadSleeps(p) \/ pc[p] = "sleep"
  BY ZenonT(60), <1>2 DEF Call, HasFd, ReadSleeps, ReadFails, Kill, TypeOK, Files
<1>4. /\ n' \in [Procs -> Nat] /\ i' \in [Procs -> Nat] /\ \A q \in Procs : i'[q] <= n'[q]
  <2>1. CASE \E k \in Counts : Call(p, k)
    BY <1>2, <2>1, PipeAssumption DEF Call, TypeOK
  <2>2. CASE ReadFails(p)
    BY <1>2, <2>2 DEF ReadFails, Return, TypeOK
  <2>3. CASE ReadSleeps(p) \/ Kill(p)
    BY SMTT(30), <1>2, <2>3 DEF ReadSleeps, Kill, callVars, TypeOK
  <2>. QED
    BY <2>1, <2>2, <2>3
<1>5. TypeOK'
  BY SMTT(30), <1>1, <1>2, <1>3, <1>4 DEF TypeOK
<1>6. Ring' /\ InRing' = InRing /\ Empty' = Empty
  BY SMTT(30), <1>1, <1>2 DEF Ring, InRing, Empty
<1>7. Files'
  <2>1. \A end \in {"read", "write"} : Descriptors(end)' = Descriptors(end)
    BY SMTT(30), <1>1 DEF Descriptors, Holders, End
  <2>. QED
    BY Zenon, <1>1, <1>2, <1>3, <2>1 DEF Files
<1>8. SleepsWithCause'
  <2>. SUFFICES ASSUME NEW q \in Procs, pc'[q] = "sleep"
                PROVE  IF q \in Writers THEN InRing' = PIPESIZE /\ readopen' = 1
                       ELSE writeopen' = 1 /\ (Empty' \/ abandoned' = 1)
    BY DEF SleepsWithCause
  <2>. HIDE DEF InRing, Empty
  <2>1. CASE pc[q] = "sleep"
    <3>1. IF q \in Writers THEN InRing = PIPESIZE /\ readopen = 1
          ELSE writeopen = 1 /\ (Empty \/ abandoned = 1)
      BY Zenon, <1>2, <2>1 DEF SleepsWithCause
    <3>. QED
      BY Zenon, <1>1, <1>6, <3>1
  <2>2. CASE q = p /\ ReadSleeps(p)
    BY ZenonT(30), <1>1, <1>6, <2>2, PipeAssumption DEF ReadSleeps
  <2>. QED
    BY Zenon, <1>3, <2>1, <2>2
<1>. QED
  BY SMTT(30), <1>1, <1>5, <1>6, <1>7, <1>8 DEF Inv, Streams

\* dup() and close() of a descriptor that is not the last one of its end.
LEMMA CountStep ==
    ASSUME Inv, NEW p \in Procs, Dup(p) \/ Close(p)
    PROVE  Inv' /\ Streams
<1>1. /\ UNCHANGED <<data, nread, nwrite, readopen, writeopen, pc, n, i, sent, got, abandoned>>
      /\ pc[p] = "user" /\ fd[p] > 0
  BY DEF Dup, Close, CloseFd, HasFd, pipeVars, callVars
<1>2. TypeOK /\ Ring /\ Files /\ SleepsWithCause
  BY DEF Inv
<1>3. \/ fd[p] < NOFILE /\ fd' = [fd EXCEPT ![p] = @ + 1] /\ ref' = [ref EXCEPT ![End(p)] = @ + 1]
      \/ fd' = [fd EXCEPT ![p] = @ - 1] /\ ref' = [ref EXCEPT ![End(p)] = @ - 1]
  BY DEF Dup, Filedup, Close, CloseFd
<1>4. fd' \in [Procs -> 0 .. NOFILE] /\ ref' \in [{"read", "write"} -> Int]
      /\ \A q \in Procs \ {p} : fd'[q] = fd[q]
  <2>1. fd[p] \in 1 .. NOFILE /\ NOFILE \in Nat /\ End(p) \in {"read", "write"}
    BY <1>1, <1>2, PipeAssumption, HoldersEnd DEF TypeOK
  <2>2. ref[End(p)] \in Int
    BY Zenon, <1>2, <2>1 DEF TypeOK
  <2>3. fd \in [Procs -> 0 .. NOFILE] /\ ref \in [{"read", "write"} -> Int]
    BY <1>2 DEF TypeOK
  <2>4. fd[p] < NOFILE => fd[p] + 1 \in 0 .. NOFILE
    BY <2>1
  <2>5. fd[p] - 1 \in 0 .. NOFILE
    BY <2>1
  <2>6. fd' \in [Procs -> 0 .. NOFILE] /\ \A q \in Procs \ {p} : fd'[q] = fd[q]
    BY SMTT(30), <1>3, <2>3, <2>4, <2>5
  <2>7. ref' \in [{"read", "write"} -> Int]
    BY SMTT(30), <1>3, <2>1, <2>2, <2>3
  <2>. QED
    BY SMTT(30), <2>6, <2>7
<1>5. TypeOK'
  BY Zenon, <1>1, <1>2, <1>4 DEF TypeOK
<1>6. \A end \in {"read", "write"} : ref'[end] = Cardinality(Descriptors(end)')
  BY ZenonT(30), <1>1, <1>2, <1>3, DupCounts, CloseCounts
<1>7. Files'
  <2>1. End(p) = (IF p \in Writers THEN "write" ELSE "read") /\ p \in Writers \cup Readers
    BY ZenonT(30) DEF End, Procs
  <2>2. /\ writeopen = 0 => p \notin Writers
        /\ readopen = 0 => p \notin Readers
    <3>1. /\ p \in Writers => writeopen = 1
          /\ p \in Readers => readopen = 1
      BY Zenon, <1>1, <1>2, OpenEnd
    <3>. QED
      BY <3>1
  <2>3. \A end \in {"read", "write"} \ {End(p)} : ref'[end] = ref[end]
    BY SMTT(30), <1>2, <1>3 DEF TypeOK
  <2>4. writeopen' = 0 => ref'["write"] = 0
    BY ZenonT(60), <1>1, <1>2, <2>1, <2>2, <2>3 DEF Files
  <2>5. readopen' = 0 => ref'["read"] = 0
    BY ZenonT(60), <1>1, <1>2, <2>1, <2>2, <2>3 DEF Files
  <2>6. \A q \in Procs : pc'[q] # "user" => fd'[q] > 0
    BY Zenon, <1>1, <1>2, <1>4 DEF Files
  <2>. QED
    BY <1>6, <2>4, <2>5, <2>6 DEF Files
<1>8. Ring' /\ SleepsWithCause'
  BY <1>1, <1>2 DEF Ring, SleepsWithCause, InRing, Empty
<1>. QED
  BY SMTT(30), <1>1, <1>5, <1>7, <1>8 DEF Inv, Streams

\* close() of the last descriptor of an end: pipeclose().
LEMMA PipecloseStep ==
    ASSUME Inv, NEW p \in Procs, Pipeclose(p)
    PROVE  Inv' /\ Streams
<1>1. /\ UNCHANGED <<data, nread, nwrite, n, i, sent, got>>
      /\ pc[p] = "user" /\ fd[p] > 0 /\ ref[End(p)] = 1
      /\ fd' = [fd EXCEPT ![p] = @ - 1] /\ ref' = [ref EXCEPT ![End(p)] = @ - 1]
  BY DEF Pipeclose, CloseFd, HasFd, callVars
<1>2. TypeOK /\ Ring /\ Files /\ SleepsWithCause
  BY Zenon DEF Inv
<1>3. /\ p \in Writers => End(p) = "write" /\ writeopen = 1 /\ writeopen' = 0 /\ readopen' = readopen
      /\ p \notin Writers => p \in Readers /\ End(p) = "read" /\ readopen = 1
                             /\ readopen' = 0 /\ writeopen' = writeopen
  BY SMTT(30), <1>1, <1>2, OpenEnd DEF Pipeclose, End, Procs
<1>4. /\ pc' \in [Procs -> {"user", "run", "sleep"}]
      /\ \A q \in Procs : pc'[q] # "user" => pc[q] # "user"
      /\ \A q \in Procs : pc'[q] = "sleep" =>
            pc[q] = "sleep" /\ (p \in Writers => q \notin Readers) /\ (p \notin Writers => q \notin Writers)
  BY <1>2 DEF TypeOK, Pipeclose, Wake
<1>5. fd' \in [Procs -> 0 .. NOFILE] /\ \A q \in Procs \ {p} : fd'[q] = fd[q]
  <2>1. fd \in [Procs -> 0 .. NOFILE] /\ NOFILE \in Nat
    BY <1>2, PipeAssumption DEF TypeOK
  <2>2. fd[p] - 1 \in 0 .. NOFILE
    BY <1>1, <2>1
  <2>. QED
    BY <1>1, <2>1, <2>2
<1>6. /\ ref' \in [{"read", "write"} -> Int] /\ ref'[End(p)] = 0
      /\ \A end \in {"read", "write"} \ {End(p)} : ref'[end] = ref[end]
  <2>1. End(p) \in {"read", "write"}
    BY Zenon, HoldersEnd
  <2>2. ref \in [{"read", "write"} -> Int]
    BY <1>2 DEF TypeOK
  <2>3. ref' = [ref EXCEPT ![End(p)] = 0]
    BY SMTT(30), <1>1, <2>1, <2>2
  <2>. QED
    BY <2>1, <2>2, <2>3
<1>7. abandoned' = (IF p \in Writers THEN 0 ELSE abandoned)
  BY Zenon DEF Pipeclose
<1>8. TypeOK'
  BY Zenon, <1>1, <1>2, <1>3, <1>4, <1>5, <1>6, <1>7 DEF TypeOK
<1>9. Files'
  <2>1. \A end \in {"read", "write"} : ref'[end] = Cardinality(Descriptors(end)')
    BY Zenon, <1>1, <1>2, CloseCounts
  <2>2. \A q \in Procs : pc'[q] # "user" => fd'[q] > 0
    BY <1>1, <1>2, <1>4, <1>5 DEF Files
  <2>3. writeopen' = 0 => ref'["write"] = 0
    BY <1>2, <1>3, <1>6 DEF Files
  <2>4. readopen' = 0 => ref'["read"] = 0
    BY SMTT(30), <1>2, <1>3, <1>6 DEF Files
  <2>. QED
    BY SMTT(30), <2>1, <2>2, <2>3, <2>4 DEF Files
<1>10. Ring' /\ InRing' = InRing /\ Empty' = Empty
  BY Zenon, <1>1, <1>2 DEF Ring, InRing, Empty
<1>11. SleepsWithCause'
  <2>. SUFFICES ASSUME NEW q \in Procs, pc'[q] = "sleep"
                PROVE  IF q \in Writers THEN InRing' = PIPESIZE /\ readopen' = 1
                       ELSE writeopen' = 1 /\ (Empty' \/ abandoned' = 1)
    BY DEF SleepsWithCause
  <2>. HIDE DEF InRing, Empty
  <2>1. pc[q] = "sleep" /\ (p \in Writers <=> q \in Writers)
    BY SMTT(30), <1>4 DEF Procs
  <2>2. IF q \in Writers THEN InRing = PIPESIZE /\ readopen = 1
        ELSE writeopen = 1 /\ (Empty \/ abandoned = 1)
    BY SMTT(30), <1>2, <2>1 DEF SleepsWithCause
  <2>. QED
    BY SMTT(30), <1>3, <1>7, <1>10, <2>1, <2>2
<1>12. S!CloseWrite \/ S!CloseRead
  BY <1>1, <1>3 DEF S!CloseWrite, S!CloseRead
<1>13. Inv'
  BY Zenon, <1>8, <1>9, <1>10, <1>11 DEF Inv
<1>. QED
  BY Zenon, <1>12, <1>13 DEF Streams

\* A new pipe: an empty ring and one descriptor per process.
LEMMA Init_Inv == Init => Inv
<1>. SUFFICES ASSUME Init PROVE Inv
  OBVIOUS
<1>1. /\ data = [x \in Places |-> 0] /\ nread = 0 /\ nwrite = 0 /\ readopen = 1 /\ writeopen = 1
      /\ ref = [read |-> Cardinality(Readers), write |-> Cardinality(Writers)]
      /\ fd = [p \in Procs |-> 1] /\ pc = [p \in Procs |-> "user"]
      /\ n = [p \in Procs |-> 0] /\ i = [p \in Procs |-> 0]
      /\ sent = <<>> /\ got = <<>> /\ abandoned = 0
  BY DEF Init, Pipealloc, Places
<1>2. Cardinality(Readers) \in Nat /\ Cardinality(Writers) \in Nat
  BY Zenon, HoldersEnd, FS_CardinalityType
<1>3. TypeOK
  <2>1. 0 \in Counter /\ 1 \in 0 .. NOFILE
    BY Sizes, PipeAssumption DEF Counter
  <2>. QED
    BY <1>1, <1>2, <2>1 DEF TypeOK
<1>4. InRing = 0
  BY SMTT(30), <1>1, <1>3, EmptyRing DEF Empty
<1>5. Ring
  BY <1>1, <1>4, Sizes DEF Ring
<1>6. ASSUME NEW end \in {"read", "write"} PROVE ref[end] = Cardinality(Descriptors(end))
  <2>. DEFINE H == Holders(end)
              D == Descriptors(end)
              f == [p \in H |-> <<p, 1>>]
  <2>1. D = {<<p, 1>> : p \in H}
    <3>1. \A q \in H : fd[q] = 1
      BY Zenon, <1>1 DEF Holders
    <3>2. \A k \in 1 .. NOFILE : k <= 1 <=> k = 1
      BY PipeAssumption
    <3>3. 1 \in 1 .. NOFILE
      BY PipeAssumption
    <3>4. D = {d \in H \X (1 .. NOFILE) : d[2] <= fd[d[1]]}
      BY DEF Descriptors
    <3>. HIDE DEF H, D
    <3>. QED
      BY SMTT(30), <3>1, <3>2, <3>3, <3>4
  <2>2. f \in Bijection(H, D)
    <3>. HIDE DEF H, D
    <3>1. f \in [H -> D] /\ \A a, b \in H : f[a] = f[b] => a = b
      BY <2>1
    <3>2. \A d \in D : \E a \in H : f[a] = d
      BY <2>1
    <3>. HIDE DEF f
    <3>. QED
      BY <3>1, <3>2 DEF Bijection, Injection, Surjection, IsInjective
  <2>3. IsFiniteSet(H) /\ Cardinality(H) = ref[end]
    BY <1>1, HoldersEnd
  <2>. HIDE DEF H, D, f
  <2>4. Cardinality(D) = Cardinality(H)
    BY SMTT(30), <2>2, <2>3, FS_Bijection DEF ExistsBijection
  <2>. QED
    BY <2>3, <2>4 DEF D
<1>7. Files
  BY <1>1, <1>6 DEF Files
<1>8. SleepsWithCause
  BY <1>1 DEF SleepsWithCause
<1>. QED
  BY <1>3, <1>5, <1>7, <1>8 DEF Inv

\* Every step keeps the invariant and is a step of the stream.
LEMMA Next_Inv == Inv /\ [Next]_vars => Inv' /\ Streams
<1>. SUFFICES ASSUME Inv, [Next]_vars PROVE Inv' /\ Streams
  OBVIOUS
<1>1. ASSUME NEW p \in Procs, InPipe(p) PROVE Inv' /\ Streams
  <2>1. CASE WriteReturns(p) \/ WriteSleeps(p) \/ WriteFails(p)
    <3>1. p \in Writers
      BY <2>1 DEF WriteReturns, WriteSleeps, WriteFails
    <3>. QED
      BY SMTT(30), <2>1, <3>1, WriteStep
  <2>2. CASE ReadReturns(p)
    <3>1. p \in Readers
      BY Zenon, <2>2 DEF ReadReturns
    <3>. QED
      BY SMTT(30), <2>2, <3>1, ReadStep
  <2>3. CASE ReadSleeps(p) \/ ReadFails(p)
    BY Zenon, <2>3, PcStep
  <2>. QED
    BY <1>1, <2>1, <2>2, <2>3 DEF InPipe
<1>2. CASE UNCHANGED vars
  <2>1. UNCHANGED <<data, nread, nwrite, readopen, writeopen, ref, fd, pc, n, i, sent, got, abandoned>>
    BY <1>2 DEF vars, pipeVars, fileVars, callVars
  <2>2. Files'
    <3>1. Files
      BY DEF Inv
    <3>. QED
      BY <2>1, <3>1, FilesKept DEF fileVars
  <2>. QED
    BY <2>1, <2>2 DEF Inv, TypeOK, Ring, SleepsWithCause, InRing, Empty, Streams
<1>. QED
  BY SMTT(30), <1>1, <1>2, PcStep, CountStep, PipecloseStep DEF Next

\* The invariant holds in every reachable state.
LEMMA Always == Spec => []Inv
<1>1. Inv /\ [Next]_vars => Inv'
  BY Next_Inv
<1>. QED
  BY <1>1, Init_Inv, PTL DEF Spec

-----------------------------------------------------------------------------
\* sleep() and wakeup() of pipe.c: for every PIPESIZE and number of processes a
\* writer sleeps only beside a full ring that can be read, a reader only beside
\* an empty one that can be written, or bytes left behind by a killed writer.
THEOREM NoPointlessSleep == Spec => []SleepsWithCause
<1>1. Inv => SleepsWithCause
  BY DEF Inv
<1>. QED
  BY <1>1, Always, PTL

\* pipewrite(), piperead(), pipeclose(): for every PIPESIZE and every width of
\* nread and nwrite that it divides, the pipe is a bounded stream: what is read
\* is what was written, in order and once.
THEOREM PipeIsStream == Spec => ImplementsStream
<1>1. Init => S!StreamInit
  BY DEF Init, Pipealloc, S!StreamInit
<1>2. Inv /\ [Next]_vars => [S!Put \/ S!Get \/ S!CloseRead \/ S!CloseWrite]_(S!svars)
  BY Next_Inv DEF Streams, S!svars
<1>. QED
  BY <1>1, <1>2, Always, PTL DEF Spec, ImplementsStream, S!StreamSpec
=============================================================================
