--------------------------- MODULE ConsoleProofs ----------------------------
(* The console for every INPUT_BUF, every width of its indices and every     *)
(* number of readers: it implements the line editor of Tty, no reader sleeps *)
(* beside input, and no modifier key sticks.                                 *)
EXTENDS Console, WellFoundedInduction, TLAPS

-----------------------------------------------------------------------------
(* Sequences and sets of numbers.                                            *)

\* A sequence is a function on an interval, and its elements have its type.
LEMMA SeqTyped ==
    ASSUME NEW S, NEW s \in Seq(S)
    PROVE  /\ Len(s) \in Nat /\ DOMAIN s = 1 .. Len(s) /\ s \in [1 .. Len(s) -> S]
           /\ \A i \in 1 .. Len(s) : s[i] \in S
           /\ (s = <<>>) <=> (Len(s) = 0)
  OBVIOUS

\* Two sequences are equal when they agree at every place.
LEMMA SeqSame ==
    ASSUME NEW S, NEW s \in Seq(S), NEW t \in Seq(S), Len(s) = Len(t),
           \A i \in 1 .. Len(s) : s[i] = t[i]
    PROVE  s = t
  OBVIOUS

\* Concatenation.
LEMMA SeqConcat ==
    ASSUME NEW S, NEW s \in Seq(S), NEW t \in Seq(S)
    PROVE  /\ s \o t \in Seq(S) /\ Len(s \o t) = Len(s) + Len(t)
           /\ \A i \in 1 .. Len(s) + Len(t) :
                 (s \o t)[i] = IF i <= Len(s) THEN s[i] ELSE t[i - Len(s)]
  OBVIOUS

\* A stretch of a sequence.
LEMMA SeqSub ==
    ASSUME NEW S, NEW s \in Seq(S), NEW m \in 1 .. Len(s) + 1, NEW n \in m - 1 .. Len(s)
    PROVE  /\ SubSeq(s, m, n) \in Seq(S) /\ Len(SubSeq(s, m, n)) = n - m + 1
           /\ \A i \in 1 .. n - m + 1 : SubSeq(s, m, n)[i] = s[m + i - 1]
  OBVIOUS

\* A set of naturals has a least element.
LEMMA LeastExists ==
    ASSUME NEW T, T \subseteq Nat, T # {} PROVE \E x \in T : \A y \in T : x <= y
<1>1. \A x, y \in Nat : x < y => <<x, y>> \in OpToRel(<, Nat)
  BY DEF OpToRel
<1>2. PICK x \in T : \A y \in T : ~(<<y, x>> \in OpToRel(<, Nat))
  BY ZenonT(60), WFMin, NatLessThanWellFounded
<1>3. ASSUME NEW y \in T PROVE x <= y
  <2>1. x \in Nat /\ y \in Nat
    OBVIOUS
  <2>2. ~(y < x)
    BY ZenonT(60), <1>1, <1>2, <2>1
  <2>. QED
    BY <2>1, <2>2
<1>. QED
  BY <1>3

\* A set of naturals with a bound has a greatest element.
LEMMA GreatestExists ==
    ASSUME NEW m \in Nat, NEW T, T \subseteq 0 .. m, T # {}
    PROVE  \E x \in T : \A y \in T : y <= x
<1>. DEFINE U == {z \in 0 .. m : m - z \in T}
<1>1. U \subseteq Nat /\ U # {}
  <2>1. PICK y \in T : TRUE
    BY ZenonT(60)
  <2>2. m - y \in 0 .. m /\ m - (m - y) = y
    OBVIOUS
  <2>3. m - y \in U
    BY <2>2
  <2>4. U \subseteq Nat
    OBVIOUS
  <2>. HIDE DEF U
  <2>. QED
    BY <2>3, <2>4
<1>2. PICK z \in U : \A y \in U : z <= y
  BY ZenonT(60), <1>1, LeastExists
<1>3. m - z \in T
  BY <1>2
<1>4. ASSUME NEW y \in T PROVE y <= m - z
  <2>1. y \in 0 .. m /\ m - y \in 0 .. m /\ m - (m - y) = y
    OBVIOUS
  <2>2. m - y \in U
    BY <2>1
  <2>3. z <= m - y /\ z \in 0 .. m
    BY <1>2, <2>2
  <2>. QED
    BY <2>1, <2>3
<1>. QED
  BY <1>3, <1>4

-----------------------------------------------------------------------------
(* Arithmetic of the ring: indices that run modulo N, which is larger than   *)
(* the ring, index a ring of B places, where B divides N.                    *)

\* Division with remainder.
LEMMA DivMod ==
    ASSUME NEW B \in Nat \ {0}, NEW x \in Int
    PROVE  x \div B \in Int /\ x % B \in 0 .. B - 1 /\ x = B * (x \div B) + (x % B)
  OBVIOUS

\* The remainder is the only one.
LEMMA ModUnique ==
    ASSUME NEW B \in Nat \ {0}, NEW q \in Int, NEW x \in 0 .. B - 1
    PROVE  (B * q + x) % B = x
  OBVIOUS

\* A multiple of B does not change the place in a ring of B.
LEMMA ModShift ==
    ASSUME NEW B \in Nat \ {0}, NEW q \in Int, NEW x \in Int
    PROVE  (B * q + x) % B = x % B
<1>1. x \div B \in Int /\ x % B \in 0 .. B - 1 /\ x = B * (x \div B) + (x % B)
  BY DivMod
<1>2. q + (x \div B) \in Int
  BY <1>1
<1>3. (B * (q + (x \div B)) + (x % B)) % B = x % B
  BY ZenonT(60), <1>1, <1>2, ModUnique
<1>4. B * (q + (x \div B)) + (x % B) = B * q + x
  BY <1>1
<1>. QED
  BY <1>3, <1>4

\* A counter may be reduced before or after it is advanced.
LEMMA ModAdd ==
    ASSUME NEW N \in Nat \ {0}, NEW x \in Int, NEW y \in Int
    PROVE  ((x % N) + y) % N = (x + y) % N
<1>1. x \div N \in Int /\ x % N \in 0 .. N - 1 /\ x = N * (x \div N) + (x % N)
  BY DivMod
<1>2. (x % N) + y \in Int
  BY <1>1
<1>3. (N * (x \div N) + ((x % N) + y)) % N = ((x % N) + y) % N
  BY ZenonT(60), <1>1, <1>2, ModShift
<1>4. N * (x \div N) + ((x % N) + y) = x + y
  BY <1>1
<1>. QED
  BY <1>3, <1>4

\* A counter modulo N, and what lies y ahead of it, indexes the ring as the
\* number it stands for does.
LEMMA ModOfMod ==
    ASSUME NEW B \in Nat \ {0}, NEW N \in Nat \ {0}, N % B = 0,
           NEW x \in Int, NEW y \in Int
    PROVE  ((x % N) + y) % B = (x + y) % B
<1>1. x \div N \in Int /\ x % N \in 0 .. N - 1 /\ x = N * (x \div N) + (x % N)
  BY DivMod
<1>2. N \div B \in Int /\ N = B * (N \div B)
  <2>1. N \div B \in Int /\ N = B * (N \div B) + (N % B)
    BY DivMod
  <2>. QED
    BY <2>1
<1>. DEFINE a == N \div B
            b == x \div N
            z == (x % N) + y
<1>3. a \in Int /\ b \in Int /\ z \in Int /\ a * b \in Int
  BY <1>1, <1>2
<1>4. (B * (a * b) + z) % B = z % B
  BY ZenonT(60), <1>3, ModShift
<1>5. B * (a * b) + z = x + y
  <2>1. x = (B * a) * b + (x % N)
    BY ZenonT(60), <1>1, <1>2
  <2>. DEFINE m == x % N
              t == (B * a) * b
  <2>. HIDE DEF a, b
  <2>2. x + y = t + z
    <3>1. t \in Int /\ m \in Int
      BY <1>1, <1>3
    <3>2. x = t + m
      BY <2>1
    <3>. HIDE DEF t, m
    <3>3. x + y = t + (m + y)
      BY <3>1, <3>2
    <3>. QED
      BY <3>3 DEF m
  <2>. HIDE DEF z
  <2>3. (B * a) * b = B * (a * b)
    BY <1>3
  <2>. QED
    BY <2>2, <2>3
<1>. QED
  BY ZenonT(60), <1>4, <1>5

\* Numbers less than B apart have different places in the ring.
LEMMA PlacesDiffer ==
    ASSUME NEW B \in Nat \ {0}, NEW x \in Int, NEW d \in 1 .. B - 1
    PROVE  (x + d) % B # x % B
<1>. SUFFICES ASSUME (x + d) % B = x % B PROVE FALSE
  OBVIOUS
<1>1. x \div B \in Int /\ x % B \in 0 .. B - 1 /\ x = B * (x \div B) + (x % B)
  BY DivMod
<1>2. (x + d) \div B \in Int /\ x + d = B * ((x + d) \div B) + ((x + d) % B)
  <2>1. x + d \in Int
    OBVIOUS
  <2>. QED
    BY <2>1, DivMod
<1>. DEFINE q == ((x + d) \div B) - (x \div B)
<1>3. q \in Int /\ d = B * q
  BY <1>1, <1>2
<1>. HIDE DEF q
<1>4. CASE q <= 0
  <2>1. B * q <= 0
    BY <1>3, <1>4
  <2>. QED
    BY <1>3, <2>1
<1>5. CASE q >= 1
  <2>1. B * q >= B
    BY <1>3, <1>5
  <2>. QED
    BY <1>3, <2>1
<1>. QED
  BY <1>3, <1>4, <1>5

\* The difference of a counter and the same counter advanced by k is k.
LEMMA DiffOfSum ==
    ASSUME NEW N \in Nat \ {0}, NEW a \in 0 .. N - 1, NEW k \in 0 .. N - 1
    PROVE  (a + k) % N \in 0 .. N - 1 /\ (((a + k) % N) + N - a) % N = k
<1>1. CASE a + k < N
  <2>1. (a + k) % N = a + k
    BY <1>1
  <2>2. (k + N) % N = k
    OBVIOUS
  <2>3. (a + k) + N - a = k + N
    OBVIOUS
  <2>. QED
    BY <1>1, <2>1, <2>2, <2>3
<1>2. CASE a + k >= N
  <2>1. (a + k) % N = a + k - N
    <3>1. a + k - N \in 0 .. N - 1
      BY <1>2
    <3>2. (N * 1 + (a + k - N)) % N = a + k - N
      BY <3>1, ModUnique
    <3>. QED
      BY <3>2
  <2>2. k % N = k
    OBVIOUS
  <2>3. (a + k - N) + N - a = k
    OBVIOUS
  <2>. QED
    BY <1>2, <2>1, <2>2, <2>3
<1>. QED
  BY <1>1, <1>2

\* A counter advanced by its difference to another one is that other one.
LEMMA SumOfDiff ==
    ASSUME NEW N \in Nat \ {0}, NEW a \in 0 .. N - 1, NEW b \in 0 .. N - 1
    PROVE  (b + N - a) % N \in 0 .. N - 1 /\ (a + ((b + N - a) % N)) % N = b
<1>1. CASE b >= a
  <2>1. (b + N - a) % N = b - a
    <3>1. b - a \in 0 .. N - 1
      BY <1>1
    <3>2. (N * 1 + (b - a)) % N = b - a
      BY <3>1, ModUnique
    <3>. QED
      BY <3>2
  <2>2. b % N = b
    OBVIOUS
  <2>. QED
    BY <1>1, <2>1, <2>2
<1>2. CASE b < a
  <2>1. (b + N - a) % N = b + N - a
    BY <1>2
  <2>2. (N * 1 + b) % N = b
    BY ModUnique
  <2>3. a + (b + N - a) = N * 1 + b
    OBVIOUS
  <2>. QED
    BY <1>2, <2>1, <2>2, <2>3
<1>. QED
  BY <1>1, <1>2

-----------------------------------------------------------------------------
(* The invariant.                                                            *)


Idx == 0 .. IndexWrap - 1
Typed == {"x", "NL", "^D"}

ConsoleTypeOK ==
    /\ buf \in [0 .. INPUT_BUF - 1 -> Typed \cup {"NO"}]
    /\ r \in Idx /\ w \in Idx /\ e \in Idx
    /\ rpc \in [Users -> {"user", "run", "sleep"}]
    /\ left \in [Users -> Nat]

-----------------------------------------------------------------------------
(* Distances between indices.                                                *)

\* The assumptions on the sizes, in the form the lemmas on rings take.
LEMMA ConsoleSizes ==
    /\ INPUT_BUF \in Nat \ {0} /\ IndexWrap \in Nat \ {0}
    /\ IndexWrap > INPUT_BUF /\ IndexWrap % INPUT_BUF = 0
  BY ConsoleAssumption

\* The distance from one index to another leads from the one to the other.
LEMMA UsedSpans ==
    ASSUME NEW a \in Idx, NEW b \in Idx
    PROVE  Used(a, b) \in Idx /\ (a + Used(a, b)) % IndexWrap = b
<1>1. IndexWrap \in Nat \ {0} /\ a \in 0 .. IndexWrap - 1 /\ b \in 0 .. IndexWrap - 1
  BY ConsoleSizes DEF Idx
<1>. QED
  BY <1>1, SumOfDiff, ZenonT(60) DEF Used, Idx

\* A distance is a natural number.
LEMMA UsedNat == ASSUME NEW a \in Idx, NEW b \in Idx PROVE Used(a, b) \in Nat
<1>1. Used(a, b) \in Idx
  BY UsedSpans
<1>. QED
  BY <1>1, ConsoleSizes DEF Idx

\* An index advanced by k is at distance k.
LEMMA UsedOfSum ==
    ASSUME NEW a \in Idx, NEW k \in Idx
    PROVE  (a + k) % IndexWrap \in Idx /\ Used(a, (a + k) % IndexWrap) = k
<1>1. IndexWrap \in Nat \ {0} /\ a \in 0 .. IndexWrap - 1 /\ k \in 0 .. IndexWrap - 1
  BY ConsoleSizes DEF Idx
<1>. QED
  BY <1>1, DiffOfSum, ZenonT(60) DEF Used, Idx

\* Distances add up as long as the sum is less than a turn.
LEMMA UsedAdds ==
    ASSUME NEW a \in Idx, NEW b \in Idx, NEW c \in Idx,
           Used(a, b) + Used(b, c) < IndexWrap
    PROVE  Used(a, c) = Used(a, b) + Used(b, c)
<1>. DEFINE u == Used(a, b)
            v == Used(b, c)
<1>1. u \in Idx /\ (a + u) % IndexWrap = b /\ v \in Idx /\ (b + v) % IndexWrap = c
  BY UsedSpans
<1>. HIDE DEF u, v
<1>2. a + u \in Int /\ v \in Int /\ IndexWrap \in Nat \ {0}
  BY <1>1, ConsoleSizes DEF Idx
<1>3. (((a + u) % IndexWrap) + v) % IndexWrap = (a + u + v) % IndexWrap
  BY <1>2, ModAdd
<1>4. (a + (u + v)) % IndexWrap = c
  BY SMTT(30), <1>1, <1>2, <1>3 DEF Idx
<1>5. u + v \in Idx
  BY SMTT(30), <1>1, ConsoleSizes DEF u, v, Idx
<1>. QED
  BY SMTT(30), <1>4, <1>5, UsedOfSum DEF u, v

\* An index that moves on, or back, by k of the places up to another.
LEMMA UsedAhead ==
    ASSUME NEW a \in Idx, NEW b \in Idx, NEW k \in 0 .. Used(a, b)
    PROVE  /\ (a + k) % IndexWrap \in Idx
           /\ Used(a, (a + k) % IndexWrap) = k
           /\ Used((a + k) % IndexWrap, b) = Used(a, b) - k
<1>. DEFINE u == Used(a, b)
            c == (a + k) % IndexWrap
<1>1. u \in Idx /\ (a + u) % IndexWrap = b
  BY UsedSpans
<1>2. k \in Idx /\ u - k \in Idx
  BY <1>1, ConsoleSizes DEF Idx
<1>3. c \in Idx /\ Used(a, c) = k
  BY <1>2, UsedOfSum
<1>4. (c + (u - k)) % IndexWrap = b
  <2>1. a + k \in Int /\ u - k \in Int /\ IndexWrap \in Nat \ {0}
    BY <1>2, ConsoleSizes DEF Idx
  <2>2. (c + (u - k)) % IndexWrap = (a + k + (u - k)) % IndexWrap
    BY <2>1, ModAdd
  <2>. HIDE DEF c, u
  <2>3. a + k + (u - k) = a + u
    BY <1>1, <1>2 DEF Idx
  <2>. QED
    BY <1>1, <2>2, <2>3
<1>5. Used(c, (c + (u - k)) % IndexWrap) = u - k
  BY ZenonT(60), <1>2, <1>3, UsedOfSum
<1>. QED
  BY SMTT(30), <1>3, <1>4, <1>5

\* An index moved back by k of its places is k nearer.
LEMMA UsedBehind ==
    ASSUME NEW a \in Idx, NEW b \in Idx, NEW k \in 0 .. Used(a, b)
    PROVE  /\ (b + IndexWrap - k) % IndexWrap \in Idx
           /\ Used(a, (b + IndexWrap - k) % IndexWrap) = Used(a, b) - k
<1>. DEFINE u == Used(a, b)
<1>1. u \in Idx /\ (a + u) % IndexWrap = b
  BY UsedSpans
<1>2. u - k \in Idx
  BY <1>1, ConsoleSizes DEF Idx
<1>. HIDE DEF u
<1>3. a + u \in Int /\ IndexWrap - k \in Int /\ IndexWrap \in Nat \ {0} /\ a + (u - k) \in Int
  BY <1>1, <1>2, ConsoleSizes DEF Idx, u
<1>4. (b + (IndexWrap - k)) % IndexWrap = (a + u + (IndexWrap - k)) % IndexWrap
  BY ZenonT(60), <1>1, <1>3, ModAdd
<1>5. a + u + (IndexWrap - k) = IndexWrap * 1 + (a + (u - k))
  BY <1>3, <1>1, <1>2, ConsoleSizes DEF Idx
<1>6. (IndexWrap * 1 + (a + (u - k))) % IndexWrap = (a + (u - k)) % IndexWrap
  <2>1. 1 \in Int
    OBVIOUS
  <2>. QED
    BY <1>3, <2>1, ModShift, ZenonT(60)
<1>7. b + IndexWrap - k = b + (IndexWrap - k)
  BY <1>3 DEF Idx
<1>8. (b + IndexWrap - k) % IndexWrap = (a + (u - k)) % IndexWrap
  BY <1>4, <1>5, <1>6, <1>7
<1>. QED
  BY SMTT(30), <1>2, <1>8, UsedOfSum DEF u

-----------------------------------------------------------------------------
(* Stretches of the ring as sequences.                                       *)

Span(f, a, k) == [j \in 1 .. k |-> f[(a + j - 1) % INPUT_BUF]]

\* The sequence of characters between two indices is a stretch of the ring.
LEMMA SliceIsSpan == ASSUME NEW a, NEW b PROVE Slice(a, b) = Span(buf, a, Used(a, b))
  BY DEF Slice, Span

\* A stretch is a sequence of as many elements as it is long.
LEMMA SpanType ==
    ASSUME NEW Elems, NEW f \in [0 .. INPUT_BUF - 1 -> Elems], NEW a \in Idx, NEW k \in Nat
    PROVE  Span(f, a, k) \in Seq(Elems) /\ Len(Span(f, a, k)) = k
<1>1. ASSUME NEW j \in 1 .. k PROVE f[(a + j - 1) % INPUT_BUF] \in Elems
  <2>1. a + j - 1 \in Int /\ INPUT_BUF \in Nat \ {0}
    BY ConsoleSizes DEF Idx
  <2>2. (a + j - 1) % INPUT_BUF \in 0 .. INPUT_BUF - 1
    BY ZenonT(60), <2>1, DivMod
  <2>. QED
    BY <2>2
<1>2. Span(f, a, k) \in [1 .. k -> Elems]
  BY Zenon, <1>1 DEF Span
<1>. QED
  BY <1>2

\* Writing past a stretch that is shorter than the ring does not change it.
LEMMA SpanUntouched ==
    ASSUME NEW f, NEW g, NEW a \in Idx, NEW m \in 0 .. INPUT_BUF - 1, NEW k \in 0 .. m,
           \A x \in 0 .. INPUT_BUF - 1 : x # (a + m) % INPUT_BUF => g[x] = f[x]
    PROVE  Span(g, a, k) = Span(f, a, k)
<1>0. INPUT_BUF \in Nat \ {0}
  BY ConsoleSizes
<1>1. ASSUME NEW j \in 1 .. k
      PROVE  g[(a + j - 1) % INPUT_BUF] = f[(a + j - 1) % INPUT_BUF]
  <2>. DEFINE x == a + j - 1
              d == m - j + 1
  <2>1. x \in Int /\ d \in 1 .. INPUT_BUF - 1 /\ x + d = a + m
    BY SMTT(30), <1>0 DEF Idx
  <2>. HIDE DEF x, d
  <2>2. x % INPUT_BUF \in 0 .. INPUT_BUF - 1
    BY <1>0, <2>1, DivMod
  <2>3. (x + d) % INPUT_BUF # x % INPUT_BUF
    BY ZenonT(60), <1>0, <2>1, PlacesDiffer
  <2>4. g[x % INPUT_BUF] = f[x % INPUT_BUF]
    BY SMTT(30), <2>1, <2>2, <2>3
  <2>. QED
    BY SMTT(30), <2>4 DEF x
<1>. QED
  BY <1>1 DEF Span

\* A stretch is the one up to any place in it followed by the rest.
LEMMA SpanSplit ==
    ASSUME NEW Elems, NEW f \in [0 .. INPUT_BUF - 1 -> Elems], NEW a \in Idx, NEW k \in Nat, NEW m \in Nat
    PROVE  Span(f, a, k + m) = Span(f, a, k) \o Span(f, (a + k) % IndexWrap, m)
<1>. DEFINE b == (a + k) % IndexWrap
            p == Span(f, a, k)
            q == Span(f, b, m)
<1>0. INPUT_BUF \in Nat \ {0} /\ IndexWrap \in Nat \ {0} /\ IndexWrap % INPUT_BUF = 0
  BY ConsoleSizes
<1>1. b \in Idx
  <2>1. a + k \in Int
    BY DEF Idx
  <2>. QED
    BY <1>0, <2>1, DivMod, ZenonT(60) DEF Idx
<1>2. p \in Seq(Elems) /\ Len(p) = k /\ q \in Seq(Elems) /\ Len(q) = m
  BY <1>1, SpanType
<1>3. ASSUME NEW j \in 1 .. k + m PROVE f[(a + j - 1) % INPUT_BUF] = (p \o q)[j]
  <2>1. CASE j <= k
    <3>1. p[j] = f[(a + j - 1) % INPUT_BUF]
      BY <2>1 DEF Span
    <3>. HIDE DEF p, q
    <3>2. (p \o q)[j] = p[j]
      BY SMTT(30), <1>2, <2>1
    <3>. QED
      BY <3>1, <3>2
  <2>2. CASE j > k
    <3>. DEFINE pos == j - k
    <3>1. pos \in 1 .. m
      BY <2>2
    <3>2. q[pos] = f[(b + pos - 1) % INPUT_BUF]
      BY <3>1 DEF Span
    <3>3. (b + (pos - 1)) % INPUT_BUF = (a + k + (pos - 1)) % INPUT_BUF
      <4>. DEFINE y == pos - 1
      <4>1. a + k \in Int /\ y \in Int
        BY DEF Idx
      <4>. HIDE DEF y
      <4>2. (((a + k) % IndexWrap) + y) % INPUT_BUF = (a + k + y) % INPUT_BUF
        BY <1>0, <4>1, ModOfMod, ZenonT(60)
      <4>. QED
        BY <4>2 DEF y
    <3>4. a + k + (pos - 1) = a + j - 1 /\ b + pos - 1 = b + (pos - 1)
      BY <1>1 DEF Idx
    <3>5. q[pos] = f[(a + j - 1) % INPUT_BUF]
      BY Zenon, <3>2, <3>3, <3>4
    <3>. HIDE DEF p, q, b
    <3>6. (p \o q)[j] = q[pos]
      <4>1. j \in 1 .. Len(p) + Len(q) /\ ~(j <= Len(p)) /\ j - Len(p) = pos
        BY <1>2, <2>2
      <4>. HIDE DEF pos
      <4>2. (p \o q)[j] = q[j - Len(p)]
        BY ZenonT(60), <1>2, <4>1, SeqConcat
      <4>. QED
        BY <4>1, <4>2
    <3>. QED
      BY <3>5, <3>6
  <2>3. j <= k \/ j > k
    OBVIOUS
  <2>. QED
    BY <2>1, <2>2, <2>3, ZenonT(60)
<1>4. p \o q \in Seq(Elems) /\ Len(p \o q) = k + m
  <2>. HIDE DEF p, q
  <2>. QED
    BY <1>2
<1>. HIDE DEF p, q
<1>5. p \o q = [j \in 1 .. k + m |-> (p \o q)[j]]
  BY ZenonT(60), <1>4, SeqTyped
<1>6. Span(f, a, k + m) = p \o q
  BY SMTT(30), <1>3, <1>5 DEF Span
<1>. QED
  BY <1>6 DEF p, q

-----------------------------------------------------------------------------
(* What a step does to the ring.                                             *)

Chars == {"x", "NL", "CR", "^D", "^H", "^P", "^U", "DEL", "NO"}

CharStored(c) ==
    /\ Used(r, e) < INPUT_BUF
    /\ buf' = [buf EXCEPT ![e % INPUT_BUF] = c]
    /\ e' = (e + 1) % IndexWrap /\ r' = r
    /\ IF c \in {"NL", "^D"} \/ (e + 1) % IndexWrap = (r + INPUT_BUF) % IndexWrap
       THEN w' = (e + 1) % IndexWrap /\ Wakeup
       ELSE UNCHANGED <<w, rpc>>

Erased(k) ==
    /\ e' = (e + IndexWrap - k) % IndexWrap
    /\ UNCHANGED <<buf, r, w, rpc>>

Taken(k) ==
    /\ r' = (r + k) % IndexWrap
    /\ \A j \in 1 .. k - 1 : Slice(r, w)[j] \notin {"NL", "^D"}
    /\ UNCHANGED <<buf, w, e>>

\* consoleintr() stores a character, erases some of the last line or does
\* nothing to the ring.
LEMMA IntrEffect ==
    ASSUME ConsoleTypeOK, NEW c \in Chars, consoleintr(c)
    PROVE  \/ UNCHANGED <<ring, rpc>>
           \/ \E k \in 0 .. Used(w, e) : Erased(k)
           \/ \E ch \in Typed : CharStored(ch)
<1>0. Used(w, e) \in Nat
  BY UsedNat DEF ConsoleTypeOK
<1>1. CASE c = "^P"
  BY <1>1 DEF consoleintr
<1>2. CASE c = "^U"
  <2>. DEFINE erasable == {k \in 0 .. Used(w, e) :
                   \A j \in 1 .. k : buf[(e + IndexWrap - j) % INPUT_BUF] # "NL"}
              m == CHOOSE x \in erasable : \A j \in erasable : j <= x
  <2>1. 0 \in erasable
    BY <1>0
  <2>2. erasable \subseteq 0 .. Used(w, e)
    OBVIOUS
  <2>3. KillLine /\ UNCHANGED <<buf, r, w, rpc>>
    BY Zenon, <1>2 DEF consoleintr
  <2>4. e' = (e + IndexWrap - m) % IndexWrap
    BY Zenon, <2>3 DEF KillLine
  <2>. HIDE DEF erasable
  <2>5. \E x \in erasable : \A j \in erasable : j <= x
    BY ZenonT(60), <1>0, <2>1, <2>2, GreatestExists
  <2>6. m \in erasable
    BY <2>5
  <2>. HIDE DEF m
  <2>. QED
    BY SMTT(30), <2>2, <2>3, <2>4, <2>6 DEF Erased
<1>3. CASE c \in {"^H", "DEL"}
  <2>1. /\ e' = IF e # w THEN (e + IndexWrap - 1) % IndexWrap ELSE e
        /\ UNCHANGED <<buf, r, w, rpc>>
    BY SMTT(30), <1>3 DEF consoleintr
  <2>2. CASE e = w
    BY SMTT(30), <2>1, <2>2 DEF ring
  <2>3. CASE e # w
    <3>1. Used(w, e) # 0
      <4>1. SUFFICES ASSUME Used(w, e) = 0 PROVE FALSE
        BY Zenon
      <4>2. (w + 0) % IndexWrap = e
        BY SMTT(30), <4>1, UsedSpans DEF ConsoleTypeOK
      <4>3. (w + 0) % IndexWrap = w
        BY ConsoleSizes DEF ConsoleTypeOK, Idx
      <4>. QED
        BY SMTT(30), <2>3, <4>2, <4>3
    <3>2. 1 \in 0 .. Used(w, e)
      BY SMTT(30), <1>0, <3>1
    <3>. QED
      BY SMTT(30), <2>1, <2>3, <3>2 DEF Erased
  <2>. QED
    BY <2>2, <2>3
<1>4. CASE c \in {"x", "NL", "CR", "^D", "NO"}
  <2>. DEFINE ch == IF c = "CR" THEN "NL" ELSE c
  <2>1. StoreChar(c)
    BY Zenon, <1>4 DEF consoleintr
  <2>2. CASE c # "NO" /\ Used(r, e) < INPUT_BUF
    <3>1. ch \in Typed
      BY SMTT(30), <1>4, <2>2 DEF Typed
    <3>2. CharStored(ch)
      BY SMTT(30), <2>1, <2>2 DEF StoreChar, CharStored
    <3>. QED
      BY Zenon, <3>1, <3>2
  <2>3. CASE ~(c # "NO" /\ Used(r, e) < INPUT_BUF)
    BY SMTT(30), <2>1, <2>3 DEF StoreChar
  <2>. QED
    BY Zenon, <2>2, <2>3
<1>. QED
  BY SMTT(30), <1>1, <1>2, <1>3, <1>4 DEF Chars

\* The length of the run that consoleread() takes, and that it stops for a
\* reason.
LEMMA TakesGreatest ==
    ASSUME ConsoleTypeOK, NEW p \in Users
    PROVE  LET line == Slice(r, w)
               ok == {k \in 0 .. Len(line) : /\ k <= left[p]
                                             /\ \A j \in 1 .. k : line[j] # "^D"
                                             /\ \A j \in 1 .. k - 1 : line[j] # "NL"}
           IN  /\ Len(line) \in Nat
               /\ Takes(p) \in ok
               /\ \A j \in ok : j <= Takes(p)
<1>. DEFINE line == Slice(r, w)
            ok == {k \in 0 .. Len(line) : /\ k <= left[p]
                                          /\ \A j \in 1 .. k : line[j] # "^D"
                                          /\ \A j \in 1 .. k - 1 : line[j] # "NL"}
<1>1. Len(line) = Used(r, w) /\ Used(r, w) \in Nat
  <2>1. Used(r, w) \in Nat
    BY UsedNat DEF ConsoleTypeOK
  <2>. QED
    BY ZenonT(60), <2>1, SliceIsSpan, SpanType DEF ConsoleTypeOK
<1>2. Takes(p) = CHOOSE x \in ok : \A j \in ok : j <= x
  BY Zenon DEF Takes
<1>. HIDE DEF line
<1>3. 0 \in ok
  BY <1>1 DEF ConsoleTypeOK
<1>4. ok \subseteq 0 .. Len(line)
  OBVIOUS
<1>. HIDE DEF ok
<1>5. \E x \in ok : \A j \in ok : j <= x
  BY ZenonT(60), <1>1, <1>3, <1>4, GreatestExists
<1>6. Takes(p) \in ok /\ \A j \in ok : j <= Takes(p)
  BY Zenon, <1>2, <1>5
<1>. QED
  BY <1>1, <1>6 DEF ok, line

\* consoleread() takes a run that does not go past the end of a line, and all
\* there is when it goes to sleep.
LEMMA RunEffect ==
    ASSUME ConsoleTypeOK, NEW p \in Users, ReadRun(p)
    PROVE  /\ \E k \in 0 .. Used(r, w) :
                 Taken(k) /\ (rpc'[p] = "sleep" => k = Used(r, w) /\ p \notin condemned)
           /\ left' \in [Users -> Nat]
           /\ rpc' \in [Users -> {"user", "run", "sleep"}]
           /\ \A q \in Users \ {p} : rpc'[q] = rpc[q]
<1>. DEFINE line == Slice(r, w)
            ok == {k \in 0 .. Len(line) : /\ k <= left[p]
                                          /\ \A j \in 1 .. k : line[j] # "^D"
                                          /\ \A j \in 1 .. k - 1 : line[j] # "NL"}
            k == Takes(p)
            eof == k < Len(line) /\ k < left[p] /\ line[k + 1] = "^D"
                     /\ (k = 0 \/ line[k] # "NL")
            taken == IF eof /\ took[p] + k = 0 THEN 1 ELSE k
            done == eof \/ k = left[p] \/ (k > 0 /\ line[k] = "NL")
<1>1. Len(line) \in Nat /\ k \in ok /\ \A j \in ok : j <= k
  BY TakesGreatest
<1>2. Len(line) = Used(r, w)
  <2>1. Used(r, w) \in Nat
    BY UsedNat DEF ConsoleTypeOK
  <2>. QED
    BY ZenonT(60), <2>1, SliceIsSpan, SpanType DEF ConsoleTypeOK
<1>3. /\ r' = (r + taken) % IndexWrap
      /\ IF done \/ p \in condemned
         THEN Leave(p)
         ELSE /\ rpc' = [rpc EXCEPT ![p] = "sleep"]
              /\ left' = [left EXCEPT ![p] = @ - k]
      /\ UNCHANGED <<buf, w, e>>
  BY Zenon DEF ReadRun
<1>4. left \in [Users -> Nat] /\ rpc \in [Users -> {"user", "run", "sleep"}]
  BY Zenon DEF ConsoleTypeOK
<1>. HIDE DEF line, k
<1>5. /\ k \in 0 .. Len(line) /\ k <= left[p]
      /\ \A j \in 1 .. k : line[j] # "^D"
      /\ \A j \in 1 .. k - 1 : line[j] # "NL"
  BY ZenonT(30), <1>1
<1>6. taken \in 0 .. Used(r, w) /\ \A j \in 1 .. taken - 1 : line[j] \notin {"NL", "^D"}
  <2>1. CASE eof /\ took[p] + k = 0
    <3>1. taken = 1 /\ k < Len(line) /\ k \in 0 .. Len(line)
      BY Zenon, <1>5, <2>1
    <3>. HIDE DEF taken
    <3>2. taken \in 0 .. Len(line) /\ \A j \in 1 .. taken - 1 : FALSE
      BY <1>1, <3>1
    <3>. QED
      BY Zenon, <1>2, <3>2
  <2>2. CASE ~(eof /\ took[p] + k = 0)
    <3>1. taken = k
      BY Zenon, <2>2
    <3>. HIDE DEF taken
    <3>. QED
      BY SMTT(30), <1>1, <1>2, <1>5, <3>1
  <2>. QED
    BY ZenonT(60), <2>1, <2>2
<1>7. ASSUME ~done PROVE taken = Used(r, w)
  <2>1. taken = k
    BY ZenonT(30), <1>7
  <2>2. SUFFICES ASSUME k < Len(line) PROVE FALSE
    BY SMTT(30), <1>1, <1>2, <1>5, <2>1
  <2>3. k + 1 \in 0 .. Len(line) /\ k + 1 <= left[p]
    BY SMTT(30), <1>1, <1>4, <1>5, <1>7, <2>2
  <2>4. line[k + 1] # "^D"
    BY SMTT(30), <1>1, <1>4, <1>5, <1>7, <2>2
  <2>5. \A j \in 1 .. k : line[j] # "NL"
    BY SMTT(30), <1>1, <1>5, <1>7
  <2>6. \A j \in 1 .. k + 1 : line[j] # "^D"
    BY SMTT(30), <1>1, <1>5, <2>4
  <2>7. k + 1 \in ok
    BY SMTT(30), <2>3, <2>5, <2>6, <1>1
  <2>8. k \in Nat
    BY SMTT(30), <1>1
  <2>. HIDE DEF ok
  <2>. QED
    BY SMTT(30), <1>1, <2>7, <2>8
<1>8. rpc'[p] = "sleep" => taken = Used(r, w) /\ p \notin condemned
  <2>1. CASE done \/ p \in condemned
    BY ZenonT(30), <1>3, <1>4, <2>1 DEF Leave
  <2>2. CASE ~(done \/ p \in condemned)
    BY ZenonT(30), <1>7, <2>2
  <2>. QED
    BY Zenon, <2>1, <2>2
<1>9. Taken(taken)
  <2>. HIDE DEF taken
  <2>. QED
    BY <1>3, <1>6 DEF Taken, line
<1>10. left' \in [Users -> Nat]
  <2>. HIDE DEF done
  <2>1. CASE done \/ p \in condemned
    BY SMTT(30), <1>3, <1>4, <2>1 DEF Leave
  <2>2. CASE ~(done \/ p \in condemned)
    <3>1. left[p] - k \in Nat
      BY SMTT(30), <1>1, <1>4, <1>5
    <3>. QED
      BY Zenon, <1>3, <1>4, <2>2, <3>1
  <2>. QED
    BY SMTT(30), <2>1, <2>2
<1>11. /\ rpc' \in [Users -> {"user", "run", "sleep"}]
       /\ \A q \in Users \ {p} : rpc'[q] = rpc[q]
  <2>. HIDE DEF done
  <2>. QED
    BY Zenon, <1>3, <1>4 DEF Leave
<1>. HIDE DEF taken
<1>. QED
  BY ZenonT(30), <1>6, <1>8, <1>9, <1>10, <1>11

-----------------------------------------------------------------------------
(* The invariant.                                                            *)

Fits == Used(r, w) + Used(w, e) <= INPUT_BUF

RingInv == ConsoleTypeOK /\ Fits /\ ReadersSleepForInput

KeyInv ==
    /\ escaped \in {0, 1} /\ (escaped = 1 <=> "E0ESC" \in shift)
    /\ NoStuckModifier

\* From r to e the ring holds the finished lines and then the one being typed.
LEMMA Total ==
    ASSUME ConsoleTypeOK, Fits PROVE Used(r, e) = Used(r, w) + Used(w, e)
<1>1. r \in Idx /\ w \in Idx /\ e \in Idx
  BY Zenon DEF ConsoleTypeOK
<1>2. Used(r, w) + Used(w, e) < IndexWrap
  BY SMTT(30), <1>1, UsedNat, ConsoleSizes DEF Fits
<1>. QED
  BY SMTT(30), <1>1, <1>2, UsedAdds

\* Erasing keeps the indices in order.
LEMMA ErasedFits ==
    ASSUME RingInv, NEW k \in 0 .. Used(w, e), Erased(k), left' = left, condemned' = condemned
    PROVE  RingInv'
<1>1. r \in Idx /\ w \in Idx /\ e \in Idx /\ Used(w, e) \in Nat /\ Used(r, w) \in Nat
  BY Zenon, UsedNat DEF RingInv, ConsoleTypeOK
<1>2. e' \in Idx /\ Used(w, e') = Used(w, e) - k
  BY SMTT(30), <1>1, UsedBehind DEF Erased
<1>3. ConsoleTypeOK'
  BY Zenon, <1>2 DEF RingInv, ConsoleTypeOK, Erased
<1>4. Used(r', w') + Used(w', e') <= INPUT_BUF
  BY SMTT(30), <1>1, <1>2, ConsoleSizes DEF RingInv, Fits, Erased
<1>5. Fits'
  BY <1>4 DEF Fits, Used
<1>6. ReadersSleepForInput'
  BY DEF RingInv, ReadersSleepForInput, Erased
<1>. QED
  BY SMTT(30), <1>3, <1>5, <1>6 DEF RingInv

\* An index is at distance 0 from itself.
LEMMA UsedSelf == ASSUME NEW a \in Idx PROVE Used(a, a) = 0
<1>1. 0 \in Idx /\ (a + 0) % IndexWrap = a
  BY SMTT(30), ConsoleSizes DEF Idx
<1>. QED
  BY <1>1, UsedOfSum

\* The next index is at distance 1.
LEMMA UsedNext ==
    ASSUME NEW a \in Idx, NEW b \in Idx, Used(a, b) < INPUT_BUF
    PROVE  /\ (b + 1) % IndexWrap \in Idx
           /\ Used(a, (b + 1) % IndexWrap) = Used(a, b) + 1
<1>1. 1 \in Idx /\ Used(a, b) \in Nat
  BY SMTT(30), ConsoleSizes, UsedNat DEF Idx
<1>2. (b + 1) % IndexWrap \in Idx /\ Used(b, (b + 1) % IndexWrap) = 1
  BY Zenon, <1>1, UsedOfSum
<1>3. Used(a, b) + Used(b, (b + 1) % IndexWrap) < IndexWrap
  BY SMTT(30), <1>1, <1>2, ConsoleSizes
<1>. QED
  BY SMTT(30), <1>2, <1>3, UsedAdds

\* A stored character keeps the indices in order.
LEMMA StoredFits ==
    ASSUME RingInv, NEW c \in Typed, CharStored(c), left' = left, condemned' = condemned
    PROVE  RingInv'
<1>1. /\ r \in Idx /\ w \in Idx /\ e \in Idx
      /\ Used(w, e) \in Nat /\ Used(r, w) \in Nat
      /\ Used(r, e) = Used(r, w) + Used(w, e)
  BY Zenon, UsedNat, Total DEF RingInv, ConsoleTypeOK
<1>2. e' \in Idx /\ Used(r, e') = Used(r, e) + 1 /\ Used(w, e') = Used(w, e) + 1
  <2>1. Used(r, e) < INPUT_BUF /\ Used(w, e) < INPUT_BUF /\ e' = (e + 1) % IndexWrap
    BY <1>1, ConsoleSizes DEF CharStored
  <2>. QED
    BY SMTT(30), <1>1, <2>1, UsedNext
<1>3. buf' \in [0 .. INPUT_BUF - 1 -> Typed \cup {"NO"}]
  BY ZenonT(60) DEF RingInv, ConsoleTypeOK, CharStored
<1>4. CASE w' = e' /\ Wakeup
  <2>1. ConsoleTypeOK'
    BY SMTT(30), <1>1, <1>2, <1>3, <1>4 DEF RingInv, ConsoleTypeOK, CharStored, Wakeup
  <2>2. Used(w', e') = 0
    BY ZenonT(30), <1>2, <1>4, UsedSelf
  <2>3. Used(r', w') + Used(w', e') <= INPUT_BUF
    BY SMTT(30), <1>1, <1>2, <1>4, <2>2, ConsoleSizes DEF CharStored
  <2>4. Fits'
    BY <2>3 DEF Fits, Used
  <2>5. ReadersSleepForInput'
    BY ZenonT(30), <1>4 DEF ReadersSleepForInput, Wakeup
  <2>. QED
    BY ZenonT(30), <2>1, <2>4, <2>5 DEF RingInv
<1>5. CASE w' = w /\ rpc' = rpc
  <2>1. ConsoleTypeOK'
    BY ZenonT(30), <1>1, <1>2, <1>3, <1>5 DEF RingInv, ConsoleTypeOK, CharStored
  <2>2. Used(r', w') + Used(w', e') <= INPUT_BUF
    BY SMTT(30), <1>1, <1>2, <1>5, ConsoleSizes DEF CharStored
  <2>3. Fits'
    BY <2>2 DEF Fits, Used
  <2>4. ReadersSleepForInput'
    BY <1>5 DEF RingInv, ReadersSleepForInput, CharStored
  <2>. QED
    BY <2>1, <2>3, <2>4 DEF RingInv
<1>. QED
  BY SMTT(30), <1>4, <1>5 DEF CharStored

\* Taking characters keeps the indices in order.
LEMMA RunFits ==
    ASSUME RingInv, NEW p \in Users, ReadRun(p) PROVE RingInv'
<1>1. /\ r \in Idx /\ w \in Idx /\ e \in Idx
      /\ Used(w, e) \in Nat /\ Used(r, w) \in Nat
  BY Zenon, UsedNat DEF RingInv, ConsoleTypeOK
<1>2. PICK k \in 0 .. Used(r, w) :
        Taken(k) /\ (rpc'[p] = "sleep" => k = Used(r, w) /\ p \notin condemned)
  BY SMTT(30), RunEffect DEF RingInv
<1>3. /\ left' \in [Users -> Nat] /\ rpc' \in [Users -> {"user", "run", "sleep"}]
      /\ \A q \in Users \ {p} : rpc'[q] = rpc[q]
  BY Zenon, RunEffect DEF RingInv
<1>4. r' \in Idx /\ Used(r', w) = Used(r, w) - k
  BY SMTT(30), <1>1, <1>2, UsedAhead DEF Taken
<1>5. ConsoleTypeOK'
  BY SMTT(30), <1>2, <1>3, <1>4 DEF RingInv, ConsoleTypeOK, Taken
<1>6. Used(r', w') + Used(w', e') <= INPUT_BUF
  BY SMTT(30), <1>1, <1>2, <1>4, ConsoleSizes DEF RingInv, Fits, Taken
<1>7. Fits'
  BY Zenon, <1>6 DEF Fits, Used
<1>8. condemned' = condemned
  BY DEF ReadRun
<1>9. ASSUME NEW q \in Users, rpc'[q] = "sleep" PROVE r' = w' /\ q \notin condemned'
  <2>1. CASE q = p
    <3>1. k = Used(r, w) /\ p \notin condemned
      BY SMTT(30), <1>2, <1>9, <2>1
    <3>2. (r + Used(r, w)) % IndexWrap = w
      BY SMTT(30), <1>1, UsedSpans
    <3>. QED
      BY SMTT(30), <1>2, <1>8, <2>1, <3>1, <3>2 DEF Taken
  <2>2. CASE q # p
    <3>1. r = w /\ q \notin condemned
      BY SMTT(30), <1>3, <1>9, <2>2 DEF RingInv, ReadersSleepForInput
    <3>2. k = 0
      BY SMTT(30), <1>1, <3>1, UsedSelf
    <3>3. (r + 0) % IndexWrap = r
      BY SMTT(30), <1>1, ConsoleSizes DEF Idx
    <3>. QED
      BY SMTT(30), <1>2, <1>8, <3>1, <3>2, <3>3 DEF Taken
  <2>. QED
    BY SMTT(30), <2>1, <2>2
<1>10. ReadersSleepForInput'
  BY <1>9 DEF ReadersSleepForInput
<1>. QED
  BY SMTT(30), <1>5, <1>7, <1>10 DEF RingInv

\* What kbdgetc() returns is a character or nothing.
LEMMA KeyChar ==
    ASSUME NEW key \in Keys \cup ExtKeys, NEW up \in {0, 1} PROVE kbdgetc(key, up).c \in Chars
<1>. DEFINE ext == IF "E0ESC" \in shift THEN 1 ELSE 0
            mods == (shift \ {"E0ESC"}) \cup shiftcode(<<key, ext>>)
<1>1. key \in {"ctl", "shift", "d", "h", "p", "u", "enter"}
  BY Zenon, ConsoleAssumption
<1>2. charcode(mods, <<key, ext>>) \in Chars
  <2>. HIDE DEF mods, ext
  <2>1. key \notin {"ctl", "shift"} => ctlmap[key] \in Chars
    BY SMTT(30), <1>1 DEF ctlmap, Chars
  <2>. QED
    BY ZenonT(30), <1>1, <2>1 DEF charcode, Chars
<1>3. CASE up = 1
  BY Zenon, <1>3 DEF kbdgetc, Chars
<1>4. CASE up = 0
  BY <1>2, <1>4 DEF kbdgetc
<1>. QED
  BY SMTT(30), <1>3, <1>4

\* The keyboard: a modifier that kbdgetc() applies is one that is held.
LEMMA KeyStep ==
    ASSUME KeyInv, NEW key \in Keys \cup ExtKeys, NEW up \in {0, 1}, Kbdintr(key, up)
    PROVE  KeyInv'
<1>. DEFINE ext == IF "E0ESC" \in shift THEN 1 ELSE 0
            dat == <<key, ext>>
<1>1. ext = escaped
  BY Zenon DEF KeyInv
<1>2. shift' = IF up = 1 THEN shift \ (shiftcode(dat) \cup {"E0ESC"})
               ELSE (shift \ {"E0ESC"}) \cup shiftcode(dat)
  BY Zenon DEF Kbdintr, kbdgetc
<1>3. held' = IF up = 1 THEN held \ {dat}
              ELSE IF key \in {"ctl", "shift"} THEN held \cup {dat} ELSE held
  BY <1>1 DEF Kbdintr
<1>4. dat[1] = key
  OBVIOUS
<1>. HIDE DEF ext, dat
<1>5. shiftcode(dat) \subseteq {"CTL", "SHIFT"}
  BY Zenon DEF shiftcode
<1>6. escaped' = 0 /\ "E0ESC" \notin shift'
  BY SMTT(30), <1>2, <1>5 DEF Kbdintr
<1>7. ASSUME NEW m \in {"CTL", "SHIFT"}, m \in shift'
      PROVE  \E h \in held' : m \in shiftcode(h)
  <2>1. CASE up = 1
    <3>1. m \in shift /\ m \notin shiftcode(dat)
      BY SMTT(30), <1>2, <1>7, <2>1
    <3>2. PICK h \in held : m \in shiftcode(h)
      BY SMTT(30), <3>1 DEF KeyInv, NoStuckModifier
    <3>. QED
      BY SMTT(30), <1>3, <2>1, <3>1, <3>2
  <2>2. CASE up = 0 /\ m \in shiftcode(dat)
    <3>1. key \in {"ctl", "shift"}
      BY Zenon, <1>4, <2>2 DEF shiftcode, dat
    <3>. QED
      BY SMTT(30), <1>3, <2>2, <3>1
  <2>3. CASE up = 0 /\ m \notin shiftcode(dat)
    <3>1. m \in shift
      BY SMTT(30), <1>2, <1>7, <2>3
    <3>2. PICK h \in held : m \in shiftcode(h)
      BY SMTT(30), <3>1 DEF KeyInv, NoStuckModifier
    <3>. QED
      BY SMTT(30), <1>3, <2>3, <3>2
  <2>. QED
    BY SMTT(30), <2>1, <2>2, <2>3
<1>8. NoStuckModifier'
  <2>1. \A m \in {"CTL", "SHIFT"} : m \in shift' => \E h \in held' : m \in shiftcode(h)
    BY <1>7
  <2>. QED
    BY SMTT(30), <2>1 DEF NoStuckModifier, shiftcode
<1>. QED
  BY <1>6, <1>8 DEF KeyInv

\* The empty ring, with no key held and nobody reading.
LEMMA ConsoleInit_Inv == ConsoleInit => RingInv /\ KeyInv
<1>. SUFFICES ASSUME ConsoleInit PROVE RingInv /\ KeyInv
  OBVIOUS
<1>1. 0 \in Idx
  BY SMTT(30), ConsoleSizes DEF Idx
<1>2. ConsoleTypeOK
  BY <1>1 DEF ConsoleInit, ConsoleTypeOK
<1>3. Used(0, 0) = 0
  BY SMTT(30), <1>1, UsedSelf
<1>4. Fits
  BY SMTT(30), <1>3, ConsoleSizes DEF ConsoleInit, Fits
<1>5. ReadersSleepForInput
  BY Zenon DEF ConsoleInit, ReadersSleepForInput
<1>6. KeyInv
  BY DEF ConsoleInit, KeyInv, NoStuckModifier
<1>. QED
  BY SMTT(30), <1>2, <1>4, <1>5, <1>6 DEF RingInv

\* A step of the ring, a stutter of the ring: the cases of the refinement.
RingStep ==
    \/ UNCHANGED ring
    \/ \E k \in 0 .. Used(w, e) : Erased(k)
    \/ \E c \in Typed : CharStored(c)
    \/ \E k \in 0 .. Used(r, w) : Taken(k)

\* consoleintr() with any character keeps the invariant.
LEMMA IntrStep ==
    ASSUME RingInv, NEW c \in Chars, consoleintr(c), left' = left, condemned' = condemned
    PROVE  RingInv' /\ RingStep
<1>0. ConsoleTypeOK
  BY Zenon DEF RingInv
<1>1. CASE UNCHANGED <<ring, rpc>>
  BY SMTT(30), <1>1 DEF RingStep, RingInv, ConsoleTypeOK, Fits, Used, ReadersSleepForInput, ring
<1>2. CASE \E k \in 0 .. Used(w, e) : Erased(k)
  BY SMTT(30), <1>2, ErasedFits DEF RingStep
<1>3. CASE \E ch \in Typed : CharStored(ch)
  BY SMTT(30), <1>3, StoredFits DEF RingStep
<1>. QED
  BY SMTT(30), <1>0, <1>1, <1>2, <1>3, IntrEffect

\* Every step of a reader, of the serial port and of the keyboard keeps it.
LEMMA ConsoleNext_Inv ==
    ASSUME RingInv, KeyInv, [KeyboardNext \/ ConsoleNext]_consoleVars
    PROVE  RingInv' /\ KeyInv' /\ RingStep
<1>0. ConsoleTypeOK /\ Fits /\ ReadersSleepForInput
  BY DEF RingInv
<1>1. CASE KbdEscape
  <2>1. RingInv' /\ RingStep
    BY SMTT(30), <1>0, <1>1 DEF KbdEscape, RingInv, ConsoleTypeOK, Fits, Used, ReadersSleepForInput,
                      ring, readVars, RingStep
  <2>2. KeyInv'
    BY SMTT(30), <1>1 DEF KbdEscape, KeyInv, NoStuckModifier, shiftcode
  <2>. QED
    BY ZenonT(30), <2>1, <2>2
<1>2. ASSUME NEW key \in Keys \cup ExtKeys, NEW up \in {0, 1}, Kbdintr(key, up)
      PROVE  RingInv' /\ KeyInv' /\ RingStep
  <2>1. kbdgetc(key, up).c \in Chars
    BY Zenon, KeyChar
  <2>2. consoleintr(kbdgetc(key, up).c) /\ left' = left /\ condemned' = condemned
    BY SMTT(30), <1>2 DEF Kbdintr
  <2>3. RingInv' /\ RingStep
    BY <2>1, <2>2, IntrStep
  <2>. QED
    BY SMTT(30), <1>2, <2>3, KeyStep
<1>3. ASSUME NEW c \in Serial, Uartintr(c) PROVE RingInv' /\ KeyInv' /\ RingStep
  <2>1. c \in Chars
    BY ConsoleAssumption DEF Chars
  <2>2. consoleintr(c) /\ left' = left /\ condemned' = condemned /\ UNCHANGED keyVars
    BY <1>3 DEF Uartintr
  <2>3. RingInv' /\ RingStep
    BY SMTT(30), <2>1, <2>2, IntrStep
  <2>4. KeyInv'
    BY <2>2 DEF keyVars, KeyInv, NoStuckModifier, shiftcode
  <2>. QED
    BY SMTT(30), <2>3, <2>4
<1>4. ASSUME NEW p \in Users, NEW count \in ReadSizes, ReadStart(p, count)
      PROVE  RingInv' /\ KeyInv' /\ RingStep
  <2>1. count \in Nat
    BY Zenon, ConsoleAssumption
  <2>2. RingInv' /\ RingStep
    BY SMTT(30), <1>0, <1>4, <2>1 DEF ReadStart, RingInv, ConsoleTypeOK, Fits, Used, ReadersSleepForInput,
                           ring, RingStep
  <2>3. KeyInv'
    BY <1>4 DEF ReadStart, keyVars, KeyInv, NoStuckModifier, shiftcode
  <2>. QED
    BY SMTT(30), <2>2, <2>3
<1>5. ASSUME NEW p \in Users, ReadRun(p) PROVE RingInv' /\ KeyInv' /\ RingStep
  <2>1. RingStep
    BY ZenonT(30), <1>0, <1>5, RunEffect DEF RingStep
  <2>2. KeyInv'
    BY ZenonT(30), <1>5 DEF ReadRun, keyVars, KeyInv, NoStuckModifier, shiftcode
  <2>. QED
    BY SMTT(30), <1>5, <2>1, <2>2, RunFits
<1>6. ASSUME NEW p \in Users, KillReader(p) PROVE RingInv' /\ KeyInv' /\ RingStep
  <2>1. RingInv' /\ RingStep
    BY SMTT(30), <1>0, <1>6 DEF KillReader, RingInv, ConsoleTypeOK, Fits, Used, ReadersSleepForInput,
                      ring, RingStep
  <2>2. KeyInv'
    BY ZenonT(30), <1>6 DEF KillReader, keyVars, KeyInv, NoStuckModifier, shiftcode
  <2>. QED
    BY <2>1, <2>2
<1>7. ASSUME NEW p \in Users, ReaderExits(p) PROVE RingInv' /\ KeyInv' /\ RingStep
  <2>1. RingInv' /\ RingStep
    BY SMTT(30), <1>0, <1>7 DEF ReaderExits, RingInv, ConsoleTypeOK, Fits, Used, ReadersSleepForInput,
                      ring, RingStep
  <2>2. KeyInv'
    BY Zenon, <1>7 DEF ReaderExits, keyVars, KeyInv, NoStuckModifier, shiftcode
  <2>. QED
    BY <2>1, <2>2
<1>8. CASE UNCHANGED consoleVars
  <2>1. RingInv' /\ RingStep
    <3>1. UNCHANGED ring /\ UNCHANGED readVars
      BY Zenon, <1>8 DEF consoleVars
    <3>2. RingStep
      BY Zenon, <3>1 DEF RingStep
    <3>3. ConsoleTypeOK' /\ ReadersSleepForInput'
      BY Zenon, <1>0, <3>1 DEF RingInv, ConsoleTypeOK, ReadersSleepForInput, ring, readVars
    <3>4. Fits'
      BY Zenon, <1>0, <3>1 DEF RingInv, Fits, Used, ring
    <3>. QED
      BY Zenon, <3>2, <3>3, <3>4 DEF RingInv
  <2>2. KeyInv'
    BY <1>8 DEF consoleVars, keyVars, KeyInv, NoStuckModifier, shiftcode
  <2>. QED
    BY <2>1, <2>2
<1>. QED
  BY SMTT(30), <1>1, <1>2, <1>3, <1>4, <1>5, <1>6, <1>7, <1>8 DEF KeyboardNext, ConsoleNext

\* For every ring and every number of readers: no reader of the console sleeps
\* beside input or after kill(), so no wakeup() of consoleintr() is missed.
THEOREM NoReaderForgotten == ConsoleSpec => []ReadersSleepForInput
<1>1. RingInv => ReadersSleepForInput
  BY DEF RingInv
<1>. QED
  BY <1>1, ConsoleInit_Inv, ConsoleNext_Inv, PTL DEF ConsoleSpec

\* For every set of keys: kbdgetc() applies CTL or SHIFT only while such a key
\* is held down.
THEOREM ModifiersFollowKeys == ConsoleSpec => []NoStuckModifier
<1>1. KeyInv => NoStuckModifier
  BY DEF KeyInv
<1>. QED
  BY <1>1, ConsoleInit_Inv, ConsoleNext_Inv, PTL DEF ConsoleSpec

-----------------------------------------------------------------------------
(* The console implements the line editor of Tty.                            *)

Bytes == Typed \cup {"NO"}

\* The first len elements of a stretch.
LEMMA SpanPrefix ==
    ASSUME NEW Elems, NEW f \in [0 .. INPUT_BUF - 1 -> Elems], NEW a \in Idx, NEW k \in Nat, NEW len \in 0 .. k
    PROVE  Span(f, a, len) = SubSeq(Span(f, a, k), 1, len)
<1>. DEFINE p == Span(f, a, len)
            q == Span(f, a, k)
<1>1. len \in Nat
  OBVIOUS
<1>2. p \in Seq(Elems) /\ Len(p) = len /\ q \in Seq(Elems) /\ Len(q) = k
  BY SMTT(30), <1>1, SpanType
<1>3. \A pos \in 1 .. len : p[pos] = q[pos]
  BY DEF Span
<1>. HIDE DEF p, q
<1>4. \A pos \in 1 .. len : q[pos] \in Elems
  BY SMTT(30), <1>2, SeqTyped
<1>5. /\ SubSeq(q, 1, len) \in Seq(Elems) /\ Len(SubSeq(q, 1, len)) = len
      /\ \A pos \in 1 .. len : SubSeq(q, 1, len)[pos] = q[pos]
  BY SMTT(30), <1>1, <1>2, <1>4
<1>6. p = SubSeq(q, 1, len)
  BY SMTT(30), <1>2, <1>3, <1>5, SeqSame
<1>. QED
  BY <1>6 DEF p, q

\* What is left of a stretch behind its first len elements.
LEMMA SpanSuffix ==
    ASSUME NEW Elems, NEW f \in [0 .. INPUT_BUF - 1 -> Elems], NEW a \in Idx, NEW k \in Nat, NEW len \in 0 .. k
    PROVE  Span(f, (a + len) % IndexWrap, k - len) = SubSeq(Span(f, a, k), len + 1, k)
<1>. DEFINE p == Span(f, a, len)
            b == (a + len) % IndexWrap
            m == k - len
            q == Span(f, b, m)
<1>1. len \in Nat /\ m \in Nat /\ len + m = k
  OBVIOUS
<1>2. b \in Idx
  <2>1. a + len \in Int /\ IndexWrap \in Nat \ {0}
    BY SMTT(30), ConsoleSizes DEF Idx
  <2>. QED
    BY <2>1, DivMod, ZenonT(60) DEF Idx
<1>3. p \in Seq(Elems) /\ Len(p) = len /\ q \in Seq(Elems) /\ Len(q) = m
  <2>. HIDE DEF b, m
  <2>. QED
    BY SMTT(30), <1>1, <1>2, SpanType
<1>4. Span(f, a, len + m) = p \o q
  <2>. HIDE DEF m
  <2>. QED
    BY ZenonT(60), <1>1, SpanSplit
<1>. HIDE DEF p, q, b, m
<1>5. /\ SubSeq(p \o q, len + 1, k) \in Seq(Elems) /\ Len(SubSeq(p \o q, len + 1, k)) = m
      /\ \A pos \in 1 .. m : SubSeq(p \o q, len + 1, k)[pos] = q[pos]
  <2>1. p \o q \in Seq(Elems) /\ Len(p \o q) = k
    BY <1>1, <1>3
  <2>2. /\ len + 1 \in 1 .. Len(p \o q) + 1 /\ k \in (len + 1) - 1 .. Len(p \o q)
        /\ k - (len + 1) + 1 = m
    BY <1>1, <2>1
  <2>3. /\ SubSeq(p \o q, len + 1, k) \in Seq(Elems) /\ Len(SubSeq(p \o q, len + 1, k)) = m
        /\ \A pos \in 1 .. m : SubSeq(p \o q, len + 1, k)[pos] = (p \o q)[len + 1 + pos - 1]
    <3>1. /\ SubSeq(p \o q, len + 1, k) \in Seq(Elems)
          /\ Len(SubSeq(p \o q, len + 1, k)) = k - (len + 1) + 1
          /\ \A pos \in 1 .. k - (len + 1) + 1 :
                SubSeq(p \o q, len + 1, k)[pos] = (p \o q)[len + 1 + pos - 1]
      BY ZenonT(60), <2>1, <2>2, SeqSub
    <3>. QED
      BY ZenonT(60), <2>2, <3>1
  <2>4. \A pos \in 1 .. m : (p \o q)[len + 1 + pos - 1] = q[pos]
    <3>1. ASSUME NEW pos \in 1 .. m PROVE (p \o q)[len + 1 + pos - 1] = q[pos]
      <4>1. /\ len + 1 + pos - 1 \in 1 .. Len(p) + Len(q) /\ ~(len + 1 + pos - 1 <= Len(p))
            /\ (len + 1 + pos - 1) - Len(p) = pos
        BY <1>1, <1>3
      <4>2. PICK h \in 1 .. Len(p) + Len(q) : h = len + 1 + pos - 1
        BY Zenon, <4>1
      <4>3. (p \o q)[h] = IF h <= Len(p) THEN p[h] ELSE q[h - Len(p)]
        BY Zenon, <1>3, SeqConcat
      <4>. QED
        BY Zenon, <4>1, <4>2, <4>3
    <3>. QED
      BY ZenonT(60), <3>1
  <2>. QED
    BY ZenonT(60), <2>3, <2>4
<1>6. q = SubSeq(p \o q, len + 1, k)
  BY ZenonT(60), <1>3, <1>5, SeqSame
<1>. QED
  BY ZenonT(60), <1>1, <1>4, <1>6 DEF q, b, m

\* The two queues as stretches of the ring, before and after a step.
LEMMA Queues ==
    /\ Slice(r, w) = Span(buf, r, Used(r, w)) /\ Slice(w, e) = Span(buf, w, Used(w, e))
    /\ Slice(r, w)' = Span(buf', r', Used(r', w')) /\ Slice(w, e)' = Span(buf', w', Used(w', e'))
  BY DEF Slice, Span, Used

\* Moving e back removes the end of the line being typed.
LEMMA ErasedIsErase ==
    ASSUME RingInv, NEW k \in 0 .. Used(w, e), Erased(k)
    PROVE  [Line!Next]_<<Slice(r, w), Slice(w, e)>>
<1>. DEFINE V == Used(w, e)
<1>1. r \in Idx /\ w \in Idx /\ e \in Idx /\ V \in Nat /\ buf \in [0 .. INPUT_BUF - 1 -> Bytes]
  BY Zenon, UsedNat DEF RingInv, ConsoleTypeOK, Bytes
<1>2. Used(w, e') = V - k
  BY ZenonT(30), <1>1, UsedBehind DEF Erased
<1>3. Slice(r, w)' = Slice(r, w)
  BY Zenon, Queues DEF Erased
<1>4. V - k \in 0 .. V /\ Len(Slice(w, e)) = V
  <2>1. Len(Span(buf, w, V)) = V
    BY ZenonT(60), <1>1, SpanType
  <2>. QED
    BY SMTT(30), <1>1, <2>1, Queues
<1>5. Slice(w, e)' = SubSeq(Slice(w, e), 1, Len(Slice(w, e)) - k)
  <2>1. Slice(w, e)' = Span(buf, w, V - k)
    BY <1>2, Queues DEF Erased
  <2>2. Span(buf, w, V - k) = SubSeq(Span(buf, w, V), 1, V - k)
    BY ZenonT(60), <1>1, <1>4, SpanPrefix
  <2>. QED
    BY ZenonT(30), <1>4, <2>1, <2>2, Queues
<1>6. CASE k = 0
  <2>1. Slice(w, e)' = Span(buf, w, V)
    BY SMTT(30), <1>1, <1>2, <1>6, Queues DEF Erased
  <2>. QED
    BY ZenonT(30), <1>3, <2>1, Queues
<1>7. CASE k # 0
  <2>1. k \in 1 .. Len(Slice(w, e))
    BY SMTT(30), <1>1, <1>4, <1>7
  <2>2. Line!Erase(k)
    BY SMTT(30), <1>3, <1>5 DEF Line!Erase
  <2>. QED
    BY SMTT(30), <2>1, <2>2 DEF Line!Next
<1>. QED
  BY <1>6, <1>7

\* Moving r on removes the beginning of the finished lines.
LEMMA TakenIsTake ==
    ASSUME RingInv, NEW k \in 0 .. Used(r, w), Taken(k)
    PROVE  [Line!Next]_<<Slice(r, w), Slice(w, e)>>
<1>. DEFINE U == Used(r, w)
<1>1. r \in Idx /\ w \in Idx /\ e \in Idx /\ U \in Nat /\ buf \in [0 .. INPUT_BUF - 1 -> Bytes]
  BY ZenonT(30), UsedNat DEF RingInv, ConsoleTypeOK, Bytes
<1>2. Used((r + k) % IndexWrap, w) = U - k
  BY ZenonT(30), <1>1, UsedAhead
<1>3. Slice(w, e)' = Slice(w, e)
  BY SMTT(30), Queues DEF Taken
<1>4. Len(Slice(r, w)) = U
  <2>1. Len(Span(buf, r, U)) = U
    BY ZenonT(60), <1>1, SpanType
  <2>. QED
    BY <2>1, Queues
<1>5. Slice(r, w)' = SubSeq(Slice(r, w), k + 1, Len(Slice(r, w)))
  <2>1. Slice(r, w)' = Span(buf, (r + k) % IndexWrap, U - k)
    BY <1>2, Queues DEF Taken
  <2>2. Span(buf, (r + k) % IndexWrap, U - k) = SubSeq(Span(buf, r, U), k + 1, U)
    BY ZenonT(60), <1>1, SpanSuffix
  <2>. QED
    BY ZenonT(30), <1>4, <2>1, <2>2, Queues
<1>6. CASE k = 0
  <2>1. Slice(r, w)' = SubSeq(Slice(r, w), 1, Len(Slice(r, w)))
    BY SMTT(30), <1>5, <1>6
  <2>2. Slice(r, w) \in Seq(Bytes)
    BY SMTT(30), <1>1, Queues, SpanType
  <2>. QED
    BY SMTT(30), <1>3, <2>1, <2>2, SeqTyped
<1>7. CASE k # 0
  <2>1. k \in 1 .. Len(Slice(r, w))
    BY SMTT(30), <1>1, <1>4, <1>7
  <2>2. Line!Take(k)
    BY <1>3, <1>5 DEF Line!Take, Taken
  <2>. QED
    BY Zenon, <2>1, <2>2 DEF Line!Next
<1>. QED
  BY SMTT(30), <1>6, <1>7

\* Storing at e adds to the line being typed, or finishes it.
LEMMA StoredIsType ==
    ASSUME RingInv, NEW c \in Typed, CharStored(c) PROVE Line!Type(c)
<1>. DEFINE U == Used(r, w)
            V == Used(w, e)
            lines == Span(buf, r, U)
            edit == Span(buf, w, V)
            full == U + V + 1 = INPUT_BUF
<1>0. INPUT_BUF \in Nat \ {0} /\ IndexWrap \in Nat \ {0} /\ IndexWrap % INPUT_BUF = 0
  BY SMTT(30), ConsoleSizes
<1>1. /\ r \in Idx /\ w \in Idx /\ e \in Idx /\ U \in Nat /\ V \in Nat
      /\ buf \in [0 .. INPUT_BUF - 1 -> Bytes] /\ c \in Bytes
  BY SMTT(30), UsedNat DEF RingInv, ConsoleTypeOK, Bytes
<1>2. Used(r, e) = U + V /\ U + V < INPUT_BUF
  BY Zenon, Total DEF RingInv, CharStored
<1>3. /\ e' = (e + 1) % IndexWrap /\ e' \in Idx
      /\ Used(r, e') = U + V + 1 /\ Used(w, e') = V + 1
  <2>1. V < INPUT_BUF
    BY SMTT(30), <1>0, <1>1, <1>2
  <2>. QED
    BY SMTT(30), <1>1, <1>2, <2>1, UsedNext DEF CharStored
<1>4. e % INPUT_BUF = (w + V) % INPUT_BUF /\ e % INPUT_BUF = (r + (U + V)) % INPUT_BUF
  <2>1. (w + V) % IndexWrap = e /\ (r + (U + V)) % IndexWrap = e
    BY SMTT(30), <1>1, <1>2, UsedSpans
  <2>. HIDE DEF U, V
  <2>2. w + V \in Int /\ r + (U + V) \in Int /\ 0 \in Int
    BY <1>1 DEF Idx
  <2>3. (((w + V) % IndexWrap) + 0) % INPUT_BUF = (w + V + 0) % INPUT_BUF
    BY <1>0, <2>2, ModOfMod, ZenonT(60)
  <2>4. (((r + (U + V)) % IndexWrap) + 0) % INPUT_BUF = (r + (U + V) + 0) % INPUT_BUF
    BY <1>0, <2>2, ModOfMod, ZenonT(60)
  <2>5. e + 0 = e /\ w + V + 0 = w + V /\ r + (U + V) + 0 = r + (U + V)
    BY <1>1, <2>2 DEF Idx
  <2>. QED
    BY SMTT(30), <2>1, <2>3, <2>4, <2>5
<1>5. /\ buf' \in [0 .. INPUT_BUF - 1 -> Bytes]
      /\ buf'[e % INPUT_BUF] = c
      /\ \A x \in 0 .. INPUT_BUF - 1 : x # e % INPUT_BUF => buf'[x] = buf[x]
  <2>1. e % INPUT_BUF \in 0 .. INPUT_BUF - 1
    <3>1. e \in Int
      BY <1>1 DEF Idx
    <3>. QED
      BY SMTT(30), <1>0, <3>1, DivMod
  <2>. QED
    BY SMTT(30), <1>1, <2>1 DEF CharStored
<1>. HIDE DEF U, V
<1>6. Span(buf', w, V + 1) = Append(edit, c)
  <2>. DEFINE m == V
              g == buf'
  <2>1. m \in 0 .. INPUT_BUF - 1 /\ V \in 0 .. m /\ V \in Nat /\ w \in Idx /\ 1 \in Nat
    BY SMTT(30), <1>0, <1>1, <1>2
  <2>2. /\ g \in [0 .. INPUT_BUF - 1 -> Bytes]
        /\ \A x \in 0 .. INPUT_BUF - 1 : x # (w + m) % INPUT_BUF => g[x] = buf[x]
    BY Zenon, <1>4, <1>5
  <2>. HIDE DEF m, g
  <2>3. Span(g, w, V) = Span(buf, w, V)
    BY ZenonT(60), <2>1, <2>2, SpanUntouched
  <2>4. Span(g, w, V + 1) = Span(g, w, V) \o Span(g, (w + V) % IndexWrap, 1)
    BY ZenonT(60), <2>1, <2>2, SpanSplit
  <2>5. (w + V) % IndexWrap = e
    BY SMTT(30), <1>1, UsedSpans DEF V
  <2>6. Span(g, e, 1) = <<c>>
    <3>1. e + 1 - 1 = e
      BY SMTT(30), <1>1 DEF Idx
    <3>. QED
      BY SMTT(30), <1>5, <3>1 DEF Span, g
  <2>7. edit \in Seq(Bytes)
    BY Zenon, <1>1, SpanType
  <2>8. edit \o <<c>> = Append(edit, c)
    <3>. HIDE DEF edit
    <3>. QED
      BY SMTT(30), <1>1, <2>7
  <2>. QED
    BY ZenonT(60), <2>3, <2>4, <2>5, <2>6, <2>8 DEF g
<1>7. Span(buf', r, U) = lines
  <2>. DEFINE m == U + V
              g == buf'
  <2>1. m \in 0 .. INPUT_BUF - 1 /\ U \in 0 .. m /\ r \in Idx
    BY SMTT(30), <1>0, <1>1, <1>2
  <2>2. \A x \in 0 .. INPUT_BUF - 1 : x # (r + m) % INPUT_BUF => g[x] = buf[x]
    BY Zenon, <1>4, <1>5
  <2>. HIDE DEF m, g
  <2>3. Span(g, r, U) = Span(buf, r, U)
    BY SMTT(30), <2>1, <2>2, SpanUntouched
  <2>. QED
    BY SMTT(30), <2>3 DEF g
<1>8. Len(lines) = U /\ Len(edit) = V
  BY ZenonT(30), <1>1, SpanType
<1>9. (e + 1) % IndexWrap = (r + INPUT_BUF) % IndexWrap <=> full
  <2>1. INPUT_BUF \in Idx
    BY SMTT(30), ConsoleSizes DEF Idx
  <2>2. Used(r, (r + INPUT_BUF) % IndexWrap) = INPUT_BUF
    BY SMTT(30), <1>1, <2>1, UsedOfSum
  <2>3. (r + Used(r, e')) % IndexWrap = e'
    BY SMTT(30), <1>1, <1>3, UsedSpans
  <2>. QED
    BY Zenon, <1>3, <2>2, <2>3
<1>10. Slice(r, w) = lines /\ Slice(w, e) = edit
  BY Queues DEF U, V
<1>. HIDE DEF lines, edit
<1>11. Line!Room
  BY SMTT(30), <1>2, <1>8, <1>10 DEF Line!Room
<1>12. CASE c \in {"NL", "^D"} \/ full
  <2>1. w' = e' /\ r' = r
    BY ZenonT(30), <1>3, <1>9, <1>12 DEF CharStored
  <2>2. Slice(r, w)' = Span(buf', r, U + (V + 1))
    BY SMTT(30), <1>1, <1>3, <2>1, Queues
  <2>3. Span(buf', r, U + (V + 1)) = Span(buf', r, U) \o Span(buf', w, V + 1)
    <3>1. V + 1 \in Nat
      BY SMTT(30), <1>1
    <3>2. (r + U) % IndexWrap = w
      BY SMTT(30), <1>1, UsedSpans DEF U
    <3>. DEFINE g == buf'
                m == V + 1
    <3>3. g \in [0 .. INPUT_BUF - 1 -> Bytes] /\ m \in Nat
      BY <1>5, <3>1
    <3>. HIDE DEF g, m
    <3>4. Span(g, r, U + m) = Span(g, r, U) \o Span(g, (r + U) % IndexWrap, m)
      BY ZenonT(60), <1>1, <3>3, SpanSplit
    <3>. QED
      BY SMTT(30), <3>2, <3>4 DEF g, m
  <2>4. Slice(r, w)' = lines \o Append(edit, c)
    BY ZenonT(60), <1>6, <1>7, <2>2, <2>3
  <2>5. Slice(w, e)' = << >>
    <3>1. Used(w', e') = 0
      BY SMTT(30), <1>3, <2>1, UsedSelf
    <3>2. Slice(w, e)' = Span(buf', e', 0)
      BY SMTT(30), <2>1, <3>1, Queues
    <3>3. Len(Span(buf', e', 0)) = 0 /\ Span(buf', e', 0) \in Seq(Bytes)
      <4>1. 0 \in Nat
        OBVIOUS
      <4>. QED
        BY ZenonT(60), <1>3, <1>5, <4>1, SpanType
    <3>. QED
      BY SMTT(30), <3>2, <3>3, SeqTyped
  <2>. QED
    BY ZenonT(60), <1>8, <1>10, <1>11, <1>12, <2>4, <2>5 DEF Line!Type
<1>13. CASE ~(c \in {"NL", "^D"} \/ full)
  <2>1. w' = w /\ r' = r
    BY SMTT(30), <1>9, <1>13 DEF CharStored
  <2>2. Slice(r, w)' = lines
    BY SMTT(30), <1>7, <2>1, Queues DEF U
  <2>3. Slice(w, e)' = Append(edit, c)
    BY SMTT(30), <1>3, <1>6, <2>1, Queues
  <2>. QED
    BY ZenonT(30), <1>8, <1>10, <1>11, <1>13, <2>2, <2>3 DEF Line!Type
<1>. QED
  BY <1>12, <1>13

\* For every ring, every width of the indices and every number of readers: what
\* the keyboard, the serial port and the readers do to the ring is what a line
\* editor in front of a queue of lines does.
THEOREM ConsoleIsTty == ConsoleSpec => ImplementsTty
<1>1. ConsoleInit => Line!Init
  <2>. SUFFICES ASSUME ConsoleInit PROVE Line!Init
    OBVIOUS
  <2>1. RingInv /\ r = 0 /\ w = 0 /\ e = 0
    BY ConsoleInit_Inv DEF ConsoleInit
  <2>2. 0 \in Idx /\ 0 \in Nat /\ buf \in [0 .. INPUT_BUF - 1 -> Bytes]
    BY <2>1 DEF RingInv, ConsoleTypeOK, Bytes
  <2>3. Used(0, 0) = 0
    BY SMTT(30), <2>2, UsedSelf
  <2>4. Slice(r, w) = Span(buf, 0, 0) /\ Slice(w, e) = Span(buf, 0, 0)
    BY <2>1, <2>3, Queues
  <2>5. Len(Span(buf, 0, 0)) = 0 /\ Span(buf, 0, 0) \in Seq(Bytes)
    BY ZenonT(60), <2>2, SpanType
  <2>6. Span(buf, 0, 0) = << >>
    BY ZenonT(30), <2>5, SeqTyped
  <2>. QED
    BY SMTT(30), <2>4, <2>6 DEF Line!Init
<1>2. RingInv /\ RingStep => [Line!Next]_<<Slice(r, w), Slice(w, e)>>
  <2>. SUFFICES ASSUME RingInv, RingStep PROVE [Line!Next]_<<Slice(r, w), Slice(w, e)>>
    OBVIOUS
  <2>1. CASE UNCHANGED ring
    BY SMTT(30), <2>1, Queues DEF ring
  <2>2. CASE \E k \in 0 .. Used(w, e) : Erased(k)
    BY SMTT(30), <2>2, ErasedIsErase
  <2>3. CASE \E c \in Typed : CharStored(c)
    BY SMTT(30), <2>3, StoredIsType DEF Line!Next, Typed
  <2>4. CASE \E k \in 0 .. Used(r, w) : Taken(k)
    BY SMTT(30), <2>4, TakenIsTake
  <2>. QED
    BY SMTT(30), <2>1, <2>2, <2>3, <2>4 DEF RingStep
<1>3. RingInv /\ KeyInv /\ [KeyboardNext \/ ConsoleNext]_consoleVars
        => RingInv' /\ KeyInv' /\ [Line!Next]_<<Slice(r, w), Slice(w, e)>>
  BY <1>2, ConsoleNext_Inv
<1>. QED
  BY <1>1, <1>3, ConsoleInit_Inv, PTL DEF ConsoleSpec, ImplementsTty, Line!Spec
=============================================================================
