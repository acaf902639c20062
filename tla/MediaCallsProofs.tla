-------------------------- MODULE MediaCallsProofs --------------------------
(***************************************************************************)
(* What WireCodec and MediaCalls promise, for every request and content    *)
(* within the types of C++ (RequestAssumption), any base of a byte that    *)
(* has the texts that stand for others, and any descriptor numbers.        *)
(*                                                                         *)
(* First the codec: whatever a struct holds, Dart decodes from what C++    *)
(* encodes (RoundTrip).  What a recursive function computes is proved by   *)
(* induction in a set of numbers (Smallest, CountingTo), and what it is at *)
(* each number from the existence of a function that obeys its equation    *)
(* (Recursion).  Then the two calls: IInv says what was posted, what is in *)
(* the buffer and what was decoded, and the invariants of the run follow.  *)
(***************************************************************************)
EXTENDS MediaCalls, SequenceTheorems, WellFoundedInduction, TLAPS

----------------------------------------------------------------------------
(* Numbers and sequences                                                   *)

LEMMA Smallest ==
  ASSUME NEW T, T \subseteq Nat, T # {}
  PROVE  \E x \in T : \A y \in T : x <= y
<1>1. \E x \in T : \A y \in T : ~(<<y, x>> \in OpToRel(<, Nat))
  BY NatLessThanWellFounded, WFMin
<1>2. PICK x \in T : \A y \in T : ~(<<y, x>> \in OpToRel(<, Nat))
  BY <1>1
<1>3. \A y \in T : ~(y < x)
  BY <1>2 DEF OpToRel
<1> QED BY <1>3

\* Induction over the numbers up to N, in a set.
LEMMA CountingTo ==
  ASSUME NEW N \in Nat, NEW T, 0 \in T,
         \A n \in 1..N : n - 1 \in T => n \in T
  PROVE  0..N \subseteq T
<1> SUFFICES ASSUME (0..N) \ T # {} PROVE FALSE
  OBVIOUS
<1>1. PICK x \in (0..N) \ T : \A y \in (0..N) \ T : x <= y
  <2>1. (0..N) \ T \subseteq Nat
    OBVIOUS
  <2> QED BY <2>1, Smallest
<1>2. x \in 1..N /\ x - 1 \in 0..N
  BY <1>1
<1>3. x - 1 \in T
  BY <1>1, <1>2
<1> QED BY <1>1, <1>2, <1>3

\* f is defined by recursion: from a, by the function G.
Recurs(f, a, G, N) ==
    f = [n \in 0..N |-> IF n = 0 THEN a ELSE G[n][f[n - 1]]]

LEMMA Recursion ==
  ASSUME NEW N \in Nat, NEW S, NEW a \in S, NEW G \in [1..N -> [S -> S]]
  PROVE  \E f \in [0..N -> S] : Recurs(f, a, G, N)
<1> DEFINE T == {n \in 0..N : \E f \in [0..n -> S] : Recurs(f, a, G, n)}
<1>1. 0 \in T
  <2> DEFINE f == [n \in 0..0 |-> a]
  <2>1. f \in [0..0 -> S] /\ Recurs(f, a, G, 0)
    BY DEF Recurs
  <2> QED BY <2>1
<1>2. ASSUME NEW n \in 1..N, n - 1 \in T PROVE n \in T
  <2>1. PICK h \in [0..n - 1 -> S] : Recurs(h, a, G, n - 1)
    BY <1>2
  <2>2. h = [k \in 0..n - 1 |-> IF k = 0 THEN a ELSE G[k][h[k - 1]]]
    BY <2>1 DEF Recurs
  <2> HIDE DEF T
  <2>3. \A k \in 0..n - 1 : h[k] = IF k = 0 THEN a ELSE G[k][h[k - 1]]
    BY <2>2
  <2> DEFINE f == [k \in 0..n |-> IF k = n THEN G[n][h[n - 1]] ELSE h[k]]
  <2>4. n - 1 \in 0..n - 1 /\ n # 0 /\ n \in 0..n
    OBVIOUS
  <2>5. h[n - 1] \in S
    BY <2>1, <2>4
  <2>6. f \in [0..n -> S]
    <3>1. G[n][h[n - 1]] \in S
      BY <2>5
    <3>2. \A k \in 0..n : k # n => k \in 0..n - 1
      OBVIOUS
    <3> QED BY <2>1, <3>1, <3>2
  <2>7. \A k \in 0..n - 1 : f[k] = h[k]
    OBVIOUS
  <2>8. ASSUME NEW k \in 0..n
        PROVE  f[k] = IF k = 0 THEN a ELSE G[k][f[k - 1]]
    <3>1. CASE k = n
      <4>1. f[k] = G[n][h[n - 1]] /\ f[n - 1] = h[n - 1]
        BY <2>4, <2>7, <3>1
      <4> QED BY <2>4, <3>1, <4>1
    <3>2. CASE k # n
      <4>1. k \in 0..n - 1 /\ (k # 0 => k - 1 \in 0..n - 1)
        BY <3>2
      <4> HIDE DEF f
      <4> QED BY <2>3, <2>7, <4>1
    <3> QED BY <3>1, <3>2
  <2>9. Recurs(f, a, G, n)
    <3>1. f = [k \in 0..n |-> f[k]]
      OBVIOUS
    <3> HIDE DEF f
    <3> QED BY <2>8, <3>1 DEF Recurs
  <2>10. n \in 0..N
    OBVIOUS
  <2> HIDE DEF f
  <2> QED BY <2>6, <2>9, <2>10 DEF T
<1> HIDE DEF T
<1>3. 0..N \subseteq T
  BY <1>1, <1>2, CountingTo
<1>4. N \in T
  BY <1>3
<1> QED BY <1>4 DEF T

\* The values of i bytes.
LEMMA PowerIs ==
  /\ Power[0] = 1
  /\ \A i \in 1..8 : Power[i] = ByteBase * Power[i - 1]
  /\ \A i \in 0..8 : Power[i] \in Nat \ {0}
<1> DEFINE G == [n \in 1..8 |-> [x \in Nat \ {0} |-> ByteBase * x]]
           Is(f) == f = [i \in 0..8 |-> IF i = 0 THEN 1 ELSE ByteBase * f[i - 1]]
<1>0. ByteBase \in Nat \ {0}
  BY ByteAssumption
<1>1. G \in [1..8 -> [Nat \ {0} -> Nat \ {0}]]
  <2>1. \A x \in Nat \ {0} : ByteBase * x \in Nat \ {0}
    BY <1>0
  <2> QED BY <2>1
<1>2. PICK f \in [0..8 -> Nat \ {0}] : Recurs(f, 1, G, 8)
  <2>1. 8 \in Nat /\ 1 \in Nat \ {0}
    OBVIOUS
  <2> HIDE DEF G
  <2> QED BY <1>1, <2>1, Recursion
<1>3. Is(f)
  <2>1. \A i \in 0..8 : i # 0 => i \in 1..8 /\ i - 1 \in 0..8
    OBVIOUS
  <2>2. \A i \in 1..8 : f[i - 1] \in Nat \ {0}
    BY <1>2, <2>1
  <2>3. \A i \in 1..8 : G[i][f[i - 1]] = ByteBase * f[i - 1]
    BY <2>2
  <2> HIDE DEF G
  <2>4. f = [i \in 0..8 |-> IF i = 0 THEN 1 ELSE G[i][f[i - 1]]]
    BY <1>2 DEF Recurs
  <2>5. [i \in 0..8 |-> IF i = 0 THEN 1 ELSE G[i][f[i - 1]]]
          = [i \in 0..8 |-> IF i = 0 THEN 1 ELSE ByteBase * f[i - 1]]
    BY <2>1, <2>3
  <2> QED BY <2>4, <2>5
<1>4. Power = CHOOSE g : Is(g)
  BY DEF Power
<1>5. Is(Power)
  BY <1>3, <1>4
<1>6. \A i \in 0..8 : Power[i] = IF i = 0 THEN 1 ELSE ByteBase * Power[i - 1]
  BY <1>5
<1>7. Power[0] = 1 /\ \A i \in 1..8 : Power[i] = ByteBase * Power[i - 1]
  BY <1>6
<1>8. 0..8 \subseteq {i \in 0..8 : Power[i] \in Nat \ {0}}
  <2> DEFINE T == {i \in 0..8 : Power[i] \in Nat \ {0}}
  <2>1. 0 \in T
    BY <1>7
  <2>2. ASSUME NEW n \in 1..8, n - 1 \in T PROVE n \in T
    <3>1. Power[n - 1] \in Nat \ {0} /\ Power[n] = ByteBase * Power[n - 1]
      BY <1>7, <2>2
    <3>2. \A x, y \in Nat \ {0} : x * y \in Nat \ {0}
      OBVIOUS
    <3>3. Power[n] \in Nat \ {0}
      BY <1>0, <3>1, <3>2
    <3> QED BY <3>3
  <2> HIDE DEF T
  <2>3. 0..8 \subseteq T
    BY <2>1, <2>2, CountingTo
  <2> QED BY <2>3 DEF T
<1> QED BY <1>7, <1>8

\* FlattenSeq, step by step.
LEMMA FlattenIs ==
  ASSUME NEW S, NEW N \in Nat, NEW es \in [1..N -> Seq(S)]
  PROVE  \E c \in [0..N -> Seq(S)] :
           /\ c[0] = <<>> /\ \A i \in 1..N : c[i] = c[i - 1] \o es[i]
           /\ FlattenSeq(es) = c[N]
<1> DEFINE G == [n \in 1..N |-> [x \in Seq(S) |-> x \o es[n]]]
           Is(f) == f = [i \in 1..Len(es) |->
                           IF i = 1 THEN es[i] ELSE f[i - 1] \o es[i]]
<1>0. Len(es) = N /\ es \in Seq(Seq(S))
  OBVIOUS
<1>1. G \in [1..N -> [Seq(S) -> Seq(S)]] /\ <<>> \in Seq(S)
  OBVIOUS
<1>2. PICK c \in [0..N -> Seq(S)] : Recurs(c, <<>>, G, N)
  <2> HIDE DEF G
  <2> QED BY <1>1, Recursion
<1>3. \A i \in 1..N : i \in 0..N /\ i # 0 /\ i - 1 \in 0..N
  OBVIOUS
<1>4. c[0] = <<>> /\ \A i \in 1..N : c[i] = c[i - 1] \o es[i]
  <2>1. \A i \in 1..N : c[i - 1] \in Seq(S)
    BY <1>2, <1>3
  <2>2. \A i \in 1..N : G[i][c[i - 1]] = c[i - 1] \o es[i]
    BY <2>1
  <2> HIDE DEF G
  <2>3. \A i \in 0..N : c[i] = IF i = 0 THEN <<>> ELSE G[i][c[i - 1]]
    BY <1>2 DEF Recurs
  <2>4. 0 \in 0..N
    OBVIOUS
  <2>5. c[0] = <<>>
    BY <2>3, <2>4
  <2>6. \A i \in 1..N : c[i] = G[i][c[i - 1]]
    BY <1>3, <2>3
  <2> QED BY <2>2, <2>5, <2>6
<1>5. CASE N = 0
  <2>1. FlattenSeq(es) = es /\ es = <<>>
    BY <1>0, <1>5 DEF FlattenSeq
  <2> QED BY <1>4, <1>5, <2>1
<1>6. CASE N # 0
  <2> DEFINE f == [i \in 1..N |-> c[i]]
             g == CHOOSE h : Is(h)
  <2>1a. \A i \in 1..N : f[i] = IF i = 1 THEN es[i] ELSE f[i - 1] \o es[i]
    <3>1. \A i \in 1..N : f[i] = IF i = 1 THEN es[i] ELSE f[i - 1] \o es[i]
      <4> SUFFICES ASSUME NEW i \in 1..N
                   PROVE  f[i] = IF i = 1 THEN es[i] ELSE f[i - 1] \o es[i]
        OBVIOUS
      <4>1. CASE i = 1
        <5>1. 1 \in 1..N /\ 1 - 1 = 0 /\ es[1] \in Seq(S)
          BY <4>1
        <5>2. c[1] = <<>> \o es[1]
          BY <1>4, <5>1
        <5>3. <<>> \o es[1] = es[1]
          BY <5>1
        <5> QED BY <4>1, <5>2, <5>3
      <4>2. CASE i # 1
        <5>1. i - 1 \in 1..N
          BY <4>2
        <5> QED BY <1>4, <4>2, <5>1
      <4> QED BY <4>1, <4>2
    <3> QED BY <3>1
  <2>1. Is(f)
    BY <1>0, <2>1a
  <2>2. Is(g)
    BY <2>1
  <2>3. FlattenSeq(es) = g[N]
    BY <1>0, <1>6 DEF FlattenSeq
  <2> HIDE DEF g
  <2>4. \A i \in 1..N : g[i] = IF i = 1 THEN es[i] ELSE g[i - 1] \o es[i]
    BY <1>0, <2>2
  <2> DEFINE T == {0} \cup {i \in 1..N : g[i] = c[i]}
  <2>5. ASSUME NEW n \in 1..N, n - 1 \in T PROVE n \in T
    <3>1. CASE n = 1
      <4>1. f[1] = es[1] /\ f[1] = c[1]
        BY <2>1a, <3>1
      <4> QED BY <2>4, <3>1, <4>1
    <3>2. CASE n # 1
      <4>1. n - 1 # 0
        BY <3>2
      <4> QED BY <1>4, <2>4, <2>5, <3>2, <4>1
    <3> QED BY <3>1, <3>2
  <2> HIDE DEF T
  <2>6. 0..N \subseteq T
    <3>1. 0 \in T
      BY DEF T
    <3> QED BY <2>5, <3>1, CountingTo
  <2>7. g[N] = c[N]
    BY <1>6, <2>6 DEF T
  <2> QED BY <1>4, <2>3, <2>7
<1> QED BY <1>5, <1>6

----------------------------------------------------------------------------
(* Integers                                                                *)

LEMMA Division ==
  ASSUME NEW n \in Int, NEW d \in Nat \ {0}, NEW q, q = n \div d, NEW r, r = n % d
  PROVE  q \in Int /\ r \in 0..d - 1 /\ n = d * q + r
<1>1. q \in Int /\ r \in Int
  OBVIOUS
<1>2. 0 <= r /\ r <= d - 1
  OBVIOUS
<1>3. n = d * q + r
  OBVIOUS
<1> QED BY <1>1, <1>2, <1>3

LEMMA Quotient ==
  ASSUME NEW n \in Int, NEW d \in Nat \ {0}, NEW q \in Int, NEW r \in 0..d - 1,
         n = d * q + r
  PROVE  n \div d = q /\ n % d = r
OBVIOUS

\* One more digit.
LEMMA Digit ==
  ASSUME NEW n \in Int, NEW b \in Nat \ {0}, NEW d \in Nat \ {0}
  PROVE  n % (b * d) = (n % d) + d * ((n \div d) % b)
<1> DEFINE q == n \div d
           r == n % d
           s == q \div b
           t == q % b
<1>1. q \in Int /\ r \in 0..d - 1 /\ n = d * q + r
  BY Division
<1>2. s \in Int /\ t \in 0..b - 1 /\ q = b * s + t
  BY <1>1, Division
<1> HIDE DEF q, r, s, t
<1>3. d * q = d * (b * s) + d * t
  BY <1>1, <1>2
<1>4. d * (b * s) = (b * d) * s
  BY <1>1, <1>2
<1>5. n = (b * d) * s + (d * t + r)
  BY <1>1, <1>2, <1>3, <1>4
<1>6. d * t + r \in 0..(b * d) - 1
  <2>1. d * t \in Nat /\ d * t + d <= d * b
    <3>1. t >= 0 /\ t + 1 <= b /\ t \in Nat
      BY <1>2
    <3>2. d * (t + 1) <= d * b
      BY <3>1
    <3> QED BY <3>1, <3>2
  <2>2. d * b = b * d
    OBVIOUS
  <2> QED BY <1>1, <2>1, <2>2
<1>7. b * d \in Nat \ {0}
  OBVIOUS
<1> HIDE DEF q, r, s, t
<1>8. n % (b * d) = d * t + r
  BY <1>2, <1>5, <1>6, <1>7, Quotient
<1>9. d * t + r = r + d * t
  BY <1>1, <1>2
<1> QED BY <1>8, <1>9 DEF q, r, t

\* The bytes e are in data from `at` on.
Found(data, at, e) ==
    /\ at \in Nat \ {0} /\ at + Len(e) - 1 <= Len(data)
    /\ \A i \in 1..Len(e) : data[at + i - 1] = e[i]

LEMMA WriteIs ==
  ASSUME NEW n \in Int, NEW w \in 0..8
  PROVE  /\ WriteInteger(n, w) \in Seq(Byte) /\ Len(WriteInteger(n, w)) = w
         /\ \A i \in 1..w : WriteInteger(n, w)[i] = (n \div Power[i - 1]) % ByteBase
<1>1. \A i \in 1..w : i - 1 \in 0..8 /\ Power[i - 1] \in Nat \ {0}
  BY PowerIs
<1>2. \A i \in 1..w : (n \div Power[i - 1]) % ByteBase \in Byte
  <2> TAKE i \in 1..w
  <2>1. n \div Power[i - 1] \in Int
    BY <1>1, Division
  <2> QED BY <2>1, Division, ByteAssumption DEF Byte
<1> QED BY <1>2 DEF WriteInteger

LEMMA IntegerRead ==
  ASSUME NEW n \in Int, NEW w \in 1..8, NEW data \in Seq(Nat), NEW at,
         Found(data, at, WriteInteger(n, w))
  PROVE  ReadInteger(data, at, w) = Got(n % Power[w], at + w)
<1> DEFINE Is(f) == f = [i \in 0..w |->
                           IF i = 0 THEN 0
                           ELSE f[i - 1] + Power[i - 1] * data[at + i - 1]]
           low == [i \in 0..w |-> n % Power[i]]
           g == CHOOSE f : Is(f)
<1>0. w \in 0..8 /\ ByteBase \in Nat \ {0} /\ at \in Nat
  BY ByteAssumption DEF Found
<1>1. \A i \in 1..w : data[at + i - 1] = (n \div Power[i - 1]) % ByteBase
  BY <1>0, WriteIs DEF Found
<1>2. \A i \in 1..w : n % Power[i] = (n % Power[i - 1])
                         + Power[i - 1] * ((n \div Power[i - 1]) % ByteBase)
  <2> TAKE i \in 1..w
  <2>0. i \in 1..8 /\ i - 1 \in 0..8
    OBVIOUS
  <2>1. Power[i] = ByteBase * Power[i - 1] /\ Power[i - 1] \in Nat \ {0}
    BY <2>0, PowerIs
  <2> QED BY <1>0, <2>1, Digit
<1>3. n % Power[0] = 0
  BY PowerIs
<1>4. \A i \in 0..w : low[i] = IF i = 0 THEN 0
                               ELSE low[i - 1] + Power[i - 1] * data[at + i - 1]
  <2> SUFFICES ASSUME NEW i \in 0..w
               PROVE  low[i] = IF i = 0 THEN 0
                               ELSE low[i - 1] + Power[i - 1] * data[at + i - 1]
    OBVIOUS
  <2>1. CASE i = 0
    BY <1>3, <2>1
  <2>2. CASE i # 0
    <3>1. i \in 1..w /\ i - 1 \in 0..w
      BY <2>2
    <3>2. low[i] = n % Power[i] /\ low[i - 1] = n % Power[i - 1]
      BY <3>1
    <3> HIDE DEF low
    <3> QED BY <1>1, <1>2, <2>2, <3>1, <3>2
  <2> QED BY <2>1, <2>2
<1>5. Is(low)
  <2>1. low = [i \in 0..w |-> low[i]]
    OBVIOUS
  <2> HIDE DEF low
  <2> QED BY <1>4, <2>1
<1>6. Is(g)
  BY <1>5
<1>7. LittleEndian(data, at, w) = g[w]
  BY DEF LittleEndian
<1> HIDE DEF g
<1>8. \A i \in 0..w : g[i] = IF i = 0 THEN 0
                             ELSE g[i - 1] + Power[i - 1] * data[at + i - 1]
  BY <1>6
<1>9. g[w] = n % Power[w]
  <2> DEFINE T == {i \in 0..w : g[i] = low[i]}
  <2>1. 0 \in T
    BY <1>4, <1>8
  <2>2. ASSUME NEW i \in 1..w, i - 1 \in T PROVE i \in T
    <3>1. i \in 0..w /\ i # 0 /\ g[i - 1] = low[i - 1]
      BY <2>2
    <3> HIDE DEF low
    <3>2. g[i] = low[i]
      BY <1>4, <1>8, <3>1
    <3> QED BY <3>1, <3>2
  <2> HIDE DEF T
  <2>3. 0..w \subseteq T
    <3>1. w \in Nat
      OBVIOUS
    <3> QED BY <2>1, <2>2, <3>1, CountingTo
  <2>4. w \in T
    BY <2>3
  <2> QED BY <2>4 DEF T
<1>10. at + w - 1 <= Len(data)
  BY <1>0, WriteIs DEF Found
<1>11. Len(data) \in Nat
  OBVIOUS
<1> QED BY <1>0, <1>7, <1>9, <1>10, <1>11 DEF ReadInteger

LEMMA NaturalRead ==
  ASSUME NEW w \in 1..8, NEW n \in Nat, n < Power[w], NEW data \in Seq(Nat),
         NEW at, Found(data, at, WriteInteger(n, w))
  PROVE  ReadInteger(data, at, w) = Got(n, at + w)
<1>1. Power[w] \in Nat \ {0}
  <2>1. w \in 0..8
    OBVIOUS
  <2> QED BY <2>1, PowerIs
<1>2. n = Power[w] * 0 + n /\ n \in 0..Power[w] - 1
  BY <1>1
<1>3. n % Power[w] = n
  BY <1>1, <1>2, Quotient
<1> QED BY <1>3, IntegerRead

LEMMA SignedRead ==
  ASSUME NEW n \in Int, -(Power[4] \div 2) <= n, n < Power[4] \div 2,
         NEW data \in Seq(Nat), NEW at, Found(data, at, WriteInteger(n, 4))
  PROVE  ReadInt32(data, at) = Got(n, at + 4)
<1> DEFINE half == Power[4] \div 2
           r == ReadInteger(data, at, 4)
<1>1. Power[4] \in Nat \ {0} /\ half \in Int
      /\ 2 * half <= Power[4] /\ Power[4] <= 2 * half + 1
  <2>1. Power[4] \in Nat \ {0}
    BY PowerIs
  <2> QED BY <2>1
<1>2. r = Got(n % Power[4], at + 4)
  BY IntegerRead
<1> HIDE DEF half
<1>3. CASE n >= 0
  <2>1. n = Power[4] * 0 + n /\ n \in 0..Power[4] - 1
    BY <1>1, <1>3 DEF half
  <2>2. n % Power[4] = n
    BY <1>1, <2>1, Quotient
  <2>3. r.ok /\ r.value = n /\ r.at = at + 4 /\ r = Got(n, at + 4)
    BY <1>2, <2>2 DEF Got
  <2>4. ~(r.value >= Power[4] \div 2)
    BY <1>1, <2>3 DEF half
  <2> HIDE DEF r
  <2> QED BY <2>3, <2>4 DEF ReadInt32, r
<1>4. CASE n < 0
  <2>1. n + Power[4] \in 0..Power[4] - 1 /\ n + Power[4] >= half
    BY <1>1, <1>4 DEF half
  <2>2. n = Power[4] * (-1) + (n + Power[4])
    BY <1>1
  <2>3. n % Power[4] = n + Power[4]
    <3>1. -1 \in Int
      OBVIOUS
    <3> QED BY <1>1, <2>1, <2>2, <3>1, Quotient
  <2>4. (n + Power[4]) - Power[4] = n
    BY <1>1
  <2>5. r.ok /\ r.value = n + Power[4] /\ r.at = at + 4
    BY <1>2, <2>3 DEF Got
  <2>6. r.value >= Power[4] \div 2
    BY <2>1, <2>5 DEF half
  <2> HIDE DEF r
  <2> QED BY <2>4, <2>5, <2>6 DEF ReadInt32, r
<1> QED BY <1>3, <1>4

----------------------------------------------------------------------------
(* Reads one after the other                                               *)

\* What is found as a whole is found in its parts.
LEMMA FoundParts ==
  ASSUME NEW data \in Seq(Nat), NEW at, NEW a \in Seq(Byte), NEW b \in Seq(Byte),
         Found(data, at, a \o b)
  PROVE  Found(data, at, a) /\ Found(data, at + Len(a), b)
<1>1. /\ Len(a) \in Nat /\ Len(b) \in Nat /\ Len(a \o b) = Len(a) + Len(b)
      /\ \A i \in 1..Len(a) : (a \o b)[i] = a[i]
      /\ \A i \in 1..Len(b) : (a \o b)[Len(a) + i] = b[i]
      /\ Len(data) \in Nat
  <2>1. \A i \in 1..Len(b) : (a \o b)[Len(a) + i] = b[i]
    OBVIOUS
  <2> QED BY <2>1
<1>2. at \in Nat \ {0} /\ at + Len(a) \in Nat \ {0}
  BY <1>1 DEF Found
<1>0. \A i \in 1..Len(a \o b) : data[at + i - 1] = (a \o b)[i]
  BY DEF Found
<1>3. \A i \in 1..Len(a) : data[at + i - 1] = a[i]
  <2>1. \A i \in 1..Len(a) : i \in 1..Len(a \o b)
    BY <1>1
  <2> QED BY <1>0, <1>1, <2>1
<1>4. ASSUME NEW i \in 1..Len(b) PROVE data[(at + Len(a)) + i - 1] = b[i]
  <2>1. Len(a) + i \in 1..Len(a \o b)
    BY <1>1
  <2>2. data[at + (Len(a) + i) - 1] = (a \o b)[Len(a) + i]
    BY <1>0, <2>1
  <2>3. at + (Len(a) + i) - 1 = (at + Len(a)) + i - 1
    BY <1>1, <1>2
  <2> QED BY <1>1, <2>2, <2>3
<1>5. at + Len(a \o b) - 1 <= Len(data)
  BY DEF Found
<1>6. /\ at + Len(a) - 1 <= Len(data)
      /\ (at + Len(a)) + Len(b) - 1 <= Len(data)
  BY <1>1, <1>2, <1>5
<1> QED BY <1>2, <1>3, <1>4, <1>6 DEF Found

\* f is a function with that domain.
Whole(f, domain) == f = [x \in domain |-> f[x]]

\* reads[i] gets vals[i] wherever its bytes es[i] are.
Gets(reads, es, vals, N, data) ==
    \A i \in 1..N : \A a \in Nat : Found(data, a, es[i]) =>
        reads[i][a] = Got(vals[i], a + Len(es[i]))

LEMMA ReadAllGets ==
  ASSUME NEW N \in Nat, NEW data \in Seq(Nat), NEW at, NEW reads, NEW vals,
         Len(reads) = N, NEW es \in [1..N -> Seq(Byte)],
         Gets(reads, es, vals, N, data), Found(data, at, FlattenSeq(es))
  PROVE  ReadAll(reads, at)
           = Got([i \in 1..N |-> vals[i]], at + Len(FlattenSeq(es)))
<1> DEFINE After(n, before) ==
             LET next == reads[n][before.at]
             IN IF before.ok /\ next.ok
                THEN Got(Append(before.value, next.value), next.at)
                ELSE RangeError
           Is(f) == f = [n \in 0..N |-> IF n = 0 THEN Got(<<>>, at)
                                        ELSE After(n, f[n - 1])]
           g == CHOOSE f : Is(f)
<1>1. PICK c \in [0..N -> Seq(Byte)] :
        /\ c[0] = <<>> /\ \A i \in 1..N : c[i] = c[i - 1] \o es[i]
        /\ FlattenSeq(es) = c[N]
  BY FlattenIs, ZenonT(60)
<1>2. at \in Nat \ {0}
  BY DEF Found
\* From the whole down, each prefix is there.
<1>3. \A n \in 0..N : Found(data, at, c[n])
  <2> DEFINE T == {n \in 0..N : Found(data, at, c[N - n])}
  <2>1. 0 \in T
    BY <1>1
  <2>2. ASSUME NEW n \in 1..N, n - 1 \in T PROVE n \in T
    <3>1. N - n + 1 \in 1..N /\ (N - n + 1) - 1 = N - n /\ N - (n - 1) = N - n + 1
          /\ N - n \in 0..N /\ n \in 0..N
      OBVIOUS
    <3>2. Found(data, at, c[N - n + 1])
      BY <2>2, <3>1
    <3>3. c[N - n + 1] = c[N - n] \o es[N - n + 1]
      BY <1>1, <3>1
    <3>4. c[N - n] \in Seq(Byte) /\ es[N - n + 1] \in Seq(Byte)
      BY <3>1
    <3>5. Found(data, at, c[N - n])
      BY <3>2, <3>3, <3>4, FoundParts
    <3> QED BY <3>1, <3>5
  <2> HIDE DEF T
  <2>3. 0..N \subseteq T
    BY <2>1, <2>2, CountingTo
  <2> SUFFICES ASSUME NEW n \in 0..N PROVE Found(data, at, c[n])
    OBVIOUS
  <2>4. N - n \in 0..N /\ N - (N - n) = n
    OBVIOUS
  <2>5. N - n \in T
    BY <2>3, <2>4
  <2> QED BY <2>4, <2>5 DEF T
<1> DEFINE V == {vals[i] : i \in 1..N}
           got == [n \in 0..N |-> Got([i \in 1..n |-> vals[i]], at + Len(c[n]))]
<1>4. ASSUME NEW n \in 1..N
      PROVE  got[n] = After(n, got[n - 1])
  <2> DEFINE before == Got([i \in 1..n - 1 |-> vals[i]], at + Len(c[n - 1]))
  <2>1. n \in 0..N /\ n - 1 \in 0..N
    OBVIOUS
  <2>2. got[n - 1] = before
    BY <2>1
  <2>3. c[n] = c[n - 1] \o es[n] /\ c[n - 1] \in Seq(Byte) /\ es[n] \in Seq(Byte)
    BY <1>1, <2>1
  <2>4. Found(data, at + Len(c[n - 1]), es[n])
    <3>1. Found(data, at, c[n])
      BY <1>3, <2>1
    <3> QED BY <2>3, <3>1, FoundParts
  <2>5. at + Len(c[n - 1]) \in Nat
    BY <1>2, <2>3
  <2>6. reads[n][at + Len(c[n - 1])]
          = Got(vals[n], (at + Len(c[n - 1])) + Len(es[n]))
    BY <2>4, <2>5 DEF Gets
  <2>7. After(n, before) = Got(Append([i \in 1..n - 1 |-> vals[i]], vals[n]),
                              (at + Len(c[n - 1])) + Len(es[n]))
    <3> DEFINE next == reads[n][before.at]
    <3>1. /\ before.ok /\ before.value = [i \in 1..n - 1 |-> vals[i]]
          /\ before.at = at + Len(c[n - 1])
      BY DEF Got
    <3>2. /\ next.ok /\ next.value = vals[n]
          /\ next.at = (at + Len(c[n - 1])) + Len(es[n])
      BY <2>6, <3>1 DEF Got
    <3> HIDE DEF before, next
    <3>3. After(n, before) = Got(Append(before.value, next.value), next.at)
      BY <3>1, <3>2 DEF next
    <3> QED BY <3>1, <3>2, <3>3
  <2>8. Append([i \in 1..n - 1 |-> vals[i]], vals[n]) = [i \in 1..n |-> vals[i]]
    <3>1. \A i \in 1..N : vals[i] \in V
      OBVIOUS
    <3> HIDE DEF V
    <3>2. n - 1 \in Nat /\ \A i \in 1..n - 1 : i \in 1..N
      OBVIOUS
    <3> DEFINE q == [i \in 1..n - 1 |-> vals[i]]
    <3>3. q \in Seq(V) /\ Len(q) = n - 1 /\ vals[n] \in V
      BY <3>1, <3>2
    <3>4. \A i \in 1..n - 1 : q[i] = vals[i]
      OBVIOUS
    <3> HIDE DEF q
    <3>5. /\ Append(q, vals[n]) \in Seq(V) /\ Len(Append(q, vals[n])) = n
          /\ \A i \in 1..n : Append(q, vals[n])[i] = vals[i]
      <4>1. Len(Append(q, vals[n])) = n
        BY <3>3
      <4>2. \A i \in 1..n - 1 : Append(q, vals[n])[i] = q[i]
        BY <3>3
      <4>3. Append(q, vals[n])[n] = vals[n]
        BY <3>3
      <4>4. \A i \in 1..n : i = n \/ i \in 1..n - 1
        OBVIOUS
      <4> QED BY <3>3, <3>4, <4>1, <4>2, <4>3, <4>4
    <3>6. Append(q, vals[n]) = [i \in 1..n |-> vals[i]]
      BY <3>5, SMTT(30)
    <3> QED BY <3>6 DEF q
  <2>9. (at + Len(c[n - 1])) + Len(es[n]) = at + Len(c[n])
    <3>1. Len(c[n]) = Len(c[n - 1]) + Len(es[n])
      BY <2>3
    <3> QED BY <1>2, <2>3, <3>1
  <2>10. got[n] = Got([i \in 1..n |-> vals[i]], at + Len(c[n]))
    BY <2>1
  <2> QED BY <2>2, <2>7, <2>8, <2>9, <2>10
<1>5. got[0] = Got(<<>>, at)
  <2>1. Len(c[0]) = 0 /\ at + 0 = at
    BY <1>1, <1>2
  <2>2. [i \in 1..0 |-> vals[i]] = <<>>
    OBVIOUS
  <2>3. got[0] = Got([i \in 1..0 |-> vals[i]], at + Len(c[0]))
    OBVIOUS
  <2> QED BY <2>1, <2>2, <2>3
<1> HIDE DEF got
<1>6. Is(got)
  <2>1. got = [n \in 0..N |-> got[n]]
    BY DEF got
  <2>2. \A n \in 0..N : got[n] = IF n = 0 THEN Got(<<>>, at)
                                 ELSE After(n, got[n - 1])
    <3>1. \A n \in 0..N : n # 0 => n \in 1..N
      OBVIOUS
    <3> HIDE DEF After
    <3> QED BY <1>4, <1>5, <3>1
  <2> HIDE DEF After
  <2> QED BY <2>1, <2>2
<1>7. Is(g)
  BY <1>6
<1>8. ReadAll(reads, at) = g[N]
  BY DEF ReadAll
<1> HIDE DEF g, After
<1>9. \A n \in 0..N : g[n] = IF n = 0 THEN Got(<<>>, at) ELSE After(n, g[n - 1])
  BY <1>7
<1>10. g[N] = got[N]
  <2> DEFINE T == {n \in 0..N : g[n] = got[n]}
  <2>1. 0 \in T
    BY <1>5, <1>9
  <2>2. ASSUME NEW n \in 1..N, n - 1 \in T PROVE n \in T
    <3>1. n \in 0..N /\ n # 0 /\ g[n - 1] = got[n - 1]
      BY <2>2
    <3>2. g[n] = got[n]
      BY <1>4, <1>9, <3>1
    <3> QED BY <3>1, <3>2
  <2> HIDE DEF T
  <2>3. 0..N \subseteq T
    BY <2>1, <2>2, CountingTo
  <2>4. N \in T
    BY <2>3
  <2> QED BY <2>4 DEF T
<1>11. got[N] = Got([i \in 1..N |-> vals[i]], at + Len(c[N]))
  BY DEF got
<1> QED BY <1>1, <1>8, <1>10, <1>11

LEMMA ReadAllIs ==
  ASSUME NEW N \in Nat, NEW data \in Seq(Nat), NEW at, NEW reads, NEW vals,
         Len(reads) = N, NEW es \in [1..N -> Seq(Byte)], Whole(vals, 1..N),
         Gets(reads, es, vals, N, data), NEW e, e = FlattenSeq(es),
         Found(data, at, e)
  PROVE  ReadAll(reads, at) = Got(vals, at + Len(e))
<1>1. ReadAll(reads, at)
        = Got([i \in 1..N |-> vals[i]], at + Len(FlattenSeq(es)))
  <2>1. Found(data, at, FlattenSeq(es))
    OBVIOUS
  <2> QED BY ONLY <2>1, ReadAllGets, N \in Nat, data \in Seq(Nat), Len(reads) = N,
              es \in [1..N -> Seq(Byte)], Gets(reads, es, vals, N, data)
<1>2. [i \in 1..N |-> vals[i]] = vals
  BY DEF Whole
<1> QED BY <1>1, <1>2

----------------------------------------------------------------------------
(* The fields and the reads are in step                                    *)

PlainTypes == {"u8", "u16", "u32", "i32", "bool", "text", "bytes"}

Types1 == PlainTypes \cup {"texts"}
Types2 == Types1 \cup {"properties"}
Types3 == Types2 \cup {"items"}

Structs1 == {"Property", "ControlProps", "TransportProps", "FolderProps", "Error",
             "AcquireResult", "ManagedObjects", "ObjectRemoved"}
Structs2 == Structs1 \cup {"PlayerProps", "ItemProps"}
Structs3 == Structs2 \cup {"FolderItems"}

Reader == [u8 |-> "readUint8", u16 |-> "readUint16", u32 |-> "readUint32",
           i32 |-> "readInt32", bool |-> "readBool", text |-> "readString",
           bytes |-> "readByteList", texts |-> "readStringList",
           properties |-> "readMediaPropertyList", items |-> "readMediaItemList"]

\* A list of fields and the reads of its constructor call.
Steps(fields, reads, N, types) ==
    /\ N \in Nat /\ Len(fields) = N /\ Len(reads) = N
    /\ DOMAIN fields = 1..N /\ DOMAIN reads = 1..N
    /\ \A i \in 1..N : /\ reads[i][1] = fields[i][1]
                       /\ fields[i][2] \in types
                       /\ reads[i][2] = Reader[fields[i][2]]
    /\ \A i, j \in 1..N : fields[i][1] = fields[j][1] => i = j

LEMMA StepsMore ==
  ASSUME NEW fields, NEW reads, NEW N, NEW T, NEW U, T \subseteq U,
         Steps(fields, reads, N, T)
  PROVE  Steps(fields, reads, N, U)
BY DEF Steps

LEMMA Structs ==
  /\ DOMAIN Fields = Structs3 /\ DOMAIN Reads = Structs3
  /\ DOMAIN Element = {"texts", "properties", "items"}
  /\ DOMAIN ListOf = {"readStringList", "readMediaPropertyList", "readMediaItemList"}
BY DEF Fields, Reads, Element, ListOf, Structs1, Structs2, Structs3

LEMMA InStepProperty == Steps(Fields["Property"], Reads["Property"], 2, Types1)
BY DEF Fields, Reads, PropertyFields, Steps, Types1, PlainTypes, Reader

LEMMA InStepControl ==
  Steps(Fields["ControlProps"], Reads["ControlProps"], 3, Types1)
BY DEF Fields, Reads, ControlFields, Steps, Types1, PlainTypes, Reader

LEMMA InStepTransport ==
  Steps(Fields["TransportProps"], Reads["TransportProps"], 9, Types1)
BY DEF Fields, Reads, TransportFields, TransportReads, Steps, Types1, PlainTypes,
       Reader

LEMMA InStepFolder == Steps(Fields["FolderProps"], Reads["FolderProps"], 3, Types1)
BY DEF Fields, Reads, FolderFields, Steps, Types1, PlainTypes, Reader

LEMMA InStepError == Steps(Fields["Error"], Reads["Error"], 3, Types1)
BY DEF Fields, Reads, ErrorFields, Steps, Types1, PlainTypes, Reader

LEMMA InStepAcquire ==
  Steps(Fields["AcquireResult"], Reads["AcquireResult"], 4, Types1)
BY DEF Fields, Reads, AcquireFields, Steps, Types1, PlainTypes, Reader

LEMMA InStepManaged ==
  Steps(Fields["ManagedObjects"], Reads["ManagedObjects"], 6, Types1)
BY DEF Fields, Reads, ManagedFields, ManagedReads, Steps, Types1, PlainTypes, Reader

LEMMA InStepRemoved ==
  Steps(Fields["ObjectRemoved"], Reads["ObjectRemoved"], 2, Types1)
BY DEF Fields, Reads, RemovedFields, Steps, Types1, PlainTypes, Reader

LEMMA InStepPlayer ==
  Steps(Fields["PlayerProps"], Reads["PlayerProps"], 16, Types2)
BY DEF Fields, Reads, PlayerFields, PlayerReads, Steps, Types2, Types1, PlainTypes,
       Reader

LEMMA InStepItem == Steps(Fields["ItemProps"], Reads["ItemProps"], 7, Types2)
BY DEF Fields, Reads, ItemFields, ItemReads, Steps, Types2, Types1, PlainTypes,
       Reader

LEMMA InStepItems == Steps(Fields["FolderItems"], Reads["FolderItems"], 2, Types3)
BY DEF Fields, Reads, FolderItemsFields, Steps, Types3, Types2, Types1, PlainTypes,
       Reader

LEMMA InStep ==
  /\ \A s \in Structs1 : \E N : Steps(Fields[s], Reads[s], N, Types1)
  /\ \A s \in Structs2 : \E N : Steps(Fields[s], Reads[s], N, Types2)
  /\ \A s \in Structs3 : \E N : Steps(Fields[s], Reads[s], N, Types3)
<1>1. \A s \in Structs1 : \E N : Steps(Fields[s], Reads[s], N, Types1)
  BY InStepProperty, InStepControl, InStepTransport, InStepFolder, InStepError,
     InStepAcquire, InStepManaged, InStepRemoved DEF Structs1
<1>2. Types1 \subseteq Types2 /\ Types2 \subseteq Types3
  BY DEF Types2, Types3
<1>3. \A s \in Structs2 : \E N : Steps(Fields[s], Reads[s], N, Types2)
  BY <1>1, <1>2, StepsMore, InStepPlayer, InStepItem DEF Structs2
<1>4. \A s \in Structs3 : \E N : Steps(Fields[s], Reads[s], N, Types3)
  BY <1>2, <1>3, StepsMore, InStepItems DEF Structs3
<1> QED BY <1>1, <1>3, <1>4

----------------------------------------------------------------------------
(* Values come back                                                        *)

LEMMA Joins ==
  ASSUME NEW S, NEW a \in Seq(S), NEW b \in Seq(S)
  PROVE  /\ a \o b \in Seq(S) /\ Len(a \o b) = Len(a) + Len(b)
         /\ Len(a) \in Nat /\ Len(b) \in Nat
OBVIOUS

LEMMA PlainTrip ==
  ASSUME NEW type \in PlainTypes, NEW v, HoldsPlain(type, v)
  PROVE  /\ EncodePlain(type, v) \in Seq(Byte)
         /\ \A data \in Seq(Nat) : \A at \in Nat :
              Found(data, at, EncodePlain(type, v)) =>
                ReadPlain(Reader[type], data, at)
                  = Got(v, at + Len(EncodePlain(type, v)))
<1> DEFINE e == EncodePlain(type, v)
<1>0. Width = [u8 |-> 1, u16 |-> 2, i32 |-> 4, u32 |-> 4, u64 |-> 8]
  BY DEF Width
<1>1. CASE type = "bool"
  <2>1. v \in BOOLEAN /\ e = <<IF v THEN 1 ELSE 0>>
    BY <1>1 DEF HoldsPlain, EncodePlain
  <2> DEFINE n == IF v THEN 1 ELSE 0
  <2>2. n \in Nat /\ n < Power[1] /\ n \in Byte
    <3>1. Power[1] = ByteBase
      BY PowerIs, ByteAssumption
    <3> QED BY <3>1, ByteAssumption DEF Byte
  <2>3. e = WriteInteger(n, 1)
    <3>1. 1 \in 0..8 /\ n \in Int
      BY <2>2
    <3>2. /\ WriteInteger(n, 1) \in Seq(Byte) /\ Len(WriteInteger(n, 1)) = 1
          /\ WriteInteger(n, 1)[1] = (n \div Power[1 - 1]) % ByteBase
      <4>1. /\ WriteInteger(n, 1) \in Seq(Byte) /\ Len(WriteInteger(n, 1)) = 1
            /\ \A i \in 1..1 : WriteInteger(n, 1)[i]
                               = (n \div Power[i - 1]) % ByteBase
        BY <3>1, WriteIs
      <4>2. 1 \in 1..1
        OBVIOUS
      <4> QED BY <4>1, <4>2
    <3>3. (n \div Power[1 - 1]) % ByteBase = n
      <4>1. 1 - 1 = 0 /\ Power[0] = 1
        BY PowerIs
      <4> HIDE DEF n
      <4>2. n \div 1 = n
        BY <2>2
      <4>3. n \in 0..ByteBase - 1 /\ ByteBase \in Nat \ {0} /\ n = ByteBase * 0 + n
        BY <2>2, ByteAssumption DEF Byte
      <4>4. n % ByteBase = n
        BY <4>3, Quotient
      <4> QED BY <4>1, <4>2, <4>4
    <3>4. WriteInteger(n, 1) = <<n>>
      BY <3>2, <3>3
    <3> QED BY <2>1, <3>4
  <2>4. e \in Seq(Byte) /\ Len(e) = 1
    BY <2>1, <2>2
  <2>5. ASSUME NEW data \in Seq(Nat), NEW at \in Nat, Found(data, at, e)
        PROVE  ReadPlain("readBool", data, at) = Got(v, at + 1)
    <3> DEFINE r == ReadInteger(data, at, 1)
    <3> HIDE DEF e
    <3>1. r = Got(n, at + 1)
      BY <2>2, <2>3, <2>5, NaturalRead
    <3>2. r.ok /\ r.value = n /\ r.at = at + 1
      BY <3>1 DEF Got
    <3>3. (r.value # 0) = v
      BY <2>1, <3>2
    <3> HIDE DEF r
    <3> QED BY <3>2, <3>3 DEF ReadPlain, r
  <2>6. Reader[type] = "readBool"
    BY <1>1 DEF Reader
  <2> QED BY <2>4, <2>5, <2>6
<1>2. CASE type \in {"u8", "u16", "u32"}
  <2> DEFINE w == Width[type]
  <2>1. type \in DOMAIN Width /\ type # "bool" /\ type # "i32" /\ w \in {1, 2, 4}
    BY <1>0, <1>2
  <2>2. v \in Nat /\ v < Power[w] /\ e = WriteInteger(v, w)
    BY <2>1 DEF HoldsPlain, EncodePlain
  <2> HIDE DEF w, e
  <2>3. w \in 0..8 /\ w \in 1..8 /\ v \in Int
    BY <2>1, <2>2
  <2>4. e \in Seq(Byte) /\ Len(e) = w
    BY <2>2, <2>3, WriteIs
  <2>5. ASSUME NEW data \in Seq(Nat), NEW at \in Nat, Found(data, at, e)
        PROVE  ReadInteger(data, at, w) = Got(v, at + w)
    BY <2>2, <2>3, <2>5, NaturalRead
  <2>6. \A data, at : ReadPlain(Reader[type], data, at) = ReadInteger(data, at, w)
    BY <1>2, <1>0 DEF Reader, ReadPlain, w
  <2> QED BY <2>4, <2>5, <2>6 DEF e
<1>3. CASE type = "i32"
  <2>1. type \in DOMAIN Width /\ type # "bool" /\ Width[type] = 4
    BY <1>0, <1>3
  <2>2. /\ v \in Int /\ -(Power[4] \div 2) <= v /\ v < Power[4] \div 2
        /\ e = WriteInteger(v, 4)
    BY <1>3, <2>1 DEF HoldsPlain, EncodePlain
  <2> HIDE DEF e
  <2>3. e \in Seq(Byte) /\ Len(e) = 4
    <3>1. 4 \in 0..8
      OBVIOUS
    <3> QED BY <2>2, <3>1, WriteIs
  <2>4. ASSUME NEW data \in Seq(Nat), NEW at \in Nat, Found(data, at, e)
        PROVE  ReadInt32(data, at) = Got(v, at + 4)
    BY <2>2, <2>4, SignedRead
  <2>5. \A data, at : ReadPlain(Reader[type], data, at) = ReadInt32(data, at)
    BY <1>3 DEF Reader, ReadPlain
  <2> QED BY <2>3, <2>4, <2>5 DEF e
<1>4. CASE type \in {"text", "bytes"}
  <2>1. type \notin DOMAIN Width /\ type # "bool" /\ type # "i32"
    BY <1>0, <1>4
  <2>2. v \in Seq(Byte) /\ Len(v) < Power[4] /\ e = WriteCount(Len(v)) \o v
    BY <2>1 DEF HoldsPlain, EncodePlain
  <2> DEFINE head == WriteInteger(Len(v), 4)
  <2>3. e = head \o v
    BY <1>0, <2>2 DEF WriteCount
  <2> HIDE DEF e, head
  <2>4. Len(v) \in Nat /\ 4 \in 0..8 /\ 4 \in 1..8
    BY <2>2
  <2>5. head \in Seq(Byte) /\ Len(head) = 4
    BY <2>4, WriteIs DEF head
  <2>6. e \in Seq(Byte) /\ Len(e) = 4 + Len(v)
    BY <2>2, <2>3, <2>5, Joins
  <2>7. ASSUME NEW data \in Seq(Nat), NEW at \in Nat, Found(data, at, e)
        PROVE  ReadBytes(data, at) = Got(v, at + (4 + Len(v)))
    <3> DEFINE count == ReadInteger(data, at, 4)
               end == (at + 4) + Len(v)
    <3>1. Found(data, at, head) /\ Found(data, at + 4, v)
      BY <2>2, <2>3, <2>5, <2>7, FoundParts
    <3>2. count = Got(Len(v), at + 4)
      BY <2>2, <2>4, <3>1, NaturalRead DEF head
    <3>3. count.ok /\ count.value = Len(v) /\ count.at = at + 4
      BY <3>2 DEF Got
    <3>4. /\ end - 1 <= Len(data) /\ Len(data) \in Nat
          /\ \A i \in 1..Len(v) : data[(at + 4) + i - 1] = v[i]
      <4>1. /\ (at + 4) + Len(v) - 1 <= Len(data)
            /\ \A i \in 1..Len(v) : data[(at + 4) + i - 1] = v[i]
        BY <3>1, Zenon DEF Found
      <4>2. Len(data) \in Nat
        OBVIOUS
      <4> QED BY <4>1, <4>2
    <3>5. SubSeq(data, at + 4, end - 1) = v
      <4> DEFINE s == SubSeq(data, at + 4, end - 1)
      <4>1. at + 4 \in 1..Len(data) + 1 /\ end - 1 \in (at + 4) - 1..Len(data)
        BY <2>4, <3>4
      <4>2. s \in Seq(Byte) /\ Len(s) = Len(v)
            /\ \A i \in 1..Len(v) : s[i] = data[(at + 4) + i - 1]
        <5>1. (end - 1) - (at + 4) + 1 = Len(v)
          BY <2>4
        <5>2. s = [i \in 1..Len(v) |-> data[(at + 4) + i - 1]]
          BY <5>1 DEF SubSeq
        <5>3. \A i \in 1..Len(v) : data[(at + 4) + i - 1] \in Byte
          <6>1. \A i \in 1..Len(v) : v[i] \in Byte
            BY <2>2
          <6> QED BY <3>4, <6>1
        <5> HIDE DEF s
        <5> QED BY <2>4, <5>2, <5>3
      <4> HIDE DEF s
      <4>3. \A i \in 1..Len(v) : s[i] = v[i]
        BY <3>4, <4>2
      <4>4. s = v
        BY <2>2, <4>2, <4>3, SeqEqual
      <4> QED BY <4>4 DEF s
    <3>6. end = at + (4 + Len(v)) /\ ~(end - 1 > Len(data))
      BY <2>4, <3>4
    <3>7. end = count.at + count.value
      BY <3>3, Zenon
    <3> HIDE DEF count, end
    <3> QED BY <3>3, <3>5, <3>6, <3>7 DEF ReadBytes, count
  <2>8. \A data, at : ReadPlain(Reader[type], data, at) = ReadBytes(data, at)
    BY <1>4 DEF Reader, ReadPlain
  <2>9. \A data \in Seq(Nat) : \A at \in Nat : Found(data, at, e) =>
          ReadPlain(Reader[type], data, at) = Got(v, at + Len(e))
    BY <2>6, <2>7, <2>8
  <2> QED BY <2>6, <2>9 DEF e
<1> QED BY <1>1, <1>2, <1>3, <1>4 DEF PlainTypes

Counted(es, N) == WriteCount(N) \o FlattenSeq(es)

\* A count and that many values.
LEMMA ListRead ==
  ASSUME NEW N \in Nat, N < Power[4], NEW data \in Seq(Nat), NEW at \in Nat,
         NEW reads,
         NEW vals, Len(reads) = N, NEW es \in [1..N -> Seq(Byte)],
         Whole(vals, 1..N), Gets(reads, es, vals, N, data), Found(data, at, Counted(es, N))
  PROVE  /\ ReadInteger(data, at, 4) = Got(N, at + 4)
         /\ ReadAll(reads, at + 4) = Got(vals, at + Len(Counted(es, N)))
<1> DEFINE head == WriteInteger(N, 4)
           rest == FlattenSeq(es)
           e == Counted(es, N)
<1>1. e = head \o rest
  BY DEF Counted, WriteCount, Width
<1>2. 4 \in 0..8 /\ 4 \in 1..8 /\ N \in Int
  OBVIOUS
<1>3. head \in Seq(Byte) /\ Len(head) = 4
  BY <1>2, WriteIs
<1>4. rest \in Seq(Byte)
  <2>1. PICK c \in [0..N -> Seq(Byte)] :
          /\ c[0] = <<>> /\ \A i \in 1..N : c[i] = c[i - 1] \o es[i]
          /\ FlattenSeq(es) = c[N]
    BY FlattenIs, ZenonT(60)
  <2> QED BY <2>1
<1> HIDE DEF head, rest, e
<1>5. Found(data, at, head) /\ Found(data, at + 4, rest)
  <2>1. Found(data, at, e)
    BY DEF e
  <2> QED BY <1>1, <1>3, <1>4, <2>1, FoundParts
<1>6. ReadInteger(data, at, 4) = Got(N, at + 4)
  BY <1>2, <1>5, NaturalRead DEF head
<1>7. ReadAll(reads, at + 4) = Got(vals, (at + 4) + Len(rest))
  <2> DEFINE from == at + 4
  <2>1. Found(data, from, rest)
    BY <1>5
  <2> HIDE DEF from
  <2>2. ReadAll(reads, from) = Got(vals, from + Len(rest))
    BY <2>1, ReadAllIs DEF rest
  <2> QED BY <2>2 DEF from
<1>8. at \in Nat
  BY <1>5 DEF Found
<1>9. (at + 4) + Len(rest) = at + Len(e)
  <2>1. Len(e) = Len(head) + Len(rest) /\ Len(rest) \in Nat
    BY <1>1, <1>3, <1>4, Joins
  <2> QED BY <1>3, <1>8, <2>1
<1> QED BY <1>6, <1>7, <1>9 DEF e

LEMMA Flattened ==
  ASSUME NEW N \in Nat, NEW es \in [1..N -> Seq(Byte)]
  PROVE  /\ FlattenSeq(es) \in Seq(Byte)
         /\ N < Power[4] => Counted(es, N) \in Seq(Byte)
<1>1. PICK c \in [0..N -> Seq(Byte)] :
        /\ c[0] = <<>> /\ \A i \in 1..N : c[i] = c[i - 1] \o es[i]
        /\ FlattenSeq(es) = c[N]
  BY FlattenIs, ZenonT(60)
<1>2. FlattenSeq(es) \in Seq(Byte)
  BY <1>1
<1>3. WriteCount(N) \in Seq(Byte)
  <2>1. 4 \in 0..8 /\ N \in Int
    OBVIOUS
  <2>2. WriteInteger(N, 4) \in Seq(Byte)
    BY <2>1, WriteIs
  <2> QED BY <2>2 DEF WriteCount, Width
<1> QED BY <1>2, <1>3 DEF Counted

\* A struct is put together from its fields.
Values(fields, v, N) == [i \in 1..N |-> v[fields[i][1]]]

AsRecord(reads, vals) ==
    [n \in Names(reads) |-> vals[CHOOSE i \in DOMAIN reads : reads[i][1] = n]]

LEMMA Rebuilt ==
  ASSUME NEW fields, NEW reads, NEW N, NEW T, Steps(fields, reads, N, T), NEW v,
         Whole(v, Names(fields))
  PROVE  AsRecord(reads, Values(fields, v, N)) = v
<1> DEFINE vals == Values(fields, v, N)
<1>1. Names(reads) = Names(fields)
  BY DEF Steps, Names
<1>2. ASSUME NEW n \in Names(fields)
      PROVE  vals[CHOOSE i \in DOMAIN reads : reads[i][1] = n] = v[n]
  <2> DEFINE k == CHOOSE i \in DOMAIN reads : reads[i][1] = n
  <2>1. \E i \in DOMAIN reads : reads[i][1] = n
    BY DEF Steps, Names
  <2>2. k \in 1..N /\ fields[k][1] = n
    <3>1. k \in DOMAIN reads /\ reads[k][1] = n
      BY <2>1
    <3> HIDE DEF k
    <3> QED BY <3>1 DEF Steps
  <2> HIDE DEF k
  <2>3. vals[k] = v[n]
    BY <2>2 DEF Values
  <2> QED BY <2>3 DEF k
<1> HIDE DEF vals
<1>3. AsRecord(reads, vals) = [n \in Names(fields) |-> v[n]]
  BY <1>1, <1>2 DEF AsRecord
<1> QED BY <1>3 DEF Whole, vals

----------------------------------------------------------------------------
(* Structs come back                                                       *)

\* What Dart calls to read a value of the type.
What(type) == IF type \in Structs3 THEN type ELSE Reader[type]

LEMMA Lists ==
  /\ \A type \in PlainTypes : /\ type \notin DOMAIN Element /\ type \notin Structs3
                              /\ Reader[type] \notin DOMAIN ListOf
                              /\ Reader[type] \notin Structs3
                              /\ What(type) = Reader[type]
  /\ \A type \in {"texts", "properties", "items"} :
        /\ type \in DOMAIN Element /\ Reader[type] \in DOMAIN ListOf
        /\ ListOf[Reader[type]] = What(Element[type])
  /\ Element["texts"] = "text" /\ Element["properties"] = "Property"
  /\ Element["items"] = "ItemProps"
BY DEF Element, ListOf, Reader, PlainTypes, Structs1, Structs2, Structs3, What

LEMMA StructRead ==
  ASSUME NEW fields, NEW reading, NEW N \in Nat, NEW T, Steps(fields, reading, N, T),
         NEW v, Whole(v, Names(fields)), NEW data \in Seq(Nat), NEW at,
         NEW es \in [1..N -> Seq(Byte)], NEW reads, Len(reads) = N,
         Gets(reads, es, Values(fields, v, N), N, data),
         NEW e, e = FlattenSeq(es), Found(data, at, e),
         NEW r, r = ReadAll(reads, at)
  PROVE  r.ok /\ r.at = at + Len(e) /\ AsRecord(reading, r.value) = v
<1> DEFINE vals == Values(fields, v, N)
<1>1. Whole(vals, 1..N)
  BY DEF Whole, Values
<1> HIDE DEF vals
<1>2. Gets(reads, es, vals, N, data)
  BY DEF vals
<1>3. r = Got(vals, at + Len(e))
  BY <1>1, <1>2, ReadAllIs
<1>4. r.ok /\ r.at = at + Len(e) /\ r.value = vals
  BY <1>3 DEF Got
<1>5. AsRecord(reading, vals) = v
  BY Rebuilt DEF vals
<1> QED BY <1>4, <1>5

\* A field of a struct whose lists hold plain values.
LEMMA FieldTrip1 ==
  ASSUME NEW type \in Types1, NEW v, HoldsField(HoldsPlain, type, v), NEW e,
         e = EncodeField(EncodePlain, type, v)
  PROVE  /\ e \in Seq(Byte)
         /\ \A data \in Seq(Nat) : \A at \in Nat : Found(data, at, e) =>
              ReadField(ReadPlain, Reader[type], data, at) = Got(v, at + Len(e))
<1>1. CASE type \in PlainTypes
  <2>1. HoldsPlain(type, v) /\ e = EncodePlain(type, v)
    BY <1>1, Lists DEF HoldsField, EncodeField
  <2>2. \A data, at : ReadField(ReadPlain, Reader[type], data, at)
                        = ReadPlain(Reader[type], data, at)
    BY <1>1, Lists DEF ReadField
  <2>3. /\ e \in Seq(Byte)
        /\ \A data \in Seq(Nat) : \A at \in Nat : Found(data, at, e) =>
             ReadPlain(Reader[type], data, at) = Got(v, at + Len(e))
    BY <1>1, <2>1, PlainTrip
  <2> QED BY <2>2, <2>3
<1>2. CASE type \in {"texts"}
  <2> DEFINE elem == Element[type]
             what == What(elem)
             es == [i \in 1..Len(v) |-> EncodePlain(elem, v[i])]
  <2>1. /\ type \in DOMAIN Element /\ Reader[type] \in DOMAIN ListOf
        /\ ListOf[Reader[type]] = what /\ elem \in {"text"}
    BY <1>2, Lists
  <2>2. PICK N \in Nat :
        /\ N = Len(v) /\ N < Power[4] /\ Whole(v, 1..N)
        /\ \A i \in 1..N : HoldsPlain(elem, v[i])
    BY <2>1 DEF HoldsField, Whole
  <2>3. e = Counted(es, N)
    BY <2>1, <2>2 DEF EncodeField, Counted
  <2>4. \A i \in 1..N : /\ EncodePlain(elem, v[i]) \in Seq(Byte)
                        /\ \A data \in Seq(Nat) : \A at \in Nat :
                             Found(data, at, EncodePlain(elem, v[i])) =>
                               ReadPlain(what, data, at)
                                 = Got(v[i], at + Len(EncodePlain(elem, v[i])))
    BY <2>1, <2>2, PlainTrip, Lists DEF PlainTypes
  <2>5. es \in [1..N -> Seq(Byte)]
    BY <2>2, <2>4
  <2>6. \A i \in 1..N : es[i] = EncodePlain(elem, v[i])
    BY <2>2
  <2>7. \A data, at : ReadField(ReadPlain, Reader[type], data, at)
          = LET count == ReadInteger(data, at, 4)
            IN  IF ~count.ok THEN RangeError
                ELSE ReadAll([i \in 1..count.value |->
                                [a \in Nat |-> ReadPlain(what, data, a)]], count.at)
    BY <2>1 DEF ReadField
  <2> HIDE DEF es, elem, what
  <2>8. e \in Seq(Byte)
    BY <2>2, <2>3, <2>5, Flattened
  <2>9. ASSUME NEW data \in Seq(Nat), NEW at \in Nat, Found(data, at, e)
        PROVE  ReadField(ReadPlain, Reader[type], data, at) = Got(v, at + Len(e))
    <3> DEFINE reads == [i \in 1..N |-> [a \in Nat |-> ReadPlain(what, data, a)]]
               count == ReadInteger(data, at, 4)
    <3>1. Len(reads) = N
      BY <2>2
    <3>2. \A i \in 1..N : \A a \in Nat : reads[i][a] = ReadPlain(what, data, a)
      OBVIOUS
    <3> HIDE DEF reads, count
    <3>3. Gets(reads, es, v, N, data)
      BY <2>4, <2>6, <3>2 DEF Gets
    <3>4. /\ count = Got(N, at + 4)
          /\ ReadAll(reads, at + 4) = Got(v, at + Len(Counted(es, N)))
      <4>1. Whole(v, 1..N) /\ N \in Nat /\ N < Power[4]
        BY <2>2
      <4>2. Found(data, at, Counted(es, N))
        BY <2>3, <2>9
      <4> QED BY <2>5, <3>1, <3>3, <4>1, <4>2, ListRead DEF count
    <3>5. count.ok /\ count.value = N /\ count.at = at + 4
      BY <3>4 DEF Got
    <3>6. ReadField(ReadPlain, Reader[type], data, at) = ReadAll(reads, at + 4)
      BY <2>7, <3>5 DEF reads, count
    <3> QED BY <2>3, <3>4, <3>6
  <2> QED BY <2>8, <2>9
<1> QED BY <1>1, <1>2 DEF Types1, Types2, Types3

LEMMA StructTrip1 ==
  ASSUME NEW type \in PlainTypes \cup Structs1, NEW v, Holds1(type, v)
  PROVE  /\ Encode1(type, v) \in Seq(Byte)
         /\ \A data \in Seq(Nat) : \A at \in Nat : Found(data, at, Encode1(type, v)) =>
              Read1(What(type), data, at) = Got(v, at + Len(Encode1(type, v)))
<1> DEFINE e == Encode1(type, v)
<1>1. CASE type \in PlainTypes
  <2>1. HoldsPlain(type, v) /\ e = EncodePlain(type, v)
    BY <1>1, Lists, Structs DEF Holds1, HoldsStruct, Encode1, EncodeStruct
  <2>2. \A data, at : Read1(What(type), data, at) = ReadPlain(Reader[type], data, at)
    BY <1>1, Lists, Structs DEF Read1, ReadStruct
  <2> HIDE DEF e
  <2> QED BY <1>1, <2>1, <2>2, PlainTrip DEF e
<1>2. CASE type \in Structs1
  <2>0. type \in Structs3 /\ type \in DOMAIN Fields /\ type \in DOMAIN Reads
        /\ What(type) = type
    BY <1>2, Structs DEF Structs2, Structs3, What
  <2> DEFINE fields == Fields[type]
             reading == Reads[type]
  <2>1. PICK N : Steps(fields, reading, N, Types1)
    BY <1>2, InStep
  <2> DEFINE Of(i) == v[fields[i][1]]
             es == [i \in 1..Len(fields) |->
                      EncodeField(EncodePlain, fields[i][2], v[fields[i][1]])]
             vals == Values(fields, v, N)
  <2>2. /\ N \in Nat /\ Len(fields) = N /\ Len(reading) = N /\ DOMAIN fields = 1..N
        /\ \A i \in 1..N : /\ fields[i][2] \in Types1
                           /\ reading[i][2] = Reader[fields[i][2]]
    BY <2>1 DEF Steps
  <2>3. /\ Whole(v, Names(fields))
        /\ \A i \in DOMAIN fields : HoldsField(HoldsPlain, fields[i][2], v[fields[i][1]])
    BY <2>0 DEF Holds1, HoldsStruct, Whole
  <2>4. e = FlattenSeq(es)
    BY <2>0 DEF Encode1, EncodeStruct
  <2>5. \A data, at : Read1(What(type), data, at) =
          LET r == ReadAll([i \in 1..Len(reading) |->
                     [a \in Nat |-> ReadField(ReadPlain, reading[i][2], data, a)]], at)
          IN  IF ~r.ok THEN RangeError
              ELSE Got(AsRecord(reading, r.value), r.at)
    BY <2>0 DEF Read1, ReadStruct, AsRecord
  <2> HIDE DEF e, fields, reading
  <2>6. ASSUME NEW i \in 1..N
        PROVE  /\ es[i] \in Seq(Byte)
               /\ \A data \in Seq(Nat) : \A at \in Nat : Found(data, at, es[i]) =>
                    ReadField(ReadPlain, reading[i][2], data, at)
                      = Got(vals[i], at + Len(es[i]))
    <3>1. i \in DOMAIN fields /\ fields[i][2] \in Types1
          /\ reading[i][2] = Reader[fields[i][2]]
          /\ es[i] = EncodeField(EncodePlain, fields[i][2], v[fields[i][1]])
          /\ vals[i] = v[fields[i][1]]
      BY <2>2 DEF Values
    <3>2. HoldsField(HoldsPlain, fields[i][2], v[fields[i][1]])
      BY <2>3, <3>1
    <3> HIDE DEF es, vals
    <3>3. /\ HoldsField(HoldsPlain, fields[i][2], vals[i])
          /\ es[i] = EncodeField(EncodePlain, fields[i][2], vals[i])
      BY <3>1, <3>2
    <3> DEFINE field == fields[i][2]
               value == vals[i]
               bytes == es[i]
    <3>4. field \in Types1 /\ reading[i][2] = Reader[field]
      BY <3>1
    <3>5. HoldsField(HoldsPlain, field, value) /\ bytes = EncodeField(EncodePlain, field, value)
      BY <3>3
    <3> HIDE DEF field, value, bytes
    <3>6. /\ bytes \in Seq(Byte)
          /\ \A data \in Seq(Nat) : \A at \in Nat : Found(data, at, bytes) =>
               ReadField(ReadPlain, Reader[field], data, at) = Got(value, at + Len(bytes))
      BY <3>4, <3>5, FieldTrip1
    <3> QED BY <3>4, <3>6 DEF value, bytes
  <2>7. es \in [1..N -> Seq(Byte)]
    <3>1. DOMAIN es = 1..N /\ es = [i \in 1..N |-> es[i]]
      BY <2>2
    <3> HIDE DEF es
    <3> QED BY <2>6, <3>1
  <2> HIDE DEF es, vals
  <2>8. e \in Seq(Byte)
    BY <2>2, <2>4, <2>7, Flattened
  <2>9. ASSUME NEW data \in Seq(Nat), NEW at \in Nat, Found(data, at, e)
        PROVE  Read1(What(type), data, at) = Got(v, at + Len(e))
    <3> DEFINE reads == [i \in 1..Len(reading) |->
                           [a \in Nat |-> ReadField(ReadPlain, reading[i][2], data, a)]]
               r == ReadAll(reads, at)
    <3>1. Len(reads) = N
      BY <2>2
    <3>2. \A i \in 1..N : \A a \in Nat :
            reads[i][a] = ReadField(ReadPlain, reading[i][2], data, a)
      BY <2>2
    <3>3. Read1(What(type), data, at) =
            IF ~r.ok THEN RangeError
            ELSE Got(AsRecord(reading, r.value), r.at)
      BY <2>5
    <3> HIDE DEF reads
    <3>4. Gets(reads, es, vals, N, data)
      BY <2>6, <3>2 DEF Gets
    <3>5. r.ok /\ r.at = at + Len(e) /\ AsRecord(reading, r.value) = v
      <4>1. N \in Nat /\ Whole(v, Names(fields))
        BY <2>2, <2>3
      <4> HIDE DEF r
      <4> QED BY <2>1, <2>4, <2>7, <2>9, <3>1, <3>4, <4>1, StructRead DEF vals, r
    <3> HIDE DEF r
    <3> QED BY <3>3, <3>5
  <2> QED BY <2>8, <2>9 DEF e
<1> QED BY <1>1, <1>2

\* A field of a struct whose lists hold structs without structs.
LEMMA FieldTrip2 ==
  ASSUME NEW type \in Types2, NEW v, HoldsField(Holds1, type, v), NEW e,
         e = EncodeField(Encode1, type, v)
  PROVE  /\ e \in Seq(Byte)
         /\ \A data \in Seq(Nat) : \A at \in Nat : Found(data, at, e) =>
              ReadField(Read1, Reader[type], data, at) = Got(v, at + Len(e))
<1>1. CASE type \in PlainTypes
  <2>1. HoldsPlain(type, v) /\ e = EncodePlain(type, v)
    BY <1>1, Lists DEF HoldsField, EncodeField
  <2>2. \A data, at : ReadField(Read1, Reader[type], data, at)
                        = ReadPlain(Reader[type], data, at)
    BY <1>1, Lists DEF ReadField
  <2>3. /\ e \in Seq(Byte)
        /\ \A data \in Seq(Nat) : \A at \in Nat : Found(data, at, e) =>
             ReadPlain(Reader[type], data, at) = Got(v, at + Len(e))
    BY <1>1, <2>1, PlainTrip
  <2> QED BY <2>2, <2>3
<1>2. CASE type \in {"texts", "properties"}
  <2> DEFINE elem == Element[type]
             what == What(elem)
             es == [i \in 1..Len(v) |-> Encode1(elem, v[i])]
  <2>1. /\ type \in DOMAIN Element /\ Reader[type] \in DOMAIN ListOf
        /\ ListOf[Reader[type]] = what /\ elem \in {"text", "Property"}
    BY <1>2, Lists
  <2>2. PICK N \in Nat :
        /\ N = Len(v) /\ N < Power[4] /\ Whole(v, 1..N)
        /\ \A i \in 1..N : Holds1(elem, v[i])
    BY <2>1 DEF HoldsField, Whole
  <2>3. e = Counted(es, N)
    BY <2>1, <2>2 DEF EncodeField, Counted
  <2>4. \A i \in 1..N : /\ Encode1(elem, v[i]) \in Seq(Byte)
                        /\ \A data \in Seq(Nat) : \A at \in Nat :
                             Found(data, at, Encode1(elem, v[i])) =>
                               Read1(what, data, at)
                                 = Got(v[i], at + Len(Encode1(elem, v[i])))
    BY <2>1, <2>2, StructTrip1 DEF PlainTypes, Structs1, Structs2
  <2>5. es \in [1..N -> Seq(Byte)]
    BY <2>2, <2>4
  <2>6. \A i \in 1..N : es[i] = Encode1(elem, v[i])
    BY <2>2
  <2>7. \A data, at : ReadField(Read1, Reader[type], data, at)
          = LET count == ReadInteger(data, at, 4)
            IN  IF ~count.ok THEN RangeError
                ELSE ReadAll([i \in 1..count.value |->
                                [a \in Nat |-> Read1(what, data, a)]], count.at)
    BY <2>1 DEF ReadField
  <2> HIDE DEF es, elem, what
  <2>8. e \in Seq(Byte)
    BY <2>2, <2>3, <2>5, Flattened
  <2>9. ASSUME NEW data \in Seq(Nat), NEW at \in Nat, Found(data, at, e)
        PROVE  ReadField(Read1, Reader[type], data, at) = Got(v, at + Len(e))
    <3> DEFINE reads == [i \in 1..N |-> [a \in Nat |-> Read1(what, data, a)]]
               count == ReadInteger(data, at, 4)
    <3>1. Len(reads) = N
      BY <2>2
    <3>2. \A i \in 1..N : \A a \in Nat : reads[i][a] = Read1(what, data, a)
      OBVIOUS
    <3> HIDE DEF reads, count
    <3>3. Gets(reads, es, v, N, data)
      BY <2>4, <2>6, <3>2 DEF Gets
    <3>4. /\ count = Got(N, at + 4)
          /\ ReadAll(reads, at + 4) = Got(v, at + Len(Counted(es, N)))
      <4>1. Whole(v, 1..N) /\ N \in Nat /\ N < Power[4]
        BY <2>2
      <4>2. Found(data, at, Counted(es, N))
        BY <2>3, <2>9
      <4> QED BY <2>5, <3>1, <3>3, <4>1, <4>2, ListRead DEF count
    <3>5. count.ok /\ count.value = N /\ count.at = at + 4
      BY <3>4 DEF Got
    <3>6. ReadField(Read1, Reader[type], data, at) = ReadAll(reads, at + 4)
      BY <2>7, <3>5 DEF reads, count
    <3> QED BY <2>3, <3>4, <3>6
  <2> QED BY <2>8, <2>9
<1> QED BY <1>1, <1>2 DEF Types1, Types2, Types3

LEMMA StructTrip2 ==
  ASSUME NEW type \in PlainTypes \cup Structs2, NEW v, Holds2(type, v)
  PROVE  /\ Encode2(type, v) \in Seq(Byte)
         /\ \A data \in Seq(Nat) : \A at \in Nat : Found(data, at, Encode2(type, v)) =>
              Read2(What(type), data, at) = Got(v, at + Len(Encode2(type, v)))
<1> DEFINE e == Encode2(type, v)
<1>1. CASE type \in PlainTypes
  <2>1. HoldsPlain(type, v) /\ e = EncodePlain(type, v)
    BY <1>1, Lists, Structs DEF Holds2, HoldsStruct, Encode2, EncodeStruct
  <2>2. \A data, at : Read2(What(type), data, at) = ReadPlain(Reader[type], data, at)
    BY <1>1, Lists, Structs DEF Read2, ReadStruct
  <2> HIDE DEF e
  <2> QED BY <1>1, <2>1, <2>2, PlainTrip DEF e
<1>2. CASE type \in Structs2
  <2>0. type \in Structs3 /\ type \in DOMAIN Fields /\ type \in DOMAIN Reads
        /\ What(type) = type
    BY <1>2, Structs DEF Structs2, Structs3, What
  <2> DEFINE fields == Fields[type]
             reading == Reads[type]
  <2>1. PICK N : Steps(fields, reading, N, Types2)
    BY <1>2, InStep
  <2> DEFINE Of(i) == v[fields[i][1]]
             es == [i \in 1..Len(fields) |->
                      EncodeField(Encode1, fields[i][2], v[fields[i][1]])]
             vals == Values(fields, v, N)
  <2>2. /\ N \in Nat /\ Len(fields) = N /\ Len(reading) = N /\ DOMAIN fields = 1..N
        /\ \A i \in 1..N : /\ fields[i][2] \in Types2
                           /\ reading[i][2] = Reader[fields[i][2]]
    BY <2>1 DEF Steps
  <2>3. /\ Whole(v, Names(fields))
        /\ \A i \in DOMAIN fields : HoldsField(Holds1, fields[i][2], v[fields[i][1]])
    BY <2>0 DEF Holds2, HoldsStruct, Whole
  <2>4. e = FlattenSeq(es)
    BY <2>0 DEF Encode2, EncodeStruct
  <2>5. \A data, at : Read2(What(type), data, at) =
          LET r == ReadAll([i \in 1..Len(reading) |->
                     [a \in Nat |-> ReadField(Read1, reading[i][2], data, a)]], at)
          IN  IF ~r.ok THEN RangeError
              ELSE Got(AsRecord(reading, r.value), r.at)
    BY <2>0 DEF Read2, ReadStruct, AsRecord
  <2> HIDE DEF e, fields, reading
  <2>6. ASSUME NEW i \in 1..N
        PROVE  /\ es[i] \in Seq(Byte)
               /\ \A data \in Seq(Nat) : \A at \in Nat : Found(data, at, es[i]) =>
                    ReadField(Read1, reading[i][2], data, at)
                      = Got(vals[i], at + Len(es[i]))
    <3>1. i \in DOMAIN fields /\ fields[i][2] \in Types2
          /\ reading[i][2] = Reader[fields[i][2]]
          /\ es[i] = EncodeField(Encode1, fields[i][2], v[fields[i][1]])
          /\ vals[i] = v[fields[i][1]]
      BY <2>2 DEF Values
    <3>2. HoldsField(Holds1, fields[i][2], v[fields[i][1]])
      BY <2>3, <3>1
    <3> HIDE DEF es, vals
    <3>3. /\ HoldsField(Holds1, fields[i][2], vals[i])
          /\ es[i] = EncodeField(Encode1, fields[i][2], vals[i])
      BY <3>1, <3>2
    <3> DEFINE field == fields[i][2]
               value == vals[i]
               bytes == es[i]
    <3>4. field \in Types2 /\ reading[i][2] = Reader[field]
      BY <3>1
    <3>5. HoldsField(Holds1, field, value) /\ bytes = EncodeField(Encode1, field, value)
      BY <3>3
    <3> HIDE DEF field, value, bytes
    <3>6. /\ bytes \in Seq(Byte)
          /\ \A data \in Seq(Nat) : \A at \in Nat : Found(data, at, bytes) =>
               ReadField(Read1, Reader[field], data, at) = Got(value, at + Len(bytes))
      BY <3>4, <3>5, FieldTrip2
    <3> QED BY <3>4, <3>6 DEF value, bytes
  <2>7. es \in [1..N -> Seq(Byte)]
    <3>1. DOMAIN es = 1..N /\ es = [i \in 1..N |-> es[i]]
      BY <2>2
    <3> HIDE DEF es
    <3> QED BY <2>6, <3>1
  <2> HIDE DEF es, vals
  <2>8. e \in Seq(Byte)
    BY <2>2, <2>4, <2>7, Flattened
  <2>9. ASSUME NEW data \in Seq(Nat), NEW at \in Nat, Found(data, at, e)
        PROVE  Read2(What(type), data, at) = Got(v, at + Len(e))
    <3> DEFINE reads == [i \in 1..Len(reading) |->
                           [a \in Nat |-> ReadField(Read1, reading[i][2], data, a)]]
               r == ReadAll(reads, at)
    <3>1. Len(reads) = N
      BY <2>2
    <3>2. \A i \in 1..N : \A a \in Nat :
            reads[i][a] = ReadField(Read1, reading[i][2], data, a)
      BY <2>2
    <3>3. Read2(What(type), data, at) =
            IF ~r.ok THEN RangeError
            ELSE Got(AsRecord(reading, r.value), r.at)
      BY <2>5
    <3> HIDE DEF reads
    <3>4. Gets(reads, es, vals, N, data)
      BY <2>6, <3>2 DEF Gets
    <3>5. r.ok /\ r.at = at + Len(e) /\ AsRecord(reading, r.value) = v
      <4>1. N \in Nat /\ Whole(v, Names(fields))
        BY <2>2, <2>3
      <4> HIDE DEF r
      <4> QED BY <2>1, <2>4, <2>7, <2>9, <3>1, <3>4, <4>1, StructRead DEF vals, r
    <3> HIDE DEF r
    <3> QED BY <3>3, <3>5
  <2> QED BY <2>8, <2>9 DEF e
<1> QED BY <1>1, <1>2

\* A field of a struct whose lists hold those.
LEMMA FieldTrip3 ==
  ASSUME NEW type \in Types3, NEW v, HoldsField(Holds2, type, v), NEW e,
         e = EncodeField(Encode2, type, v)
  PROVE  /\ e \in Seq(Byte)
         /\ \A data \in Seq(Nat) : \A at \in Nat : Found(data, at, e) =>
              ReadField(Read2, Reader[type], data, at) = Got(v, at + Len(e))
<1>1. CASE type \in PlainTypes
  <2>1. HoldsPlain(type, v) /\ e = EncodePlain(type, v)
    BY <1>1, Lists DEF HoldsField, EncodeField
  <2>2. \A data, at : ReadField(Read2, Reader[type], data, at)
                        = ReadPlain(Reader[type], data, at)
    BY <1>1, Lists DEF ReadField
  <2>3. /\ e \in Seq(Byte)
        /\ \A data \in Seq(Nat) : \A at \in Nat : Found(data, at, e) =>
             ReadPlain(Reader[type], data, at) = Got(v, at + Len(e))
    BY <1>1, <2>1, PlainTrip
  <2> QED BY <2>2, <2>3
<1>2. CASE type \in {"texts", "properties", "items"}
  <2> DEFINE elem == Element[type]
             what == What(elem)
             es == [i \in 1..Len(v) |-> Encode2(elem, v[i])]
  <2>1. /\ type \in DOMAIN Element /\ Reader[type] \in DOMAIN ListOf
        /\ ListOf[Reader[type]] = what /\ elem \in {"text", "Property", "ItemProps"}
    BY <1>2, Lists
  <2>2. PICK N \in Nat :
        /\ N = Len(v) /\ N < Power[4] /\ Whole(v, 1..N)
        /\ \A i \in 1..N : Holds2(elem, v[i])
    BY <2>1 DEF HoldsField, Whole
  <2>3. e = Counted(es, N)
    BY <2>1, <2>2 DEF EncodeField, Counted
  <2>4. \A i \in 1..N : /\ Encode2(elem, v[i]) \in Seq(Byte)
                        /\ \A data \in Seq(Nat) : \A at \in Nat :
                             Found(data, at, Encode2(elem, v[i])) =>
                               Read2(what, data, at)
                                 = Got(v[i], at + Len(Encode2(elem, v[i])))
    BY <2>1, <2>2, StructTrip2 DEF PlainTypes, Structs1, Structs2
  <2>5. es \in [1..N -> Seq(Byte)]
    BY <2>2, <2>4
  <2>6. \A i \in 1..N : es[i] = Encode2(elem, v[i])
    BY <2>2
  <2>7. \A data, at : ReadField(Read2, Reader[type], data, at)
          = LET count == ReadInteger(data, at, 4)
            IN  IF ~count.ok THEN RangeError
                ELSE ReadAll([i \in 1..count.value |->
                                [a \in Nat |-> Read2(what, data, a)]], count.at)
    BY <2>1 DEF ReadField
  <2> HIDE DEF es, elem, what
  <2>8. e \in Seq(Byte)
    BY <2>2, <2>3, <2>5, Flattened
  <2>9. ASSUME NEW data \in Seq(Nat), NEW at \in Nat, Found(data, at, e)
        PROVE  ReadField(Read2, Reader[type], data, at) = Got(v, at + Len(e))
    <3> DEFINE reads == [i \in 1..N |-> [a \in Nat |-> Read2(what, data, a)]]
               count == ReadInteger(data, at, 4)
    <3>1. Len(reads) = N
      BY <2>2
    <3>2. \A i \in 1..N : \A a \in Nat : reads[i][a] = Read2(what, data, a)
      OBVIOUS
    <3> HIDE DEF reads, count
    <3>3. Gets(reads, es, v, N, data)
      BY <2>4, <2>6, <3>2 DEF Gets
    <3>4. /\ count = Got(N, at + 4)
          /\ ReadAll(reads, at + 4) = Got(v, at + Len(Counted(es, N)))
      <4>1. Whole(v, 1..N) /\ N \in Nat /\ N < Power[4]
        BY <2>2
      <4>2. Found(data, at, Counted(es, N))
        BY <2>3, <2>9
      <4> QED BY <2>5, <3>1, <3>3, <4>1, <4>2, ListRead DEF count
    <3>5. count.ok /\ count.value = N /\ count.at = at + 4
      BY <3>4 DEF Got
    <3>6. ReadField(Read2, Reader[type], data, at) = ReadAll(reads, at + 4)
      BY <2>7, <3>5 DEF reads, count
    <3> QED BY <2>3, <3>4, <3>6
  <2> QED BY <2>8, <2>9
<1> QED BY <1>1, <1>2 DEF Types1, Types2, Types3

LEMMA StructTrip3 ==
  ASSUME NEW type \in PlainTypes \cup Structs3, NEW v, Holds(type, v)
  PROVE  /\ Encode(type, v) \in Seq(Byte)
         /\ \A data \in Seq(Nat) : \A at \in Nat : Found(data, at, Encode(type, v)) =>
              Read(What(type), data, at) = Got(v, at + Len(Encode(type, v)))
<1> DEFINE e == Encode(type, v)
<1>1. CASE type \in PlainTypes
  <2>1. HoldsPlain(type, v) /\ e = EncodePlain(type, v)
    BY <1>1, Lists, Structs DEF Holds, HoldsStruct, Encode, EncodeStruct
  <2>2. \A data, at : Read(What(type), data, at) = ReadPlain(Reader[type], data, at)
    BY <1>1, Lists, Structs DEF Read, ReadStruct
  <2> HIDE DEF e
  <2> QED BY <1>1, <2>1, <2>2, PlainTrip DEF e
<1>2. CASE type \in Structs3
  <2>0. type \in Structs3 /\ type \in DOMAIN Fields /\ type \in DOMAIN Reads
        /\ What(type) = type
    BY <1>2, Structs DEF Structs2, Structs3, What
  <2> DEFINE fields == Fields[type]
             reading == Reads[type]
  <2>1. PICK N : Steps(fields, reading, N, Types3)
    BY <1>2, InStep
  <2> DEFINE Of(i) == v[fields[i][1]]
             es == [i \in 1..Len(fields) |->
                      EncodeField(Encode2, fields[i][2], v[fields[i][1]])]
             vals == Values(fields, v, N)
  <2>2. /\ N \in Nat /\ Len(fields) = N /\ Len(reading) = N /\ DOMAIN fields = 1..N
        /\ \A i \in 1..N : /\ fields[i][2] \in Types3
                           /\ reading[i][2] = Reader[fields[i][2]]
    BY <2>1 DEF Steps
  <2>3. /\ Whole(v, Names(fields))
        /\ \A i \in DOMAIN fields : HoldsField(Holds2, fields[i][2], v[fields[i][1]])
    BY <2>0 DEF Holds, HoldsStruct, Whole
  <2>4. e = FlattenSeq(es)
    BY <2>0 DEF Encode, EncodeStruct
  <2>5. \A data, at : Read(What(type), data, at) =
          LET r == ReadAll([i \in 1..Len(reading) |->
                     [a \in Nat |-> ReadField(Read2, reading[i][2], data, a)]], at)
          IN  IF ~r.ok THEN RangeError
              ELSE Got(AsRecord(reading, r.value), r.at)
    BY <2>0 DEF Read, ReadStruct, AsRecord
  <2> HIDE DEF e, fields, reading
  <2>6. ASSUME NEW i \in 1..N
        PROVE  /\ es[i] \in Seq(Byte)
               /\ \A data \in Seq(Nat) : \A at \in Nat : Found(data, at, es[i]) =>
                    ReadField(Read2, reading[i][2], data, at)
                      = Got(vals[i], at + Len(es[i]))
    <3>1. i \in DOMAIN fields /\ fields[i][2] \in Types3
          /\ reading[i][2] = Reader[fields[i][2]]
          /\ es[i] = EncodeField(Encode2, fields[i][2], v[fields[i][1]])
          /\ vals[i] = v[fields[i][1]]
      BY <2>2 DEF Values
    <3>2. HoldsField(Holds2, fields[i][2], v[fields[i][1]])
      BY <2>3, <3>1
    <3> HIDE DEF es, vals
    <3>3. /\ HoldsField(Holds2, fields[i][2], vals[i])
          /\ es[i] = EncodeField(Encode2, fields[i][2], vals[i])
      BY <3>1, <3>2
    <3> DEFINE field == fields[i][2]
               value == vals[i]
               bytes == es[i]
    <3>4. field \in Types3 /\ reading[i][2] = Reader[field]
      BY <3>1
    <3>5. HoldsField(Holds2, field, value) /\ bytes = EncodeField(Encode2, field, value)
      BY <3>3
    <3> HIDE DEF field, value, bytes
    <3>6. /\ bytes \in Seq(Byte)
          /\ \A data \in Seq(Nat) : \A at \in Nat : Found(data, at, bytes) =>
               ReadField(Read2, Reader[field], data, at) = Got(value, at + Len(bytes))
      BY <3>4, <3>5, FieldTrip3
    <3> QED BY <3>4, <3>6 DEF value, bytes
  <2>7. es \in [1..N -> Seq(Byte)]
    <3>1. DOMAIN es = 1..N /\ es = [i \in 1..N |-> es[i]]
      BY <2>2
    <3> HIDE DEF es
    <3> QED BY <2>6, <3>1
  <2> HIDE DEF es, vals
  <2>8. e \in Seq(Byte)
    BY <2>2, <2>4, <2>7, Flattened
  <2>9. ASSUME NEW data \in Seq(Nat), NEW at \in Nat, Found(data, at, e)
        PROVE  Read(What(type), data, at) = Got(v, at + Len(e))
    <3> DEFINE reads == [i \in 1..Len(reading) |->
                           [a \in Nat |-> ReadField(Read2, reading[i][2], data, a)]]
               r == ReadAll(reads, at)
    <3>1. Len(reads) = N
      BY <2>2
    <3>2. \A i \in 1..N : \A a \in Nat :
            reads[i][a] = ReadField(Read2, reading[i][2], data, a)
      BY <2>2
    <3>3. Read(What(type), data, at) =
            IF ~r.ok THEN RangeError
            ELSE Got(AsRecord(reading, r.value), r.at)
      BY <2>5
    <3> HIDE DEF reads
    <3>4. Gets(reads, es, vals, N, data)
      BY <2>6, <3>2 DEF Gets
    <3>5. r.ok /\ r.at = at + Len(e) /\ AsRecord(reading, r.value) = v
      <4>1. N \in Nat /\ Whole(v, Names(fields))
        BY <2>2, <2>3
      <4> HIDE DEF r
      <4> QED BY <2>1, <2>4, <2>7, <2>9, <3>1, <3>4, <4>1, StructRead DEF vals, r
    <3> HIDE DEF r
    <3> QED BY <3>3, <3>5
  <2> QED BY <2>8, <2>9 DEF e
<1> QED BY <1>1, <1>2

\* Dart gets of C++'s message what C++ had put into it, whatever precedes it:
\* for every struct, each field in its place and in full, also the lists in
\* lists (glz::encode, GlazeCodec.decode).
THEOREM RoundTrip ==
  ASSUME NEW type \in DOMAIN Fields, NEW v, Holds(type, v), NEW head \in Seq(Nat)
  PROVE  /\ Encode(type, v) \in Seq(Byte)
         /\ \E end : Decode(type, head \o Encode(type, v), Len(head)) = Got(v, end)
<1> DEFINE e == Encode(type, v)
           data == head \o e
<1>1. type \in Structs3 /\ What(type) = type
  BY Structs DEF What
<1>2. /\ e \in Seq(Byte)
      /\ \A d \in Seq(Nat) : \A at \in Nat : Found(d, at, e) =>
           Read(type, d, at) = Got(v, at + Len(e))
  BY <1>1, StructTrip3
<1> HIDE DEF e
<1>3. data \in Seq(Nat) /\ Len(data) = Len(head) + Len(e) /\ Len(e) \in Nat
      /\ Len(head) \in Nat
  <2>1. e \in Seq(Nat)
    BY <1>2, ByteAssumption DEF Byte
  <2> QED BY <1>2, <2>1, Joins
<1>4. \A i \in 1..Len(e) : (head \o e)[Len(head) + i] = e[i]
  BY <1>2
<1>5. Found(data, Len(head) + 1, e)
  <2>1. \A i \in 1..Len(e) : (Len(head) + 1) + i - 1 = Len(head) + i
    BY <1>3
  <2>2. Len(head) + 1 \in Nat \ {0} /\ (Len(head) + 1) + Len(e) - 1 <= Len(data)
    BY <1>3
  <2>3. \A i \in 1..Len(e) : data[(Len(head) + 1) + i - 1] = e[i]
    BY <1>4, <2>1
  <2> HIDE DEF data
  <2> QED BY <2>2, <2>3 DEF Found
<1>6. Len(head) + 1 \in Nat
  BY <1>3
<1> HIDE DEF data
<1>7. Decode(type, data, Len(head)) = Got(v, (Len(head) + 1) + Len(e))
  BY <1>2, <1>3, <1>5, <1>6 DEF Decode
<1> QED BY <1>2, <1>7 DEF e, data

----------------------------------------------------------------------------
(* The inductive invariant                                                 *)

Known == \E i \in DOMAIN Requests : request = Requests[i]

\* What a call of BlueZ can have answered.
IsReply(reply) ==
    \/ reply = Done
    \/ \E status \in {"ALREADY_EXISTS", "INVALID_ARGUMENT", "NOT_FOUND"} :
          reply = Returned(status)
    \/ \E name \in {OtherName, Failed}, text \in {<<>>, InvalidParameter} :
          reply = Threw(name, text)

\* The blocking call got past its checks.
Passed == /\ Blocking /\ ~NullArgument /\ ~NullRegistration
          /\ ~(OfProxy /\ request.path = <<>>)

\* The buffer of a blocking call that succeeded.
Filled(fd) == IF Buffered THEN out = Payload(request.path, fd) ELSE out = None

SyncStates ==
    /\ sync = [at |-> sync.at, status |-> sync.status, reply |-> sync.reply,
               fd |-> sync.fd, short |-> sync.short]
    /\ sync.short \in BOOLEAN
    /\ sync.at \in {"idle", "bluez", "holding", "releasing", "returned", "freed"}
    /\ sync.at \in {"idle", "bluez", "freed"} =>
          sync.status = "" /\ sync.reply = None /\ ~sync.short
    /\ sync.at \in {"bluez", "holding", "releasing"} => Passed
    /\ sync.at \in {"holding", "releasing"} =>
          /\ Op \in Acquires /\ sync.fd \in Fds
          /\ sync.reply = Done /\ sync.status = ""
    /\ sync.at = "holding" => ~sync.short
    /\ sync.at = "releasing" => sync.short
    /\ sync.at # "returned" => out = None
    /\ sync.at \notin {"holding", "releasing", "returned"} => sync.fd = None

SyncReturned ==
    sync.at = "returned" =>
      \/ /\ sync.reply = None /\ ~sync.short
         /\ sync.status \in {"INVALID_ARGUMENT", "OPERATION_FAILED"}
         /\ out = None /\ sync.fd = None
      \/ /\ IsReply(sync.reply) /\ ~sync.short
         /\ sync.status = StatusOf(sync.reply) /\ sync.status \in Statuses
         /\ sync.reply # Done => out = None /\ sync.fd = None
         /\ sync.reply = Done =>
               /\ Passed /\ Filled(sync.fd)
               /\ sync.fd \in IF Op \in Acquires THEN Fds ELSE {None}
      \/ /\ sync.reply = Done /\ sync.short
         /\ sync.status = "OPERATION_FAILED" /\ out = None /\ sync.fd = None

Owned ==
    /\ heap = (IF out = None THEN 0 ELSE 1)
    /\ fds = {sync.fd, async.fd} \ {None}
    /\ sync.fd = async.fd => sync.fd = None
    /\ fds \subseteq Fds

AsyncStates ==
    /\ async = [at |-> async.at, reply |-> async.reply, fd |-> async.fd]
    /\ async.at \in {"idle", "queued", "bluez", "answered"}
    /\ async.at # "answered" =>
          async.reply = None /\ async.fd = None /\ message = <<>> /\ view = None
    /\ async.at = "queued" => ~IsEvent
    /\ async.at = "bluez" =>
          ~IsEvent /\ Op # "UNKNOWN" /\ ~(OfProxy /\ Text(request.path) = <<>>)

\* The error a reply is reported with.
ErrorOf(reply) ==
    [objectPath |-> Text(request.path),
     name |-> IF reply.kind = "error" THEN reply.name ELSE ErrorName(reply.status),
     message |-> IF reply.kind = "error" THEN reply.text ELSE <<>>]

\* Refused before BlueZ was asked.
MessageRefused ==
    /\ async.reply = None /\ async.fd = None /\ ~IsEvent
    /\ \E path \in {<<>>, Text(request.path)} :
          message = <<32>> \o Encode("Error",
              [objectPath |-> path, name |-> InvalidArguments, message |-> <<>>])

MessageFailed ==
    /\ IsReply(async.reply) /\ async.reply # Done /\ async.fd = None /\ ~IsEvent
    /\ message = <<32>> \o Encode("Error", ErrorOf(async.reply))

MessageAcquired ==
    /\ async.reply = Done /\ Op \in Acquires
    /\ request.path # None /\ request.path # <<>>
    /\ \E fd \in Fds :
          /\ message = <<17>> \o (WriteInteger(fd, Width.u64) \o Payload(request.path, fd))
          /\ async.fd = fd \/ (async.fd = None /\ view # None /\ view.kind = "StateError")

MessageDone ==
    /\ async.reply = Done /\ async.fd = None /\ Op \notin Acquires
    /\ message =
          IF IsEvent
          THEN <<EventTag[request.argument]>>
                 \o Encode(request.argument,
                           Made(request, request.argument, request.path, None))
          ELSE IF Buffered THEN <<16>> \o Payload(Text(request.path), None)
          ELSE IF Op = "MPRIS_GET_COVER_ART" THEN <<16>> \o request.content
          ELSE <<255>> \o <<>>

MessageSent ==
    async.at = "answered" =>
        MessageRefused \/ MessageFailed \/ MessageAcquired \/ MessageDone

\* What Dart's future completes with.
ViewShown ==
    view # None =>
      /\ async.at = "answered"
      /\ view = [kind |-> view.kind, value |-> view.value]
      /\ view.kind = "exception" <=> async.reply # Done
      /\ view.kind = "exception" /\ async.reply # None =>
            view.value = ErrorOf(async.reply)
      /\ view.kind = "exception" /\ async.reply = None =>
            view.value.name = InvalidArguments
      /\ \/ view.kind \in {"exception", "value", "null"}
         \/ view.kind = "StateError" /\ Op \in Acquires
      /\ view.kind = "value" /\ Op \in Acquires => async.fd \in Fds
      /\ view.kind = "value" =>
            view.value = IF IsEvent THEN Made(request, request.argument, request.path, None)
                         ELSE IF Op = "MPRIS_GET_COVER_ART" THEN request.content
                         ELSE Made(request, Struct[Op], Text(request.path), async.fd)
      /\ Buffered => view.kind # "null"

IInv == /\ Known /\ SyncStates /\ SyncReturned /\ Owned
        /\ AsyncStates /\ MessageSent /\ ViewShown /\ alive \in BOOLEAN

----------------------------------------------------------------------------
(* What is sent is what is decoded                                         *)

LEMMA Bytes ==
  /\ Byte \subseteq Nat /\ \A t \in Seq(Byte) : t \in Seq(Nat)
  /\ \A n \in 0..14 : n \in Byte
  /\ Power[4] \in Nat /\ Power[4] > 1 /\ Power[4] <= Power[8] /\ Power[8] \in Nat
<1>1. Byte \subseteq Nat /\ \A n \in 0..14 : n \in Byte
  BY ByteAssumption, StandInAssumption DEF Byte
<1>2. ASSUME NEW t \in Seq(Byte) PROVE t \in Seq(Nat)
  <2>1. /\ Len(t) \in Nat /\ t = [i \in 1..Len(t) |-> t[i]]
        /\ \A i \in 1..Len(t) : t[i] \in Byte
    OBVIOUS
  <2>2. \A i \in 1..Len(t) : t[i] \in Nat
    BY <1>1, <2>1
  <2> QED BY <2>1, <2>2
<1>3. \A i \in 1..8 : Power[i] \in Nat /\ Power[i - 1] \in Nat /\ Power[i - 1] <= Power[i]
  <2> SUFFICES ASSUME NEW i \in 1..8
               PROVE  Power[i] \in Nat /\ Power[i - 1] \in Nat
                      /\ Power[i - 1] <= Power[i]
    OBVIOUS
  <2>1. i \in 0..8 /\ i - 1 \in 0..8
    OBVIOUS
  <2>2. Power[i] \in Nat /\ Power[i - 1] \in Nat /\ Power[i] = ByteBase * Power[i - 1]
    BY <2>1, PowerIs
  <2>3. \A x, b \in Nat : b >= 1 => x <= b * x
    OBVIOUS
  <2>4. ByteBase \in Nat /\ ByteBase >= 1
    BY ByteAssumption
  <2> QED BY <2>2, <2>3, <2>4
<1>4. Power[1] = ByteBase /\ ByteBase > 1 /\ ByteBase \in Nat
  BY PowerIs, ByteAssumption
<1>5. /\ Power[1] <= Power[2] /\ Power[2] <= Power[3] /\ Power[3] <= Power[4]
      /\ Power[4] <= Power[5] /\ Power[5] <= Power[6] /\ Power[6] <= Power[7]
      /\ Power[7] <= Power[8]
  <2>1. 2 - 1 = 1 /\ 3 - 1 = 2 /\ 4 - 1 = 3 /\ 5 - 1 = 4 /\ 6 - 1 = 5 /\ 7 - 1 = 6
        /\ 8 - 1 = 7
    OBVIOUS
  <2>2. {2, 3, 4, 5, 6, 7, 8} \subseteq 1..8
    OBVIOUS
  <2> QED BY <1>3, <2>1, <2>2
<1>6. \A i \in {1, 2, 3, 4, 5, 6, 7, 8} : Power[i] \in Nat
  BY <1>3
<1>7. Power[4] \in Nat /\ Power[4] > 1 /\ Power[4] <= Power[8] /\ Power[8] \in Nat
  BY <1>4, <1>5, <1>6
<1> QED BY <1>1, <1>2, <1>7

IsText(t) == t \in Seq(Byte) /\ Len(t) < Power[4]

LEMMA TextIs == \A t : Holds("text", t) <=> IsText(t)
<1>1. "text" \notin DOMAIN Fields /\ "text" \notin DOMAIN Width
  BY Structs DEF Structs1, Structs2, Structs3, Width
<1> QED BY <1>1 DEF Holds, HoldsStruct, HoldsPlain, IsText

LEMMA StandIns ==
  /\ IsText(<<>>) /\ IsText(InvalidArguments) /\ IsText(NotSupported)
  /\ IsText(AlreadyExists) /\ IsText(DoesNotExist) /\ IsText(Failed)
  /\ IsText(InvalidParameter) /\ IsText(OtherName)
<1>1. IsText(<<>>)
  BY Bytes DEF IsText
<1>2. \A n \in 0..14 : IsText(<<n>>)
  BY Bytes, SMTT(30) DEF IsText
<1> QED BY <1>1, <1>2 DEF InvalidArguments, NotSupported, AlreadyExists,
        DoesNotExist, Failed, InvalidParameter, OtherName

LEMMA ErrorHolds ==
  ASSUME NEW path, NEW name, NEW text, IsText(path), IsText(name), IsText(text)
  PROVE  Holds("Error", [objectPath |-> path, name |-> name, message |-> text])
<1> DEFINE e == [objectPath |-> path, name |-> name, message |-> text]
<1>1. "Error" \in DOMAIN Fields /\ Fields["Error"] = ErrorFields
  BY DEF Fields
<1>2. /\ DOMAIN ErrorFields = 1..3
      /\ ErrorFields[1] = <<"objectPath", "text">>
      /\ ErrorFields[2] = <<"name", "text">>
      /\ ErrorFields[3] = <<"message", "text">>
  BY DEF ErrorFields
<1>3. Names(ErrorFields) = {"objectPath", "name", "message"}
  BY <1>2 DEF Names
<1>4. e = [n \in Names(ErrorFields) |-> e[n]]
  BY <1>3
<1>5. \A t : IsText(t) => HoldsField(Holds2, "text", t)
  BY DEF HoldsField, HoldsPlain, Element, Width, IsText
<1>6. \A i \in 1..3 : HoldsField(Holds2, ErrorFields[i][2], e[ErrorFields[i][1]])
  BY <1>2, <1>5
<1> HIDE DEF e
<1> QED BY <1>1, <1>2, <1>4, <1>6 DEF Holds, HoldsStruct, e

\* Decoding after what precedes.
LEMMA Decodes ==
  ASSUME NEW type \in DOMAIN Fields, NEW v, Holds(type, v), NEW head \in Seq(Nat),
         NEW n, n = Len(head)
  PROVE  /\ Decode(type, head \o Encode(type, v), n).ok
         /\ Decode(type, head \o Encode(type, v), n).value = v
<1>1. PICK end : Decode(type, head \o Encode(type, v), Len(head)) = Got(v, end)
  BY RoundTrip
<1> QED BY <1>1 DEF Got

LEMMA TokenRead ==
  ASSUME NEW fd \in Fds, NEW p \in Seq(Byte)
  PROVE  /\ WriteInteger(fd, Width.u64) \in Seq(Byte)
         /\ Len(WriteInteger(fd, Width.u64)) = 8
         /\ ReadInteger(WriteInteger(fd, Width.u64) \o p, 1, 8).value = fd
<1> DEFINE e == WriteInteger(fd, 8)
           data == e \o p
<1>1. fd \in Nat /\ fd < Power[4]
  <2>1. fd \in Nat /\ Holds("i32", fd)
    BY FdAssumption
  <2>2. fd < Power[4] \div 2
    BY <2>1, Structs DEF Holds, HoldsStruct, HoldsPlain, Structs1, Structs2, Structs3
  <2> QED BY <2>1, <2>2, Bytes, SMTT(30)
<1>2. fd < Power[8] /\ 8 \in 0..8 /\ 8 \in 1..8 /\ fd \in Int
  BY <1>1, Bytes
<1>3. e \in Seq(Byte) /\ Len(e) = 8
  BY <1>2, WriteIs
<1>4. WriteInteger(fd, Width.u64) = e
  BY DEF Width
<1> HIDE DEF e
<1>5. data \in Seq(Nat) /\ Len(data) = 8 + Len(p) /\ Len(p) \in Nat
      /\ \A i \in 1..8 : data[i] = e[i]
  <2>1. data \in Seq(Byte) /\ Len(data) = 8 + Len(p) /\ Len(p) \in Nat
    BY <1>3, Joins
  <2>2. \A i \in 1..Len(e) : (e \o p)[i] = e[i]
    <3>1. p \in Seq(Byte) /\ Len(p) \in Nat /\ Len(e) \in Nat
      BY <1>3
    <3>2. \A i \in 1..Len(e) + Len(p) :
            (e \o p)[i] = IF i <= Len(e) THEN e[i] ELSE p[i - Len(e)]
      BY <1>3, <3>1, ConcatProperties
    <3> QED BY <3>1, <3>2
  <2> QED BY <1>3, <2>1, <2>2, Bytes
<1> HIDE DEF data
<1>6. Found(data, 1, e)
  BY <1>3, <1>5 DEF Found
<1>7. ReadInteger(data, 1, 8) = Got(fd, 1 + 8)
  BY <1>1, <1>2, <1>5, <1>6, NaturalRead, SMTT(30) DEF e
<1> QED BY <1>3, <1>4, <1>7 DEF Got, data

LEMMA StructNames ==
  /\ \A op \in DOMAIN Struct : Struct[op] \in DOMAIN Fields
  /\ Acquires \subseteq DOMAIN Struct
  /\ \A op \in Acquires : Struct[op] = "AcquireResult" /\ op # "GET_MANAGED_OBJECTS"
  /\ Struct["GET_MANAGED_OBJECTS"] = "ManagedObjects"
  /\ \A op \in {"EVENT", "MPRIS_GET_COVER_ART", "UNKNOWN"} \cup CoverFetches
                  \cup Registrations : op \notin DOMAIN Struct
  /\ "EVENT" \notin CoverFetches \cup Registrations
  /\ Acquires \cap PlayerSettings = {}
<1>1. DOMAIN Struct = {"PLAYER_GET_PROPERTIES", "CONTROL_GET_PROPERTIES",
         "TRANSPORT_GET_PROPERTIES", "FOLDER_GET_PROPERTIES", "FOLDER_SEARCH",
         "ITEM_GET_PROPERTIES", "FOLDER_LIST_ITEMS", "GET_MANAGED_OBJECTS",
         "TRANSPORT_ACQUIRE", "TRANSPORT_TRY_ACQUIRE"}
  BY DEF Struct
<1>2. \A op \in DOMAIN Struct : Struct[op] \in Structs3
  BY <1>1 DEF Struct, Structs1, Structs2, Structs3
<1>3. \A op \in Acquires : Struct[op] = "AcquireResult" /\ op # "GET_MANAGED_OBJECTS"
  BY DEF Struct, Acquires
<1>4. Struct["GET_MANAGED_OBJECTS"] = "ManagedObjects"
  BY DEF Struct
<1> QED BY <1>1, <1>2, <1>3, <1>4, Structs
        DEF Acquires, CoverFetches, Registrations, PlayerSettings

LEMMA Tags ==
  ASSUME NEW s \in DOMAIN EventTag
  PROVE  s \in DOMAIN Fields /\ EventTag[s] \in Nat /\ EventStruct(EventTag[s]) = s
<1>1. DOMAIN EventTag = {"PlayerProps", "ControlProps", "TransportProps", "FolderProps",
                         "ItemProps", "ObjectRemoved"}
  BY DEF EventTag
<1>2. s \in DOMAIN Fields
  BY <1>1, Structs DEF Structs1, Structs2, Structs3
<1>3. /\ EventStruct(1) = "PlayerProps" /\ EventStruct(2) = "ControlProps"
      /\ EventStruct(4) = "TransportProps" /\ EventStruct(5) = "FolderProps"
      /\ EventStruct(6) = "ItemProps" /\ EventStruct(126) = "ObjectRemoved"
  BY DEF EventStruct
<1>4. /\ EventTag["PlayerProps"] = 1 /\ EventTag["ControlProps"] = 2
      /\ EventTag["TransportProps"] = 4 /\ EventTag["FolderProps"] = 5
      /\ EventTag["ItemProps"] = 6 /\ EventTag["ObjectRemoved"] = 126
  BY DEF EventTag
<1> QED BY <1>1, <1>2, <1>3, <1>4

\* What the assumptions say of the request.
LEMMA Requested ==
  ASSUME Known
  PROVE  /\ IsText(Text(request.path)) /\ (request.path # None => IsText(request.path))
         /\ Buffered => \A fd \in IF Op \in Acquires THEN Fds ELSE {None} :
               Holds(Struct[Op], Made(request, Struct[Op], Text(request.path), fd))
         /\ IsEvent =>
              /\ request.path # None /\ request.argument \in DOMAIN EventTag
              /\ Holds(request.argument,
                       Made(request, request.argument, request.path, None))
         /\ Op = "MPRIS_GET_COVER_ART" => request.content \in Seq(Byte)
<1>1. PICK i \in DOMAIN Requests : request = Requests[i]
  BY DEF Known
<1>2. request.path = None \/ IsText(request.path)
  BY <1>1, RequestAssumption, TextIs
<1>3. IsText(Text(request.path)) /\ (request.path # None => IsText(request.path))
  BY <1>2, StandIns DEF Text
<1>4. Buffered => \A fd \in IF Op \in Acquires THEN Fds ELSE {None} :
         Holds(Struct[Op], Made(request, Struct[Op], Text(request.path), fd))
  BY <1>1, RequestAssumption DEF Op, Buffered
<1>5. IsEvent =>
        /\ request.path # None /\ request.argument \in DOMAIN EventTag
        /\ Holds(request.argument, Made(request, request.argument, request.path, None))
  BY <1>1, RequestAssumption DEF Op, IsEvent
<1>6. Op = "MPRIS_GET_COVER_ART" => request.content \in Seq(Byte)
  BY <1>1, RequestAssumption DEF Op
<1> QED BY <1>3, <1>4, <1>5, <1>6

\* The path is in the struct but for the managed objects.
LEMMA SamePayload ==
  ASSUME request.path # None \/ Op = "GET_MANAGED_OBJECTS", NEW fd
  PROVE  /\ Made(request, Struct[Op], request.path, fd)
              = Made(request, Struct[Op], Text(request.path), fd)
         /\ Payload(request.path, fd) = Payload(Text(request.path), fd)
<1>1. Made(request, Struct[Op], request.path, fd)
        = Made(request, Struct[Op], Text(request.path), fd)
  <2>1. CASE request.path # None
    BY <2>1 DEF Text
  <2>2. CASE Op = "GET_MANAGED_OBJECTS"
    <3>1. Struct[Op] = "ManagedObjects"
      BY <2>2, StructNames
    <3>2. \A path : Made(request, "ManagedObjects", path, fd)
                      = ManagedObjects(request.content)
      BY DEF Made
    <3> QED BY <3>1, <3>2
  <2> QED BY <2>1, <2>2
<1> QED BY <1>1 DEF Payload

LEMMA Sent ==
  ASSUME Known, Buffered, NEW fd \in IF Op \in Acquires THEN Fds ELSE {None}
  PROVE  LET p == Payload(Text(request.path), fd)
             v == Made(request, Struct[Op], Text(request.path), fd)
         IN  /\ p \in Seq(Byte)
             /\ Decode(Struct[Op], p, 0).ok /\ Decode(Struct[Op], p, 0).value = v
             /\ \A head \in Seq(Nat) : \A n : n = Len(head) =>
                  /\ Decode(Struct[Op], head \o p, n).ok
                  /\ Decode(Struct[Op], head \o p, n).value = v
<1> DEFINE p == Payload(Text(request.path), fd)
           v == Made(request, Struct[Op], Text(request.path), fd)
           type == Struct[Op]
<1>1. Holds(type, v) /\ type \in DOMAIN Fields
  BY Requested, StructNames DEF Buffered
<1>2. p = Encode(type, v)
  BY DEF Payload
<1> HIDE DEF p, v, type
<1>3. <<>> \in Seq(Nat) /\ Len(<<>>) = 0
  OBVIOUS
<1>4. p \in Seq(Byte)
  BY <1>1, <1>2, <1>3, RoundTrip
<1>5. \A head \in Seq(Nat) : \A n : n = Len(head) =>
        /\ Decode(type, head \o p, n).ok
        /\ Decode(type, head \o p, n).value = v
  BY <1>1, <1>2, Decodes
<1>6. <<>> \o p = p
  BY <1>4
<1>7. Decode(type, p, 0).ok /\ Decode(type, p, 0).value = v
  BY <1>3, <1>5, <1>6
<1> QED BY <1>4, <1>5, <1>7 DEF p, v, type

----------------------------------------------------------------------------
(* The inductive step                                                      *)

\* What a request says does not change.
LEMMA RequestSame ==
  ASSUME UNCHANGED request
  PROVE  /\ Op' = Op /\ (IsEvent' <=> IsEvent) /\ (Buffered' <=> Buffered)
         /\ (OfProxy' <=> OfProxy) /\ (Blocking' <=> Blocking) /\ (Known' <=> Known)
         /\ (NullArgument' <=> NullArgument)
         /\ (NullRegistration' <=> NullRegistration) /\ (Passed' <=> Passed)
<1>1. Op' = Op
  BY DEF Op
<1>2. /\ (IsEvent' <=> IsEvent) /\ (Buffered' <=> Buffered) /\ (OfProxy' <=> OfProxy)
      /\ (Known' <=> Known) /\ (NullArgument' <=> NullArgument)
      /\ (NullRegistration' <=> NullRegistration)
  BY <1>1 DEF IsEvent, Buffered, OfProxy, Known, NullArgument, NullRegistration
<1>3. Blocking' <=> Blocking
  BY <1>1, <1>2 DEF Blocking
<1> QED BY <1>1, <1>2, <1>3 DEF Passed

LEMMA PayloadSame ==
  ASSUME UNCHANGED request
  PROVE  \A path, fd : Payload(path, fd)' = Payload(path, fd)
BY RequestSame DEF Payload

\* The blocking call leaves the queued one alone.
LEMMA SyncFrame ==
  ASSUME UNCHANGED <<request, async, message, view>>,
         AsyncStates, MessageSent, ViewShown
  PROVE  AsyncStates' /\ MessageSent' /\ ViewShown'
<1>1. request' = request /\ async' = async /\ message' = message /\ view' = view
  OBVIOUS
<1>2. AsyncStates'
  BY <1>1, RequestSame DEF AsyncStates
<1>3. MessageRefused' <=> MessageRefused
  BY <1>1, RequestSame DEF MessageRefused
<1>4. MessageFailed' <=> MessageFailed
  BY <1>1, RequestSame DEF MessageFailed, IsReply, ErrorOf
<1>5. MessageAcquired' <=> MessageAcquired
  BY <1>1, RequestSame DEF MessageAcquired, Payload
<1>6. MessageDone' <=> MessageDone
  BY <1>1, RequestSame DEF MessageDone, Payload
<1>7. MessageSent'
  BY <1>1, <1>3, <1>4, <1>5, <1>6 DEF MessageSent
<1>8. ViewShown'
  BY <1>1, RequestSame DEF ViewShown, ErrorOf
<1> QED BY <1>2, <1>7, <1>8

\* And the other way round.
LEMMA AsyncFrame ==
  ASSUME UNCHANGED <<request, sync, out>>, SyncStates, SyncReturned
  PROVE  SyncStates' /\ SyncReturned'
<1>1. request' = request /\ sync' = sync /\ out' = out
  OBVIOUS
<1>2. SyncStates'
  BY <1>1, RequestSame DEF SyncStates
<1>3. StatusOf(sync.reply)' = StatusOf(sync.reply)
  BY <1>1, RequestSame DEF StatusOf
<1>4. Filled(sync.fd)' <=> Filled(sync.fd)
  BY <1>1, RequestSame DEF Filled, Payload
<1>5. IsReply(sync.reply)' <=> IsReply(sync.reply)
  BY <1>1 DEF IsReply
<1>6. SyncReturned'
  BY <1>1, <1>3, <1>4, <1>5, RequestSame DEF SyncReturned
<1> QED BY <1>2, <1>6

LEMMA RepliesAre ==
  /\ \A reply \in Replies : IsReply(reply)
  /\ IsReply(Threw(Failed, <<>>))
  /\ Op \in Acquires => \A reply \in Replies : reply = Done \/ reply.kind = "error"
<1>1. \A reply \in Replies : IsReply(reply)
  BY DEF Replies, IsReply
<1>2. IsReply(Threw(Failed, <<>>))
  BY DEF IsReply
<1>3. Op \in Acquires => \A reply \in Replies : reply = Done \/ reply.kind = "error"
  <2> SUFFICES ASSUME Op \in Acquires, NEW reply \in Replies
               PROVE  reply = Done \/ reply.kind = "error"
    OBVIOUS
  <2>1. Replies = {Done, Threw(OtherName, <<>>), Threw(Failed, InvalidParameter)}
    BY DEF Replies, Acquires, CoverFetches
  <2>2. \A name, text : Threw(name, text).kind = "error"
    BY DEF Threw
  <2> QED BY <2>1, <2>2
<1> QED BY <1>1, <1>2, <1>3

LEMMA ReplyIs ==
  ASSUME NEW reply, IsReply(reply)
  PROVE  /\ reply # None /\ IsText(reply.name) /\ IsText(reply.text)
         /\ reply.kind \in {"done", "error"}
         /\ IsText(ErrorName(reply.status))
         /\ StatusOf(reply) \in Statuses
         /\ StatusOf(reply) = "SUCCESS" <=> reply = Done
         /\ reply.kind = "done" /\ reply # Done =>
               reply.status \in {"ALREADY_EXISTS", "INVALID_ARGUMENT", "NOT_FOUND"}
<1> DEFINE R == [kind : {"done", "error"}, status : Statuses \cup {""},
                 name : Seq(Byte), text : Seq(Byte)]
<1>1. \A t \in {<<>>, InvalidArguments, NotSupported, AlreadyExists, DoesNotExist,
                Failed, InvalidParameter, OtherName} : IsText(t) /\ t \in Seq(Byte)
  BY StandIns DEF IsText
<1>2. \A status : IsText(ErrorName(status))
  BY <1>1 DEF ErrorName
<1>3. CASE reply = Done
  <2>1. reply \in R
    BY <1>1, <1>3 DEF Done, Statuses
  <2>2. /\ reply.kind = "done" /\ reply.status = "SUCCESS"
        /\ reply.name = <<>> /\ reply.text = <<>>
    BY <1>3 DEF Done
  <2> QED BY <1>1, <1>2, <1>3, <2>1, <2>2, NoneAssumption DEF StatusOf, Statuses
<1>4. ASSUME NEW status \in {"ALREADY_EXISTS", "INVALID_ARGUMENT", "NOT_FOUND"},
             reply = Returned(status)
      PROVE  reply \in R /\ reply.kind = "done" /\ reply.status = status
             /\ reply.name = <<>> /\ reply.text = <<>> /\ reply # Done
  <2>1. reply = [kind |-> "done", status |-> status, name |-> <<>>, text |-> <<>>]
    BY <1>4 DEF Returned, Done
  <2>2. reply.status # Done.status
    BY <2>1 DEF Done
  <2> QED BY <1>1, <2>1, <2>2 DEF Statuses
<1>5. ASSUME NEW name \in {OtherName, Failed}, NEW text \in {<<>>, InvalidParameter},
             reply = Threw(name, text)
      PROVE  reply \in R /\ reply.kind = "error" /\ reply.name = name
             /\ reply.text = text /\ reply # Done
  <2>1. reply.kind # Done.kind
    BY <1>5 DEF Threw, Done
  <2> QED BY <1>1, <1>5, <2>1 DEF Threw
<1>6. CASE \E status \in {"ALREADY_EXISTS", "INVALID_ARGUMENT", "NOT_FOUND"} :
             reply = Returned(status)
  BY <1>1, <1>2, <1>4, <1>6, NoneAssumption DEF StatusOf, Statuses
<1>7. CASE \E name \in {OtherName, Failed}, text \in {<<>>, InvalidParameter} :
             reply = Threw(name, text)
  BY <1>1, <1>2, <1>5, <1>7, NoneAssumption DEF StatusOf, Statuses
<1> QED BY <1>3, <1>6, <1>7 DEF IsReply

\* A blocking call and its caller.
LEMMA SyncCallStep == ASSUME IInv, SyncCall PROVE IInv'
<1>1. /\ sync = [at |-> sync.at, status |-> sync.status, reply |-> sync.reply,
                 fd |-> sync.fd, short |-> sync.short]
      /\ sync.status = "" /\ sync.reply = None /\ sync.short = FALSE
      /\ sync.fd = None /\ out = None
  BY DEF SyncCall, IInv, SyncStates
<1>2. /\ UNCHANGED <<request, alive, heap, async, message, view, fds>> /\ out' = None
      /\ Blocking
      /\ \/ /\ sync' = [sync EXCEPT !.at = "returned", !.status = "INVALID_ARGUMENT"]
         \/ /\ sync' = [sync EXCEPT !.at = "returned", !.status = "OPERATION_FAILED"]
         \/ /\ sync' = [sync EXCEPT !.at = "bluez"] /\ Passed
  BY DEF SyncCall, SyncReturns, Passed
<1>3. AsyncStates' /\ MessageSent' /\ ViewShown' /\ Known'
  BY <1>2, SyncFrame, RequestSame DEF IInv
<1>4. sync'.fd = None /\ sync'.reply = None /\ sync'.short = FALSE
  BY <1>1, <1>2
<1>5. Owned'
  BY <1>1, <1>2, <1>4 DEF IInv, Owned
<1>6. SyncStates'
  BY <1>1, <1>2, RequestSame DEF SyncStates
<1>7. SyncReturned'
  BY <1>1, <1>2 DEF SyncReturned
<1> QED BY <1>2, <1>3, <1>5, <1>6, <1>7 DEF IInv

LEMMA SyncReplyStep ==
  ASSUME IInv, NEW reply \in Replies, SyncReply(reply)
  PROVE  IInv'
<1>1. /\ sync = [at |-> sync.at, status |-> sync.status, reply |-> sync.reply,
                 fd |-> sync.fd, short |-> sync.short]
      /\ sync.at = "bluez" /\ sync.status = "" /\ sync.reply = None
      /\ sync.short = FALSE /\ sync.fd = None /\ out = None /\ Passed
      /\ Op \notin Acquires /\ heap = 0
  BY DEF SyncReply, IInv, SyncStates, Owned
<1>2. PICK memory \in BOOLEAN :
        IF reply = Done /\ Buffered
        THEN /\ WritePayload(Payload(request.path, None), memory)
             /\ Ended(reply, IF memory THEN "SUCCESS" ELSE "OPERATION_FAILED", memory)
        ELSE memory /\ Ended(reply, StatusOf(reply), TRUE) /\ UNCHANGED <<out, heap>>
  BY DEF SyncReply
<1>3. UNCHANGED <<request, alive, async, message, view, fds>>
  BY DEF SyncReply
<1>4. AsyncStates' /\ MessageSent' /\ ViewShown' /\ Known'
  BY <1>3, SyncFrame, RequestSame DEF IInv
<1>5. IsReply(reply) /\ StatusOf(reply) \in Statuses
      /\ (StatusOf(reply) = "SUCCESS" <=> reply = Done) /\ StatusOf(reply)' = StatusOf(reply)
      /\ (IsReply(reply)' <=> IsReply(reply))
  BY <1>3, RepliesAre, ReplyIs, RequestSame DEF StatusOf, IsReply
<1>6. CASE reply = Done /\ Buffered /\ memory
  <2>1. /\ out' = Payload(request.path, None) /\ heap' = 1
        /\ sync' = [at |-> "returned", status |-> "SUCCESS", reply |-> Done,
                    fd |-> None, short |-> FALSE]
    <3>1. memory = TRUE
      BY <1>6
    <3>2. /\ WritePayload(Payload(request.path, None), TRUE)
          /\ Ended(reply, "SUCCESS", TRUE)
      BY <1>2, <1>6, <3>1
    <3>3. sync' = [sync EXCEPT !.at = "returned", !.status = "SUCCESS",
                               !.reply = Done, !.short = FALSE]
      BY <1>6, <3>2 DEF Ended
    <3>4. out' = Payload(request.path, None) /\ heap' = 1
      <4>1. out' = Payload(request.path, None) /\ heap' = heap + 1
        BY <3>2, Zenon DEF WritePayload
      <4>2. heap = 0
        BY <1>1
      <4>3. heap' = 1
        BY <4>1, <4>2
      <4> QED BY <4>1, <4>3, Zenon
    <3>5. sync' = [at |-> "returned", status |-> "SUCCESS", reply |-> Done,
                   fd |-> sync.fd, short |-> FALSE]
      BY <1>1, <3>3
    <3> QED BY <1>1, <3>4, <3>5
  <2>2. Payload(request.path, None) # None
    <3>1. request.path # None \/ Op = "GET_MANAGED_OBJECTS"
      <4>1. Op \notin Registrations
        BY <1>6, StructNames DEF Buffered
      <4> QED BY <1>1, <4>1 DEF Passed, NullArgument
    <3>2. Payload(Text(request.path), None) \in Seq(Byte)
      BY <1>1, <1>6, Sent DEF IInv
    <3> QED BY <3>1, <3>2, SamePayload, NoneAssumption
  <2>3. Filled(sync.fd)'
    BY <1>3, <1>6, <2>1, RequestSame, PayloadSame DEF Filled
  <2>4. SyncStates' /\ Owned'
    BY <1>1, <1>3, <2>1, <2>2 DEF IInv, SyncStates, Owned
  <2>5. SyncReturned'
    BY <1>1, <1>3, <1>5, <1>6, <2>1, <2>3, RequestSame DEF SyncReturned
  <2> QED BY <1>3, <1>4, <2>4, <2>5 DEF IInv
<1>7. CASE reply = Done /\ Buffered /\ ~memory
  <2>1. /\ out' = None /\ heap' = 0
        /\ sync' = [at |-> "returned", status |-> "OPERATION_FAILED", reply |-> Done,
                    fd |-> None, short |-> TRUE]
    BY <1>1, <1>2, <1>7 DEF WritePayload, Ended
  <2>2. SyncStates' /\ Owned'
    BY <1>1, <1>3, <2>1 DEF IInv, SyncStates, Owned
  <2>3. SyncReturned'
    BY <2>1 DEF SyncReturned, Done
  <2> QED BY <1>3, <1>4, <2>2, <2>3 DEF IInv
<1>8. CASE ~(reply = Done /\ Buffered)
  <2>1. /\ out' = None /\ heap' = 0
        /\ sync' = [at |-> "returned", status |-> StatusOf(reply), reply |-> reply,
                    fd |-> None, short |-> FALSE]
    BY <1>1, <1>2, <1>8 DEF Ended
  <2>2. SyncStates' /\ Owned'
    BY <1>1, <1>3, <2>1 DEF IInv, SyncStates, Owned
  <2>3. SyncReturned'
    <3>1. reply = Done => Filled(sync.fd)'
      BY <1>3, <1>8, <2>1, RequestSame DEF Filled
    <3>2. sync'.status = StatusOf(sync.reply)' /\ IsReply(sync.reply)'
      BY <1>3, <1>5, <2>1, RequestSame DEF StatusOf, IsReply
    <3> QED BY <1>1, <1>3, <1>5, <2>1, <3>1, <3>2, RequestSame DEF SyncReturned
  <2> QED BY <1>3, <1>4, <2>2, <2>3 DEF IInv
<1> QED BY <1>6, <1>7, <1>8

LEMMA SyncAcquiredStep ==
  ASSUME IInv, NEW reply \in Replies, SyncAcquired(reply)
  PROVE  IInv'
<1>1. /\ sync = [at |-> sync.at, status |-> sync.status, reply |-> sync.reply,
                 fd |-> sync.fd, short |-> sync.short]
      /\ sync.at = "bluez" /\ sync.status = "" /\ sync.reply = None
      /\ sync.short = FALSE /\ sync.fd = None /\ out = None /\ Passed
      /\ Op \in Acquires /\ heap = 0
  BY DEF SyncAcquired, IInv, SyncStates, Owned
<1>2. UNCHANGED <<request, alive, out, heap, async, message, view>>
  BY DEF SyncAcquired
<1>3. AsyncStates' /\ MessageSent' /\ ViewShown' /\ Known'
  BY <1>2, SyncFrame, RequestSame DEF IInv
<1>4. ASSUME NEW answer, IsReply(answer), answer # Done, fds' = fds,
             Ended(answer, StatusOf(answer), TRUE)
      PROVE  IInv'
  <2>1. /\ IsReply(answer) /\ StatusOf(answer) \in Statuses
        /\ StatusOf(answer)' = StatusOf(answer)
    BY <1>2, <1>4, ReplyIs, RequestSame DEF StatusOf
  <2>2. sync' = [at |-> "returned", status |-> StatusOf(answer), reply |-> answer,
                 fd |-> None, short |-> FALSE]
    BY <1>1, <1>4 DEF Ended
  <2>3. SyncStates' /\ Owned'
    BY <1>1, <1>2, <1>4, <2>2 DEF IInv, SyncStates, Owned
  <2>4. sync'.status = StatusOf(sync.reply)' /\ IsReply(sync.reply)'
    BY <1>2, <2>1, <2>2, RequestSame DEF StatusOf, IsReply
  <2>5. SyncReturned'
    BY <1>1, <1>2, <1>4, <2>1, <2>2, <2>4 DEF SyncReturned
  <2> QED BY <1>2, <1>3, <2>3, <2>5 DEF IInv
<1>5. CASE reply = Done
  <2>1. CASE \E fd \in Fds \ fds :
               /\ sync' = [sync EXCEPT !.at = "holding", !.fd = fd, !.reply = reply]
               /\ fds' = fds \cup {fd}
    <3>1. PICK fd \in Fds \ fds :
            /\ sync' = [sync EXCEPT !.at = "holding", !.fd = fd, !.reply = reply]
            /\ fds' = fds \cup {fd}
      BY <2>1
    <3>2. sync' = [at |-> "holding", status |-> "", reply |-> Done, fd |-> fd,
                   short |-> FALSE]
      BY <1>1, <1>5, <3>1
    <3>3. SyncStates' /\ SyncReturned'
      BY <1>1, <1>2, <3>2, RequestSame DEF SyncStates, SyncReturned
    <3>4. Owned'
      BY <1>1, <1>2, <3>1, <3>2, NoneAssumption, ZenonT(60) DEF IInv, Owned
    <3> QED BY <1>2, <1>3, <3>3, <3>4 DEF IInv
  <2>2. CASE Ended(Threw(Failed, <<>>), "OPERATION_FAILED", TRUE) /\ UNCHANGED fds
    <3>1. IsReply(Threw(Failed, <<>>)) /\ Threw(Failed, <<>>) # Done
      BY RepliesAre DEF Threw, Done
    <3>2. StatusOf(Threw(Failed, <<>>)) = "OPERATION_FAILED"
      BY <1>1, StructNames DEF StatusOf, Threw
    <3> QED BY <1>4, <2>2, <3>1, <3>2
  <2> QED BY <1>5, <2>1, <2>2 DEF SyncAcquired
<1>6. CASE reply # Done
  <2>1. Ended(reply, StatusOf(reply), TRUE) /\ fds' = fds
    BY <1>6 DEF SyncAcquired
  <2> QED BY <1>4, <1>6, <2>1, RepliesAre
<1> QED BY <1>5, <1>6

\* The descriptor of the blocking call is closed.
LEMMA SyncCloses ==
  ASSUME Owned, sync.fd \in Fds, sync'.fd = None, UNCHANGED <<out, heap, async>>,
         fds' = fds \ {sync.fd}
  PROVE  Owned'
BY NoneAssumption DEF Owned

LEMMA SyncWriteStep == ASSUME IInv, SyncWrite PROVE IInv'
<1>1. /\ sync = [at |-> sync.at, status |-> sync.status, reply |-> sync.reply,
                 fd |-> sync.fd, short |-> sync.short]
      /\ sync.at = "holding" /\ sync.status = "" /\ sync.reply = Done
      /\ sync.short = FALSE /\ sync.fd \in Fds /\ out = None /\ Passed
      /\ Op \in Acquires /\ heap = 0
  BY DEF SyncWrite, IInv, SyncStates, Owned
<1>2. UNCHANGED <<request, alive, async, message, view>>
  BY DEF SyncWrite
<1>3. AsyncStates' /\ MessageSent' /\ ViewShown' /\ Known'
  BY <1>2, SyncFrame, RequestSame DEF IInv
<1>4. CASE /\ WritePayload(Payload(request.path, sync.fd), TRUE)
           /\ SyncReturns("SUCCESS") /\ UNCHANGED fds
  <2>1. Buffered /\ request.path # None
    <3>1. Op \notin Registrations /\ Op # "GET_MANAGED_OBJECTS" /\ Op \in DOMAIN Struct
      BY <1>1, StructNames
    <3> QED BY <1>1, <3>1 DEF Passed, NullArgument, Buffered
  <2>2. out' = Payload(request.path, sync.fd) /\ heap' = heap + 1
    BY <1>4, Zenon DEF WritePayload
  <2>3. heap' = 1
    <3>1. heap = 0
      BY <1>1
    <3> QED BY <2>2, <3>1
  <2>4. sync' = [at |-> "returned", status |-> "SUCCESS", reply |-> Done,
                 fd |-> sync.fd, short |-> FALSE]
    BY <1>1, <1>4 DEF SyncReturns
  <2>5. out' # None
    <3>1. Payload(Text(request.path), sync.fd) \in Seq(Byte)
      BY <1>1, <2>1, Sent DEF IInv
    <3> QED BY <2>1, <2>2, <3>1, SamePayload, NoneAssumption
  <2>6. SyncStates'
    BY <1>1, <1>2, <2>4, RequestSame DEF SyncStates
  <2>7. Owned'
    BY <1>1, <1>2, <1>4, <2>3, <2>4, <2>5 DEF IInv, Owned
  <2>8. Filled(sync.fd)'
    <3>1. sync'.fd = sync.fd
      BY <2>4
    <3> QED BY <1>2, <2>1, <2>2, <3>1, RequestSame, PayloadSame DEF Filled
  <2>9. /\ IsReply(Done) /\ StatusOf(Done) = "SUCCESS" /\ "SUCCESS" \in Statuses
    BY DEF IsReply, StatusOf, Done, Statuses
  <2>10. sync'.status = StatusOf(sync.reply)' /\ IsReply(sync.reply)'
    BY <2>4, <2>9 DEF StatusOf, IsReply, Done
  <2>11. SyncReturned'
    BY <1>1, <1>2, <2>4, <2>8, <2>9, <2>10, RequestSame DEF SyncReturned
  <2> QED BY <1>2, <1>3, <2>6, <2>7, <2>11 DEF IInv
<1>5. CASE /\ WritePayload(Payload(request.path, sync.fd), FALSE)
           /\ sync' = [sync EXCEPT !.at = "releasing", !.short = TRUE]
           /\ UNCHANGED fds
  <2>1. UNCHANGED <<out, heap>>
    BY <1>5 DEF WritePayload
  <2>2. sync' = [at |-> "releasing", status |-> "", reply |-> Done, fd |-> sync.fd,
                 short |-> TRUE]
    BY <1>1, <1>5
  <2>3. SyncStates' /\ SyncReturned'
    BY <1>1, <1>2, <2>1, <2>2, RequestSame DEF SyncStates, SyncReturned
  <2>4. Owned'
    BY <1>1, <1>2, <1>5, <2>1, <2>2 DEF IInv, Owned
  <2> QED BY <1>2, <1>3, <2>3, <2>4 DEF IInv
<1>6. CASE /\ sync' = [sync EXCEPT !.at = "returned", !.status = "OPERATION_FAILED",
                                   !.short = TRUE, !.fd = None]
           /\ fds' = fds \ {sync.fd} /\ UNCHANGED <<out, heap>>
  <2>1. sync' = [at |-> "returned", status |-> "OPERATION_FAILED", reply |-> Done,
                 fd |-> None, short |-> TRUE]
    BY <1>1, <1>6
  <2>2. SyncStates' /\ SyncReturned'
    BY <1>1, <1>2, <1>6, <2>1, RequestSame DEF SyncStates, SyncReturned, Done
  <2>3. Owned'
    BY <1>1, <1>2, <1>6, <2>1, SyncCloses DEF IInv
  <2> QED BY <1>2, <1>3, <2>2, <2>3 DEF IInv
<1> QED BY <1>4, <1>5, <1>6 DEF SyncWrite

LEMMA SyncReleasedStep == ASSUME IInv, SyncReleased PROVE IInv'
<1>1. /\ sync = [at |-> sync.at, status |-> sync.status, reply |-> sync.reply,
                 fd |-> sync.fd, short |-> sync.short]
      /\ sync.reply = Done /\ sync.short = TRUE /\ sync.fd \in Fds /\ out = None
  BY DEF SyncReleased, IInv, SyncStates
<1>2. /\ UNCHANGED <<request, alive, out, heap, async, message, view>>
      /\ fds' = fds \ {sync.fd}
  BY DEF SyncReleased
<1>3. AsyncStates' /\ MessageSent' /\ ViewShown' /\ Known'
  BY <1>2, SyncFrame, RequestSame DEF IInv
<1>4. sync' = [at |-> "returned", status |-> "OPERATION_FAILED", reply |-> Done,
               fd |-> None, short |-> TRUE]
  BY <1>1 DEF SyncReleased
<1>5. SyncStates' /\ SyncReturned'
  BY <1>1, <1>2, <1>4 DEF SyncStates, SyncReturned, Done
<1>6. Owned'
  BY <1>1, <1>2, <1>4, SyncCloses DEF IInv
<1> QED BY <1>2, <1>3, <1>5, <1>6 DEF IInv

LEMMA BufferFreeStep == ASSUME IInv, BufferFree PROVE IInv'
<1>1. /\ sync = [at |-> sync.at, status |-> sync.status, reply |-> sync.reply,
                 fd |-> sync.fd, short |-> sync.short]
      /\ heap = (IF out = None THEN 0 ELSE 1) /\ sync.fd \in Fds \cup {None}
  BY DEF BufferFree, IInv, SyncStates, SyncReturned, Owned
<1>2. /\ UNCHANGED <<request, alive, async, message, view>>
      /\ fds' = fds \ {sync.fd} /\ out' = None
      /\ heap' = heap - (IF out = None THEN 0 ELSE 1)
  BY DEF BufferFree, FreeBuffer
<1>3. AsyncStates' /\ MessageSent' /\ ViewShown' /\ Known'
  BY <1>2, SyncFrame, RequestSame DEF IInv
<1>4. sync' = [at |-> "freed", status |-> "", reply |-> None, fd |-> None,
               short |-> FALSE]
  BY <1>1 DEF BufferFree
<1>5. SyncStates' /\ SyncReturned'
  BY <1>2, <1>4 DEF SyncStates, SyncReturned
<1>6. heap' = 0
  BY <1>1, <1>2
<1>7. Owned'
  BY <1>1, <1>2, <1>4, <1>6, NoneAssumption DEF IInv, Owned
<1> QED BY <1>2, <1>3, <1>5, <1>7 DEF IInv

LEMMA RetireStep == ASSUME IInv, Retire PROVE IInv'
<1>1. /\ UNCHANGED <<request, sync, out, heap, async, message, view, fds>>
      /\ alive' \in BOOLEAN
  BY DEF Retire
<1>2. SyncStates' /\ SyncReturned'
  BY <1>1, AsyncFrame DEF IInv
<1>3. AsyncStates' /\ MessageSent' /\ ViewShown' /\ Known'
  BY <1>1, SyncFrame, RequestSame DEF IInv
<1>4. Owned'
  BY <1>1 DEF IInv, Owned
<1> QED BY <1>1, <1>2, <1>3, <1>4 DEF IInv

\* The queued call is answered.
LEMMA Answered ==
  ASSUME IInv, async.at # "answered", NEW reply, NEW fd,
         UNCHANGED <<request, alive, sync, out, heap, view>>,
         async' = [at |-> "answered", reply |-> reply, fd |-> fd], Owned',
         MessageRefused' \/ MessageFailed' \/ MessageAcquired' \/ MessageDone'
  PROVE  IInv'
<1>1. SyncStates' /\ SyncReturned' /\ Known'
  BY AsyncFrame, RequestSame DEF IInv
<1>2. view = None /\ view' = None
  BY DEF IInv, AsyncStates
<1>3. AsyncStates' /\ MessageSent' /\ ViewShown'
  BY <1>2 DEF AsyncStates, MessageSent, ViewShown
<1> QED BY <1>1, <1>3 DEF IInv

\* Without a descriptor, who owns what does not change.
LEMMA OwnedSame ==
  ASSUME Owned, UNCHANGED <<out, heap, fds>>, sync'.fd = sync.fd, async'.fd = async.fd
  PROVE  Owned'
BY DEF Owned

LEMMA AsyncCallStep == ASSUME IInv, AsyncCall PROVE IInv'
<1>1. /\ async = [at |-> async.at, reply |-> async.reply, fd |-> async.fd]
      /\ async.at = "idle" /\ async.reply = None /\ async.fd = None
      /\ message = <<>> /\ view = None /\ ~IsEvent
  BY DEF AsyncCall, IInv, AsyncStates
<1>2. UNCHANGED <<request, alive, sync, out, heap, view, fds>>
  BY DEF AsyncCall
<1>3. CASE /\ \E path \in {<<>>, Text(request.path)} :
                 PostStatus(path, "INVALID_ARGUMENT")
           /\ AsyncAnswers(None)
  <2>1. async' = [at |-> "answered", reply |-> None, fd |-> None]
    BY <1>1, <1>3 DEF AsyncAnswers
  <2>2. PICK path \in {<<>>, Text(request.path)} : PostStatus(path, "INVALID_ARGUMENT")
    BY <1>3
  <2>3. message' = <<32>> \o Encode("Error",
             [objectPath |-> path, name |-> InvalidArguments, message |-> <<>>])
    BY <2>2 DEF PostStatus, PostError, PostBytes, ErrorName
  <2>4. MessageRefused'
    BY <1>1, <1>2, <2>1, <2>3, RequestSame DEF MessageRefused
  <2>5. Owned'
    BY <1>1, <1>2, <2>1, OwnedSame DEF IInv
  <2> QED BY <1>1, <1>2, <2>1, <2>4, <2>5, Answered
<1>4. CASE async' = [async EXCEPT !.at = "queued"] /\ UNCHANGED message
  <2>1. async' = [at |-> "queued", reply |-> None, fd |-> None]
    BY <1>1, <1>4
  <2>2. AsyncStates' /\ MessageSent' /\ ViewShown'
    BY <1>1, <1>2, <1>4, <2>1, RequestSame DEF AsyncStates, MessageSent, ViewShown
  <2>3. SyncStates' /\ SyncReturned' /\ Known'
    BY <1>2, AsyncFrame, RequestSame DEF IInv
  <2>4. Owned'
    BY <1>1, <1>2, <2>1, OwnedSame DEF IInv
  <2> QED BY <1>2, <2>2, <2>3, <2>4 DEF IInv
<1> QED BY <1>3, <1>4 DEF AsyncCall

LEMMA AsyncTakeStep == ASSUME IInv, AsyncTake PROVE IInv'
<1>1. /\ async = [at |-> async.at, reply |-> async.reply, fd |-> async.fd]
      /\ async.at = "queued" /\ async.reply = None /\ async.fd = None
      /\ message = <<>> /\ view = None /\ ~IsEvent
  BY DEF AsyncTake, IInv, AsyncStates
<1>2. UNCHANGED <<request, alive, sync, out, heap, view, fds>>
  BY DEF AsyncTake
<1>3. ASSUME NEW path \in {<<>>, Text(request.path)},
             PostError(path, InvalidArguments, <<>>), AsyncAnswers(None)
      PROVE  IInv'
  <2>1. async' = [at |-> "answered", reply |-> None, fd |-> None]
    BY <1>1, <1>3 DEF AsyncAnswers
  <2>2. message' = <<32>> \o Encode("Error",
             [objectPath |-> path, name |-> InvalidArguments, message |-> <<>>])
    BY <1>3 DEF PostError, PostBytes
  <2>3. MessageRefused'
    BY <1>1, <1>2, <2>1, <2>2, RequestSame DEF MessageRefused
  <2>4. Owned'
    BY <1>1, <1>2, <2>1, OwnedSame DEF IInv
  <2> QED BY <1>1, <1>2, <2>1, <2>3, <2>4, Answered
<1>4. CASE PostError(<<>>, InvalidArguments, <<>>) /\ AsyncAnswers(None)
  BY <1>3, <1>4
<1>5. CASE PostStatus(Text(request.path), "INVALID_ARGUMENT") /\ AsyncAnswers(None)
  <2>1. PostError(Text(request.path), InvalidArguments, <<>>)
    BY <1>5 DEF PostStatus, ErrorName
  <2> QED BY <1>3, <1>5, <2>1
<1>6. CASE /\ Op # "UNKNOWN" /\ ~(OfProxy /\ Text(request.path) = <<>>)
           /\ async' = [async EXCEPT !.at = "bluez"] /\ UNCHANGED message
  <2>1. async' = [at |-> "bluez", reply |-> None, fd |-> None]
    BY <1>1, <1>6
  <2>2. AsyncStates' /\ MessageSent' /\ ViewShown'
    BY <1>1, <1>2, <1>6, <2>1, RequestSame DEF AsyncStates, MessageSent, ViewShown
  <2>3. SyncStates' /\ SyncReturned' /\ Known'
    BY <1>2, AsyncFrame, RequestSame DEF IInv
  <2>4. Owned'
    BY <1>1, <1>2, <2>1, OwnedSame DEF IInv
  <2> QED BY <1>2, <2>2, <2>3, <2>4 DEF IInv
<1> QED BY <1>4, <1>5, <1>6 DEF AsyncTake

\* A message of an error.
LEMMA FailedSent ==
  ASSUME NEW reply, IsReply(reply), reply # Done, UNCHANGED request, ~IsEvent,
         async'.reply = reply, async'.fd = None,
         IF reply.kind = "error"
         THEN PostError(Text(request.path), reply.name, reply.text)
         ELSE PostStatus(Text(request.path), reply.status)
  PROVE  MessageFailed'
<1>1. message' = <<32>> \o Encode("Error", ErrorOf(reply))
  <2>1. CASE reply.kind = "error"
    BY <2>1 DEF PostError, PostBytes, ErrorOf
  <2>2. CASE reply.kind # "error"
    <3>1. reply.status # "SUCCESS"
      BY <2>2, ReplyIs
    <3>2. PostError(Text(request.path), ErrorName(reply.status), <<>>)
      BY <2>2, <3>1 DEF PostStatus
    <3> QED BY <2>2, <3>2 DEF PostError, PostBytes, ErrorOf
  <2> QED BY <2>1, <2>2
<1>2. ErrorOf(async.reply)' = ErrorOf(reply) /\ IsReply(async.reply)'
  BY DEF ErrorOf, IsReply
<1> QED BY <1>1, <1>2, RequestSame DEF MessageFailed

LEMMA AsyncReplyStep ==
  ASSUME IInv, NEW reply \in Replies, AsyncReply(reply)
  PROVE  IInv'
<1>1. /\ async = [at |-> async.at, reply |-> async.reply, fd |-> async.fd]
      /\ async.at = "bluez" /\ async.reply = None /\ async.fd = None
      /\ message = <<>> /\ view = None /\ ~IsEvent /\ Op \notin Acquires
  BY DEF AsyncReply, IInv, AsyncStates
<1>2. UNCHANGED <<request, alive, sync, out, heap, view, fds>>
  BY DEF AsyncReply
<1>3. async' = [at |-> "answered", reply |-> reply, fd |-> None]
  BY <1>1 DEF AsyncReply, AsyncAnswers
<1>4. IsReply(reply)
  BY RepliesAre
<1>5. Owned'
  BY <1>1, <1>2, <1>3, OwnedSame DEF IInv
<1>6. CASE reply # Done
  <2>1. IF reply.kind = "error"
        THEN PostError(Text(request.path), reply.name, reply.text)
        ELSE PostStatus(Text(request.path), reply.status)
    BY <1>6 DEF AsyncReply
  <2>2. MessageFailed'
    BY <1>1, <1>2, <1>3, <1>4, <1>6, <2>1, FailedSent
  <2> QED BY <1>1, <1>2, <1>3, <1>5, <2>2, Answered
<1>7. CASE reply = Done
  <2>1. reply.kind # "error"
    BY <1>7 DEF Done
  <2>2. message' = IF Buffered THEN <<16>> \o Payload(Text(request.path), None)
                   ELSE IF Op = "MPRIS_GET_COVER_ART" THEN <<16>> \o request.content
                   ELSE <<255>> \o <<>>
    BY <1>7, <2>1 DEF AsyncReply, PostBytes
  <2>3. MessageDone'
    BY <1>1, <1>2, <1>3, <1>7, <2>2, RequestSame, PayloadSame DEF MessageDone, Done
  <2> QED BY <1>1, <1>2, <1>3, <1>5, <2>3, Answered
<1> QED BY <1>6, <1>7

LEMMA AsyncAcquiredStep ==
  ASSUME IInv, NEW reply \in Replies, AsyncAcquired(reply)
  PROVE  IInv'
<1>1. /\ async = [at |-> async.at, reply |-> async.reply, fd |-> async.fd]
      /\ async.at = "bluez" /\ async.reply = None /\ async.fd = None
      /\ message = <<>> /\ view = None /\ ~IsEvent /\ Op \in Acquires
      /\ ~(OfProxy /\ Text(request.path) = <<>>)
  BY DEF AsyncAcquired, IInv, AsyncStates
<1>2. UNCHANGED <<request, alive, sync, out, heap, view>>
  BY DEF AsyncAcquired
<1>3. request.path # None /\ request.path # <<>> /\ Text(request.path) = request.path
  BY <1>1, StructNames DEF OfProxy, Text
<1>4. ASSUME NEW answer, IsReply(answer), answer # Done, fds' = fds,
             answer.kind = "error", AsyncAnswers(answer),
             PostError(request.path, answer.name, answer.text)
      PROVE  IInv'
  <2>1. async' = [at |-> "answered", reply |-> answer, fd |-> None]
    BY <1>1, <1>4 DEF AsyncAnswers
  <2>2. MessageFailed'
    BY <1>1, <1>2, <1>3, <1>4, <2>1, FailedSent
  <2>3. Owned'
    BY <1>1, <1>2, <1>4, <2>1, OwnedSame DEF IInv
  <2> QED BY <1>1, <1>2, <2>1, <2>2, <2>3, Answered
<1>5. CASE reply = Done
  <2>1. ASSUME NEW fd \in Fds \ fds,
               PostBytes(17, WriteInteger(fd, Width.u64) \o Payload(request.path, fd)),
               async' = [async EXCEPT !.at = "answered", !.reply = reply, !.fd = fd],
               fds' = fds \cup {fd}
        PROVE  IInv'
    <3>1. async' = [at |-> "answered", reply |-> Done, fd |-> fd]
      BY <1>1, <1>5, <2>1
    <3>2. Owned'
      BY <1>1, <1>2, <2>1, <3>1, NoneAssumption DEF IInv, Owned
    <3>3. message' = <<17>> \o (WriteInteger(fd, Width.u64) \o Payload(request.path, fd))
      BY <2>1 DEF PostBytes
    <3>4. MessageAcquired'
      BY <1>1, <1>2, <1>3, <3>1, <3>3, RequestSame, PayloadSame
         DEF MessageAcquired, Done
    <3> QED BY <1>1, <1>2, <3>1, <3>2, <3>4, Answered
  <2>2. CASE /\ PostError(request.path, Failed, <<>>)
             /\ AsyncAnswers(Threw(Failed, <<>>)) /\ UNCHANGED fds
    <3>1. /\ Threw(Failed, <<>>) # Done /\ Threw(Failed, <<>>).kind = "error"
          /\ Threw(Failed, <<>>).name = Failed /\ Threw(Failed, <<>>).text = <<>>
      BY DEF Threw, Done
    <3> QED BY <1>4, <2>2, <3>1, RepliesAre
  <2> QED BY <1>5, <2>1, <2>2 DEF AsyncAcquired
<1>6. CASE reply # Done
  <2>1. /\ PostError(request.path, reply.name, reply.text) /\ AsyncAnswers(reply)
        /\ fds' = fds
    BY <1>6 DEF AsyncAcquired
  <2> QED BY <1>1, <1>4, <1>6, <2>1, RepliesAre
<1> QED BY <1>5, <1>6

LEMMA PostEventStep == ASSUME IInv, PostEvent PROVE IInv'
<1>1. /\ async = [at |-> async.at, reply |-> async.reply, fd |-> async.fd]
      /\ async.at = "idle" /\ async.fd = None /\ IsEvent
  BY DEF PostEvent, IInv, AsyncStates
<1>2. UNCHANGED <<request, alive, sync, out, heap, view, fds>>
  BY DEF PostEvent
<1>3. async' = [at |-> "answered", reply |-> Done, fd |-> None]
  BY <1>1 DEF PostEvent, AsyncAnswers
<1>4. Owned'
  BY <1>1, <1>2, <1>3, OwnedSame DEF IInv
<1>5. Op \notin Acquires
  BY <1>1, StructNames DEF IsEvent
<1>6. message' = <<EventTag[request.argument]>>
                   \o Encode(request.argument,
                             Made(request, request.argument, request.path, None))
  BY DEF PostEvent, PostBytes
<1>7. MessageDone'
  BY <1>1, <1>2, <1>3, <1>5, <1>6, RequestSame DEF MessageDone, Done
<1> QED BY <1>1, <1>2, <1>3, <1>4, <1>7, Answered

LEMMA Tagged ==
  ASSUME NEW tag \in Nat, NEW p \in Seq(Byte)
  PROVE  /\ (<<tag>> \o p)[1] = tag /\ Tail(<<tag>> \o p) = p
         /\ <<tag>> \in Seq(Nat) /\ Len(<<tag>>) = 1
<1>1. <<tag>> \in Seq(Nat) /\ Len(<<tag>>) = 1 /\ p \in Seq(Nat)
  BY Bytes
<1> DEFINE m == <<tag>> \o p
<1>2. /\ m \in Seq(Nat) /\ Len(m) = 1 + Len(p) /\ Len(p) \in Nat
      /\ \A i \in 1..1 + Len(p) : m[i] = IF i <= 1 THEN <<tag>>[i] ELSE p[i - 1]
  BY <1>1, ConcatProperties
<1>3. m[1] = tag
  BY <1>2
<1> HIDE DEF m
<1>4. Tail(m) \in Seq(Nat) /\ Len(Tail(m)) = Len(p)
      /\ \A i \in 1..Len(p) : Tail(m)[i] = m[i + 1]
  BY <1>2
<1>5. \A i \in 1..Len(p) : Tail(m)[i] = p[i]
  <2> TAKE i \in 1..Len(p)
  <2>1. i + 1 \in 1..1 + Len(p) /\ ~(i + 1 <= 1) /\ (i + 1) - 1 = i
    BY <1>2
  <2> QED BY <1>2, <1>4, <2>1
<1>6. Tail(m) = p
  BY <1>1, <1>4, <1>5, SeqEqual
<1> QED BY <1>1, <1>3, <1>6 DEF m

\* A message of an error is decoded.
LEMMA ErrorDecoded ==
  ASSUME NEW path, NEW name, NEW text, IsText(path), IsText(name), IsText(text), NEW e,
         e = [objectPath |-> path, name |-> name, message |-> text],
         message = << 32 >> \o Encode("Error", e)
  PROVE  /\ message[1] = 32 /\ Encode("Error", e) \in Seq(Byte)
         /\ Decode("Error", message, 1).ok /\ Decode("Error", message, 1).value = e
<1>1. Holds("Error", e) /\ "Error" \in DOMAIN Fields
  BY ErrorHolds, Structs DEF Structs1, Structs2, Structs3
<1>2. Encode("Error", e) \in Seq(Byte)
  <2>1. <<>> \in Seq(Nat)
    OBVIOUS
  <2> QED BY <1>1, <2>1, RoundTrip
<1>3. message[1] = 32 /\ <<32>> \in Seq(Nat) /\ Len(<<32>>) = 1
  BY <1>2, Tagged
<1> DEFINE head == <<32>>
<1>4. message = head \o Encode("Error", e) /\ head \in Seq(Nat) /\ 1 = Len(head)
  BY <1>3
<1> HIDE DEF head
<1>5. /\ Decode("Error", head \o Encode("Error", e), 1).ok
      /\ Decode("Error", head \o Encode("Error", e), 1).value = e
  BY <1>1, <1>4, Decodes
<1> QED BY <1>2, <1>3, <1>4, <1>5, Zenon

LEMMA ErrorTexts ==
  ASSUME Known, NEW reply, IsReply(reply)
  PROVE  \E path, name, text : /\ IsText(path) /\ IsText(name) /\ IsText(text)
            /\ ErrorOf(reply) = [objectPath |-> path, name |-> name, message |-> text]
<1>1. IsText(Text(request.path)) /\ IsText(<<>>)
  BY Requested, StandIns
<1>2. IsText(reply.name) /\ IsText(reply.text) /\ IsText(ErrorName(reply.status))
  BY ReplyIs
<1> QED BY <1>1, <1>2 DEF ErrorOf

\* The payload of a queued acquire is decoded.
LEMMA AcquireDecoded ==
  ASSUME Known, Op \in Acquires, request.path # None, NEW fd \in Fds,
         message = << 17 >> \o (WriteInteger(fd, Width.u64) \o Payload(request.path, fd))
  PROVE  /\ message[1] = 17 /\ Body \in Seq(Byte)
         /\ ReadInteger(Body, 1, 8).value = fd
         /\ Decode("AcquireResult", Body, 8).ok
         /\ Decode("AcquireResult", Body, 8).value
              = Made(request, Struct[Op], Text(request.path), fd)
<1> DEFINE token == WriteInteger(fd, Width.u64)
           p == Payload(request.path, fd)
           v == Made(request, Struct[Op], Text(request.path), fd)
<1>1. Buffered /\ Struct[Op] = "AcquireResult"
  BY StructNames DEF Buffered
<1>2. p = Payload(Text(request.path), fd)
  BY SamePayload
<1>3. /\ p \in Seq(Byte)
      /\ \A head \in Seq(Nat) : \A n : n = Len(head) =>
            /\ Decode("AcquireResult", head \o p, n).ok
            /\ Decode("AcquireResult", head \o p, n).value = v
  BY <1>1, <1>2, Sent
<1>4. token \in Seq(Byte) /\ Len(token) = 8 /\ ReadInteger(token \o p, 1, 8).value = fd
  BY <1>3, TokenRead
<1> HIDE DEF token, p, v
<1>5. token \o p \in Seq(Byte) /\ token \in Seq(Nat)
  BY <1>3, <1>4, Joins, Bytes
<1> DEFINE rest == token \o p
<1>6. message = <<17>> \o rest
  BY DEF token, p
<1>7. rest \in Seq(Byte) /\ 17 \in Nat
  BY <1>5
<1> HIDE DEF rest
<1>10. (<<17>> \o rest)[1] = 17 /\ Tail(<<17>> \o rest) = rest
  BY <1>7, Tagged, Zenon
<1>8. message[1] = 17 /\ Body = rest
  BY <1>6, <1>10, Zenon DEF Body
<1>9. /\ Decode("AcquireResult", token \o p, 8).ok
      /\ Decode("AcquireResult", token \o p, 8).value = v
  BY <1>3, <1>4, <1>5
<1> QED BY <1>4, <1>5, <1>8, <1>9 DEF v, rest

\* The future completes and the message stays.
LEMMA Shown ==
  ASSUME IInv, UNCHANGED <<request, alive, sync, out, heap, async, message, fds>>,
         view = None, ViewShown'
  PROVE  IInv'
<1>1. SyncStates' /\ SyncReturned' /\ Known'
  BY AsyncFrame, RequestSame DEF IInv
<1>2. Owned'
  BY OwnedSame DEF IInv
<1>3. async' = async /\ request' = request /\ message' = message
  OBVIOUS
<1>4. AsyncStates'
  BY <1>3, RequestSame DEF IInv, AsyncStates, ViewShown
<1>5. MessageRefused => MessageRefused'
  BY <1>3, RequestSame DEF MessageRefused
<1>6. MessageFailed => MessageFailed'
  BY <1>3, RequestSame DEF MessageFailed, IsReply, ErrorOf
<1>7. MessageAcquired => MessageAcquired'
  BY <1>3, RequestSame, PayloadSame DEF MessageAcquired
<1>8. MessageDone => MessageDone'
  BY <1>3, RequestSame, PayloadSame DEF MessageDone
<1>9. MessageSent'
  BY <1>3, <1>5, <1>6, <1>7, <1>8 DEF IInv, MessageSent
<1> QED BY <1>1, <1>2, <1>4, <1>9 DEF IInv

\* The answer to a call is decoded.
LEMMA ErrorReceived ==
  ASSUME IInv, ReceiveResult, MessageRefused \/ MessageFailed
  PROVE  IInv' /\ async'.reply = async.reply
<1>1. PICK e : /\ message = <<32>> \o Encode("Error", e)
               /\ message[1] = 32 /\ Decode("Error", message, 1).ok
               /\ Decode("Error", message, 1).value = e
               /\ MessageFailed => e = ErrorOf(async.reply)
               /\ async.reply # Done /\ (async.reply # None => MessageFailed)
               /\ async.reply = None => e.name = InvalidArguments
  <2>1. CASE MessageFailed
    <3>1. /\ message = <<32>> \o Encode("Error", ErrorOf(async.reply))
          /\ IsReply(async.reply) /\ async.reply # Done
      BY <2>1 DEF MessageFailed
    <3>a. async.reply # None
      BY <3>1, ReplyIs
    <3>2. /\ message[1] = 32 /\ Decode("Error", message, 1).ok
          /\ Decode("Error", message, 1).value = ErrorOf(async.reply)
      <4>1. PICK path, name, text :
              /\ IsText(path) /\ IsText(name) /\ IsText(text)
              /\ ErrorOf(async.reply) = [objectPath |-> path, name |-> name,
                                         message |-> text]
        BY <3>1, ErrorTexts DEF IInv
      <4> QED BY <3>1, <4>1, ErrorDecoded
    <3> QED BY <2>1, <3>1, <3>a, <3>2
  <2>2. CASE ~MessageFailed
    <3>1. /\ async.reply = None
          /\ \E path \in {<<>>, Text(request.path)} :
               message = <<32>> \o Encode("Error",
                   [objectPath |-> path, name |-> InvalidArguments, message |-> <<>>])
      BY <2>2 DEF MessageRefused
    <3>2. PICK path \in {<<>>, Text(request.path)} :
            message = <<32>> \o Encode("Error",
                [objectPath |-> path, name |-> InvalidArguments, message |-> <<>>])
      BY <3>1
    <3>3. IsText(path) /\ IsText(InvalidArguments) /\ IsText(<<>>)
      BY Requested, StandIns DEF IInv
    <3>4. Done # None
      BY ReplyIs DEF IsReply
    <3> DEFINE e == [objectPath |-> path, name |-> InvalidArguments, message |-> <<>>]
    <3>5. message = <<32>> \o Encode("Error", e)
      BY <3>2
    <3>6. /\ message[1] = 32 /\ Decode("Error", message, 1).ok
          /\ Decode("Error", message, 1).value = e
      BY <3>3, <3>5, ErrorDecoded
    <3>7. e.name = InvalidArguments
      OBVIOUS
    <3> HIDE DEF e
    <3> QED BY <2>2, <3>1, <3>4, <3>5, <3>6, <3>7
  <2> QED BY <2>1, <2>2
<1>2. /\ UNCHANGED <<request, alive, sync, out, heap, async, message, fds>>
      /\ view = None /\ async.at = "answered"
      /\ view' = [kind |-> "exception", value |-> e]
  <2>1. /\ UNCHANGED <<request, alive, sync, out, heap, message>>
        /\ view = None /\ async.at = "answered"
    BY DEF ReceiveResult
  <2>2. UNCHANGED <<fds, async>>
    BY <1>1 DEF ReceiveResult
  <2>3. message[1] = 32 =>
          LET r == Decode("Error", message, 1)
          IN  IF r.ok THEN Completed("exception", r.value)
              ELSE Completed("RangeError", <<>>)
    BY DEF ReceiveResult
  <2>4. Completed("exception", Decode("Error", message, 1).value)
    BY <1>1, <2>3
  <2> QED BY <1>1, <2>1, <2>2, <2>4 DEF Completed
<1>3. ViewShown'
  <2>1. ErrorOf(async.reply)' = ErrorOf(async.reply)
    BY <1>2 DEF ErrorOf
  <2> QED BY <1>1, <1>2, <2>1 DEF ViewShown
<1> QED BY <1>2, <1>3, Shown

LEMMA AcquireReceived ==
  ASSUME IInv, ReceiveResult, MessageAcquired
  PROVE  IInv' /\ async'.reply = async.reply
<1>1. /\ UNCHANGED <<request, alive, sync, out, heap, message>>
      /\ view = None /\ async.at = "answered" /\ ~IsEvent
      /\ async = [at |-> async.at, reply |-> async.reply, fd |-> async.fd]
  BY DEF ReceiveResult, IInv, AsyncStates
<1>2. PICK fd \in Fds :
        /\ async.reply = Done /\ Op \in Acquires /\ async.fd = fd
        /\ request.path # None /\ request.path # <<>>
        /\ message = <<17>> \o (WriteInteger(fd, Width.u64)
                                  \o Payload(request.path, fd))
  BY <1>1 DEF MessageAcquired
<1> DEFINE result == Decode("AcquireResult", Body, 8)
           token == ReadInteger(Body, 1, 8).value
<1>3. /\ message[1] = 17 /\ token = fd /\ result.ok
      /\ result.value = Made(request, Struct[Op], Text(request.path), fd)
  BY <1>2, AcquireDecoded DEF IInv
<1>4. DecodeAcquire
  BY <1>2, <1>3, StructNames DEF ReceiveResult
<1>5. IF result.ok /\ alive THEN Decoded(result) /\ UNCHANGED <<fds, async>>
      ELSE /\ Completed(IF result.ok THEN "StateError" ELSE "RangeError", <<>>)
           /\ fds' = fds \ {token} /\ async' = [async EXCEPT !.fd = None]
  BY <1>4 DEF DecodeAcquire
<1> HIDE DEF result, token
<1>6. Buffered /\ Op # "MPRIS_GET_COVER_ART"
  BY <1>2, StructNames DEF Buffered
<1>7. CASE alive
  <2>1. /\ view' = [kind |-> "value", value |-> result.value]
        /\ UNCHANGED <<fds, async>>
    BY <1>3, <1>5, <1>7 DEF Decoded, Completed
  <2>2. ViewShown'
    BY <1>1, <1>2, <1>3, <1>6, <2>1, RequestSame DEF ViewShown
  <2> QED BY <1>1, <2>1, <2>2, Shown
<1>8. CASE ~alive
  <2>1. /\ view' = [kind |-> "StateError", value |-> <<>>]
        /\ fds' = fds \ {fd} /\ async' = [async EXCEPT !.fd = None]
    BY <1>3, <1>5, <1>8 DEF Completed
  <2>2. async' = [at |-> "answered", reply |-> Done, fd |-> None]
    BY <1>1, <1>2, <2>1
  <2>3. Owned'
    <3>1. /\ heap = (IF out = None THEN 0 ELSE 1) /\ fds = {sync.fd, async.fd} \ {None}
          /\ async.fd # None /\ sync.fd # async.fd /\ fds \subseteq Fds
      BY <1>2, NoneAssumption DEF IInv, Owned
    <3>2. sync' = sync /\ out' = out /\ heap' = heap /\ async'.fd = None
          /\ fds' = fds \ {fd} /\ async.fd = fd
      BY <1>1, <1>2, <2>1, <2>2
    <3>3. fds' = {sync'.fd, async'.fd} \ {None}
      BY <3>1, <3>2
    <3>4. heap' = (IF out' = None THEN 0 ELSE 1) /\ fds' \subseteq Fds
      BY <3>1, <3>2
    <3> QED BY <3>2, <3>3, <3>4 DEF Owned
  <2>4. SyncStates' /\ SyncReturned' /\ Known'
    BY <1>1, AsyncFrame, RequestSame DEF IInv
  <2>5. AsyncStates'
    BY <2>2 DEF AsyncStates
  <2>6. view' # None /\ view'.kind = "StateError"
    BY <2>1, ViewAssumption
  <2>7. MessageSent'
    <3>1. message' = <<17>> \o (WriteInteger(fd, Width.u64) \o Payload(request.path, fd))
      BY <1>1, <1>2
    <3>2. MessageAcquired'
      BY <1>1, <1>2, <2>2, <2>6, <3>1, RequestSame, PayloadSame DEF MessageAcquired
    <3> QED BY <3>2 DEF MessageSent
  <2>8. ViewShown'
    BY <1>1, <1>2, <2>1, <2>2, RequestSame DEF ViewShown
  <2> QED BY <1>1, <1>2, <2>2, <2>3, <2>4, <2>5, <2>7, <2>8 DEF IInv
<1> QED BY <1>7, <1>8

LEMMA DoneReceived ==
  ASSUME IInv, ReceiveResult, MessageDone
  PROVE  IInv' /\ async'.reply = async.reply
<1>1. /\ UNCHANGED <<request, alive, sync, out, heap, message>>
      /\ view = None /\ async.at = "answered" /\ ~IsEvent
      /\ async.reply = Done /\ async.fd = None /\ Op \notin Acquires
  BY DEF ReceiveResult, MessageDone
<1>2. message = IF Buffered THEN <<16>> \o Payload(Text(request.path), None)
                ELSE IF Op = "MPRIS_GET_COVER_ART" THEN <<16>> \o request.content
                ELSE <<255>> \o <<>>
  BY <1>1 DEF MessageDone
<1>3. "MPRIS_GET_COVER_ART" \notin DOMAIN Struct
  BY StructNames
<1>4. CASE Buffered
  <2> DEFINE p == Payload(Text(request.path), None)
             v == Made(request, Struct[Op], Text(request.path), None)
  <2>1. /\ p \in Seq(Byte) /\ Decode(Struct[Op], p, 0).ok
        /\ Decode(Struct[Op], p, 0).value = v
    BY <1>1, <1>4, Sent DEF IInv
  <2>2. message = <<16>> \o p /\ 16 \in Nat
    BY <1>2, <1>4
  <2>3. v = Made(request, Struct[Op], Text(request.path), async.fd)
    BY <1>1
  <2> HIDE DEF p, v
  <2>4. (<<16>> \o p)[1] = 16 /\ Tail(<<16>> \o p) = p
    BY <2>1, <2>2, Tagged, Zenon
  <2>5. message[1] = 16 /\ Body = p
    BY <2>2, <2>4, Zenon DEF Body
  <2>6. Op \in DOMAIN Struct \ Acquires
    BY <1>1, <1>4 DEF Buffered
  <2>7. Decoded(Decode(Struct[Op], Body, 0)) /\ UNCHANGED <<fds, async>>
    BY <2>5, <2>6 DEF ReceiveResult
  <2>8. view' = [kind |-> "value", value |-> v]
    BY <2>1, <2>5, <2>7 DEF Decoded, Completed
  <2>9. ViewShown'
    BY <1>1, <1>3, <1>4, <2>3, <2>7, <2>8, RequestSame DEF ViewShown, Buffered
  <2> QED BY <1>1, <2>7, <2>9, Shown
<1>5. CASE Op = "MPRIS_GET_COVER_ART"
  <2> DEFINE p == request.content
  <2>1. p \in Seq(Byte)
    BY <1>5, Requested DEF IInv
  <2>2. message = <<16>> \o p /\ 16 \in Nat
    BY <1>2, <1>3, <1>5 DEF Buffered
  <2> HIDE DEF p
  <2>3. (<<16>> \o p)[1] = 16 /\ Tail(<<16>> \o p) = p
    BY <2>1, <2>2, Tagged, Zenon
  <2>4. message[1] = 16 /\ Body = p
    BY <2>2, <2>3, Zenon DEF Body
  <2>5. Completed("value", Body) /\ UNCHANGED <<fds, async>>
    BY <1>1, <1>3, <1>5, <2>4 DEF ReceiveResult
  <2>6. view' = [kind |-> "value", value |-> request.content]
    BY <2>4, <2>5 DEF Completed, p
  <2>7. ViewShown'
    BY <1>1, <1>3, <1>5, <2>5, <2>6, RequestSame DEF ViewShown, Buffered
  <2> QED BY <1>1, <2>5, <2>7, Shown
<1>6. CASE ~Buffered /\ Op # "MPRIS_GET_COVER_ART"
  <2>1. message = <<255>> \o <<>>
    BY <1>2, <1>6
  <2>2. message[1] = 255
    BY <2>1
  <2>3. Completed("null", <<>>) /\ UNCHANGED <<fds, async>>
    BY <2>2 DEF ReceiveResult
  <2>4. ViewShown'
    BY <1>1, <1>6, <2>3, RequestSame DEF ViewShown, Completed
  <2> QED BY <1>1, <2>3, <2>4, Shown
<1> QED BY <1>4, <1>5, <1>6

LEMMA ReceiveResultStep == ASSUME IInv, ReceiveResult PROVE IInv'
<1>1. MessageRefused \/ MessageFailed \/ MessageAcquired \/ MessageDone
  BY DEF IInv, MessageSent, ReceiveResult
<1> QED BY <1>1, ErrorReceived, AcquireReceived, DoneReceived

\* An event is decoded by the struct of its tag.
LEMMA EventDecoded ==
  ASSUME NEW s \in DOMAIN EventTag, NEW v, Holds(s, v),
         message = <<EventTag[s]>> \o Encode(s, v)
  PROVE  /\ EventStruct(message[1]) = s
         /\ Decode(s, message, 1).ok /\ Decode(s, message, 1).value = v
<1> DEFINE tag == EventTag[s]
           p == Encode(s, v)
           head == <<tag>>
<1>1. s \in DOMAIN Fields /\ tag \in Nat /\ EventStruct(tag) = s
  BY Tags
<1>2. p \in Seq(Byte)
  <2>1. <<>> \in Seq(Nat)
    OBVIOUS
  <2> QED BY <1>1, <2>1, RoundTrip
<1>3. message = head \o p
  OBVIOUS
<1> HIDE DEF tag, p
<1>4. message[1] = tag /\ head \in Seq(Nat) /\ 1 = Len(head)
  <2>1. (<<tag>> \o p)[1] = tag /\ <<tag>> \in Seq(Nat) /\ Len(<<tag>>) = 1
    BY <1>1, <1>2, Tagged, Zenon
  <2> QED BY <1>3, <2>1, Zenon
<1> HIDE DEF head
<1>5. p = Encode(s, v)
  BY DEF p
<1>6. \A h \in Seq(Nat) : \A n : n = Len(h) =>
        Decode(s, h \o p, n).ok /\ Decode(s, h \o p, n).value = v
  BY <1>1, <1>5, Decodes
<1>7. Decode(s, head \o p, 1).ok /\ Decode(s, head \o p, 1).value = v
  BY <1>4, <1>6, Zenon
<1> QED BY <1>1, <1>3, <1>4, <1>7, Zenon

LEMMA ReceiveEventStep == ASSUME IInv, ReceiveEvent PROVE IInv'
<1>1. /\ UNCHANGED <<request, alive, sync, out, heap, async, message, fds>>
      /\ view = None /\ async.at = "answered" /\ IsEvent
      /\ Decoded(Decode(EventStruct(message[1]), message, 1))
  BY DEF ReceiveEvent
<1>2. Op \notin Acquires /\ ~Buffered
  BY <1>1, StructNames DEF IsEvent, Buffered
<1> DEFINE s == request.argument
           v == Made(request, request.argument, request.path, None)
<1>3. message = <<EventTag[s]>> \o Encode(s, v) /\ async.reply = Done
  BY <1>1, <1>2 DEF IInv, MessageSent, MessageRefused, MessageFailed, MessageAcquired,
                    MessageDone
<1>4. s \in DOMAIN EventTag /\ Holds(s, v)
  BY <1>1, Requested DEF IInv
<1> HIDE DEF s, v
<1>5. /\ EventStruct(message[1]) = s
      /\ Decode(s, message, 1).ok /\ Decode(s, message, 1).value = v
  BY <1>3, <1>4, EventDecoded
<1>6. view' = [kind |-> "value", value |-> v]
  BY <1>1, <1>5 DEF Decoded, Completed
<1>7. ViewShown'
  BY <1>1, <1>2, <1>3, <1>6, RequestSame DEF ViewShown, v
<1> QED BY <1>1, <1>7, Shown

LEMMA InitIInv == Init => IInv
<1> SUFFICES ASSUME Init PROVE IInv
  OBVIOUS
<1>1. Known /\ alive \in BOOLEAN
  BY DEF Init, Known
<1>2. SyncStates /\ SyncReturned
  BY DEF Init, SyncStates, SyncReturned
<1>3. Owned
  BY DEF Init, Owned
<1>4. AsyncStates /\ MessageSent /\ ViewShown
  BY DEF Init, AsyncStates, MessageSent, ViewShown
<1> QED BY <1>1, <1>2, <1>3, <1>4 DEF IInv

LEMMA NextIInv == IInv /\ [Next]_vars => IInv'
<1> SUFFICES ASSUME IInv, [Next]_vars PROVE IInv'
  OBVIOUS
<1>1. CASE SyncCall
  BY <1>1, SyncCallStep
<1>2. ASSUME NEW reply \in Replies, SyncReply(reply) PROVE IInv'
  BY <1>2, SyncReplyStep
<1>3. ASSUME NEW reply \in Replies, SyncAcquired(reply) PROVE IInv'
  BY <1>3, SyncAcquiredStep
<1>4. CASE SyncWrite
  BY <1>4, SyncWriteStep
<1>5. CASE SyncReleased
  BY <1>5, SyncReleasedStep
<1>6. CASE BufferFree
  BY <1>6, BufferFreeStep
<1>7. CASE AsyncCall
  BY <1>7, AsyncCallStep
<1>8. CASE AsyncTake
  BY <1>8, AsyncTakeStep
<1>9. ASSUME NEW reply \in Replies, AsyncReply(reply) PROVE IInv'
  BY <1>9, AsyncReplyStep
<1>10. ASSUME NEW reply \in Replies, AsyncAcquired(reply) PROVE IInv'
  BY <1>10, AsyncAcquiredStep
<1>11. CASE PostEvent
  BY <1>11, PostEventStep
<1>12. CASE ReceiveResult
  BY <1>12, ReceiveResultStep
<1>13. CASE ReceiveEvent
  BY <1>13, ReceiveEventStep
<1>14. CASE Retire
  BY <1>14, RetireStep
<1>15. CASE UNCHANGED vars
  <2>1. UNCHANGED <<request, alive, sync, out, heap, async, message, view, fds>>
    BY <1>15 DEF vars
  <2>2. SyncStates' /\ SyncReturned' /\ Known'
    BY <2>1, AsyncFrame, RequestSame DEF IInv
  <2>3. AsyncStates' /\ MessageSent' /\ ViewShown'
    BY <2>1, SyncFrame DEF IInv
  <2>4. Owned'
    BY <2>1, OwnedSame DEF IInv
  <2> QED BY <2>1, <2>2, <2>3, <2>4 DEF IInv
<1> QED BY <1>1, <1>2, <1>3, <1>4, <1>5, <1>6, <1>7, <1>8, <1>9, <1>10, <1>11,
           <1>12, <1>13, <1>14, <1>15 DEF Next

LEMMA Invariance == Spec => []IInv
BY InitIInv, NextIInv, PTL DEF Spec

\* Each reply is one of those the operation may get.
Answer(reply) == reply \in Replies \cup {None, Threw(Failed, <<>>)}
Answers == Answer(sync.reply) /\ Answer(async.reply)

LEMMA NextAnswers == IInv /\ Answers /\ [Next]_vars => Answers'
<1> SUFFICES ASSUME IInv, Answers, [Next]_vars PROVE Answers'
  OBVIOUS
<1>1. /\ sync = [at |-> sync.at, status |-> sync.status, reply |-> sync.reply,
                 fd |-> sync.fd, short |-> sync.short]
      /\ async = [at |-> async.at, reply |-> async.reply, fd |-> async.fd]
  BY DEF IInv, SyncStates, AsyncStates
<1>2. request' = request
  BY DEF Next, vars, SyncCall, SyncReply, SyncAcquired, SyncWrite, SyncReleased,
         BufferFree, AsyncCall, AsyncTake, AsyncReply, AsyncAcquired, PostEvent,
         ReceiveResult, ReceiveEvent, Retire
<1>3. Replies' = Replies
  BY <1>2, RequestSame DEF Replies
<1>4. Answer(None) /\ Answer(Threw(Failed, <<>>)) /\ (\A reply \in Replies : Answer(reply))
  BY DEF Answer
<1>5. IsEvent => Answer(Done)
  BY StructNames DEF Answer, Replies, IsEvent
<1>6. Answer(sync'.reply)
  <2>1. \/ sync'.reply = sync.reply \/ sync'.reply = None
        \/ sync'.reply = Threw(Failed, <<>>) \/ sync'.reply \in Replies
    <3>1. CASE SyncCall
      BY <1>1, <3>1 DEF SyncCall, SyncReturns
    <3>2. CASE \E reply \in Replies : SyncReply(reply)
      BY <1>1, <3>2 DEF SyncReply, Ended
    <3>3. CASE \E reply \in Replies : SyncAcquired(reply)
      BY <1>1, <3>3 DEF SyncAcquired, Ended
    <3>4. CASE SyncWrite
      BY <1>1, <3>4 DEF SyncWrite, SyncReturns
    <3>5. CASE SyncReleased \/ BufferFree
      BY <1>1, <3>5 DEF SyncReleased, BufferFree
    <3>6. CASE UNCHANGED sync
      BY <3>6
    <3> QED BY <3>1, <3>2, <3>3, <3>4, <3>5, <3>6 DEF Next, vars, AsyncCall, AsyncTake,
               AsyncReply, AsyncAcquired, PostEvent, ReceiveResult, ReceiveEvent, Retire
  <2> QED BY <1>4, <2>1 DEF Answers
<1>7. Answer(async'.reply)
  <2>1. \/ async'.reply = async.reply \/ async'.reply = None
        \/ async'.reply = Threw(Failed, <<>>) \/ async'.reply \in Replies
        \/ IsEvent /\ async'.reply = Done
    <3>1. CASE AsyncCall \/ AsyncTake
      BY <1>1, <3>1 DEF AsyncCall, AsyncTake, AsyncAnswers
    <3>2. CASE \E reply \in Replies : AsyncReply(reply)
      BY <1>1, <3>2 DEF AsyncReply, AsyncAnswers
    <3>3. CASE \E reply \in Replies : AsyncAcquired(reply)
      <4>1. PICK reply \in Replies : AsyncAcquired(reply)
        BY <3>3
      <4>2. \/ \E fd : async' = [async EXCEPT !.at = "answered", !.reply = reply, !.fd = fd]
            \/ AsyncAnswers(Threw(Failed, <<>>)) \/ AsyncAnswers(reply)
        BY <4>1 DEF AsyncAcquired
      <4> QED BY <1>1, <4>2 DEF AsyncAnswers
    <3>4. CASE PostEvent
      BY <1>1, <3>4 DEF PostEvent, AsyncAnswers
    <3>5. CASE ReceiveResult
      <4>1. MessageRefused \/ MessageFailed \/ MessageAcquired \/ MessageDone
        BY <3>5 DEF IInv, MessageSent, ReceiveResult
      <4> QED BY <3>5, <4>1, ErrorReceived, AcquireReceived, DoneReceived
    <3>6. CASE UNCHANGED async
      BY <3>6
    <3> QED BY <3>1, <3>2, <3>3, <3>4, <3>5, <3>6 DEF Next, vars, SyncCall, SyncReply,
               SyncAcquired, SyncWrite, SyncReleased, BufferFree, ReceiveEvent, Retire
  <2> QED BY <1>4, <1>5, <2>1 DEF Answers
<1> QED BY <1>3, <1>6, <1>7 DEF Answers, Answer

LEMMA AnswersInvariance == Spec => []Answers
<1>1. Init => Answers
  <2>1. ASSUME Init PROVE sync.reply = None /\ async.reply = None
    BY <2>1 DEF Init
  <2> QED BY <2>1 DEF Answers, Answer
<1> QED BY <1>1, NextAnswers, Invariance, PTL DEF Spec

----------------------------------------------------------------------------
(* The theorems about the two calls                                        *)

\* The buffer of a call that succeeded.
LEMMA BufferIs ==
  ASSUME IInv, sync.at = "returned", sync.reply = Done, ~sync.short, Buffered
  PROVE  /\ out \in Seq(Byte) /\ sync.status = "SUCCESS"
         /\ sync.fd \in IF Op \in Acquires THEN Fds ELSE {None}
         /\ Decode(Struct[Op], out, 0).value
              = Made(request, Struct[Op], Text(request.path), sync.fd)
<1>1. /\ Passed /\ Filled(sync.fd) /\ sync.status = StatusOf(Done)
      /\ sync.fd \in IF Op \in Acquires THEN Fds ELSE {None}
      /\ IsReply(Done)
  <2>1. Done # None
    BY ReplyIs DEF IsReply
  <2> QED BY <2>1 DEF IInv, SyncReturned
<1>2. sync.status = "SUCCESS"
  BY <1>1, ReplyIs
<1>3. request.path # None \/ Op = "GET_MANAGED_OBJECTS"
  <2>1. Op \notin Registrations
    BY StructNames DEF Buffered
  <2> QED BY <1>1, <2>1 DEF Passed, NullArgument
<1>4. out = Payload(Text(request.path), sync.fd)
  BY <1>1, <1>3, SamePayload DEF Filled
<1>5. LET p == Payload(Text(request.path), sync.fd)
      IN  /\ p \in Seq(Byte)
          /\ Decode(Struct[Op], p, 0).value
               = Made(request, Struct[Op], Text(request.path), sync.fd)
  BY <1>1, Sent DEF IInv
<1> QED BY <1>1, <1>2, <1>4, <1>5

Posted(tag, p) == message = <<tag>> \o p

LEMMA PostedBody ==
  ASSUME NEW tag \in Nat, NEW p \in Seq(Byte), Posted(tag, p)
  PROVE  Body \in Seq(Byte)
<1>1. Tail(<<tag>> \o p) = p
  BY Tagged
<1>2. Body = p
  BY <1>1, Zenon DEF Body, Posted
<1> QED BY <1>2

\* What is posted are bytes.
LEMMA BodyIs == ASSUME IInv, message # <<>> PROVE Body \in Seq(Byte)
<1>1. async.at = "answered"
  BY DEF IInv, AsyncStates
<1>2. \A p \in Seq(Byte) : \A tag \in {16, 17, 32, 255} :
        Posted(tag, p) => Body \in Seq(Byte)
  BY PostedBody
<1>3. \A s \in DOMAIN Fields : \A v : Holds(s, v) => Encode(s, v) \in Seq(Byte)
  <2>1. <<>> \in Seq(Nat)
    OBVIOUS
  <2> QED BY <2>1, RoundTrip
<1>4. \A e : Holds("Error", e) => Encode("Error", e) \in Seq(Byte)
  <2>1. "Error" \in DOMAIN Fields
    BY Structs DEF Structs1, Structs2, Structs3
  <2> QED BY <1>3, <2>1
<1>5. CASE MessageRefused
  <2>1. PICK path \in {<<>>, Text(request.path)} :
          message = <<32>> \o Encode("Error",
              [objectPath |-> path, name |-> InvalidArguments, message |-> <<>>])
    BY <1>5 DEF MessageRefused
  <2>2. IsText(path) /\ IsText(InvalidArguments) /\ IsText(<<>>)
    BY Requested, StandIns DEF IInv
  <2>3. Holds("Error",
              [objectPath |-> path, name |-> InvalidArguments, message |-> <<>>])
    BY <2>2, ErrorHolds
  <2> DEFINE p == Encode("Error",
              [objectPath |-> path, name |-> InvalidArguments, message |-> <<>>])
  <2>4. Posted(32, p) /\ p \in Seq(Byte)
    BY <1>4, <2>1, <2>3 DEF Posted
  <2> HIDE DEF p
  <2> QED BY <1>2, <2>4
<1>6. CASE MessageFailed
  <2>1. message = <<32>> \o Encode("Error", ErrorOf(async.reply)) /\ IsReply(async.reply)
    BY <1>6 DEF MessageFailed
  <2>2. Holds("Error", ErrorOf(async.reply))
    <3>1. PICK path, name, text :
            /\ IsText(path) /\ IsText(name) /\ IsText(text)
            /\ ErrorOf(async.reply) = [objectPath |-> path, name |-> name, message |-> text]
      BY <2>1, ErrorTexts DEF IInv
    <3> QED BY <3>1, ErrorHolds
  <2> DEFINE p == Encode("Error", ErrorOf(async.reply))
  <2>3. Posted(32, p) /\ p \in Seq(Byte)
    BY <1>4, <2>1, <2>2 DEF Posted
  <2> HIDE DEF p
  <2> QED BY <1>2, <2>3
<1>7. CASE MessageAcquired
  <2>1. PICK fd \in Fds :
          message = <<17>> \o (WriteInteger(fd, Width.u64) \o Payload(request.path, fd))
    BY <1>7 DEF MessageAcquired
  <2>2. Op \in Acquires /\ request.path # None
    BY <1>7 DEF MessageAcquired
  <2>3. Body \in Seq(Byte)
    BY <2>1, <2>2, AcquireDecoded DEF IInv
  <2> QED BY <2>3
<1>8. CASE MessageDone
  <2>1. CASE IsEvent
    <3> DEFINE s == request.argument
               v == Made(request, request.argument, request.path, None)
    <3>1. message = <<EventTag[s]>> \o Encode(s, v)
      BY <1>8, <2>1 DEF MessageDone
    <3>2. s \in DOMAIN EventTag /\ Holds(s, v)
      BY <2>1, Requested DEF IInv
    <3>3. s \in DOMAIN Fields /\ EventTag[s] \in Nat
      BY <3>2, Tags
    <3> HIDE DEF s, v
    <3>4. Encode(s, v) \in Seq(Byte)
      BY <1>3, <3>2, <3>3
    <3> DEFINE p == Encode(s, v)
               tag == EventTag[s]
    <3>5. Posted(tag, p) /\ p \in Seq(Byte) /\ tag \in Nat
      BY <3>1, <3>3, <3>4 DEF Posted
    <3> HIDE DEF p, tag
    <3> QED BY <3>5, PostedBody
  <2>2. CASE ~IsEvent
    <3>1. CASE Buffered
      <4> DEFINE p == Payload(Text(request.path), None)
      <4>1. Posted(16, p)
        BY <1>8, <2>2, <3>1 DEF MessageDone, Posted
      <4>2. p \in Seq(Byte)
        BY <1>8, <3>1, Sent DEF IInv, MessageDone
      <4> HIDE DEF p
      <4> QED BY <1>2, <4>1, <4>2
    <3>2. CASE ~Buffered /\ Op = "MPRIS_GET_COVER_ART"
      <4>1. Posted(16, request.content)
        BY <1>8, <2>2, <3>2 DEF MessageDone, Posted
      <4>2. request.content \in Seq(Byte)
        BY <3>2, Requested DEF IInv
      <4> QED BY <1>2, <4>1, <4>2
    <3>3. CASE ~Buffered /\ Op # "MPRIS_GET_COVER_ART"
      <4>1. Posted(255, <<>>)
        BY <1>8, <2>2, <3>3 DEF MessageDone, Posted
      <4>2. <<>> \in Seq(Byte)
        OBVIOUS
      <4> QED BY <1>2, <4>1, <4>2
    <3> QED BY <3>1, <3>2, <3>3
  <2> QED BY <2>1, <2>2
<1> QED BY <1>1, <1>5, <1>6, <1>7, <1>8 DEF IInv, MessageSent

\* Types; what is written into a buffer or a message are bytes
\* (write_payload, post_bytes).
THEOREM TypeCorrect == Spec => []TypeOK
<1>1. ASSUME IInv, Answers PROVE TypeOK
  <2>1. \A t \in Seq(Byte) : ToSet(t) \subseteq Byte
    BY DEF ToSet
  <2>2. out = None \/ out \in Seq(Byte)
    <3> SUFFICES ASSUME out # None PROVE out \in Seq(Byte)
      OBVIOUS
    <3>1. sync.at = "returned" /\ sync.reply = Done /\ ~sync.short /\ Filled(sync.fd)
      BY <1>1 DEF IInv, SyncStates, SyncReturned
    <3>2. Buffered
      BY <3>1 DEF Filled
    <3> QED BY <1>1, <3>1, <3>2, BufferIs
  <2>3. out = None \/ ToSet(out) \subseteq Byte
    BY <2>1, <2>2
  <2>4. message # <<>> => ToSet(Body) \subseteq Byte
    BY <1>1, <2>1, BodyIs
  <2>5. /\ sync.fd \in Fds \cup {None} /\ async.fd \in Fds \cup {None}
        /\ heap \in 0..1 /\ fds \subseteq Fds
    BY <1>1 DEF IInv, Owned
  <2>6. sync.status \in Statuses \cup {""}
    BY <1>1 DEF IInv, SyncStates, SyncReturned, Statuses
  <2>7. /\ alive \in BOOLEAN /\ sync.short \in BOOLEAN
        /\ sync.at \in {"idle", "bluez", "holding", "releasing", "returned", "freed"}
        /\ async.at \in {"idle", "queued", "bluez", "answered"}
    BY <1>1 DEF IInv, SyncStates, AsyncStates
  <2>8. /\ sync.reply \in Replies \cup {None, Threw(Failed, <<>>)}
        /\ async.reply \in Replies \cup {None, Threw(Failed, <<>>)}
    BY <1>1 DEF Answers, Answer
  <2> QED BY <2>3, <2>4, <2>5, <2>6, <2>7, <2>8 DEF TypeOK
<1> QED BY <1>1, Invariance, AnswersInvariance, PTL

\* The buffer of a blocking call holds an allocation exactly while it
\* succeeded, and the open descriptors are exactly those of the two calls
\* (write_payload, take_fd, dispatch_async, _decodeAcquire).
THEOREM NothingIsLost == Spec => []NothingLost
<1>1. ASSUME IInv PROVE NothingLost
  <2>1. heap = (IF out = None THEN 0 ELSE 1) /\ fds = {sync.fd, async.fd} \ {None}
    BY <1>1 DEF IInv, Owned
  <2>2. ASSUME out # None
        PROVE  sync.at = "returned" /\ sync.status = "SUCCESS" /\ Buffered
    <3>1. sync.at = "returned" /\ sync.reply = Done /\ ~sync.short /\ Filled(sync.fd)
      BY <1>1, <2>2 DEF IInv, SyncStates, SyncReturned
    <3>2. Buffered
      BY <2>2, <3>1 DEF Filled
    <3> QED BY <1>1, <3>1, <3>2, BufferIs
  <2>3. ASSUME sync.at = "returned", sync.status = "SUCCESS", Buffered
        PROVE  out # None
    <3>1. IsReply(sync.reply) /\ ~sync.short /\ sync.status = StatusOf(sync.reply)
      BY <1>1, <2>3 DEF IInv, SyncReturned
    <3>2. sync.reply = Done
      BY <2>3, <3>1, ReplyIs
    <3>3. out \in Seq(Byte)
      BY <1>1, <2>3, <3>1, <3>2, BufferIs
    <3> QED BY <3>3, NoneAssumption
  <2> QED BY <2>1, <2>2, <2>3 DEF NothingLost
<1> QED BY <1>1, Invariance, PTL

\* A request that BlueZ answers in the same way is reported in the same way by
\* both surfaces: both succeed, with the same value but for the descriptor, or
\* both fail, the queued call with the one error expected of it; a setting that
\* BlueZ refused is exempt as to that error's name, because dispatch_async does
\* not map it (the entry points, dispatch_async, _awaitNativeResult).
THEOREM Agreement == Spec => []SameOutcome
<1>1. ASSUME IInv, sync.at = "returned", view # None, sync.reply = async.reply,
             ~sync.short, view.kind # "StateError"
      PROVE  /\ sync.status = "SUCCESS" <=> Succeeded
             /\ sync.status = "SUCCESS" /\ Buffered =>
                   LET value == Decode(Struct[Op], out, 0).value
                   IN  IF Op \in Acquires
                       THEN [value EXCEPT !.fd = 0] = [view.value EXCEPT !.fd = 0]
                       ELSE value = view.value
             /\ sync.status # "SUCCESS" =>
                   /\ view.kind = "exception"
                   /\ SettingRefused \/ view.value.name = ErrorExpected
  <2>1. /\ async.at = "answered" /\ (view.kind = "exception" <=> async.reply # Done)
        /\ view.kind \in {"exception", "value", "null"}
        /\ view.kind = "exception" /\ async.reply # None =>
              view.value = ErrorOf(async.reply)
        /\ view.kind = "exception" /\ async.reply = None =>
              view.value.name = InvalidArguments
        /\ view.kind = "value" =>
              view.value = IF IsEvent
                           THEN Made(request, request.argument, request.path, None)
                           ELSE IF Op = "MPRIS_GET_COVER_ART" THEN request.content
                           ELSE Made(request, Struct[Op], Text(request.path), async.fd)
        /\ Buffered => view.kind # "null"
    BY <1>1 DEF IInv, ViewShown
  <2>2. Done # None
    BY ReplyIs DEF IsReply
  <2>3. \/ sync.reply = None /\ sync.status # "SUCCESS"
        \/ IsReply(sync.reply) /\ sync.status = StatusOf(sync.reply)
    BY <1>1 DEF IInv, SyncReturned
  <2>4. sync.status = "SUCCESS" <=> sync.reply = Done
    BY <2>2, <2>3, ReplyIs
  <2>5. sync.status = "SUCCESS" <=> Succeeded
    BY <1>1, <2>1, <2>4 DEF Succeeded
  <2>6. ASSUME sync.status = "SUCCESS", Buffered
        PROVE  LET value == Decode(Struct[Op], out, 0).value
               IN  IF Op \in Acquires
                   THEN [value EXCEPT !.fd = 0] = [view.value EXCEPT !.fd = 0]
                   ELSE value = view.value
    <3>1. /\ Decode(Struct[Op], out, 0).value
               = Made(request, Struct[Op], Text(request.path), sync.fd)
          /\ sync.fd \in IF Op \in Acquires THEN Fds ELSE {None}
      BY <1>1, <2>4, <2>6, BufferIs
    <3>2. ~IsEvent /\ Op # "MPRIS_GET_COVER_ART"
      BY <2>6, StructNames DEF IsEvent, Buffered
    <3>3. view.value = Made(request, Struct[Op], Text(request.path), async.fd)
      BY <1>1, <2>1, <2>4, <2>6, <3>2
    <3>4. CASE Op \in Acquires
      <4>1. Struct[Op] = "AcquireResult"
        BY <3>4, StructNames
      <4> DEFINE path == Text(request.path)
                 c == request.content
      <4>2. \A fd : Made(request, "AcquireResult", path, fd)
                      = [transportPath |-> path, fd |-> fd, readMtu |-> c.read,
                         writeMtu |-> c.write]
        BY DEF Made, AcquireResult
      <4> HIDE DEF path, c
      <4>3. \A fd : [Made(request, "AcquireResult", path, fd) EXCEPT !.fd = 0]
                      = [transportPath |-> path, fd |-> 0, readMtu |-> c.read,
                         writeMtu |-> c.write]
        BY <4>2
      <4>4. [Made(request, "AcquireResult", path, sync.fd) EXCEPT !.fd = 0]
               = [Made(request, "AcquireResult", path, async.fd) EXCEPT !.fd = 0]
        BY <4>3
      <4> QED BY <3>1, <3>3, <3>4, <4>1, <4>4, Zenon DEF path
    <3>5. CASE Op \notin Acquires
      <4>1. sync.fd = None
        BY <3>1, <3>5
      <4>2. async.fd = None
        <5>1. MessageRefused \/ MessageFailed \/ MessageDone
          BY <1>1, <2>1, <3>5 DEF IInv, MessageSent, MessageAcquired
        <5> QED BY <5>1 DEF MessageRefused, MessageFailed, MessageDone
      <4> QED BY <3>1, <3>3, <3>5, <4>1, <4>2
    <3> QED BY <3>4, <3>5
  <2>7. ASSUME sync.status # "SUCCESS"
        PROVE  /\ view.kind = "exception"
               /\ SettingRefused \/ view.value.name = ErrorExpected
    <3>1. view.kind = "exception" /\ sync.reply # Done
      BY <1>1, <2>1, <2>4, <2>7
    <3>2. CASE sync.reply = None
      <4>1. view.value.name = InvalidArguments
        BY <1>1, <2>1, <3>1, <3>2
      <4> QED BY <3>1, <3>2, <4>1 DEF ErrorExpected
    <3>3. CASE sync.reply # None
      <4>1. IsReply(sync.reply) /\ sync.status = StatusOf(sync.reply)
        BY <2>3, <3>3
      <4>2. view.value.name = IF sync.reply.kind = "error" THEN sync.reply.name
                              ELSE ErrorName(sync.reply.status)
        BY <1>1, <2>1, <3>1, <3>3 DEF ErrorOf
      <4>3. CASE \E status \in {"ALREADY_EXISTS", "INVALID_ARGUMENT", "NOT_FOUND"} :
                   sync.reply = Returned(status)
        <5>1. PICK status \in {"ALREADY_EXISTS", "INVALID_ARGUMENT", "NOT_FOUND"} :
                sync.reply = Returned(status)
          BY <4>3
        <5>2. sync.reply.kind = "done" /\ sync.reply.status = status
          BY <5>1 DEF Returned, Done
        <5>3. /\ sync.status = status /\ sync.status # "OPERATION_FAILED"
              /\ view.value.name = ErrorName(sync.status)
          BY <4>1, <4>2, <5>2 DEF StatusOf
        <5> QED BY <3>1, <3>3, <5>3 DEF ErrorExpected
      <4>4. CASE \E name \in {OtherName, Failed}, text \in {<<>>, InvalidParameter} :
                   sync.reply = Threw(name, text)
        <5>1. PICK name \in {OtherName, Failed}, text \in {<<>>, InvalidParameter} :
                sync.reply = Threw(name, text)
          BY <4>4
        <5>2. sync.reply.kind = "error"
          <6> DEFINE r == sync.reply
          <6>1. r = [kind |-> "error", status |-> "", name |-> name, text |-> text]
            BY <5>1 DEF Threw
          <6> HIDE DEF r
          <6>2. r.kind = "error"
            BY <6>1
          <6> QED BY <6>2 DEF r
        <5>3. /\ sync.status \in {"UNSUPPORTED_SETTING", "OPERATION_FAILED"}
              /\ view.value.name = sync.reply.name
          BY <4>1, <4>2, <5>2 DEF StatusOf
        <5> QED BY <3>1, <3>3, <5>3 DEF ErrorExpected, SettingRefused
      <4> QED BY <3>1, <4>1, <4>3, <4>4 DEF IsReply
    <3> QED BY <3>2, <3>3
  <2> QED BY <2>5, <2>6, <2>7
<1>2. ASSUME IInv PROVE SameOutcome
  BY <1>1, <1>2 DEF SameOutcome
<1> QED BY <1>2, Invariance, PTL

\* What Dart's future completes with is what BlueZ sent, in full and each part
\* in its place, or the error with its path, name and message; no message is
\* too short for its decoder (glaze_meta.h against codec.dart).
THEOREM ViewIsTheReply == Spec => []ViewIsReply
<1>1. ASSUME IInv PROVE ViewIsReply
  <2> SUFFICES ASSUME view # None
               PROVE  LET path == Text(request.path) IN
                      /\ view.kind # "RangeError"
                      /\ view.kind = "value" =>
                            view.value = (IF IsEvent
                                          THEN Made(request, request.argument, path, None)
                                          ELSE IF Op = "MPRIS_GET_COVER_ART"
                                          THEN request.content
                                          ELSE Made(request, Struct[Op], path, async.fd))
                      /\ ~IsEvent /\ async.reply # None /\ async.reply.kind = "error" =>
                            /\ view.kind = "exception"
                            /\ view.value = [objectPath |-> path,
                                             name |-> async.reply.name,
                                             message |-> async.reply.text]
    BY DEF ViewIsReply
  <2>1. ViewShown
    BY <1>1 DEF IInv
  <2>2. view.kind # "RangeError"
    BY <2>1 DEF ViewShown
  <2>3. IsEvent => Text(request.path) = request.path
    BY <1>1, Requested DEF IInv, Text
  <2>4. ASSUME async.reply # None, async.reply.kind = "error"
        PROVE  /\ view.kind = "exception"
               /\ view.value = [objectPath |-> Text(request.path),
                                name |-> async.reply.name, message |-> async.reply.text]
    <3>1. async.reply # Done
      BY <2>4 DEF Done
    <3>2. view.kind = "exception" /\ view.value = ErrorOf(async.reply)
      BY <2>1, <2>4, <3>1 DEF ViewShown
    <3> QED BY <2>4, <3>2 DEF ErrorOf
  <2>5. view.kind = "value" =>
          view.value = (IF IsEvent
                        THEN Made(request, request.argument, Text(request.path), None)
                        ELSE IF Op = "MPRIS_GET_COVER_ART" THEN request.content
                        ELSE Made(request, Struct[Op], Text(request.path), async.fd))
    BY <2>1, <2>3 DEF ViewShown
  <2> QED BY <2>2, <2>4, <2>5
<1> QED BY <1>1, Invariance, PTL
=============================================================================
