----------------------- MODULE MediaObjectManagerProofs -----------------------
(***************************************************************************)
(* The object manager's copy of BlueZ's tree is right when it is quiet, for*)
(* any interfaces, properties, values and owners                           *)
(* (native/src/media_object_manager.cpp).                                  *)
(*                                                                         *)
(* The argument: at every moment each cached interface either agrees with  *)
(* BlueZ or a signal still in the inbox, or a GetAll under way, puts it    *)
(* right (Corrected, Tracked).  For this to survive a handler, whatever a  *)
(* queued signal or reply says must itself be right, or put right by the   *)
(* messages behind it (Sound, AllSound).  The remaining parts say which    *)
(* requests can be under way and where an owner change may hide.           *)
(*                                                                         *)
(* Uncancelled and Replayed are defined by recursion over a queue.  What   *)
(* they compute is proved by induction over a set of numbers (Smallest,    *)
(* Counting), for a function shown to exist and chosen.                    *)
(***************************************************************************)
EXTENDS MediaObjectManager, FiniteSetTheorems, SequenceTheorems,
        WellFoundedInduction, TLAPS

----------------------------------------------------------------------------
(* The invariant                                                           *)

\* The messages of q after the i-th.
Later(q, i) == {q[j] : j \in (i + 1)..Len(q)}

\* No owner change among the messages of q from the i-th on.
SameOwner(q, i) == \A j \in DOMAIN q : j >= i => q[j].type # "owner"

\* What the update m may put right: the presence of o, its absence, its
\* property p.
Adds(m, o) == m.type = "added" /\ m.tree[o] # Absent
Removes(m, o) == m.type = "removed" /\ o \in m.objects
Renews(m, o, p) ==
    \/ Adds(m, o)
    \/ m.type = "changed" /\ m.object = o
       /\ (m.invalidated \/ p \in DOMAIN m.changed)

\* The value v for o agrees with the tree b but for what the messages M put
\* right; late: a GetAll is under way, so its properties need not agree.
Corrected(b, o, v, M, late) ==
    /\ v = Absent /\ b[o] # Absent => \E m \in M : Adds(m, o)
    /\ v # Absent /\ b[o] = Absent => \E m \in M : Removes(m, o)
    /\ v # Absent /\ b[o] # Absent /\ ~late =>
         \A p \in Properties : v[p] # b[o][p] => \E m \in M : Renews(m, o, p)

\* What m says of its objects agrees with b but for what M puts right.
Sound(b, m, M) ==
    /\ m.type = "added" =>
         \A o \in Objects : m.tree[o] # Absent => Corrected(b, o, m.tree[o], M, FALSE)
    /\ m.type = "removed" =>
         \A o \in Objects \cap m.objects : Corrected(b, o, Absent, M, FALSE)
    /\ m.type = "changed" /\ b[m.object] # Absent =>
         \A p \in DOMAIN m.changed :
           m.changed[p] # b[m.object][p] => \E n \in M : Renews(n, m.object, p)
    /\ m.type = "snapshot" /\ m.tree # Error =>
         \A o \in Objects : Corrected(b, o, m.tree[o], M, FALSE)
    /\ m.type = "getall" /\ m.value # Error =>
         Corrected(b, m.object, m.value, M, FALSE)

\* The objects that q has GetAll requests or replies for.
Asked(q) == {q[i].object : i \in {k \in DOMAIN q : q[k].type = "getall"}}

\* Queued and deferred messages of the present owner are put right by those
\* behind them; GetAll fails, short of a refusal, for an interface that is gone.
AllSound ==
    /\ \A i \in DOMAIN inbox :
         SameOwner(inbox, i) => Sound(bluez, inbox[i], Later(inbox, i))
    /\ SameOwner(inbox, 1) =>
         \A i \in DOMAIN deferred :
           Sound(bluez, deferred[i], Later(deferred, i) \cup Later(inbox, 0))
    /\ SameOwner(inbox, 1) /\ ~failed =>
         \A i \in DOMAIN inbox :
           inbox[i].type = "getall" /\ inbox[i].value = Error =>
             Corrected(bluez, inbox[i].object, Absent, Later(inbox, i), FALSE)

\* The cache is right but for what the inbox and the GetAll calls put right.
Tracked ==
    started /\ SameOwner(inbox, 1) /\ ~failed /\ ~resync =>
      \A o \in Objects :
        Corrected(bluez, o, cache[o], Later(inbox, 0),
                  o \in Asked(calls) \/ o \in Asked(inbox))

\* A GetAll is under way only while its path has an interface: destroying the
\* path's proxy cancels it.
Underway == Later(calls, 0) \cup Later(inbox, 0)

Anchored ==
    \A m \in Underway : m.type = "getall" =>
      \E k \in Objects : PathOf[k] = PathOf[m.object] /\ cache[k] # Absent

\* At most one request of the current generation is under way, and only during
\* a resynchronisation; it fails only when refused or when its callee is gone.
Current(m, g) == m.type = "snapshot" /\ m.gen = g

Snapshots ==
    /\ \A m \in Underway :
         m.type = "snapshot" => m.gen <= generation /\ (m.gen = generation => resync)
    /\ \A i, k \in DOMAIN calls :
         Current(calls[i], generation) /\ Current(calls[k], generation) => i = k
    /\ \A i, k \in DOMAIN inbox :
         Current(inbox[i], generation) /\ Current(inbox[k], generation) => i = k
    /\ \A m \in Later(calls, 0), n \in Later(inbox, 0) :
         ~(Current(m, generation) /\ Current(n, generation))
    /\ \A i \in DOMAIN inbox :
         Current(inbox[i], generation) /\ inbox[i].tree = Error =>
           failed \/ \E j \in 1..(i - 1) : inbox[j].type = "owner"

\* A resynchronisation that no owner change will end has its snapshot coming.
Awaited ==
    resync /\ SameOwner(inbox, 1) =>
      owner # 0 /\ \E m \in Underway : Current(m, generation)

\* The last owner change in the inbox tells of the present owner; without one
\* behind them, requests are addressed to it.
Owners ==
    /\ \A i \in DOMAIN inbox :
         inbox[i].type = "owner" /\ SameOwner(inbox, i + 1) => inbox[i].owner = owner
    /\ owner = 0 => bluez = Nothing
    /\ SameOwner(inbox, 1) =>
         \A m \in Later(calls, 0) :
           m.type = "getall" \/ Current(m, generation) => m.to = owner

\* Nothing is cached while the snapshot is awaited, nothing deferred otherwise.
Resyncs == IF resync THEN cache = Nothing ELSE deferred = <<>>

\* Before the first snapshot only signals and owner changes can be queued.
NotStarted ==
    ~started =>
      /\ cache = Nothing /\ calls = <<>> /\ deferred = <<>> /\ ~resync
      /\ generation = 0 /\ available /\ ~failed
      /\ \A m \in Later(inbox, 0) : m.type \in Updates \cup {"owner"}

\* No signal comes from a name without an owner, so none is applied while the
\* service is reported unavailable and no snapshot awaited.
Silent ==
    /\ \A i, k \in DOMAIN inbox :
         i < k /\ inbox[i].type = "owner" /\ inbox[i].owner = 0
           /\ inbox[k].type \in Updates =>
             \E j \in (i + 1)..(k - 1) : inbox[j].type = "owner"
    /\ ~available /\ ~resync /\ ~failed =>
         /\ \A k \in DOMAIN inbox : inbox[k].type \in Updates =>
              \E j \in 1..(k - 1) : inbox[j].type = "owner"
         /\ SameOwner(inbox, 1) => owner = 0

\* Dart has been told of the cache, and of none of it while unavailable.
Shown == view = cache /\ (~available /\ ~failed => cache = Nothing)

IInv == TypeOK /\ AllSound /\ Tracked /\ Anchored /\ Snapshots /\ Awaited
        /\ Owners /\ Resyncs /\ NotStarted /\ Silent /\ Shown

----------------------------------------------------------------------------
(* Sequences                                                               *)

LEMMA Smallest ==
  ASSUME NEW T, T \subseteq Nat, T # {}
  PROVE  \E x \in T : \A y \in T : x <= y
<1>1. \E x \in T : \A y \in T : ~(<<y, x>> \in OpToRel(<, Nat))
  BY NatLessThanWellFounded, WFMin
<1>2. PICK x \in T : \A y \in T : ~(<<y, x>> \in OpToRel(<, Nat))
  BY <1>1
<1>3. \A y \in T : ~(y < x)
  BY <1>2 DEF OpToRel
<1> QED BY <1>3

LEMMA Counting ==
  ASSUME NEW T, 0 \in T, \A n \in T : n + 1 \in T
  PROVE  Nat \subseteq T
<1> SUFFICES ASSUME Nat \ T # {} PROVE FALSE
  OBVIOUS
<1>1. PICK x \in Nat \ T : \A y \in Nat \ T : x <= y
  BY Smallest
<1>2. x # 0 /\ x - 1 \in Nat
  BY <1>1
<1>3. x - 1 \in T
  BY <1>1, <1>2
<1>4. (x - 1) + 1 = x
  BY <1>1
<1> QED BY <1>1, <1>3, <1>4

LEMMA LaterAppend ==
  ASSUME NEW S, NEW q \in Seq(S), NEW m \in S, NEW i \in 0..Len(q)
  PROVE  Later(Append(q, m), i) = Later(q, i) \cup {m}
<1>1. /\ Len(Append(q, m)) = Len(q) + 1
      /\ \A j \in 1..Len(q) : Append(q, m)[j] = q[j]
      /\ Append(q, m)[Len(q) + 1] = m
  BY AppendProperties
<1>2. Len(q) \in Nat /\ i \in Nat
  BY LenProperties
<1> QED BY <1>1, <1>2 DEF Later

LEMMA LaterIn ==
  ASSUME NEW S, NEW q \in Seq(S), NEW i \in Nat
  PROVE  Later(q, i) \subseteq S
<1>1. Len(q) \in Nat /\ q \in [1..Len(q) -> S]
  BY LenProperties
<1> QED BY <1>1 DEF Later

LEMMA LaterAll ==
  ASSUME NEW S, NEW q \in Seq(S)
  PROVE  /\ \A i \in DOMAIN q : q[i] \in Later(q, 0)
         /\ \A m \in Later(q, 0) : \E i \in DOMAIN q : m = q[i]
<1>1. Len(q) \in Nat /\ DOMAIN q = 1..Len(q)
  BY LenProperties
<1> QED BY <1>1 DEF Later

LEMMA LaterNone ==
  ASSUME NEW S, NEW q \in Seq(S)
  PROVE  Later(q, Len(q)) = {}
<1>1. Len(q) \in Nat
  BY LenProperties
<1> QED BY <1>1 DEF Later

LEMMA LaterNext ==
  ASSUME NEW S, NEW q \in Seq(S), NEW i \in 1..Len(q)
  PROVE  Later(q, i - 1) = Later(q, i) \cup {q[i]}
<1>1. Len(q) \in Nat /\ i \in Nat
  BY LenProperties
<1> QED BY <1>1 DEF Later

Cancels(m, P) == m.type = "getall" /\ PathOf[m.object] \in P

\* r is q without the messages that P cancels; e[i] is where r[i] was.
Thin(r, q, P, e) ==
    /\ e \in [1..Len(r) -> 1..Len(q)]
    /\ \A i, k \in 1..Len(r) : i < k => e[i] < e[k]
    /\ \A i \in 1..Len(r) : r[i] = q[e[i]] /\ ~Cancels(q[e[i]], P)
    /\ \A k \in 1..Len(q) : Cancels(q[k], P) \/ \E i \in 1..Len(r) : e[i] = k

Prefix(q, n) == SubSeq(q, 1, n)

LEMMA ThinAppend ==
  ASSUME NEW S, NEW q \in Seq(S), NEW r \in Seq(S), NEW m \in S, NEW P, NEW e,
         Thin(r, q, P, e), ~Cancels(m, P)
  PROVE  \E f : Thin(Append(r, m), Append(q, m), P, f)
<1> DEFINE R == Append(r, m)
           Q == Append(q, m)
           f == [i \in 1..Len(R) |-> IF i = Len(R) THEN Len(Q) ELSE e[i]]
<1>1. /\ Len(R) = Len(r) + 1 /\ \A j \in 1..Len(r) : R[j] = r[j]
      /\ R[Len(r) + 1] = m
      /\ Len(Q) = Len(q) + 1 /\ \A j \in 1..Len(q) : Q[j] = q[j]
      /\ Q[Len(q) + 1] = m /\ Len(q) \in Nat /\ Len(r) \in Nat
  BY AppendProperties, LenProperties
<1> HIDE DEF R, Q
<1>2. /\ f \in [1..Len(R) -> 1..Len(Q)]
      /\ \A i \in 1..Len(r) : f[i] = e[i] /\ e[i] \in 1..Len(q)
      /\ f[Len(R)] = Len(Q)
  <2>1. e \in [1..Len(r) -> 1..Len(q)]
    BY DEF Thin
  <2>2. \A i \in 1..Len(r) : e[i] \in 1..Len(q)
    BY <2>1
  <2>3. \A i \in 1..Len(R) : i # Len(R) => i \in 1..Len(r)
    BY <1>1
  <2>4. \A i \in 1..Len(r) : i \in 1..Len(R) /\ i # Len(R)
    BY <1>1
  <2>5. Len(Q) \in 1..Len(Q) /\ (\A i \in 1..Len(q) : i \in 1..Len(Q))
        /\ Len(R) \in 1..Len(R)
    BY <1>1
  <2>6. \A i \in 1..Len(R) : f[i] \in 1..Len(Q)
    BY <2>2, <2>3, <2>5
  <2> QED BY <2>2, <2>4, <2>5, <2>6
<1> HIDE DEF f
<1>3. \A i, k \in 1..Len(R) : i < k => f[i] < f[k]
  <2> SUFFICES ASSUME NEW i \in 1..Len(R), NEW k \in 1..Len(R), i < k
               PROVE f[i] < f[k]
    OBVIOUS
  <2>1. i \in 1..Len(r)
    BY <1>1
  <2>2. CASE k \in 1..Len(r)
    BY <2>1, <2>2, <1>2 DEF Thin
  <2>3. CASE k = Len(R)
    BY <2>1, <2>3, <1>1, <1>2
  <2> QED BY <2>2, <2>3, <1>1, SMTT(30)
<1>4. \A i \in 1..Len(R) : R[i] = Q[f[i]] /\ ~Cancels(Q[f[i]], P)
  <2> SUFFICES ASSUME NEW i \in 1..Len(R)
               PROVE R[i] = Q[f[i]] /\ ~Cancels(Q[f[i]], P)
    OBVIOUS
  <2>1. CASE i \in 1..Len(r)
    <3>1. r[i] = q[e[i]] /\ ~Cancels(q[e[i]], P)
      BY <2>1 DEF Thin
    <3>2. f[i] = e[i] /\ Q[e[i]] = q[e[i]] /\ R[i] = r[i]
      BY <2>1, <1>1, <1>2
    <3> QED BY <3>1, <3>2
  <2>2. CASE i = Len(R)
    BY <2>2, <1>1, <1>2
  <2> QED BY <2>1, <2>2, <1>1
<1>5. \A k \in 1..Len(Q) : Cancels(Q[k], P) \/ \E i \in 1..Len(R) : f[i] = k
  <2> SUFFICES ASSUME NEW k \in 1..Len(Q)
               PROVE Cancels(Q[k], P) \/ \E i \in 1..Len(R) : f[i] = k
    OBVIOUS
  <2>1. CASE k \in 1..Len(q)
    <3>1. Cancels(q[k], P) \/ \E i \in 1..Len(r) : e[i] = k
      BY <2>1 DEF Thin
    <3> QED BY <3>1, <2>1, <1>1, <1>2
  <2>2. CASE k = Len(Q)
    BY <2>2, <1>1, <1>2
  <2> QED BY <2>1, <2>2, <1>1
<1> QED BY <1>2, <1>3, <1>4, <1>5, ZenonT(60) DEF Thin, R, Q

LEMMA ThinDrop ==
  ASSUME NEW S, NEW q \in Seq(S), NEW r \in Seq(S), NEW m \in S, NEW P, NEW e,
         Thin(r, q, P, e), Cancels(m, P)
  PROVE  Thin(r, Append(q, m), P, e)
<1>1. /\ Len(Append(q, m)) = Len(q) + 1
      /\ \A j \in 1..Len(q) : Append(q, m)[j] = q[j]
      /\ Append(q, m)[Len(q) + 1] = m /\ Len(q) \in Nat /\ Len(r) \in Nat
  BY AppendProperties, LenProperties
<1>2. \A i \in 1..Len(r) : e[i] \in 1..Len(q)
  BY DEF Thin
<1> QED BY <1>1, <1>2 DEF Thin

\* The messages Uncancelled keeps of the first n.
KeptOf(q, P, kept, N) ==
    kept = [n \in 0..N |->
              IF n = 0 THEN <<>>
              ELSE IF Cancels(q[n], P) THEN kept[n - 1]
              ELSE Append(kept[n - 1], q[n])]

LEMMA KeptExists ==
  ASSUME NEW q, NEW P, NEW N \in Nat
  PROVE  \E kept : KeptOf(q, P, kept, N)
<1> DEFINE T == {n \in Nat : \E kept : KeptOf(q, P, kept, n)}
<1>1. 0 \in T
  <2> DEFINE g == [n \in 0..0 |-> <<>>]
  <2>1. KeptOf(q, P, g, 0)
    BY DEF KeptOf
  <2> QED BY <2>1
<1>2. ASSUME NEW n \in T PROVE n + 1 \in T
  <2>1. PICK h : KeptOf(q, P, h, n)
    OBVIOUS
  <2>2. n \in Nat
    OBVIOUS
  <2> DEFINE g == [k \in 0..n + 1 |->
                     IF k = n + 1
                     THEN IF Cancels(q[k], P) THEN h[n] ELSE Append(h[n], q[k])
                     ELSE h[k]]
  <2>3. \A k \in 0..n : g[k] = h[k]
    BY <2>2
  <2>4. \A k \in 0..n : h[k] = IF k = 0 THEN <<>>
                               ELSE IF Cancels(q[k], P) THEN h[k - 1]
                               ELSE Append(h[k - 1], q[k])
    BY <2>1 DEF KeptOf
  <2>5. g = [k \in 0..n + 1 |-> IF k = 0 THEN <<>>
                                ELSE IF Cancels(q[k], P) THEN g[k - 1]
                                ELSE Append(g[k - 1], q[k])]
    <3>1. ASSUME NEW k \in 0..n + 1
          PROVE  g[k] = IF k = 0 THEN <<>>
                        ELSE IF Cancels(q[k], P) THEN g[k - 1]
                        ELSE Append(g[k - 1], q[k])
      <4>1. CASE k = n + 1
        BY <4>1, <2>2, <2>3
      <4>2. CASE k # n + 1
        <5>1. k \in 0..n /\ (k # 0 => k - 1 \in 0..n)
          BY <4>2, <2>2
        <5> HIDE DEF g
        <5> QED BY <5>1, <2>3, <2>4
      <4> QED BY <4>1, <4>2
    <3> QED BY <3>1
  <2>6. KeptOf(q, P, g, n + 1)
    BY <2>5 DEF KeptOf
  <2> QED BY <2>6, <2>2
<1> HIDE DEF T
<1>3. Nat \subseteq T
  BY <1>1, <1>2, Counting
<1> QED BY <1>3 DEF T

LEMMA UncancelledIs ==
  ASSUME NEW q, NEW P, Len(q) \in Nat
  PROVE  \E kept : KeptOf(q, P, kept, Len(q)) /\ Uncancelled(q, P) = kept[Len(q)]
<1> DEFINE kept == CHOOSE g : KeptOf(q, P, g, Len(q))
<1>1. KeptOf(q, P, kept, Len(q))
  BY KeptExists
<1>2. Uncancelled(q, P) = kept[Len(q)]
  BY DEF Uncancelled, KeptOf, Cancels
<1> QED BY <1>1, <1>2

LEMMA UncancelledThin ==
  ASSUME NEW S, NEW q \in Seq(S), NEW P
  PROVE  Uncancelled(q, P) \in Seq(S) /\ \E e : Thin(Uncancelled(q, P), q, P, e)
<1>0. Len(q) \in Nat /\ q \in [1..Len(q) -> S] /\ DOMAIN q = 1..Len(q)
  BY LenProperties
<1>1. PICK kept : KeptOf(q, P, kept, Len(q)) /\ Uncancelled(q, P) = kept[Len(q)]
  BY <1>0, UncancelledIs
<1>2. \A n \in 0..Len(q) : kept[n] = IF n = 0 THEN <<>>
                                     ELSE IF Cancels(q[n], P) THEN kept[n - 1]
                                     ELSE Append(kept[n - 1], q[n])
  BY <1>1 DEF KeptOf
<1> DEFINE Good(n) == /\ kept[n] \in Seq(S)
                      /\ \E e : Thin(kept[n], Prefix(q, n), P, e)
           T == {n \in Nat : n <= Len(q) => Good(n)}
<1>3. 0 \in T
  <2>1. kept[0] = <<>> /\ Prefix(q, 0) = <<>>
    BY <1>0, <1>2, SubSeqEmpty DEF Prefix
  <2> DEFINE e == [i \in {} |-> 0]
  <2>2. Thin(<<>>, <<>>, P, e)
    BY DEF Thin
  <2>3. Good(0)
    BY <2>1, <2>2, EmptySeq
  <2> QED BY <2>3
<1>4. ASSUME NEW n \in T PROVE n + 1 \in T
  <2> SUFFICES ASSUME n + 1 <= Len(q) PROVE Good(n + 1)
    OBVIOUS
  <2>1. n \in Nat /\ n <= Len(q) /\ n + 1 \in 1..Len(q) /\ n + 1 # 0
        /\ (n + 1) - 1 = n /\ Good(n)
    BY <1>0
  <2>2. q[n + 1] \in S
    BY <1>0, <2>1
  <2>3. Prefix(q, n + 1) = Append(Prefix(q, n), q[n + 1]) /\ Prefix(q, n) \in Seq(S)
    <3>1. /\ Len(Prefix(q, n)) = n /\ Len(Prefix(q, n + 1)) = n + 1
          /\ Prefix(q, n) \in Seq(S) /\ Prefix(q, n + 1) \in Seq(S)
          /\ \A i \in 1..n : Prefix(q, n)[i] = q[i]
          /\ \A i \in 1..n + 1 : Prefix(q, n + 1)[i] = q[i]
      BY <1>0, <2>1 DEF Prefix
    <3>2. /\ Append(Prefix(q, n), q[n + 1]) \in Seq(S)
          /\ Len(Append(Prefix(q, n), q[n + 1])) = n + 1
          /\ \A i \in 1..n : Append(Prefix(q, n), q[n + 1])[i] = q[i]
          /\ Append(Prefix(q, n), q[n + 1])[n + 1] = q[n + 1]
      BY <3>1, <2>2, AppendProperties
    <3>3. \A i \in 1..n + 1 : Prefix(q, n + 1)[i] = Append(Prefix(q, n), q[n + 1])[i]
      BY <3>1, <3>2, <2>1
    <3> QED BY <3>1, <3>2, <3>3, SeqEqual
  <2>4. PICK e : Thin(kept[n], Prefix(q, n), P, e)
    BY <2>1
  <2>5. CASE Cancels(q[n + 1], P)
    <3>1. kept[n + 1] = kept[n]
      BY <1>2, <2>1, <2>5
    <3> QED BY <3>1, <2>1, <2>2, <2>3, <2>4, <2>5, ThinDrop
  <2>6. CASE ~Cancels(q[n + 1], P)
    <3>1. kept[n + 1] = Append(kept[n], q[n + 1])
      <4>1. n + 1 \in 0..Len(q) /\ n + 1 # 0
        BY <2>1
      <4>2. kept[n + 1] = Append(kept[(n + 1) - 1], q[n + 1])
        BY <1>2, <4>1, <2>6, Zenon
      <4> QED BY <4>2, <2>1
    <3>2. kept[n + 1] \in Seq(S)
      BY <3>1, <2>1, <2>2, AppendProperties
    <3>3. \E f : Thin(Append(kept[n], q[n + 1]), Append(Prefix(q, n), q[n + 1]), P, f)
      BY <2>1, <2>2, <2>3, <2>4, <2>6, ThinAppend
    <3> QED BY <3>1, <3>2, <3>3, <2>3
  <2> QED BY <2>5, <2>6
<1> HIDE DEF T
<1>5. Nat \subseteq T
  BY <1>3, <1>4, Counting
<1>6. Good(Len(q))
  BY <1>0, <1>5 DEF T
<1>7. Prefix(q, Len(q)) = q
  BY SubSeqFull DEF Prefix
<1> QED BY <1>1, <1>6, <1>7

----------------------------------------------------------------------------
(* The manager's functions                                                 *)

Manager ==
    [cache : Tree, view : Tree, revision : [Objects -> Nat], lastRev : Nat,
     calls : Seq(Call), callbacks : Seq(Callback), dropped : SUBSET Paths]

\* What one handler leaves is what the next may rely on.
Consistent(s) ==
    /\ s \in Manager /\ s.view = s.cache
    /\ \A o \in Objects : /\ s.revision[o] <= s.lastRev
                          /\ s.revision[o] = 0 <=> s.cache[o] = Absent

\* The paths D takes the last interface from.
Gone(tree, D) ==
    {PathOf[o] : o \in Present(tree) \cap D} \ {PathOf[o] : o \in Present(tree) \ D}

LEMMA TreeIs ==
  ASSUME NEW t \in Tree, NEW o \in Objects
  PROVE  t[o] \in Values \cup {Absent}
BY DEF Tree

LEMMA SetToSeqType ==
  ASSUME NEW S, IsFiniteSet(S)
  PROVE  SetToSeq(S) \in Seq(S)
<1>1. Cardinality(S) \in Nat /\ ExistsBijection(1..Cardinality(S), S)
  BY FS_CardinalityType
<1>2. PICK g : g \in Bijection(1..Cardinality(S), S)
  BY <1>1 DEF ExistsBijection
<1>3. g \in [1..Cardinality(S) -> S] /\ IsInjective(g)
  BY <1>2 DEF Bijection, Injection, IsInjective
<1>4. SetToSeq(S) \in [1..Cardinality(S) -> S]
  BY <1>3 DEF SetToSeq
<1> QED BY <1>1, <1>4

LEMMA CallbackSeq ==
  ASSUME ManagerAssumption, NEW T, T \subseteq Callback
  PROVE  SetToSeq(T) \in Seq(Callback)
<1>1. IsFiniteSet(Objects)
  BY DEF ManagerAssumption
<1>2. IsFiniteSet(Objects \cup {Adapter})
  BY <1>1, FS_AddElement
<1>3. IsFiniteSet({"player", "removed"})
  <2>1. IsFiniteSet({"player"})
    BY FS_Singleton
  <2>2. IsFiniteSet({"player"} \cup {"removed"})
    BY <2>1, FS_AddElement
  <2>3. {"player"} \cup {"removed"} = {"player", "removed"}
    OBVIOUS
  <2> QED BY <2>2, <2>3
<1>4. IsFiniteSet(Callback)
  BY <1>2, <1>3, FS_Product DEF Callback
<1>5. IsFiniteSet(T)
  BY <1>4, FS_Subset
<1>6. SetToSeq(T) \in Seq(T)
  BY <1>5, SetToSeqType
<1>7. Seq(T) \subseteq Seq(Callback)
  BY SeqMonotonic
<1> QED BY <1>6, <1>7

LEMMA PostIs ==
  ASSUME ManagerAssumption, NEW s \in Manager, NEW D \in SUBSET Objects
  PROVE  LET t == Post(s, D) IN
         /\ t \in Manager
         /\ t.cache = s.cache /\ t.revision = s.revision /\ t.lastRev = s.lastRev
         /\ t.calls = s.calls /\ t.dropped = s.dropped
         /\ t.view = [o \in Objects |-> IF o \in D THEN s.cache[o] ELSE s.view[o]]
<1> DEFINE cs == SetToSeq({<<"player", o>> : o \in D \cap Players})
           v == [o \in Objects |-> IF o \in D THEN s.cache[o] ELSE s.view[o]]
<1>1. cs \in Seq(Callback)
  <2>1. {<<"player", o>> : o \in D \cap Players} \subseteq Callback
    BY DEF Callback
  <2> QED BY <2>1, CallbackSeq
<1>2. s.callbacks \o cs \in Seq(Callback)
  <2>1. s.callbacks \in Seq(Callback)
    BY DEF Manager
  <2> QED BY <1>1, <2>1, ConcatProperties
<1>3. v \in Tree
  <2>1. s.cache \in Tree /\ s.view \in Tree
    BY DEF Manager
  <2> QED BY <2>1 DEF Tree
<1>4. Post(s, D) = [s EXCEPT !.view = v, !.callbacks = s.callbacks \o cs]
  BY DEF Post
<1> HIDE DEF cs, v
<1>5. /\ Post(s, D) \in Manager
      /\ Post(s, D).cache = s.cache /\ Post(s, D).revision = s.revision
      /\ Post(s, D).lastRev = s.lastRev /\ Post(s, D).calls = s.calls
      /\ Post(s, D).dropped = s.dropped /\ Post(s, D).view = v
  BY <1>2, <1>3, <1>4 DEF Manager
<1> QED BY <1>5 DEF v

LEMMA AddedIs ==
  ASSUME ManagerAssumption, NEW s, Consistent(s), NEW tree \in Tree
  PROVE  LET t == Added(s, tree) IN
         /\ Consistent(t)
         /\ t.calls = s.calls /\ t.dropped = s.dropped
         /\ \A o \in Objects : t.cache[o] = IF tree[o] # Absent THEN tree[o]
                                            ELSE s.cache[o]
<1> DEFINE D == Present(tree)
           c == [o \in Objects |-> IF o \in D THEN tree[o] ELSE s.cache[o]]
           r == [o \in Objects |-> IF o \in D THEN s.lastRev + 1 ELSE s.revision[o]]
           u == [s EXCEPT !.cache = c, !.revision = r, !.lastRev = s.lastRev + 1]
<1>1. s \in Manager /\ D \in SUBSET Objects
  BY DEF Consistent, Present
<1>2. /\ s.cache \in Tree /\ s.revision \in [Objects -> Nat] /\ s.lastRev \in Nat
      /\ s.view = s.cache
  BY <1>1 DEF Manager, Consistent
<1>3. c \in Tree
  BY <1>2 DEF Tree
<1>4. r \in [Objects -> Nat] /\ s.lastRev + 1 \in Nat
  BY <1>2
<1>5. Added(s, tree) = Post(u, D)
  BY DEF Added
<1>6. \A o \in Objects : o \in D <=> tree[o] # Absent
  BY DEF Present
<1>7. \A o \in Objects :
        /\ r[o] <= s.lastRev + 1
        /\ r[o] = 0 <=> c[o] = Absent
  <2> SUFFICES ASSUME NEW o \in Objects
               PROVE r[o] <= s.lastRev + 1 /\ (r[o] = 0 <=> c[o] = Absent)
    OBVIOUS
  <2>1. s.revision[o] <= s.lastRev /\ (s.revision[o] = 0 <=> s.cache[o] = Absent)
    BY DEF Consistent
  <2>2. s.revision[o] \in Nat /\ s.lastRev \in Nat
    BY <1>2
  <2> QED BY <2>1, <2>2, <1>6
<1> HIDE DEF c, r, D
<1>8. /\ u \in Manager /\ u.cache = c /\ u.revision = r /\ u.lastRev = s.lastRev + 1
      /\ u.calls = s.calls /\ u.dropped = s.dropped /\ u.view = s.view
  BY <1>1, <1>3, <1>4 DEF Manager
<1> HIDE DEF u
<1>9. LET t == Post(u, D) IN
         /\ t \in Manager
         /\ t.cache = c /\ t.revision = r /\ t.lastRev = s.lastRev + 1
         /\ t.calls = s.calls /\ t.dropped = s.dropped
         /\ t.view = [o \in Objects |-> IF o \in D THEN c[o] ELSE s.view[o]]
  BY <1>1, <1>8, PostIs
<1>10. [o \in Objects |-> IF o \in D THEN c[o] ELSE s.view[o]] = c
  BY <1>2, <1>3 DEF c, Tree
<1>11. \A o \in Objects : c[o] = IF tree[o] # Absent THEN tree[o] ELSE s.cache[o]
  BY <1>6 DEF c
<1> QED BY <1>5, <1>7, <1>9, <1>10, <1>11 DEF Consistent

LEMMA DroppedIs ==
  ASSUME ManagerAssumption, NEW s, Consistent(s),
         NEW D \in SUBSET (Objects \cup {Adapter})
  PROVE  LET t == Dropped(s, D) IN
         /\ Consistent(t)
         /\ t.calls = Uncancelled(s.calls, Gone(s.cache, D))
         /\ t.dropped = s.dropped \cup Gone(s.cache, D)
         /\ \A o \in Objects : t.cache[o] = IF o \in D THEN Absent ELSE s.cache[o]
<1> DEFINE left == Present(s.cache) \ D
           gone == Gone(s.cache, D)
           c == [o \in Objects |-> IF o \in left THEN s.cache[o] ELSE Absent]
           v == [o \in Objects |-> IF o \in Present(s.cache) \cap D
                                   THEN Absent ELSE s.view[o]]
           r == [o \in Objects |-> IF o \in left THEN s.revision[o] ELSE 0]
           cs == SetToSeq({<<"removed", o>> : o \in D})
           ca == Uncancelled(s.calls, gone)
           dr == s.dropped \cup gone
           cb == s.callbacks \o cs
<1>1. /\ s \in Manager /\ s.cache \in Tree /\ s.revision \in [Objects -> Nat]
      /\ s.lastRev \in Nat /\ s.view = s.cache /\ s.calls \in Seq(Call)
      /\ s.callbacks \in Seq(Callback) /\ s.dropped \in SUBSET Paths
  BY DEF Manager, Consistent
<1>2. c \in Tree /\ v \in Tree /\ c = v
  BY <1>1 DEF Tree, Present
<1>3. r \in [Objects -> Nat]
  BY <1>1
<1>4. cb \in Seq(Callback)
  <2>1. {<<"removed", o>> : o \in D} \subseteq Callback
    BY DEF Callback
  <2>2. cs \in Seq(Callback)
    BY <2>1, CallbackSeq
  <2> QED BY <1>1, <2>2, ConcatProperties
<1>5. ca \in Seq(Call)
  BY <1>1, UncancelledThin
<1>6. dr \in SUBSET Paths
  BY <1>1 DEF Gone, Present, ManagerAssumption
<1>7. \A o \in Objects : r[o] <= s.lastRev /\ (r[o] = 0 <=> c[o] = Absent)
  <2> SUFFICES ASSUME NEW o \in Objects
               PROVE r[o] <= s.lastRev /\ (r[o] = 0 <=> c[o] = Absent)
    OBVIOUS
  <2>1. s.revision[o] <= s.lastRev /\ (s.revision[o] = 0 <=> s.cache[o] = Absent)
    BY DEF Consistent
  <2>2. s.revision[o] \in Nat /\ s.lastRev \in Nat
    BY <1>1
  <2> QED BY <2>1, <2>2
<1>8. \A o \in Objects : c[o] = IF o \in D THEN Absent ELSE s.cache[o]
  BY DEF Present
<1>9. Dropped(s, D) =
        [s EXCEPT !.cache = c, !.view = v, !.revision = r,
                  !.calls = ca, !.dropped = dr, !.callbacks = cb]
  BY DEF Dropped, Gone
<1> HIDE DEF c, v, r, cs, ca, dr, cb
<1>10. LET t == Dropped(s, D) IN
       /\ t \in Manager /\ t.cache = c /\ t.view = v /\ t.revision = r
       /\ t.lastRev = s.lastRev /\ t.calls = ca /\ t.dropped = dr
  BY <1>1, <1>2, <1>3, <1>4, <1>5, <1>6, <1>9 DEF Manager
<1> QED BY <1>2, <1>7, <1>8, <1>10 DEF Consistent, ca, dr

\* The state a change leaves before any GetAll.
Posted(s, o, changed) ==
    LET newer == [s EXCEPT !.revision[o] = s.lastRev + 1, !.lastRev = s.lastRev + 1]
    IN IF DOMAIN changed = {} THEN newer
       ELSE Post([newer EXCEPT !.cache[o] = Merged(s.cache[o], changed)], {o})

LEMMA MergedType ==
  ASSUME NEW v \in Values, NEW C \in SUBSET Properties, NEW w \in [C -> Data]
  PROVE  /\ Merged(v, w) \in Values
         /\ \A p \in Properties : Merged(v, w)[p] = IF p \in C THEN w[p] ELSE v[p]
BY DEF Merged, Values

LEMMA PostedIs ==
  ASSUME ManagerAssumption, NEW s, Consistent(s), NEW o \in Objects,
         s.cache[o] # Absent, NEW C \in SUBSET Properties, NEW w \in [C -> Data]
  PROVE  LET t == Posted(s, o, w) IN
         /\ Consistent(t)
         /\ t.calls = s.calls /\ t.dropped = s.dropped
         /\ s.cache[o] \in Values /\ t.cache[o] \in Values
         /\ \A p \in Properties :
              t.cache[o][p] = IF p \in C THEN w[p] ELSE s.cache[o][p]
         /\ \A k \in Objects \ {o} : t.cache[k] = s.cache[k]
<1> DEFINE r == [s.revision EXCEPT ![o] = s.lastRev + 1]
           newer == [s EXCEPT !.revision = r, !.lastRev = s.lastRev + 1]
           m == Merged(s.cache[o], w)
           c == [s.cache EXCEPT ![o] = m]
           merged == [newer EXCEPT !.cache = c]
<1>1. /\ s \in Manager /\ s.cache \in Tree /\ s.revision \in [Objects -> Nat]
      /\ s.lastRev \in Nat /\ s.view = s.cache
  BY DEF Manager, Consistent
<1>2. s.cache[o] \in Values /\ Absent \notin Values
  BY <1>1, TreeIs DEF ManagerAssumption
<1>3. m \in Values /\ \A p \in Properties : m[p] = IF p \in C THEN w[p] ELSE s.cache[o][p]
  BY <1>2, MergedType
<1>4. r \in [Objects -> Nat] /\ s.lastRev + 1 \in Nat
  BY <1>1
<1> HIDE DEF m
<1>5. c \in Tree /\ c[o] = m /\ \A k \in Objects \ {o} : c[k] = s.cache[k]
  BY <1>1, <1>3 DEF Tree
<1>6. \A k \in Objects : /\ r[k] <= s.lastRev + 1
                         /\ r[k] = 0 <=> s.cache[k] = Absent
                         /\ r[k] = 0 <=> c[k] = Absent
  <2> SUFFICES ASSUME NEW k \in Objects
               PROVE /\ r[k] <= s.lastRev + 1
                     /\ r[k] = 0 <=> s.cache[k] = Absent
                     /\ r[k] = 0 <=> c[k] = Absent
    OBVIOUS
  <2>1. s.revision[k] <= s.lastRev /\ (s.revision[k] = 0 <=> s.cache[k] = Absent)
    BY DEF Consistent
  <2>2. s.revision[k] \in Nat /\ s.lastRev \in Nat
    BY <1>1
  <2>3. CASE k = o
    BY <2>2, <2>3, <1>1, <1>2, <1>3, <1>5
  <2>4. CASE k # o
    <3>1. r[k] = s.revision[k] /\ c[k] = s.cache[k]
      BY <2>4, <1>1, <1>5
    <3> QED BY <3>1, <2>1, <2>2
  <2> QED BY <2>3, <2>4
<1>7. Posted(s, o, w) = IF C = {} THEN newer ELSE Post(merged, {o})
  <2>1. DOMAIN w = C
    OBVIOUS
  <2> QED BY <2>1 DEF Posted, m
<1> HIDE DEF r, c
<1>8. /\ newer \in Manager /\ newer.cache = s.cache /\ newer.revision = r
      /\ newer.lastRev = s.lastRev + 1 /\ newer.calls = s.calls
      /\ newer.dropped = s.dropped /\ newer.view = s.view
  BY <1>1, <1>4 DEF Manager
<1> HIDE DEF newer
<1>9. /\ merged \in Manager /\ merged.cache = c /\ merged.revision = r
      /\ merged.lastRev = s.lastRev + 1 /\ merged.calls = s.calls
      /\ merged.dropped = s.dropped /\ merged.view = s.view
  BY <1>5, <1>8 DEF Manager
<1> HIDE DEF merged
<1>10. CASE C = {}
  <2>1. Posted(s, o, w) = newer
    BY <1>7, <1>10
  <2>2. Consistent(newer)
    BY <1>1, <1>6, <1>8 DEF Consistent
  <2> QED BY <2>1, <2>2, <1>2, <1>8, <1>10
<1>11. CASE C # {}
  <2>1. LET t == Post(merged, {o}) IN
        /\ t \in Manager
        /\ t.cache = c /\ t.revision = r /\ t.lastRev = s.lastRev + 1
        /\ t.calls = s.calls /\ t.dropped = s.dropped
        /\ t.view = [k \in Objects |-> IF k \in {o} THEN c[k] ELSE s.view[k]]
    BY <1>9, PostIs
  <2>2. [k \in Objects |-> IF k \in {o} THEN c[k] ELSE s.view[k]] = c
    BY <1>1, <1>5 DEF Tree
  <2>3. Posted(s, o, w) = Post(merged, {o})
    BY <1>7, <1>11
  <2>4. Consistent(Post(merged, {o}))
    BY <1>6, <2>1, <2>2 DEF Consistent
  <2> QED BY <2>1, <2>3, <2>4, <1>2, <1>3, <1>5
<1> QED BY <1>10, <1>11

LEMMA RefreshIs ==
  ASSUME ManagerAssumption, NEW s, Consistent(s), NEW o \in Objects,
         owner \in 0..MaxOwners
  PROVE  LET t == Refresh(s, o)
             m == [type |-> "getall", object |-> o, rev |-> s.revision[o],
                   to |-> owner]
         IN /\ Consistent(t) /\ m \in Call
            /\ t.cache = s.cache /\ t.dropped = s.dropped
            /\ t.calls = Append(s.calls, m)
<1> DEFINE m == [type |-> "getall", object |-> o, rev |-> s.revision[o],
                 to |-> owner]
           c == Append(s.calls, m)
<1>1. s \in Manager /\ s.revision[o] \in Nat /\ s.calls \in Seq(Call)
  BY DEF Manager, Consistent
<1>2. m \in Call
  BY <1>1 DEF Call
<1> HIDE DEF m
<1>3. c \in Seq(Call)
  BY <1>1, <1>2, AppendProperties
<1>4. Refresh(s, o) = [s EXCEPT !.calls = c]
  BY DEF Refresh, m
<1> HIDE DEF c
<1>5. LET t == Refresh(s, o) IN
      /\ t \in Manager /\ t.cache = s.cache /\ t.dropped = s.dropped
      /\ t.view = s.view /\ t.revision = s.revision /\ t.lastRev = s.lastRev
      /\ t.calls = c
  BY <1>1, <1>3, <1>4 DEF Manager
<1> QED BY <1>2, <1>5 DEF Consistent, m, c

LEMMA ChangedIs ==
  ASSUME NEW s, NEW o, NEW w, NEW b \in BOOLEAN
  PROVE  Changed(s, o, w, b) = IF s.cache[o] = Absent THEN s
                               ELSE IF b THEN Refresh(Posted(s, o, w), o)
                               ELSE Posted(s, o, w)
BY DEF Changed, Posted

----------------------------------------------------------------------------
(* What an update corrects and whose answers it awaits                     *)

LEMMA CorrectedMore ==
  ASSUME NEW b, NEW o, NEW v, NEW M, NEW N, NEW late \in BOOLEAN, NEW later \in BOOLEAN,
         Corrected(b, o, v, M, late), late => later,
         \A m \in M : m.type \in Updates => m \in N
  PROVE  Corrected(b, o, v, N, later)
<1>1. \A m : Adds(m, o) \/ Removes(m, o) => m.type \in Updates
  BY DEF Adds, Removes, Updates
<1>2. \A m, p : Renews(m, o, p) => m.type \in Updates
  BY DEF Adds, Renews, Updates
<1>3. v = Absent /\ b[o] # Absent => \E m \in N : Adds(m, o)
  BY <1>1 DEF Corrected
<1>4. v # Absent /\ b[o] = Absent => \E m \in N : Removes(m, o)
  BY <1>1 DEF Corrected
<1>5. v # Absent /\ b[o] # Absent /\ ~later =>
        \A p \in Properties : v[p] # b[o][p] => \E m \in N : Renews(m, o, p)
  BY <1>2 DEF Corrected
<1> QED BY <1>3, <1>4, <1>5 DEF Corrected

LEMMA SoundMore ==
  ASSUME NEW b, NEW m, NEW M, NEW N, Sound(b, m, M),
         \A n \in M : n.type \in Updates => n \in N
  PROVE  Sound(b, m, N)
<1>1. \A o, v : Corrected(b, o, v, M, FALSE) => Corrected(b, o, v, N, FALSE)
  BY CorrectedMore
<1>2. \A n, o, p : Renews(n, o, p) => n.type \in Updates
  BY DEF Adds, Renews, Updates
<1>3. m.type = "changed" /\ b[m.object] # Absent =>
         \A p \in DOMAIN m.changed :
           m.changed[p] # b[m.object][p] => \E n \in N : Renews(n, m.object, p)
  BY <1>2 DEF Sound
<1> QED BY <1>1, <1>3 DEF Sound

LEMMA AskedIs ==
  ASSUME NEW S, NEW q \in Seq(S)
  PROVE  /\ \A m \in Later(q, 0) : m.type = "getall" => m.object \in Asked(q)
         /\ \A o \in Asked(q) : \E m \in Later(q, 0) : m.type = "getall" /\ m.object = o
         /\ Later(q, 0) = {q[i] : i \in DOMAIN q}
         /\ \A o : o \in Asked(q) <=>
                    \E m \in Later(q, 0) : m.type = "getall" /\ m.object = o
<1>1. Len(q) \in Nat /\ DOMAIN q = 1..Len(q)
  BY LenProperties
<1> QED BY <1>1 DEF Later, Asked

LEMMA UncancelledSet ==
  ASSUME NEW S, NEW q \in Seq(S), NEW P
  PROVE  /\ Uncancelled(q, P) \in Seq(S)
         /\ Later(Uncancelled(q, P), 0) = {m \in Later(q, 0) : ~Cancels(m, P)}
<1> DEFINE r == Uncancelled(q, P)
<1>1. r \in Seq(S) /\ \E e : Thin(r, q, P, e)
  BY UncancelledThin
<1> HIDE DEF r
<1>2. PICK e : Thin(r, q, P, e)
  BY <1>1
<1>3. Len(q) \in Nat /\ Len(r) \in Nat
  BY <1>1, LenProperties
<1>4. \A i \in 1..Len(r) : e[i] \in 1..Len(q) /\ r[i] = q[e[i]] /\ ~Cancels(r[i], P)
  BY <1>2 DEF Thin
<1>5. \A k \in 1..Len(q) : ~Cancels(q[k], P) => \E i \in 1..Len(r) : r[i] = q[k]
  BY <1>2 DEF Thin
<1>6. Later(r, 0) = {m \in Later(q, 0) : ~Cancels(m, P)}
  BY <1>3, <1>4, <1>5, SMTT(30) DEF Later
<1> QED BY <1>1, <1>6 DEF r

LEMMA UpdateIs ==
  ASSUME ManagerAssumption, NEW m \in Update
  PROVE  /\ m.type \in Updates
         /\ m.type = "added" => m.tree \in Tree
         /\ m.type = "removed" => m.objects \in SUBSET (Objects \cup {Adapter})
         /\ m.type = "changed" =>
              /\ m.object \in Objects /\ m.invalidated \in BOOLEAN
              /\ DOMAIN m.changed \in SUBSET Properties
              /\ m.changed \in [DOMAIN m.changed -> Data]
<1>1. CASE m \in [type : {"added"}, tree : Tree]
  BY <1>1 DEF Updates
<1>2. CASE m \in [type : {"removed"}, objects : SUBSET (Objects \cup {Adapter})]
  BY <1>2 DEF Updates
<1>3. CASE m \in [type : {"changed"}, object : Objects, invalidated : BOOLEAN,
                  changed : UNION {[C -> Data] : C \in SUBSET Properties}]
  BY <1>3 DEF Updates
<1> QED BY <1>1, <1>2, <1>3 DEF Update

LEMMA ApplyIs ==
  ASSUME ManagerAssumption, NEW s, NEW m \in Update
  PROVE  /\ m.type = "added" => Apply(s, m) = Added(s, m.tree)
         /\ m.type = "removed" => Apply(s, m) = Dropped(s, m.objects)
         /\ m.type = "changed" => Apply(s, m) = Changed(s, m.object, m.changed, m.invalidated)
BY DEF Apply

\* How the update m takes the state s to t: it forgets the paths P.
UpdateStep(s, t, m, P) ==
    /\ P \in SUBSET Paths
    /\ t.dropped = s.dropped \cup P
    /\ \A o \in Objects : PathOf[o] \in P => t.cache[o] = Absent
    /\ \A o \in Objects : s.cache[o] # Absent =>
         \/ PathOf[o] \in P
         \/ \E k \in Objects : PathOf[k] = PathOf[o] /\ t.cache[k] # Absent
    /\ \A c \in Later(t.calls, 0) :
         \/ c \in Later(s.calls, 0) /\ ~Cancels(c, P)
         \/ c.type = "getall" /\ c.to = owner /\ c.object \in Objects
            /\ t.cache[c.object] # Absent
    /\ \A c \in Later(s.calls, 0) : Cancels(c, P) \/ c \in Later(t.calls, 0)
    /\ m.type = "changed" /\ m.invalidated /\ s.cache[m.object] # Absent =>
         m.object \in Asked(t.calls)

LEMMA ApplyTypes ==
  ASSUME ManagerAssumption, owner \in 0..MaxOwners, NEW s, Consistent(s),
         NEW m \in Update
  PROVE  /\ Consistent(Apply(s, m))
         /\ \E P : UpdateStep(s, Apply(s, m), m, P)
<1>0. s.calls \in Seq(Call) /\ s.dropped \in SUBSET Paths /\ s.cache \in Tree
  BY DEF Consistent, Manager
<1>1. CASE m.type = "added"
  <2>1. Apply(s, m) = Added(s, m.tree) /\ m.tree \in Tree
    BY <1>1, ApplyIs, UpdateIs
  <2> DEFINE t == Added(s, m.tree)
  <2>2. /\ Consistent(t) /\ t.calls = s.calls /\ t.dropped = s.dropped
        /\ \A o \in Objects : t.cache[o] = IF m.tree[o] # Absent THEN m.tree[o]
                                           ELSE s.cache[o]
    BY <2>1, AddedIs
  <2> HIDE DEF t
  <2>4. \A c : ~Cancels(c, {})
    BY DEF Cancels
  <2>5. UpdateStep(s, t, m, {})
    BY <1>1, <2>2, <2>4 DEF UpdateStep
  <2> QED BY <2>1, <2>2, <2>5 DEF t
<1>2. CASE m.type = "removed"
  <2>1. /\ Apply(s, m) = Dropped(s, m.objects)
        /\ m.objects \in SUBSET (Objects \cup {Adapter})
    BY <1>2, ApplyIs, UpdateIs
  <2> DEFINE t == Dropped(s, m.objects)
             P == Gone(s.cache, m.objects)
  <2>2. /\ Consistent(t) /\ t.calls = Uncancelled(s.calls, P)
        /\ t.dropped = s.dropped \cup P
        /\ \A o \in Objects : t.cache[o] = IF o \in m.objects THEN Absent
                                           ELSE s.cache[o]
    BY <2>1, DroppedIs
  <2> HIDE DEF t
  <2>3. Later(t.calls, 0) = {c \in Later(s.calls, 0) : ~Cancels(c, P)}
    BY <2>2, <1>0, UncancelledSet
  <2>4. P \in SUBSET Paths
    BY DEF Gone, Present, ManagerAssumption
  <2>5. \A o \in Objects : PathOf[o] \in P => t.cache[o] = Absent
    BY <2>2 DEF Gone, Present
  <2>6. \A o \in Objects : s.cache[o] # Absent =>
         \/ PathOf[o] \in P
         \/ \E k \in Objects : PathOf[k] = PathOf[o] /\ t.cache[k] # Absent
    BY <2>2 DEF Gone, Present
  <2> HIDE DEF P
  <2>7. UpdateStep(s, t, m, P)
    BY <1>2, <2>2, <2>3, <2>4, <2>5, <2>6 DEF UpdateStep
  <2> QED BY <2>1, <2>2, <2>7 DEF t
<1>3. CASE m.type = "changed"
  <2> DEFINE o == m.object
             w == m.changed
             p == Posted(s, o, w)
  <2>1. /\ Apply(s, m) = Changed(s, o, w, m.invalidated)
        /\ o \in Objects /\ m.invalidated \in BOOLEAN
        /\ DOMAIN w \in SUBSET Properties /\ w \in [DOMAIN w -> Data]
    BY <1>3, ApplyIs, UpdateIs
  <2>2. \A c : ~Cancels(c, {})
    BY DEF Cancels
  <2> HIDE DEF o, w
  <2>3. CASE s.cache[o] = Absent
    <3>1. Apply(s, m) = s
      BY <2>1, <2>3, ChangedIs
    <3>2. UpdateStep(s, s, m, {})
      BY <2>2, <2>3 DEF UpdateStep, o
    <3> QED BY <3>1, <3>2
  <2>4. CASE s.cache[o] # Absent
    <3>1. /\ Consistent(p) /\ p.calls = s.calls /\ p.dropped = s.dropped
          /\ p.cache[o] \in Values
          /\ \A k \in Objects \ {o} : p.cache[k] = s.cache[k]
      BY <2>1, <2>4, PostedIs
    <3>2. p.cache[o] # Absent
      BY <3>1 DEF ManagerAssumption
    <3> HIDE DEF p
    <3>3. CASE ~m.invalidated
      <4>1. Apply(s, m) = p
        BY <2>1, <2>4, <3>3, ChangedIs DEF p
      <4>2. UpdateStep(s, p, m, {})
        BY <2>1, <2>2, <3>1, <3>2, <3>3 DEF UpdateStep
      <4> QED BY <3>1, <4>1, <4>2
    <3>4. CASE m.invalidated
      <4> DEFINE t == Refresh(p, o)
                 g == [type |-> "getall", object |-> o, rev |-> p.revision[o],
                       to |-> owner]
      <4>1. Apply(s, m) = t
        BY <2>1, <2>4, <3>4, ChangedIs DEF p
      <4>2. /\ Consistent(t) /\ g \in Call /\ t.cache = p.cache
            /\ t.dropped = p.dropped /\ t.calls = Append(p.calls, g)
        BY <2>1, <3>1, RefreshIs
      <4> HIDE DEF t
      <4>3. Later(t.calls, 0) = Later(s.calls, 0) \cup {g}
        <5>1. 0 \in 0..Len(s.calls)
          BY <1>0, LenProperties
        <5> QED BY <5>1, <1>0, <3>1, <4>2, LaterAppend
      <4>4. g.type = "getall" /\ g.to = owner /\ g.object = o
        OBVIOUS
      <4> HIDE DEF g
      <4>5. o \in Asked(t.calls)
        <5>1. t.calls \in Seq(Call)
          BY <4>2 DEF Consistent, Manager
        <5> QED BY <5>1, <4>3, <4>4, AskedIs
      <4>6. \A c \in Later(t.calls, 0) :
              \/ c \in Later(s.calls, 0) /\ ~Cancels(c, {})
              \/ c.type = "getall" /\ c.to = owner /\ c.object \in Objects
                 /\ t.cache[c.object] # Absent
        BY <2>1, <2>2, <3>2, <4>2, <4>3, <4>4
      <4>7. \A k \in Objects : s.cache[k] # Absent => t.cache[k] # Absent
        BY <3>1, <3>2, <4>2
      <4>8. UpdateStep(s, t, m, {})
        BY <2>1, <3>1, <4>2, <4>3, <4>5, <4>6, <4>7 DEF UpdateStep, o
      <4> QED BY <4>1, <4>2, <4>8
    <3> QED BY <3>3, <3>4, <2>1
  <2> QED BY <2>3, <2>4
<1> QED BY <1>1, <1>2, <1>3, UpdateIs DEF Updates

\* In the state s, with the objects in I asked for besides, M corrects the cache.
Caught(s, I, M) ==
    \A o \in Objects :
      Corrected(bluez, o, s.cache[o], M, o \in Asked(s.calls) \/ o \in I)

LEMMA StillAsked ==
  ASSUME ManagerAssumption, NEW s, Consistent(s), NEW t, Consistent(t), NEW m, NEW P,
         UpdateStep(s, t, m, P),
         NEW o \in Asked(s.calls), t.cache[o] # Absent
  PROVE  o \in Asked(t.calls)
<1>1. s.calls \in Seq(Call) /\ t.calls \in Seq(Call)
  BY DEF Consistent, Manager
<1>2. PICK c \in Later(s.calls, 0) : c.type = "getall" /\ c.object = o
  BY <1>1, AskedIs
<1>3. c \in Call
  BY <1>1, LaterIn
<1>4. o \in Objects
  BY <1>2, <1>3 DEF Call
<1>5. ~Cancels(c, P)
  BY <1>2, <1>4 DEF UpdateStep, Cancels
<1>6. c \in Later(t.calls, 0)
  BY <1>5 DEF UpdateStep
<1> QED BY <1>1, <1>2, <1>6, AskedIs

LEMMA CorrectedLess ==
  ASSUME NEW b, NEW o, NEW v, NEW M, NEW m, NEW before \in BOOLEAN,
         NEW after \in BOOLEAN, Corrected(b, o, v, M \cup {m}, before),
         ~Adds(m, o), ~Removes(m, o),
         v # Absent /\ ~after => ~before /\ \A p \in Properties : ~Renews(m, o, p)
  PROVE  Corrected(b, o, v, M, after)
<1>1. v = Absent /\ b[o] # Absent => \E n \in M : Adds(n, o)
  BY DEF Corrected
<1>2. v # Absent /\ b[o] = Absent => \E n \in M : Removes(n, o)
  BY DEF Corrected
<1>3. v # Absent /\ b[o] # Absent /\ ~after =>
        \A p \in Properties : v[p] # b[o][p] => \E n \in M : Renews(n, o, p)
  BY DEF Corrected
<1> QED BY <1>1, <1>2, <1>3 DEF Corrected

\* An update whose content is right, or put right later, leaves nothing wrong
\* behind but what the rest puts right.
LEMMA ApplyCatches ==
  ASSUME ManagerAssumption, owner \in 0..MaxOwners, bluez \in Tree,
         NEW s, Consistent(s), NEW m \in Update, NEW I, NEW M,
         Sound(bluez, m, M), Caught(s, I, M \cup {m})
  PROVE  Caught(Apply(s, m), I, M)
<1> DEFINE t == Apply(s, m)
<1>1. Consistent(t) /\ \E P : UpdateStep(s, t, m, P)
  BY ApplyTypes
<1>2. PICK P : UpdateStep(s, t, m, P)
  BY <1>1
<1>3. s.cache \in Tree /\ t.cache \in Tree
  BY <1>1 DEF Consistent, Manager
<1> SUFFICES ASSUME NEW o \in Objects,
                    NEW before \in BOOLEAN, NEW after \in BOOLEAN,
                    before <=> (o \in Asked(s.calls) \/ o \in I),
                    after <=> (o \in Asked(t.calls) \/ o \in I)
             PROVE Corrected(bluez, o, t.cache[o], M, after)
  <2>1. ASSUME NEW o \in Objects
        PROVE  Corrected(bluez, o, t.cache[o], M, o \in Asked(t.calls) \/ o \in I)
    OBVIOUS
  <2> QED BY <2>1 DEF Caught
<1>4. Corrected(bluez, o, s.cache[o], M \cup {m}, before)
  <2>1. Corrected(bluez, o, s.cache[o], M \cup {m}, o \in Asked(s.calls) \/ o \in I)
    BY DEF Caught
  <2>2. before = (o \in Asked(s.calls) \/ o \in I)
    OBVIOUS
  <2> QED BY <2>1, <2>2
<1>5. t.cache[o] # Absent /\ before => after
  BY <1>1, <1>2, StillAsked
<1>7. ASSUME NEW v, Corrected(bluez, o, v, M, FALSE)
      PROVE  Corrected(bluez, o, v, M, after)
  BY <1>7 DEF Corrected
<1>8. CASE m.type = "added"
  <2>1. t = Added(s, m.tree) /\ m.tree \in Tree
    BY <1>8, ApplyIs, UpdateIs
  <2>2. /\ t.calls = s.calls
        /\ t.cache[o] = IF m.tree[o] # Absent THEN m.tree[o] ELSE s.cache[o]
    BY <2>1, AddedIs
  <2>3. CASE m.tree[o] # Absent
    <3>1. Corrected(bluez, o, m.tree[o], M, FALSE)
      BY <1>8, <2>3 DEF Sound
    <3> QED BY <3>1, <2>2, <2>3, <1>7
  <2>4. CASE m.tree[o] = Absent
    <3>1. /\ ~Adds(m, o) /\ ~Removes(m, o)
          /\ \A p : ~Renews(m, o, p)
      BY <1>8, <2>4 DEF Adds, Removes, Renews
    <3>2. t.cache[o] = s.cache[o]
      BY <2>2, <2>4
    <3> HIDE DEF t
    <3> QED BY <3>1, <3>2, <1>4, <1>5, CorrectedLess
  <2> QED BY <2>3, <2>4
<1>9. CASE m.type = "removed"
  <2>1. t = Dropped(s, m.objects) /\ m.objects \in SUBSET (Objects \cup {Adapter})
    BY <1>9, ApplyIs, UpdateIs
  <2>2. t.cache[o] = IF o \in m.objects THEN Absent ELSE s.cache[o]
    BY <2>1, DroppedIs
  <2>3. CASE o \in m.objects
    <3>1. Corrected(bluez, o, Absent, M, FALSE)
      BY <1>9, <2>3 DEF Sound
    <3> QED BY <3>1, <2>2, <2>3, <1>7
  <2>4. CASE o \notin m.objects
    <3>1. /\ ~Adds(m, o) /\ ~Removes(m, o)
          /\ \A p : ~Renews(m, o, p)
      BY <1>9, <2>4 DEF Adds, Removes, Renews
    <3>2. t.cache[o] = s.cache[o]
      BY <2>2, <2>4
    <3> HIDE DEF t
    <3> QED BY <3>1, <3>2, <1>4, <1>5, CorrectedLess
  <2> QED BY <2>3, <2>4
<1>10. CASE m.type = "changed"
  <2> DEFINE w == m.changed
             p == Posted(s, m.object, w)
  <2>1. /\ t = Changed(s, m.object, w, m.invalidated)
        /\ m.object \in Objects /\ m.invalidated \in BOOLEAN
        /\ DOMAIN w \in SUBSET Properties /\ w \in [DOMAIN w -> Data]
    BY <1>10, ApplyIs, UpdateIs
  <2>2. ~Adds(m, o) /\ ~Removes(m, o)
    BY <1>10 DEF Adds, Removes
  <2> HIDE DEF w
  <2>3. CASE s.cache[m.object] = Absent
    <3>1. t = s
      BY <2>1, <2>3, ChangedIs
    <3>2. o = m.object \/ \A q : ~Renews(m, o, q)
      BY <1>10 DEF Renews, Adds
    <3>3. CASE o = m.object
      <4>1. t.cache[o] = Absent /\ s.cache[o] = Absent
        BY <3>1, <3>3, <2>3
      <4> HIDE DEF t
      <4> QED BY <4>1, <1>4, <2>2, CorrectedLess
    <3>4. CASE o # m.object
      <4>1. \A q : ~Renews(m, o, q)
        BY <3>2, <3>4
      <4> HIDE DEF t
      <4> QED BY <4>1, <3>1, <1>4, <1>5, <2>2, CorrectedLess
    <3> QED BY <3>3, <3>4
  <2>4. CASE s.cache[m.object] # Absent
    <3>1. /\ Consistent(p)
          /\ p.cache[m.object] \in Values /\ s.cache[m.object] \in Values
          /\ \A q \in Properties :
               p.cache[m.object][q] = IF q \in DOMAIN w THEN w[q]
                                      ELSE s.cache[m.object][q]
          /\ \A k \in Objects \ {m.object} : p.cache[k] = s.cache[k]
      BY <2>1, <2>4, PostedIs, SMTT(30)
    <3>2. t.cache = p.cache
      <4>1. Refresh(p, m.object).cache = p.cache
        BY <2>1, <3>1, RefreshIs
      <4>2. t = IF m.invalidated THEN Refresh(p, m.object) ELSE p
        BY <2>1, <2>4, ChangedIs
      <4> QED BY <4>1, <4>2
    <3> HIDE DEF p
    <3>3. CASE o # m.object
      <4>1. t.cache[o] = s.cache[o]
        BY <3>1, <3>2, <3>3
      <4>2. \A q : ~Renews(m, o, q)
        BY <1>10, <3>3 DEF Renews, Adds
      <4> HIDE DEF t
      <4> QED BY <4>1, <4>2, <2>2, <1>4, <1>5, CorrectedLess
    <3>4. CASE o = m.object
      <4>1. t.cache[o] # Absent /\ s.cache[o] # Absent
        BY <3>1, <3>2, <3>4 DEF ManagerAssumption
      <4>2. bluez[o] = Absent => \E n \in M : Removes(n, o)
        BY <1>4, <2>2, <4>1 DEF Corrected
      <4>3. ASSUME bluez[o] # Absent, ~after, NEW q \in Properties,
                   t.cache[o][q] # bluez[o][q]
            PROVE  \E n \in M : Renews(n, o, q)
        <5>1. ~before
          BY <4>3, <4>1, <1>5
        <5>2. ~m.invalidated
          BY <1>2, <3>4, <4>1, <4>3, <1>10 DEF UpdateStep
        <5>3. CASE q \in DOMAIN w
          <6>1. w[q] # bluez[o][q]
            BY <3>1, <3>2, <3>4, <4>3, <5>3
          <6> QED BY <6>1, <4>3, <5>3, <3>4, <1>10 DEF Sound, w
        <5>4. CASE q \notin DOMAIN w
          <6>1. s.cache[o][q] # bluez[o][q]
            BY <3>1, <3>2, <3>4, <4>3, <5>4
          <6>2. \E n \in M \cup {m} : Renews(n, o, q)
            BY <6>1, <1>4, <4>1, <4>3, <5>1 DEF Corrected
          <6>3. ~Renews(m, o, q)
            BY <5>2, <5>4, <2>2 DEF Renews, w
          <6> QED BY <6>2, <6>3
        <5> QED BY <5>3, <5>4
      <4> HIDE DEF t
      <4> QED BY <4>1, <4>2, <4>3 DEF Corrected
    <3> QED BY <3>3, <3>4
  <2> QED BY <2>3, <2>4
<1> QED BY <1>8, <1>9, <1>10, UpdateIs DEF Updates

----------------------------------------------------------------------------
(* Replaying the deferred updates                                          *)

ReplayOf(s, q, after, N) ==
    after = [n \in 0..N |-> IF n = 0 THEN s ELSE Apply(after[n - 1], q[n])]

LEMMA ReplayExists ==
  ASSUME NEW s, NEW q, NEW N \in Nat
  PROVE  \E after : ReplayOf(s, q, after, N)
<1> DEFINE T == {n \in Nat : \E after : ReplayOf(s, q, after, n)}
<1>1. 0 \in T
  <2> DEFINE g == [n \in 0..0 |-> s]
  <2>1. ReplayOf(s, q, g, 0)
    BY DEF ReplayOf
  <2> QED BY <2>1
<1>2. ASSUME NEW n \in T PROVE n + 1 \in T
  <2>1. PICK h : ReplayOf(s, q, h, n)
    OBVIOUS
  <2>2. n \in Nat
    OBVIOUS
  <2> DEFINE g == [k \in 0..n + 1 |-> IF k = n + 1 THEN Apply(h[n], q[k]) ELSE h[k]]
  <2>3. \A k \in 0..n : g[k] = h[k]
    BY <2>2
  <2>4. \A k \in 0..n : h[k] = IF k = 0 THEN s ELSE Apply(h[k - 1], q[k])
    BY <2>1 DEF ReplayOf
  <2>5. g = [k \in 0..n + 1 |-> IF k = 0 THEN s ELSE Apply(g[k - 1], q[k])]
    <3>1. ASSUME NEW k \in 0..n + 1
          PROVE  g[k] = IF k = 0 THEN s ELSE Apply(g[k - 1], q[k])
      <4>1. CASE k = n + 1
        BY <4>1, <2>2, <2>3
      <4>2. CASE k # n + 1
        <5>1. k \in 0..n /\ (k # 0 => k - 1 \in 0..n)
          BY <4>2, <2>2
        <5> HIDE DEF g
        <5> QED BY <5>1, <2>3, <2>4
      <4> QED BY <4>1, <4>2
    <3> QED BY <3>1
  <2>6. ReplayOf(s, q, g, n + 1)
    BY <2>5 DEF ReplayOf
  <2> QED BY <2>6, <2>2
<1> HIDE DEF T
<1>3. Nat \subseteq T
  BY <1>1, <1>2, Counting
<1> QED BY <1>3 DEF T

LEMMA ReplayedIs ==
  ASSUME NEW s, NEW q, Len(q) \in Nat
  PROVE  \E after : ReplayOf(s, q, after, Len(q)) /\ Replayed(s, q) = after[Len(q)]
<1> DEFINE after == CHOOSE g : ReplayOf(s, q, g, Len(q))
<1>1. ReplayOf(s, q, after, Len(q))
  BY ReplayExists
<1>2. Replayed(s, q) = after[Len(q)]
  BY DEF Replayed, ReplayOf
<1> QED BY <1>1, <1>2

\* What the calls of a state may be while updates are replayed over a snapshot.
Replaying(s, t) ==
    /\ Consistent(t)
    /\ \A c \in Later(t.calls, 0) :
         \/ c \in Later(s.calls, 0) /\ c.type # "getall"
         \/ c.type = "getall" /\ c.to = owner /\ c.object \in Objects
            /\ \E k \in Objects : PathOf[k] = PathOf[c.object] /\ t.cache[k] # Absent

LEMMA ReplayedCatches ==
  ASSUME ManagerAssumption, owner \in 0..MaxOwners, bluez \in Tree,
         NEW s, Consistent(s), NEW q \in Seq(Update), NEW M,
         \A c \in Later(s.calls, 0) : c.type # "getall"
  PROVE  /\ Replaying(s, Replayed(s, q))
         /\ (/\ \A i \in 1..Len(q) : Sound(bluez, q[i], Later(q, i) \cup M)
             /\ Caught(s, {}, Later(q, 0) \cup M)) =>
               Caught(Replayed(s, q), {}, M)
<1>0. Len(q) \in Nat /\ q \in [1..Len(q) -> Update]
  BY LenProperties
<1>1. PICK after : /\ ReplayOf(s, q, after, Len(q))
                   /\ Replayed(s, q) = after[Len(q)]
  BY <1>0, ReplayedIs
<1>2. \A n \in 0..Len(q) : after[n] = IF n = 0 THEN s ELSE Apply(after[n - 1], q[n])
  BY <1>1 DEF ReplayOf
<1> DEFINE hyp == /\ \A i \in 1..Len(q) : Sound(bluez, q[i], Later(q, i) \cup M)
                  /\ Caught(s, {}, Later(q, 0) \cup M)
           Good(n) == /\ Replaying(s, after[n])
                      /\ hyp => Caught(after[n], {}, Later(q, n) \cup M)
           T == {n \in Nat : n <= Len(q) => Good(n)}
<1> HIDE DEF Good
<1>3. 0 \in T
  <2>1. after[0] = s
    BY <1>0, <1>2
  <2>2. Replaying(s, s)
    BY DEF Replaying
  <2>3. Good(0)
    BY <2>1, <2>2 DEF Good
  <2> QED BY <2>3
<1>4. ASSUME NEW n \in T PROVE n + 1 \in T
  <2> SUFFICES ASSUME n + 1 <= Len(q) PROVE Good(n + 1)
    OBVIOUS
  <2>1. n \in Nat /\ n <= Len(q) /\ n + 1 \in 1..Len(q) /\ n + 1 \in 0..Len(q)
        /\ n + 1 # 0 /\ (n + 1) - 1 = n /\ Good(n)
    BY <1>0
  <2> USE DEF Good
  <2> DEFINE a == after[n]
             t == after[n + 1]
             m == q[n + 1]
  <2>2. m \in Update
    BY <1>0, <2>1
  <2>3. t = Apply(a, m)
    BY <1>2, <2>1
  <2>4. Replaying(s, a) /\ Consistent(a)
    BY <2>1 DEF Replaying
  <2> HIDE DEF a, m
  <2>5. Consistent(t) /\ \E P : UpdateStep(a, t, m, P)
    BY <2>2, <2>3, <2>4, ApplyTypes
  <2>6. PICK P : UpdateStep(a, t, m, P)
    BY <2>5
  <2> HIDE DEF t
  <2>7. Replaying(s, t)
    <3> SUFFICES ASSUME NEW c \in Later(t.calls, 0)
                 PROVE \/ c \in Later(s.calls, 0) /\ c.type # "getall"
                       \/ c.type = "getall" /\ c.to = owner /\ c.object \in Objects
                          /\ \E k \in Objects : PathOf[k] = PathOf[c.object]
                                                /\ t.cache[k] # Absent
      BY <2>5 DEF Replaying
    <3>1. CASE c \in Later(a.calls, 0) /\ ~Cancels(c, P) /\ c.type = "getall"
      <4>1. c.to = owner /\ c.object \in Objects
            /\ \E k \in Objects : PathOf[k] = PathOf[c.object] /\ a.cache[k] # Absent
        BY <2>4, <3>1 DEF Replaying
      <4>2. PICK k \in Objects : PathOf[k] = PathOf[c.object] /\ a.cache[k] # Absent
        BY <4>1
      <4>3. PathOf[k] \notin P
        BY <3>1, <4>2 DEF Cancels
      <4>4. \E j \in Objects : PathOf[j] = PathOf[k] /\ t.cache[j] # Absent
        BY <2>6, <4>2, <4>3 DEF UpdateStep
      <4> QED BY <4>1, <4>2, <4>4, <3>1
    <3>2. CASE c \in Later(a.calls, 0) /\ c.type # "getall"
      BY <2>4, <3>2 DEF Replaying
    <3>3. CASE c.type = "getall" /\ c.to = owner /\ c.object \in Objects
               /\ t.cache[c.object] # Absent
      BY <3>3
    <3> QED BY <2>6, <3>1, <3>2, <3>3 DEF UpdateStep
  <2>8. ASSUME hyp PROVE Caught(t, {}, Later(q, n + 1) \cup M)
    <3>1. Sound(bluez, m, Later(q, n + 1) \cup M)
      BY <2>8, <2>1 DEF m
    <3>2. Later(q, n) = Later(q, n + 1) \cup {m}
      BY <2>1, LaterNext DEF m
    <3>3. Caught(a, {}, Later(q, n) \cup M)
      BY <2>8, <2>1 DEF a
    <3>4. Later(q, n) \cup M = (Later(q, n + 1) \cup M) \cup {m}
      BY <3>2
    <3>5. Caught(a, {}, (Later(q, n + 1) \cup M) \cup {m})
      BY <3>3, <3>4
    <3> QED BY <3>1, <3>5, <2>2, <2>3, <2>4, ApplyCatches
  <2> QED BY <2>7, <2>8 DEF t
<1> HIDE DEF T
<1>5. Nat \subseteq T
  BY <1>3, <1>4, Counting
<1>6. Good(Len(q))
  BY <1>0, <1>5 DEF T
<1>7. Later(q, Len(q)) = {}
  BY LaterNone
<1> QED BY <1>1, <1>6, <1>7 DEF Good

----------------------------------------------------------------------------
(* A message sent                                                          *)

LEMMA SameOwnerIs ==
  ASSUME NEW S, NEW q \in Seq(S), NEW i
  PROVE  SameOwner(q, i) <=> \A j \in 1..Len(q) : j >= i => q[j].type # "owner"
<1>1. DOMAIN q = 1..Len(q)
  BY LenProperties
<1> QED BY <1>1 DEF SameOwner

LEMMA AppendIs ==
  ASSUME NEW S, NEW q \in Seq(S), NEW m \in S
  PROVE  /\ Append(q, m) \in Seq(S)
         /\ Len(q) \in Nat /\ Len(Append(q, m)) = Len(q) + 1
         /\ DOMAIN q = 1..Len(q) /\ DOMAIN Append(q, m) = 1..Len(q) + 1
         /\ \A i \in 1..Len(q) : Append(q, m)[i] = q[i] /\ q[i] \in S
         /\ Append(q, m)[Len(q) + 1] = m
         /\ \A i \in 1..Len(q) : Later(Append(q, m), i) = Later(q, i) \cup {m}
         /\ Later(Append(q, m), 0) = Later(q, 0) \cup {m}
         /\ Later(Append(q, m), Len(q) + 1) = {}
         /\ \A i : SameOwner(Append(q, m), i) =>
                     SameOwner(q, i) /\ (i \in 1..Len(q) + 1 => m.type # "owner")
<1> DEFINE r == Append(q, m)
<1>1. /\ r \in Seq(S) /\ Len(r) = Len(q) + 1
      /\ \A i \in 1..Len(q) : r[i] = q[i] /\ r[Len(q) + 1] = m
      /\ r[Len(q) + 1] = m
  BY AppendProperties
<1>2. /\ Len(q) \in Nat /\ q \in [1..Len(q) -> S] /\ DOMAIN q = 1..Len(q)
  BY LenProperties
<1>3. DOMAIN r = 1..Len(q) + 1
  BY <1>1, LenProperties
<1>4. \A i \in 0..Len(q) : Later(r, i) = Later(q, i) \cup {m}
  BY LaterAppend
<1>5. Later(r, Len(q) + 1) = {}
  BY <1>1, LaterNone
<1> HIDE DEF r
<1>6. \A i : SameOwner(r, i) =>
               SameOwner(q, i) /\ (i \in 1..Len(q) + 1 => m.type # "owner")
  BY <1>1, <1>2, <1>3 DEF SameOwner
<1>7. (\A i \in 1..Len(q) : i \in 0..Len(q)) /\ 0 \in 0..Len(q)
  BY <1>2
<1> QED BY <1>1, <1>2, <1>3, <1>4, <1>5, <1>6, <1>7 DEF r

\* BlueZ's change from b to c is told by m.
Tells(b, c, m) ==
    \A o \in Objects :
      /\ b[o] = Absent /\ c[o] # Absent => Adds(m, o)
      /\ b[o] # Absent /\ c[o] = Absent => Removes(m, o)
      /\ b[o] # Absent /\ c[o] # Absent =>
           \A p \in Properties : b[o][p] # c[o][p] => Renews(m, o, p)

LEMMA TellsCorrected ==
  ASSUME NEW b, NEW c, NEW m, Tells(b, c, m), NEW o \in Objects, NEW v, NEW M,
         NEW late \in BOOLEAN, Corrected(b, o, v, M, late)
  PROVE  Corrected(c, o, v, M \cup {m}, late)
<1>1. v = Absent /\ c[o] # Absent => \E n \in M \cup {m} : Adds(n, o)
  BY DEF Corrected, Tells
<1>2. v # Absent /\ c[o] = Absent => \E n \in M \cup {m} : Removes(n, o)
  BY DEF Corrected, Tells
<1>3. ASSUME v # Absent, c[o] # Absent, ~late, NEW p \in Properties, v[p] # c[o][p]
      PROVE  \E n \in M \cup {m} : Renews(n, o, p)
  <2>1. CASE b[o] = Absent
    BY <2>1, <1>3 DEF Tells, Renews
  <2>2. CASE b[o] # Absent /\ b[o][p] = c[o][p]
    <3>1. \E n \in M : Renews(n, o, p)
      BY <2>2, <1>3 DEF Corrected
    <3> QED BY <3>1
  <2>3. CASE b[o] # Absent /\ b[o][p] # c[o][p]
    BY <2>3, <1>3 DEF Tells
  <2> QED BY <2>1, <2>2, <2>3
<1> QED BY <1>1, <1>2, <1>3 DEF Corrected

LEMMA MessageIs ==
  ASSUME ManagerAssumption, NEW m \in Message
  PROVE  /\ m.type \in Updates \cup {"owner", "snapshot", "getall"}
         /\ m.type \in Updates => m \in Update
         /\ m.type = "owner" => m.owner \in 0..MaxOwners
         /\ m.type = "snapshot" => m.gen \in Nat /\ m.tree \in Tree \cup {Error}
         /\ m.type = "getall" => /\ m.object \in Objects /\ m.rev \in Nat
                                 /\ m.value \in Values \cup {Error}
<1>1. CASE m \in Update
  BY <1>1, UpdateIs DEF Updates
<1>2. CASE m \in [type : {"owner"}, owner : 0..MaxOwners]
  BY <1>2 DEF Updates
<1>3. CASE m \in [type : {"snapshot"}, gen : Nat, tree : Tree \cup {Error}]
  BY <1>3 DEF Updates
<1>4. CASE m \in [type : {"getall"}, object : Objects, rev : Nat,
                  value : Values \cup {Error}]
  BY <1>4 DEF Updates
<1> QED BY <1>1, <1>2, <1>3, <1>4 DEF Message

LEMMA CallIs ==
  ASSUME NEW m \in Call
  PROVE  /\ m.type \in {"snapshot", "getall"} /\ m.to \in 0..MaxOwners
         /\ m.type = "snapshot" => m.gen \in Nat
         /\ m.type = "getall" => m.object \in Objects /\ m.rev \in Nat
BY DEF Call

LEMMA TellsSound ==
  ASSUME ManagerAssumption, NEW b, NEW c, NEW m, Tells(b, c, m),
         NEW n \in Message, NEW M, Sound(b, n, M)
  PROVE  Sound(c, n, M \cup {m})
<1>1. \A o \in Objects : \A v : Corrected(b, o, v, M, FALSE) =>
                              Corrected(c, o, v, M \cup {m}, FALSE)
  BY TellsCorrected
<1>2. ASSUME n.type = "changed", c[n.object] # Absent, NEW p \in DOMAIN n.changed,
             n.changed[p] # c[n.object][p]
      PROVE  \E k \in M \cup {m} : Renews(k, n.object, p)
  <2>1. n.object \in Objects /\ p \in Properties
    BY <1>2, MessageIs, UpdateIs DEF Updates
  <2>2. CASE b[n.object] = Absent
    BY <2>1, <2>2, <1>2 DEF Tells, Renews
  <2>3. CASE b[n.object] # Absent /\ b[n.object][p] = c[n.object][p]
    <3>1. \E k \in M : Renews(k, n.object, p)
      BY <2>3, <1>2 DEF Sound
    <3> QED BY <3>1
  <2>4. CASE b[n.object] # Absent /\ b[n.object][p] # c[n.object][p]
    BY <2>1, <2>4, <1>2 DEF Tells
  <2> QED BY <2>2, <2>3, <2>4
<1>3. n.type = "getall" => n.object \in Objects
  BY MessageIs
<1> QED BY <1>1, <1>2, <1>3 DEF Sound


LEMMA TypesOfQueues ==
  ASSUME TypeOK
  PROVE  /\ calls \in Seq(Call) /\ inbox \in Seq(Message) /\ deferred \in Seq(Update)
         /\ Len(calls) \in Nat /\ Len(inbox) \in Nat /\ Len(deferred) \in Nat
         /\ DOMAIN inbox = 1..Len(inbox) /\ DOMAIN deferred = 1..Len(deferred)
         /\ DOMAIN calls = 1..Len(calls)
         /\ \A i \in 1..Len(inbox) : inbox[i] \in Message
         /\ \A i \in 1..Len(deferred) : deferred[i] \in Update
         /\ \A i \in 1..Len(calls) : calls[i] \in Call
         /\ Later(calls, 0) \subseteq Call /\ Later(inbox, 0) \subseteq Message
<1>1. calls \in Seq(Call) /\ inbox \in Seq(Message) /\ deferred \in Seq(Update)
  BY DEF TypeOK
<1>2. /\ Len(calls) \in Nat /\ Len(inbox) \in Nat /\ Len(deferred) \in Nat
      /\ DOMAIN inbox = 1..Len(inbox) /\ DOMAIN deferred = 1..Len(deferred)
      /\ DOMAIN calls = 1..Len(calls)
  BY <1>1, LenProperties
<1>3. /\ \A i \in 1..Len(inbox) : inbox[i] \in Message
      /\ \A i \in 1..Len(deferred) : deferred[i] \in Update
      /\ \A i \in 1..Len(calls) : calls[i] \in Call
  BY <1>1, ElementOfSeq
<1>4. Later(calls, 0) \subseteq Call /\ Later(inbox, 0) \subseteq Message
  BY <1>1, LaterIn
<1> QED BY <1>1, <1>2, <1>3, <1>4

LEMMA UpdateIsMessage == Update \subseteq Message
BY DEF Message

\* Everything the invariant says of the queues after the current owner's name
\* is vacuous once another owner change is on its way.
LEMMA OwnerSent ==
  ASSUME ManagerAssumption, IInv, ChangeOwner
  PROVE  IInv'
<1> DEFINE m == [type |-> "owner", owner |-> owner']
           n == Len(inbox)
<1>1. /\ inbox' = Append(inbox, m) /\ bluez' = Nothing
      /\ UNCHANGED <<calls, started, generation, resync, deferred, cache, revision,
                     lastRev, view, available, callbacks, failed>>
  BY DEF ChangeOwner, Send, manager
<1>2. TypeOK
  BY DEF IInv
<1>3. owner' \in 0..MaxOwners /\ spent' \in [owners : 1..MaxOwners,
                                           changes : 0..MaxChanges, errors : 0..MaxErrors]
  <2>1. /\ spent \in [owners : 1..MaxOwners, changes : 0..MaxChanges,
                      errors : 0..MaxErrors]
        /\ MaxOwners \in Nat
    BY <1>2 DEF TypeOK, ManagerAssumption
  <2>2. CASE owner # 0 /\ owner' = 0 /\ UNCHANGED spent
    BY <2>1, <2>2
  <2>3. CASE /\ spent.owners < MaxOwners
             /\ owner' = spent.owners + 1
             /\ spent' = [spent EXCEPT !.owners = @ + 1]
    <3>1. spent.owners \in 1..MaxOwners /\ spent.owners + 1 \in 1..MaxOwners
      BY <2>1, <2>3
    <3> QED BY <3>1, <2>1, <2>3
  <2> QED BY <2>2, <2>3 DEF ChangeOwner
<1>4. m \in Message
  BY <1>3 DEF Message
<1>5. m.type = "owner" /\ m.owner = owner' /\ m.type \notin Updates
  BY DEF Updates
<1> HIDE DEF m
<1>6. /\ inbox' \in Seq(Message)
      /\ n \in Nat /\ Len(inbox') = n + 1
      /\ DOMAIN inbox = 1..n /\ DOMAIN inbox' = 1..n + 1
      /\ \A i \in 1..n : inbox'[i] = inbox[i]
      /\ inbox'[n + 1] = m
      /\ Later(inbox', 0) = Later(inbox, 0) \cup {m}
      /\ \A i \in 1..n + 1 : ~SameOwner(inbox', i)
  <2>1. inbox \in Seq(Message)
    BY <1>2, TypesOfQueues
  <2> QED BY <1>1, <1>4, <1>5, <2>1, AppendIs
<1> HIDE DEF n
<1>7. ~SameOwner(inbox', 1)
  BY <1>6
<1>8. TypeOK'
  <2>1. Nothing \in Tree
    BY DEF Nothing, Tree
  <2> QED BY <1>1, <1>2, <1>3, <1>6, <2>1 DEF TypeOK
<1>9. AllSound'
  BY <1>6, <1>7 DEF AllSound
<1>10. Tracked' /\ Awaited'
  BY <1>7 DEF Tracked, Awaited
<1>11. Anchored'
  BY <1>1, <1>5, <1>6 DEF IInv, Anchored, Underway
<1>12. Snapshots'
  <2>1. Snapshots
    BY DEF IInv
  <2>2. ~Current(m, generation)
    BY <1>5 DEF Current
  <2>3. \A k \in Underway' :
         k.type = "snapshot" => k.gen <= generation' /\ (k.gen = generation' => resync')
    BY <2>1, <1>1, <1>5, <1>6 DEF Snapshots, Underway
  <2>4. \A i, k \in DOMAIN calls' :
         Current(calls'[i], generation') /\ Current(calls'[k], generation') => i = k
    BY <2>1, <1>1 DEF Snapshots
  <2>5. \A i, k \in DOMAIN inbox' :
         Current(inbox'[i], generation') /\ Current(inbox'[k], generation') => i = k
    BY <2>1, <2>2, <1>1, <1>6 DEF Snapshots
  <2>6. \A j \in Later(calls', 0), k \in Later(inbox', 0) :
         ~(Current(j, generation') /\ Current(k, generation'))
    BY <2>1, <2>2, <1>1, <1>6 DEF Snapshots
  <2>7. ASSUME NEW i \in DOMAIN inbox', Current(inbox'[i], generation'),
               inbox'[i].tree = Error
        PROVE  failed' \/ \E j \in 1..(i - 1) : inbox'[j].type = "owner"
    <3>1. i \in 1..n
      BY <2>2, <2>7, <1>1, <1>6
    <3>2. failed \/ \E j \in 1..(i - 1) : inbox[j].type = "owner"
      BY <3>1, <2>1, <2>7, <1>1, <1>6 DEF Snapshots
    <3>3. \A j \in 1..(i - 1) : inbox'[j] = inbox[j]
      BY <3>1, <1>6
    <3> QED BY <3>2, <3>3, <1>1
  <2> QED BY <2>3, <2>4, <2>5, <2>6, <2>7 DEF Snapshots
<1>13. Owners'
  <2>1. ASSUME NEW i \in DOMAIN inbox', inbox'[i].type = "owner",
               SameOwner(inbox', i + 1)
        PROVE  inbox'[i].owner = owner'
    <3>1. i + 1 \notin 1..n + 1
      BY <2>1, <1>6
    <3>2. i = n + 1
      BY <3>1, <2>1, <1>6
    <3> QED BY <3>2, <1>5, <1>6
  <2> QED BY <2>1, <1>1, <1>7 DEF Owners, Nothing
<1>14. Resyncs' /\ Shown'
  BY <1>1 DEF IInv, Resyncs, Shown, Nothing
<1>15. NotStarted'
  BY <1>1, <1>5, <1>6 DEF IInv, NotStarted, Nothing
<1>16. Silent'
  <2>1. Silent
    BY DEF IInv
  <2>2. ASSUME NEW i \in DOMAIN inbox', NEW k \in DOMAIN inbox',
               i < k, inbox'[i].type = "owner", inbox'[i].owner = 0,
               inbox'[k].type \in Updates
        PROVE  \E j \in (i + 1)..(k - 1) : inbox'[j].type = "owner"
    <3>1. i \in 1..n /\ k \in 1..n
      BY <2>2, <1>5, <1>6
    <3>2. PICK j \in (i + 1)..(k - 1) : inbox[j].type = "owner"
      BY <3>1, <2>1, <2>2, <1>6 DEF Silent
    <3>3. j \in 1..n
      BY <3>1, <1>6
    <3> QED BY <3>2, <3>3, <1>6
  <2>3. ASSUME ~available, ~resync, ~failed, NEW k \in DOMAIN inbox',
               inbox'[k].type \in Updates
        PROVE  \E j \in 1..(k - 1) : inbox'[j].type = "owner"
    <3>1. k \in 1..n
      BY <2>3, <1>5, <1>6
    <3>2. PICK j \in 1..(k - 1) : inbox[j].type = "owner"
      BY <3>1, <2>1, <2>3, <1>6 DEF Silent
    <3>3. j \in 1..n
      BY <3>1, <1>6
    <3> QED BY <3>2, <3>3, <1>6
  <2> QED BY <2>2, <2>3, <1>1, <1>7 DEF Silent
<1> QED BY <1>8, <1>9, <1>10, <1>11, <1>12, <1>13, <1>14, <1>15, <1>16 DEF IInv

LEMMA AskedAppend ==
  ASSUME NEW S, NEW q \in Seq(S), NEW m \in S
  PROVE  Asked(Append(q, m)) =
           Asked(q) \cup (IF m.type = "getall" THEN {m.object} ELSE {})
<1>1. Append(q, m) \in Seq(S) /\ Later(Append(q, m), 0) = Later(q, 0) \cup {m}
  BY AppendIs
<1>2. \A o : o \in Asked(q) <=> \E n \in Later(q, 0) : n.type = "getall" /\ n.object = o
  BY AskedIs
<1>3. \A o : o \in Asked(Append(q, m)) <=>
               \E n \in Later(Append(q, m), 0) : n.type = "getall" /\ n.object = o
  BY <1>1, AskedIs
<1> QED BY <1>1, <1>2, <1>3

LEMMA UpdateSent ==
  ASSUME ManagerAssumption, IInv, owner # 0, NEW m \in Update,
         Sound(bluez', m, {}), Tells(bluez, bluez', m), bluez' \in Tree,
         inbox' = Append(inbox, m),
         spent' \in [owners : 1..MaxOwners, changes : 0..MaxChanges,
                     errors : 0..MaxErrors],
         UNCHANGED <<owner, calls, started, manager, failed>>
  PROVE  IInv'
<1> DEFINE n == Len(inbox)
<1>1. UNCHANGED <<owner, calls, started, generation, resync, deferred, cache, revision,
                  lastRev, view, available, callbacks, failed>>
  BY DEF manager
<1>2. TypeOK
  BY DEF IInv
<1>3. m \in Message /\ m.type \in Updates
  BY UpdateIsMessage, UpdateIs
<1>4. m.type # "owner" /\ m.type # "snapshot" /\ m.type # "getall"
  BY <1>3 DEF Updates
<1>5. /\ inbox' \in Seq(Message)
      /\ n \in Nat /\ Len(inbox') = n + 1
      /\ DOMAIN inbox = 1..n /\ DOMAIN inbox' = 1..n + 1
      /\ \A i \in 1..n : inbox'[i] = inbox[i] /\ inbox[i] \in Message
      /\ inbox'[n + 1] = m
      /\ Later(inbox', 0) = Later(inbox, 0) \cup {m}
      /\ \A i \in 1..n : Later(inbox', i) = Later(inbox, i) \cup {m}
      /\ Later(inbox', n + 1) = {}
      /\ \A i : SameOwner(inbox', i) => SameOwner(inbox, i)
      /\ Asked(inbox') = Asked(inbox)
  <2>1. inbox \in Seq(Message)
    BY <1>2, TypesOfQueues
  <2>2. Asked(inbox') = Asked(inbox)
    <3>1. Asked(inbox') = Asked(inbox) \cup (IF m.type = "getall" THEN {m.object} ELSE {})
      BY <1>3, <2>1, AskedAppend
    <3> QED BY <3>1, <1>4
  <2> QED BY <1>3, <2>1, <2>2, AppendIs
<1> HIDE DEF n
<1>6. TypeOK'
  BY <1>1, <1>2, <1>5 DEF TypeOK
<1>7. AllSound'
  <2>1. AllSound
    BY DEF IInv
  <2>2. ASSUME NEW i \in DOMAIN inbox', SameOwner(inbox', i)
        PROVE  Sound(bluez', inbox'[i], Later(inbox', i))
    <3>1. CASE i = n + 1
      BY <3>1, <1>5
    <3>2. CASE i \in 1..n
      <4>1. Sound(bluez, inbox[i], Later(inbox, i))
        BY <2>1, <2>2, <3>2, <1>5 DEF AllSound
      <4>2. Sound(bluez', inbox[i], Later(inbox, i) \cup {m})
        BY <4>1, <3>2, <1>5, TellsSound
      <4> QED BY <4>2, <3>2, <1>5
    <3> QED BY <3>1, <3>2, <1>5
  <2>3. ASSUME SameOwner(inbox', 1), NEW i \in DOMAIN deferred'
        PROVE  Sound(bluez', deferred'[i], Later(deferred', i) \cup Later(inbox', 0))
    <3>1. i \in DOMAIN deferred /\ deferred[i] \in Message
      BY <1>1, <1>2, TypesOfQueues, UpdateIsMessage
    <3>2. Sound(bluez, deferred[i], Later(deferred, i) \cup Later(inbox, 0))
      BY <2>1, <2>3, <3>1, <1>5 DEF AllSound
    <3>3. Sound(bluez', deferred[i], (Later(deferred, i) \cup Later(inbox, 0)) \cup {m})
      BY <3>1, <3>2, TellsSound
    <3>4. Later(deferred', i) \cup Later(inbox', 0)
            = (Later(deferred, i) \cup Later(inbox, 0)) \cup {m}
      BY <1>1, <1>5
    <3> QED BY <3>3, <3>4, <1>1
  <2>4. ASSUME SameOwner(inbox', 1), ~failed', NEW i \in DOMAIN inbox',
               inbox'[i].type = "getall", inbox'[i].value = Error
        PROVE  Corrected(bluez', inbox'[i].object, Absent, Later(inbox', i), FALSE)
    <3>1. i \in 1..n
      BY <2>4, <1>4, <1>5
    <3>2. Corrected(bluez, inbox[i].object, Absent, Later(inbox, i), FALSE)
      <4>1. SameOwner(inbox, 1) /\ ~failed
        BY <2>4, <1>1, <1>5
      <4>2. i \in DOMAIN inbox /\ inbox[i].type = "getall" /\ inbox[i].value = Error
        BY <2>4, <3>1, <1>5
      <4> QED BY <4>1, <4>2, <2>1 DEF AllSound
    <3>3. inbox[i].object \in Objects
      BY <2>4, <3>1, <1>5, MessageIs
    <3>4. Corrected(bluez', inbox[i].object, Absent, Later(inbox, i) \cup {m}, FALSE)
      BY <3>2, <3>3, TellsCorrected
    <3> QED BY <3>1, <3>4, <1>5
  <2> QED BY <2>2, <2>3, <2>4 DEF AllSound
<1>8. Tracked'
  <2>1. Tracked
    BY DEF IInv
  <2> SUFFICES ASSUME started, SameOwner(inbox', 1), ~failed, ~resync,
                      NEW o \in Objects
               PROVE  Corrected(bluez', o, cache[o], Later(inbox', 0),
                                o \in Asked(calls) \/ o \in Asked(inbox))
    BY <1>1, <1>5 DEF Tracked
  <2> DEFINE late == o \in Asked(calls) \/ o \in Asked(inbox)
  <2>2. Corrected(bluez, o, cache[o], Later(inbox, 0), late)
    BY <2>1, <1>5 DEF Tracked
  <2>3. late \in BOOLEAN
    OBVIOUS
  <2>4. Later(inbox', 0) = Later(inbox, 0) \cup {m}
    BY <1>5
  <2>5. Corrected(bluez', o, cache[o], Later(inbox', 0), late)
    <3> HIDE DEF late
    <3> QED BY <2>2, <2>3, <2>4, TellsCorrected
  <2> QED BY <2>5
<1>9. Anchored'
  BY <1>1, <1>4, <1>5 DEF IInv, Anchored, Underway
<1>10. Snapshots'
  <2>1. Snapshots
    BY DEF IInv
  <2>2. ~Current(m, generation)
    BY <1>4 DEF Current
  <2>3. \A k \in Underway' :
         k.type = "snapshot" => k.gen <= generation' /\ (k.gen = generation' => resync')
    BY <2>1, <1>1, <1>4, <1>5 DEF Snapshots, Underway
  <2>4. \A i, k \in DOMAIN calls' :
         Current(calls'[i], generation') /\ Current(calls'[k], generation') => i = k
    BY <2>1, <1>1 DEF Snapshots
  <2>5. \A i, k \in DOMAIN inbox' :
         Current(inbox'[i], generation') /\ Current(inbox'[k], generation') => i = k
    BY <2>1, <2>2, <1>1, <1>5 DEF Snapshots
  <2>6. \A j \in Later(calls', 0), k \in Later(inbox', 0) :
         ~(Current(j, generation') /\ Current(k, generation'))
    BY <2>1, <2>2, <1>1, <1>5 DEF Snapshots
  <2>7. ASSUME NEW i \in DOMAIN inbox', Current(inbox'[i], generation'),
               inbox'[i].tree = Error
        PROVE  failed' \/ \E j \in 1..(i - 1) : inbox'[j].type = "owner"
    <3>1. i \in 1..n
      BY <2>2, <2>7, <1>1, <1>5
    <3>2. failed \/ \E j \in 1..(i - 1) : inbox[j].type = "owner"
      BY <3>1, <2>1, <2>7, <1>1, <1>5 DEF Snapshots
    <3>3. \A j \in 1..(i - 1) : inbox'[j] = inbox[j]
      BY <3>1, <1>5
    <3> QED BY <3>2, <3>3, <1>1
  <2> QED BY <2>3, <2>4, <2>5, <2>6, <2>7 DEF Snapshots
<1>11. Awaited'
  BY <1>1, <1>5 DEF IInv, Awaited, Underway
<1>12. Owners'
  <2>1. Owners
    BY DEF IInv
  <2>2. ASSUME NEW i \in DOMAIN inbox', inbox'[i].type = "owner",
               SameOwner(inbox', i + 1)
        PROVE  inbox'[i].owner = owner'
    <3>1. i \in 1..n
      BY <2>2, <1>4, <1>5
    <3> QED BY <3>1, <2>1, <2>2, <1>1, <1>5 DEF Owners
  <2> QED BY <2>1, <2>2, <1>1, <1>5 DEF Owners
<1>13. Resyncs' /\ Shown'
  BY <1>1 DEF IInv, Resyncs, Shown, Nothing
<1>14. NotStarted'
  BY <1>1, <1>3, <1>5 DEF IInv, NotStarted, Nothing
<1>15. Silent'
  <2>1. Silent /\ Owners
    BY DEF IInv
  <2>2. ASSUME NEW i \in DOMAIN inbox', NEW k \in DOMAIN inbox',
               i < k, inbox'[i].type = "owner", inbox'[i].owner = 0,
               inbox'[k].type \in Updates
        PROVE  \E j \in (i + 1)..(k - 1) : inbox'[j].type = "owner"
    <3>1. i \in 1..n
      BY <2>2, <1>5
    <3>2. CASE k \in 1..n
      <4>1. PICK j \in (i + 1)..(k - 1) : inbox[j].type = "owner"
        BY <3>1, <3>2, <2>1, <2>2, <1>5 DEF Silent
      <4>2. j \in 1..n
        BY <3>1, <3>2, <1>5
      <4> QED BY <4>1, <4>2, <1>5
    <3>3. CASE k = n + 1
      <4>1. ~SameOwner(inbox, i + 1)
        BY <3>1, <2>1, <2>2, <1>5 DEF Owners
      <4>2. PICK j \in 1..n : j >= i + 1 /\ inbox[j].type = "owner"
        BY <4>1, <1>5 DEF SameOwner
      <4>3. j \in (i + 1)..(k - 1)
        BY <4>2, <3>1, <3>3, <1>5
      <4> QED BY <4>2, <4>3, <1>5
    <3> QED BY <3>2, <3>3, <1>5, SMTT(30)
  <2>3. ASSUME ~available, ~resync, ~failed, NEW k \in DOMAIN inbox',
               inbox'[k].type \in Updates
        PROVE  \E j \in 1..(k - 1) : inbox'[j].type = "owner"
    <3>1. CASE k \in 1..n
      <4>1. PICK j \in 1..(k - 1) : inbox[j].type = "owner"
        BY <3>1, <2>1, <2>3, <1>5 DEF Silent
      <4>2. j \in 1..n
        BY <3>1, <1>5
      <4> QED BY <4>1, <4>2, <1>5
    <3>2. CASE k = n + 1
      <4>1. ~SameOwner(inbox, 1)
        BY <2>1, <2>3 DEF Silent
      <4>2. PICK j \in 1..n : inbox[j].type = "owner"
        BY <4>1, <1>5 DEF SameOwner
      <4> QED BY <4>2, <3>2, <1>5
    <3> QED BY <3>1, <3>2, <1>5
  <2>4. ~available /\ ~resync /\ ~failed /\ SameOwner(inbox', 1) => owner = 0
    BY <2>1, <1>5 DEF Silent
  <2>5. ~available' /\ ~resync' /\ ~failed' =>
         /\ \A k \in DOMAIN inbox' : inbox'[k].type \in Updates =>
              \E j \in 1..(k - 1) : inbox'[j].type = "owner"
         /\ SameOwner(inbox', 1) => owner' = 0
    BY <2>3, <2>4, <1>1
  <2> QED BY <2>2, <2>5, ZenonT(60) DEF Silent
<1> QED BY <1>6, <1>7, <1>8, <1>9, <1>10, <1>11, <1>12, <1>13, <1>14, <1>15 DEF IInv


LEMMA TailIs ==
  ASSUME NEW S, NEW q \in Seq(S), q # <<>>
  PROVE  /\ Tail(q) \in Seq(S) /\ Head(q) \in S /\ Head(q) = q[1]
         /\ Len(q) \in Nat /\ Len(q) >= 1 /\ Len(Tail(q)) = Len(q) - 1
         /\ DOMAIN q = 1..Len(q) /\ DOMAIN Tail(q) = 1..Len(q) - 1
         /\ \A i \in 1..Len(q) - 1 : Tail(q)[i] = q[i + 1]
         /\ \A i \in 0..Len(q) - 1 : Later(Tail(q), i) = Later(q, i + 1)
         /\ Later(q, 0) = Later(q, 1) \cup {Head(q)}
         /\ Later(Tail(q), 0) = Later(q, 1)
<1>1. /\ Tail(q) \in Seq(S) /\ Head(q) \in S /\ Head(q) = q[1]
      /\ Len(q) \in Nat /\ Len(q) >= 1 /\ Len(Tail(q)) = Len(q) - 1
  BY EmptySeq, LenProperties, HeadTailProperties
<1>2. \A i \in 1..Len(q) - 1 : Tail(q)[i] = q[i + 1]
  BY <1>1, HeadTailProperties
<1>3. DOMAIN q = 1..Len(q) /\ DOMAIN Tail(q) = 1..Len(q) - 1
  BY <1>1, LenProperties
<1>4. \A i \in 0..Len(q) - 1 : Later(Tail(q), i) = Later(q, i + 1)
  <2> SUFFICES ASSUME NEW i \in 0..Len(q) - 1
               PROVE Later(Tail(q), i) = Later(q, i + 1)
    OBVIOUS
  <2> DEFINE r == Tail(q)
             k == Len(q)
  <2>0. k \in Nat /\ Len(r) = k - 1 /\ \A j \in 1..k - 1 : r[j] = q[j + 1]
    BY <1>1, <1>2
  <2> HIDE DEF r
  <2>1. ASSUME NEW x \in Later(r, i) PROVE x \in Later(q, i + 1)
    <3>1. PICK j \in (i + 1)..k - 1 : x = r[j]
      BY <2>0 DEF Later
    <3>2. j + 1 \in (i + 1) + 1..k /\ x = q[j + 1]
      BY <3>1, <2>0
    <3> QED BY <3>2 DEF Later
  <2>2. ASSUME NEW x \in Later(q, i + 1) PROVE x \in Later(r, i)
    <3>1. PICK j \in (i + 1) + 1..k : x = q[j]
      BY <2>0 DEF Later
    <3>2. j - 1 \in i + 1..k - 1 /\ x = r[j - 1]
      BY <3>1, <2>0
    <3> QED BY <3>2, <2>0 DEF Later
  <2> QED BY <2>1, <2>2 DEF r
<1>5. Later(q, 0) = Later(q, 1) \cup {q[1]}
  <2>1. 1 \in 1..Len(q) /\ 1 - 1 = 0
    BY <1>1
  <2> QED BY <2>1, LaterNext
<1>6. Later(Tail(q), 0) = Later(q, 1)
  <2>1. 0 \in 0..Len(q) - 1 /\ 0 + 1 = 1
    BY <1>1
  <2> QED BY <2>1, <1>4
<1> QED BY <1>1, <1>2, <1>3, <1>4, <1>5, <1>6

\* The reply m to the oldest call: what it says is true of bluez, and an error
\* is BlueZ's refusal, unless the callee is gone.
LEMMA ReplySent ==
  ASSUME ManagerAssumption, IInv, calls # <<>>, NEW m \in Message,
         m.type = Head(calls).type,
         m.type = "snapshot" => m.gen = Head(calls).gen,
         m.type = "getall" => m.object = Head(calls).object,
         Sound(bluez, m, {}),
         m.type = "getall" /\ m.value = Error /\ SameOwner(inbox, 1) /\ ~failed' =>
           bluez[m.object] = Absent,
         Current(m, generation) /\ m.tree = Error /\ SameOwner(inbox, 1) => failed',
         calls' = Tail(calls), inbox' = Append(inbox, m),
         spent' \in [owners : 1..MaxOwners, changes : 0..MaxChanges,
                     errors : 0..MaxErrors],
         failed' \in BOOLEAN, failed => failed',
         UNCHANGED <<owner, bluez, started, manager>>
  PROVE  IInv'
<1> DEFINE n == Len(inbox)
           c == Head(calls)
           N == Len(calls)
<1>1. UNCHANGED <<owner, bluez, started, generation, resync, deferred, cache, revision,
                  lastRev, view, available, callbacks>>
  BY DEF manager
<1>2. TypeOK /\ calls \in Seq(Call) /\ inbox \in Seq(Message)
  BY TypesOfQueues DEF IInv
<1>3. /\ c \in Call /\ c = calls[1] /\ N \in Nat /\ N >= 1
      /\ calls' \in Seq(Call) /\ DOMAIN calls = 1..N /\ DOMAIN calls' = 1..N - 1
      /\ \A i \in 1..N - 1 : calls'[i] = calls[i + 1]
      /\ Later(calls, 0) = Later(calls', 0) \cup {c}
  BY <1>2, TailIs
<1>4. /\ m.type # "owner" /\ m.type \notin Updates
      /\ m.type = c.type
  BY <1>3, CallIs DEF Updates
<1>5. /\ inbox' \in Seq(Message)
      /\ n \in Nat /\ Len(inbox') = n + 1
      /\ DOMAIN inbox = 1..n /\ DOMAIN inbox' = 1..n + 1
      /\ \A i \in 1..n : inbox'[i] = inbox[i] /\ inbox[i] \in Message
      /\ inbox'[n + 1] = m
      /\ Later(inbox', 0) = Later(inbox, 0) \cup {m}
      /\ \A i \in 1..n : Later(inbox', i) = Later(inbox, i) \cup {m}
      /\ Later(inbox', n + 1) = {}
      /\ \A i : SameOwner(inbox', i) => SameOwner(inbox, i)
      /\ Asked(inbox') = Asked(inbox) \cup (IF m.type = "getall" THEN {m.object} ELSE {})
  <2>1. Asked(inbox') = Asked(inbox) \cup (IF m.type = "getall" THEN {m.object} ELSE {})
    BY <1>2, AskedAppend
  <2> QED BY <1>2, <2>1, AppendIs
<1>6. ASSUME NEW o, o \in Asked(calls) \/ o \in Asked(inbox)
      PROVE  o \in Asked(calls') \/ o \in Asked(inbox')
  <2>1. CASE o \in Asked(inbox)
    BY <2>1, <1>5
  <2>2. CASE o \in Asked(calls)
    <3>1. PICK k \in Later(calls, 0) : k.type = "getall" /\ k.object = o
      BY <2>2, <1>2, AskedIs
    <3>2. CASE k = c
      BY <3>1, <3>2, <1>4, <1>5
    <3>3. CASE k \in Later(calls', 0)
      BY <3>1, <3>3, <1>3, AskedIs
    <3> QED BY <3>2, <3>3, <1>3
  <2> QED BY <1>6, <2>1, <2>2
<1>7. m.type = "snapshot" => m.gen = c.gen
  OBVIOUS
<1>8. m.type = "getall" => m.object = c.object
  OBVIOUS
<1>9. Current(m, generation) <=> Current(c, generation)
  BY <1>4, <1>7 DEF Current
<1> HIDE DEF n, c, N
<1>10. TypeOK'
  BY <1>1, <1>2, <1>3, <1>5 DEF TypeOK
<1>11. AllSound'
  <2>1. AllSound
    BY DEF IInv
  <2>2. ASSUME NEW i \in DOMAIN inbox', SameOwner(inbox', i)
        PROVE  Sound(bluez', inbox'[i], Later(inbox', i))
    <3>1. CASE i = n + 1
      BY <3>1, <1>1, <1>5
    <3>2. CASE i \in 1..n
      <4>1. Sound(bluez, inbox[i], Later(inbox, i))
        BY <2>1, <2>2, <3>2, <1>5 DEF AllSound
      <4>2. Sound(bluez, inbox[i], Later(inbox, i) \cup {m})
        BY <4>1, SoundMore
      <4> QED BY <4>2, <3>2, <1>1, <1>5
    <3> QED BY <3>1, <3>2, <1>5
  <2>3. ASSUME SameOwner(inbox', 1), NEW i \in DOMAIN deferred'
        PROVE  Sound(bluez', deferred'[i], Later(deferred', i) \cup Later(inbox', 0))
    <3>1. i \in DOMAIN deferred
      BY <1>1
    <3>2. Sound(bluez, deferred[i], Later(deferred, i) \cup Later(inbox, 0))
      BY <2>1, <2>3, <3>1, <1>5 DEF AllSound
    <3>3. Sound(bluez, deferred[i], Later(deferred, i) \cup Later(inbox', 0))
      BY <3>2, <1>5, SoundMore
    <3> QED BY <3>3, <1>1
  <2>4. ASSUME SameOwner(inbox', 1), ~failed', NEW i \in DOMAIN inbox',
               inbox'[i].type = "getall", inbox'[i].value = Error
        PROVE  Corrected(bluez', inbox'[i].object, Absent, Later(inbox', i), FALSE)
    <3>0. SameOwner(inbox, 1) /\ ~failed
      BY <2>4, <1>5
    <3>1. CASE i \in 1..n
      <4>1. i \in DOMAIN inbox /\ inbox[i].type = "getall" /\ inbox[i].value = Error
        BY <2>4, <3>1, <1>5
      <4>2. Corrected(bluez, inbox[i].object, Absent, Later(inbox, i), FALSE)
        BY <2>1, <3>0, <4>1 DEF AllSound
      <4>3. Corrected(bluez, inbox[i].object, Absent, Later(inbox, i) \cup {m}, FALSE)
        BY <4>2, CorrectedMore
      <4> QED BY <4>3, <3>1, <1>1, <1>5
    <3>2. CASE i = n + 1
      <4>1. inbox'[i] = m
        BY <3>2, <1>5
      <4>2. bluez[m.object] = Absent
        BY <3>0, <4>1, <2>4
      <4>3. Corrected(bluez, m.object, Absent, Later(inbox', i), FALSE)
        BY <4>2 DEF Corrected
      <4> QED BY <4>1, <4>3, <1>1
    <3>3. i \in 1..n \/ i = n + 1
      BY <1>5
    <3> QED BY <3>1, <3>2, <3>3
  <2> QED BY <2>2, <2>3, <2>4 DEF AllSound
<1>12. Tracked'
  <2>1. Tracked
    BY DEF IInv
  <2> SUFFICES ASSUME started, SameOwner(inbox', 1), ~failed', ~resync,
                      NEW o \in Objects
               PROVE  Corrected(bluez, o, cache[o], Later(inbox', 0),
                                o \in Asked(calls') \/ o \in Asked(inbox'))
    BY <1>1 DEF Tracked
  <2> DEFINE before == o \in Asked(calls) \/ o \in Asked(inbox)
             after == o \in Asked(calls') \/ o \in Asked(inbox')
  <2>2. SameOwner(inbox, 1) /\ ~failed
    BY <1>5
  <2>3. Corrected(bluez, o, cache[o], Later(inbox, 0), before)
    BY <2>1, <2>2 DEF Tracked
  <2>4. before \in BOOLEAN /\ after \in BOOLEAN /\ (before => after)
    BY <1>6
  <2>5. \A k \in Later(inbox, 0) : k \in Later(inbox', 0)
    BY <1>5
  <2>6. Corrected(bluez, o, cache[o], Later(inbox', 0), after)
    <3> HIDE DEF before, after
    <3> QED BY <2>3, <2>4, <2>5, CorrectedMore
  <2> QED BY <2>6
<1>13. Anchored'
  <2>1. Anchored
    BY DEF IInv
  <2>2. ASSUME NEW k \in Underway', k.type = "getall"
        PROVE  \E j \in Underway : j.type = "getall" /\ j.object = k.object
    <3>1. CASE k = m
      BY <3>1, <2>2, <1>3, <1>4, <1>8 DEF Underway
    <3>2. CASE k # m
      BY <3>2, <2>2, <1>3, <1>5 DEF Underway
    <3> QED BY <3>1, <3>2
  <2> SUFFICES ASSUME NEW k \in Underway', k.type = "getall"
               PROVE  \E j \in Objects : PathOf[j] = PathOf[k.object] /\ cache[j] # Absent
    BY <1>1 DEF Anchored
  <2>3. PICK l \in Underway : l.type = "getall" /\ l.object = k.object
    BY <2>2
  <2> QED BY <2>1, <2>3 DEF Anchored
<1>14. Snapshots'
  <2>1. Snapshots
    BY DEF IInv
  <2>3. \A k \in Underway' :
         k.type = "snapshot" => k.gen <= generation' /\ (k.gen = generation' => resync')
    <3> SUFFICES ASSUME NEW k \in Underway', k.type = "snapshot"
                 PROVE  k.gen <= generation /\ (k.gen = generation => resync)
      BY <1>1
    <3>1. CASE k = m
      <4>1. c \in Underway /\ c.type = "snapshot" /\ c.gen = k.gen
        BY <3>1, <1>3, <1>4, <1>7 DEF Underway
      <4> QED BY <4>1, <2>1 DEF Snapshots
    <3>2. CASE k # m
      <4>1. k \in Underway
        BY <3>2, <1>3, <1>5 DEF Underway
      <4> QED BY <4>1, <2>1 DEF Snapshots
    <3> QED BY <3>1, <3>2
  <2>4. ASSUME NEW i \in DOMAIN calls', NEW k \in DOMAIN calls',
               Current(calls'[i], generation'), Current(calls'[k], generation')
        PROVE  i = k
    <3>1. /\ i \in 1..N - 1 /\ k \in 1..N - 1
          /\ calls'[i] = calls[i + 1] /\ calls'[k] = calls[k + 1]
          /\ i + 1 \in DOMAIN calls /\ k + 1 \in DOMAIN calls
      BY <2>4, <1>3, SMTT(30)
    <3>2. Current(calls[i + 1], generation) /\ Current(calls[k + 1], generation)
      BY <2>4, <3>1, <1>1
    <3>3. i + 1 = k + 1
      BY <2>1, <3>1, <3>2 DEF Snapshots
    <3> QED BY <3>1, <3>3
  <2>5. ASSUME NEW k \in Later(calls, 0), Current(k, generation), Current(m, generation)
        PROVE  k \notin Later(calls', 0)
    <3> SUFFICES ASSUME k \in Later(calls', 0) PROVE FALSE
      OBVIOUS
    <3>0. calls' \in Seq(Call)
      BY <1>3
    <3>1. PICK i \in DOMAIN calls' : k = calls'[i]
      BY <3>0, LaterAll
    <3>2. i + 1 \in DOMAIN calls /\ calls[i + 1] = k /\ 1 \in DOMAIN calls
          /\ i \in Nat /\ i >= 1
      BY <3>1, <1>3
    <3>3. Current(calls[1], generation) /\ Current(calls[i + 1], generation)
      BY <3>2, <2>5, <1>3, <1>9
    <3>4. i + 1 = 1
      BY <2>1, <3>2, <3>3 DEF Snapshots
    <3> QED BY <3>2, <3>4
  <2>6. ASSUME NEW k \in Later(inbox, 0), Current(k, generation)
        PROVE  ~Current(m, generation)
    BY <2>1, <2>6, <1>3, <1>9 DEF Snapshots
  <2>7. \A i \in 1..n : inbox[i] \in Later(inbox, 0)
    BY <1>5 DEF Later
  <2>8. \A i, k \in DOMAIN inbox' :
         Current(inbox'[i], generation') /\ Current(inbox'[k], generation') => i = k
    BY <2>1, <2>6, <2>7, <1>1, <1>5 DEF Snapshots
  <2>9. \A j \in Later(calls', 0), k \in Later(inbox', 0) :
         ~(Current(j, generation') /\ Current(k, generation'))
    BY <2>1, <2>5, <1>1, <1>3, <1>5 DEF Snapshots
  <2>10. ASSUME NEW i \in DOMAIN inbox', Current(inbox'[i], generation'),
                inbox'[i].tree = Error
         PROVE  failed' \/ \E j \in 1..(i - 1) : inbox'[j].type = "owner"
    <3>1. CASE i \in 1..n
      <4>1. failed \/ \E j \in 1..(i - 1) : inbox[j].type = "owner"
        BY <3>1, <2>1, <2>10, <1>1, <1>5 DEF Snapshots
      <4>2. \A j \in 1..(i - 1) : inbox'[j] = inbox[j]
        BY <3>1, <1>5
      <4> QED BY <4>1, <4>2
    <3>2. CASE i = n + 1
      <4>1. Current(m, generation) /\ m.tree = Error
        BY <3>2, <2>10, <1>1, <1>5
      <4>2. CASE SameOwner(inbox, 1)
        BY <4>1, <4>2
      <4>3. CASE ~SameOwner(inbox, 1)
        <5>1. PICK j \in 1..n : inbox[j].type = "owner"
          BY <4>3, <1>5 DEF SameOwner
        <5>2. j \in 1..(i - 1) /\ inbox'[j] = inbox[j]
          BY <5>1, <3>2, <1>5
        <5> QED BY <5>1, <5>2
      <4> QED BY <4>2, <4>3
    <3> QED BY <3>1, <3>2, <1>5
  <2> QED BY <2>3, <2>4, <2>8, <2>9, <2>10 DEF Snapshots
<1>15. Awaited'
  <2>1. Awaited
    BY DEF IInv
  <2> SUFFICES ASSUME resync, SameOwner(inbox', 1)
               PROVE  owner # 0 /\ \E k \in Underway' : Current(k, generation)
    BY <1>1 DEF Awaited
  <2>2. owner # 0 /\ \E k \in Underway : Current(k, generation)
    BY <2>1, <1>5 DEF Awaited
  <2>3. PICK k \in Underway : Current(k, generation)
    BY <2>2
  <2>4. CASE k = c
    BY <2>2, <2>3, <2>4, <1>5, <1>9 DEF Underway
  <2>5. CASE k # c
    BY <2>2, <2>3, <2>5, <1>3, <1>5 DEF Underway
  <2> QED BY <2>4, <2>5
<1>16. Owners'
  <2>1. Owners
    BY DEF IInv
  <2>2. ASSUME NEW i \in DOMAIN inbox', inbox'[i].type = "owner",
               SameOwner(inbox', i + 1)
        PROVE  inbox'[i].owner = owner'
    <3>1. i \in 1..n
      BY <2>2, <1>4, <1>5
    <3> QED BY <3>1, <2>1, <2>2, <1>1, <1>5 DEF Owners
  <2>3. owner' = 0 => bluez' = Nothing
    BY <2>1, <1>1 DEF Owners
  <2>4. SameOwner(inbox', 1) =>
         \A k \in Later(calls', 0) :
           k.type = "getall" \/ Current(k, generation') => k.to = owner'
    BY <2>1, <1>1, <1>3, <1>5 DEF Owners
  <2>5. Nothing' = Nothing
    BY DEF Nothing
  <2> QED BY <2>2, <2>3, <2>4, <2>5 DEF Owners
<1>17. Resyncs'
  BY <1>1 DEF IInv, Resyncs, Nothing
<1>18. Shown'
  BY <1>1 DEF IInv, Shown, Nothing
<1>19. NotStarted'
  BY <1>1 DEF IInv, NotStarted
<1>20. Silent'
  <2>1. Silent
    BY DEF IInv
  <2>2. ASSUME NEW i \in DOMAIN inbox', NEW k \in DOMAIN inbox',
               i < k, inbox'[i].type = "owner", inbox'[i].owner = 0,
               inbox'[k].type \in Updates
        PROVE  \E j \in (i + 1)..(k - 1) : inbox'[j].type = "owner"
    <3>1. i \in 1..n /\ k \in 1..n
      BY <2>2, <1>4, <1>5
    <3>2. PICK j \in (i + 1)..(k - 1) : inbox[j].type = "owner"
      BY <3>1, <2>1, <2>2, <1>5 DEF Silent
    <3>3. j \in 1..n
      BY <3>1, <1>5
    <3> QED BY <3>2, <3>3, <1>5
  <2>3. ASSUME ~available, ~resync, ~failed, NEW k \in DOMAIN inbox',
               inbox'[k].type \in Updates
        PROVE  \E j \in 1..(k - 1) : inbox'[j].type = "owner"
    <3>1. k \in 1..n
      BY <2>3, <1>4, <1>5
    <3>2. PICK j \in 1..(k - 1) : inbox[j].type = "owner"
      BY <3>1, <2>1, <2>3, <1>5 DEF Silent
    <3>3. j \in 1..n
      BY <3>1, <1>5
    <3> QED BY <3>2, <3>3, <1>5
  <2>4. ~available /\ ~resync /\ ~failed /\ SameOwner(inbox', 1) => owner = 0
    BY <2>1, <1>5 DEF Silent
  <2>5. ~available' /\ ~resync' /\ ~failed' =>
         /\ \A k \in DOMAIN inbox' : inbox'[k].type \in Updates =>
              \E j \in 1..(k - 1) : inbox'[j].type = "owner"
         /\ SameOwner(inbox', 1) => owner' = 0
    BY <2>3, <2>4, <1>1
  <2> QED BY <2>2, <2>5, ZenonT(60) DEF Silent
<1> QED BY <1>10, <1>11, <1>12, <1>13, <1>14, <1>15, <1>16, <1>17, <1>18, <1>19,
           <1>20 DEF IInv


LEMMA SpentChange ==
  ASSUME ManagerAssumption, TypeOK, spent.changes < MaxChanges
  PROVE  [spent EXCEPT !.changes = @ + 1]
           \in [owners : 1..MaxOwners, changes : 0..MaxChanges, errors : 0..MaxErrors]
<1>1. /\ spent \in [owners : 1..MaxOwners, changes : 0..MaxChanges, errors : 0..MaxErrors]
      /\ MaxChanges \in Nat
  BY DEF TypeOK, ManagerAssumption
<1>2. spent.changes \in 0..MaxChanges /\ spent.changes + 1 \in 0..MaxChanges
  BY <1>1
<1> QED BY <1>1, <1>2

LEMMA AlterSent ==
  ASSUME ManagerAssumption, IInv, NEW tree \in Tree, NEW m \in Update,
         Sound(tree, m, {}), Tells(bluez, tree, m), Alter(tree, m)
  PROVE  IInv'
<1>1. /\ owner # 0 /\ bluez' = tree /\ inbox' = Append(inbox, m)
      /\ spent' = [spent EXCEPT !.changes = @ + 1] /\ spent.changes < MaxChanges
      /\ UNCHANGED <<owner, calls, started, manager, failed>>
  BY DEF Alter, Send
<1>2. TypeOK
  BY DEF IInv
<1>3. spent' \in [owners : 1..MaxOwners, changes : 0..MaxChanges, errors : 0..MaxErrors]
  BY <1>1, <1>2, SpentChange
<1> QED BY <1>1, <1>3, UpdateSent

LEMMA AddObjectsSent ==
  ASSUME ManagerAssumption, IInv, NEW D \in SUBSET Objects, NEW v \in Values,
         AddObjects(D, v)
  PROVE  IInv'
<1> DEFINE part == [o \in Objects |-> IF o \in D THEN v ELSE Absent]
           tree == [o \in Objects |-> IF o \in D THEN v ELSE bluez[o]]
           m == [type |-> "added", tree |-> part]
<1>1. bluez \in Tree /\ v # Absent
  BY DEF IInv, TypeOK, ManagerAssumption
<1>2. Alter(tree, m) /\ \A o \in D : bluez[o] = Absent
  BY DEF AddObjects, Present
<1>3. tree \in Tree /\ part \in Tree
  BY <1>1 DEF Tree
<1>4. /\ \A o \in Objects : part[o] = (IF o \in D THEN v ELSE Absent)
      /\ \A o \in Objects : tree[o] = (IF o \in D THEN v ELSE bluez[o])
  OBVIOUS
<1> HIDE DEF tree, part
<1>5. m \in Update /\ m.type = "added" /\ m.tree = part
  BY <1>3 DEF Update
<1> HIDE DEF m
<1>6. Tells(bluez, tree, m)
  BY <1>1, <1>2, <1>4, <1>5 DEF Tells, Adds, Removes, Renews
<1>7. Sound(tree, m, {})
  <2>1. ASSUME NEW o \in Objects, part[o] # Absent
        PROVE  Corrected(tree, o, part[o], {}, FALSE)
    BY <2>1, <1>1, <1>4 DEF Corrected
  <2> QED BY <2>1, <1>5 DEF Sound
<1> QED BY <1>2, <1>3, <1>5, <1>6, <1>7, AlterSent

LEMMA RemoveObjectsSent ==
  ASSUME ManagerAssumption, IInv, NEW D \in SUBSET Objects, RemoveObjects(D)
  PROVE  IInv'
<1> DEFINE tree == [o \in Objects |-> IF o \in D THEN Absent ELSE bluez[o]]
           m == [type |-> "removed", objects |-> D]
<1>1. bluez \in Tree
  BY DEF IInv, TypeOK
<1>2. Alter(tree, m)
  BY DEF RemoveObjects
<1>3. tree \in Tree
  BY <1>1 DEF Tree
<1>4. \A o \in Objects : tree[o] = (IF o \in D THEN Absent ELSE bluez[o])
  OBVIOUS
<1> HIDE DEF tree
<1>5. m \in Update /\ m.type = "removed" /\ m.objects = D
  BY DEF Update
<1> HIDE DEF m
<1>6. Tells(bluez, tree, m)
  BY <1>4, <1>5 DEF Tells, Adds, Removes, Renews
<1>7. Sound(tree, m, {})
  <2>1. ASSUME NEW o \in D
        PROVE  Corrected(tree, o, Absent, {}, FALSE)
    BY <2>1, <1>4 DEF Corrected
  <2> QED BY <2>1, <1>5 DEF Sound
<1> QED BY <1>2, <1>3, <1>5, <1>6, <1>7, AlterSent

LEMMA RemoveAdapterSent ==
  ASSUME ManagerAssumption, IInv, RemoveAdapter
  PROVE  IInv'
<1> DEFINE m == [type |-> "removed", objects |-> {Adapter}]
<1>1. bluez \in Tree /\ Alter(bluez, m)
  BY DEF IInv, TypeOK, RemoveAdapter
<1>2. m \in Update /\ m.type = "removed" /\ m.objects = {Adapter}
  BY DEF Update
<1> HIDE DEF m
<1>3. Tells(bluez, bluez, m)
  BY DEF Tells
<1>4. Sound(bluez, m, {})
  BY <1>2 DEF Sound, ManagerAssumption
<1> QED BY <1>1, <1>2, <1>3, <1>4, AlterSent

LEMMA ChangeObjectSent ==
  ASSUME ManagerAssumption, IInv, NEW o \in Objects, NEW v \in Values,
         NEW I \in SUBSET Properties, ChangeObject(o, v, I)
  PROVE  IInv'
<1> DEFINE C == {p \in Properties : v[p] # bluez[o][p]}
           tree == [bluez EXCEPT ![o] = v]
           w == [p \in C \ I |-> v[p]]
           m == [type |-> "changed", object |-> o, changed |-> w,
                 invalidated |-> I # {}]
<1>1. bluez \in Tree /\ v # Absent
  BY DEF IInv, TypeOK, ManagerAssumption
<1>2. Alter(tree, m) /\ I \subseteq C /\ o \in Present(bluez)
  BY DEF ChangeObject
<1>3. bluez[o] # Absent
  BY <1>2 DEF Present
<1>4. /\ tree \in Tree /\ tree[o] = v
      /\ \A k \in Objects \ {o} : tree[k] = bluez[k]
  BY <1>1 DEF Tree
<1>5. w \in [C \ I -> Data] /\ DOMAIN w = C \ I /\ \A p \in C \ I : w[p] = v[p]
  BY DEF Values
<1> HIDE DEF tree, w
<1>6. /\ m.type = "changed" /\ m.object = o /\ m.changed = w
      /\ m.invalidated = (I # {})
  OBVIOUS
<1>7. m \in Update
  <2>1. w \in UNION {[K -> Data] : K \in SUBSET Properties}
    BY <1>5
  <2>2. (I # {}) \in BOOLEAN
    OBVIOUS
  <2> QED BY <2>1, <2>2 DEF Update
<1> HIDE DEF m
<1>8. Tells(bluez, tree, m)
  <2>1. ASSUME NEW p \in Properties, bluez[o][p] # v[p]
        PROVE  Renews(m, o, p)
    <3>1. p \in C
      BY <2>1
    <3>2. CASE p \in I
      BY <3>2, <1>6 DEF Renews
    <3>3. CASE p \notin I
      BY <3>1, <3>3, <1>5, <1>6 DEF Renews
    <3> QED BY <3>2, <3>3
  <2> QED BY <2>1, <1>1, <1>3, <1>4 DEF Tells
<1>9. Sound(tree, m, {})
  BY <1>2, <1>4, <1>5, <1>6 DEF Sound
<1> QED BY <1>2, <1>4, <1>7, <1>8, <1>9, AlterSent

LEMMA SameCorrected ==
  ASSUME NEW b, NEW o, NEW M, NEW late
  PROVE  Corrected(b, o, b[o], M, late)
BY DEF Corrected

LEMMA AnswerSent ==
  ASSUME ManagerAssumption, IInv, Answer
  PROVE  IInv'
<1> DEFINE c == Head(calls)
           value == IF bluez[c.object] = Absent THEN Error ELSE bluez[c.object]
           m == IF c.type = "snapshot"
                THEN [type |-> "snapshot", gen |-> c.gen, tree |-> bluez]
                ELSE [type |-> "getall", object |-> c.object, rev |-> c.rev,
                      value |-> value]
<1>1. TypeOK /\ bluez \in Tree /\ calls \in Seq(Call) /\ calls # <<>>
  BY DEF IInv, TypeOK, Answer
<1>2. c \in Call
  BY <1>1, TailIs
<1>3. /\ c.type \in {"snapshot", "getall"}
      /\ c.type = "snapshot" => c.gen \in Nat
      /\ c.type = "getall" => c.object \in Objects /\ c.rev \in Nat
  BY <1>2, CallIs
<1>4. /\ calls' = Tail(calls)
      /\ UNCHANGED <<owner, bluez, spent, started, manager, failed>>
  BY DEF Answer, bus
<1>5. inbox' = Append(inbox, m)
  BY DEF Answer, Send
<1>6. /\ spent' \in [owners : 1..MaxOwners, changes : 0..MaxChanges,
                     errors : 0..MaxErrors]
      /\ failed' \in BOOLEAN
  BY <1>1, <1>4 DEF TypeOK
<1> HIDE DEF c
<1>7. CASE c.type = "snapshot"
  <2>1. m = [type |-> "snapshot", gen |-> c.gen, tree |-> bluez]
    BY <1>7
  <2> HIDE DEF m
  <2>2. m \in Message /\ m.type = "snapshot" /\ m.gen = c.gen /\ m.tree = bluez
    BY <2>1, <1>1, <1>3, <1>7 DEF Message
  <2>3. Sound(bluez, m, {})
    BY <2>2, SameCorrected DEF Sound
  <2>4. m.tree # Error
    BY <2>2, <1>1 DEF ManagerAssumption
  <2> QED BY <2>2, <2>3, <2>4, <1>1, <1>4, <1>5, <1>6, <1>7, ReplySent DEF c
<1>8. CASE c.type = "getall"
  <2>0. c.object \in Objects
    BY <1>3, <1>8
  <2>1. m = [type |-> "getall", object |-> c.object, rev |-> c.rev, value |-> value]
    BY <1>8
  <2> HIDE DEF m
  <2>2. value \in Values \cup {Error}
    BY <2>0, <1>1, TreeIs
  <2>3. value = Error => bluez[c.object] = Absent
    <3>1. Error \notin Values
      BY DEF ManagerAssumption
    <3> QED BY <3>1, <2>0, <1>1, TreeIs
  <2>4. value # Error => value = bluez[c.object]
    OBVIOUS
  <2> HIDE DEF value
  <2>5. m \in Message /\ m.type = "getall" /\ m.object = c.object /\ m.value = value
    BY <2>1, <2>2, <1>1, <1>3, <1>8 DEF Message
  <2>6. Sound(bluez, m, {})
    BY <2>4, <2>5, SameCorrected DEF Sound
  <2>7. ~Current(m, generation)
    BY <2>5 DEF Current
  <2> QED BY <2>3, <2>5, <2>6, <2>7, <1>1, <1>4, <1>5, <1>6, <1>8, ReplySent DEF c
<1> QED BY <1>3, <1>7, <1>8

LEMMA RefusalIs ==
  ASSUME ManagerAssumption, NEW c \in Call
  PROVE  /\ Refusal(c) \in Message /\ Refusal(c).type = c.type
         /\ c.type = "snapshot" =>
              Refusal(c).gen = c.gen /\ Refusal(c).tree = Error
         /\ c.type = "getall" =>
              Refusal(c).object = c.object /\ Refusal(c).value = Error
         /\ Sound(bluez, Refusal(c), {})
<1>1. /\ c.type \in {"snapshot", "getall"}
      /\ c.type = "snapshot" => c.gen \in Nat
      /\ c.type = "getall" => c.object \in Objects /\ c.rev \in Nat
  BY CallIs
<1>2. CASE c.type = "snapshot"
  <2>1. Refusal(c) = [type |-> "snapshot", gen |-> c.gen, tree |-> Error]
    BY <1>2 DEF Refusal
  <2>2. Sound(bluez, Refusal(c), {})
    BY <2>1 DEF Sound
  <2>3. Refusal(c) \in Message
    BY <2>1, <1>1, <1>2 DEF Message
  <2> QED BY <2>1, <2>2, <2>3, <1>2
<1>3. CASE c.type = "getall"
  <2>1. Refusal(c) = [type |-> "getall", object |-> c.object, rev |-> c.rev,
                      value |-> Error]
    BY <1>3 DEF Refusal
  <2>2. Sound(bluez, Refusal(c), {})
    BY <2>1 DEF Sound
  <2>3. Refusal(c) \in Message
    BY <2>1, <1>1, <1>3 DEF Message
  <2> QED BY <2>1, <2>2, <2>3, <1>3
<1> QED BY <1>1, <1>2, <1>3

LEMMA NoReplySent ==
  ASSUME ManagerAssumption, IInv, NoReply
  PROVE  IInv'
<1> DEFINE c == Head(calls)
           m == Refusal(c)
<1>1. /\ TypeOK /\ Owners /\ Awaited /\ Snapshots
      /\ calls \in Seq(Call) /\ calls # <<>>
  BY DEF IInv, TypeOK, NoReply
<1>2. c \in Call /\ Later(calls, 0) = Later(calls, 1) \cup {c}
  BY <1>1, TailIs
<1>3. /\ calls' = Tail(calls) /\ inbox' = Append(inbox, m)
      /\ UNCHANGED <<owner, bluez, spent, started, manager, failed>>
      /\ owner = 0 \/ c.to # owner
  BY DEF NoReply, Send, bus
<1>4. /\ spent' \in [owners : 1..MaxOwners, changes : 0..MaxChanges,
                     errors : 0..MaxErrors]
      /\ failed' \in BOOLEAN
  BY <1>1, <1>3 DEF TypeOK
<1>5. /\ m \in Message /\ m.type = c.type
      /\ m.type = "snapshot" => m.gen = c.gen
      /\ m.type = "getall" => m.object = c.object
      /\ Sound(bluez, m, {})
  BY <1>2, RefusalIs
<1> HIDE DEF m, c
<1>6. ASSUME SameOwner(inbox, 1), c.type = "getall" \/ Current(c, generation)
      PROVE  owner = 0
  <2>1. c \in Later(calls, 0)
    BY <1>2
  <2>2. c.to = owner
    BY <2>1, <1>1, <1>6 DEF Owners
  <2> QED BY <2>2, <1>3
<1>7. ASSUME m.type = "getall", SameOwner(inbox, 1)
      PROVE  bluez[m.object] = Absent
  <2>1. bluez = Nothing
    BY <1>1, <1>5, <1>6, <1>7 DEF Owners
  <2>2. m.object \in Objects
    BY <1>5, <1>7, MessageIs
  <2> QED BY <2>1, <2>2 DEF Nothing
<1>8. ASSUME Current(m, generation), SameOwner(inbox, 1)
      PROVE  FALSE
  <2>1. Current(c, generation)
    BY <1>5, <1>8 DEF Current
  <2>2. c \in Underway
    BY <1>2 DEF Underway
  <2>3. resync
    BY <2>1, <2>2, <1>1 DEF Snapshots, Current
  <2>4. owner # 0
    BY <2>3, <1>1, <1>8 DEF Awaited
  <2> QED BY <2>1, <2>4, <1>6, <1>8
<1>9. failed => failed'
  BY <1>3
<1> QED BY <1>1, <1>3, <1>4, <1>5, <1>7, <1>8, <1>9, ReplySent DEF c

LEMMA RefuseSent ==
  ASSUME ManagerAssumption, IInv, Refuse
  PROVE  IInv'
<1> DEFINE c == Head(calls)
           m == Refusal(c)
<1>1. TypeOK /\ calls \in Seq(Call) /\ calls # <<>>
  BY DEF IInv, TypeOK, Refuse
<1>2. c \in Call
  BY <1>1, TailIs
<1>3. /\ calls' = Tail(calls) /\ inbox' = Append(inbox, m)
      /\ UNCHANGED <<owner, bluez, started, manager>> /\ failed'
      /\ spent.errors < MaxErrors /\ spent' = [spent EXCEPT !.errors = @ + 1]
      /\ failed' = TRUE
  BY DEF Refuse, Send
<1>4. spent' \in [owners : 1..MaxOwners, changes : 0..MaxChanges, errors : 0..MaxErrors]
  <2>1. /\ spent \in [owners : 1..MaxOwners, changes : 0..MaxChanges, errors : 0..MaxErrors]
        /\ MaxErrors \in Nat
    BY <1>1 DEF TypeOK, ManagerAssumption
  <2>2. spent.errors \in 0..MaxErrors /\ spent.errors + 1 \in 0..MaxErrors
    BY <2>1, <1>3
  <2> QED BY <2>1, <2>2, <1>3
<1>5. /\ m \in Message /\ m.type = c.type
      /\ m.type = "snapshot" => m.gen = c.gen
      /\ m.type = "getall" => m.object = c.object
      /\ Sound(bluez, m, {})
  BY <1>2, RefusalIs
<1> HIDE DEF m
<1>6. failed' \in BOOLEAN
  BY <1>3
<1> QED BY <1>1, <1>3, <1>4, <1>5, <1>6, ReplySent

----------------------------------------------------------------------------
(* A message handled                                                       *)

\* r is what is left of q when its head is handled and P cancelled; e[i] is
\* where r[i] was.
Passed(r, q, P, e) ==
    /\ e \in [1..Len(r) -> 2..Len(q)]
    /\ \A i, k \in 1..Len(r) : i < k => e[i] < e[k]
    /\ \A i \in 1..Len(r) : r[i] = q[e[i]]
    /\ \A k \in 2..Len(q) : Cancels(q[k], P) \/ \E i \in 1..Len(r) : e[i] = k

LEMMA PassedIs ==
  ASSUME NEW S, NEW q \in Seq(S), q # <<>>, NEW P
  PROVE  LET r == Uncancelled(Tail(q), P) IN
         /\ r \in Seq(S)
         /\ Later(r, 0) = {m \in Later(q, 1) : ~Cancels(m, P)}
         /\ \E e : Passed(r, q, P, e)
<1> DEFINE t == Tail(q)
           r == Uncancelled(t, P)
<1>1. /\ t \in Seq(S) /\ Len(q) \in Nat /\ Len(q) >= 1 /\ Len(t) = Len(q) - 1
      /\ \A i \in 1..Len(q) - 1 : t[i] = q[i + 1]
      /\ Later(t, 0) = Later(q, 1)
  BY TailIs
<1> HIDE DEF t
<1>2. r \in Seq(S) /\ Later(r, 0) = {m \in Later(t, 0) : ~Cancels(m, P)}
  BY <1>1, UncancelledSet
<1>3. \E e : Thin(r, t, P, e)
  BY <1>1, UncancelledThin
<1> HIDE DEF r
<1>4. PICK e : Thin(r, t, P, e)
  BY <1>3
<1> DEFINE f == [i \in 1..Len(r) |-> e[i] + 1]
<1>5. Len(r) \in Nat
  BY <1>2, LenProperties
<1>6. \A i \in 1..Len(r) : e[i] \in 1..Len(q) - 1 /\ r[i] = t[e[i]]
  BY <1>1, <1>4 DEF Thin
<1>7. \A i \in 1..Len(r) : f[i] = e[i] + 1 /\ f[i] \in 2..Len(q) /\ r[i] = q[f[i]]
  BY <1>1, <1>6
<1>8. f \in [1..Len(r) -> 2..Len(q)]
  BY <1>7
<1> HIDE DEF f
<1>9. \A i, k \in 1..Len(r) : i < k => f[i] < f[k]
  <2> SUFFICES ASSUME NEW i \in 1..Len(r), NEW k \in 1..Len(r), i < k
               PROVE  f[i] < f[k]
    OBVIOUS
  <2>1. e[i] < e[k]
    BY <1>4 DEF Thin
  <2>2. e[i] \in Nat /\ e[k] \in Nat /\ f[i] = e[i] + 1 /\ f[k] = e[k] + 1
    BY <1>1, <1>6, <1>7
  <2> QED BY <2>1, <2>2
<1>10. ASSUME NEW k \in 2..Len(q)
       PROVE  Cancels(q[k], P) \/ \E i \in 1..Len(r) : f[i] = k
  <2>1. k - 1 \in 1..Len(t) /\ t[k - 1] = q[k]
    BY <1>1
  <2>2. Cancels(t[k - 1], P) \/ \E i \in 1..Len(r) : e[i] = k - 1
    BY <2>1, <1>4 DEF Thin
  <2>3. ASSUME NEW i \in 1..Len(r), e[i] = k - 1 PROVE f[i] = k
    BY <2>3, <1>1, <1>7
  <2> QED BY <2>1, <2>2, <2>3
<1>11. Passed(r, q, P, f)
  BY <1>7, <1>8, <1>9, <1>10 DEF Passed
<1> QED BY <1>1, <1>2, <1>11 DEF r, t

LEMMA PassedFacts ==
  ASSUME NEW S, NEW q \in Seq(S), NEW r \in Seq(S), NEW P, NEW e, Passed(r, q, P, e)
  PROVE  /\ DOMAIN r = 1..Len(r) /\ DOMAIN q = 1..Len(q)
         /\ Len(r) \in Nat /\ Len(q) \in Nat
         /\ \A i \in 1..Len(r) : r[i] = q[e[i]] /\ e[i] \in 2..Len(q)
         /\ \A i, k \in 1..Len(r) : e[i] = e[k] => i = k
         /\ \A i \in 1..Len(r), k \in 2..Len(q) : e[i] < k /\ ~Cancels(q[k], P) =>
              \E j \in (i + 1)..Len(r) : e[j] = k
         /\ \A i \in 1..Len(r), k \in 2..Len(q) : k < e[i] /\ ~Cancels(q[k], P) =>
              \E j \in 1..(i - 1) : e[j] = k
         /\ \A i, j \in 1..Len(r) : e[i] < e[j] => i < j
<1>1. /\ Len(r) \in Nat /\ Len(q) \in Nat
      /\ DOMAIN r = 1..Len(r) /\ DOMAIN q = 1..Len(q)
  BY LenProperties
<1>2. \A i \in 1..Len(r) : r[i] = q[e[i]] /\ e[i] \in 2..Len(q)
  BY DEF Passed
<1>3. \A i, k \in 1..Len(r) : e[i] < e[k] => i < k
  <2> SUFFICES ASSUME NEW i \in 1..Len(r), NEW k \in 1..Len(r), e[i] < e[k], k <= i
               PROVE FALSE
    BY <1>1
  <2>1. e[i] \in Nat /\ e[k] \in Nat
    BY <1>1, <1>2
  <2>2. k = i \/ k < i
    BY <1>1
  <2>3. k < i => e[k] < e[i]
    BY DEF Passed
  <2> QED BY <2>1, <2>2, <2>3
<1>4. \A i, k \in 1..Len(r) : e[i] = e[k] => i = k
  <2> SUFFICES ASSUME NEW i \in 1..Len(r), NEW k \in 1..Len(r), e[i] = e[k], i # k
               PROVE FALSE
    OBVIOUS
  <2>1. e[i] \in Nat /\ e[k] \in Nat
    BY <1>1, <1>2
  <2>2. k < i \/ i < k
    BY <1>1
  <2>3. (k < i => e[k] < e[i]) /\ (i < k => e[i] < e[k])
    BY DEF Passed
  <2> QED BY <2>1, <2>2, <2>3
<1>5. ASSUME NEW i \in 1..Len(r), NEW k \in 2..Len(q), e[i] < k, ~Cancels(q[k], P)
      PROVE  \E j \in (i + 1)..Len(r) : e[j] = k
  <2>1. PICK j \in 1..Len(r) : e[j] = k
    BY <1>5 DEF Passed
  <2>2. i < j
    BY <2>1, <1>3, <1>5
  <2> QED BY <2>1, <2>2, <1>1
<1>6. ASSUME NEW i \in 1..Len(r), NEW k \in 2..Len(q), k < e[i], ~Cancels(q[k], P)
      PROVE  \E j \in 1..(i - 1) : e[j] = k
  <2>1. PICK j \in 1..Len(r) : e[j] = k
    BY <1>6 DEF Passed
  <2>2. j < i
    BY <2>1, <1>3, <1>6
  <2> QED BY <2>1, <2>2, <1>1
<1> QED BY <1>1, <1>2, <1>3, <1>4, <1>5, <1>6

LEMMA PassedOwners ==
  ASSUME NEW S, NEW q \in Seq(S), NEW r \in Seq(S), NEW P, NEW e, Passed(r, q, P, e)
  PROVE  /\ SameOwner(r, 1) => SameOwner(q, 2)
         /\ \A i \in 1..Len(r) : SameOwner(r, i) => SameOwner(q, e[i])
         /\ \A i \in 1..Len(r) : SameOwner(r, i + 1) => SameOwner(q, e[i] + 1)
         /\ \A i \in 1..Len(r) : \A m \in Later(q, e[i]) :
              m.type \in Updates => m \in Later(r, i)
<1>1. /\ Len(r) \in Nat /\ Len(q) \in Nat
      /\ DOMAIN r = 1..Len(r) /\ DOMAIN q = 1..Len(q)
      /\ \A i \in 1..Len(r) : r[i] = q[e[i]] /\ e[i] \in 2..Len(q)
  BY PassedFacts
<1>2. \A m : m.type = "owner" \/ m.type \in Updates => ~Cancels(m, P)
  BY DEF Cancels, Updates
<1>3. ASSUME SameOwner(r, 1) PROVE SameOwner(q, 2)
  <2> SUFFICES ASSUME NEW k \in 1..Len(q), k >= 2, q[k].type = "owner" PROVE FALSE
    BY <1>1 DEF SameOwner
  <2>1. PICK i \in 1..Len(r) : e[i] = k
    BY <1>1, <1>2 DEF Passed
  <2> QED BY <2>1, <1>1, <1>3 DEF SameOwner
<1>4. ASSUME NEW i \in 1..Len(r), SameOwner(r, i) PROVE SameOwner(q, e[i])
  <2> SUFFICES ASSUME NEW k \in 1..Len(q), k >= e[i], q[k].type = "owner" PROVE FALSE
    BY <1>1 DEF SameOwner
  <2>1. k \in 2..Len(q) /\ ~Cancels(q[k], P)
    BY <1>1, <1>2
  <2>2. \E j \in i..Len(r) : e[j] = k
    <3>1. CASE k = e[i]
      BY <3>1, <1>1
    <3>2. CASE e[i] < k
      <4>1. \E j \in (i + 1)..Len(r) : e[j] = k
        BY <2>1, <3>2, PassedFacts
      <4> QED BY <4>1, <1>1
    <3> QED BY <3>1, <3>2, <1>1
  <2>3. PICK j \in i..Len(r) : e[j] = k
    BY <2>2
  <2>4. j \in 1..Len(r) /\ j >= i
    BY <2>3, <1>1
  <2> QED BY <2>3, <2>4, <1>1, <1>4 DEF SameOwner
<1>5. ASSUME NEW i \in 1..Len(r), SameOwner(r, i + 1) PROVE SameOwner(q, e[i] + 1)
  <2> SUFFICES ASSUME NEW k \in 1..Len(q), k >= e[i] + 1, q[k].type = "owner" PROVE FALSE
    BY <1>1 DEF SameOwner
  <2>1. k \in 2..Len(q) /\ ~Cancels(q[k], P) /\ e[i] < k
    BY <1>1, <1>2
  <2>3. PICK j \in (i + 1)..Len(r) : e[j] = k
    BY <2>1, PassedFacts, SMTT(30)
  <2>4. j \in 1..Len(r) /\ j >= i + 1
    BY <2>3, <1>1
  <2> QED BY <2>3, <2>4, <1>1, <1>5 DEF SameOwner
<1>6. ASSUME NEW i \in 1..Len(r), NEW m \in Later(q, e[i]), m.type \in Updates
      PROVE  m \in Later(r, i)
  <2>1. PICK k \in (e[i] + 1)..Len(q) : m = q[k]
    BY DEF Later
  <2>2. k \in 2..Len(q) /\ e[i] < k /\ ~Cancels(q[k], P)
    BY <2>1, <1>1, <1>2, <1>6
  <2>3. PICK j \in (i + 1)..Len(r) : e[j] = k
    BY <2>2, PassedFacts
  <2>4. j \in 1..Len(r)
    BY <2>3, <1>1
  <2> QED BY <2>1, <2>3, <2>4, <1>1 DEF Later
<1> QED BY <1>3, <1>4, <1>5, <1>6

\* What a handler leaves true of the messages still to come, whatever it does.
LEMMA RestOfInbox ==
  ASSUME ManagerAssumption, IInv, inbox # <<>>, NEW P,
         inbox' = Uncancelled(Tail(inbox), P), UNCHANGED <<owner, bluez>>
  PROVE  /\ inbox' \in Seq(Message)
         /\ \A i \in DOMAIN inbox' :
              SameOwner(inbox', i) => Sound(bluez', inbox'[i], Later(inbox', i))
         /\ \A i \in DOMAIN inbox' : inbox'[i].type = "owner" /\ SameOwner(inbox', i + 1) =>
              inbox'[i].owner = owner'
         /\ \A i, k \in DOMAIN inbox' :
              i < k /\ inbox'[i].type = "owner" /\ inbox'[i].owner = 0
                /\ inbox'[k].type \in Updates =>
                  \E j \in (i + 1)..(k - 1) : inbox'[j].type = "owner"
         /\ SameOwner(inbox', 1) => SameOwner(inbox, 2)
         /\ Later(inbox', 0) = {m \in Later(inbox, 1) : ~Cancels(m, P)}
         /\ \A i, k \in DOMAIN inbox' :
              Current(inbox'[i], generation) /\ Current(inbox'[k], generation) => i = k
<1> DEFINE r == inbox'
           q == inbox
<1>1. TypeOK /\ AllSound /\ Owners /\ Silent /\ Snapshots /\ q \in Seq(Message)
  BY TypesOfQueues DEF IInv
<1>2. /\ r \in Seq(Message)
      /\ Later(r, 0) = {m \in Later(q, 1) : ~Cancels(m, P)}
      /\ \E e : Passed(r, q, P, e)
  BY <1>1, PassedIs
<1>3. PICK e : Passed(r, q, P, e)
  BY <1>2
<1>4. /\ DOMAIN r = 1..Len(r) /\ DOMAIN q = 1..Len(q)
      /\ Len(r) \in Nat /\ Len(q) \in Nat
      /\ \A i \in 1..Len(r) : r[i] = q[e[i]] /\ e[i] \in 2..Len(q)
      /\ \A i, k \in 1..Len(r) : e[i] = e[k] => i = k
  BY <1>1, <1>2, <1>3, PassedFacts
<1>5. /\ SameOwner(r, 1) => SameOwner(q, 2)
      /\ \A i \in 1..Len(r) : SameOwner(r, i) => SameOwner(q, e[i])
      /\ \A i \in 1..Len(r) : SameOwner(r, i + 1) => SameOwner(q, e[i] + 1)
      /\ \A i \in 1..Len(r) : \A m \in Later(q, e[i]) :
           m.type \in Updates => m \in Later(r, i)
  BY <1>1, <1>2, <1>3, PassedOwners
<1>6. ASSUME NEW i \in DOMAIN r, SameOwner(r, i)
      PROVE  Sound(bluez', r[i], Later(r, i))
  <2>1. i \in 1..Len(r) /\ e[i] \in DOMAIN q
    BY <1>4
  <2>2. Sound(bluez, q[e[i]], Later(q, e[i]))
    BY <2>1, <1>1, <1>5, <1>6 DEF AllSound
  <2>3. Sound(bluez, q[e[i]], Later(r, i))
    BY <2>1, <2>2, <1>5, SoundMore
  <2> QED BY <2>1, <2>3, <1>4
<1>7. ASSUME NEW i \in DOMAIN r, r[i].type = "owner", SameOwner(r, i + 1)
      PROVE  r[i].owner = owner'
  <2>1. i \in 1..Len(r) /\ e[i] \in DOMAIN q /\ r[i] = q[e[i]]
    BY <1>4
  <2> QED BY <2>1, <1>1, <1>5, <1>7 DEF Owners
<1>8. ASSUME NEW i \in DOMAIN r, NEW k \in DOMAIN r, i < k, r[i].type = "owner",
             r[i].owner = 0, r[k].type \in Updates
      PROVE  \E j \in (i + 1)..(k - 1) : r[j].type = "owner"
  <2>1. /\ i \in 1..Len(r) /\ k \in 1..Len(r) /\ e[i] \in DOMAIN q /\ e[k] \in DOMAIN q
        /\ r[i] = q[e[i]] /\ r[k] = q[e[k]]
    BY <1>4
  <2>2. e[i] < e[k]
    BY <2>1, <1>3, <1>8 DEF Passed
  <2>3. PICK j \in (e[i] + 1)..(e[k] - 1) : q[j].type = "owner"
    BY <2>1, <2>2, <1>1, <1>8 DEF Silent
  <2>4. j \in 2..Len(q) /\ e[i] < j /\ j < e[k] /\ ~Cancels(q[j], P)
    BY <2>1, <2>3, <1>4 DEF Cancels
  <2>5. PICK l \in (i + 1)..Len(r) : e[l] = j
    BY <2>1, <2>4, <1>1, <1>2, <1>3, PassedFacts, SMTT(30)
  <2>6. l \in 1..Len(r)
    BY <2>1, <2>5, <1>4
  <2>7. l < k
    BY <2>1, <2>4, <2>5, <2>6, <1>1, <1>2, <1>3, PassedFacts
  <2>8. l \in (i + 1)..(k - 1)
    BY <2>1, <2>5, <2>6, <2>7
  <2>9. r[l].type = "owner"
    BY <2>3, <2>5, <2>6, <1>4
  <2> QED BY <2>8, <2>9
<1>9. ASSUME NEW i \in DOMAIN r, NEW k \in DOMAIN r,
             Current(r[i], generation), Current(r[k], generation)
      PROVE  i = k
  <2>1. /\ i \in 1..Len(r) /\ k \in 1..Len(r) /\ e[i] \in DOMAIN q /\ e[k] \in DOMAIN q
        /\ r[i] = q[e[i]] /\ r[k] = q[e[k]]
    BY <1>4
  <2>2. e[i] = e[k]
    BY <2>1, <1>1, <1>9 DEF Snapshots
  <2> QED BY <2>1, <2>2, <1>4
<1> QED BY <1>2, <1>5, <1>6, <1>7, <1>8, <1>9


LEMMA StateIs ==
  ASSUME ManagerAssumption, IInv
  PROVE  /\ Consistent(State) /\ owner \in 0..MaxOwners /\ bluez \in Tree
         /\ State.cache = cache /\ State.view = view /\ State.revision = revision
         /\ State.lastRev = lastRev /\ State.calls = calls
         /\ State.callbacks = <<>> /\ State.dropped = {}
<1>1. TypeOK /\ view = cache
  BY DEF IInv, Shown
<1>2. /\ cache \in Tree /\ view \in Tree /\ lastRev \in Nat
      /\ revision \in [Objects -> 0..lastRev] /\ calls \in Seq(Call)
      /\ \A o \in Objects : revision[o] = 0 <=> cache[o] = Absent
  BY <1>1 DEF TypeOK
<1>3. revision \in [Objects -> Nat] /\ \A o \in Objects : revision[o] <= lastRev
  <2>1. \A o \in Objects : revision[o] \in 0..lastRev
    BY <1>2
  <2> QED BY <2>1, <1>2
<1>4. <<>> \in Seq(Callback)
  BY EmptySeq
<1>5. State \in Manager
  BY <1>2, <1>3, <1>4 DEF State, Manager
<1> QED BY <1>1, <1>2, <1>3, <1>5 DEF Consistent, State, TypeOK

\* The types of what a handler leaves.
LEMMA CommitTypes ==
  ASSUME ManagerAssumption, IInv, inbox # <<>>, NEW s, Consistent(s), Commit(s)
  PROVE  /\ cache' \in Tree /\ view' \in Tree /\ view' = cache'
         /\ lastRev' \in Nat /\ revision' \in [Objects -> 0..lastRev']
         /\ \A o \in Objects : revision'[o] = 0 <=> cache'[o] = Absent
         /\ calls' \in Seq(Call) /\ callbacks' \in Seq(Callback)
         /\ inbox' \in Seq(Message)
<1>1. s \in Manager
  BY DEF Consistent
<1>2. /\ cache' = s.cache /\ view' = s.view /\ revision' = s.revision
      /\ lastRev' = s.lastRev /\ calls' = s.calls /\ callbacks' = s.callbacks
      /\ inbox' = Uncancelled(Tail(inbox), s.dropped)
  BY DEF Commit
<1>3. inbox \in Seq(Message)
  BY TypesOfQueues DEF IInv
<1>4. inbox' \in Seq(Message)
  BY <1>2, <1>3, PassedIs
<1>5. revision' \in [Objects -> 0..lastRev']
  <2>1. s.revision \in [Objects -> Nat] /\ s.lastRev \in Nat
    BY <1>1 DEF Manager
  <2>2. \A o \in Objects : s.revision[o] \in 0..s.lastRev
    BY <2>1 DEF Consistent
  <2> QED BY <2>1, <2>2, <1>2
<1>6. /\ cache' \in Tree /\ view' \in Tree /\ lastRev' \in Nat
      /\ calls' \in Seq(Call) /\ callbacks' \in Seq(Callback)
  BY <1>1, <1>2 DEF Manager
<1>7. view' = cache' /\ \A o \in Objects : revision'[o] = 0 <=> cache'[o] = Absent
  BY <1>2 DEF Consistent
<1> QED BY <1>4, <1>5, <1>6, <1>7

\* Every handler but that of an owner change.
LEMMA HandledCommon ==
  ASSUME ManagerAssumption, IInv, inbox # <<>>, started, Head(inbox).type # "owner",
         NEW P, inbox' = Uncancelled(Tail(inbox), P), calls' \in Seq(Call),
         UNCHANGED <<owner, bluez, started, generation, failed>>,
         \A m \in Later(calls', 0) :
           m \in Later(calls, 0) \/ (m.type = "getall" /\ m.to = owner),
         \/ calls' = calls
         \/ \A m \in Later(calls', 0) : ~Current(m, generation),
         resync' =>
           resync /\ calls' = calls /\ ~Current(Head(inbox), generation),
         resync' \/ \A m \in Underway' : ~Current(m, generation),
         ~available' /\ ~resync' /\ ~failed => ~available /\ ~resync
  PROVE  /\ Snapshots' /\ Awaited' /\ Owners' /\ NotStarted' /\ Silent'
         /\ \A i \in DOMAIN inbox' :
              SameOwner(inbox', i) => Sound(bluez', inbox'[i], Later(inbox', i))
         /\ SameOwner(inbox', 1) /\ ~failed' =>
              \A i \in DOMAIN inbox' :
                inbox'[i].type = "getall" /\ inbox'[i].value = Error =>
                  Corrected(bluez', inbox'[i].object, Absent, Later(inbox', i), FALSE)
         /\ SameOwner(inbox', 1) => SameOwner(inbox, 1)
         /\ Later(inbox', 0) = {m \in Later(inbox, 1) : ~Cancels(m, P)}
<1>1. /\ TypeOK /\ AllSound /\ Owners /\ Silent /\ Snapshots /\ Awaited
      /\ inbox \in Seq(Message)
  BY TypesOfQueues DEF IInv
<1>2. /\ inbox' \in Seq(Message)
      /\ \A i \in DOMAIN inbox' :
              SameOwner(inbox', i) => Sound(bluez', inbox'[i], Later(inbox', i))
      /\ \A i \in DOMAIN inbox' : inbox'[i].type = "owner" /\ SameOwner(inbox', i + 1) =>
           inbox'[i].owner = owner'
      /\ \A i, k \in DOMAIN inbox' :
           i < k /\ inbox'[i].type = "owner" /\ inbox'[i].owner = 0
             /\ inbox'[k].type \in Updates =>
               \E j \in (i + 1)..(k - 1) : inbox'[j].type = "owner"
      /\ SameOwner(inbox', 1) => SameOwner(inbox, 2)
      /\ Later(inbox', 0) = {m \in Later(inbox, 1) : ~Cancels(m, P)}
      /\ \A i, k \in DOMAIN inbox' :
           Current(inbox'[i], generation) /\ Current(inbox'[k], generation) => i = k
  BY RestOfInbox
<1>3. /\ Head(inbox) = inbox[1] /\ Later(inbox, 0) = Later(inbox, 1) \cup {Head(inbox)}
      /\ DOMAIN inbox = 1..Len(inbox) /\ Len(inbox) \in Nat /\ 1 \in DOMAIN inbox
  BY <1>1, TailIs
<1>4. SameOwner(inbox', 1) => SameOwner(inbox, 1)
  <2>1. \A j \in DOMAIN inbox : j >= 1 => j = 1 \/ j >= 2
    BY <1>3
  <2> QED BY <2>1, <1>2, <1>3 DEF SameOwner
<1>5. PICK e : Passed(inbox', inbox, P, e)
  BY <1>1, PassedIs
<1>6. /\ DOMAIN inbox' = 1..Len(inbox') /\ Len(inbox') \in Nat
      /\ \A i \in 1..Len(inbox') : inbox'[i] = inbox[e[i]] /\ e[i] \in 2..Len(inbox)
      /\ \A i \in 1..Len(inbox'), k \in 2..Len(inbox) :
           k < e[i] /\ ~Cancels(inbox[k], P) => \E j \in 1..(i - 1) : e[j] = k
  BY <1>1, <1>2, <1>5, PassedFacts
<1>7. \A i \in 1..Len(inbox') : \A m \in Later(inbox, e[i]) :
           m.type \in Updates => m \in Later(inbox', i)
  BY <1>1, <1>2, <1>5, PassedOwners
<1>8. ASSUME NEW i \in 1..Len(inbox'), NEW j \in 1..(e[i] - 1), inbox[j].type = "owner"
      PROVE  \E k \in 1..(i - 1) : inbox'[k].type = "owner"
  <2>1. j # 1
    BY <1>3, <1>8
  <2>2. j \in 2..Len(inbox) /\ j < e[i] /\ ~Cancels(inbox[j], P)
    BY <2>1, <1>6, <1>8 DEF Cancels
  <2>3. PICK k \in 1..(i - 1) : e[k] = j
    BY <2>2, <1>6
  <2>4. k \in 1..Len(inbox')
    BY <2>3, <1>6
  <2> QED BY <2>3, <2>4, <1>6, <1>8
<1>9. ASSUME SameOwner(inbox', 1), ~failed', NEW i \in DOMAIN inbox',
             inbox'[i].type = "getall", inbox'[i].value = Error
      PROVE  Corrected(bluez', inbox'[i].object, Absent, Later(inbox', i), FALSE)
  <2>1. i \in 1..Len(inbox') /\ e[i] \in DOMAIN inbox /\ inbox'[i] = inbox[e[i]]
    BY <1>3, <1>6
  <2>2. SameOwner(inbox, 1) /\ ~failed
    BY <1>4, <1>9
  <2>3. inbox[e[i]].type = "getall" /\ inbox[e[i]].value = Error
    BY <2>1, <1>9
  <2>4. Corrected(bluez, inbox[e[i]].object, Absent, Later(inbox, e[i]), FALSE)
    BY <2>1, <2>2, <2>3, <1>1 DEF AllSound
  <2>5. Corrected(bluez, inbox[e[i]].object, Absent, Later(inbox', i), FALSE)
    BY <2>1, <2>4, <1>7, CorrectedMore
  <2> QED BY <2>1, <2>5
<1>10. \A m \in Later(inbox', 0) : m \in Later(inbox, 0)
  BY <1>2, <1>3
<1>11. \A m : m.type = "getall" => ~Current(m, generation)
  BY DEF Current
<1>12. Snapshots'
  <2>1. ASSUME NEW m \in Underway', m.type = "snapshot"
        PROVE  m.gen <= generation' /\ (m.gen = generation' => resync')
    <3>1. m \in Underway
      BY <2>1, <1>10 DEF Underway
    <3>2. m.gen <= generation
      BY <3>1, <2>1, <1>1 DEF Snapshots
    <3>3. m.gen = generation => resync'
      BY <2>1 DEF Current
    <3> QED BY <3>2, <3>3
  <2>2. \A i, k \in DOMAIN calls' :
         Current(calls'[i], generation') /\ Current(calls'[k], generation') => i = k
    <3>1. CASE calls' = calls
      BY <3>1, <1>1 DEF Snapshots
    <3>2. CASE \A m \in Later(calls', 0) : ~Current(m, generation)
      <4>1. \A i \in DOMAIN calls' : calls'[i] \in Later(calls', 0)
        BY LaterAll
      <4> QED BY <3>2, <4>1
    <3> QED BY <3>1, <3>2
  <2>3. \A i, k \in DOMAIN inbox' :
         Current(inbox'[i], generation') /\ Current(inbox'[k], generation') => i = k
    BY <1>2
  <2>4. \A m \in Later(calls', 0), n \in Later(inbox', 0) :
         ~(Current(m, generation') /\ Current(n, generation'))
    BY <1>1, <1>10, <1>11 DEF Snapshots
  <2>5. ASSUME NEW i \in DOMAIN inbox', Current(inbox'[i], generation'),
               inbox'[i].tree = Error
        PROVE  failed' \/ \E j \in 1..(i - 1) : inbox'[j].type = "owner"
    <3>1. i \in 1..Len(inbox') /\ e[i] \in DOMAIN inbox /\ inbox'[i] = inbox[e[i]]
      BY <1>3, <1>6
    <3>2. failed \/ \E j \in 1..(e[i] - 1) : inbox[j].type = "owner"
      BY <3>1, <2>5, <1>1 DEF Snapshots
    <3> QED BY <3>1, <3>2, <1>8
  <2> QED BY <2>1, <2>2, <2>3, <2>4, <2>5 DEF Snapshots
<1>13. Awaited'
  <2> SUFFICES ASSUME resync', SameOwner(inbox', 1)
               PROVE  owner # 0 /\ \E m \in Underway' : Current(m, generation)
    BY DEF Awaited
  <2>1. owner # 0 /\ \E m \in Underway : Current(m, generation)
    BY <1>1, <1>4 DEF Awaited
  <2>2. PICK m \in Underway : Current(m, generation)
    BY <2>1
  <2>3. ~Cancels(m, P) /\ m # Head(inbox)
    BY <2>2 DEF Current, Cancels
  <2>4. m \in Underway'
    BY <2>2, <2>3, <1>2, <1>3 DEF Underway
  <2> QED BY <2>1, <2>2, <2>4
<1>14. Owners'
  <2>1. owner' = 0 => bluez' = Nothing'
    BY <1>1 DEF Owners, Nothing
  <2>2. SameOwner(inbox', 1) =>
         \A m \in Later(calls', 0) :
           m.type = "getall" \/ Current(m, generation') => m.to = owner'
    BY <1>1, <1>4 DEF Owners
  <2> QED BY <2>1, <2>2, <1>2 DEF Owners
<1>15. NotStarted'
  BY DEF NotStarted
<1>16. Silent'
  <2>1. ASSUME ~available', ~resync', ~failed', NEW k \in DOMAIN inbox',
               inbox'[k].type \in Updates
        PROVE  \E j \in 1..(k - 1) : inbox'[j].type = "owner"
    <3>1. k \in 1..Len(inbox') /\ e[k] \in DOMAIN inbox /\ inbox'[k] = inbox[e[k]]
      BY <1>3, <1>6
    <3>2. ~available /\ ~resync /\ ~failed
      BY <2>1
    <3>3. \E j \in 1..(e[k] - 1) : inbox[j].type = "owner"
      BY <3>1, <3>2, <2>1, <1>1 DEF Silent
    <3> QED BY <3>1, <3>3, <1>8
  <2>2. ~available' /\ ~resync' /\ ~failed' /\ SameOwner(inbox', 1) => owner' = 0
    BY <1>1, <1>4 DEF Silent
  <2> QED BY <2>1, <2>2, <1>2 DEF Silent
<1> QED BY <1>2, <1>4, <1>9, <1>12, <1>13, <1>14, <1>15, <1>16


\* What the handlers that commit s have in common.
LEMMA NextIs ==
  ASSUME IInv, NEW type, Next1(type)
  PROVE  /\ started /\ inbox # <<>> /\ Head(inbox).type = type
         /\ Head(inbox) \in Message /\ Head(inbox) = inbox[1]
         /\ inbox \in Seq(Message) /\ 1 \in DOMAIN inbox
         /\ Later(inbox, 0) = Later(inbox, 1) \cup {Head(inbox)}
<1>1. inbox \in Seq(Message) /\ inbox # <<>>
  BY TypesOfQueues DEF IInv, Next1
<1>2. /\ Head(inbox) \in Message /\ Head(inbox) = inbox[1]
      /\ Len(inbox) \in Nat /\ Len(inbox) >= 1 /\ DOMAIN inbox = 1..Len(inbox)
      /\ Later(inbox, 0) = Later(inbox, 1) \cup {Head(inbox)}
  BY <1>1, TailIs
<1> QED BY <1>1, <1>2 DEF Next1

\* An asked object that is still cached has its GetAll among what is left.
LEMMA AskedLeft ==
  ASSUME NEW q \in Seq(Message), NEW r \in Seq(Message), NEW P, NEW h,
         ManagerAssumption, Later(q, 0) = Later(q, 1) \cup {h},
         Later(r, 0) = {m \in Later(q, 1) : ~Cancels(m, P)},
         NEW o \in Objects, o \in Asked(q), PathOf[o] \notin P,
         h.type # "getall" \/ h.object # o
  PROVE  o \in Asked(r)
<1>1. PICK m \in Later(q, 0) : m.type = "getall" /\ m.object = o
  BY AskedIs
<1>2. m \in Later(q, 1) /\ ~Cancels(m, P)
  BY <1>1 DEF Cancels
<1> QED BY <1>1, <1>2, AskedIs

LEMMA NothingAsked ==
  ASSUME Anchored, cache = Nothing, TypeOK, ManagerAssumption
  PROVE  /\ \A m \in Underway : m.type # "getall"
         /\ Asked(calls) = {} /\ Asked(inbox) = {}
<1>1. \A m \in Underway : m.type # "getall"
  BY DEF Anchored, Nothing
<1>2. calls \in Seq(Call) /\ inbox \in Seq(Message)
  BY TypesOfQueues
<1> QED BY <1>1, <1>2, AskedIs DEF Underway

LEMMA UpdateHandled ==
  ASSUME ManagerAssumption, IInv, HandleUpdate
  PROVE  IInv'
<1> DEFINE m == Head(inbox)
           s == Apply(State, m)
           M == Later(inbox, 1)
<1>1. /\ Commit(s) /\ ~resync /\ m.type \in Updates
      /\ UNCHANGED <<owner, bluez, spent, started, generation, resync, deferred,
                     available, failed>>
  BY DEF HandleUpdate, Next1, bus
<1>2. /\ started /\ inbox # <<>> /\ m \in Message /\ m = inbox[1]
      /\ inbox \in Seq(Message) /\ 1 \in DOMAIN inbox
      /\ Later(inbox, 0) = M \cup {m}
  BY NextIs DEF HandleUpdate
<1>3. m \in Update /\ m.type \notin {"owner", "snapshot", "getall"}
  BY <1>1, <1>2, MessageIs DEF Updates
<1> HIDE DEF m, M
<1>4. /\ Consistent(State) /\ owner \in 0..MaxOwners /\ bluez \in Tree
      /\ State.cache = cache /\ State.calls = calls /\ State.dropped = {}
  BY StateIs
<1>5. Consistent(s) /\ \E P : UpdateStep(State, s, m, P)
  BY <1>3, <1>4, ApplyTypes
<1>6. PICK P : UpdateStep(State, s, m, P)
  BY <1>5
<1>7. /\ cache' \in Tree /\ view' \in Tree /\ view' = cache'
      /\ lastRev' \in Nat /\ revision' \in [Objects -> 0..lastRev']
      /\ \A o \in Objects : revision'[o] = 0 <=> cache'[o] = Absent
      /\ calls' \in Seq(Call) /\ callbacks' \in Seq(Callback)
      /\ inbox' \in Seq(Message)
  BY <1>1, <1>2, <1>5, CommitTypes
<1> HIDE DEF s
<1>8. /\ cache' = s.cache /\ calls' = s.calls
      /\ inbox' = Uncancelled(Tail(inbox), P)
  <2>1. s.dropped = P
    BY <1>4, <1>6 DEF UpdateStep
  <2> QED BY <2>1, <1>1 DEF Commit
<1>9. /\ TypeOK /\ AllSound /\ Tracked /\ Anchored /\ Snapshots /\ Resyncs /\ Silent
      /\ Shown /\ deferred = <<>>
  BY <1>1 DEF IInv, Resyncs
<1>10. /\ \A o \in Objects : PathOf[o] \in P => cache'[o] = Absent
       /\ \A o \in Objects : cache[o] # Absent =>
            \/ PathOf[o] \in P
            \/ \E k \in Objects : PathOf[k] = PathOf[o] /\ cache'[k] # Absent
       /\ \A c \in Later(calls', 0) :
            \/ c \in Later(calls, 0) /\ ~Cancels(c, P)
            \/ c.type = "getall" /\ c.to = owner /\ c.object \in Objects
               /\ cache'[c.object] # Absent
  BY <1>4, <1>6, <1>8 DEF UpdateStep
<1>11. \A k \in Underway : ~Current(k, generation)
  BY <1>1, <1>9 DEF Snapshots, Current
<1>12. \A k \in Later(calls', 0) : ~Current(k, generation)
  BY <1>10, <1>11 DEF Underway, Current
<1>13. /\ Snapshots' /\ Awaited' /\ Owners' /\ NotStarted' /\ Silent'
       /\ \A i \in DOMAIN inbox' :
            SameOwner(inbox', i) => Sound(bluez', inbox'[i], Later(inbox', i))
       /\ SameOwner(inbox', 1) /\ ~failed' =>
            \A i \in DOMAIN inbox' :
              inbox'[i].type = "getall" /\ inbox'[i].value = Error =>
                Corrected(bluez', inbox'[i].object, Absent, Later(inbox', i), FALSE)
       /\ SameOwner(inbox', 1) => SameOwner(inbox, 1)
       /\ Later(inbox', 0) = {k \in M : ~Cancels(k, P)}
  <2>1. \A k \in Later(calls', 0) :
          k \in Later(calls, 0) \/ (k.type = "getall" /\ k.to = owner)
    BY <1>10
  <2>2. \A k \in Underway' : ~Current(k, generation)
    <3>1. Later(inbox', 0) = {k \in M : ~Cancels(k, P)}
      BY <1>2, <1>8, PassedIs DEF M
    <3> QED BY <3>1, <1>2, <1>11, <1>12 DEF Underway
  <2>3. Head(inbox).type # "owner"
    BY <1>3 DEF m
  <2> QED BY <2>1, <2>2, <2>3, <1>1, <1>2, <1>7, <1>8, <1>12, HandledCommon DEF M
<1>14. TypeOK'
  BY <1>1, <1>7, <1>9 DEF TypeOK
<1>15. AllSound'
  <2>1. \A i \in DOMAIN deferred' : FALSE
    BY <1>1, <1>9
  <2> QED BY <2>1, <1>13 DEF AllSound
<1>16. Anchored'
  <2> SUFFICES ASSUME NEW c \in Underway', c.type = "getall"
               PROVE  \E k \in Objects : PathOf[k] = PathOf[c.object] /\ cache'[k] # Absent
    BY DEF Anchored
  <2>1. CASE c.object \in Objects /\ cache'[c.object] # Absent
    BY <2>1
  <2>2. CASE c \in Underway /\ ~Cancels(c, P)
    <3>1. PICK k \in Objects : PathOf[k] = PathOf[c.object] /\ cache[k] # Absent
      BY <2>2, <1>9 DEF Anchored
    <3>2. PathOf[k] \notin P
      BY <2>2, <3>1 DEF Cancels
    <3> QED BY <3>1, <3>2, <1>10
  <2> QED BY <2>1, <2>2, <1>2, <1>10, <1>13 DEF Underway
<1>17. Tracked'
  <2> SUFFICES ASSUME started, SameOwner(inbox', 1), ~failed, ~resync, NEW o \in Objects
               PROVE  Corrected(bluez, o, cache'[o], Later(inbox', 0),
                                o \in Asked(calls') \/ o \in Asked(inbox'))
    BY <1>1 DEF Tracked
  <2>1. SameOwner(inbox, 1)
    BY <1>13
  <2>2. Caught(State, Asked(inbox), M \cup {m})
    BY <2>1, <1>2, <1>4, <1>9 DEF Tracked, Caught
  <2>3. Sound(bluez, m, M)
    BY <2>1, <1>2, <1>9 DEF AllSound, M, m
  <2>4. Caught(s, Asked(inbox), M)
    BY <2>2, <2>3, <1>3, <1>4, ApplyCatches DEF s
  <2> DEFINE before == o \in Asked(s.calls) \/ o \in Asked(inbox)
             after == o \in Asked(calls') \/ o \in Asked(inbox')
  <2>5. Corrected(bluez, o, cache'[o], M, before)
    BY <2>4, <1>8 DEF Caught
  <2>6. \A k \in M : k.type \in Updates => k \in Later(inbox', 0)
    BY <1>13 DEF Cancels, Updates
  <2>7. cache'[o] # Absent /\ before => after
    <3> SUFFICES ASSUME cache'[o] # Absent, o \in Asked(inbox)
                 PROVE  o \in Asked(inbox')
      BY <1>8
    <3>1. PathOf[o] \notin P
      BY <1>10
    <3> QED BY <3>1, <1>2, <1>3, <1>7, <1>13, AskedLeft DEF M
  <2>8. before \in BOOLEAN /\ after \in BOOLEAN
    OBVIOUS
  <2>9. Corrected(bluez, o, cache'[o], Later(inbox', 0), after)
    <3> HIDE DEF before, after
    <3>1. CASE before => after
      BY <3>1, <2>5, <2>6, <2>8, CorrectedMore
    <3>2. CASE cache'[o] = Absent
      <4>1. Corrected(bluez, o, cache'[o], Later(inbox', 0), before)
        BY <2>5, <2>6, <2>8, CorrectedMore
      <4> QED BY <3>2, <4>1 DEF Corrected
    <3> QED BY <3>1, <3>2, <2>7
  <2> QED BY <2>9
<1>18. Resyncs'
  BY <1>1, <1>9 DEF Resyncs
<1>19. Shown'
  <2>1. available \/ failed
    <3> SUFFICES ASSUME ~available, ~failed PROVE FALSE
      OBVIOUS
    <3>1. \E j \in 1..(1 - 1) : inbox[j].type = "owner"
      BY <1>1, <1>2, <1>9 DEF Silent
    <3> QED BY <3>1
  <2> QED BY <2>1, <1>1, <1>7 DEF Shown
<1> QED BY <1>13, <1>14, <1>15, <1>16, <1>17, <1>18, <1>19 DEF IInv

\* A handler that leaves the manager's containers alone.
LEMMA IdleIs ==
  ASSUME ManagerAssumption, IInv, inbox # <<>>, Commit(State)
  PROVE  /\ cache' = cache /\ view' = view /\ revision' = revision
         /\ lastRev' = lastRev /\ calls' = calls
         /\ callbacks' \in Seq(Callback) /\ inbox' \in Seq(Message)
         /\ inbox' = Uncancelled(Tail(inbox), {})
         /\ Later(inbox', 0) = Later(inbox, 1)
         /\ Later(inbox, 0) = Later(inbox, 1) \cup {Head(inbox)}
         /\ Anchored'
<1>1. /\ Consistent(State) /\ State.cache = cache /\ State.view = view
      /\ State.revision = revision /\ State.lastRev = lastRev
      /\ State.calls = calls /\ State.callbacks = <<>> /\ State.dropped = {}
  BY StateIs
<1>2. /\ cache' = cache /\ view' = view /\ revision' = revision
      /\ lastRev' = lastRev /\ calls' = calls /\ callbacks' = <<>>
      /\ inbox' = Uncancelled(Tail(inbox), {})
  BY <1>1 DEF Commit
<1>3. callbacks' \in Seq(Callback) /\ inbox' \in Seq(Message)
  BY <1>1, CommitTypes
<1>4. inbox \in Seq(Message) /\ Anchored
  BY TypesOfQueues DEF IInv
<1>5. Later(inbox', 0) = {m \in Later(inbox, 1) : ~Cancels(m, {})}
  BY <1>2, <1>4, PassedIs
<1>6. Later(inbox', 0) = Later(inbox, 1)
  BY <1>5 DEF Cancels
<1>7. Later(inbox, 0) = Later(inbox, 1) \cup {Head(inbox)}
  BY <1>4, TailIs
<1>8. \A m \in Underway' : m \in Underway
  BY <1>2, <1>6, <1>7 DEF Underway
<1>9. Anchored'
  BY <1>2, <1>4, <1>8 DEF Anchored
<1> QED BY <1>2, <1>3, <1>6, <1>7, <1>9

LEMMA UpdateDeferred ==
  ASSUME ManagerAssumption, IInv, DeferUpdate
  PROVE  IInv'
<1> DEFINE m == Head(inbox)
           M == Later(inbox, 1)
<1>1. /\ Commit(State) /\ resync /\ m.type \in Updates
      /\ deferred' = Append(deferred, m)
      /\ UNCHANGED <<owner, bluez, spent, started, generation, resync,
                     available, failed>>
  BY DEF DeferUpdate, Next1, bus
<1>2. /\ started /\ inbox # <<>> /\ m \in Message /\ m = inbox[1]
      /\ inbox \in Seq(Message) /\ 1 \in DOMAIN inbox
      /\ Later(inbox, 0) = M \cup {m}
  BY NextIs DEF DeferUpdate
<1>3. m \in Update /\ m.type \notin {"owner", "snapshot", "getall"}
  BY <1>1, <1>2, MessageIs DEF Updates
<1> HIDE DEF m, M
<1>4. /\ cache' = cache /\ view' = view /\ revision' = revision
      /\ lastRev' = lastRev /\ calls' = calls
      /\ callbacks' \in Seq(Callback) /\ inbox' \in Seq(Message)
      /\ inbox' = Uncancelled(Tail(inbox), {})
      /\ Later(inbox', 0) = M
      /\ Anchored'
  BY <1>1, <1>2, IdleIs DEF M
<1>5. /\ TypeOK /\ AllSound /\ Resyncs /\ Shown /\ Snapshots
      /\ deferred \in Seq(Update) /\ calls \in Seq(Call)
  BY TypesOfQueues DEF IInv
<1>6. /\ Snapshots' /\ Awaited' /\ Owners' /\ NotStarted' /\ Silent'
      /\ \A i \in DOMAIN inbox' :
           SameOwner(inbox', i) => Sound(bluez', inbox'[i], Later(inbox', i))
      /\ SameOwner(inbox', 1) /\ ~failed' =>
           \A i \in DOMAIN inbox' :
             inbox'[i].type = "getall" /\ inbox'[i].value = Error =>
               Corrected(bluez', inbox'[i].object, Absent, Later(inbox', i), FALSE)
      /\ SameOwner(inbox', 1) => SameOwner(inbox, 1)
  <2>1. Head(inbox).type # "owner" /\ ~Current(Head(inbox), generation)
    BY <1>3 DEF m, Current
  <2>2. /\ \A k \in Later(calls', 0) : k \in Later(calls, 0)
        /\ resync' => resync /\ calls' = calls
        /\ resync' /\ calls' \in Seq(Call)
    BY <1>1, <1>4, <1>5
  <2> QED BY <2>1, <2>2, <1>1, <1>2, <1>4, HandledCommon
<1>7. deferred' \in Seq(Update)
  BY <1>1, <1>3, <1>5, AppendIs
<1>8. TypeOK'
  BY <1>1, <1>4, <1>5, <1>7 DEF TypeOK
<1>9. AllSound'
  <2>1. ASSUME SameOwner(inbox', 1), NEW i \in DOMAIN deferred'
        PROVE  Sound(bluez', deferred'[i], Later(deferred', i) \cup Later(inbox', 0))
    <3>1. /\ Len(deferred) \in Nat /\ DOMAIN deferred' = 1..Len(deferred) + 1
          /\ DOMAIN deferred = 1..Len(deferred)
          /\ \A k \in 1..Len(deferred) :
               deferred'[k] = deferred[k] /\ Later(deferred', k) = Later(deferred, k) \cup {m}
          /\ deferred'[Len(deferred) + 1] = m /\ Later(deferred', Len(deferred) + 1) = {}
      BY <1>1, <1>3, <1>5, AppendIs
    <3>2. SameOwner(inbox, 1)
      BY <2>1, <1>6
    <3>3. CASE i \in 1..Len(deferred)
      <4>1. Sound(bluez, deferred[i], Later(deferred, i) \cup Later(inbox, 0))
        BY <3>1, <3>2, <3>3, <1>5 DEF AllSound
      <4>2. Later(deferred, i) \cup Later(inbox, 0) = Later(deferred', i) \cup M
        BY <3>1, <3>3, <1>2
      <4> QED BY <4>1, <4>2, <3>1, <3>3, <1>1, <1>4
    <3>4. CASE i = Len(deferred) + 1
      <4>1. Sound(bluez, m, M)
        BY <3>2, <1>2, <1>5 DEF AllSound, M
      <4>2. Later(deferred', i) \cup Later(inbox', 0) = M
        BY <3>1, <3>4, <1>4
      <4> QED BY <4>1, <4>2, <3>1, <3>4, <1>1
    <3> QED BY <3>1, <3>3, <3>4
  <2> QED BY <2>1, <1>6 DEF AllSound
<1>10. Tracked' /\ Resyncs' /\ Shown'
  BY <1>1, <1>4, <1>5 DEF Tracked, Resyncs, Shown, Nothing
<1> QED BY <1>4, <1>6, <1>8, <1>9, <1>10 DEF IInv

LEMMA StaleSnapshotHandled ==
  ASSUME ManagerAssumption, IInv, HandleStaleSnapshot
  PROVE  IInv'
<1> DEFINE m == Head(inbox)
           M == Later(inbox, 1)
<1>1. /\ Commit(State) /\ m.type = "snapshot" /\ m.gen # generation
      /\ UNCHANGED <<owner, bluez, spent, started, generation, resync, deferred,
                     available, failed>>
  BY DEF HandleStaleSnapshot, Next1, bus
<1>2. /\ started /\ inbox # <<>> /\ m \in Message /\ m = inbox[1]
      /\ inbox \in Seq(Message) /\ 1 \in DOMAIN inbox
      /\ Later(inbox, 0) = M \cup {m}
  BY NextIs DEF HandleStaleSnapshot
<1> HIDE DEF m, M
<1>4. /\ cache' = cache /\ view' = view /\ revision' = revision
      /\ lastRev' = lastRev /\ calls' = calls
      /\ callbacks' \in Seq(Callback) /\ inbox' \in Seq(Message)
      /\ inbox' = Uncancelled(Tail(inbox), {})
      /\ Later(inbox', 0) = M
      /\ Anchored'
  BY <1>1, <1>2, IdleIs DEF M
<1>5. /\ TypeOK /\ AllSound /\ Resyncs /\ Shown /\ Snapshots /\ Tracked
      /\ calls \in Seq(Call)
  BY TypesOfQueues DEF IInv
<1>6. /\ Snapshots' /\ Awaited' /\ Owners' /\ NotStarted' /\ Silent'
      /\ \A i \in DOMAIN inbox' :
           SameOwner(inbox', i) => Sound(bluez', inbox'[i], Later(inbox', i))
      /\ SameOwner(inbox', 1) /\ ~failed' =>
           \A i \in DOMAIN inbox' :
             inbox'[i].type = "getall" /\ inbox'[i].value = Error =>
               Corrected(bluez', inbox'[i].object, Absent, Later(inbox', i), FALSE)
      /\ SameOwner(inbox', 1) => SameOwner(inbox, 1)
  <2>1. Head(inbox).type # "owner" /\ ~Current(Head(inbox), generation)
    BY <1>1 DEF m, Current
  <2>2. /\ \A k \in Later(calls', 0) : k \in Later(calls, 0)
        /\ calls' = calls /\ resync' = resync /\ calls' \in Seq(Call)
    BY <1>1, <1>4, <1>5
  <2>3. resync' \/ \A k \in Underway' : ~Current(k, generation)
    <3>1. \A k \in Underway' : k \in Underway
      BY <1>2, <1>4 DEF Underway
    <3> QED BY <3>1, <1>1, <1>5 DEF Snapshots, Current
  <2>4. /\ resync' => resync /\ calls' = calls /\ ~Current(Head(inbox), generation)
        /\ ~available' /\ ~resync' /\ ~failed => ~available /\ ~resync
        /\ UNCHANGED <<owner, bluez, started, generation, failed>>
    BY <2>1, <2>2, <1>1
  <2> QED BY <2>1, <2>2, <2>3, <2>4, <1>2, <1>4, HandledCommon
<1>8. TypeOK'
  BY <1>1, <1>4, <1>5 DEF TypeOK
<1>9. AllSound'
  <2>1. ASSUME SameOwner(inbox', 1), NEW i \in DOMAIN deferred'
        PROVE  Sound(bluez', deferred'[i], Later(deferred', i) \cup Later(inbox', 0))
    <3>1. Sound(bluez, deferred[i], Later(deferred, i) \cup Later(inbox, 0))
      BY <2>1, <1>1, <1>5, <1>6 DEF AllSound
    <3>2. \A n \in Later(deferred, i) \cup Later(inbox, 0) :
            n.type \in Updates => n \in Later(deferred, i) \cup M
      BY <1>1, <1>2 DEF Updates
    <3>3. Sound(bluez, deferred[i], Later(deferred, i) \cup M)
      BY <3>1, <3>2, SoundMore
    <3> QED BY <3>3, <1>1, <1>4
  <2> QED BY <2>1, <1>6 DEF AllSound
<1>10. Tracked'
  <2> SUFFICES ASSUME started, SameOwner(inbox', 1), ~failed, ~resync, NEW o \in Objects
               PROVE  Corrected(bluez, o, cache[o], M,
                                o \in Asked(calls) \/ o \in Asked(inbox'))
    BY <1>1, <1>4 DEF Tracked
  <2> DEFINE before == o \in Asked(calls) \/ o \in Asked(inbox)
             after == o \in Asked(calls) \/ o \in Asked(inbox')
  <2>1. Corrected(bluez, o, cache[o], Later(inbox, 0), before)
    BY <1>5, <1>6 DEF Tracked
  <2>2. before => after
    <3>1. ASSUME o \in Asked(inbox) PROVE o \in Asked(inbox')
      <4>1. PICK k \in Later(inbox, 0) : k.type = "getall" /\ k.object = o
        BY <3>1, <1>2, AskedIs
      <4>2. k \in Later(inbox', 0)
        BY <4>1, <1>1, <1>2, <1>4
      <4> QED BY <4>1, <4>2, <1>4, AskedIs
    <3> QED BY <3>1
  <2>3. before \in BOOLEAN /\ after \in BOOLEAN
    OBVIOUS
  <2>4. \A k \in Later(inbox, 0) : k.type \in Updates => k \in M
    BY <1>1, <1>2 DEF Updates
  <2> HIDE DEF before, after
  <2>5. Corrected(bluez, o, cache[o], M, after)
    BY <2>1, <2>2, <2>3, <2>4, CorrectedMore
  <2> QED BY <2>5 DEF after
<1>11. Resyncs' /\ Shown'
  BY <1>1, <1>4, <1>5 DEF Resyncs, Shown, Nothing
<1> QED BY <1>4, <1>6, <1>8, <1>9, <1>10, <1>11 DEF IInv

\* The reply to the current request is the only one under way.
LEMMA OnlyCurrent ==
  ASSUME ManagerAssumption, IInv, inbox # <<>>, Current(Head(inbox), generation)
  PROVE  /\ resync /\ (Head(inbox).tree = Error => failed)
         /\ \A k \in Later(calls, 0) \cup Later(inbox, 1) : ~Current(k, generation)
<1>1. Snapshots /\ inbox \in Seq(Message)
  BY TypesOfQueues DEF IInv
<1>2. /\ Head(inbox) = inbox[1] /\ Len(inbox) \in Nat /\ Len(inbox) >= 1
      /\ DOMAIN inbox = 1..Len(inbox)
      /\ Later(inbox, 0) = Later(inbox, 1) \cup {Head(inbox)}
  BY <1>1, TailIs
<1>3. 1 \in DOMAIN inbox /\ Head(inbox) \in Underway
  BY <1>2 DEF Underway
<1>4. resync
  BY <1>1, <1>3 DEF Snapshots, Current
<1>5. ASSUME Head(inbox).tree = Error PROVE failed
  <2>1. failed \/ \E j \in 1..(1 - 1) : inbox[j].type = "owner"
    BY <1>1, <1>2, <1>3, <1>5 DEF Snapshots
  <2> QED BY <2>1
<1>6. \A k \in Later(calls, 0) : ~Current(k, generation)
  BY <1>1, <1>2 DEF Snapshots
<1>7. ASSUME NEW k \in Later(inbox, 1) PROVE ~Current(k, generation)
  <2>1. PICK j \in (1 + 1)..Len(inbox) : k = inbox[j]
    BY DEF Later
  <2>2. j \in DOMAIN inbox /\ j # 1
    BY <2>1, <1>2
  <2> QED BY <2>1, <2>2, <1>1, <1>2, <1>3 DEF Snapshots
<1> QED BY <1>4, <1>5, <1>6, <1>7

LEMMA SnapshotErrorHandled ==
  ASSUME ManagerAssumption, IInv, HandleSnapshotError
  PROVE  IInv'
<1> DEFINE m == Head(inbox)
           M == Later(inbox, 1)
<1>1. /\ Commit(State) /\ m.type = "snapshot" /\ m.gen = generation
      /\ m.tree = Error /\ ~resync' /\ resync' \in BOOLEAN /\ deferred' = <<>>
      /\ UNCHANGED <<owner, bluez, spent, started, generation, available, failed>>
  BY DEF HandleSnapshotError, Next1, bus
<1>2. /\ started /\ inbox # <<>> /\ m \in Message /\ m = inbox[1]
      /\ inbox \in Seq(Message) /\ 1 \in DOMAIN inbox
      /\ Later(inbox, 0) = M \cup {m}
  BY NextIs DEF HandleSnapshotError
<1>3. /\ failed
      /\ \A k \in Later(calls, 0) \cup M : ~Current(k, generation)
  BY <1>1, <1>2, OnlyCurrent DEF Current
<1> HIDE DEF M
<1>4. /\ cache' = cache /\ view' = view /\ revision' = revision
      /\ lastRev' = lastRev /\ calls' = calls
      /\ callbacks' \in Seq(Callback) /\ inbox' \in Seq(Message)
      /\ inbox' = Uncancelled(Tail(inbox), {})
      /\ Later(inbox', 0) = M
      /\ Anchored'
  BY <1>1, <1>2, IdleIs DEF M
<1>5. TypeOK /\ Shown /\ calls \in Seq(Call)
  BY TypesOfQueues DEF IInv
<1>6. /\ Snapshots' /\ Awaited' /\ Owners' /\ NotStarted' /\ Silent'
      /\ \A i \in DOMAIN inbox' :
           SameOwner(inbox', i) => Sound(bluez', inbox'[i], Later(inbox', i))
  <2>1. Head(inbox).type # "owner"
    BY <1>1
  <2>2. /\ \A k \in Later(calls', 0) : k \in Later(calls, 0)
        /\ calls' = calls /\ calls' \in Seq(Call)
    BY <1>4, <1>5
  <2>3. \A k \in Underway' : ~Current(k, generation)
    BY <1>3, <1>4 DEF Underway
  <2>4. /\ ~resync'
        /\ ~available' /\ ~resync' /\ ~failed => ~available /\ ~resync
        /\ UNCHANGED <<owner, bluez, started, generation, failed>>
    BY <1>1, <1>3
  <2> HIDE DEF m
  <2> QED BY <2>1, <2>2, <2>3, <2>4, <1>2, <1>4, HandledCommon
<1>7. TypeOK'
  <2>1. deferred' \in Seq(Update)
    BY <1>1, EmptySeq
  <2> QED BY <2>1, <1>1, <1>4, <1>5 DEF TypeOK
<1>8. AllSound'
  <2>1. \A i \in DOMAIN deferred' : FALSE
    BY <1>1
  <2> QED BY <2>1, <1>1, <1>3, <1>6 DEF AllSound
<1>9. Tracked' /\ Resyncs' /\ Shown'
  BY <1>1, <1>3, <1>4, <1>5 DEF Tracked, Resyncs, Shown
<1> QED BY <1>4, <1>6, <1>7, <1>8, <1>9 DEF IInv

LEMMA SnapshotHandled ==
  ASSUME ManagerAssumption, IInv, HandleSnapshot
  PROVE  IInv'
<1> DEFINE m == Head(inbox)
           M == Later(inbox, 1)
           a == Added(State, m.tree)
           s == Replayed(a, deferred)
           P == s.dropped
<1>1. /\ Commit(s) /\ m.type = "snapshot" /\ m.gen = generation
      /\ m.tree # Error /\ ~resync' /\ resync' \in BOOLEAN /\ deferred' = <<>>
      /\ available' = TRUE
      /\ UNCHANGED <<owner, bluez, spent, started, generation, failed>>
  BY DEF HandleSnapshot, Next1, bus
<1>2. /\ started /\ inbox # <<>> /\ m \in Message /\ m = inbox[1]
      /\ inbox \in Seq(Message) /\ 1 \in DOMAIN inbox
      /\ Later(inbox, 0) = M \cup {m}
  BY NextIs DEF HandleSnapshot
<1>3. /\ resync
      /\ \A k \in Later(calls, 0) \cup M : ~Current(k, generation)
  BY <1>1, <1>2, OnlyCurrent DEF Current
<1>4. m.tree \in Tree
  BY <1>1, <1>2, MessageIs
<1>5. /\ TypeOK /\ AllSound /\ Anchored /\ cache = Nothing
      /\ deferred \in Seq(Update) /\ calls \in Seq(Call)
      /\ Len(deferred) \in Nat /\ DOMAIN deferred = 1..Len(deferred)
  BY <1>3, TypesOfQueues DEF IInv, Resyncs
<1>6. \A k \in Underway : k.type # "getall"
  BY <1>5, NothingAsked
<1>7. /\ Consistent(State) /\ owner \in 0..MaxOwners /\ bluez \in Tree
      /\ State.cache = cache /\ State.calls = calls
  BY StateIs
<1> HIDE DEF m, M
<1>8. /\ Consistent(a) /\ a.calls = calls
      /\ \A o \in Objects : a.cache[o] = m.tree[o]
  BY <1>4, <1>5, <1>7, AddedIs DEF Nothing
<1> HIDE DEF a
<1>9. /\ Replaying(a, s)
      /\ (/\ \A i \in 1..Len(deferred) : Sound(bluez, deferred[i], Later(deferred, i) \cup M)
          /\ Caught(a, {}, Later(deferred, 0) \cup M)) => Caught(s, {}, M)
  <2>1. \A c \in Later(a.calls, 0) : c.type # "getall"
    BY <1>6, <1>8 DEF Underway
  <2> QED BY <2>1, <1>5, <1>7, <1>8, ReplayedCatches
<1> HIDE DEF s
<1>10. /\ Consistent(s)
       /\ \A c \in Later(s.calls, 0) :
            \/ c \in Later(calls, 0) /\ c.type # "getall"
            \/ c.type = "getall" /\ c.to = owner /\ c.object \in Objects
               /\ \E k \in Objects : PathOf[k] = PathOf[c.object] /\ s.cache[k] # Absent
  BY <1>8, <1>9 DEF Replaying
<1>11. /\ cache' \in Tree /\ view' \in Tree /\ view' = cache'
       /\ lastRev' \in Nat /\ revision' \in [Objects -> 0..lastRev']
       /\ \A o \in Objects : revision'[o] = 0 <=> cache'[o] = Absent
       /\ calls' \in Seq(Call) /\ callbacks' \in Seq(Callback)
       /\ inbox' \in Seq(Message)
  BY <1>1, <1>2, <1>10, CommitTypes
<1>12. /\ cache' = s.cache /\ calls' = s.calls
       /\ inbox' = Uncancelled(Tail(inbox), P)
  BY <1>1 DEF Commit
<1> HIDE DEF P
<1>13. Later(inbox', 0) = M
  <2>1. Later(inbox', 0) = {k \in M : ~Cancels(k, P)}
    BY <1>2, <1>12, PassedIs DEF M
  <2>2. \A k \in M : ~Cancels(k, P)
    BY <1>2, <1>6 DEF Underway, Cancels
  <2> QED BY <2>1, <2>2
<1>14. \A k \in Underway' : ~Current(k, generation)
  BY <1>3, <1>10, <1>12, <1>13 DEF Underway, Current
<1>15. /\ Snapshots' /\ Awaited' /\ Owners' /\ NotStarted' /\ Silent'
       /\ \A i \in DOMAIN inbox' :
            SameOwner(inbox', i) => Sound(bluez', inbox'[i], Later(inbox', i))
       /\ SameOwner(inbox', 1) /\ ~failed' =>
            \A i \in DOMAIN inbox' :
              inbox'[i].type = "getall" /\ inbox'[i].value = Error =>
                Corrected(bluez', inbox'[i].object, Absent, Later(inbox', i), FALSE)
       /\ SameOwner(inbox', 1) => SameOwner(inbox, 1)
  <2>1. Head(inbox).type # "owner"
    BY <1>1 DEF m
  <2>2. \A k \in Later(calls', 0) :
          k \in Later(calls, 0) \/ (k.type = "getall" /\ k.to = owner)
    BY <1>10, <1>12
  <2>3. \A k \in Later(calls', 0) : ~Current(k, generation)
    BY <1>14 DEF Underway
  <2>4. /\ ~resync' /\ available'
        /\ UNCHANGED <<owner, bluez, started, generation, failed>>
    BY <1>1
  <2> QED BY <2>1, <2>2, <2>3, <2>4, <1>2, <1>11, <1>12, <1>14, HandledCommon
<1>16. TypeOK'
  <2>1. deferred' \in Seq(Update)
    BY <1>1, EmptySeq
  <2> QED BY <2>1, <1>1, <1>5, <1>11 DEF TypeOK
<1>17. AllSound'
  <2>1. \A i \in DOMAIN deferred' : FALSE
    BY <1>1
  <2> QED BY <2>1, <1>15 DEF AllSound
<1>18. Anchored'
  <2>1. \A k \in M : k.type # "getall"
    BY <1>2, <1>6 DEF Underway
  <2> QED BY <2>1, <1>10, <1>12, <1>13 DEF Anchored, Underway
<1>19. Tracked'
  <2> SUFFICES ASSUME SameOwner(inbox', 1), ~failed, NEW o \in Objects
               PROVE  Corrected(bluez, o, cache'[o], M,
                                o \in Asked(calls') \/ o \in Asked(inbox'))
    BY <1>1, <1>13 DEF Tracked
  <2>1. SameOwner(inbox, 1)
    BY <1>15
  <2>2. Caught(a, {}, Later(deferred, 0) \cup M)
    <3> SUFFICES ASSUME NEW k \in Objects
                 PROVE  Corrected(bluez, k, m.tree[k], Later(deferred, 0) \cup M,
                                  k \in Asked(calls) \/ k \in {})
      BY <1>8 DEF Caught
    <3>1. Sound(bluez, m, M)
      BY <2>1, <1>2, <1>5 DEF AllSound, M
    <3>2. Corrected(bluez, k, m.tree[k], M, FALSE)
      BY <3>1, <1>1 DEF Sound
    <3> DEFINE after == k \in Asked(calls) \/ k \in {}
    <3>3. after \in BOOLEAN
      OBVIOUS
    <3> HIDE DEF after
    <3>4. Corrected(bluez, k, m.tree[k], Later(deferred, 0) \cup M, after)
      BY <3>2, <3>3 DEF Corrected
    <3> QED BY <3>4 DEF after
  <2>3. ASSUME NEW i \in 1..Len(deferred)
        PROVE  Sound(bluez, deferred[i], Later(deferred, i) \cup M)
    <3>1. Sound(bluez, deferred[i], Later(deferred, i) \cup Later(inbox, 0))
      BY <2>1, <1>5 DEF AllSound
    <3>2. \A n \in Later(deferred, i) \cup Later(inbox, 0) :
            n.type \in Updates => n \in Later(deferred, i) \cup M
      BY <1>1, <1>2 DEF Updates
    <3> QED BY <3>1, <3>2, SoundMore
  <2>4. Caught(s, {}, M)
    BY <2>2, <2>3, <1>9
  <2> DEFINE before == o \in Asked(s.calls) \/ o \in {}
             after == o \in Asked(calls') \/ o \in Asked(inbox')
  <2>5. Corrected(bluez, o, cache'[o], M, before)
    BY <2>4, <1>12 DEF Caught
  <2>6. before \in BOOLEAN /\ after \in BOOLEAN /\ (before => after)
    BY <1>12
  <2> HIDE DEF before, after
  <2>7. Corrected(bluez, o, cache'[o], M, after)
    BY <2>5, <2>6, CorrectedMore
  <2> QED BY <2>7 DEF after
<1>20. Resyncs' /\ Shown'
  BY <1>1, <1>11 DEF Resyncs, Shown
<1> QED BY <1>15, <1>16, <1>17, <1>18, <1>19, <1>20 DEF IInv

\* What a GetAll reply does: the cache keeps its objects, and the one the reply
\* is about is right, put right later, or asked for again.
Reread(t, m, M) ==
    /\ Consistent(t) /\ t.dropped = {}
    /\ \A k \in Objects : k # m.object => t.cache[k] = cache[k]
    /\ \A k \in Objects : cache[k] = Absent <=> t.cache[k] = Absent
    /\ \A c \in Later(t.calls, 0) :
         \/ c \in Later(calls, 0)
         \/ c.type = "getall" /\ c.to = owner /\ c.object \in Objects
            /\ t.cache[c.object] # Absent
    /\ \A c \in Later(calls, 0) : c \in Later(t.calls, 0)
    /\ SameOwner(inbox, 1) /\ ~failed =>
         Corrected(bluez, m.object, t.cache[m.object], M, m.object \in Asked(t.calls))

LEMMA GetAllIs ==
  ASSUME ManagerAssumption, IInv, HandleGetAll
  PROVE  \E t : Commit(t) /\ Reread(t, Head(inbox), Later(inbox, 1))
<1> DEFINE m == Head(inbox)
           M == Later(inbox, 1)
           o == m.object
           current == revision[o]
           posted == Post([State EXCEPT !.cache[o] = m.value], {o})
           t == CASE m.value = Error \/ current = 0 -> State
                  [] m.value # Error /\ current \notin {0, m.rev} -> Refresh(State, o)
                  [] m.value # Error /\ current # 0 /\ current = m.rev -> posted
<1>1. Commit(t) /\ m.type = "getall"
  BY DEF HandleGetAll, Next1
<1>2. /\ started /\ inbox # <<>> /\ m \in Message /\ m = inbox[1]
      /\ inbox \in Seq(Message) /\ 1 \in DOMAIN inbox
      /\ Later(inbox, 0) = M \cup {m}
  BY NextIs DEF HandleGetAll
<1>3. o \in Objects /\ m.value \in Values \cup {Error}
  BY <1>1, <1>2, MessageIs
<1>4. /\ Consistent(State) /\ owner \in 0..MaxOwners /\ bluez \in Tree
      /\ State.cache = cache /\ State.calls = calls /\ State.dropped = {}
      /\ State.view = view /\ State.revision = revision /\ State.lastRev = lastRev
  BY StateIs
<1>5. /\ TypeOK /\ AllSound /\ Tracked /\ Anchored /\ Resyncs
      /\ calls \in Seq(Call)
      /\ \A k \in Objects : revision[k] = 0 <=> cache[k] = Absent
  BY TypesOfQueues DEF IInv, TypeOK
<1>6. ~resync
  <2>1. \E k \in Objects : PathOf[k] = PathOf[o] /\ cache[k] # Absent
    BY <1>1, <1>2, <1>5 DEF Anchored, Underway
  <2> QED BY <2>1, <1>5 DEF Resyncs, Nothing
<1> DEFINE Right == SameOwner(inbox, 1) /\ ~failed
<1>7. Right => Corrected(bluez, o, cache[o], M \cup {m},
                         o \in Asked(calls) \/ o \in Asked(inbox))
  BY <1>2, <1>3, <1>5, <1>6 DEF Tracked
<1>8. ~Adds(m, o) /\ ~Removes(m, o)
  BY <1>1 DEF Adds, Removes
<1>9. Right => /\ cache[o] = Absent /\ bluez[o] # Absent => \E n \in M : Adds(n, o)
               /\ cache[o] # Absent /\ bluez[o] = Absent => \E n \in M : Removes(n, o)
  BY <1>7, <1>8 DEF Corrected
<1>10. Right => Sound(bluez, m, M)
               /\ (m.value = Error => Corrected(bluez, o, Absent, M, FALSE))
  BY <1>1, <1>2, <1>5 DEF AllSound
<1> HIDE DEF m, M, o, Right
<1>11. CASE m.value = Error \/ current = 0
  <2>1. t = State
    BY <1>11
  <2>2. Right => Corrected(bluez, o, cache[o], M, o \in Asked(calls))
    <3> SUFFICES ASSUME Right
                 PROVE  Corrected(bluez, o, cache[o], M, o \in Asked(calls))
      OBVIOUS
    <3>1. CASE cache[o] = Absent
      BY <3>1, <1>9 DEF Corrected
    <3>2. CASE cache[o] # Absent
      <4>1. m.value = Error
        BY <3>2, <1>3, <1>5, <1>11
      <4>2. bluez[o] # Absent => \E n \in M : Adds(n, o)
        BY <4>1, <1>10 DEF Corrected
      <4>3. \A n \in M, p \in Properties : Adds(n, o) => Renews(n, o, p)
        BY DEF Renews
      <4> QED BY <3>2, <4>2, <4>3, <1>9 DEF Corrected
    <3> QED BY <3>1, <3>2
  <2>3. Reread(State, m, M)
    BY <2>2, <1>4 DEF Reread, Right, o
  <2> QED BY <2>1, <2>3, <1>1 DEF m, M
<1>12. CASE m.value # Error /\ current \notin {0, m.rev}
  <2>1. t = Refresh(State, o)
    BY <1>12
  <2> DEFINE c == [type |-> "getall", object |-> o, rev |-> State.revision[o],
                   to |-> owner]
  <2>2. /\ Consistent(t) /\ c \in Call /\ t.cache = cache /\ t.dropped = {}
        /\ t.calls = Append(calls, c)
    <3> HIDE DEF t
    <3> QED BY <2>1, <1>3, <1>4, RefreshIs
  <2> HIDE DEF t
  <2>3. /\ Later(t.calls, 0) = Later(calls, 0) \cup {c}
        /\ Asked(t.calls) = Asked(calls) \cup {o}
    <3>1. c.type = "getall" /\ c.object = o
      OBVIOUS
    <3> HIDE DEF c
    <3> QED BY <3>1, <2>2, <1>5, AppendIs, AskedAppend
  <2>4. cache[o] # Absent
    BY <1>3, <1>5, <1>12
  <2>5. c.type = "getall" /\ c.to = owner /\ c.object = o
    OBVIOUS
  <2> HIDE DEF c
  <2>6. Right => Corrected(bluez, o, cache[o], M, o \in Asked(t.calls))
    BY <2>3, <1>9 DEF Corrected
  <2>7. Reread(t, m, M)
    BY <2>2, <2>3, <2>4, <2>5, <2>6, <1>3 DEF Reread, Right, o
  <2> QED BY <2>7, <1>1 DEF m, M
<1>13. CASE m.value # Error /\ current # 0 /\ current = m.rev
  <2>1. t = posted
    BY <1>13
  <2> DEFINE s == [State EXCEPT !.cache[o] = m.value]
  <2>2. State \in Manager /\ State.view = State.cache
    BY <1>4 DEF Consistent
  <2>3. m.value \in Values /\ m.value # Absent /\ cache[o] # Absent
    BY <1>3, <1>5, <1>13 DEF ManagerAssumption
  <2>4. /\ s \in Manager /\ s.cache = [cache EXCEPT ![o] = m.value]
        /\ s.view = view /\ s.revision = revision /\ s.lastRev = lastRev
        /\ s.calls = calls /\ s.dropped = {}
    <3>1. [cache EXCEPT ![o] = m.value] \in Tree
      BY <2>2, <2>3, <1>4 DEF Manager, Tree
    <3>2. s = [State EXCEPT !.cache = [cache EXCEPT ![o] = m.value]]
      BY <1>4
    <3> QED BY <3>1, <3>2, <2>2, <1>4 DEF Manager
  <2>5. cache \in Tree /\ view = cache
    BY <2>2, <1>4 DEF Manager
  <2> HIDE DEF s
  <2>6. /\ t \in Manager
        /\ t.cache = s.cache /\ t.revision = revision /\ t.lastRev = lastRev
        /\ t.calls = calls /\ t.dropped = {}
        /\ t.view = [k \in Objects |-> IF k \in {o} THEN s.cache[k] ELSE s.view[k]]
    <3>1. t = Post(s, {o}) /\ {o} \in SUBSET Objects
      BY <2>1, <1>3 DEF s
    <3> HIDE DEF t
    <3> QED BY <3>1, <2>4, PostIs, ZenonT(60)
  <2> HIDE DEF t
  <2>7. \A k \in Objects : t.cache[k] = IF k = o THEN m.value ELSE cache[k]
    BY <2>4, <2>5, <2>6 DEF Tree
  <2>8. t.view = t.cache
    <3>1. t.cache = [k \in Objects |-> IF k \in {o} THEN m.value ELSE cache[k]]
      BY <2>4, <2>5, <2>6 DEF Tree
    <3> QED BY <3>1, <2>4, <2>5, <2>6, <2>7
  <2>9. Consistent(t)
    <3>1. \A k \in Objects : /\ revision[k] <= lastRev
                             /\ revision[k] = 0 <=> cache[k] = Absent
      BY <1>4 DEF Consistent
    <3> QED BY <3>1, <2>3, <2>6, <2>7, <2>8 DEF Consistent
  <2>10. Right => Corrected(bluez, o, t.cache[o], M, o \in Asked(t.calls))
    <3> SUFFICES ASSUME Right
                 PROVE  Corrected(bluez, o, m.value, M, o \in Asked(t.calls))
      BY <2>7, <1>3
    <3>1. Corrected(bluez, o, m.value, M, FALSE)
      BY <1>1, <1>10, <1>13 DEF Sound, o, m
    <3> QED BY <3>1 DEF Corrected
  <2>11. Reread(t, m, M)
    BY <2>3, <2>6, <2>7, <2>9, <2>10 DEF Reread, Right, o
  <2> QED BY <2>11, <1>1 DEF m, M
<1> QED BY <1>11, <1>12, <1>13

LEMMA GetAllHandled ==
  ASSUME ManagerAssumption, IInv, HandleGetAll
  PROVE  IInv'
<1> DEFINE m == Head(inbox)
           M == Later(inbox, 1)
<1>1. /\ m.type = "getall"
      /\ UNCHANGED <<owner, bluez, spent, started, generation, resync, deferred,
                     available, failed>>
  BY DEF HandleGetAll, Next1, bus
<1>2. /\ started /\ inbox # <<>> /\ m \in Message /\ m = inbox[1]
      /\ inbox \in Seq(Message) /\ 1 \in DOMAIN inbox
      /\ Later(inbox, 0) = M \cup {m}
  BY NextIs DEF HandleGetAll
<1>3. m.object \in Objects
  BY <1>1, <1>2, MessageIs
<1>4. PICK t : Commit(t) /\ Reread(t, m, M)
  BY GetAllIs
<1> HIDE DEF m, M
<1>5. /\ TypeOK /\ AllSound /\ Tracked /\ Anchored /\ Resyncs /\ Snapshots /\ Shown
      /\ \A k \in Underway : k.type = "getall" =>
           \E j \in Objects : PathOf[j] = PathOf[k.object] /\ cache[j] # Absent
  BY DEF IInv, Anchored
<1>6. ~resync /\ deferred = <<>> /\ cache # Nothing
  <2>1. \E k \in Objects : PathOf[k] = PathOf[m.object] /\ cache[k] # Absent
    BY <1>1, <1>2, <1>5 DEF Underway
  <2> QED BY <2>1, <1>5 DEF Resyncs, Nothing
<1>7. /\ cache' \in Tree /\ view' \in Tree /\ view' = cache'
      /\ lastRev' \in Nat /\ revision' \in [Objects -> 0..lastRev']
      /\ \A o \in Objects : revision'[o] = 0 <=> cache'[o] = Absent
      /\ calls' \in Seq(Call) /\ callbacks' \in Seq(Callback)
      /\ inbox' \in Seq(Message)
  BY <1>2, <1>4, CommitTypes DEF Reread
<1>8. /\ cache' = t.cache /\ calls' = t.calls
      /\ inbox' = Uncancelled(Tail(inbox), {})
  BY <1>4 DEF Commit, Reread
<1>9. /\ \A k \in Objects : k # m.object => cache'[k] = cache[k]
      /\ \A k \in Objects : cache[k] = Absent <=> cache'[k] = Absent
      /\ \A c \in Later(calls', 0) :
           \/ c \in Later(calls, 0)
           \/ c.type = "getall" /\ c.to = owner /\ c.object \in Objects
              /\ cache'[c.object] # Absent
      /\ \A c \in Later(calls, 0) : c \in Later(calls', 0)
      /\ SameOwner(inbox, 1) /\ ~failed =>
           Corrected(bluez, m.object, cache'[m.object], M, m.object \in Asked(calls'))
  BY <1>4, <1>8 DEF Reread
<1>10. Later(inbox', 0) = {k \in M : ~Cancels(k, {})} /\ Later(inbox', 0) = M
  <2>1. Later(inbox', 0) = {k \in M : ~Cancels(k, {})}
    BY <1>2, <1>8, PassedIs DEF M
  <2> QED BY <2>1 DEF Cancels
<1>11. \A k \in Underway' : ~Current(k, generation)
  BY <1>2, <1>5, <1>6, <1>9, <1>10 DEF Snapshots, Current, Underway
<1>12. /\ Snapshots' /\ Awaited' /\ Owners' /\ NotStarted' /\ Silent'
       /\ \A i \in DOMAIN inbox' :
            SameOwner(inbox', i) => Sound(bluez', inbox'[i], Later(inbox', i))
       /\ SameOwner(inbox', 1) /\ ~failed' =>
            \A i \in DOMAIN inbox' :
              inbox'[i].type = "getall" /\ inbox'[i].value = Error =>
                Corrected(bluez', inbox'[i].object, Absent, Later(inbox', i), FALSE)
       /\ SameOwner(inbox', 1) => SameOwner(inbox, 1)
  <2>1. Head(inbox).type # "owner"
    BY <1>1 DEF m
  <2>2. \A k \in Later(calls', 0) :
          k \in Later(calls, 0) \/ (k.type = "getall" /\ k.to = owner)
    BY <1>9
  <2>3. \A k \in Later(calls', 0) : ~Current(k, generation)
    BY <1>11 DEF Underway
  <2>4. /\ ~resync'
        /\ ~available' /\ ~resync' /\ ~failed => ~available /\ ~resync
        /\ UNCHANGED <<owner, bluez, started, generation, failed>>
    BY <1>1, <1>6
  <2> QED BY <2>1, <2>2, <2>3, <2>4, <1>2, <1>7, <1>8, <1>11, HandledCommon
<1>13. TypeOK'
  BY <1>1, <1>5, <1>7 DEF TypeOK
<1>14. AllSound'
  <2>1. \A i \in DOMAIN deferred' : FALSE
    BY <1>1, <1>6
  <2> QED BY <2>1, <1>12 DEF AllSound
<1>15. Anchored'
  <2> SUFFICES ASSUME NEW c \in Underway', c.type = "getall"
               PROVE  \E k \in Objects : PathOf[k] = PathOf[c.object] /\ cache'[k] # Absent
    BY DEF Anchored
  <2>1. CASE c \in Underway
    BY <2>1, <1>5, <1>9
  <2>2. CASE c.object \in Objects /\ cache'[c.object] # Absent
    BY <2>2
  <2> QED BY <2>1, <2>2, <1>2, <1>9, <1>10 DEF Underway
<1>16. Tracked'
  <2> SUFFICES ASSUME SameOwner(inbox', 1), ~failed, NEW o \in Objects
               PROVE  Corrected(bluez, o, cache'[o], M,
                                o \in Asked(calls') \/ o \in Asked(inbox'))
    BY <1>1, <1>10 DEF Tracked
  <2>1. SameOwner(inbox, 1)
    BY <1>12
  <2> DEFINE after == o \in Asked(calls') \/ o \in Asked(inbox')
  <2>2. CASE o = m.object
    <3> DEFINE asked == o \in Asked(calls')
    <3>1. Corrected(bluez, o, cache'[o], M, asked)
      BY <2>1, <2>2, <1>9
    <3>2. asked \in BOOLEAN /\ after \in BOOLEAN /\ (asked => after)
      OBVIOUS
    <3> HIDE DEF asked, after
    <3>3. Corrected(bluez, o, cache'[o], M, after)
      BY <3>1, <3>2, CorrectedMore
    <3> QED BY <3>3 DEF after
  <2>3. CASE o # m.object
    <3> DEFINE before == o \in Asked(calls) \/ o \in Asked(inbox)
    <3>1. Corrected(bluez, o, cache'[o], Later(inbox, 0), before)
      BY <2>1, <2>3, <1>1, <1>2, <1>5, <1>6, <1>9 DEF Tracked
    <3>2. \A k \in Later(inbox, 0) : k.type \in Updates => k \in M
      BY <1>1, <1>2 DEF Updates
    <3>3. o \in Asked(calls) => o \in Asked(calls')
      <4>1. calls \in Seq(Call)
        BY <1>5, TypesOfQueues
      <4> QED BY <4>1, <1>7, <1>9, AskedIs
    <3>4. ASSUME o \in Asked(inbox) PROVE o \in Asked(inbox')
      <4>1. PICK k \in Later(inbox, 0) : k.type = "getall" /\ k.object = o
        BY <3>4, <1>2, AskedIs
      <4>2. k \in Later(inbox', 0)
        BY <4>1, <2>3, <1>2, <1>10
      <4> QED BY <4>1, <4>2, <1>7, AskedIs
    <3>5. before \in BOOLEAN /\ after \in BOOLEAN /\ (before => after)
      BY <3>3, <3>4
    <3> HIDE DEF before, after
    <3>6. Corrected(bluez, o, cache'[o], M, after)
      BY <3>1, <3>2, <3>5, CorrectedMore
    <3> QED BY <3>6 DEF after
  <2> QED BY <2>2, <2>3
<1>17. Resyncs'
  BY <1>1, <1>6 DEF Resyncs
<1>18. Shown'
  BY <1>1, <1>5, <1>6, <1>7 DEF Shown
<1> QED BY <1>12, <1>13, <1>14, <1>15, <1>16, <1>17, <1>18 DEF IInv

\* The request for the replacement snapshot.
Request == [type |-> "snapshot", gen |-> generation + 1, to |-> owner]

\* What is left of the manager when its owner is gone or replaced: nothing is
\* cached, no GetAll is under way, and only the new request is current.
LEMMA OwnerLost ==
  ASSUME ManagerAssumption, IInv, HandleOwner
  PROVE  \E G, left :
           /\ left \in Seq(Call)
           /\ cache' = Nothing /\ view' = Nothing
           /\ revision' \in [Objects -> 0..lastRev'] /\ lastRev' \in Nat
           /\ \A o \in Objects : revision'[o] = 0
           /\ calls' = IF Head(inbox).owner = 0 THEN left ELSE Append(left, Request)
           /\ Request \in Call /\ calls' \in Seq(Call)
           /\ callbacks' \in Seq(Callback)
           /\ inbox' = Uncancelled(Tail(inbox), G)
           /\ \A k \in Later(left, 0) : k \in Later(calls, 0) /\ k.type # "getall"
           /\ \A k \in Later(inbox', 0) : k \in Later(inbox, 1) /\ k.type # "getall"
<1> DEFINE new == Head(inbox).owner
           D == Present(cache)
           s == Dropped(State, D)
           G == Gone(cache, D)
           left == Uncancelled(calls, G)
           u == [s EXCEPT !.callbacks = Append(@, <<"removed", Adapter>>),
                          !.calls = IF new = 0 THEN @ ELSE Append(@, Request)]
<1>1. Commit(u) /\ inbox # <<>>
  BY DEF HandleOwner, Next1, Request
<1>2. /\ TypeOK /\ Anchored /\ calls \in Seq(Call) /\ inbox \in Seq(Message)
      /\ generation \in Nat
  BY TypesOfQueues DEF IInv, TypeOK
<1>3. /\ Consistent(State) /\ owner \in 0..MaxOwners
      /\ State.cache = cache /\ State.calls = calls /\ State.dropped = {}
  BY StateIs
<1>4. D \in SUBSET (Objects \cup {Adapter}) /\ D \subseteq Objects
  BY DEF Present
<1> HIDE DEF D
<1>5. /\ Consistent(s) /\ s.calls = left /\ s.dropped = G
      /\ \A o \in Objects : s.cache[o] = IF o \in D THEN Absent ELSE cache[o]
  <2>1. /\ s.calls = Uncancelled(State.calls, Gone(State.cache, D))
        /\ s.dropped = State.dropped \cup Gone(State.cache, D)
        /\ Consistent(s)
        /\ \A o \in Objects : s.cache[o] = IF o \in D THEN Absent ELSE State.cache[o]
    BY <1>3, <1>4, DroppedIs, ZenonT(60)
  <2>2. Gone(State.cache, D) = G
    BY <1>3
  <2> HIDE DEF G, s
  <2> QED BY <2>1, <2>2, <1>3
<1>6. left \in Seq(Call) /\ Later(left, 0) = {k \in Later(calls, 0) : ~Cancels(k, G)}
  BY <1>2, UncancelledSet
<1>7. Request \in Call
  BY <1>2, <1>3 DEF Call, Request
<1> HIDE DEF s, left
<1>8. s \in Manager
  BY <1>5 DEF Consistent
<1>9. \A o \in Objects : s.cache[o] = Absent
  BY <1>5 DEF D, Present
<1>10. s.cache = Nothing /\ s.view = Nothing
  BY <1>5, <1>8, <1>9 DEF Consistent, Manager, Tree, Nothing
<1>11. /\ u.cache = s.cache /\ u.view = s.view /\ u.revision = s.revision
       /\ u.lastRev = s.lastRev /\ u.dropped = G
       /\ u.callbacks = Append(s.callbacks, <<"removed", Adapter>>)
       /\ u.calls = IF new = 0 THEN left ELSE Append(left, Request)
  BY <1>5, <1>8 DEF Manager
<1> HIDE DEF u
<1>12. Append(s.callbacks, <<"removed", Adapter>>) \in Seq(Callback)
  <2>1. s.callbacks \in Seq(Callback) /\ <<"removed", Adapter>> \in Callback
    BY <1>8 DEF Manager, Callback
  <2> QED BY <2>1, AppendIs
<1>13. Append(left, Request) \in Seq(Call)
  BY <1>6, <1>7, AppendIs
<1>14. /\ cache' = Nothing /\ view' = Nothing /\ callbacks' \in Seq(Callback)
       /\ calls' = IF new = 0 THEN left ELSE Append(left, Request)
       /\ inbox' = Uncancelled(Tail(inbox), G)
       /\ revision' = s.revision /\ lastRev' = s.lastRev
  BY <1>1, <1>10, <1>11, <1>12 DEF Commit
<1>15. calls' \in Seq(Call)
  BY <1>6, <1>13, <1>14
<1>16. /\ revision' \in [Objects -> 0..lastRev'] /\ lastRev' \in Nat
       /\ \A o \in Objects : revision'[o] = 0
  <2>1. s.revision \in [Objects -> Nat] /\ s.lastRev \in Nat
    BY <1>8 DEF Manager
  <2>2. \A o \in Objects : s.revision[o] \in 0..s.lastRev /\ s.revision[o] = 0
    BY <2>1, <1>5, <1>9 DEF Consistent
  <2> QED BY <2>1, <2>2, <1>14
<1>17. \A k \in Underway : k.type = "getall" => Cancels(k, G)
  <2> SUFFICES ASSUME NEW k \in Underway, k.type = "getall"
               PROVE  PathOf[k.object] \in G
    BY DEF Cancels
  <2>1. PICK j \in Objects : PathOf[j] = PathOf[k.object] /\ cache[j] # Absent
    BY <1>2 DEF Anchored
  <2>2. j \in Present(cache) \cap D /\ Present(cache) \ D = {}
    BY <2>1 DEF D, Present
  <2> QED BY <2>1, <2>2 DEF Gone
<1>18. Later(inbox, 0) = Later(inbox, 1) \cup {Head(inbox)}
  BY <1>1, <1>2, TailIs
<1>19. Later(inbox', 0) = {k \in Later(inbox, 1) : ~Cancels(k, G)}
  BY <1>1, <1>2, <1>14, PassedIs
<1>20. /\ \A k \in Later(left, 0) : k \in Later(calls, 0) /\ k.type # "getall"
       /\ \A k \in Later(inbox', 0) : k \in Later(inbox, 1) /\ k.type # "getall"
  BY <1>6, <1>17, <1>18, <1>19 DEF Underway
<1> HIDE DEF G, new
<1>21. /\ cache' = Nothing /\ view' = Nothing
       /\ revision' \in [Objects -> 0..lastRev'] /\ lastRev' \in Nat
       /\ \A o \in Objects : revision'[o] = 0
       /\ calls' = IF new = 0 THEN left ELSE Append(left, Request)
       /\ Request \in Call /\ calls' \in Seq(Call)
       /\ callbacks' \in Seq(Callback)
       /\ inbox' = Uncancelled(Tail(inbox), G)
       /\ \A k \in Later(left, 0) : k \in Later(calls, 0) /\ k.type # "getall"
       /\ \A k \in Later(inbox', 0) : k \in Later(inbox, 1) /\ k.type # "getall"
  BY <1>7, <1>14, <1>15, <1>16, <1>20
<1> QED BY <1>6, <1>21 DEF new

LEMMA OwnerHandled ==
  ASSUME ManagerAssumption, IInv, HandleOwner
  PROVE  IInv'
<1> DEFINE m == Head(inbox)
           new == m.owner
<1>1. /\ m.type = "owner" /\ generation' = generation + 1 /\ deferred' = <<>>
      /\ (resync' <=> new # 0) /\ resync' \in BOOLEAN /\ available' = FALSE /\ failed' = FALSE
      /\ UNCHANGED <<owner, bluez, spent, started>>
  BY DEF HandleOwner, Next1, bus
<1>2. /\ started /\ inbox # <<>> /\ m \in Message /\ m = inbox[1]
      /\ inbox \in Seq(Message) /\ 1 \in DOMAIN inbox
      /\ Later(inbox, 0) = Later(inbox, 1) \cup {m}
  BY NextIs DEF HandleOwner
<1>3. PICK G, left :
        /\ left \in Seq(Call)
        /\ cache' = Nothing /\ view' = Nothing
        /\ revision' \in [Objects -> 0..lastRev'] /\ lastRev' \in Nat
        /\ \A o \in Objects : revision'[o] = 0
        /\ calls' = IF new = 0 THEN left ELSE Append(left, Request)
        /\ Request \in Call /\ calls' \in Seq(Call)
        /\ callbacks' \in Seq(Callback)
        /\ inbox' = Uncancelled(Tail(inbox), G)
        /\ \A k \in Later(left, 0) : k \in Later(calls, 0) /\ k.type # "getall"
        /\ \A k \in Later(inbox', 0) : k \in Later(inbox, 1) /\ k.type # "getall"
  BY OwnerLost
<1>4. Request.type = "snapshot" /\ Request.gen = generation' /\ Request.to = owner
  BY <1>1 DEF Request
<1> HIDE DEF m
<1>5. /\ TypeOK /\ Snapshots /\ Owners /\ Silent /\ generation \in Nat
  BY DEF IInv, TypeOK
<1>6. /\ inbox' \in Seq(Message)
      /\ \A i \in DOMAIN inbox' :
           SameOwner(inbox', i) => Sound(bluez', inbox'[i], Later(inbox', i))
      /\ \A i \in DOMAIN inbox' : inbox'[i].type = "owner" /\ SameOwner(inbox', i + 1) =>
           inbox'[i].owner = owner'
      /\ \A i, k \in DOMAIN inbox' :
           i < k /\ inbox'[i].type = "owner" /\ inbox'[i].owner = 0
             /\ inbox'[k].type \in Updates =>
               \E j \in (i + 1)..(k - 1) : inbox'[j].type = "owner"
      /\ SameOwner(inbox', 1) => SameOwner(inbox, 2)
  <2>1. inbox' = Uncancelled(Tail(inbox), G) /\ UNCHANGED <<owner, bluez>>
    BY <1>1, <1>3
  <2> QED BY <2>1, <1>2, RestOfInbox
<1>7. SameOwner(inbox', 1) => new = owner
  <2>1. SameOwner(inbox', 1) => SameOwner(inbox, 1 + 1)
    BY <1>6
  <2> QED BY <2>1, <1>1, <1>2, <1>5 DEF Owners
<1>8. \A k \in Later(calls', 0) :
        \/ k \in Later(calls, 0) /\ k.type # "getall"
        \/ k = Request /\ new # 0
  <2>1. Later(Append(left, Request), 0) = Later(left, 0) \cup {Request}
    BY <1>3, AppendIs
  <2> QED BY <2>1, <1>3
<1>9. \A k \in Underway :
        k.type = "snapshot" => k.gen <= generation' /\ k.gen # generation'
  <2>1. \A k \in Underway : k.type = "snapshot" => k.gen \in Nat
    BY <1>2, <1>5, CallIs, MessageIs, TypesOfQueues DEF Underway
  <2>2. \A k \in Underway : k.type = "snapshot" => k.gen <= generation
    BY <1>5 DEF Snapshots
  <2> QED BY <2>1, <2>2, <1>1, <1>5
<1>10. /\ \A k \in Later(calls', 0) : Current(k, generation') => k = Request
       /\ \A k \in Later(left, 0) : ~Current(k, generation')
       /\ \A k \in Later(inbox', 0) : ~Current(k, generation')
  BY <1>2, <1>3, <1>8, <1>9 DEF Current, Underway
<1>11. TypeOK'
  <2>1. deferred' \in Seq(Update) /\ generation' \in Nat /\ resync' \in BOOLEAN
    BY <1>1, <1>5, EmptySeq
  <2>2. Nothing \in Tree /\ \A o \in Objects : Nothing[o] = Absent
    BY DEF Nothing, Tree
  <2>3. /\ cache' \in Tree /\ view' \in Tree
        /\ \A o \in Objects : revision'[o] = 0 <=> cache'[o] = Absent
    BY <2>2, <1>3
  <2> QED BY <2>1, <2>3, <1>1, <1>3, <1>5, <1>6 DEF TypeOK
<1>12. AllSound'
  <2>1. \A i \in DOMAIN deferred' : FALSE
    BY <1>1
  <2>2. \A i \in DOMAIN inbox' : inbox'[i].type # "getall"
    BY <1>3, <1>6, LaterAll
  <2> QED BY <2>1, <2>2, <1>6 DEF AllSound
<1>13. Anchored'
  BY <1>3, <1>4, <1>8 DEF Anchored, Underway
<1>14. Snapshots'
  <2>1. ASSUME NEW k \in Underway', k.type = "snapshot"
        PROVE  k.gen <= generation' /\ (k.gen = generation' => resync')
    <3>1. CASE k \in Underway
      BY <3>1, <2>1, <1>9
    <3>2. CASE k = Request /\ new # 0
      BY <3>2, <1>1, <1>4, <1>5
    <3> QED BY <2>1, <3>1, <3>2, <1>2, <1>3, <1>8 DEF Underway
  <2>2. ASSUME NEW i \in DOMAIN calls', NEW k \in DOMAIN calls',
               Current(calls'[i], generation'), Current(calls'[k], generation')
        PROVE  i = k
    <3>1. CASE new = 0
      <4>1. calls' = left
        BY <3>1, <1>3
      <4> QED BY <4>1, <2>2, <1>3, <1>10, LaterAll
    <3>2. CASE new # 0
      <4>1. calls' = Append(left, Request)
        BY <3>2, <1>3
      <4>2. /\ Len(left) \in Nat /\ DOMAIN calls' = 1..Len(left) + 1
            /\ DOMAIN left = 1..Len(left)
            /\ \A j \in 1..Len(left) : calls'[j] = left[j]
        <5>1. left \in Seq(Call) /\ Request \in Call
          BY <1>3
        <5> QED BY <4>1, <5>1, AppendIs
      <4>3. \A j \in 1..Len(left) : ~Current(calls'[j], generation')
        BY <4>2, <1>3, <1>10, LaterAll
      <4>4. i = Len(left) + 1 /\ k = Len(left) + 1
        BY <4>2, <4>3, <2>2
      <4> QED BY <4>4
    <3> QED BY <3>1, <3>2
  <2>3. \A i \in DOMAIN inbox' : ~Current(inbox'[i], generation')
    BY <1>6, <1>10, LaterAll
  <2> QED BY <2>1, <2>2, <2>3, <1>10 DEF Snapshots
<1>15. Awaited'
  <2> SUFFICES ASSUME resync', SameOwner(inbox', 1)
               PROVE  owner # 0 /\ \E k \in Underway' : Current(k, generation')
    BY <1>1 DEF Awaited
  <2>1. new # 0 /\ owner # 0 /\ calls' = Append(left, Request)
    BY <1>1, <1>3, <1>7
  <2>2. Request \in Later(calls', 0)
    BY <2>1, <1>3, AppendIs
  <2> QED BY <2>1, <2>2, <1>4 DEF Underway, Current
<1>16. Owners'
  <2>1. \A k \in Later(calls', 0) :
          k.type = "getall" \/ Current(k, generation') => k.to = owner'
    BY <1>1, <1>4, <1>8, <1>10
  <2>2. owner' = 0 => bluez' = Nothing'
    BY <1>1, <1>5 DEF Owners, Nothing
  <2> QED BY <2>1, <2>2, <1>6 DEF Owners
<1>17. Resyncs' /\ Shown' /\ NotStarted'
  BY <1>1, <1>2, <1>3 DEF Resyncs, Shown, NotStarted, Nothing
<1>18. Silent'
  <2>1. ASSUME new = 0, NEW k \in DOMAIN inbox', inbox'[k].type \in Updates
        PROVE  \E j \in 1..(k - 1) : inbox'[j].type = "owner"
    <3>1. PICK e : Passed(inbox', inbox, G, e)
      BY <1>2, <1>3, PassedIs
    <3>2. /\ DOMAIN inbox' = 1..Len(inbox') /\ DOMAIN inbox = 1..Len(inbox)
          /\ Len(inbox') \in Nat /\ Len(inbox) \in Nat
          /\ \A i \in 1..Len(inbox') : inbox'[i] = inbox[e[i]] /\ e[i] \in 2..Len(inbox)
          /\ \A i \in 1..Len(inbox'), n \in 2..Len(inbox) :
               n < e[i] /\ ~Cancels(inbox[n], G) => \E j \in 1..(i - 1) : e[j] = n
      BY <3>1, <1>2, <1>6, PassedFacts
    <3>3. e[k] \in DOMAIN inbox /\ 1 < e[k] /\ inbox[e[k]].type \in Updates
      BY <2>1, <3>2
    <3>4. \E j \in (1 + 1)..(e[k] - 1) : inbox[j].type = "owner"
      BY <2>1, <3>3, <1>1, <1>2, <1>5 DEF Silent
    <3>5. PICK n \in (1 + 1)..(e[k] - 1) : inbox[n].type = "owner"
      BY <3>4
    <3>6. n \in 2..Len(inbox) /\ n < e[k] /\ ~Cancels(inbox[n], G)
      BY <3>2, <3>3, <3>5 DEF Cancels
    <3>7. PICK j \in 1..(k - 1) : e[j] = n
      BY <2>1, <3>2, <3>6
    <3>8. j \in 1..Len(inbox')
      BY <2>1, <3>2, <3>7
    <3> QED BY <3>2, <3>5, <3>7, <3>8
  <2>2. ~resync' => new = 0
    BY <1>1
  <2>3. new = 0 /\ SameOwner(inbox', 1) => owner' = 0
    BY <1>1, <1>7
  <2> QED BY <2>1, <2>2, <2>3, <1>6 DEF Silent
<1>19. Tracked'
  <2> SUFFICES ASSUME SameOwner(inbox', 1), ~resync', NEW o \in Objects, NEW M, NEW late
               PROVE  Corrected(bluez, o, cache'[o], M, late)
    BY <1>1 DEF Tracked
  <2>1. bluez = Nothing
    BY <1>1, <1>5, <1>7 DEF Owners
  <2> QED BY <2>1, <1>3, SameCorrected
<1> QED BY <1>11, <1>12, <1>13, <1>14, <1>15, <1>16, <1>17, <1>18, <1>19 DEF IInv

----------------------------------------------------------------------------
(* The first snapshot, the initial state and the step                      *)

LEMMA Started ==
  ASSUME ManagerAssumption, IInv, Start
  PROVE  IInv'
<1> DEFINE s == Added(State, bluez)
<1>1. /\ ~started /\ started' = TRUE
      /\ cache' = s.cache /\ view' = s.view /\ revision' = s.revision
      /\ lastRev' = s.lastRev /\ callbacks' = s.callbacks
      /\ UNCHANGED <<owner, bluez, spent, calls, inbox, generation, resync,
                     deferred, available, failed>>
  BY DEF Start, bus
<1>2. /\ TypeOK /\ AllSound /\ Snapshots /\ Awaited /\ Owners /\ Resyncs /\ Silent
      /\ cache = Nothing /\ calls = <<>> /\ ~resync /\ available
      /\ \A m \in Later(inbox, 0) : m.type \in Updates \cup {"owner"}
  BY <1>1 DEF IInv, NotStarted
<1>3. Consistent(State) /\ State.cache = cache /\ bluez \in Tree
  BY StateIs
<1>4. Consistent(s) /\ \A o \in Objects : s.cache[o] = bluez[o]
  BY <1>2, <1>3, AddedIs DEF Nothing
<1> HIDE DEF s
<1>5. s \in Manager
  BY <1>4 DEF Consistent
<1>6. TypeOK'
  <2>1. revision' \in [Objects -> 0..lastRev']
    <3>1. s.revision \in [Objects -> Nat] /\ s.lastRev \in Nat
      BY <1>5 DEF Manager
    <3>2. \A o \in Objects : s.revision[o] \in 0..s.lastRev
      BY <3>1, <1>4 DEF Consistent
    <3> QED BY <3>1, <3>2, <1>1
  <2>2. /\ cache' \in Tree /\ view' \in Tree /\ lastRev' \in Nat
        /\ callbacks' \in Seq(Callback)
    BY <1>1, <1>5 DEF Manager
  <2>3. \A o \in Objects : revision'[o] = 0 <=> cache'[o] = Absent
    BY <1>1, <1>4 DEF Consistent
  <2>4. started' \in BOOLEAN
    BY <1>1
  <2> QED BY <2>1, <2>2, <2>3, <2>4, <1>1, <1>2 DEF TypeOK
<1>7. AllSound'
  BY <1>1, <1>2 DEF AllSound
<1>8. Tracked'
  <2>1. \A M, late : \A o \in Objects : Corrected(bluez, o, cache'[o], M, late)
    BY <1>1, <1>4, SameCorrected
  <2> QED BY <2>1, <1>1 DEF Tracked
<1>9. Anchored'
  <2>1. Later(calls', 0) = {}
    BY <1>1, <1>2 DEF Later
  <2>2. \A m \in Later(inbox', 0) : m.type # "getall"
    BY <1>1, <1>2 DEF Updates
  <2> QED BY <2>1, <2>2 DEF Anchored, Underway
<1>10. Snapshots'
  BY <1>1, <1>2 DEF Snapshots, Underway
<1>11. Awaited' /\ Owners' /\ Resyncs'
  BY <1>1, <1>2 DEF Awaited, Owners, Resyncs, Underway, Nothing
<1>12. NotStarted'
  BY <1>1 DEF NotStarted
<1>13. Silent'
  BY <1>1, <1>2 DEF Silent
<1>14. Shown'
  BY <1>1, <1>2, <1>4 DEF Shown, Consistent
<1> QED BY <1>6, <1>7, <1>8, <1>9, <1>10, <1>11, <1>12, <1>13, <1>14 DEF IInv

LEMMA Initially ==
  ASSUME ManagerAssumption, Init
  PROVE  IInv
<1>1. /\ owner = 1 /\ bluez \in Tree /\ calls = <<>> /\ inbox = <<>>
      /\ spent = [owners |-> 1, changes |-> 0, errors |-> 0]
      /\ started = FALSE /\ generation = 0 /\ resync = FALSE /\ deferred = <<>>
      /\ cache = Nothing /\ view = Nothing
      /\ revision = [o \in Objects |-> 0] /\ lastRev = 0
      /\ available = TRUE /\ callbacks = <<>> /\ failed = FALSE
  BY DEF Init, ManagerAssumption
<1>2. Later(calls, 0) = {} /\ Later(inbox, 0) = {} /\ Underway = {}
  BY <1>1 DEF Later, Underway
<1>3. DOMAIN calls = {} /\ DOMAIN inbox = {} /\ DOMAIN deferred = {}
  BY <1>1
<1>4. TypeOK
  <2>1. Nothing \in Tree /\ \A o \in Objects : Nothing[o] = Absent
    BY DEF Nothing, Tree
  <2>2. /\ calls \in Seq(Call) /\ inbox \in Seq(Message)
        /\ deferred \in Seq(Update) /\ callbacks \in Seq(Callback)
    BY <1>1, EmptySeq
  <2>3. /\ owner \in 0..MaxOwners
        /\ spent \in [owners : 1..MaxOwners, changes : 0..MaxChanges,
                      errors : 0..MaxErrors]
    BY <1>1 DEF ManagerAssumption
  <2>4. /\ revision \in [Objects -> 0..lastRev] /\ lastRev \in Nat
        /\ \A o \in Objects : revision[o] = 0
    BY <1>1
  <2> QED BY <2>1, <2>2, <2>3, <2>4, <1>1 DEF TypeOK
<1>5. AllSound /\ Tracked
  BY <1>1, <1>3 DEF AllSound, Tracked
<1>6. Anchored /\ Snapshots /\ Awaited
  BY <1>1, <1>2, <1>3 DEF Anchored, Snapshots, Awaited
<1>7. Owners /\ Resyncs /\ NotStarted
  BY <1>1, <1>2, <1>3 DEF Owners, Resyncs, NotStarted
<1>8. Silent /\ Shown
  BY <1>1, <1>3 DEF Silent, Shown
<1> QED BY <1>4, <1>5, <1>6, <1>7, <1>8 DEF IInv

LEMMA Handled ==
  ASSUME ManagerAssumption, IInv, Handle
  PROVE  IInv'
<1>1. CASE HandleUpdate
  BY <1>1, UpdateHandled
<1>2. CASE DeferUpdate
  BY <1>2, UpdateDeferred
<1>3. CASE HandleOwner
  BY <1>3, OwnerHandled
<1>4. CASE HandleStaleSnapshot
  BY <1>4, StaleSnapshotHandled
<1>5. CASE HandleSnapshot
  BY <1>5, SnapshotHandled
<1>6. CASE HandleSnapshotError
  BY <1>6, SnapshotErrorHandled
<1>7. CASE HandleGetAll
  BY <1>7, GetAllHandled
<1> QED BY <1>1, <1>2, <1>3, <1>4, <1>5, <1>6, <1>7 DEF Handle

LEMMA BluezStepped ==
  ASSUME ManagerAssumption, IInv, Bluez
  PROVE  IInv'
<1>1. CASE ChangeOwner
  BY <1>1, OwnerSent
<1>2. CASE \E D \in SUBSET Objects : RemoveObjects(D) \/ \E v \in Values : AddObjects(D, v)
  BY <1>2, RemoveObjectsSent, AddObjectsSent
<1>3. CASE RemoveAdapter
  BY <1>3, RemoveAdapterSent
<1>4. CASE \E o \in Objects, v \in Values, I \in SUBSET Properties : ChangeObject(o, v, I)
  BY <1>4, ChangeObjectSent
<1>5. CASE Refuse
  BY <1>5, RefuseSent
<1> QED BY <1>1, <1>2, <1>3, <1>4, <1>5 DEF Bluez

LEMMA Stuttered ==
  ASSUME IInv, UNCHANGED vars
  PROVE  IInv'
<1>1. /\ UNCHANGED <<owner, bluez, spent, calls, inbox, started, generation, resync,
                     deferred, cache, revision, lastRev, view, available, callbacks,
                     failed>>
  BY DEF vars, bus, manager
<1>2. TypeOK' /\ AllSound' /\ Tracked'
  BY <1>1 DEF IInv, TypeOK, AllSound, Tracked
<1>3. Anchored' /\ Snapshots' /\ Awaited'
  BY <1>1 DEF IInv, Anchored, Snapshots, Awaited, Underway
<1>4. Owners' /\ Resyncs' /\ NotStarted'
  BY <1>1 DEF IInv, Owners, Resyncs, NotStarted
<1>5. Silent' /\ Shown'
  BY <1>1 DEF IInv, Silent, Shown
<1> QED BY <1>2, <1>3, <1>4, <1>5 DEF IInv

LEMMA Inductive ==
  ASSUME IInv, [Next]_vars
  PROVE  IInv'
<1>1. CASE Start
  BY <1>1, Started, ManagerAssumption
<1>2. CASE Handle
  BY <1>2, Handled, ManagerAssumption
<1>3. CASE Bluez
  BY <1>3, BluezStepped, ManagerAssumption
<1>4. CASE Reply
  BY <1>4, AnswerSent, NoReplySent, ManagerAssumption DEF Reply
<1>5. CASE UNCHANGED vars
  BY <1>5, Stuttered
<1> QED BY <1>1, <1>2, <1>3, <1>4, <1>5 DEF Next

LEMMA Invariance == Spec => []IInv
<1>1. Init => IInv
  BY Initially, ManagerAssumption
<1>2. IInv /\ [Next]_vars => IInv'
  BY Inductive
<1> QED BY <1>1, <1>2, PTL DEF Spec

\* A quiet client has nothing left to put right.
LEMMA QuietConverged ==
  ASSUME IInv
  PROVE  Converged
<1> SUFFICES ASSUME Quiet, ~failed PROVE cache = bluez
  BY DEF Converged
<1>1. started /\ calls = <<>> /\ inbox = <<>>
  BY DEF Quiet
<1>2. Underway = {} /\ Later(inbox, 0) = {} /\ SameOwner(inbox, 1)
  BY <1>1 DEF Underway, Later, SameOwner
<1>3. Asked(calls) = {} /\ Asked(inbox) = {}
  BY <1>1 DEF Asked
<1>4. ~resync
  BY <1>2 DEF IInv, Awaited
<1>5. \A o \in Objects : Corrected(bluez, o, cache[o], {}, FALSE)
  BY <1>1, <1>2, <1>3, <1>4 DEF IInv, Tracked
<1>6. cache \in Tree /\ bluez \in Tree
  BY DEF IInv, TypeOK
<1>7. ASSUME NEW o \in Objects PROVE cache[o] = bluez[o]
  <2>1. cache[o] \in Values \cup {Absent} /\ bluez[o] \in Values \cup {Absent}
    BY <1>6, TreeIs
  <2>2. cache[o] = Absent <=> bluez[o] = Absent
    BY <1>5 DEF Corrected
  <2>3. cache[o] # Absent => \A p \in Properties : cache[o][p] = bluez[o][p]
    BY <2>2, <1>5 DEF Corrected
  <2> QED BY <2>1, <2>2, <2>3 DEF Values
<1> QED BY <1>6, <1>7 DEF Tree

----------------------------------------------------------------------------
(* The theorems                                                            *)

\* The containers, the queues and every message in them keep their shape, and an
\* interface has a revision exactly when it is cached, through signals, replaced
\* owners, late and stale replies (media_object_manager.cpp, all handlers).
THEOREM TypeCorrect == Spec => []TypeOK
<1>1. IInv => TypeOK
  BY DEF IInv
<1> QED BY <1>1, Invariance, PTL

\* What was posted to Dart is always what is cached, and a client told that the
\* service is unavailable has been told of no object, unless BlueZ refused the
\* replacement snapshot (on_owner_changed, post_properties, 0x30 and 0x31).
THEOREM EventsAddUp == Spec => []EventsMatchCache
<1>1. IInv => EventsMatchCache
  BY DEF IInv, Shown, EventsMatchCache
<1> QED BY <1>1, Invariance, PTL

\* Whenever nothing is under way and no request was refused since the owner last
\* changed, the cache is BlueZ's tree: for any number of objects, properties,
\* owners and changes, whatever was deferred, replayed, invalidated or asked for
\* again (apply_update, request_snapshot, refresh_properties).
THEOREM CacheConverges == Spec => []Converged
<1>1. IInv => Converged
  BY QuietConverged
<1> QED BY <1>1, Invariance, PTL

=============================================================================
