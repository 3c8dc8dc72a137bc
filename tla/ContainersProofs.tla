-------------------------- MODULE ContainersProofs --------------------------
(***************************************************************************)
(* The pointers of the hash map, the hash table and the queue are sound,   *)
(* every key is found after any sequence of operations, and the structures *)
(* implement the map, set and queue of AbstractContainers.                 *)
(*                                                                         *)
(* A list is described by the sequence of the addresses of its nodes, Q[i] *)
(* for bucket i; the operations change these sequences as one would        *)
(* expect.  The refinement needs, besides, where an iterator stands in the *)
(* flattened sequence of all the buckets (IterOk).                         *)
(***************************************************************************)
EXTENDS HashContainers, FiniteSetTheorems, WellFoundedInduction, TLAPS

LEMMA Least ==
    ASSUME NEW T, T \subseteq Nat, T # {}
    PROVE  \E x \in T : \A y \in T : x <= y
<1> DEFINE R == OpToRel(<, Nat)
<1>1. IsWellFoundedOn(R, Nat)
  BY NatLessThanWellFounded
<1>2. \A x, y \in Nat : x < y => <<x, y>> \in R
  BY DEF OpToRel
<1> HIDE DEF R
<1>3. PICK x \in T : \A y \in T : ~ (<<y, x>> \in R)
  BY <1>1, WFMin
<1>4. ASSUME NEW y \in T PROVE x <= y
  <2>1. x \in Nat /\ y \in Nat /\ ~(y < x)
    BY <1>2, <1>3
  <2> QED
    BY <2>1
<1> QED
  BY <1>4

-----------------------------------------------------------------------------
(***************************************************************************)
(* Addresses and lists.                                                    *)
(***************************************************************************)
Addresses == Nat \ {0}
Pointers == Addresses \cup {NULL}
NodeT == [key : Keys \cup {NULL}, data : Data \cup Keys \cup {NULL}, prev : Pointers,
          next : Pointers]
HeapOk(h) == /\ IsFiniteSet(DOMAIN h) /\ DOMAIN h \subseteq Addresses
             /\ h \in [DOMAIN h -> NodeT]

\* q is what a list that begins at l.head holds.
Chain(h, l, q) ==
    /\ q \in Seq(DOMAIN h) /\ IsInjective(q)
    /\ l = [head  |-> IF Len(q) = 0 THEN NULL ELSE q[1],
            tail  |-> IF Len(q) = 0 THEN NULL ELSE q[Len(q)],
            nelem |-> Len(q)]
    /\ \A i \in 1 .. Len(q) : h[q[i]].next = IF i = Len(q) THEN NULL ELSE q[i + 1]

Back(h, q) == \A i \in 1 .. Len(q) : h[q[i]].prev = IF i = 1 THEN NULL ELSE q[i - 1]

LEMMA FreshOk ==
    ASSUME NEW h, IsFiniteSet(DOMAIN h), DOMAIN h \subseteq Addresses
    PROVE  Fresh(h) \in Addresses /\ Fresh(h) \notin DOMAIN h
<1> DEFINE D == DOMAIN h
           n == Cardinality(D) + 1
           T == Addresses \ D
<1>1. Cardinality(D) \in Nat /\ n \in Nat
  BY FS_CardinalityType
<1>2. \E a \in 1 .. n : a \notin D
  <2> SUFFICES ASSUME 1 .. n \subseteq D PROVE FALSE
    OBVIOUS
  <2>1. Cardinality(1 .. n) <= Cardinality(D)
    BY FS_Subset
  <2>2. Cardinality(1 .. n) = n
    <3>1. Cardinality(1 .. n) = IF 1 > n THEN 0 ELSE (n - 1) + 1
      BY <1>1, FS_Interval
    <3> QED
      BY <1>1, <3>1
  <2> HIDE DEF D
  <2> QED
    BY <1>1, <2>1, <2>2
<1>3. PICK a \in T : \A y \in T : a <= y
  <2>1. T \subseteq Nat /\ T # {}
    BY <1>1, <1>2 DEF Addresses
  <2> HIDE DEF T
  <2> QED
    BY <2>1, Least
<1>4. a \in Addresses /\ a \notin D
  OBVIOUS
<1>5. a \in 1 .. n
  BY <1>1, <1>2, <1>3, <1>4 DEF Addresses
<1>6. \A b \in 1 .. a - 1 : b \in D
  BY <1>3, <1>4 DEF Addresses
<1>7. Fresh(h) \in 1 .. n /\ Fresh(h) \notin D
  BY <1>4, <1>5, <1>6 DEF Fresh
<1> QED
  BY <1>1, <1>7 DEF Addresses

\* Walk follows a list to its end.
LEMMA WalkChain ==
    ASSUME NEW h, HeapOk(h), NEW l, NEW q, Chain(h, l, q)
    PROVE  Walk(h, l.head) = q
<1> DEFINE D == DOMAIN h
           n == Cardinality(D) + 1
           F(f) == [i \in 1 .. n |-> IF i = 1 THEN l.head
                                     ELSE IF f[i - 1] \in DOMAIN h THEN h[f[i - 1]].next ELSE NULL]
           at == CHOOSE f : f = F(f)
           g == [i \in 1 .. n |-> IF i <= Len(q) THEN q[i] ELSE NULL]
<1>1. /\ IsFiniteSet(D) /\ Cardinality(D) \in Nat /\ D \subseteq Nat /\ NULL \notin D
      /\ q \in Seq(D) /\ Len(q) \in Nat
  BY FS_CardinalityType, NullAssumption DEF HeapOk, Chain, Addresses
<1>2. Len(q) <= Cardinality(D)
  <2>1. q \in [1 .. Len(q) -> D] /\ IsFiniteSet(1 .. Len(q)) /\ Cardinality(1 .. Len(q)) = Len(q)
    <3>1. /\ IsFiniteSet(1 .. Len(q))
          /\ Cardinality(1 .. Len(q)) = IF 1 > Len(q) THEN 0 ELSE (Len(q) - 1) + 1
      <4>1. 1 \in Int /\ Len(q) \in Int
        BY <1>1
      <4> HIDE DEF D
      <4> QED
        BY <4>1, FS_Interval
    <3>2. Cardinality(1 .. Len(q)) = Len(q)
      BY <1>1, <3>1
    <3>3. q \in [1 .. Len(q) -> D]
      BY <1>1
    <3> QED
      BY <3>1, <3>2, <3>3
  <2>2. q \in Injection(1 .. Len(q), D)
    BY <2>1 DEF Injection, IsInjective, Chain
  <2> HIDE DEF D
  <2>3. Cardinality(1 .. Len(q)) <= Cardinality(D)
    BY <1>1, <2>2, FS_Injection
  <2> QED
    BY <2>1, <2>3
<1>3. g = F(g)
  <2>1. /\ l.head = IF Len(q) = 0 THEN NULL ELSE q[1]
        /\ \A i \in 1 .. Len(q) : q[i] \in D
        /\ \A i \in 1 .. Len(q) : h[q[i]].next = IF i = Len(q) THEN NULL ELSE q[i + 1]
    BY <1>1 DEF Chain
  <2>2. ASSUME NEW i \in 1 .. n
        PROVE  g[i] = IF i = 1 THEN l.head
                      ELSE IF g[i - 1] \in D THEN h[g[i - 1]].next ELSE NULL
    <3>1. CASE i = 1
      BY <1>1, <2>1, <3>1
    <3>2. CASE i # 1 /\ i - 1 <= Len(q)
      <4>1. i - 1 \in 1 .. n /\ i - 1 \in 1 .. Len(q) /\ (i - 1) + 1 = i
        BY <1>1, <3>2
      <4>2. g[i - 1] = q[i - 1] /\ g[i - 1] \in D
        BY <2>1, <4>1
      <4>3. h[g[i - 1]].next = IF i - 1 = Len(q) THEN NULL ELSE q[i]
        BY <2>1, <4>1, <4>2
      <4>4. i <= Len(q) <=> i - 1 # Len(q)
        BY <1>1, <4>1
      <4> HIDE DEF D
      <4> QED
        BY <3>2, <4>2, <4>3, <4>4
    <3>3. CASE i # 1 /\ ~(i - 1 <= Len(q))
      <4>1. i - 1 \in 1 .. n /\ ~(i <= Len(q))
        BY <1>1, <3>3
      <4>2. g[i - 1] = NULL /\ g[i] = NULL
        BY <3>3, <4>1
      <4> HIDE DEF D, g
      <4> QED
        BY <1>1, <3>3, <4>2
    <3> QED
      BY <3>1, <3>2, <3>3
  <2> HIDE DEF n
  <2> QED
    BY <2>2
<1>4. at = F(at)
  <2>1. \E f : f = F(f)
    BY <1>3
  <2> HIDE DEF F
  <2> QED
    BY <2>1
<1>5. at = g
  <2> DEFINE T == {i \in 1 .. n : at[i] # g[i]}
  <2> HIDE DEF at, g
  <2>1. T = {}
    <3> SUFFICES ASSUME T # {} PROVE FALSE
      OBVIOUS
    <3>1. PICK m \in T : \A y \in T : m <= y
      <4>1. T \subseteq Nat
        BY <1>1
      <4> HIDE DEF T
      <4> QED
        BY <4>1, Least
    <3>2. m \in 1 .. n /\ at[m] # g[m]
      OBVIOUS
    <3>3. m # 1
      BY <1>3, <1>4, <3>2
    <3>4. m - 1 \in 1 .. n /\ ~(m <= m - 1)
      BY <1>1, <3>2, <3>3
    <3>5. at[m - 1] = g[m - 1]
      BY <3>1, <3>4
    <3>6. /\ at[m] = IF at[m - 1] \in DOMAIN h THEN h[at[m - 1]].next ELSE NULL
          /\ g[m] = IF g[m - 1] \in DOMAIN h THEN h[g[m - 1]].next ELSE NULL
      <4> HIDE DEF n
      <4> QED
        BY <1>3, <1>4, <3>2, <3>3
    <3> QED
      BY <3>2, <3>5, <3>6
  <2>2. DOMAIN at = 1 .. n /\ DOMAIN g = 1 .. n
    BY <1>3, <1>4
  <2>3. at = [i \in 1 .. n |-> at[i]] /\ g = [i \in 1 .. n |-> g[i]]
    BY <1>3, <1>4
  <2> QED
    BY <2>1, <2>3
<1> DEFINE met == CHOOSE j \in 0 .. n : \A i \in 1 .. n : at[i] # NULL <=> i <= j
<1>6. met = Len(q)
  <2>1. \A i \in 1 .. n : g[i] # NULL <=> i <= Len(q)
    BY <1>1
  <2>0. Len(q) \in 0 .. n
    BY <1>1, <1>2
  <2> HIDE DEF g, at, n
  <2>2. Len(q) \in 0 .. n /\ \A i \in 1 .. n : at[i] # NULL <=> i <= Len(q)
    BY <1>5, <2>0, <2>1
  <2>3. met \in 0 .. n /\ \A i \in 1 .. n : at[i] # NULL <=> i <= met
    BY <2>2
  <2> HIDE DEF met
  <2>4. \A i \in 1 .. n : i <= met <=> i <= Len(q)
    BY <2>2, <2>3
  <2>5. n \in Nat
    BY <1>1 DEF n
  <2>6. ~(met < Len(q))
    <3> SUFFICES ASSUME met < Len(q) PROVE FALSE
      OBVIOUS
    <3>1. Len(q) \in 1 .. n /\ Len(q) <= Len(q) /\ ~(Len(q) <= met)
      BY <2>2, <2>3, <2>5, <1>1
    <3> QED
      BY <2>4, <3>1
  <2>7. ~(Len(q) < met)
    <3> SUFFICES ASSUME Len(q) < met PROVE FALSE
      OBVIOUS
    <3>1. met \in 1 .. n /\ met <= met /\ ~(met <= Len(q))
      BY <2>2, <2>3, <2>5, <1>1
    <3> QED
      BY <2>4, <3>1
  <2> QED
    BY <1>1, <2>3, <2>5, <2>6, <2>7
<1>7. [i \in 1 .. met |-> at[i]] = q
  <2>1. \A i \in 1 .. Len(q) : g[i] = q[i]
    BY <1>1, <1>2
  <2> HIDE DEF met, at, g
  <2>2. \A i \in 1 .. Len(q) : at[i] = q[i]
    BY <1>5, <2>1
  <2>3. q = [i \in 1 .. Len(q) |-> q[i]]
    BY <1>1
  <2> QED
    BY <1>6, <2>2, <2>3
<1>8. Walk(h, l.head) = [i \in 1 .. met |-> at[i]]
  BY DEF Walk
<1> QED
  BY <1>7, <1>8

-----------------------------------------------------------------------------
(***************************************************************************)
(* The nodes of all buckets, one after the other.                          *)
(***************************************************************************)
LEMMA ConcatRange ==
    ASSUME NEW A, NEW s \in Seq(A), NEW t \in Seq(A)
    PROVE  Range(s \o t) = Range(s) \cup Range(t)
<1> DEFINE n == Len(s)
           k == Len(t)
           u == s \o t
<1>1. /\ n \in Nat /\ k \in Nat /\ u \in Seq(A) /\ DOMAIN s = 1 .. n /\ DOMAIN t = 1 .. k
      /\ DOMAIN u = 1 .. n + k
      /\ \A i \in 1 .. n : u[i] = s[i]
      /\ \A i \in 1 .. n + k : i > n => u[i] = t[i - n] /\ i - n \in 1 .. k
      /\ \A i \in 1 .. k : u[n + i] = t[i] /\ n + i \in 1 .. n + k
  OBVIOUS
<1> HIDE DEF u, n, k
<1>2. Range(u) = Range(s) \cup Range(t)
  <2>1. ASSUME NEW i \in 1 .. n + k PROVE u[i] \in Range(s) \cup Range(t)
    <3>1. CASE i <= n
      <4>1. i \in 1 .. n
        BY <1>1, <3>1
      <4> QED
        BY <1>1, <4>1 DEF Range
    <3>2. CASE i > n
      <4>1. i - n \in 1 .. k /\ u[i] = t[i - n]
        BY <1>1, <3>2
      <4> QED
        BY <1>1, <4>1 DEF Range
    <3> QED
      BY <1>1, <3>1, <3>2
  <2>2. ASSUME NEW i \in 1 .. n PROVE s[i] \in Range(u)
    <3>1. i \in 1 .. n + k
      BY <1>1
    <3> QED
      BY <1>1, <3>1 DEF Range
  <2>3. ASSUME NEW i \in 1 .. k PROVE t[i] \in Range(u)
    BY <1>1 DEF Range
  <2>4. Range(u) \subseteq Range(s) \cup Range(t)
    BY <1>1, <2>1 DEF Range
  <2>5. Range(s) \subseteq Range(u)
    BY <1>1, <2>2 DEF Range
  <2>6. Range(t) \subseteq Range(u)
    BY <1>1, <2>3 DEF Range
  <2> QED
    BY <2>4, <2>5, <2>6
<1> QED
  BY <1>2 DEF u

LEMMA ConcatOk ==
    ASSUME NEW A, NEW s \in Seq(A), NEW t \in Seq(A), IsInjective(s), IsInjective(t),
           \A x \in Range(s) : x \notin Range(t)
    PROVE  s \o t \in Seq(A) /\ IsInjective(s \o t) /\ Range(s \o t) = Range(s) \cup Range(t)
<1> DEFINE n == Len(s)
           k == Len(t)
           u == s \o t
<1>1. /\ n \in Nat /\ k \in Nat /\ u \in Seq(A) /\ DOMAIN s = 1 .. n /\ DOMAIN t = 1 .. k
      /\ DOMAIN u = 1 .. n + k
      /\ \A i \in 1 .. n : u[i] = s[i]
      /\ \A i \in 1 .. n + k : i > n => u[i] = t[i - n] /\ i - n \in 1 .. k
      /\ \A i \in 1 .. k : u[n + i] = t[i] /\ n + i \in 1 .. n + k
  OBVIOUS
<1> HIDE DEF u, n, k
<1>2. IsInjective(u)
  <2>1. \A i \in 1 .. n : u[i] \in Range(s) /\ \A j \in 1 .. n : s[i] = s[j] => i = j
    BY <1>1 DEF Range, IsInjective
  <2>2. \A i \in 1 .. k : t[i] \in Range(t) /\ \A j \in 1 .. k : t[i] = t[j] => i = j
    BY <1>1 DEF Range, IsInjective
  <2>3. ASSUME NEW i \in 1 .. n + k, NEW j \in 1 .. n + k, u[i] = u[j] PROVE i = j
    <3>1. CASE i <= n /\ j <= n
      <4>1. i \in 1 .. n /\ j \in 1 .. n
        BY <1>1, <3>1
      <4> QED
        BY <1>1, <2>1, <2>3, <4>1
    <3>2. CASE i > n /\ j > n
      <4>1. i - n \in 1 .. k /\ j - n \in 1 .. k /\ u[i] = t[i - n] /\ u[j] = t[j - n]
        BY <1>1, <3>2
      <4>2. i - n = j - n
        BY <2>2, <2>3, <4>1
      <4> QED
        BY <1>1, <4>2
    <3>3. CASE i <= n /\ j > n
      <4>1. i \in 1 .. n /\ j - n \in 1 .. k /\ u[j] = t[j - n]
        BY <1>1, <3>3
      <4> QED
        BY <2>1, <2>2, <2>3, <4>1
    <3>4. CASE i > n /\ j <= n
      <4>1. j \in 1 .. n /\ i - n \in 1 .. k /\ u[i] = t[i - n]
        BY <1>1, <3>4
      <4> QED
        BY <2>1, <2>2, <2>3, <4>1
    <3> QED
      BY <1>1, <3>1, <3>2, <3>3, <3>4
  <2> QED
    BY <1>1, <2>3 DEF IsInjective
<1>3. Range(u) = Range(s) \cup Range(t)
  BY ConcatRange DEF u
<1> QED
  BY <1>1, <1>2, <1>3 DEF u

Flat(n, s, g) == \A i \in 1 .. n : g[i] = IF i = 1 THEN s[i] ELSE g[i - 1] \o s[i]

LEMMA FlatExists ==
    ASSUME NEW A, NEW s \in Seq(Seq(A)), NEW n \in 1 .. Len(s)
    PROVE  \E g \in [1 .. n -> Seq(A)] : Flat(n, s, g)
<1> DEFINE T == {m \in 1 .. n : ~ \E g \in [1 .. m -> Seq(A)] : Flat(m, s, g)}
<1>0. n \in Nat /\ \A i \in 1 .. n : s[i] \in Seq(A)
  OBVIOUS
<1> SUFFICES ASSUME T # {} PROVE FALSE
  <2>1. n \in 1 .. n
    OBVIOUS
  <2> QED
    BY <2>1
<1>1. PICK m \in T : \A y \in T : m <= y
  <2>1. T \subseteq Nat
    OBVIOUS
  <2> HIDE DEF T
  <2> QED
    BY <2>1, Least
<1>2. m \in 1 .. n /\ ~ \E g \in [1 .. m -> Seq(A)] : Flat(m, s, g)
  OBVIOUS
<1>3. m # 1
  <2> SUFFICES ASSUME m = 1 PROVE FALSE
    OBVIOUS
  <2> DEFINE g == [k \in 1 .. 1 |-> s[1]]
  <2>1. g \in [1 .. m -> Seq(A)] /\ Flat(m, s, g)
    BY <1>0, <1>2 DEF Flat
  <2> QED
    BY <1>2, <2>1
<1>4. m - 1 \in 1 .. n /\ ~(m <= m - 1) /\ m \in Nat /\ m > 1
  BY <1>0, <1>2, <1>3
<1>5. PICK g \in [1 .. m - 1 -> Seq(A)] : Flat(m - 1, s, g)
  BY <1>1, <1>4
<1> DEFINE h == [k \in 1 .. m |-> IF k = m THEN g[m - 1] \o s[m] ELSE g[k]]
<1>6. /\ \A k \in 1 .. m : k # m => k \in 1 .. m - 1 /\ h[k] = g[k]
      /\ m \in 1 .. m /\ m - 1 \in 1 .. m - 1
  BY <1>4
<1>7. h[m] = g[m - 1] \o s[m] /\ g[m - 1] \o s[m] \in Seq(A)
  <2>1. g[m - 1] \in Seq(A) /\ s[m] \in Seq(A)
    BY <1>0, <1>2, <1>5, <1>6
  <2>2. h[m] = g[m - 1] \o s[m]
    BY <1>6
  <2>3. ASSUME NEW x \in Seq(A), NEW y \in Seq(A) PROVE x \o y \in Seq(A)
    OBVIOUS
  <2> HIDE DEF h
  <2> QED
    BY <2>1, <2>2, <2>3
<1>8. h \in [1 .. m -> Seq(A)]
  BY <1>6, <1>7
<1> HIDE DEF h
<1>9. Flat(m, s, h)
  <2>1. ASSUME NEW k \in 1 .. m PROVE h[k] = IF k = 1 THEN s[k] ELSE h[k - 1] \o s[k]
    <3>1. CASE k = m
      <4>1. h[m - 1] = g[m - 1]
        BY <1>4, <1>6
      <4> QED
        BY <1>3, <1>7, <3>1, <4>1
    <3>2. CASE k # m
      <4>1. k \in 1 .. m - 1 /\ h[k] = g[k]
        BY <1>6, <3>2
      <4>2. g[k] = IF k = 1 THEN s[k] ELSE g[k - 1] \o s[k]
        BY <1>5, <4>1 DEF Flat
      <4>3. k # 1 => k - 1 \in 1 .. m /\ k - 1 # m
        BY <1>4, <4>1
      <4>4. k # 1 => h[k - 1] = g[k - 1]
        BY <1>6, <4>3
      <4> QED
        BY <4>1, <4>2, <4>4
    <3> QED
      BY <3>1, <3>2
  <2> QED
    BY <2>1 DEF Flat
<1> QED
  BY <1>2, <1>8, <1>9

\* FlattenSeq is the last of the prefixes that it computes.
LEMMA FlatPrefixes ==
    ASSUME NEW A, NEW s \in Seq(Seq(A)), Len(s) # 0
    PROVE  \E f : Flat(Len(s), s, f) /\ FlattenSeq(s) = f[Len(s)]
<1> DEFINE n == Len(s)
           F(f) == [i \in 1 .. n |-> IF i = 1 THEN s[i] ELSE f[i - 1] \o s[i]]
           fl == CHOOSE f : f = F(f)
<1>1. n \in Nat /\ n >= 1 /\ n \in 1 .. n
  OBVIOUS
<1> HIDE DEF n
<1>2. fl = F(fl)
  <2>1. PICK g \in [1 .. n -> Seq(A)] : Flat(n, s, g)
    BY <1>1, FlatExists DEF n
  <2>2. g = F(g)
    <3>1. g = [i \in 1 .. n |-> g[i]]
      OBVIOUS
    <3> QED
      BY <2>1, <3>1 DEF Flat
  <2> HIDE DEF F
  <2> QED
    BY <2>2
<1>3. Flat(n, s, fl)
  <2> HIDE DEF fl
  <2> QED
    BY <1>2 DEF Flat
<1>4. FlattenSeq(s) = fl[n]
  BY <1>1 DEF FlattenSeq, n
<1> QED
  BY <1>3, <1>4 DEF n

\* All nodes of disjoint lists.
Disjoint(s) == /\ \A i \in 1 .. Len(s) : IsInjective(s[i])
               /\ \A i, j \in 1 .. Len(s) : i # j => \A x \in Range(s[i]) : x \notin Range(s[j])

LEMMA FlattenOk ==
    ASSUME NEW A, NEW s \in Seq(Seq(A)), Len(s) # 0, Disjoint(s)
    PROVE  /\ FlattenSeq(s) \in Seq(A) /\ IsInjective(FlattenSeq(s))
           /\ \A x : x \in Range(FlattenSeq(s)) <=> \E i \in 1 .. Len(s) : x \in Range(s[i])
<1> DEFINE n == Len(s)
<1>1. n \in Nat /\ n >= 1 /\ n \in 1 .. n /\ \A i \in 1 .. n : s[i] \in Seq(A)
  OBVIOUS
<1>2. PICK fl : Flat(n, s, fl) /\ FlattenSeq(s) = fl[n]
  BY FlatPrefixes
<1> HIDE DEF n
<1>3. \A i \in 1 .. n : fl[i] = IF i = 1 THEN s[i] ELSE fl[i - 1] \o s[i]
  BY <1>2 DEF Flat
<1>4. FlattenSeq(s) = fl[n]
  BY <1>2
<1> DEFINE Q(i) == /\ fl[i] \in Seq(A) /\ IsInjective(fl[i])
                   /\ \A x : x \in Range(fl[i]) <=> \E j \in 1 .. i : x \in Range(s[j])
           T == {i \in 1 .. n : ~Q(i)}
<1>5. T = {}
  <2> SUFFICES ASSUME T # {} PROVE FALSE
    OBVIOUS
  <2>1. PICK m \in T : \A y \in T : m <= y
    <3>1. T \subseteq Nat
      BY <1>1
    <3> HIDE DEF T
    <3> QED
      BY <3>1, Least
  <2>2. m \in 1 .. n /\ ~Q(m)
    OBVIOUS
  <2>3. CASE m = 1
    <3>1. fl[m] = s[1] /\ 1 \in 1 .. n
      BY <1>1, <1>3, <2>2, <2>3
    <3>2. fl[m] \in Seq(A) /\ IsInjective(fl[m])
      BY <1>1, <3>1 DEF Disjoint, n
    <3>3. \A x : x \in Range(fl[m]) <=> \E j \in 1 .. m : x \in Range(s[j])
      <4>1. \A j \in 1 .. m : j = 1
        BY <2>3
      <4>2. 1 \in 1 .. m
        BY <2>3
      <4> QED
        BY <3>1, <4>1, <4>2
    <3> QED
      BY <2>2, <3>2, <3>3
  <2>4. CASE m # 1
    <3>1. m - 1 \in 1 .. n /\ ~(m <= m - 1) /\ m \in Nat
      BY <1>1, <2>2, <2>4
    <3>2. Q(m - 1)
      BY <2>1, <3>1
    <3>3. fl[m] = fl[m - 1] \o s[m]
      BY <1>3, <2>2, <2>4
    <3>4. s[m] \in Seq(A) /\ IsInjective(s[m])
      BY <1>1, <2>2 DEF Disjoint, n
    <3>5. \A x \in Range(fl[m - 1]) : x \notin Range(s[m])
      <4>1. ASSUME NEW x \in Range(fl[m - 1]) PROVE x \notin Range(s[m])
        <5>1. PICK j \in 1 .. m - 1 : x \in Range(s[j])
          BY <3>2
        <5>2. j \in 1 .. n /\ j # m
          BY <1>1, <2>2, <3>1
        <5> QED
          BY <2>2, <5>1, <5>2 DEF Disjoint, n
      <4> QED
        BY <4>1
    <3>6. /\ fl[m] \in Seq(A) /\ IsInjective(fl[m])
          /\ Range(fl[m]) = Range(fl[m - 1]) \cup Range(s[m])
      BY <3>2, <3>3, <3>4, <3>5, ConcatOk
    <3>7. \A x : x \in Range(fl[m]) <=> \E j \in 1 .. m : x \in Range(s[j])
      <4>1. /\ \A j \in 1 .. m : j \in 1 .. m - 1 \/ j = m
            /\ \A j \in 1 .. m - 1 : j \in 1 .. m
            /\ m \in 1 .. m
        BY <2>2, <3>1
      <4>2. \A x : x \in Range(fl[m - 1]) <=> \E j \in 1 .. m - 1 : x \in Range(s[j])
        BY <3>2
      <4> HIDE DEF Q, T
      <4> QED
        BY <3>6, <4>1, <4>2
    <3> QED
      BY <2>2, <3>6, <3>7
  <2> QED
    BY <2>3, <2>4
<1>6. Q(n)
  BY <1>1, <1>5
<1> QED
  BY <1>4, <1>6 DEF n


\* What comes after a in the sequence u.
Beyond(u, a) == {u[j] : j \in {x \in DOMAIN u : \E y \in 1 .. (x - 1) : u[y] = a}}

LEMMA BeyondIn ==
    ASSUME NEW A, NEW u \in Seq(A), NEW a, NEW b
    PROVE  b \in Beyond(u, a)
             <=> \E x, y \in 1 .. Len(u) : y < x /\ u[y] = a /\ u[x] = b
<1>1. Len(u) \in Nat /\ DOMAIN u = 1 .. Len(u)
  OBVIOUS
<1> DEFINE n == Len(u)
<1> HIDE DEF n
<1>2. ASSUME b \in Beyond(u, a) PROVE \E x, y \in 1 .. n : y < x /\ u[y] = a /\ u[x] = b
  <2>1. PICK x \in DOMAIN u : (\E y \in 1 .. (x - 1) : u[y] = a) /\ u[x] = b
    BY <1>2 DEF Beyond
  <2>2. PICK y \in 1 .. (x - 1) : u[y] = a
    BY <2>1
  <2>3. n \in Nat /\ x \in 1 .. n
    BY <1>1 DEF n
  <2>4. y \in 1 .. n /\ y < x
    BY <2>3
  <2> QED
    BY <2>1, <2>2, <2>3, <2>4
<1>3. ASSUME NEW x \in 1 .. n, NEW y \in 1 .. n, y < x, u[y] = a, u[x] = b PROVE b \in Beyond(u, a)
  <2>1. n \in Nat /\ x \in DOMAIN u
    BY <1>1 DEF n
  <2>2. y \in 1 .. (x - 1)
    BY <1>3, <2>1
  <2> QED
    BY <1>3, <2>1, <2>2 DEF Beyond
<1> QED
  BY <1>2, <1>3 DEF n

Apart(s, t) == \A x \in Range(s) : x \notin Range(t)

LEMMA BeyondConcat ==
    ASSUME NEW A, NEW s \in Seq(A), NEW t \in Seq(A), Apart(s, t), NEW a
    PROVE  /\ a \in Range(s) => Beyond(s \o t, a) = Beyond(s, a) \cup Range(t)
           /\ a \in Range(t) => Beyond(s \o t, a) = Beyond(t, a)
<1> DEFINE n == Len(s)
           k == Len(t)
           u == s \o t
<1>1. /\ n \in Nat /\ k \in Nat /\ u \in Seq(A) /\ DOMAIN s = 1 .. n /\ DOMAIN t = 1 .. k
      /\ DOMAIN u = 1 .. n + k /\ Len(u) = n + k
      /\ \A i \in 1 .. n : u[i] = s[i] /\ i \in 1 .. n + k
      /\ \A i \in 1 .. n + k : i > n => u[i] = t[i - n] /\ i - n \in 1 .. k
      /\ \A i \in 1 .. k : u[n + i] = t[i] /\ n + i \in 1 .. n + k
  OBVIOUS
<1>2. \A b : b \in Beyond(u, a) <=> \E x, y \in 1 .. n + k : y < x /\ u[y] = a /\ u[x] = b
  <2>1. u \in Seq(A) /\ Len(u) = n + k
    BY <1>1
  <2> HIDE DEF u, n, k
  <2>2. \A b : b \in Beyond(u, a) <=> \E x, y \in 1 .. Len(u) : y < x /\ u[y] = a /\ u[x] = b
    BY <2>1, BeyondIn
  <2> QED
    BY <2>1, <2>2
<1>3. \A b : b \in Beyond(s, a) <=> \E x, y \in 1 .. n : y < x /\ s[y] = a /\ s[x] = b
  BY BeyondIn
<1>4. \A b : b \in Beyond(t, a) <=> \E x, y \in 1 .. k : y < x /\ t[y] = a /\ t[x] = b
  BY BeyondIn
<1> HIDE DEF u, n, k
<1>5. \A i \in 1 .. n : s[i] \in Range(s)
  BY <1>1 DEF Range
<1>6. \A i \in 1 .. k : t[i] \in Range(t)
  BY <1>1 DEF Range
<1>7. \A i \in 1 .. n + k : i > n \/ i \in 1 .. n
  BY <1>1
<1>8. ASSUME a \in Range(s) PROVE Beyond(u, a) = Beyond(s, a) \cup Range(t)
  <2>1. ASSUME NEW b \in Beyond(u, a) PROVE b \in Beyond(s, a) \cup Range(t)
    <3>1. PICK x \in 1 .. n + k, y \in 1 .. n + k : y < x /\ u[y] = a /\ u[x] = b
      BY <1>2
    <3>2. CASE x > n
      <4>1. u[x] = t[x - n] /\ x - n \in 1 .. k
        BY <1>1, <3>2
      <4> QED
        BY <1>6, <3>1, <4>1
    <3>3. CASE x \in 1 .. n
      <4>1. y \in 1 .. n
        BY <1>1, <3>1, <3>3
      <4>2. u[x] = s[x] /\ u[y] = s[y]
        BY <1>1, <3>3, <4>1
      <4> QED
        BY <1>3, <3>1, <3>3, <4>1, <4>2
    <3> QED
      BY <1>7, <3>2, <3>3
  <2>2. ASSUME NEW b \in Beyond(s, a) PROVE b \in Beyond(u, a)
    <3>1. PICK x \in 1 .. n, y \in 1 .. n : y < x /\ s[y] = a /\ s[x] = b
      BY <1>3
    <3>2. x \in 1 .. n + k /\ y \in 1 .. n + k /\ u[x] = s[x] /\ u[y] = s[y]
      BY <1>1
    <3> QED
      BY <1>2, <3>1, <3>2
  <2>3. ASSUME NEW b \in Range(t) PROVE b \in Beyond(u, a)
    <3>1. PICK x \in 1 .. k : t[x] = b
      BY <1>1 DEF Range
    <3>2. PICK y \in 1 .. n : s[y] = a
      BY <1>1, <1>8 DEF Range
    <3>3. u[n + x] = b /\ n + x \in 1 .. n + k /\ u[y] = a /\ y \in 1 .. n + k
      BY <1>1, <3>1, <3>2
    <3>4. y < n + x
      BY <1>1
    <3> QED
      BY <1>2, <3>3, <3>4
  <2> QED
    BY <2>1, <2>2, <2>3
<1>9. ASSUME a \in Range(t) PROVE Beyond(u, a) = Beyond(t, a)
  <2>1. ASSUME NEW b \in Beyond(u, a) PROVE b \in Beyond(t, a)
    <3>1. PICK x \in 1 .. n + k, y \in 1 .. n + k : y < x /\ u[y] = a /\ u[x] = b
      BY <1>2
    <3>2. y > n
      <4> SUFFICES ASSUME y \in 1 .. n PROVE FALSE
        BY <1>7
      <4>1. u[y] = s[y] /\ s[y] \in Range(s)
        BY <1>1, <1>5
      <4> QED
        BY <1>9, <3>1, <4>1 DEF Apart
    <3>3. x > n /\ x \in Int /\ y \in Int
      BY <1>1, <3>1, <3>2
    <3>4. u[x] = t[x - n] /\ u[y] = t[y - n] /\ x - n \in 1 .. k /\ y - n \in 1 .. k
      BY <1>1, <3>2, <3>3
    <3>5. y - n < x - n
      BY <1>1, <3>1, <3>3
    <3> QED
      BY <1>4, <3>1, <3>4, <3>5
  <2>2. ASSUME NEW b \in Beyond(t, a) PROVE b \in Beyond(u, a)
    <3>1. PICK x \in 1 .. k, y \in 1 .. k : y < x /\ t[y] = a /\ t[x] = b
      BY <1>4
    <3>2. /\ n + x \in 1 .. n + k /\ n + y \in 1 .. n + k /\ u[n + x] = b /\ u[n + y] = a
      BY <1>1, <3>1
    <3>3. n + y < n + x
      BY <1>1, <3>1
    <3> QED
      BY <1>2, <3>2, <3>3
  <2> QED
    BY <2>1, <2>2
<1> QED
  BY <1>8, <1>9 DEF u

\* What comes after a node of the i-th list: the rest of that list and the later lists.
LEMMA FlattenOrder ==
    ASSUME NEW A, NEW s \in Seq(Seq(A)), Disjoint(s), NEW i \in 1 .. Len(s), NEW a \in Range(s[i])
    PROVE  \A b : b \in Beyond(FlattenSeq(s), a)
                    <=> b \in Beyond(s[i], a) \/ \E j \in 1 .. Len(s) : j > i /\ b \in Range(s[j])
<1> DEFINE n == Len(s)
<1>1. n \in Nat /\ n # 0 /\ n \in 1 .. n /\ \A k \in 1 .. n : s[k] \in Seq(A)
  <2>1. n \in Nat /\ i \in 1 .. n /\ \A k \in 1 .. n : s[k] \in Seq(A)
    OBVIOUS
  <2>2. n # 0 /\ n \in 1 .. n
    <3> HIDE DEF n
    <3> QED
      BY <2>1
  <2> QED
    BY <2>1, <2>2
<1>2. PICK fl : Flat(n, s, fl) /\ FlattenSeq(s) = fl[n]
  BY <1>1, FlatPrefixes
<1> HIDE DEF n
<1>3. i \in 1 .. n /\ i >= 1
  BY DEF n
<1>4. \A k \in 1 .. n : fl[k] = IF k = 1 THEN s[k] ELSE fl[k - 1] \o s[k]
  BY <1>2 DEF Flat
<1> DEFINE R(k) == /\ fl[k] \in Seq(A)
                   /\ \A x : x \in Range(fl[k]) <=> \E j \in 1 .. k : x \in Range(s[j])
                   /\ i <= k => \A b : b \in Beyond(fl[k], a)
                           <=> b \in Beyond(s[i], a) \/ \E j \in 1 .. k : j > i /\ b \in Range(s[j])
           T == {k \in 1 .. n : ~R(k)}
<1>5. \A x \in 1 .. n, y \in 1 .. n : x # y => \A z \in Range(s[x]) : z \notin Range(s[y])
  BY DEF Disjoint, n
<1>6. T = {}
  <2> SUFFICES ASSUME T # {} PROVE FALSE
    OBVIOUS
  <2>1. PICK m \in T : \A y \in T : m <= y
    <3>1. T \subseteq Nat
      BY <1>1
    <3> HIDE DEF T
    <3> QED
      BY <3>1, Least
  <2>2. m \in 1 .. n /\ ~R(m) /\ m \in Nat
    BY <1>1
  <2>3. CASE m = 1
    <3>1. fl[m] = s[1] /\ fl[m] \in Seq(A)
      BY <1>1, <1>4, <2>2, <2>3
    <3>2. /\ \A j \in 1 .. m : j = 1
          /\ 1 \in 1 .. m
          /\ i <= m => i = 1
      BY <1>1, <1>3, <2>3
    <3>3. \A x : x \in Range(fl[m]) <=> \E j \in 1 .. m : x \in Range(s[j])
      BY <3>1, <3>2
    <3>4. i <= m => \A b : b \in Beyond(fl[m], a)
                  <=> b \in Beyond(s[i], a) \/ \E j \in 1 .. m : j > i /\ b \in Range(s[j])
      <4> SUFFICES ASSUME i <= m
                   PROVE  \A b : b \in Beyond(fl[m], a)
                            <=> b \in Beyond(s[i], a) \/ \E j \in 1 .. m : j > i /\ b \in Range(s[j])
        OBVIOUS
      <4>1. i = 1 /\ ~(1 > i)
        BY <3>2
      <4>2. \A j \in 1 .. m : ~(j > i)
        BY <3>2, <4>1
      <4> HIDE DEF T, R
      <4> QED
        BY <3>1, <4>1, <4>2
    <3> QED
      BY <2>2, <3>1, <3>3, <3>4
  <2>4. CASE m # 1
    <3>1. m - 1 \in 1 .. n /\ ~(m <= m - 1)
      BY <1>1, <2>2, <2>4
    <3>2. R(m - 1)
      BY <2>1, <3>1
    <3>3. fl[m] = fl[m - 1] \o s[m] /\ s[m] \in Seq(A) /\ fl[m - 1] \in Seq(A)
      BY <1>1, <1>4, <2>2, <2>4, <3>2
    <3>4. \A x : x \in Range(fl[m - 1]) <=> \E j \in 1 .. m - 1 : x \in Range(s[j])
      BY <3>2
    <3>5. /\ \A j \in 1 .. m : j \in 1 .. m - 1 \/ j = m
          /\ \A j \in 1 .. m - 1 : j \in 1 .. m /\ j \in 1 .. n /\ j # m /\ j < m
          /\ m \in 1 .. m
      BY <1>1, <2>2, <3>1
    <3>6. \A x \in Range(fl[m - 1]) : x \notin Range(s[m])
      BY <1>5, <2>2, <3>4, <3>5
    <3>7. fl[m] \in Seq(A)
      BY <3>3
    <3>8. Range(fl[m]) = Range(fl[m - 1]) \cup Range(s[m])
      BY <3>3, ConcatRange
    <3>9. \A x : x \in Range(fl[m]) <=> \E j \in 1 .. m : x \in Range(s[j])
      <4> HIDE DEF R, T
      <4> QED
        BY <3>4, <3>5, <3>8
    <3>0. /\ a \in Range(fl[m - 1]) => Beyond(fl[m], a) = Beyond(fl[m - 1], a) \cup Range(s[m])
          /\ a \in Range(s[m]) => Beyond(fl[m], a) = Beyond(s[m], a)
      <4> DEFINE v == fl[m - 1]
                 w == s[m]
      <4>1. v \in Seq(A) /\ w \in Seq(A) /\ Apart(v, w) /\ fl[m] = v \o w
        BY <3>3, <3>6 DEF Apart
      <4> HIDE DEF v, w, R, T
      <4>2. /\ a \in Range(v) => Beyond(v \o w, a) = Beyond(v, a) \cup Range(w)
            /\ a \in Range(w) => Beyond(v \o w, a) = Beyond(w, a)
        BY <4>1, BeyondConcat
      <4> QED
        BY <4>1, <4>2 DEF v, w
    <3>10. CASE i = m
      <4>1. Beyond(fl[m], a) = Beyond(s[m], a)
        <5> HIDE DEF R, T
        <5> QED
          BY <3>0, <3>10
      <4>2. \A j \in 1 .. m : ~(j > i)
        BY <2>2, <3>10
      <4>3. \A b : b \in Beyond(fl[m], a)
                  <=> b \in Beyond(s[i], a) \/ \E j \in 1 .. m : j > i /\ b \in Range(s[j])
        <5> HIDE DEF R, T
        <5> QED
          BY <3>10, <4>1, <4>2
      <4> QED
        BY <2>2, <3>7, <3>9, <4>3
    <3>11. CASE i < m
      <4>1. i <= m - 1 /\ i \in 1 .. m - 1
        BY <1>3, <2>2, <3>11
      <4>2. a \in Range(fl[m - 1])
        BY <3>4, <4>1
      <4>3. Beyond(fl[m], a) = Beyond(fl[m - 1], a) \cup Range(s[m])
        <5> HIDE DEF R, T
        <5> QED
          BY <3>0, <4>2
      <4>4. \A b : b \in Beyond(fl[m - 1], a)
                  <=> b \in Beyond(s[i], a) \/ \E j \in 1 .. m - 1 : j > i /\ b \in Range(s[j])
        BY <3>2, <4>1
      <4>5. \A b : b \in Beyond(fl[m], a)
                  <=> b \in Beyond(s[i], a) \/ \E j \in 1 .. m : j > i /\ b \in Range(s[j])
        <5>1. m > i
          BY <1>3, <2>2, <3>11
        <5> HIDE DEF R, T
        <5> QED
          BY <3>5, <4>3, <4>4, <5>1
      <4> QED
        BY <2>2, <3>7, <3>9, <4>5
    <3>12. CASE i > m
      <4>1. ~(i <= m)
        BY <1>3, <2>2, <3>12
      <4> QED
        BY <2>2, <3>7, <3>9, <4>1
    <3> QED
      BY <1>3, <2>2, <3>10, <3>11, <3>12
  <2> QED
    BY <2>3, <2>4
<1>7. R(n) /\ i <= n
  <2>1. n \notin T
    BY <1>6
  <2>2. R(n)
    BY <1>1, <2>1
  <2>3. i <= n
    BY <1>1, <1>3
  <2> QED
    BY <2>2, <2>3
<1> QED
  BY <1>2, <1>7 DEF n

-----------------------------------------------------------------------------
(***************************************************************************)
(* One operation on one list.                                              *)
(***************************************************************************)
\* A list is left alone by what does not touch its nodes.
LEMMA Frame ==
    ASSUME NEW h, NEW g, NEW l, NEW q, Chain(h, l, q),
           \A x \in Range(q) : x \in DOMAIN g /\ g[x] = h[x]
    PROVE  Chain(g, l, q) /\ (Back(h, q) => Back(g, q))
<1>1. q \in Seq(DOMAIN h) /\ Len(q) \in Nat /\ q = [i \in 1 .. Len(q) |-> q[i]]
  BY DEF Chain
<1>2. \A i \in 1 .. Len(q) : q[i] \in DOMAIN g /\ g[q[i]] = h[q[i]]
  BY <1>1 DEF Range
<1>3. q \in Seq(DOMAIN g)
  BY <1>1, <1>2
<1>4. Chain(g, l, q)
  BY <1>2, <1>3 DEF Chain
<1>5. Back(h, q) => Back(g, q)
  BY <1>2 DEF Back
<1> QED
  BY <1>4, <1>5

LEMMA NodeFields ==
    ASSUME NEW h, HeapOk(h), NEW x \in DOMAIN h
    PROVE  /\ h[x] = [key |-> h[x].key, data |-> h[x].data, prev |-> h[x].prev, next |-> h[x].next]
           /\ h[x].key \in Keys \cup {NULL} /\ h[x].data \in Data \cup Keys \cup {NULL}
           /\ h[x].prev \in Pointers /\ h[x].next \in Pointers
<1>1. h[x] \in NodeT
  BY DEF HeapOk
<1> QED
  BY <1>1 DEF NodeT

\* list_push_back adds a new node at the end.
Pushed(h, q, r, f, key, data) ==
    /\ f \in Addresses /\ f \notin DOMAIN h
    /\ HeapOk(r.heap) /\ DOMAIN r.heap = DOMAIN h \cup {f}
    /\ Chain(r.heap, r.list, Append(q, f))
    /\ Back(h, q) => Back(r.heap, Append(q, f))
    /\ r.heap[f].key = key /\ r.heap[f].data = data
    /\ \A x \in DOMAIN h : /\ r.heap[x].key = h[x].key /\ r.heap[x].data = h[x].data
                           /\ x \notin Range(q) => r.heap[x] = h[x]

LEMMA PushBack ==
    ASSUME NEW h, HeapOk(h), NEW l, NEW q, Chain(h, l, q),
           NEW key \in Keys \cup {NULL}, NEW data \in Data \cup Keys \cup {NULL}
    PROVE  Pushed(h, q, list_push_back(h, l, key, data), Fresh(h), key, data)
<1> DEFINE f == Fresh(h)
           D == DOMAIN h
           r == list_push_back(h, l, key, data)
           g == r.heap
           k == Len(q)
           p == Append(q, f)
           t == IF k = 0 THEN NULL ELSE q[k]
<1>1. /\ f \in Addresses /\ f \notin D /\ IsFiniteSet(D) /\ D \subseteq Addresses
      /\ f # NULL /\ NULL \notin D /\ f \in Pointers
  BY FreshOk, NullAssumption DEF HeapOk, Addresses, Pointers
<1>2. k \in Nat /\ q \in Seq(D) /\ \A i \in 1 .. k : q[i] \in D
  BY DEF Chain
<1>3. /\ p \in Seq(D \cup {f}) /\ Len(p) = k + 1 /\ p[k + 1] = f
      /\ \A i \in 1 .. k : p[i] = q[i]
      /\ DOMAIN p = 1 .. k + 1 /\ DOMAIN q = 1 .. k
  BY <1>2
<1>4. t \in Pointers /\ (k # 0 => t \in D) /\ t # f
  BY <1>1, <1>2 DEF Pointers
<1>t. (k = 0 => t = NULL) /\ (k # 0 => t = q[k])
  OBVIOUS
<1> HIDE DEF f
<1>5. /\ DOMAIN g = D \cup {f}
      /\ g[f] = [key |-> key, data |-> data, prev |-> t, next |-> NULL]
      /\ \A x \in D : x # t => g[x] = h[x]
      /\ k # 0 => g[t] = [h[t] EXCEPT !.next = f]
      /\ g = [x \in D \cup {f} |-> g[x]]
      /\ r.list = [head |-> IF k = 0 THEN f ELSE l.head, tail |-> f, nelem |-> k + 1]
  <2> DEFINE hh == [x \in D \cup {f} |-> IF x = f THEN create_node(key, data) ELSE h[x]]
  <2>1. Malloc(h, create_node(key, data)) = hh
    BY DEF Malloc, f
  <2>2. /\ l.nelem = k /\ l.tail = t
        /\ l = [head |-> l.head, tail |-> l.tail, nelem |-> l.nelem]
    BY DEF Chain
  <2>3. hh[f] = [key |-> key, data |-> data, prev |-> NULL, next |-> NULL]
    BY DEF create_node
  <2>4. \A x \in D : hh[x] = h[x]
    BY <1>1
  <2>5. CASE k = 0
    <3>1. r = [heap |-> hh, list |-> [head |-> f, tail |-> f, nelem |-> 1]]
      BY <2>1, <2>2, <2>5 DEF list_push_back, f
    <3>2. g = hh /\ r.list = [head |-> f, tail |-> f, nelem |-> 1] /\ t = NULL
      BY <2>5, <3>1
    <3> HIDE DEF r, t
    <3> QED
      BY <1>1, <2>3, <2>4, <2>5, <3>2
  <2>6. CASE k # 0
    <3>1. r = [heap |-> [hh EXCEPT ![f].prev = t, ![t].next = f],
               list |-> [l EXCEPT !.tail = f, !.nelem = @ + 1]]
      BY <2>1, <2>2, <2>6 DEF list_push_back, f
    <3>2. /\ g = [hh EXCEPT ![f].prev = t, ![t].next = f]
          /\ r.list = [l EXCEPT !.tail = f, !.nelem = @ + 1]
      BY <3>1
    <3>3. r.list = [head |-> l.head, tail |-> f, nelem |-> k + 1]
      BY <2>2, <3>2
    <3>4. t \in D /\ t # f
      BY <1>4, <2>6
    <3> HIDE DEF r, t
    <3>5. DOMAIN g = D \cup {f} /\ g = [x \in D \cup {f} |-> g[x]]
      BY <3>2
    <3>6. g[f] = [hh[f] EXCEPT !.prev = t] /\ g[t] = [hh[t] EXCEPT !.next = f]
      BY <3>2, <3>4
    <3>7. \A x \in D : x # t => g[x] = hh[x]
      BY <1>1, <3>2
    <3> QED
      BY <2>3, <2>4, <2>6, <3>3, <3>4, <3>5, <3>6, <3>7
  <2> QED
    BY <2>5, <2>6
<1> HIDE DEF r, t
<1>6. \A x \in D : /\ g[x].key = h[x].key /\ g[x].data = h[x].data
                   /\ x \notin Range(q) => g[x] = h[x]
  <2> SUFFICES ASSUME NEW x \in D PROVE /\ g[x].key = h[x].key /\ g[x].data = h[x].data
                                        /\ x \notin Range(q) => g[x] = h[x]
    OBVIOUS
  <2>1. CASE x # t
    BY <1>5, <2>1
  <2>2. CASE x = t
    <3>1. k # 0
      BY <1>1, <2>2 DEF t
    <3>2. x \in Range(q)
      BY <1>2, <1>3, <2>2, <3>1 DEF t, Range
    <3>3. g[x] = [h[x] EXCEPT !.next = f]
      BY <1>5, <2>2, <3>1
    <3> QED
      BY <3>2, <3>3, NodeFields
  <2> QED
    BY <2>1, <2>2
<1>7. HeapOk(g)
  <2>1. IsFiniteSet(D \cup {f}) /\ D \cup {f} \subseteq Addresses
    BY <1>1, FS_AddElement
  <2>2. \A x \in D \cup {f} : g[x] \in NodeT
    <3>1. g[f] \in NodeT
      BY <1>4, <1>5 DEF NodeT, Pointers
    <3>2. ASSUME NEW x \in D, x # t PROVE g[x] \in NodeT
      BY <1>5, <3>2 DEF HeapOk
    <3>3. ASSUME k # 0 PROVE g[t] \in NodeT
      <4>1. t \in D
        BY <1>4, <3>3
      <4>2. g[t] = [key |-> h[t].key, data |-> h[t].data, prev |-> h[t].prev, next |-> f]
        BY <1>5, <3>3, <4>1, NodeFields
      <4> QED
        BY <1>1, <4>1, <4>2, NodeFields DEF NodeT
    <3>4. k = 0 => t \notin D
      BY <1>1 DEF t
    <3> QED
      BY <3>1, <3>2, <3>3, <3>4
  <2> QED
    BY <1>5, <2>1, <2>2 DEF HeapOk
<1>8. Chain(g, r.list, p)
  <2>1. p \in Seq(DOMAIN g)
    BY <1>3, <1>5
  <2>2. IsInjective(p)
    <3>1. ASSUME NEW i \in 1 .. k + 1, NEW j \in 1 .. k + 1, p[i] = p[j] PROVE i = j
      <4>1. \A x \in 1 .. k + 1 : x \in 1 .. k \/ x = k + 1
        BY <1>2
      <4>2. \A x, y \in 1 .. k : q[x] = q[y] => x = y
        BY <1>3 DEF Chain, IsInjective
      <4> HIDE DEF p, k
      <4> QED
        BY <1>1, <1>2, <1>3, <3>1, <4>1, <4>2
    <3> QED
      BY <1>3, <3>1 DEF IsInjective
  <2>3. r.list = [head |-> IF Len(p) = 0 THEN NULL ELSE p[1],
                  tail |-> IF Len(p) = 0 THEN NULL ELSE p[Len(p)],
                  nelem |-> Len(p)]
    <3>1. Len(p) # 0
      BY <1>2, <1>3
    <3>2. p[1] = IF k = 0 THEN f ELSE l.head
      <4>1. k # 0 => 1 \in 1 .. k /\ l.head = q[1]
        BY <1>2 DEF Chain
      <4> HIDE DEF p, k
      <4> QED
        BY <1>3, <4>1
    <3> HIDE DEF p, k
    <3> QED
      BY <1>3, <1>5, <3>1, <3>2
  <2>4. ASSUME NEW i \in 1 .. Len(p) PROVE g[p[i]].next = IF i = Len(p) THEN NULL ELSE p[i + 1]
    <3>1. CASE i = k + 1
      <4> HIDE DEF p, k
      <4> QED
        BY <1>3, <1>5, <3>1
    <3>2. CASE i = k
      <4>1. p[i] = t /\ k # 0 /\ t \in D /\ p[i + 1] = f /\ i # Len(p)
        <5> HIDE DEF p, k
        <5>1. k \in 1 .. k /\ k # 0
          BY <1>2, <1>3, <3>2
        <5> QED
          BY <1>2, <1>3, <1>4, <1>t, <3>2, <5>1
      <4>2. g[t] = [h[t] EXCEPT !.next = f]
        BY <1>5, <4>1
      <4>3. g[t].next = f
        BY <4>1, <4>2, NodeFields
      <4> QED
        BY <4>1, <4>3
    <3>3. CASE i \in 1 .. k /\ i # k
      <4>1. /\ p[i] = q[i] /\ i # Len(p) /\ i + 1 \in 1 .. k /\ p[i + 1] = q[i + 1] /\ k \in 1 .. k
            /\ q[i] \in D
        <5> HIDE DEF p, k
        <5>1. i + 1 \in 1 .. k /\ k \in 1 .. k /\ i # k + 1
          BY <1>2, <3>3
        <5> QED
          BY <1>2, <1>3, <3>3, <5>1
      <4>2. q[i] # t
        <5>1. t = q[k]
          BY <1>2, <3>3 DEF t
        <5> QED
          BY <1>3, <3>3, <4>1, <5>1 DEF Chain, IsInjective
      <4>3. g[q[i]] = h[q[i]]
        BY <1>5, <4>1, <4>2
      <4>4. h[q[i]].next = q[i + 1]
        BY <3>3 DEF Chain
      <4> QED
        BY <4>1, <4>3, <4>4
    <3>4. i = k + 1 \/ i = k \/ (i \in 1 .. k /\ i # k)
      <4> HIDE DEF p, k
      <4> QED
        BY <1>2, <1>3
    <3> QED
      BY <3>1, <3>2, <3>3, <3>4
  <2> QED
    BY <2>1, <2>2, <2>3, <2>4 DEF Chain
<1>9. ASSUME Back(h, q) PROVE Back(g, p)
  <2>1. ASSUME NEW i \in 1 .. Len(p) PROVE g[p[i]].prev = IF i = 1 THEN NULL ELSE p[i - 1]
    <3>1. CASE i = k + 1
      <4>1. g[p[i]].prev = t
        BY <1>3, <1>5, <3>1
      <4>2. k # 0 => k \in 1 .. k /\ p[k] = t /\ i - 1 = k /\ i # 1
        <5> HIDE DEF p, k
        <5>1. k # 0 => k \in 1 .. k
          BY <1>2
        <5> QED
          BY <1>2, <1>3, <1>t, <3>1, <5>1
      <4>3. k = 0 => i = 1 /\ t = NULL
        BY <3>1 DEF t
      <4> QED
        BY <4>1, <4>2, <4>3
    <3>2. CASE i # k + 1
      <4>1. i \in 1 .. k /\ p[i] = q[i] /\ q[i] \in D /\ (i # 1 => i - 1 \in 1 .. k)
        BY <1>2, <1>3, <3>2
      <4>2. h[q[i]].prev = IF i = 1 THEN NULL ELSE q[i - 1]
        BY <1>9, <4>1 DEF Back
      <4>3. g[q[i]].prev = h[q[i]].prev
        <5>1. CASE q[i] # t
          BY <1>5, <4>1, <5>1
        <5>2. CASE q[i] = t
          <6>1. k # 0
            BY <4>1
          <6>2. g[q[i]] = [h[q[i]] EXCEPT !.next = f]
            BY <1>5, <5>2, <6>1
          <6> QED
            BY <4>1, <6>2, NodeFields
        <5> QED
          BY <5>1, <5>2
      <4>4. i # 1 => p[i - 1] = q[i - 1]
        BY <1>3, <4>1
      <4> QED
        BY <4>1, <4>2, <4>3, <4>4
    <3> QED
      BY <3>1, <3>2
  <2> QED
    BY <2>1 DEF Back
<1>10. g[f].key = key /\ g[f].data = data
  BY <1>5
<1> QED
  BY <1>1, <1>5, <1>6, <1>7, <1>8, <1>9, <1>10 DEF Pushed, f, r

\* The sequence q without its p-th element.
Without(q, p) == [i \in 1 .. Len(q) - 1 |-> IF i < p THEN q[i] ELSE q[i + 1]]

LEMMA WithoutOk ==
    ASSUME NEW A, NEW q \in Seq(A), IsInjective(q), NEW p \in 1 .. Len(q)
    PROVE  /\ Without(q, p) \in Seq(A \ {q[p]}) /\ Len(Without(q, p)) = Len(q) - 1
           /\ IsInjective(Without(q, p)) /\ Range(Without(q, p)) = Range(q) \ {q[p]}
<1> DEFINE n == Len(q)
           w == Without(q, p)
           at(i) == IF i < p THEN i ELSE i + 1
<1>1. /\ n \in Nat /\ n - 1 \in Nat /\ p \in Nat /\ DOMAIN q = 1 .. n
      /\ \A i \in 1 .. n : q[i] \in A
  OBVIOUS
<1>2. \A i \in 1 .. n - 1 : /\ at(i) \in 1 .. n /\ at(i) # p
                            /\ \A j \in 1 .. n - 1 : at(i) = at(j) => i = j
  BY <1>1
<1>3. \A i \in 1 .. n : i # p => \E j \in 1 .. n - 1 : at(j) = i
  <2> SUFFICES ASSUME NEW i \in 1 .. n, i # p PROVE \E j \in 1 .. n - 1 : at(j) = i
    OBVIOUS
  <2>1. CASE i < p
    <3>1. i \in 1 .. n - 1 /\ at(i) = i
      BY <1>1, <2>1
    <3> QED
      BY <3>1
  <2>2. CASE i > p
    <3>1. i - 1 \in 1 .. n - 1 /\ at(i - 1) = i
      BY <1>1, <2>2
    <3> QED
      BY <3>1
  <2> QED
    BY <1>1, <2>1, <2>2
<1>4. w = [i \in 1 .. n - 1 |-> q[at(i)]]
  BY DEF Without
<1> HIDE DEF n, w, at
<1>5. \A i, j \in 1 .. n : q[i] = q[j] => i = j
  BY <1>1 DEF IsInjective
<1>6. \A i \in 1 .. n - 1 : w[i] = q[at(i)] /\ w[i] \in A \ {q[p]}
  BY <1>1, <1>2, <1>4, <1>5 DEF n
<1>7. w \in Seq(A \ {q[p]}) /\ Len(w) = n - 1 /\ DOMAIN w = 1 .. n - 1
  BY <1>1, <1>4, <1>6
<1>8. IsInjective(w)
  BY <1>2, <1>5, <1>6, <1>7 DEF IsInjective
<1>9. Range(w) = Range(q) \ {q[p]}
  <2>1. ASSUME NEW x \in Range(w) PROVE x \in Range(q) /\ x # q[p]
    <3>1. PICK i \in 1 .. n - 1 : x = w[i]
      BY <1>7 DEF Range
    <3> QED
      BY <1>1, <1>2, <1>6, <3>1 DEF Range
  <2>2. ASSUME NEW x \in Range(q), x # q[p] PROVE x \in Range(w)
    <3>1. PICK i \in 1 .. n : x = q[i]
      BY <1>1 DEF Range
    <3>2. PICK j \in 1 .. n - 1 : at(j) = i
      BY <1>3, <2>2, <3>1
    <3> QED
      BY <1>6, <1>7, <3>1, <3>2 DEF Range
  <2> QED
    BY <2>1, <2>2
<1> QED
  BY <1>7, <1>8, <1>9 DEF n, w

\* A node is taken out of a list.
Taken(h, q, r, p) ==
    /\ HeapOk(r.heap) /\ DOMAIN r.heap = DOMAIN h \ {q[p]}
    /\ Chain(r.heap, r.list, Without(q, p))
    /\ \A x \in DOMAIN h : x # q[p] => /\ r.heap[x].key = h[x].key /\ r.heap[x].data = h[x].data
                                       /\ x \notin Range(q) => r.heap[x] = h[x]

LEMMA UnlinkOk ==
    ASSUME NEW h, HeapOk(h), NEW l, NEW q, Chain(h, l, q), Back(h, q), NEW p \in 1 .. Len(q)
    PROVE  /\ Taken(h, q, Unlink(h, l, q[p]), p)
           /\ Back(Unlink(h, l, q[p]).heap, Without(q, p))
<1> DEFINE D == DOMAIN h
           a == q[p]
           r == Unlink(h, l, a)
           g == r.heap
           n == Len(q)
           w == Without(q, p)
           before == h[a].prev
           after == h[a].next
<1>1. /\ IsFiniteSet(D) /\ D \subseteq Addresses /\ NULL \notin D
      /\ q \in Seq(D) /\ n \in Nat /\ p \in Nat /\ n >= 1 /\ a \in D
      /\ DOMAIN q = 1 .. n /\ p \in 1 .. n
      /\ \A i \in 1 .. n : q[i] \in D
  BY NullAssumption DEF HeapOk, Chain, Addresses
<1>0. n \in Nat /\ p \in Nat /\ p \in 1 .. n /\ n >= 1 /\ p >= 1 /\ p <= n
  BY <1>1
<1>2. /\ before = IF p = 1 THEN NULL ELSE q[p - 1]
      /\ after = IF p = n THEN NULL ELSE q[p + 1]
  BY DEF Chain, Back
<1>3. \A i, j \in 1 .. n : q[i] = q[j] => i = j
  <2>1. IsInjective(q)
    BY DEF Chain
  <2> HIDE DEF n
  <2> QED
    BY <1>1, <2>1 DEF IsInjective
<1>4. /\ p # 1 => p - 1 \in 1 .. n /\ before \in D /\ before # a
      /\ p # n => p + 1 \in 1 .. n /\ after \in D /\ after # a
      /\ before = after => before = NULL
  <2> HIDE DEF n, D, a, before, after
  <2>1. p # 1 => p - 1 \in 1 .. n /\ p - 1 # p
    BY <1>0
  <2>2. p # n => p + 1 \in 1 .. n /\ p + 1 # p /\ p + 1 # p - 1
    BY <1>0
  <2>3. p # 1 => before \in D /\ before # a
    BY <1>1, <1>2, <1>3, <2>1 DEF a
  <2>4. p # n => after \in D /\ after # a
    BY <1>1, <1>2, <1>3, <2>2 DEF a
  <2>5. before = after => before = NULL
    BY <1>1, <1>2, <1>3, <2>1, <2>2
  <2> QED
    BY <2>1, <2>2, <2>3, <2>4, <2>5
<1>5. (before = NULL <=> p = 1) /\ (after = NULL <=> p = n)
  BY <1>1, <1>2, <1>4
<1> DEFINE Node(x) == [key  |-> h[x].key, data |-> h[x].data,
                       prev |-> IF x = after THEN before ELSE h[x].prev,
                       next |-> IF x = before THEN after ELSE h[x].next]
<1>6. /\ DOMAIN g = D \ {a} /\ g = [x \in D \ {a} |-> g[x]]
      /\ \A x \in D \ {a} : g[x] = Node(x)
      /\ r.list = [head  |-> IF before = NULL THEN after ELSE l.head,
                   tail  |-> IF after = NULL THEN before ELSE l.tail,
                   nelem |-> l.nelem - 1]
  <2> DEFINE h1 == IF before # NULL THEN [h EXCEPT ![before].next = after] ELSE h
             h2 == IF after # NULL THEN [h1 EXCEPT ![after].prev = before] ELSE h1
  <2>1. r = [heap |-> Free(h2, a),
             list |-> [head  |-> IF before = NULL THEN after ELSE l.head,
                       tail  |-> IF after = NULL THEN before ELSE l.tail,
                       nelem |-> l.nelem - 1]]
    BY DEF Unlink
  <2>2. DOMAIN h1 = D /\ DOMAIN h2 = D
    OBVIOUS
  <2>3. g = [x \in D \ {a} |-> h2[x]]
    <3> HIDE DEF h2
    <3>1. g = Free(h2, a)
      BY <2>1
    <3> QED
      BY <2>2, <3>1 DEF Free, Restrict
  <2>4. ASSUME NEW x \in D
        PROVE  h1[x] = [key  |-> h[x].key, data |-> h[x].data, prev |-> h[x].prev,
                        next |-> IF x = before THEN after ELSE h[x].next]
    <3>1. h[x] = [key |-> h[x].key, data |-> h[x].data, prev |-> h[x].prev, next |-> h[x].next]
      BY NodeFields
    <3> HIDE DEF before, after
    <3>2. CASE x = before
      <4>1. before # NULL
        BY <1>1, <3>2
      <4>2. h1[x] = [h[x] EXCEPT !.next = after]
        BY <3>2, <4>1
      <4> QED
        BY <3>1, <3>2, <4>2
    <3>3. CASE x # before
      <4>1. h1[x] = h[x]
        BY <3>3
      <4> HIDE DEF h1
      <4> QED
        BY <3>1, <3>3, <4>1
    <3> QED
      BY <3>2, <3>3
  <2>5. ASSUME NEW x \in D PROVE h2[x] = Node(x)
    <3> HIDE DEF h1, before, after
    <3>1. CASE x = after
      <4>1. after # NULL
        BY <1>1, <3>1
      <4>2. h2[x] = [h1[x] EXCEPT !.prev = before]
        BY <2>2, <3>1, <4>1
      <4> HIDE DEF h2
      <4>3. h2[x] = [key  |-> h[x].key, data |-> h[x].data, prev |-> before,
                     next |-> IF x = before THEN after ELSE h[x].next]
        <5>1. h1[x] = [key  |-> h[x].key, data |-> h[x].data, prev |-> h[x].prev,
                       next |-> IF x = before THEN after ELSE h[x].next]
          BY <2>4
        <5> HIDE DEF h1
        <5> QED
          BY <4>2, <5>1
      <4> QED
        BY <3>1, <4>3
    <3>2. CASE x # after
      <4>1. h2[x] = h1[x]
        BY <2>2, <3>2
      <4> HIDE DEF h2
      <4> QED
        BY <2>4, <3>2, <4>1
    <3> QED
      BY <3>1, <3>2
  <2>6. r.list = [head  |-> IF before = NULL THEN after ELSE l.head,
                  tail  |-> IF after = NULL THEN before ELSE l.tail,
                  nelem |-> l.nelem - 1]
    <3> DEFINE k == [head  |-> IF before = NULL THEN after ELSE l.head,
                     tail  |-> IF after = NULL THEN before ELSE l.tail,
                     nelem |-> l.nelem - 1]
    <3>1. r = [heap |-> Free(h2, a), list |-> k]
      BY <2>1
    <3> HIDE DEF h2, k, r
    <3>2. r.list = k
      BY <3>1
    <3> QED
      BY <3>2 DEF k
  <2> HIDE DEF h2, g, Node
  <2>7. g = [x \in D \ {a} |-> Node(x)]
    BY <2>3, <2>5
  <2>8. DOMAIN g = D \ {a} /\ \A x \in D \ {a} : g[x] = Node(x)
    BY <2>7
  <2>9. g = [x \in D \ {a} |-> g[x]]
    BY <2>7
  <2> HIDE DEF r
  <2> QED
    BY <2>6, <2>8, <2>9
<1> HIDE DEF before, after, r
<1>7. \A x \in D \ {a} : /\ g[x].key = h[x].key /\ g[x].data = h[x].data
                         /\ g[x].prev = (IF x = after THEN before ELSE h[x].prev)
                         /\ g[x].next = (IF x = before THEN after ELSE h[x].next)
  <2> SUFFICES ASSUME NEW x \in D \ {a}
               PROVE  /\ g[x].key = h[x].key /\ g[x].data = h[x].data
                      /\ g[x].prev = (IF x = after THEN before ELSE h[x].prev)
                      /\ g[x].next = (IF x = before THEN after ELSE h[x].next)
    OBVIOUS
  <2>1. g[x] = Node(x)
    BY <1>6
  <2> HIDE DEF g
  <2> QED
    BY <2>1
<1>8. HeapOk(g)
  <2>1. IsFiniteSet(D \ {a}) /\ D \ {a} \subseteq Addresses
    BY <1>1, FS_RemoveElement
  <2>2. before \in Pointers /\ after \in Pointers
    BY <1>1, NodeFields DEF before, after
  <2>3. ASSUME NEW x \in D \ {a} PROVE g[x] \in NodeT
    <3>1. g[x] = Node(x)
      BY <1>6
    <3> QED
      BY <2>2, <3>1, NodeFields DEF NodeT
  <2> QED
    BY <1>6, <2>1, <2>3 DEF HeapOk
<1>9. \A x \in D \ {a} : x \notin Range(q) => g[x] = h[x]
  <2> SUFFICES ASSUME NEW x \in D \ {a}, x \notin Range(q) PROVE g[x] = h[x]
    OBVIOUS
  <2>1. x # before /\ x # after
    <3>1. \A i \in 1 .. n : x # q[i]
      BY <1>1 DEF Range
    <3>2. x # NULL
      BY <1>1
    <3> HIDE DEF n
    <3> QED
      BY <1>2, <1>4, <3>1, <3>2
  <2>2. g[x] = [key |-> h[x].key, data |-> h[x].data, prev |-> h[x].prev, next |-> h[x].next]
    BY <1>6, <2>1
  <2> QED
    BY <2>2, NodeFields
<1> DEFINE at(i) == IF i < p THEN i ELSE i + 1
<1>10. /\ w \in Seq(D \ {a}) /\ Len(w) = n - 1 /\ IsInjective(w)
       /\ n - 1 \in Nat
       /\ \A i \in 1 .. n - 1 : /\ w[i] = q[at(i)] /\ at(i) \in 1 .. n /\ w[i] \in D \ {a}
                                /\ i < p => w[i] = q[i]
                                /\ ~(i < p) => w[i] = q[i + 1]
  <2>1. IsInjective(q)
    BY DEF Chain
  <2>2. w \in Seq(D \ {a}) /\ Len(w) = n - 1 /\ IsInjective(w)
    BY <1>1, <2>1, WithoutOk
  <2>3. \A i \in 1 .. n - 1 : w[i] = q[at(i)]
    BY DEF Without
  <2>4. \A i \in 1 .. n - 1 : at(i) \in 1 .. n
    BY <1>1
  <2>5. \A i \in 1 .. n - 1 : w[i] \in D \ {a}
    BY <2>2
  <2> HIDE DEF w, n
  <2>6. \A i \in 1 .. n - 1 : (i < p => w[i] = q[i]) /\ (~(i < p) => w[i] = q[i + 1])
    BY <2>3
  <2> QED
    BY <1>1, <2>2, <2>3, <2>4, <2>5, <2>6
<1> HIDE DEF w, n
<1>11. ASSUME NEW i \in 1 .. n - 1 PROVE g[w[i]].next = IF i = n - 1 THEN NULL ELSE w[i + 1]
  <2>1. g[w[i]].next = IF w[i] = before THEN after ELSE h[w[i]].next
    BY <1>7, <1>10
  <2>2. \A j \in 1 .. n : h[q[j]].next = IF j = n THEN NULL ELSE q[j + 1]
    BY DEF Chain, n
  <2>3. CASE i = p - 1
    <3>1. i < p /\ p # 1 /\ i + 1 = p /\ ~(p < p) /\ (i = n - 1 <=> p = n)
          /\ (p # n => p \in 1 .. n - 1)
      BY <1>0, <2>3
    <3>2. w[i] = before
      BY <1>2, <1>10, <2>3, <3>1
    <3>3. p # n => w[i + 1] = q[p + 1]
      BY <1>10, <3>1
    <3> QED
      BY <1>2, <2>1, <3>1, <3>2, <3>3
  <2>4. CASE i < p - 1
    <3>1. i \in 1 .. n /\ i < p /\ i # n /\ i # n - 1 /\ i + 1 \in 1 .. n - 1 /\ i + 1 < p
      BY <1>0, <2>4
    <3>2. w[i] = q[i] /\ w[i + 1] = q[i + 1]
      BY <1>10, <3>1
    <3>3. q[i] # before
      <4>1. p # 1 => i # p - 1
        BY <2>4
      <4>2. q[i] # NULL
        BY <1>1, <3>1
      <4> QED
        BY <1>2, <1>3, <1>4, <3>1, <4>1, <4>2
    <3> QED
      BY <2>1, <2>2, <3>1, <3>2, <3>3
  <2>5. CASE i >= p
    <3>1. /\ i + 1 \in 1 .. n /\ ~(i < p) /\ (i + 1 = n <=> i = n - 1)
          /\ i # n - 1 => (i + 1 \in 1 .. n - 1 /\ ~(i + 1 < p))
          /\ p # 1 => i + 1 # p - 1
      BY <1>0, <2>5
    <3>2. w[i] = q[i + 1] /\ (i # n - 1 => w[i + 1] = q[(i + 1) + 1])
      BY <1>10, <3>1
    <3>3. q[i + 1] # before
      <4>1. q[i + 1] # NULL
        BY <1>1, <3>1
      <4> QED
        BY <1>2, <1>3, <1>4, <3>1, <4>1
    <3> QED
      BY <2>1, <2>2, <3>1, <3>2, <3>3
  <2> QED
    BY <1>0, <2>3, <2>4, <2>5
<1>12. ASSUME NEW i \in 1 .. n - 1 PROVE g[w[i]].prev = IF i = 1 THEN NULL ELSE w[i - 1]
  <2>1. g[w[i]].prev = IF w[i] = after THEN before ELSE h[w[i]].prev
    BY <1>7, <1>10
  <2>2. \A j \in 1 .. n : h[q[j]].prev = IF j = 1 THEN NULL ELSE q[j - 1]
    BY DEF Back, n
  <2>3. CASE i = p
    <3>1. ~(i < p) /\ p # n /\ (p # 1 => p - 1 \in 1 .. n - 1 /\ p - 1 < p)
      BY <1>0, <2>3
    <3>2. w[i] = after
      BY <1>2, <1>10, <2>3, <3>1
    <3>3. p # 1 => w[i - 1] = q[p - 1]
      BY <1>10, <2>3, <3>1
    <3> QED
      BY <1>2, <2>1, <2>3, <3>2, <3>3
  <2>4. CASE i < p
    <3>1. /\ i \in 1 .. n /\ (i # 1 => i - 1 \in 1 .. n - 1 /\ i - 1 < p)
          /\ p # n => i # p + 1
      BY <1>0, <2>4
    <3>2. w[i] = q[i] /\ (i # 1 => w[i - 1] = q[i - 1])
      BY <1>10, <2>4, <3>1
    <3>3. q[i] # after
      <4>1. q[i] # NULL
        BY <1>1, <3>1
      <4> QED
        BY <1>2, <1>3, <1>4, <3>1, <4>1
    <3> QED
      BY <2>1, <2>2, <3>1, <3>2, <3>3
  <2>5. CASE i > p
    <3>1. /\ i + 1 \in 1 .. n /\ ~(i < p) /\ i # 1 /\ i + 1 # 1 /\ i + 1 # p + 1
          /\ i - 1 \in 1 .. n - 1 /\ ~(i - 1 < p) /\ (i - 1) + 1 = i /\ (i + 1) - 1 = i
      BY <1>0, <2>5
    <3>2. w[i] = q[i + 1] /\ w[i - 1] = q[i]
      BY <1>10, <3>1
    <3>3. q[i + 1] # after
      <4>1. q[i + 1] # NULL
        BY <1>1, <3>1
      <4> QED
        BY <1>2, <1>3, <1>4, <3>1, <4>1
    <3> QED
      BY <2>1, <2>2, <3>1, <3>2, <3>3
  <2> QED
    BY <1>0, <2>3, <2>4, <2>5
<1>13. r.list = [head  |-> IF Len(w) = 0 THEN NULL ELSE w[1],
                 tail  |-> IF Len(w) = 0 THEN NULL ELSE w[Len(w)],
                 nelem |-> Len(w)]
  <2>1. /\ l.head = q[1] /\ l.tail = q[n] /\ l.nelem = n
    BY <1>0 DEF Chain, n
  <2>2. CASE n = 1
    <3>1. p = 1 /\ p = n /\ n - 1 = 0
      BY <1>0, <2>2
    <3> QED
      BY <1>2, <1>6, <1>10, <2>1, <3>1
  <2>3. CASE n # 1
    <3>1. 1 \in 1 .. n - 1 /\ n - 1 \in 1 .. n - 1 /\ n - 1 # 0
          /\ (p = 1 => ~(1 < p) /\ p # n /\ p + 1 = 1 + 1)
          /\ (p # 1 => 1 < p)
          /\ (p = n => n - 1 < p /\ n - 1 = p - 1 /\ p # 1)
          /\ (p # n => ~(n - 1 < p) /\ (n - 1) + 1 = n)
      <4>1. 1 \in 1 .. n - 1 /\ n - 1 \in 1 .. n - 1 /\ n - 1 # 0
        BY <1>0, <2>3
      <4>2. p >= 1 /\ p <= n
        BY <1>0
      <4>3. /\ p = 1 => ~(1 < p) /\ p # n /\ p + 1 = 1 + 1
            /\ p # 1 => 1 < p
        BY <1>0, <2>3
      <4>4. /\ p = n => n - 1 < p /\ n - 1 = p - 1 /\ p # 1
            /\ p # n => ~(n - 1 < p) /\ (n - 1) + 1 = n
        <5> QED
          BY <1>0, <2>3
      <4> QED
        BY <4>1, <4>3, <4>4
    <3>2. w[1] = IF before = NULL THEN after ELSE l.head
      BY <1>2, <1>5, <1>10, <2>1, <3>1
    <3>3. w[n - 1] = IF after = NULL THEN before ELSE l.tail
      BY <1>2, <1>5, <1>10, <2>1, <3>1
    <3> QED
      BY <1>6, <1>10, <2>1, <3>1, <3>2, <3>3
  <2> QED
    BY <2>2, <2>3
<1>14. Chain(g, r.list, w)
  BY <1>6, <1>10, <1>11, <1>13 DEF Chain
<1>15. Back(g, w)
  BY <1>10, <1>12 DEF Back
<1>16. Taken(h, q, r, p)
  BY <1>6, <1>7, <1>8, <1>9, <1>14 DEF Taken, w
<1> QED
  BY <1>15, <1>16 DEF r, w

LEMMA PopFrontOk ==
    ASSUME NEW h, HeapOk(h), NEW l, NEW q, Chain(h, l, q), Len(q) # 0
    PROVE  Taken(h, q, list_pop_front(h, l), 1)
<1> DEFINE D == DOMAIN h
           a == q[1]
           r == list_pop_front(h, l)
           g == r.heap
           n == Len(q)
           w == Without(q, 1)
<1>1. /\ IsFiniteSet(D) /\ D \subseteq Addresses
      /\ q \in Seq(D) /\ n \in Nat /\ n >= 1 /\ 1 \in 1 .. n /\ a \in D /\ n - 1 \in Nat
  BY DEF HeapOk, Chain
<1>2. /\ l.head = a /\ l.tail = q[n] /\ l.nelem = n
      /\ h[a].next = IF n = 1 THEN NULL ELSE q[2]
      /\ \A i \in 1 .. n : h[q[i]].next = IF i = n THEN NULL ELSE q[i + 1]
  BY <1>1 DEF Chain
<1>3. r = [heap |-> [x \in D \ {a} |-> h[x]],
           list |-> [head |-> IF n = 1 THEN NULL ELSE q[2],
                     tail |-> IF n = 1 THEN NULL ELSE q[n],
                     nelem |-> n - 1]]
  BY <1>2 DEF list_pop_front, Free, Restrict
<1>4. /\ g = [x \in D \ {a} |-> h[x]]
      /\ r.list = [head |-> IF n = 1 THEN NULL ELSE q[2],
                   tail |-> IF n = 1 THEN NULL ELSE q[n],
                   nelem |-> n - 1]
  BY <1>3
<1> HIDE DEF r
<1>5. DOMAIN g = D \ {a} /\ \A x \in D \ {a} : g[x] = h[x]
  BY <1>4
<1>6. HeapOk(g)
  <2>1. IsFiniteSet(D \ {a})
    BY <1>1, FS_RemoveElement
  <2> QED
    BY <1>1, <1>4, <1>5, <2>1 DEF HeapOk
<1>7. /\ w \in Seq(D \ {a}) /\ Len(w) = n - 1 /\ IsInjective(w)
      /\ \A i \in 1 .. n - 1 : w[i] = q[i + 1] /\ w[i] \in D \ {a}
  <2>1. IsInjective(q)
    BY DEF Chain
  <2>2. w \in Seq(D \ {a}) /\ Len(w) = n - 1 /\ IsInjective(w)
    BY <1>1, <2>1, WithoutOk
  <2>3. \A i \in 1 .. n - 1 : w[i] = q[i + 1]
    BY <1>1 DEF Without
  <2>4. \A i \in 1 .. n - 1 : w[i] \in D \ {a}
    BY <2>2
  <2> QED
    BY <2>2, <2>3, <2>4
<1> HIDE DEF w
<1>8. ASSUME NEW i \in 1 .. n - 1 PROVE g[w[i]].next = IF i = n - 1 THEN NULL ELSE w[i + 1]
  <2>1. i + 1 \in 1 .. n /\ (i + 1 = n <=> i = n - 1) /\ (i # n - 1 => i + 1 \in 1 .. n - 1)
    BY <1>1
  <2> HIDE DEF n, g
  <2> QED
    BY <1>2, <1>5, <1>7, <2>1
<1>9. r.list = [head  |-> IF Len(w) = 0 THEN NULL ELSE w[1],
                tail  |-> IF Len(w) = 0 THEN NULL ELSE w[Len(w)],
                nelem |-> Len(w)]
  <2>1. n # 1 => 1 \in 1 .. n - 1 /\ n - 1 \in 1 .. n - 1 /\ (n - 1) + 1 = n /\ 1 + 1 = 2
    <3> HIDE DEF n
    <3> QED
      BY <1>1
  <2>2. n - 1 = 0 <=> n = 1
    BY <1>1
  <2>3. n # 1 => w[1] = q[2] /\ w[n - 1] = q[n]
    BY <1>7, <2>1
  <2> HIDE DEF n
  <2> QED
    BY <1>4, <1>7, <2>2, <2>3
<1>10. Chain(g, r.list, w)
  BY <1>5, <1>7, <1>8, <1>9 DEF Chain
<1> QED
  BY <1>5, <1>6, <1>10 DEF Taken, w, r

-----------------------------------------------------------------------------
(***************************************************************************)
(* A map: its buckets hold disjoint lists Q[i]; every node is in the       *)
(* bucket of its key, no key is there twice, and nelem counts the nodes.   *)
(***************************************************************************)
Buckets(n) == 0 .. n - 1

Sound(m, Q) ==
    /\ HeapOk(m.heap)
    /\ m.nlist \in Nat \ {0}
    /\ m.list = [i \in Buckets(m.nlist) |-> m.list[i]]
    /\ Q = [i \in Buckets(m.nlist) |-> Q[i]]
    /\ \A i \in Buckets(m.nlist) : Chain(m.heap, m.list[i], Q[i])
    /\ \A i, j \in Buckets(m.nlist) : i # j => \A x \in Range(Q[i]) : x \notin Range(Q[j])

Own(Q) == UNION {Range(Q[i]) : i \in DOMAIN Q}

Hashed(m, Q) ==
    /\ \A i \in Buckets(m.nlist) : Back(m.heap, Q[i])
    /\ \A i \in Buckets(m.nlist) : \A x \in Range(Q[i]) :
         m.heap[x].key \in Keys /\ HashOf[m.heap[x].key] % m.nlist = i
    /\ \A x, y \in Own(Q) : m.heap[x].key = m.heap[y].key => x = y
    /\ m.nelem = Cardinality(Own(Q))

\* The pairs of a key and its data.
Entries(m, Q) == {<<m.heap[x].key, m.heap[x].data>> : x \in Own(Q)}

LEMMA Remainder ==
    ASSUME NEW a \in Nat, NEW n \in Nat \ {0}
    PROVE  a % n \in Buckets(n) /\ (a % n) % n = a % n
<1> DEFINE r == a % n
<1>1. r \in Nat /\ r < n
  OBVIOUS
<1> HIDE DEF r
<1>2. r % n = r
  <2>1. ASSUME NEW x \in Nat, x < n PROVE x % n = x
    BY <2>1
  <2> QED
    BY <1>1, <2>1
<1>3. r \in Buckets(n)
  BY <1>1 DEF Buckets
<1> QED
  BY <1>2, <1>3 DEF r

\* The searches of the map and of the table look in the same bucket.
LEMMA IndexOk ==
    ASSUME NEW k \in Keys, NEW n \in Nat \ {0}
    PROVE  /\ HashOf[k] % n \in Buckets(n) /\ Index(k, n) = HashOf[k] % n
           /\ HashmapIndex(k, n) = HashOf[k] % n
           /\ HashtblIndex(k, n) = HashOf[k] % n /\ HashtblRemoveIndex(k, n) = HashOf[k] % n
<1>1. HashOf[k] \in Nat
  BY ContainersAssumption
<1> QED
  BY <1>1, Remainder
  DEF Index, HashmapIndex, HashtblIndex, HashtblRemoveIndex, default_hashtbl_hash

LEMMA OwnOk ==
    ASSUME NEW m, NEW Q, Sound(m, Q)
    PROVE  /\ DOMAIN Q = Buckets(m.nlist)
           /\ \A x : x \in Own(Q) <=> \E i \in Buckets(m.nlist) : x \in Range(Q[i])
           /\ \A i \in Buckets(m.nlist) : Q[i] \in Seq(DOMAIN m.heap) /\ Range(Q[i]) \subseteq DOMAIN m.heap
           /\ Own(Q) \subseteq DOMAIN m.heap /\ IsFiniteSet(Own(Q))
<1>1. DOMAIN Q = Buckets(m.nlist)
  BY DEF Sound
<1>2. \A x : x \in Own(Q) <=> \E i \in Buckets(m.nlist) : x \in Range(Q[i])
  BY <1>1 DEF Own
<1>3. \A i \in Buckets(m.nlist) : Q[i] \in Seq(DOMAIN m.heap) /\ Range(Q[i]) \subseteq DOMAIN m.heap
  <2> SUFFICES ASSUME NEW i \in Buckets(m.nlist)
               PROVE  Q[i] \in Seq(DOMAIN m.heap) /\ Range(Q[i]) \subseteq DOMAIN m.heap
    OBVIOUS
  <2>1. Q[i] \in Seq(DOMAIN m.heap)
    BY DEF Sound, Chain
  <2> QED
    BY <2>1 DEF Range
<1>4. Own(Q) \subseteq DOMAIN m.heap
  BY <1>2, <1>3
<1>5. IsFiniteSet(Own(Q))
  BY <1>4, FS_Subset DEF Sound, HeapOk
<1> QED
  BY <1>1, <1>2, <1>3, <1>4, <1>5

\* One list changes and its nodes are disjoint from those of the others.
Separate(m, Q, i, r, q) ==
    /\ HeapOk(r.heap) /\ Chain(r.heap, r.list, q)
    /\ \A j \in Buckets(m.nlist) : j # i =>
         \A x \in Range(Q[j]) : x \in DOMAIN r.heap /\ r.heap[x] = m.heap[x] /\ x \notin Range(q)

LEMMA SetBucket ==
    ASSUME NEW m, NEW Q, Sound(m, Q), NEW i \in Buckets(m.nlist), NEW r, NEW q, NEW e,
           Separate(m, Q, i, r, q)
    PROVE  /\ Sound(Map(r.heap, [m.list EXCEPT ![i] = r.list], m.nlist, e), [Q EXCEPT ![i] = q])
           /\ (\A j \in Buckets(m.nlist) : Back(m.heap, Q[j])) /\ Back(r.heap, q)
              => \A j \in Buckets(m.nlist) : Back(r.heap, [Q EXCEPT ![i] = q][j])
           /\ \A x : x \in Own([Q EXCEPT ![i] = q])
                       <=> x \in Range(q) \/ (x \in Own(Q) /\ x \notin Range(Q[i]))
<1> DEFINE B == Buckets(m.nlist)
           P == [Q EXCEPT ![i] = q]
           l2 == [m.list EXCEPT ![i] = r.list]
           n == Map(r.heap, l2, m.nlist, e)
<1>1. /\ P = [j \in B |-> P[j]] /\ P[i] = q /\ \A j \in B : j # i => P[j] = Q[j]
      /\ l2 = [j \in B |-> l2[j]] /\ l2[i] = r.list /\ \A j \in B : j # i => l2[j] = m.list[j]
  BY DEF Sound
<1>2. n.heap = r.heap /\ n.list = l2 /\ n.nlist = m.nlist
  BY DEF Map
<1> HIDE DEF P, l2, n
<1>3. ASSUME NEW j \in B, j # i
      PROVE  Chain(r.heap, l2[j], P[j]) /\ (Back(m.heap, Q[j]) => Back(r.heap, P[j]))
  <2>1. Chain(m.heap, m.list[j], Q[j])
    BY DEF Sound
  <2>2. \A x \in Range(Q[j]) : x \in DOMAIN r.heap /\ r.heap[x] = m.heap[x]
    BY <1>3 DEF Separate
  <2>3. Chain(r.heap, m.list[j], Q[j]) /\ (Back(m.heap, Q[j]) => Back(r.heap, Q[j]))
    BY <2>1, <2>2, Frame
  <2> QED
    BY <1>1, <1>3, <2>3
<1>4. ASSUME NEW j \in B PROVE Chain(r.heap, l2[j], P[j])
  BY <1>1, <1>3 DEF Separate
<1>5. ASSUME NEW j \in B, NEW k \in B, j # k, NEW x \in Range(P[j]) PROVE x \notin Range(P[k])
  <2>1. CASE j = i
    BY <1>1, <1>5, <2>1 DEF Separate
  <2>2. CASE k = i
    BY <1>1, <1>5, <2>2 DEF Separate
  <2>3. CASE j # i /\ k # i
    BY <1>1, <1>5, <2>3 DEF Sound
  <2> QED
    BY <2>1, <2>2, <2>3
<1>6. Sound(n, P)
  <2>1. HeapOk(r.heap) /\ m.nlist \in Nat \ {0}
    BY DEF Separate, Sound
  <2> QED
    BY <1>1, <1>2, <1>4, <1>5, <2>1 DEF Sound
<1>7. ASSUME \A j \in B : Back(m.heap, Q[j]), Back(r.heap, q)
      PROVE  \A j \in B : Back(r.heap, P[j])
  BY <1>1, <1>3, <1>7
<1>8. \A x : x \in Own(P) <=> x \in Range(q) \/ (x \in Own(Q) /\ x \notin Range(Q[i]))
  <2>1. \A x : x \in Own(P) <=> \E j \in B : x \in Range(P[j])
    BY <1>2, <1>6, OwnOk
  <2>2. \A x : x \in Own(Q) <=> \E j \in B : x \in Range(Q[j])
    BY OwnOk
  <2>3. \A j \in B : j # i => \A x \in Range(Q[j]) : x \notin Range(Q[i])
    BY DEF Sound
  <2> HIDE DEF B
  <2>4. i \in B
    BY DEF B
  <2> QED
    BY <1>1, <2>1, <2>2, <2>3, <2>4
<1> QED
  BY <1>6, <1>7, <1>8 DEF n, P, l2

\* Where the search of a bucket ends.
LEMMA SearchOk ==
    ASSUME NEW m, NEW Q, Sound(m, Q), Hashed(m, Q), NEW k \in Keys
    PROVE  /\ \A a \in Own(Q) : m.heap[a].key = k => /\ a \in Range(Q[HashOf[k] % m.nlist])
                                                    /\ Search(m, HashOf[k] % m.nlist, k) = a
           /\ (\A a \in Own(Q) : m.heap[a].key # k) => Search(m, HashOf[k] % m.nlist, k) = NULL
<1> DEFINE i == HashOf[k] % m.nlist
           q == Q[i]
           hits == {j \in DOMAIN q : m.heap[q[j]].key = k}
<1>1. i \in Buckets(m.nlist)
  BY IndexOk DEF Sound
<1>2. Walk(m.heap, m.list[i].head) = q /\ q \in Seq(DOMAIN m.heap) /\ IsInjective(q)
  <2>1. Chain(m.heap, m.list[i], q) /\ HeapOk(m.heap)
    BY <1>1 DEF Sound
  <2>2. Walk(m.heap, m.list[i].head) = q
    BY <2>1, WalkChain
  <2> QED
    BY <2>1, <2>2 DEF Chain
<1>3. Search(m, i, k) = IF hits = {} THEN NULL ELSE q[Min(hits)]
  BY <1>2 DEF Search
<1> HIDE DEF i, q
<1>4. ASSUME NEW a \in Own(Q), m.heap[a].key = k PROVE a \in Range(q) /\ Search(m, i, k) = a
  <2>1. PICK b \in Buckets(m.nlist) : a \in Range(Q[b])
    BY OwnOk
  <2>2. b = i
    BY <1>4, <2>1 DEF Hashed, i
  <2>3. a \in Range(q)
    BY <2>1, <2>2 DEF q
  <2>4. PICK p \in DOMAIN q : q[p] = a
    BY <2>3 DEF Range
  <2>5. ASSUME NEW j \in hits PROVE j = p
    <3>1. j \in DOMAIN q /\ m.heap[q[j]].key = k /\ q[j] \in Own(Q)
      BY <1>1, OwnOk DEF q, Range
    <3>2. q[j] = a
      BY <1>4, <3>1 DEF Hashed
    <3> QED
      BY <1>2, <2>4, <3>1, <3>2 DEF IsInjective
  <2>6. hits = {p}
    BY <1>4, <2>4, <2>5
  <2>7. p \in Nat
    BY <1>2
  <2>8. Min({p}) = p
    BY <2>7 DEF Min
  <2> QED
    BY <1>3, <2>3, <2>4, <2>6, <2>8
<1>5. ASSUME \A a \in Own(Q) : m.heap[a].key # k PROVE Search(m, i, k) = NULL
  <2>1. \A j \in DOMAIN q : q[j] \in Own(Q)
    BY <1>1, OwnOk DEF q, Range
  <2>2. hits = {}
    BY <1>5, <2>1
  <2> QED
    BY <1>3, <2>2
<1> QED
  BY <1>4, <1>5 DEF i, q

\* The lists in the order of the iterators.
FlatOf(m, Q, s) ==
    /\ s \in Seq(Seq(DOMAIN m.heap)) /\ Len(s) = m.nlist /\ Disjoint(s)
    /\ Nodes(m) = FlattenSeq(s)
    /\ \A j \in 1 .. m.nlist : s[j] = Q[j - 1]

LEMMA NodesAre ==
    ASSUME NEW m, NEW Q, Sound(m, Q)
    PROVE  \E s : FlatOf(m, Q, s)
<1> DEFINE n == m.nlist
           s == [i \in 1 .. n |-> Q[i - 1]]
<1>1. n \in Nat /\ n # 0 /\ \A i \in 1 .. n : i - 1 \in Buckets(n)
  BY DEF Sound, Buckets
<1>2. \A i \in 1 .. n : Walk(m.heap, m.list[i - 1].head) = Q[i - 1]
  <2> SUFFICES ASSUME NEW i \in 1 .. n PROVE Walk(m.heap, m.list[i - 1].head) = Q[i - 1]
    OBVIOUS
  <2>1. Chain(m.heap, m.list[i - 1], Q[i - 1]) /\ HeapOk(m.heap)
    BY <1>1 DEF Sound
  <2> QED
    BY <2>1, WalkChain
<1>3. Nodes(m) = FlattenSeq(s)
  <2>1. [i \in 1 .. n |-> Walk(m.heap, m.list[i - 1].head)] = s
    BY <1>2
  <2> HIDE DEF s
  <2> QED
    BY <2>1 DEF Nodes
<1>4. s \in Seq(Seq(DOMAIN m.heap)) /\ Len(s) = n /\ \A i \in 1 .. n : s[i] = Q[i - 1]
  <2>1. \A i \in 1 .. n : Q[i - 1] \in Seq(DOMAIN m.heap)
    BY <1>1, OwnOk
  <2> HIDE DEF n
  <2> QED
    BY <1>1, <2>1
<1> HIDE DEF s
<1>5. Disjoint(s)
  <2>1. ASSUME NEW i \in 1 .. n PROVE IsInjective(s[i])
    <3>1. Chain(m.heap, m.list[i - 1], Q[i - 1])
      BY <1>1 DEF Sound
    <3> QED
      BY <1>4, <3>1 DEF Chain
  <2>2. ASSUME NEW i \in 1 .. n, NEW j \in 1 .. n, i # j, NEW x \in Range(s[i])
        PROVE  x \notin Range(s[j])
    <3>1. i - 1 \in Buckets(n) /\ j - 1 \in Buckets(n) /\ i - 1 # j - 1
      <4> HIDE DEF n
      <4> QED
        BY <1>1, <2>2
    <3> QED
      BY <1>4, <2>2, <3>1 DEF Sound
  <2> QED
    BY <1>4, <2>1, <2>2 DEF Disjoint
<1> QED
  BY <1>3, <1>4, <1>5 DEF FlatOf

\* The iterators meet every node once.
LEMMA NodesOk ==
    ASSUME NEW m, NEW Q, Sound(m, Q)
    PROVE  Nodes(m) \in Seq(DOMAIN m.heap) /\ IsInjective(Nodes(m)) /\ Range(Nodes(m)) = Own(Q)
<1> DEFINE n == m.nlist
<1>1. n \in Nat /\ n # 0 /\ \A i \in 1 .. n : i - 1 \in Buckets(n)
  BY DEF Sound, Buckets
<1>2. PICK s : FlatOf(m, Q, s)
  BY NodesAre
<1>4. /\ s \in Seq(Seq(DOMAIN m.heap)) /\ Len(s) = n /\ Disjoint(s) /\ Nodes(m) = FlattenSeq(s)
      /\ \A i \in 1 .. n : s[i] = Q[i - 1]
  BY <1>2 DEF FlatOf
<1>6. /\ FlattenSeq(s) \in Seq(DOMAIN m.heap) /\ IsInjective(FlattenSeq(s))
      /\ \A x : x \in Range(FlattenSeq(s)) <=> \E i \in 1 .. n : x \in Range(s[i])
  BY <1>1, <1>4, FlattenOk
<1>7. \A x : x \in Range(FlattenSeq(s)) <=> x \in Own(Q)
  <2>1. \A j \in Buckets(n) : j + 1 \in 1 .. n /\ (j + 1) - 1 = j
    <3> HIDE DEF n
    <3> QED
      BY <1>1 DEF Buckets
  <2>2. \A x : x \in Own(Q) <=> \E i \in Buckets(n) : x \in Range(Q[i])
    BY OwnOk
  <2> HIDE DEF n
  <2>3. ASSUME NEW x, x \in Range(FlattenSeq(s)) PROVE x \in Own(Q)
    BY <1>1, <1>4, <1>6, <2>2, <2>3
  <2>4. ASSUME NEW x \in Own(Q) PROVE x \in Range(FlattenSeq(s))
    <3>1. PICK j \in Buckets(n) : x \in Range(Q[j])
      BY <2>2
    <3>2. s[j + 1] = Q[j] /\ j + 1 \in 1 .. n
      BY <1>4, <2>1
    <3> QED
      BY <1>6, <3>1, <3>2
  <2> QED
    BY <2>3, <2>4
<1> QED
  BY <1>4, <1>6, <1>7

-----------------------------------------------------------------------------
(***************************************************************************)
(* One operation on a map.                                                 *)
(***************************************************************************)
LEMMA AppendRange ==
    ASSUME NEW A, NEW s \in Seq(A), NEW f
    PROVE  Range(Append(s, f)) = Range(s) \cup {f}
<1> DEFINE u == Append(s, f)
<1>1. /\ Len(s) \in Nat /\ DOMAIN u = 1 .. Len(s) + 1 /\ DOMAIN s = 1 .. Len(s)
      /\ u[Len(s) + 1] = f /\ \A j \in 1 .. Len(s) : u[j] = s[j]
  <2>1. s \in Seq(A \cup {f}) /\ f \in A \cup {f}
    OBVIOUS
  <2> QED
    BY <2>1
<1>2. \A j \in 1 .. Len(s) + 1 : j \in 1 .. Len(s) \/ j = Len(s) + 1
  BY <1>1
<1>3. \A j \in 1 .. Len(s) : j \in 1 .. Len(s) + 1
  BY <1>1
<1>4. Len(s) + 1 \in 1 .. Len(s) + 1
  BY <1>1
<1> HIDE DEF u
<1>5. Range(u) \subseteq Range(s) \cup {f}
  BY <1>1, <1>2 DEF Range
<1>6. Range(s) \subseteq Range(u)
  BY <1>1, <1>3 DEF Range
<1>7. f \in Range(u)
  BY <1>1, <1>4 DEF Range
<1> QED
  BY <1>5, <1>6, <1>7 DEF u

\* p is m with a new element, and P are its lists.
Grown(m, Q, p, P, key, data) ==
    /\ Sound(p, P) /\ Hashed(p, P)
    /\ p.nlist = m.nlist /\ p.nelem = m.nelem + 1
    /\ Entries(p, P) = Entries(m, Q) \cup {<<key, data>>}
    /\ \A x \in DOMAIN m.heap : x \notin Own(Q) => p.heap[x] = m.heap[x] /\ x \notin Own(P)
    /\ DOMAIN m.heap \subseteq DOMAIN p.heap
    /\ \A x \in DOMAIN p.heap : x \in DOMAIN m.heap \/ x \in Own(P)
    /\ Own(Q) \subseteq Own(P)

LEMMA PutOk ==
    ASSUME NEW m, NEW Q, Sound(m, Q), Hashed(m, Q), NEW node,
           node.key \in Keys, node.data \in Data \cup Keys \cup {NULL},
           \A x \in Own(Q) : m.heap[x].key # node.key
    PROVE  \E P : Grown(m, Q, PutInBucket(m, node), P, node.key, node.data)
<1> DEFINE n == m.nlist
           k == node.key
           i == HashOf[k] % n
           f == Fresh(m.heap)
           r == list_push_back(m.heap, m.list[i], k, node.data)
           q == Append(Q[i], f)
           P == [Q EXCEPT ![i] = q]
           p == Map(r.heap, [m.list EXCEPT ![i] = r.list], n, m.nelem + 1)
<1>1. i \in Buckets(n) /\ Index(k, n) = i
  BY IndexOk DEF Sound
<1>2. PutInBucket(m, node) = p
  BY <1>1 DEF PutInBucket
<1>3. Pushed(m.heap, Q[i], r, f, k, node.data)
  <2>1. Chain(m.heap, m.list[i], Q[i]) /\ HeapOk(m.heap)
    BY <1>1 DEF Sound
  <2> HIDE DEF i
  <2> QED
    BY <2>1, PushBack
<1>4. p.heap = r.heap /\ p.nlist = n /\ p.nelem = m.nelem + 1
  BY DEF Map
<1> HIDE DEF f, r, i
<1>5. Q[i] \in Seq(DOMAIN m.heap) /\ Own(Q) \subseteq DOMAIN m.heap /\ Range(Q[i]) \subseteq Own(Q)
      /\ IsFiniteSet(Own(Q))
  BY <1>1, OwnOk
<1>6. Range(q) = Range(Q[i]) \cup {f}
  BY <1>5, AppendRange
<1>7. f \notin DOMAIN m.heap /\ f \notin Own(Q)
  BY <1>3, <1>5 DEF Pushed
<1>8. Separate(m, Q, i, r, q)
  <2>1. ASSUME NEW j \in Buckets(n), j # i, NEW x \in Range(Q[j])
        PROVE  x \in DOMAIN r.heap /\ r.heap[x] = m.heap[x] /\ x \notin Range(q)
    <3>1. x \in DOMAIN m.heap /\ x \notin Range(Q[i])
      BY <1>1, <2>1, OwnOk DEF Sound
    <3> QED
      BY <1>3, <1>6, <1>7, <3>1 DEF Pushed
  <2> QED
    BY <1>3, <2>1 DEF Separate, Pushed
<1>9. /\ Sound(p, P)
      /\ \A j \in Buckets(n) : Back(r.heap, P[j])
      /\ Own(P) = Own(Q) \cup {f}
  <2>1. Back(r.heap, q)
    BY <1>1, <1>3 DEF Pushed, Hashed
  <2>2. \A j \in Buckets(n) : Back(m.heap, Q[j])
    BY DEF Hashed
  <2> HIDE DEF q
  <2>3. /\ Sound(p, P)
        /\ \A j \in Buckets(n) : Back(r.heap, P[j])
        /\ \A x : x \in Own(P) <=> x \in Range(q) \/ (x \in Own(Q) /\ x \notin Range(Q[i]))
    <3> DEFINE e == m.nelem + 1
    <3>1. i \in Buckets(m.nlist)
      BY <1>1
    <3> HIDE DEF e
    <3>2. /\ Sound(Map(r.heap, [m.list EXCEPT ![i] = r.list], m.nlist, e), [Q EXCEPT ![i] = q])
          /\ \A j \in Buckets(m.nlist) : Back(r.heap, [Q EXCEPT ![i] = q][j])
          /\ \A x : x \in Own([Q EXCEPT ![i] = q])
                      <=> x \in Range(q) \/ (x \in Own(Q) /\ x \notin Range(Q[i]))
      BY <1>8, <2>1, <2>2, <3>1, SetBucket
    <3> QED
      BY <3>2 DEF e
  <2>4. Own(P) = Own(Q) \cup {f}
    <3> HIDE DEF P
    <3> QED
      BY <1>5, <1>6, <2>3 DEF q
  <2> QED
    BY <2>3, <2>4
<1>10. \A j \in Buckets(n) : P[j] = IF j = i THEN q ELSE Q[j]
  BY <1>1 DEF Sound
<1> HIDE DEF p, P, q
<1>11. \A x \in DOMAIN m.heap : r.heap[x].key = m.heap[x].key /\ r.heap[x].data = m.heap[x].data
  BY <1>3 DEF Pushed
<1>12. r.heap[f].key = k /\ r.heap[f].data = node.data
  BY <1>3 DEF Pushed
<1>13. Hashed(p, P)
  <2>1. ASSUME NEW j \in Buckets(n), NEW x \in Range(P[j])
        PROVE  r.heap[x].key \in Keys /\ HashOf[r.heap[x].key] % n = j
    <3>1. CASE x = f
      <4>1. j = i
        <5> SUFFICES ASSUME j # i PROVE FALSE
          OBVIOUS
        <5>1. x \in Range(Q[j])
          BY <1>10, <2>1
        <5> QED
          BY <1>7, <3>1, <5>1, OwnOk
      <4> QED
        BY <1>12, <3>1, <4>1 DEF i
    <3>2. CASE x # f
      <4>1. x \in Range(Q[j])
        BY <1>6, <1>10, <2>1, <3>2
      <4>2. m.heap[x].key \in Keys /\ HashOf[m.heap[x].key] % n = j /\ x \in DOMAIN m.heap
        BY <4>1, OwnOk DEF Hashed
      <4> QED
        BY <1>11, <4>2
    <3> QED
      BY <3>1, <3>2
  <2>2. ASSUME NEW x \in Own(P), NEW y \in Own(P), r.heap[x].key = r.heap[y].key PROVE x = y
    <3>1. \A z \in Own(Q) : r.heap[z].key = m.heap[z].key /\ r.heap[z].key # k
      BY <1>5, <1>11
    <3>2. \A z \in Own(P) : z \in Own(Q) \/ z = f
      BY <1>9
    <3> QED
      BY <1>12, <2>2, <3>1, <3>2 DEF Hashed
  <2>3. m.nelem + 1 = Cardinality(Own(P))
    <3>1. Cardinality(Own(Q) \cup {f}) = Cardinality(Own(Q)) + 1
      BY <1>5, <1>7, FS_AddElement
    <3>2. m.nelem = Cardinality(Own(Q))
      BY DEF Hashed
    <3> QED
      BY <1>9, <3>1, <3>2
  <2> QED
    BY <1>4, <1>9, <2>1, <2>2, <2>3 DEF Hashed
<1>14. Entries(p, P) = Entries(m, Q) \cup {<<k, node.data>>}
  <2>1. \A x \in Own(Q) : <<p.heap[x].key, p.heap[x].data>> = <<m.heap[x].key, m.heap[x].data>>
    BY <1>4, <1>5, <1>11
  <2>2. <<p.heap[f].key, p.heap[f].data>> = <<k, node.data>>
    BY <1>4, <1>12
  <2> QED
    BY <1>9, <2>1, <2>2 DEF Entries
<1>15. \A x \in DOMAIN m.heap : x \notin Own(Q) => p.heap[x] = m.heap[x] /\ x \notin Own(P)
  BY <1>3, <1>4, <1>5, <1>7, <1>9 DEF Pushed
<1>16. DOMAIN p.heap = DOMAIN m.heap \cup {f}
  BY <1>3, <1>4 DEF Pushed
<1>17. Grown(m, Q, p, P, k, node.data)
  BY <1>4, <1>9, <1>13, <1>14, <1>15, <1>16 DEF Grown
<1> QED
  BY <1>2, <1>17

\* A node is unlinked.
\* What a removal makes of m, and what it leaves.
Cut(m, i, a) == LET r == Unlink(m.heap, m.list[i], a)
                IN  Map(r.heap, [m.list EXCEPT ![i] = r.list], m.nlist, m.nelem - 1)
CutFrom(m, Q, a, p) ==
    /\ DOMAIN p.heap = DOMAIN m.heap \ {a}
    /\ \A x \in DOMAIN p.heap : p.heap[x].key = m.heap[x].key /\ p.heap[x].data = m.heap[x].data
    /\ \E P : Sound(p, P) /\ Hashed(p, P) /\ Own(P) = Own(Q) \ {a}

LEMMA TakeOk ==
    ASSUME NEW m, NEW Q, Sound(m, Q), Hashed(m, Q), NEW i \in Buckets(m.nlist), NEW a \in Range(Q[i])
    PROVE  CutFrom(m, Q, a, Cut(m, i, a))
<1> DEFINE n == m.nlist
           r == Unlink(m.heap, m.list[i], a)
           p == Map(r.heap, [m.list EXCEPT ![i] = r.list], n, m.nelem - 1)
<1>1. PICK d \in DOMAIN Q[i] : Q[i][d] = a
  BY DEF Range
<1>2. /\ Chain(m.heap, m.list[i], Q[i]) /\ HeapOk(m.heap) /\ Back(m.heap, Q[i])
      /\ Q[i] \in Seq(DOMAIN m.heap) /\ d \in 1 .. Len(Q[i]) /\ IsInjective(Q[i])
  <2>1. Chain(m.heap, m.list[i], Q[i]) /\ HeapOk(m.heap) /\ Back(m.heap, Q[i])
    BY DEF Sound, Hashed
  <2>2. Q[i] \in Seq(DOMAIN m.heap) /\ IsInjective(Q[i])
    BY <2>1 DEF Chain
  <2> QED
    BY <2>1, <2>2
<1> DEFINE q == Without(Q[i], d)
           P == [Q EXCEPT ![i] = q]
<1>3. Taken(m.heap, Q[i], r, d) /\ Back(r.heap, q)
  BY <1>1, <1>2, UnlinkOk
<1>4. p.heap = r.heap /\ p.nlist = n /\ p.nelem = m.nelem - 1
  BY DEF Map
<1>5. Range(q) = Range(Q[i]) \ {a}
  BY <1>1, <1>2, WithoutOk
<1>6. Range(Q[i]) \subseteq Own(Q) /\ Own(Q) \subseteq DOMAIN m.heap /\ IsFiniteSet(Own(Q))
  BY OwnOk
<1> HIDE DEF r, q
<1>7. Separate(m, Q, i, r, q)
  <2>1. ASSUME NEW j \in Buckets(n), j # i, NEW x \in Range(Q[j])
        PROVE  x \in DOMAIN r.heap /\ r.heap[x] = m.heap[x] /\ x \notin Range(q)
    <3>1. x \in DOMAIN m.heap /\ x \notin Range(Q[i])
      BY <2>1, OwnOk DEF Sound
    <3>2. x # a
      BY <3>1
    <3> QED
      BY <1>1, <1>3, <1>5, <3>1, <3>2 DEF Taken
  <2> QED
    BY <1>3, <2>1 DEF Separate, Taken, q
<1>8. /\ Sound(p, P)
      /\ \A j \in Buckets(n) : Back(r.heap, P[j])
      /\ Own(P) = Own(Q) \ {a}
  <2>1. \A j \in Buckets(n) : Back(m.heap, Q[j])
    BY DEF Hashed
  <2>2. /\ Sound(p, P)
        /\ \A j \in Buckets(n) : Back(r.heap, P[j])
        /\ \A x : x \in Own(P) <=> x \in Range(q) \/ (x \in Own(Q) /\ x \notin Range(Q[i]))
    BY <1>3, <1>7, <2>1, SetBucket
  <2>3. Own(P) = Own(Q) \ {a}
    <3> HIDE DEF P
    <3> QED
      BY <1>5, <1>6, <2>2
  <2> QED
    BY <2>2, <2>3
<1>9. \A j \in Buckets(n) : P[j] = IF j = i THEN q ELSE Q[j]
  BY DEF Sound
<1> HIDE DEF p, P
<1>10. DOMAIN p.heap = DOMAIN m.heap \ {a}
  BY <1>1, <1>3, <1>4 DEF Taken
<1>11. \A x \in DOMAIN p.heap : p.heap[x].key = m.heap[x].key /\ p.heap[x].data = m.heap[x].data
  BY <1>1, <1>3, <1>4, <1>10 DEF Taken
<1>12. Hashed(p, P)
  <2>1. ASSUME NEW j \in Buckets(n), NEW x \in Range(P[j])
        PROVE  p.heap[x].key \in Keys /\ HashOf[p.heap[x].key] % n = j
    <3>1. x \in Range(Q[j])
      BY <1>5, <1>9
    <3>2. x \in Own(P)
      BY <1>4, <1>8, OwnOk
    <3>3. x \in DOMAIN p.heap
      BY <1>4, <1>8, <3>2, OwnOk
    <3>4. m.heap[x].key \in Keys /\ HashOf[m.heap[x].key] % n = j
      BY <3>1 DEF Hashed
    <3> QED
      BY <1>11, <3>3, <3>4
  <2>2. ASSUME NEW x \in Own(P), NEW y \in Own(P), p.heap[x].key = p.heap[y].key PROVE x = y
    <3>1. \A z \in Own(P) : z \in Own(Q) /\ p.heap[z].key = m.heap[z].key
      BY <1>6, <1>8, <1>10, <1>11
    <3> QED
      BY <2>2, <3>1 DEF Hashed
  <2>3. m.nelem - 1 = Cardinality(Own(P))
    <3>1. a \in Own(Q)
      BY <1>6
    <3> QED
      BY <1>6, <1>8, <3>1, FS_RemoveElement DEF Hashed
  <2>4. \A j \in Buckets(n) : Back(p.heap, P[j])
    BY <1>4, <1>8
  <2> QED
    BY <1>4, <2>1, <2>2, <2>3, <2>4 DEF Hashed
<1>13. CutFrom(m, Q, a, p)
  BY <1>8, <1>10, <1>11, <1>12 DEF CutFrom
<1>14. Cut(m, i, a) = p
  BY DEF Cut, p, r
<1> QED
  BY <1>13, <1>14

-----------------------------------------------------------------------------
(***************************************************************************)
(* The expansion.                                                          *)
(***************************************************************************)
LEMMA EmptyOk ==
    ASSUME NEW h, HeapOk(h), NEW n \in Nat \ {0}
    PROVE  \E P : Sound(EmptyMap(h, n), P) /\ Hashed(EmptyMap(h, n), P) /\ Own(P) = {}
<1> DEFINE m == EmptyMap(h, n)
           P == [i \in Buckets(n) |-> <<>>]
<1>1. /\ m.heap = h /\ m.list = [i \in Buckets(n) |-> empty_list] /\ m.nlist = n /\ m.nelem = 0
  BY DEF EmptyMap, Map, Buckets
<1> HIDE DEF m
<1>2. Range(<<>>) = {} /\ Len(<<>>) = 0 /\ <<>> \in Seq(DOMAIN h) /\ IsInjective(<<>>)
  <2>1. <<>> \in Seq(DOMAIN h) /\ Len(<<>>) = 0 /\ DOMAIN <<>> = {}
    OBVIOUS
  <2> QED
    BY <2>1 DEF Range, IsInjective
<1>3. Chain(h, empty_list, <<>>)
  BY <1>2 DEF Chain, empty_list
<1>4. \A i \in Buckets(n) : P[i] = <<>> /\ m.list[i] = empty_list
  BY <1>1
<1>5. P = [i \in Buckets(n) |-> P[i]] /\ m.list = [i \in Buckets(n) |-> m.list[i]]
  BY <1>1
<1> HIDE DEF P
<1>6. Sound(m, P)
  BY <1>1, <1>2, <1>3, <1>4, <1>5 DEF Sound
<1>7. Own(P) = {}
  BY <1>1, <1>2, <1>4, <1>6, OwnOk
<1>8. Hashed(m, P)
  <2>1. Cardinality({}) = 0
    BY FS_EmptySet
  <2>2. Back(h, <<>>)
    BY <1>2 DEF Back
  <2> QED
    BY <1>1, <1>2, <1>4, <1>7, <2>1, <2>2 DEF Hashed
<1> QED
  BY <1>6, <1>7, <1>8 DEF m

\* The maps that hashmap_expand goes through, after j insertions.
Moved(m, old, n, g) ==
    \A j \in 0 .. n : g[j] = IF j = 0 THEN EmptyMap(m.heap, m.nlist * 2)
                             ELSE PutInBucket(g[j - 1], m.heap[old[j]])

LEMMA MovedExists ==
    ASSUME NEW m, NEW old, NEW n \in Nat
    PROVE  \E g : g = [j \in 0 .. n |-> g[j]] /\ Moved(m, old, n, g)
<1> DEFINE OK(k) == \E g : g = [j \in 0 .. k |-> g[j]] /\ Moved(m, old, k, g)
           T == {k \in 0 .. n : ~ OK(k)}
<1> SUFFICES ASSUME T # {} PROVE FALSE
  <2>1. n \in 0 .. n
    OBVIOUS
  <2> QED
    BY <2>1
<1>1. PICK k \in T : \A y \in T : k <= y
  <2>1. T \subseteq Nat
    OBVIOUS
  <2> HIDE DEF T
  <2> QED
    BY <2>1, Least
<1>2. k \in 0 .. n /\ ~OK(k)
  OBVIOUS
<1>3. k # 0
  <2> SUFFICES ASSUME k = 0 PROVE FALSE
    OBVIOUS
  <2> DEFINE g == [j \in 0 .. 0 |-> EmptyMap(m.heap, m.nlist * 2)]
  <2>1. g = [j \in 0 .. 0 |-> g[j]] /\ \A j \in 0 .. 0 : j = 0 /\ g[j] = EmptyMap(m.heap, m.nlist * 2)
    OBVIOUS
  <2> HIDE DEF g
  <2>2. Moved(m, old, k, g)
    BY <2>1 DEF Moved
  <2> QED
    BY <1>2, <2>1, <2>2
<1>4. k - 1 \in 0 .. n /\ ~(k <= k - 1) /\ k \in Nat /\ k - 1 \in 0 .. k - 1 /\ k \in 0 .. k
  BY <1>2, <1>3
<1>5. OK(k - 1)
  BY <1>1, <1>4
<1>6. PICK g : g = [j \in 0 .. k - 1 |-> g[j]] /\ Moved(m, old, k - 1, g)
  BY <1>5
<1> DEFINE h == [j \in 0 .. k |-> IF j = k THEN PutInBucket(g[k - 1], m.heap[old[k]]) ELSE g[j]]
<1>7. /\ \A j \in 0 .. k : j # k => j \in 0 .. k - 1 /\ h[j] = g[j]
      /\ h[k] = PutInBucket(g[k - 1], m.heap[old[k]])
      /\ h = [j \in 0 .. k |-> h[j]]
  <2>1. \A j \in 0 .. k : j # k => j \in 0 .. k - 1
    BY <1>4
  <2> QED
    BY <1>4, <2>1
<1> HIDE DEF h
<1>8. Moved(m, old, k, h)
  <2>1. ASSUME NEW j \in 0 .. k
        PROVE  h[j] = IF j = 0 THEN EmptyMap(m.heap, m.nlist * 2)
                      ELSE PutInBucket(h[j - 1], m.heap[old[j]])
    <3>1. CASE j = k
      <4>1. k - 1 \in 0 .. k /\ k - 1 # k
        BY <1>4
      <4>2. h[k - 1] = g[k - 1]
        BY <1>7, <4>1
      <4> QED
        BY <1>3, <1>7, <3>1, <4>2
    <3>2. CASE j # k
      <4>1. j \in 0 .. k - 1 /\ h[j] = g[j]
        BY <1>7, <3>2
      <4>2. j # 0 => j - 1 \in 0 .. k /\ j - 1 # k
        BY <1>4, <4>1
      <4>3. j # 0 => h[j - 1] = g[j - 1]
        BY <1>7, <4>2
      <4> QED
        BY <1>6, <4>1, <4>3 DEF Moved
    <3> QED
      BY <3>1, <3>2
  <2> QED
    BY <2>1 DEF Moved
<1>9. OK(k)
  BY <1>7, <1>8
<1> QED
  BY <1>2, <1>9

\* After j insertions the new map has the first j entries; the old nodes are as they were.
Midway(m, old, j, e, P) ==
    /\ Sound(e, P) /\ Hashed(e, P)
    /\ e = Map(e.heap, e.list, e.nlist, e.nelem)
    /\ e.nlist = m.nlist * 2 /\ e.nelem = j
    /\ Entries(e, P) = {<<m.heap[old[x]].key, m.heap[old[x]].data>> : x \in 1 .. j}
    /\ DOMAIN m.heap \subseteq DOMAIN e.heap
    /\ \A x \in DOMAIN m.heap : e.heap[x] = m.heap[x] /\ x \notin Own(P)
    /\ \A x \in DOMAIN e.heap : x \in DOMAIN m.heap \/ x \in Own(P)

LEMMA MidwayOk ==
    ASSUME NEW m, NEW Q, Sound(m, Q), Hashed(m, Q), NEW old \in Seq(DOMAIN m.heap), IsInjective(old),
           Range(old) = Own(Q), NEW g, Moved(m, old, Len(old), g)
    PROVE  \E P : Midway(m, old, Len(old), g[Len(old)], P)
<1> DEFINE n == Len(old)
           OK(j) == \E P : Midway(m, old, j, g[j], P)
           T == {j \in 0 .. n : ~OK(j)}
<1>0. n \in Nat /\ DOMAIN old = 1 .. n /\ \A j \in 1 .. n : old[j] \in DOMAIN m.heap /\ old[j] \in Own(Q)
  <2>1. n \in Nat /\ DOMAIN old = 1 .. n /\ \A j \in 1 .. n : old[j] \in DOMAIN m.heap
    OBVIOUS
  <2> HIDE DEF n
  <2> QED
    BY <2>1 DEF Range
<1> HIDE DEF n
<1> SUFFICES ASSUME T # {} PROVE FALSE
  <2>1. n \in 0 .. n
    BY <1>0
  <2> QED
    BY <2>1 DEF n
<1>1. PICK k \in T : \A y \in T : k <= y
  <2>1. T \subseteq Nat
    BY <1>0
  <2> HIDE DEF T
  <2> QED
    BY <2>1, Least
<1>2. k \in 0 .. n /\ ~OK(k)
  OBVIOUS
<1>3. k # 0
  <2> SUFFICES ASSUME k = 0 PROVE FALSE
    OBVIOUS
  <2> DEFINE e == EmptyMap(m.heap, m.nlist * 2)
  <2>1. g[0] = e
    BY <1>2 DEF Moved, n
  <2>2. HeapOk(m.heap) /\ m.nlist * 2 \in Nat \ {0}
    BY DEF Sound
  <2> DEFINE d == m.nlist * 2
  <2>3. e.heap = m.heap /\ e.nlist = d /\ e.nelem = 0 /\ e = Map(e.heap, e.list, e.nlist, e.nelem)
    BY DEF EmptyMap, Map
  <2>4. PICK P : Sound(e, P) /\ Hashed(e, P) /\ Own(P) = {}
    <3> HIDE DEF d
    <3>1. HeapOk(m.heap) /\ d \in Nat \ {0}
      BY <2>2 DEF d
    <3>2. e = EmptyMap(m.heap, d)
      BY DEF d
    <3> QED
      BY <3>1, <3>2, EmptyOk
  <2> HIDE DEF e
  <2>5. Entries(e, P) = {<<m.heap[old[x]].key, m.heap[old[x]].data>> : x \in 1 .. 0}
    <3>1. \A x \in 1 .. 0 : FALSE
      OBVIOUS
    <3> QED
      BY <2>4, <3>1 DEF Entries
  <2>6. Midway(m, old, 0, e, P)
    BY <2>3, <2>4, <2>5 DEF Midway
  <2> QED
    BY <1>2, <2>1, <2>6
<1>4. k - 1 \in 0 .. n /\ ~(k <= k - 1) /\ k \in 1 .. n /\ k \in Nat
  BY <1>0, <1>2, <1>3
<1>5. OK(k - 1)
  BY <1>1, <1>4
<1> HIDE DEF T
<1>6. PICK P : Midway(m, old, k - 1, g[k - 1], P)
  BY <1>5
<1> DEFINE e == g[k - 1]
           node == m.heap[old[k]]
<1>7. g[k] = PutInBucket(e, node)
  BY <1>2, <1>3 DEF Moved, n
<1>8. HeapOk(m.heap) /\ old[k] \in DOMAIN m.heap /\ old[k] \in Own(Q)
  BY <1>0, <1>4 DEF Sound
<1>9. node.key \in Keys /\ node.data \in Data \cup Keys \cup {NULL}
  <2>1. node.data \in Data \cup Keys \cup {NULL}
    BY <1>8, NodeFields
  <2>2. node.key \in Keys
    BY <1>8, OwnOk DEF Hashed
  <2> QED
    BY <2>1, <2>2
<1> HIDE DEF e
<1>10. \A x \in Own(P) : e.heap[x].key # node.key
  <2> SUFFICES ASSUME NEW x \in Own(P), e.heap[x].key = node.key PROVE FALSE
    OBVIOUS
  <2>1. <<e.heap[x].key, e.heap[x].data>> \in Entries(e, P)
    BY DEF Entries
  <2>2. PICK y \in 1 .. k - 1 : <<e.heap[x].key, e.heap[x].data>>
                                  = <<m.heap[old[y]].key, m.heap[old[y]].data>>
    BY <1>6, <2>1 DEF Midway, e
  <2>3. m.heap[old[y]].key = m.heap[old[k]].key
    BY <2>2
  <2>4. y \in 1 .. n /\ y # k
    BY <1>0, <1>4
  <2>5. old[y] = old[k]
    BY <1>0, <1>8, <2>3, <2>4 DEF Hashed
  <2> QED
    BY <1>0, <1>4, <2>4, <2>5 DEF IsInjective
<1>11. PICK R : Grown(e, P, g[k], R, node.key, node.data)
  <2>1. Sound(e, P) /\ Hashed(e, P)
    BY <1>6 DEF Midway, e
  <2> HIDE DEF node
  <2> QED
    BY <1>7, <1>9, <1>10, <2>1, PutOk
<1>12. Midway(m, old, k, g[k], R)
  <2>1. Sound(g[k], R) /\ Hashed(g[k], R)
    BY <1>11 DEF Grown
  <2>2. g[k] = Map(g[k].heap, g[k].list, g[k].nlist, g[k].nelem)
    BY <1>7 DEF PutInBucket, Map
  <2>3. g[k].nlist = m.nlist * 2 /\ g[k].nelem = k
    BY <1>4, <1>6, <1>11 DEF Grown, Midway, e
  <2>4. Entries(g[k], R) = {<<m.heap[old[x]].key, m.heap[old[x]].data>> : x \in 1 .. k}
    <3>1. Entries(g[k], R) = {<<m.heap[old[x]].key, m.heap[old[x]].data>> : x \in 1 .. k - 1}
                              \cup {<<m.heap[old[k]].key, m.heap[old[k]].data>>}
      BY <1>6, <1>11 DEF Grown, Midway, e
    <3>2. \A x \in 1 .. k : x \in 1 .. k - 1 \/ x = k
      BY <1>4
    <3>3. k \in 1 .. k /\ \A x \in 1 .. k - 1 : x \in 1 .. k
      BY <1>4
    <3> QED
      BY <3>1, <3>2, <3>3
  <2>5. DOMAIN m.heap \subseteq DOMAIN g[k].heap
    BY <1>6, <1>11 DEF Grown, Midway, e
  <2>6. \A x \in DOMAIN m.heap : g[k].heap[x] = m.heap[x] /\ x \notin Own(R)
    BY <1>6, <1>11 DEF Grown, Midway, e
  <2>7. \A x \in DOMAIN g[k].heap : x \in DOMAIN m.heap \/ x \in Own(R)
    BY <1>6, <1>11 DEF Grown, Midway, e
  <2> QED
    BY <2>1, <2>2, <2>3, <2>4, <2>5, <2>6, <2>7 DEF Midway
<1> QED
  BY <1>2, <1>12

LEMMA ExpandOk ==
    ASSUME NEW m, NEW Q, Sound(m, Q), Hashed(m, Q), Own(Q) = DOMAIN m.heap
    PROVE  \E P : /\ Sound(Expand(m), P) /\ Hashed(Expand(m), P) /\ Own(P) = DOMAIN Expand(m).heap
                  /\ Expand(m).nlist = m.nlist * 2 /\ Expand(m).nelem = m.nelem
                  /\ Entries(Expand(m), P) = Entries(m, Q)
<1> DEFINE old == Nodes(m)
           n == Len(old)
           F(f) == [j \in 0 .. n |-> IF j = 0 THEN EmptyMap(m.heap, m.nlist * 2)
                                     ELSE PutInBucket(f[j - 1], m.heap[old[j]])]
           moved == CHOOSE f : f = F(f)
<1>1. old \in Seq(DOMAIN m.heap) /\ IsInjective(old) /\ Range(old) = Own(Q) /\ n \in Nat
  <2>1. old \in Seq(DOMAIN m.heap) /\ IsInjective(old) /\ Range(old) = Own(Q)
    BY NodesOk
  <2> HIDE DEF old
  <2> QED
    BY <2>1
<1>2. Expand(m) = [moved[n] EXCEPT !.heap = list_delete(@, Range(old))]
  BY DEF Expand
<1> HIDE DEF old
<1>3. moved = F(moved)
  <2>1. PICK g : g = [j \in 0 .. n |-> g[j]] /\ Moved(m, old, n, g)
    BY <1>1, MovedExists
  <2>2. \A j \in 0 .. n : g[j] = IF j = 0 THEN EmptyMap(m.heap, m.nlist * 2)
                                 ELSE PutInBucket(g[j - 1], m.heap[old[j]])
    BY <2>1 DEF Moved
  <2> HIDE DEF n
  <2>3. g = F(g)
    BY <2>1, <2>2
  <2> HIDE DEF F
  <2> QED
    BY <2>3
<1>4. Moved(m, old, n, moved)
  <2> HIDE DEF moved, n
  <2> QED
    BY <1>3 DEF Moved
<1> HIDE DEF moved
<1>5. PICK P : Midway(m, old, n, moved[n], P)
  BY <1>1, <1>4, MidwayOk
<1> DEFINE e == moved[n]
           x == Expand(m)
           g == [a \in DOMAIN e.heap \ DOMAIN m.heap |-> e.heap[a]]
<1>6. x = [heap |-> g, list |-> e.list, nlist |-> m.nlist * 2, nelem |-> n]
  <2>1. e = [heap |-> e.heap, list |-> e.list, nlist |-> m.nlist * 2, nelem |-> n]
    BY <1>5 DEF Midway, Map
  <2>2. list_delete(e.heap, Range(old)) = g
    BY <1>1 DEF list_delete, Restrict
  <2>3. x = [e EXCEPT !.heap = list_delete(@, Range(old))]
    BY <1>2
  <2> HIDE DEF e, x, g
  <2> QED
    BY <2>1, <2>2, <2>3
<1> HIDE DEF x
<1>7. x.heap = g /\ x.list = e.list /\ x.nlist = m.nlist * 2 /\ x.nelem = n
  BY <1>6
<1>8. /\ Sound(e, P) /\ Hashed(e, P) /\ e.nlist = m.nlist * 2 /\ e.nelem = n
      /\ \A a \in DOMAIN e.heap : (a \notin DOMAIN m.heap) <=> a \in Own(P)
      /\ Own(P) \subseteq DOMAIN e.heap
  BY <1>5, OwnOk DEF Midway
<1>9. DOMAIN g = Own(P) /\ \A a \in Own(P) : g[a] = e.heap[a]
  BY <1>8
<1> HIDE DEF e
<1>10. HeapOk(g)
  <2>1. HeapOk(e.heap)
    BY <1>8 DEF Sound
  <2>2. IsFiniteSet(DOMAIN g)
    <3>1. IsFiniteSet(Own(P))
      BY <1>8, OwnOk
    <3> HIDE DEF g
    <3> QED
      BY <1>9, <3>1
  <2> QED
    BY <1>8, <1>9, <2>1, <2>2 DEF HeapOk
<1> HIDE DEF g
<1>11. ASSUME NEW i \in Buckets(e.nlist) PROVE Chain(g, e.list[i], P[i]) /\ Back(g, P[i])
  <2>1. Chain(e.heap, e.list[i], P[i]) /\ Back(e.heap, P[i])
    BY <1>8 DEF Sound, Hashed
  <2>2. \A a \in Range(P[i]) : a \in DOMAIN g /\ g[a] = e.heap[a]
    BY <1>8, <1>9, OwnOk
  <2> QED
    BY <2>1, <2>2, Frame
<1>12. Sound(x, P)
  BY <1>7, <1>8, <1>10, <1>11 DEF Sound
<1>13. Hashed(x, P)
  <2>1. \A i \in Buckets(x.nlist) : \A a \in Range(P[i]) : g[a].key = e.heap[a].key
    BY <1>7, <1>9, <1>12, OwnOk
  <2>2. \A i \in Buckets(x.nlist) : Back(x.heap, P[i])
    BY <1>7, <1>8, <1>11
  <2>3. \A i \in Buckets(x.nlist) : \A a \in Range(P[i]) :
          x.heap[a].key \in Keys /\ HashOf[x.heap[a].key] % x.nlist = i
    BY <1>7, <1>8, <2>1 DEF Hashed
  <2>4. \A a, b \in Own(P) : x.heap[a].key = x.heap[b].key => a = b
    BY <1>7, <1>8, <1>9 DEF Hashed
  <2>5. x.nelem = Cardinality(Own(P))
    BY <1>7, <1>8 DEF Hashed
  <2> QED
    BY <2>2, <2>3, <2>4, <2>5 DEF Hashed
<1>14. n = m.nelem
  <2>1. m.nelem = Cardinality(Own(Q))
    BY DEF Hashed
  <2>2. n = Cardinality(Own(Q))
    <3>1. old \in [1 .. n -> Own(Q)] /\ DOMAIN old = 1 .. n
      BY <1>1 DEF Range
    <3>2. old \in Surjection(1 .. n, Own(Q)) /\ old \in Injection(1 .. n, Own(Q))
      BY <1>1, <3>1 DEF Injection, Surjection, IsInjective, Range
    <3>3. IsFiniteSet(1 .. n) /\ Cardinality(1 .. n) = n
      <4>1. /\ IsFiniteSet(1 .. n)
            /\ Cardinality(1 .. n) = IF 1 > n THEN 0 ELSE (n - 1) + 1
        <5>1. 1 \in Int /\ n \in Int
          BY <1>1
        <5> HIDE DEF n
        <5> QED
          BY <5>1, FS_Interval
      <4> HIDE DEF n
      <4> QED
        BY <1>1, <4>1
    <3> HIDE DEF n
    <3>4. Cardinality(1 .. n) = Cardinality(Own(Q))
      BY <3>2, <3>3, FS_Surjection
    <3> QED
      BY <3>3, <3>4
  <2> QED
    BY <2>1, <2>2
<1>15. Entries(x, P) = Entries(m, Q)
  <2>1. Entries(x, P) = Entries(e, P)
    BY <1>7, <1>9 DEF Entries
  <2>2. Entries(e, P) = {<<m.heap[old[a]].key, m.heap[old[a]].data>> : a \in 1 .. n}
    BY <1>5 DEF Midway, e
  <2>3. \A a \in 1 .. n : old[a] \in Own(Q)
    BY <1>1 DEF Range
  <2>4. \A b \in Own(Q) : \E a \in 1 .. n : b = old[a]
    BY <1>1 DEF Range
  <2> HIDE DEF n
  <2> QED
    BY <2>1, <2>2, <2>3, <2>4 DEF Entries
<1> QED
  BY <1>7, <1>9, <1>12, <1>13, <1>14, <1>15 DEF x

-----------------------------------------------------------------------------
(***************************************************************************)
(* The invariant: there are lists that the containers hold.                *)
(***************************************************************************)
HeldBy(Q) == /\ Sound(Current, Q)
             /\ Own(Q) = DOMAIN heap
             /\ IF kind = "queue" THEN nelem = 0 ELSE Hashed(Current, Q)

ContainersInv == /\ kind \in {"map", "table", "queue"}
                 /\ nelem \in Nat /\ 2 * nelem <= nlist
                 /\ \E Q : HeldBy(Q)

\* The pairs of a key and its data that are in use.
Pairs == {<<heap[a].key, heap[a].data>> : a \in DOMAIN heap}

LEMMA CurrentIs ==
    Current.heap = heap /\ Current.list = list /\ Current.nlist = nlist /\ Current.nelem = nelem
BY DEF Current, Map

LEMMA ContainersInit == Init => ContainersInv
<1> SUFFICES ASSUME Init PROVE ContainersInv
  OBVIOUS
<1>1. /\ kind \in {"map", "table", "queue"} /\ nlist = HASH_N_LIST /\ nelem = 0
      /\ heap = [a \in {} |-> NULL] /\ list = [i \in 0 .. (HASH_N_LIST - 1) |-> empty_list]
      /\ HASH_N_LIST \in Nat \ {0}
  BY ContainersAssumption DEF Init
<1>2. Current = EmptyMap(heap, HASH_N_LIST)
  BY <1>1 DEF Current, EmptyMap, Map
<1>3. DOMAIN heap = {} /\ HeapOk(heap)
  <2>1. DOMAIN heap = {}
    BY <1>1
  <2>2. heap \in [DOMAIN heap -> NodeT]
    BY <1>1
  <2> QED
    BY <2>1, <2>2, FS_EmptySet DEF HeapOk
<1>4. PICK P : Sound(Current, P) /\ Hashed(Current, P) /\ Own(P) = {}
  BY <1>1, <1>2, <1>3, EmptyOk
<1>5. HeldBy(P)
  BY <1>1, <1>3, <1>4 DEF HeldBy
<1> QED
  BY <1>1, <1>5 DEF ContainersInv

\* A key is where the searches look for it.
LEMMA Finds ==
    ASSUME NEW Q, HeldBy(Q), kind # "queue", NEW k \in Keys
    PROVE  LET i == HashOf[k] % nlist IN
           /\ i \in Buckets(nlist)
           /\ \A a \in DOMAIN heap : heap[a].key = k => /\ a \in Range(Q[i]) /\ a # NULL
                                                       /\ Search(Current, i, k) = a
           /\ Search(Current, i, k) # NULL =>
                /\ Search(Current, i, k) \in Range(Q[i]) /\ Search(Current, i, k) \in DOMAIN heap
                /\ heap[Search(Current, i, k)].key = k
<1> DEFINE i == HashOf[k] % nlist
<1>1. Sound(Current, Q) /\ Hashed(Current, Q) /\ Own(Q) = DOMAIN heap
  BY DEF HeldBy
<1>2. i \in Buckets(nlist)
  BY <1>1, CurrentIs, IndexOk DEF Sound
<1>3. /\ \A a \in DOMAIN heap : heap[a].key = k => a \in Range(Q[i]) /\ Search(Current, i, k) = a
      /\ (\A a \in DOMAIN heap : heap[a].key # k) => Search(Current, i, k) = NULL
  BY <1>1, CurrentIs, SearchOk
<1>4. NULL \notin DOMAIN heap
  BY <1>1, CurrentIs, NullAssumption DEF Sound, HeapOk, Addresses
<1> HIDE DEF i
<1>5. ASSUME Search(Current, i, k) # NULL
      PROVE  /\ Search(Current, i, k) \in Range(Q[i]) /\ Search(Current, i, k) \in DOMAIN heap
             /\ heap[Search(Current, i, k)].key = k
  <2>1. PICK a \in DOMAIN heap : heap[a].key = k
    BY <1>3, <1>5
  <2> QED
    BY <1>3, <2>1
<1>6. \A a \in DOMAIN heap : a # NULL
  BY <1>4
<1> QED
  BY <1>2, <1>3, <1>5, <1>6 DEF i

LEMMA Become_Current ==
    ASSUME NEW m, m = Map(m.heap, m.list, m.nlist, m.nelem), Become(m)
    PROVE  /\ Current' = m /\ heap' = m.heap /\ nlist' = m.nlist /\ nelem' = m.nelem
           /\ kind' = kind
BY DEF Become, Current, Map

LEMMA AddKeeps ==
    ASSUME ContainersInv, kind # "queue", NEW k \in Keys, NEW d \in Data \cup {NULL},
           Search(Current, HashOf[k] % nlist, k) = NULL, Add(k, d)
    PROVE  ContainersInv' /\ Pairs' = Pairs \cup {<<k, d>>}
<1> DEFINE m == IF MustExpand(Current) THEN Expand(Current) ELSE Current
           node == create_node(k, d)
           p == PutInBucket(m, node)
<1>1. PICK Q : HeldBy(Q)
  BY DEF ContainersInv
<1>2. Sound(Current, Q) /\ Hashed(Current, Q) /\ Own(Q) = DOMAIN heap
  BY <1>1 DEF HeldBy
<1>3. nelem \in Nat /\ nlist \in Nat \ {0} /\ 2 * nelem <= nlist
  BY <1>2, CurrentIs DEF ContainersInv, Sound
<1>4. \E P : /\ Sound(m, P) /\ Hashed(m, P) /\ Own(P) = DOMAIN m.heap
             /\ m.nelem = nelem /\ m.nlist \in Nat /\ 2 * (nelem + 1) <= m.nlist
             /\ Entries(m, P) = Entries(Current, Q)
  <2>1. CASE MustExpand(Current)
    <3>1. m = Expand(Current)
      BY <2>1
    <3>2. PICK P : /\ Sound(m, P) /\ Hashed(m, P) /\ Own(P) = DOMAIN m.heap
                   /\ m.nlist = nlist * 2 /\ m.nelem = nelem
                   /\ Entries(m, P) = Entries(Current, Q)
      <4> HIDE DEF m
      <4> QED
        BY <1>2, <3>1, CurrentIs, ExpandOk
    <3> HIDE DEF m
    <3>3. 2 * (nelem + 1) <= nlist * 2 /\ nlist * 2 \in Nat
      BY <1>3
    <3> QED
      BY <3>2, <3>3
  <2>2. CASE ~MustExpand(Current)
    <3>1. m = Current
      BY <2>2
    <3>2. ~(nelem + 1 > nlist \div 2)
      BY <2>2, CurrentIs DEF MustExpand
    <3>3. 2 * (nelem + 1) <= nlist
      BY <1>3, <3>2
    <3> HIDE DEF m
    <3> QED
      BY <1>2, <1>3, <3>1, <3>3, CurrentIs
  <2> QED
    BY <2>1, <2>2
<1> HIDE DEF m
<1>5. PICK P : /\ Sound(m, P) /\ Hashed(m, P) /\ Own(P) = DOMAIN m.heap
               /\ m.nelem = nelem /\ m.nlist \in Nat /\ 2 * (nelem + 1) <= m.nlist
               /\ Entries(m, P) = Entries(Current, Q)
  BY <1>4
<1>6. node.key = k /\ node.data = d
  BY DEF create_node
<1>7. \A x \in Own(P) : m.heap[x].key # node.key
  <2> SUFFICES ASSUME NEW x \in Own(P), m.heap[x].key = k PROVE FALSE
    BY <1>6
  <2>1. <<m.heap[x].key, m.heap[x].data>> \in Entries(Current, Q)
    BY <1>5 DEF Entries
  <2>2. PICK y \in Own(Q) : <<m.heap[x].key, m.heap[x].data>> = <<heap[y].key, heap[y].data>>
    BY <2>1, CurrentIs DEF Entries
  <2>3. heap[y].key = k /\ y \in DOMAIN heap
    BY <1>2, <2>2
  <2> QED
    BY <1>1, <2>3, Finds
<1> HIDE DEF node
<1>8. PICK R : Grown(m, P, p, R, k, d)
  <2>1. node.key \in Keys /\ node.data \in Data \cup Keys \cup {NULL}
    BY <1>6
  <2>2. \E R : Grown(m, P, PutInBucket(m, node), R, node.key, node.data)
    BY <1>5, <1>7, <2>1, PutOk
  <2> QED
    BY <1>6, <2>2
<1>9. /\ Current' = p /\ heap' = p.heap /\ nlist' = p.nlist /\ nelem' = p.nelem /\ kind' = kind
  <2>1. Become(p)
    BY DEF Add, m, node
  <2>2. p = Map(p.heap, p.list, p.nlist, p.nelem)
    BY DEF PutInBucket, Map
  <2> HIDE DEF p
  <2> QED
    BY <2>1, <2>2, Become_Current
<1> HIDE DEF p
<1>10. Own(R) = DOMAIN p.heap
  <2>1. Own(R) \subseteq DOMAIN p.heap
    BY <1>8, OwnOk DEF Grown
  <2>2. \A x \in DOMAIN p.heap : x \in Own(R)
    BY <1>5, <1>8 DEF Grown
  <2> QED
    BY <2>1, <2>2
<1>11. HeldBy(R)'
  BY <1>8, <1>9, <1>10 DEF HeldBy, Grown
<1>12. nelem' = nelem + 1 /\ nlist' = m.nlist
  BY <1>5, <1>8, <1>9 DEF Grown
<1>13. nelem' \in Nat /\ 2 * nelem' <= nlist'
  BY <1>3, <1>5, <1>12
<1>14. Pairs' = Pairs \cup {<<k, d>>}
  <2>1. Pairs = Entries(Current, Q)
    BY <1>2, CurrentIs DEF Pairs, Entries
  <2>2. Pairs' = Entries(p, R)
    BY <1>9, <1>10 DEF Pairs, Entries
  <2>3. Entries(p, R) = Entries(m, P) \cup {<<k, d>>}
    BY <1>8 DEF Grown
  <2> QED
    BY <1>5, <2>1, <2>2, <2>3
<1> QED
  BY <1>9, <1>11, <1>13, <1>14 DEF ContainersInv

LEMMA RemoveKeeps ==
    ASSUME ContainersInv, kind # "queue", NEW k \in Keys, RemoveFrom(HashOf[k] % nlist, k)
    PROVE  /\ ContainersInv' /\ Pairs' = {e \in Pairs : e[1] # k}
           /\ \E a \in DOMAIN heap : heap[a].key = k
<1> DEFINE i == HashOf[k] % nlist
           a == Search(Current, i, k)
           r == Unlink(heap, list[i], a)
           p == Map(r.heap, [list EXCEPT ![i] = r.list], nlist, nelem - 1)
<1>1. PICK Q : HeldBy(Q)
  BY DEF ContainersInv
<1>2. Sound(Current, Q) /\ Hashed(Current, Q) /\ Own(Q) = DOMAIN heap
  BY <1>1 DEF HeldBy
<1>3. a # NULL /\ Become(p)
  BY DEF RemoveFrom
<1>4. i \in Buckets(nlist) /\ a \in Range(Q[i]) /\ a \in DOMAIN heap /\ heap[a].key = k
  BY <1>1, <1>3, Finds
<1>5. /\ DOMAIN p.heap = DOMAIN heap \ {a}
      /\ \A x \in DOMAIN p.heap : p.heap[x].key = heap[x].key /\ p.heap[x].data = heap[x].data
      /\ \E P : Sound(p, P) /\ Hashed(p, P) /\ Own(P) = Own(Q) \ {a}
  <2> HIDE DEF i, a
  <2>1. i \in Buckets(Current.nlist)
    BY <1>4, CurrentIs
  <2>2. CutFrom(Current, Q, a, Cut(Current, i, a))
    BY <1>2, <1>4, <2>1, TakeOk
  <2>3. Cut(Current, i, a) = p
    BY CurrentIs DEF Cut
  <2>4. CutFrom(Current, Q, a, p)
    BY <2>2, <2>3
  <2>5. Current.heap = heap
    BY CurrentIs
  <2> HIDE DEF p
  <2> QED
    BY <2>4, <2>5 DEF CutFrom
<1>6. PICK P : Sound(p, P) /\ Hashed(p, P) /\ Own(P) = Own(Q) \ {a}
  BY <1>5
<1>7. p = Map(p.heap, p.list, p.nlist, p.nelem) /\ p.nlist = nlist /\ p.nelem = nelem - 1
  BY DEF Map
<1> HIDE DEF p, a
<1>8. /\ Current' = p /\ heap' = p.heap /\ nlist' = nlist /\ nelem' = nelem - 1 /\ kind' = kind
  BY <1>3, <1>7, Become_Current
<1>9. HeldBy(P)'
  BY <1>2, <1>5, <1>6, <1>8 DEF HeldBy
<1>10. nelem - 1 \in Nat
  <2>1. IsFiniteSet(Own(P))
    BY <1>6, OwnOk
  <2>2. Cardinality(Own(P)) \in Nat
    BY <2>1, FS_CardinalityType
  <2>3. p.nelem = Cardinality(Own(P))
    BY <1>6 DEF Hashed
  <2> QED
    BY <1>7, <2>2, <2>3
<1>11. 2 * (nelem - 1) <= nlist
  BY <1>2, <1>10, CurrentIs DEF ContainersInv, Sound
<1>12. Pairs' = {e \in Pairs : e[1] # k}
  <2>1. \A x \in DOMAIN heap : x # a <=> heap[x].key # k
    BY <1>2, <1>4, CurrentIs DEF Hashed
  <2>2. DOMAIN heap' = DOMAIN heap \ {a}
    BY <1>5, <1>8
  <2>3. \A x \in DOMAIN heap' : <<heap'[x].key, heap'[x].data>> = <<heap[x].key, heap[x].data>>
    BY <1>5, <1>8
  <2>4. ASSUME NEW e \in Pairs' PROVE e \in Pairs /\ e[1] # k
    <3>1. PICK x \in DOMAIN heap' : e = <<heap'[x].key, heap'[x].data>>
      BY DEF Pairs
    <3>2. e = <<heap[x].key, heap[x].data>> /\ x \in DOMAIN heap /\ heap[x].key # k
      BY <2>1, <2>2, <2>3, <3>1
    <3> QED
      BY <3>2 DEF Pairs
  <2>5. ASSUME NEW e \in Pairs, e[1] # k PROVE e \in Pairs'
    <3>1. PICK x \in DOMAIN heap : e = <<heap[x].key, heap[x].data>>
      BY DEF Pairs
    <3>2. x \in DOMAIN heap'
      BY <2>1, <2>2, <2>5, <3>1
    <3>3. e = <<heap'[x].key, heap'[x].data>>
      BY <2>3, <3>1, <3>2
    <3> QED
      BY <3>2, <3>3 DEF Pairs
  <2> QED
    BY <2>4, <2>5
<1> QED
  BY <1>4, <1>8, <1>9, <1>10, <1>11, <1>12 DEF ContainersInv

\* The queue as the sequence of what its nodes hold.
LEMMA FifoIs ==
    ASSUME NEW h, HeapOk(h), NEW l, NEW q, Chain(h, l, q)
    PROVE  /\ q \in Seq(DOMAIN h)
           /\ LET w == Walk(h, l.head) IN
              [i \in DOMAIN w |-> IF w[i] \in DOMAIN h THEN h[w[i]].data ELSE NULL]
                = [i \in 1 .. Len(q) |-> h[q[i]].data]
<1>1. Walk(h, l.head) = q
  BY WalkChain
<1>2. q \in Seq(DOMAIN h)
  BY DEF Chain
<1>3. DOMAIN q = 1 .. Len(q) /\ \A i \in 1 .. Len(q) : q[i] \in DOMAIN h
  BY <1>2
<1> QED
  BY <1>1, <1>2, <1>3

\* The queue: bucket 0 changes, and every node stays in the buckets.
LEMMA QueueKeeps ==
    ASSUME ContainersInv, NEW Q, HeldBy(Q), kind = "queue", NEW r, NEW q, Separate(Current, Q, 0, r, q),
           \A x : x \in DOMAIN r.heap <=> x \in Range(q) \/ (x \in DOMAIN heap /\ x \notin Range(Q[0])),
           heap' = r.heap, list' = [list EXCEPT ![0] = r.list], UNCHANGED <<kind, nlist, nelem>>
    PROVE  /\ ContainersInv'
           /\ LET w == Q[0] IN AbsFifo = [i \in 1 .. Len(w) |-> heap[w[i]].data]
           /\ AbsFifo' = [i \in 1 .. Len(q) |-> heap'[q[i]].data]
<1> DEFINE p == Map(r.heap, [list EXCEPT ![0] = r.list], nlist, nelem)
           P == [Q EXCEPT ![0] = q]
<1>1. Sound(Current, Q) /\ Own(Q) = DOMAIN heap /\ nelem = 0
  BY DEF HeldBy
<1>2. 0 \in Buckets(nlist)
  BY <1>1, CurrentIs DEF Sound, Buckets
<1>3. /\ Sound(p, P)
      /\ \A x : x \in Own(P) <=> x \in Range(q) \/ (x \in Own(Q) /\ x \notin Range(Q[0]))
  BY <1>1, <1>2, CurrentIs, SetBucket
<1>4. Current' = p
  BY DEF Current, Map
<1> HIDE DEF p, P
<1>5. Own(P) = DOMAIN heap'
  BY <1>1, <1>3
<1>6. HeldBy(P)'
  BY <1>1, <1>3, <1>4, <1>5 DEF HeldBy
<1>7. AbsFifo = [i \in 1 .. Len(Q[0]) |-> heap[Q[0][i]].data]
  <2>1. HeapOk(heap) /\ Chain(heap, list[0], Q[0])
    BY <1>1, <1>2, CurrentIs DEF Sound
  <2> QED
    BY <2>1, FifoIs DEF AbsFifo
<1>8. AbsFifo' = [i \in 1 .. Len(q) |-> heap'[q[i]].data]
  <2>1. HeapOk(heap') /\ Chain(heap', r.list, q)
    BY DEF Separate
  <2>2. list'[0] = r.list
    BY <1>1, <1>2, CurrentIs DEF Sound
  <2>3. AbsFifo' = LET w == Walk(heap', list'[0].head) IN
                   [i \in DOMAIN w |-> IF w[i] \in DOMAIN heap' THEN heap'[w[i]].data ELSE NULL]
    BY DEF AbsFifo
  <2> QED
    BY <2>1, <2>2, <2>3, FifoIs
<1> QED
  BY <1>6, <1>7, <1>8 DEF ContainersInv

LEMMA EnqueueKeeps ==
    ASSUME ContainersInv, NEW k \in Keys, Enqueue(k)
    PROVE  ContainersInv' /\ AbsFifo' = Append(AbsFifo, k) /\ Len(AbsFifo) < MaxQueue
<1> DEFINE r == list_push_back(heap, list[0], NULL, k)
           f == Fresh(heap)
<1>1. PICK Q : HeldBy(Q)
  BY DEF ContainersInv
<1> DEFINE q == Append(Q[0], f)
<1>2. /\ kind = "queue" /\ heap' = r.heap /\ list' = [list EXCEPT ![0] = r.list]
      /\ UNCHANGED <<kind, nlist, nelem>>
  BY DEF Enqueue
<1>3. Sound(Current, Q) /\ Own(Q) = DOMAIN heap
  BY <1>1 DEF HeldBy
<1>4. 0 \in Buckets(nlist) /\ HeapOk(heap) /\ Chain(heap, list[0], Q[0]) /\ Q[0] \in Seq(DOMAIN heap)
  BY <1>3, CurrentIs DEF Sound, Buckets, Chain
<1>5. Pushed(heap, Q[0], r, f, NULL, k)
  BY <1>4, PushBack
<1>6. Range(q) = Range(Q[0]) \cup {f}
  BY <1>4, AppendRange
<1>7. \A j \in Buckets(nlist) : j # 0 => \A x \in Range(Q[j]) : x \notin Range(Q[0]) /\ x \in DOMAIN heap
  BY <1>3, <1>4, CurrentIs, OwnOk DEF Sound
<1> HIDE DEF r, f
<1>8. Separate(Current, Q, 0, r, q)
  BY <1>5, <1>6, <1>7, CurrentIs DEF Separate, Pushed
<1>9. \A x : x \in DOMAIN r.heap <=> x \in Range(q) \/ (x \in DOMAIN heap /\ x \notin Range(Q[0]))
  <2>1. Range(Q[0]) \subseteq DOMAIN heap /\ DOMAIN r.heap = DOMAIN heap \cup {f}
    BY <1>4, <1>5 DEF Range, Pushed
  <2> QED
    BY <1>6, <2>1
<1> DEFINE s == Q[0]
           n == Len(s)
<1>10. /\ n \in Nat /\ Len(q) = n + 1 /\ q[n + 1] = f
       /\ \A j \in 1 .. n : q[j] = s[j] /\ s[j] \in DOMAIN heap
  <2>1. s \in Seq(DOMAIN heap)
    BY <1>4
  <2> HIDE DEF s
  <2>2. /\ n \in Nat /\ Len(Append(s, f)) = n + 1 /\ Append(s, f)[n + 1] = f
        /\ \A j \in 1 .. n : Append(s, f)[j] = s[j] /\ s[j] \in DOMAIN heap
    BY <2>1
  <2> QED
    BY <2>2 DEF s
<1>11. list[0].nelem = n
  BY <1>4 DEF Chain
<1> HIDE DEF q, n
<1>12. /\ ContainersInv' /\ AbsFifo = [j \in 1 .. n |-> heap[s[j]].data]
       /\ AbsFifo' = [j \in 1 .. Len(q) |-> heap'[q[j]].data]
  BY <1>1, <1>2, <1>8, <1>9, QueueKeeps DEF n
<1>13. AbsFifo' = Append(AbsFifo, k)
  <2> HIDE DEF s
  <2>1. heap'[f].data = k /\ \A x \in DOMAIN heap : heap'[x].data = heap[x].data
    BY <1>2, <1>5 DEF Pushed
  <2>2. \A j \in 1 .. n : heap'[q[j]].data = heap[s[j]].data
    BY <1>10, <2>1
  <2> DEFINE v == [j \in 1 .. n |-> heap[s[j]].data]
  <2>3. Append(v, k) = [j \in 1 .. n + 1 |-> IF j = n + 1 THEN k ELSE heap[s[j]].data]
    <3>1. \A j \in 1 .. n : j # n + 1
      BY <1>10
    <3> DEFINE A == {v[j] : j \in 1 .. n} \cup {k}
    <3>2. v \in Seq(A) /\ Len(v) = n /\ k \in A
      BY <1>10
    <3>3. \A j \in 1 .. n : v[j] = heap[s[j]].data
      OBVIOUS
    <3> HIDE DEF v, A
    <3>5. \A j \in 1 .. n + 1 : j = n + 1 \/ j \in 1 .. n
      BY <1>10
    <3>4. Append(v, k) = [j \in 1 .. n + 1 |-> IF j = n + 1 THEN k ELSE v[j]]
      <4> DEFINE u == Append(v, k)
      <4>1. /\ u \in Seq(A) /\ Len(u) = n + 1 /\ u[n + 1] = k
            /\ \A j \in 1 .. n : u[j] = v[j]
        BY <3>2
      <4> HIDE DEF u
      <4>2. u = [j \in 1 .. n + 1 |-> u[j]]
        BY <4>1
      <4>3. \A j \in 1 .. n + 1 : u[j] = IF j = n + 1 THEN k ELSE v[j]
        BY <3>1, <3>5, <4>1
      <4> QED
        BY <4>2, <4>3 DEF u
    <3> QED
      BY <3>3, <3>4, <3>5
  <2>4. \A j \in 1 .. n + 1 : heap'[q[j]].data = IF j = n + 1 THEN k ELSE heap[s[j]].data
    <3>1. \A j \in 1 .. n + 1 : j = n + 1 \/ j \in 1 .. n
      BY <1>10
    <3> QED
      BY <1>10, <2>1, <2>2, <3>1
  <2> HIDE DEF v
  <2>5. AbsFifo' = [j \in 1 .. n + 1 |-> IF j = n + 1 THEN k ELSE heap[s[j]].data]
    BY <1>10, <1>12, <2>4
  <2> QED
    BY <1>12, <2>3, <2>5 DEF v
<1>14. Len(AbsFifo) < MaxQueue
  <2>1. n < MaxQueue
    BY <1>11 DEF Enqueue
  <2>2. n \in Nat
    BY <1>10
  <2> HIDE DEF s
  <2>3. Len(AbsFifo) = n
    BY <1>12, <2>2
  <2> QED
    BY <2>1, <2>3
<1> QED
  BY <1>12, <1>13, <1>14

LEMMA DequeueKeeps ==
    ASSUME ContainersInv, Dequeue
    PROVE  ContainersInv' /\ AbsFifo # <<>> /\ AbsFifo' = Tail(AbsFifo)
<1> DEFINE r == list_pop_front(heap, list[0])
<1>1. PICK Q : HeldBy(Q)
  BY DEF ContainersInv
<1> DEFINE q == Without(Q[0], 1)
<1>2. /\ kind = "queue" /\ heap' = r.heap /\ list' = [list EXCEPT ![0] = r.list]
      /\ UNCHANGED <<kind, nlist, nelem>> /\ list[0].nelem > 0
  BY DEF Dequeue
<1>3. Sound(Current, Q) /\ Own(Q) = DOMAIN heap
  BY <1>1 DEF HeldBy
<1>4. /\ 0 \in Buckets(nlist) /\ HeapOk(heap) /\ Chain(heap, list[0], Q[0])
      /\ Q[0] \in Seq(DOMAIN heap) /\ IsInjective(Q[0])
  <2>1. 0 \in Buckets(nlist) /\ HeapOk(heap)
    BY <1>3, CurrentIs DEF Sound, Buckets
  <2>2. Chain(heap, list[0], Q[0])
    BY <1>3, <2>1, CurrentIs DEF Sound
  <2> QED
    BY <2>1, <2>2 DEF Chain
<1>5. Len(Q[0]) # 0 /\ 1 \in 1 .. Len(Q[0])
  <2>1. list[0].nelem = Len(Q[0]) /\ Len(Q[0]) \in Nat
    BY <1>4 DEF Chain
  <2> QED
    BY <1>2, <2>1
<1>6. Taken(heap, Q[0], r, 1)
  BY <1>4, <1>5, PopFrontOk
<1>7. Range(q) = Range(Q[0]) \ {Q[0][1]}
  BY <1>4, <1>5, WithoutOk
<1>8. \A j \in Buckets(nlist) : j # 0 => \A x \in Range(Q[j]) : x \notin Range(Q[0]) /\ x \in DOMAIN heap
  BY <1>3, <1>4, CurrentIs, OwnOk DEF Sound
<1>9. Q[0][1] \in Range(Q[0]) /\ Range(Q[0]) \subseteq DOMAIN heap
  BY <1>4, <1>5 DEF Range
<1> HIDE DEF r
<1>10. Separate(Current, Q, 0, r, q)
  BY <1>6, <1>7, <1>8, <1>9, CurrentIs DEF Separate, Taken
<1>11. \A x : x \in DOMAIN r.heap <=> x \in Range(q) \/ (x \in DOMAIN heap /\ x \notin Range(Q[0]))
  BY <1>6, <1>7, <1>9 DEF Taken
<1> DEFINE s == Q[0]
           n == Len(s)
<1>12. /\ n \in Nat /\ n # 0 /\ Len(q) = n - 1
       /\ \A j \in 1 .. n - 1 : q[j] = s[j + 1] /\ q[j] \in DOMAIN heap /\ q[j] # s[1]
  <2>1. s \in Seq(DOMAIN heap) /\ IsInjective(s) /\ n # 0 /\ 1 \in 1 .. n /\ n \in Nat
    BY <1>4, <1>5
  <2>2. q \in Seq(DOMAIN heap \ {s[1]}) /\ Len(q) = n - 1
    <3> HIDE DEF s
    <3>1. Without(s, 1) \in Seq(DOMAIN heap \ {s[1]}) /\ Len(Without(s, 1)) = n - 1
      BY <2>1, WithoutOk
    <3> QED
      BY <3>1 DEF s
  <2>3. \A j \in 1 .. n - 1 : q[j] \in DOMAIN heap /\ q[j] # s[1]
    <3> HIDE DEF q, s
    <3> QED
      BY <2>2
  <2>4. \A j \in 1 .. n - 1 : q[j] = s[j + 1]
    <3> HIDE DEF s
    <3>1. Without(s, 1) = [j \in 1 .. n - 1 |-> IF j < 1 THEN s[j] ELSE s[j + 1]]
      BY DEF Without
    <3>2. \A j \in 1 .. n - 1 : ~(j < 1)
      BY <2>1
    <3>3. \A j \in 1 .. n - 1 : Without(s, 1)[j] = s[j + 1]
      BY <3>1, <3>2
    <3> QED
      BY <3>3 DEF s
  <2> QED
    BY <2>1, <2>2, <2>3, <2>4
<1> HIDE DEF q, n
<1>13. /\ ContainersInv' /\ AbsFifo = [j \in 1 .. n |-> heap[s[j]].data]
       /\ AbsFifo' = [j \in 1 .. Len(q) |-> heap'[q[j]].data]
  BY <1>1, <1>2, <1>10, <1>11, QueueKeeps DEF n
<1>14. AbsFifo # <<>> /\ AbsFifo' = Tail(AbsFifo)
  <2> HIDE DEF s
  <2>1. \A x \in DOMAIN heap : x # s[1] => heap'[x].data = heap[x].data
    BY <1>2, <1>6 DEF Taken, s
  <2>2. \A j \in 1 .. n - 1 : heap'[q[j]].data = heap[s[j + 1]].data
    BY <1>12, <2>1
  <2> DEFINE v == [j \in 1 .. n |-> heap[s[j]].data]
             A == {v[j] : j \in 1 .. n}
  <2>3. v \in Seq(A) /\ Len(v) = n /\ v # <<>>
    <3>1. v \in Seq(A) /\ Len(v) = n
      BY <1>12
    <3> HIDE DEF v, A
    <3> QED
      BY <1>12, <3>1
  <2>4. \A j \in 1 .. n - 1 : v[j + 1] = heap[s[j + 1]].data
    <3>1. \A j \in 1 .. n - 1 : j + 1 \in 1 .. n
      BY <1>12
    <3> QED
      BY <3>1
  <2> HIDE DEF v, A
  <2>5. Tail(v) = [j \in 1 .. n - 1 |-> v[j + 1]]
    <3> DEFINE u == Tail(v)
    <3>1. u \in Seq(A) /\ Len(u) = n - 1 /\ \A j \in 1 .. n - 1 : u[j] = v[j + 1]
      BY <1>12, <2>3
    <3> HIDE DEF u
    <3>2. u = [j \in 1 .. n - 1 |-> u[j]]
      BY <3>1
    <3> QED
      BY <3>1, <3>2 DEF u
  <2>6. Tail(v) = [j \in 1 .. n - 1 |-> heap[s[j + 1]].data]
    BY <2>4, <2>5
  <2>7. AbsFifo' = [j \in 1 .. n - 1 |-> heap[s[j + 1]].data]
    BY <1>12, <1>13, <2>2
  <2> QED
    BY <1>13, <2>3, <2>6, <2>7 DEF v
<1> QED
  BY <1>13, <1>14

LEMMA ContainersStep == ContainersInv /\ [Next]_vars => ContainersInv'
<1> SUFFICES ASSUME ContainersInv, [Next]_vars PROVE ContainersInv'
  OBVIOUS
<1>0. nlist \in Nat \ {0}
  BY CurrentIs DEF ContainersInv, HeldBy, Sound
<1>1. ASSUME NEW k \in Keys, NEW d \in Data, hashmap_insert(k, d) PROVE ContainersInv'
  <2>1. kind = "map" /\ Search(Current, HashOf[k] % nlist, k) = NULL /\ Add(k, d)
    BY <1>0, <1>1, IndexOk DEF hashmap_insert, hashmap_contains
  <2> QED
    BY <2>1, AddKeeps
<1>2. ASSUME NEW k \in Keys, hashtbl_insert(k) PROVE ContainersInv'
  <2>1. kind = "table" /\ Search(Current, HashOf[k] % nlist, k) = NULL /\ Add(k, NULL)
    BY <1>0, <1>2, IndexOk DEF hashtbl_insert, hashtbl_contains
  <2> QED
    BY <2>1, AddKeeps
<1>3. ASSUME NEW k \in Keys, hashmap_remove(k) PROVE ContainersInv'
  <2>1. kind = "map" /\ RemoveFrom(HashOf[k] % nlist, k)
    BY <1>0, <1>3, IndexOk DEF hashmap_remove
  <2> QED
    BY <2>1, RemoveKeeps
<1>4. ASSUME NEW k \in Keys, hashtbl_remove(k) PROVE ContainersInv'
  <2>1. kind = "table" /\ RemoveFrom(HashOf[k] % nlist, k)
    BY <1>0, <1>4, IndexOk DEF hashtbl_remove
  <2> QED
    BY <2>1, RemoveKeeps
<1>5. ASSUME NEW k \in Keys, Enqueue(k) PROVE ContainersInv'
  BY <1>5, EnqueueKeeps
<1>6. ASSUME Dequeue PROVE ContainersInv'
  BY <1>6, DequeueKeeps
<1>7. ASSUME UNCHANGED <<kind, heap, nlist, nelem, list>> PROVE ContainersInv'
  <2>1. Current' = Current
    BY <1>7 DEF Current
  <2>2. PICK Q : HeldBy(Q)
    BY DEF ContainersInv
  <2>3. HeldBy(Q)'
    BY <1>7, <2>1, <2>2 DEF HeldBy
  <2> QED
    BY <1>7, <2>3 DEF ContainersInv
<1> QED
  BY <1>1, <1>2, <1>3, <1>4, <1>5, <1>6, <1>7
  DEF Next, vars, hash_iter_init, iter_get_next, IterDone

(***************************************************************************)
(* The buckets and the queue hold lists, with the keys in their buckets,   *)
(* whatever hashmap_insert, hashtbl_insert, the removals, the expansions,  *)
(* list_push_back and list_pop_front have done.                            *)
(***************************************************************************)
THEOREM ContainersInvariant == Spec => []ContainersInv
BY ContainersInit, ContainersStep, PTL DEF Spec

(***************************************************************************)
(* WellLinked, for any number of keys and of buckets: what is reachable    *)
(* from a list_t is exactly what is in use, forwards and, where nodes are  *)
(* unlinked, backwards; and the counters are exact.                        *)
(***************************************************************************)
THEOREM PointersSound == Spec => []WellLinked
<1>1. ContainersInv => WellLinked
  <2> SUFFICES ASSUME ContainersInv PROVE WellLinked
    OBVIOUS
  <2>1. PICK Q : HeldBy(Q)
    BY DEF ContainersInv
  <2>2. Sound(Current, Q) /\ Own(Q) = DOMAIN heap /\ (kind # "queue" => Hashed(Current, Q))
    BY <2>1 DEF HeldBy
  <2>3. HeapOk(heap) /\ DOMAIN list = Buckets(nlist)
    BY <2>2, CurrentIs DEF Sound
  <2>4. ASSUME NEW i \in DOMAIN list
        PROVE  ForwardLinked(heap, list[i]) /\ (kind # "queue" => BackwardLinked(heap, list[i]))
    <3> DEFINE q == Q[i]
    <3>1. Chain(heap, list[i], q)
      BY <2>2, <2>3, CurrentIs DEF Sound
    <3>2. Walk(heap, list[i].head) = q
      BY <2>3, <3>1, WalkChain
    <3> HIDE DEF q
    <3>3. /\ q \in Seq(DOMAIN heap) /\ Len(q) \in Nat /\ DOMAIN q = 1 .. Len(q) /\ IsInjective(q)
          /\ (q = <<>> <=> Len(q) = 0)
      BY <3>1 DEF Chain
    <3>4. Range(q) \subseteq DOMAIN heap
      BY <3>3 DEF Range
    <3>5. list[i].nelem = Len(q) /\ list[i].tail = IF q = <<>> THEN NULL ELSE q[Len(q)]
      BY <3>1, <3>3 DEF Chain
    <3>6. ForwardLinked(heap, list[i])
      BY <3>2, <3>3, <3>4, <3>5 DEF ForwardLinked, Last
    <3>7. ASSUME kind # "queue" PROVE BackwardLinked(heap, list[i])
      <4>1. Back(heap, q)
        BY <2>2, <2>3, <3>7, CurrentIs DEF Hashed, q
      <4> QED
        BY <3>2, <3>3, <4>1 DEF Back, BackwardLinked
    <3> QED
      BY <3>6, <3>7
  <2>5. IsInjective(Nodes(Current)) /\ Range(Nodes(Current)) = DOMAIN heap
    BY <2>2, NodesOk
  <2>6. kind # "queue" => nelem = Cardinality(DOMAIN heap)
    BY <2>2, CurrentIs DEF Hashed
  <2> QED
    BY <2>4, <2>5, <2>6 DEF WellLinked
<1> QED
  BY <1>1, ContainersInvariant, PTL

(***************************************************************************)
(* KeysFindable, for any hash function and any number of buckets: every    *)
(* key is found by the searches, whatever expansions have moved it.        *)
(***************************************************************************)
THEOREM SearchesFind == Spec => []KeysFindable
<1>1. ContainersInv => KeysFindable
  <2> SUFFICES ASSUME ContainersInv PROVE KeysFindable
    OBVIOUS
  <2>1. PICK Q : HeldBy(Q)
    BY DEF ContainersInv
  <2>2. ASSUME NEW a \in DOMAIN heap, kind # "queue"
        PROVE  /\ Search(Current, Index(heap[a].key, nlist), heap[a].key) = a
               /\ Search(Current, HashtblRemoveIndex(heap[a].key, nlist), heap[a].key) = a
    <3>1. nlist \in Nat \ {0} /\ heap[a].key \in Keys
      BY <2>1, <2>2, CurrentIs, OwnOk DEF HeldBy, Sound, Hashed
    <3>2. Search(Current, HashOf[heap[a].key] % nlist, heap[a].key) = a
      BY <2>1, <2>2, <3>1, Finds
    <3> QED
      BY <3>1, <3>2, IndexOk
  <2>3. 2 * nelem <= nlist
    BY DEF ContainersInv
  <2> QED
    BY <2>2, <2>3 DEF KeysFindable
<1> QED
  BY <1>1, ContainersInvariant, PTL

-----------------------------------------------------------------------------
(***************************************************************************)
(* The iterators.  What is left to return is the rest of the current list  *)
(* and the later lists.                                                    *)
(***************************************************************************)
LEMMA BeyondNext ==
    ASSUME NEW A, NEW q \in Seq(A), IsInjective(q), NEW p \in 1 .. Len(q)
    PROVE  /\ p = Len(q) => Beyond(q, q[p]) = {}
           /\ p # Len(q) => /\ \A b : b \in Beyond(q, q[p])
                                        <=> b = q[p + 1] \/ b \in Beyond(q, q[p + 1])
                            /\ q[p + 1] \notin Beyond(q, q[p + 1])
           /\ p = 1 => /\ \A b : b \in Range(q) <=> b = q[1] \/ b \in Beyond(q, q[1])
                       /\ q[1] \notin Beyond(q, q[1])
<1> DEFINE n == Len(q)
<1>1. n \in Nat /\ DOMAIN q = 1 .. n /\ p \in 1 .. n /\ p \in Nat
  OBVIOUS
<1>2. \A a, b : b \in Beyond(q, a) <=> \E x, y \in 1 .. n : y < x /\ q[y] = a /\ q[x] = b
  BY BeyondIn
<1> HIDE DEF n
<1>3. \A x, y \in 1 .. n : q[x] = q[y] => x = y
  BY <1>1 DEF IsInjective
<1>4. ASSUME NEW d \in 1 .. n, NEW b
      PROVE  b \in Beyond(q, q[d]) <=> \E x \in 1 .. n : d < x /\ q[x] = b
  BY <1>2, <1>3
<1>5. ASSUME NEW d \in 1 .. n PROVE q[d] \notin Beyond(q, q[d])
  <2> SUFFICES ASSUME q[d] \in Beyond(q, q[d]) PROVE FALSE
    OBVIOUS
  <2>1. PICK x \in 1 .. n : d < x /\ q[x] = q[d]
    BY <1>4
  <2>2. x = d
    BY <1>3, <2>1
  <2> QED
    BY <1>1, <2>1, <2>2
<1>6. ASSUME p = n PROVE Beyond(q, q[p]) = {}
  <2>1. \A x \in 1 .. n : ~(p < x)
    BY <1>1, <1>6
  <2> QED
    BY <1>1, <1>4, <2>1
<1>7. ASSUME p # n, NEW b
      PROVE  b \in Beyond(q, q[p]) <=> b = q[p + 1] \/ b \in Beyond(q, q[p + 1])
  <2>1. p + 1 \in 1 .. n
    BY <1>1, <1>7
  <2>2. \A x \in 1 .. n : p < x <=> (x = p + 1 \/ p + 1 < x)
    BY <1>1
  <2>3. b \in Beyond(q, q[p]) <=> \E x \in 1 .. n : p < x /\ q[x] = b
    BY <1>1, <1>4
  <2>4. b \in Beyond(q, q[p + 1]) <=> \E x \in 1 .. n : p + 1 < x /\ q[x] = b
    BY <1>4, <2>1
  <2> QED
    BY <2>1, <2>2, <2>3, <2>4
<1>8. p # n => q[p + 1] \notin Beyond(q, q[p + 1])
  <2> SUFFICES ASSUME p # n PROVE q[p + 1] \notin Beyond(q, q[p + 1])
    OBVIOUS
  <2>1. p + 1 \in 1 .. n
    BY <1>1
  <2> QED
    BY <1>5, <2>1
<1>9. ASSUME NEW b PROVE b \in Range(q) <=> b = q[1] \/ b \in Beyond(q, q[1])
  <2>1. 1 \in 1 .. n /\ \A x \in 1 .. n : x = 1 \/ 1 < x
    BY <1>1
  <2>2. b \in Range(q) <=> \E x \in 1 .. n : q[x] = b
    BY <1>1 DEF Range
  <2>3. b \in Beyond(q, q[1]) <=> \E x \in 1 .. n : 1 < x /\ q[x] = b
    BY <1>4, <2>1
  <2> QED
    BY <2>1, <2>2, <2>3
<1>10. q[1] \notin Beyond(q, q[1])
  <2>1. 1 \in 1 .. n
    BY <1>1
  <2> QED
    BY <1>5, <2>1
<1> QED
  BY <1>6, <1>7, <1>8, <1>9, <1>10 DEF n

\* The lists of all buckets.
Lists == [i \in Buckets(nlist) |-> Walk(heap, list[i].head)]

LEMMA ListsAre ==
    ASSUME NEW Q, HeldBy(Q)
    PROVE  Lists = Q
<1>1. Sound(Current, Q)
  BY DEF HeldBy
<1>2. ASSUME NEW i \in Buckets(nlist) PROVE Walk(heap, list[i].head) = Q[i]
  <2>1. HeapOk(heap) /\ Chain(heap, list[i], Q[i])
    BY <1>1, CurrentIs DEF Sound
  <2> QED
    BY <2>1, WalkChain
<1>3. Q = [i \in Buckets(nlist) |-> Q[i]]
  BY <1>1, CurrentIs DEF Sound
<1> QED
  BY <1>2, <1>3 DEF Lists

LEMMA Holds == ContainersInv => /\ HeldBy(Lists) /\ nlist \in Nat \ {0}
                                /\ NULL \notin DOMAIN heap
<1> SUFFICES ASSUME ContainersInv PROVE HeldBy(Lists) /\ nlist \in Nat \ {0} /\ NULL \notin DOMAIN heap
  OBVIOUS
<1>1. PICK Q : HeldBy(Q)
  BY DEF ContainersInv
<1>2. HeldBy(Lists)
  BY <1>1, ListsAre
<1>3. nlist \in Nat \ {0} /\ HeapOk(heap)
  BY <1>1, CurrentIs DEF HeldBy, Sound
<1> QED
  BY <1>2, <1>3, NullAssumption DEF HeapOk, Addresses

\* The iterator is at a node of its current list, or before the first list.
IterOk ==
    /\ iter = [state |-> iter.state, current_list |-> iter.current_list,
               current_pos |-> iter.current_pos]
    /\ \/ iter = NoIter
       \/ iter.state = "end" /\ kind # "queue" /\ iter.current_pos = NULL
       \/ /\ iter.state = "yes" /\ kind # "queue"
          /\ iter.current_pos = NULL /\ iter.current_list = -1
       \/ /\ iter.state = "yes" /\ kind # "queue"
          /\ iter.current_list \in Buckets(nlist)
          /\ iter.current_pos \in Range(Lists[iter.current_list])

\* What the iterator has still to return.
Left == IF iter.state # "yes" THEN {}
        ELSE {b \in DOMAIN heap :
                \/ /\ iter.current_pos # NULL
                   /\ b \in Beyond(Lists[iter.current_list], iter.current_pos)
                \/ \E j \in Buckets(nlist) : j > iter.current_list /\ b \in Range(Lists[j])}

\* The order of the iterators.
LEMMA NodesOrder ==
    ASSUME NEW m, NEW Q, Sound(m, Q), NEW i \in Buckets(m.nlist), NEW a \in Range(Q[i])
    PROVE  \A b : b \in Beyond(Nodes(m), a)
                    <=> \/ b \in Beyond(Q[i], a)
                        \/ \E j \in Buckets(m.nlist) : j > i /\ b \in Range(Q[j])
<1> DEFINE n == m.nlist
<1>1. n \in Nat /\ n # 0 /\ \A j \in 1 .. n : j - 1 \in Buckets(n)
  BY DEF Sound, Buckets
<1>2. PICK s : FlatOf(m, Q, s)
  BY NodesAre
<1>3. /\ s \in Seq(Seq(DOMAIN m.heap)) /\ Len(s) = n /\ Disjoint(s) /\ Nodes(m) = FlattenSeq(s)
      /\ \A j \in 1 .. n : s[j] = Q[j - 1]
  BY <1>2 DEF FlatOf
<1> HIDE DEF n
<1>4. \A j \in Buckets(n) : j + 1 \in 1 .. n /\ (j + 1) - 1 = j /\ j \in Int
  BY <1>1 DEF Buckets
<1>5. i \in Buckets(n)
  BY DEF n
<1>6. i + 1 \in 1 .. Len(s) /\ s[i + 1] = Q[i] /\ a \in Range(s[i + 1])
  BY <1>3, <1>4, <1>5
<1> DEFINE k == i + 1
<1>7. \A b : b \in Beyond(FlattenSeq(s), a)
               <=> b \in Beyond(s[k], a) \/ \E j \in 1 .. Len(s) : j > k /\ b \in Range(s[j])
  <2>1. k \in 1 .. Len(s) /\ a \in Range(s[k])
    BY <1>6
  <2> HIDE DEF k
  <2> QED
    BY <1>3, <2>1, FlattenOrder
<1>8. ASSUME NEW b
      PROVE  (\E j \in 1 .. n : j > k /\ b \in Range(s[j]))
               <=> \E j \in Buckets(n) : j > i /\ b \in Range(Q[j])
  <2>1. ASSUME NEW j \in 1 .. n, j > k, b \in Range(s[j])
        PROVE  \E x \in Buckets(n) : x > i /\ b \in Range(Q[x])
    <3>1. j - 1 \in Buckets(n) /\ j - 1 > i /\ s[j] = Q[j - 1]
      <4>1. j - 1 \in Buckets(n) /\ j \in Int /\ i \in Int
        BY <1>1, <1>4, <1>5
      <4>2. s[j] = Q[j - 1]
        BY <1>3
      <4>3. j - 1 > i
        BY <2>1, <4>1
      <4> QED
        BY <4>1, <4>2, <4>3
    <3> QED
      BY <2>1, <3>1
  <2>2. ASSUME NEW j \in Buckets(n), j > i, b \in Range(Q[j])
        PROVE  \E x \in 1 .. n : x > k /\ b \in Range(s[x])
    <3>1. j + 1 \in 1 .. n /\ j + 1 > k /\ s[j + 1] = Q[j]
      <4>1. j + 1 \in 1 .. n /\ (j + 1) - 1 = j /\ j \in Int /\ i \in Int
        BY <1>4, <1>5
      <4>2. s[j + 1] = Q[j]
        BY <1>3, <4>1
      <4>3. j + 1 > k
        BY <2>2, <4>1
      <4> QED
        BY <4>1, <4>2, <4>3
    <3> QED
      BY <2>2, <3>1
  <2> QED
    BY <2>1, <2>2
<1> QED
  BY <1>3, <1>6, <1>7, <1>8 DEF n

LEMMA LeftIs == ContainersInv /\ IterOk => LeftToReturn = Left
<1> SUFFICES ASSUME ContainersInv, IterOk PROVE LeftToReturn = Left
  OBVIOUS
<1>1. HeldBy(Lists) /\ NULL \notin DOMAIN heap /\ nlist \in Nat \ {0}
  BY Holds
<1>2. Sound(Current, Lists) /\ Own(Lists) = DOMAIN heap
  BY <1>1 DEF HeldBy
<1>3. Range(Nodes(Current)) = DOMAIN heap
  BY <1>2, NodesOk
<1>4. \A b : b \in DOMAIN heap <=> \E j \in Buckets(nlist) : b \in Range(Lists[j])
  BY <1>2, CurrentIs, OwnOk
<1>5. CASE iter.state # "yes"
  BY <1>5 DEF LeftToReturn, Left
<1>6. CASE iter.state = "yes" /\ iter.current_pos = NULL
  <2>1. iter.current_list = -1
    BY <1>1, <1>4, <1>6 DEF IterOk, NoIter
  <2>2. \A j \in Buckets(nlist) : j > -1
    BY DEF Buckets
  <2>3. Left = DOMAIN heap
    BY <1>4, <1>6, <2>1, <2>2 DEF Left
  <2>4. LeftToReturn = Range(Nodes(Current))
    BY <1>6 DEF LeftToReturn
  <2> QED
    BY <1>3, <2>3, <2>4
<1>7. CASE iter.state = "yes" /\ iter.current_pos # NULL
  <2> DEFINE i == iter.current_list
             a == iter.current_pos
  <2>1. i \in Buckets(nlist) /\ a \in Range(Lists[i])
    BY <1>7 DEF IterOk, NoIter
  <2>2. LeftToReturn = Beyond(Nodes(Current), a)
    BY <1>7 DEF LeftToReturn, Beyond
  <2> HIDE DEF i, a
  <2>3. \A b : b \in Beyond(Nodes(Current), a)
                 <=> \/ b \in Beyond(Lists[i], a)
                     \/ \E j \in Buckets(nlist) : j > i /\ b \in Range(Lists[j])
    BY <1>2, <2>1, CurrentIs, NodesOrder
  <2>4. Lists[i] \in Seq(DOMAIN heap) /\ \A b \in Beyond(Lists[i], a) : b \in DOMAIN heap
    <3>1. Lists[i] \in Seq(DOMAIN heap)
      BY <1>2, <2>1, CurrentIs, OwnOk
    <3>2. \A x \in DOMAIN Lists[i] : Lists[i][x] \in DOMAIN heap
      BY <3>1
    <3> QED
      BY <3>1, <3>2 DEF Beyond
  <2>5. \A b : b \in Left <=> b \in Beyond(Nodes(Current), a)
    BY <1>4, <1>7, <2>3, <2>4 DEF Left, i, a
  <2> QED
    BY <2>2, <2>5
<1> QED
  BY <1>5, <1>6, <1>7

-----------------------------------------------------------------------------
(***************************************************************************)
(* The containers implement a finite map with an iterator, and a queue.    *)
(***************************************************************************)
\* The contents of the map are the pairs in use; the data of the table do not matter.
Content(d) == IF kind = "map" THEN d ELSE NULL

ContentsAre ==
    /\ AbsContents = [k \in DOMAIN AbsContents |-> AbsContents[k]]
    /\ DOMAIN AbsContents = {heap[a].key : a \in DOMAIN heap}
    /\ \A a \in DOMAIN heap : /\ AbsContents[heap[a].key] = Content(heap[a].data)
                              /\ heap[a].key \in Keys

LEMMA ContentsOk == ContainersInv /\ kind # "queue" => ContentsAre
<1> SUFFICES ASSUME ContainersInv, kind # "queue" PROVE ContentsAre
  OBVIOUS
<1>1. PICK Q : HeldBy(Q)
  BY DEF ContainersInv
<1>2. Sound(Current, Q) /\ Hashed(Current, Q) /\ Own(Q) = DOMAIN heap /\ nlist \in Nat \ {0}
  BY <1>1, CurrentIs DEF HeldBy, Sound
<1>3. \A a \in DOMAIN heap : heap[a].key \in Keys
  BY <1>2, CurrentIs, OwnOk DEF Hashed
<1>4. ASSUME NEW k \in Keys
      PROVE  /\ \A a \in DOMAIN heap : heap[a].key = k => a # NULL /\ Found(k) = a
             /\ Found(k) # NULL => \E a \in DOMAIN heap : heap[a].key = k
             /\ hashmap_get_by_key(k) = IF Found(k) = NULL THEN NULL ELSE heap[Found(k)].data
  <2>1. Found(k) = Search(Current, HashOf[k] % nlist, k)
    BY <1>2, IndexOk DEF Found
  <2>2. Search(Current, HashmapIndex(k, nlist), k) = Found(k)
    BY <1>2, <2>1, IndexOk
  <2>3. /\ \A a \in DOMAIN heap : heap[a].key = k => a # NULL /\ Found(k) = a
        /\ Found(k) # NULL => \E a \in DOMAIN heap : heap[a].key = k
    BY <1>1, <2>1, Finds
  <2>4. hashmap_get_by_key(k) = IF Found(k) = NULL THEN NULL ELSE heap[Found(k)].data
    BY <2>2 DEF hashmap_get_by_key
  <2> QED
    BY <2>3, <2>4
<1> DEFINE K == {x \in Keys : Found(x) # NULL}
<1>5. AbsContents = [k \in K |-> IF kind = "map" THEN hashmap_get_by_key(k) ELSE NULL]
  BY DEF AbsContents
<1>6. K = {heap[a].key : a \in DOMAIN heap}
  BY <1>3, <1>4
<1>7. ASSUME NEW a \in DOMAIN heap
      PROVE  AbsContents[heap[a].key] = Content(heap[a].data)
  <2> DEFINE k == heap[a].key
  <2>1. k \in K /\ k \in Keys
    BY <1>3, <1>6
  <2>2. Found(k) = a /\ a # NULL
    BY <1>4, <2>1
  <2> HIDE DEF K, k
  <2>3. hashmap_get_by_key(k) = heap[a].data
    BY <1>4, <2>1, <2>2
  <2>4. AbsContents[k] = IF kind = "map" THEN hashmap_get_by_key(k) ELSE NULL
    BY <1>5, <2>1
  <2> QED
    BY <2>3, <2>4 DEF Content, k
<1> HIDE DEF K
<1>8. DOMAIN AbsContents = K /\ AbsContents = [k \in DOMAIN AbsContents |-> AbsContents[k]]
  BY <1>5
<1> QED
  BY <1>3, <1>6, <1>7, <1>8 DEF ContentsAre

\* What the contents become when an element comes or goes.
LEMMA ContentsGrow ==
    ASSUME ContentsAre, ContentsAre', kind' = kind, NEW k, NEW d, Pairs' = Pairs \cup {<<k, d>>},
           k \notin DOMAIN AbsContents
    PROVE  AbsContents' = [j \in DOMAIN AbsContents \cup {k} |->
                             IF j = k THEN Content(d) ELSE AbsContents[j]]
<1> DEFINE D == DOMAIN AbsContents
<1>1. /\ D = {heap[a].key : a \in DOMAIN heap}
      /\ \A a \in DOMAIN heap : AbsContents[heap[a].key] = Content(heap[a].data)
      /\ DOMAIN AbsContents' = {heap'[a].key : a \in DOMAIN heap'}
      /\ \A a \in DOMAIN heap' : AbsContents'[heap'[a].key] = Content(heap'[a].data)
      /\ AbsContents' = [j \in DOMAIN AbsContents' |-> AbsContents'[j]]
  BY DEF ContentsAre, Content
<1> HIDE DEF D
<1>2. \A a \in DOMAIN heap' : \/ heap'[a].key = k /\ heap'[a].data = d
                              \/ \E b \in DOMAIN heap : /\ heap[b].key = heap'[a].key
                                                        /\ heap[b].data = heap'[a].data
  <2> SUFFICES ASSUME NEW a \in DOMAIN heap'
               PROVE  \/ heap'[a].key = k /\ heap'[a].data = d
                      \/ \E b \in DOMAIN heap : /\ heap[b].key = heap'[a].key
                                                /\ heap[b].data = heap'[a].data
    OBVIOUS
  <2>1. <<heap'[a].key, heap'[a].data>> \in Pairs \cup {<<k, d>>}
    BY DEF Pairs
  <2> QED
    BY <2>1 DEF Pairs
<1>3. \A b \in DOMAIN heap : \E a \in DOMAIN heap' : /\ heap[b].key = heap'[a].key
                                                     /\ heap[b].data = heap'[a].data
  <2> SUFFICES ASSUME NEW b \in DOMAIN heap
               PROVE  \E a \in DOMAIN heap' : /\ heap[b].key = heap'[a].key
                                              /\ heap[b].data = heap'[a].data
    OBVIOUS
  <2>1. <<heap[b].key, heap[b].data>> \in Pairs'
    BY DEF Pairs
  <2> QED
    BY <2>1 DEF Pairs
<1>4. \E a \in DOMAIN heap' : heap'[a].key = k /\ heap'[a].data = d
  <2>1. <<k, d>> \in Pairs'
    OBVIOUS
  <2> QED
    BY <2>1 DEF Pairs
<1>5. DOMAIN AbsContents' = D \cup {k}
  BY <1>1, <1>2, <1>3, <1>4
<1>6. ASSUME NEW j \in D \cup {k}
      PROVE  AbsContents'[j] = IF j = k THEN Content(d) ELSE AbsContents[j]
  <2>1. CASE j = k
    BY <1>1, <1>4, <2>1
  <2>2. CASE j # k
    <3>1. PICK b \in DOMAIN heap : heap[b].key = j
      BY <1>1, <2>2
    <3>2. PICK a \in DOMAIN heap' : heap[b].key = heap'[a].key /\ heap[b].data = heap'[a].data
      BY <1>3
    <3> QED
      BY <1>1, <2>2, <3>1, <3>2
  <2> QED
    BY <2>1, <2>2
<1> QED
  BY <1>1, <1>5, <1>6 DEF D

LEMMA ContentsShrink ==
    ASSUME ContentsAre, ContentsAre', kind' = kind, NEW k, Pairs' = {e \in Pairs : e[1] # k}
    PROVE  AbsContents' = [j \in DOMAIN AbsContents \ {k} |-> AbsContents[j]]
<1> DEFINE D == DOMAIN AbsContents
<1>1. /\ D = {heap[a].key : a \in DOMAIN heap}
      /\ \A a \in DOMAIN heap : AbsContents[heap[a].key] = Content(heap[a].data)
      /\ DOMAIN AbsContents' = {heap'[a].key : a \in DOMAIN heap'}
      /\ \A a \in DOMAIN heap' : AbsContents'[heap'[a].key] = Content(heap'[a].data)
      /\ AbsContents' = [j \in DOMAIN AbsContents' |-> AbsContents'[j]]
  BY DEF ContentsAre, Content
<1> HIDE DEF D
<1>2. \A a \in DOMAIN heap' : heap'[a].key # k /\ \E b \in DOMAIN heap : heap[b].key = heap'[a].key
  <2> SUFFICES ASSUME NEW a \in DOMAIN heap'
               PROVE  heap'[a].key # k /\ \E b \in DOMAIN heap : heap[b].key = heap'[a].key
    OBVIOUS
  <2>1. <<heap'[a].key, heap'[a].data>> \in Pairs'
    BY DEF Pairs
  <2>2. <<heap'[a].key, heap'[a].data>> \in Pairs /\ heap'[a].key # k
    BY <2>1
  <2> QED
    BY <2>2 DEF Pairs
<1>3. \A b \in DOMAIN heap : heap[b].key # k =>
        \E a \in DOMAIN heap' : heap[b].key = heap'[a].key /\ heap[b].data = heap'[a].data
  <2> SUFFICES ASSUME NEW b \in DOMAIN heap, heap[b].key # k
               PROVE  \E a \in DOMAIN heap' : /\ heap[b].key = heap'[a].key
                                              /\ heap[b].data = heap'[a].data
    OBVIOUS
  <2>1. <<heap[b].key, heap[b].data>> \in Pairs
    BY DEF Pairs
  <2>2. <<heap[b].key, heap[b].data>> \in Pairs'
    BY <2>1
  <2> QED
    BY <2>2 DEF Pairs
<1>4. DOMAIN AbsContents' = D \ {k}
  BY <1>1, <1>2, <1>3
<1>5. ASSUME NEW j \in D \ {k} PROVE AbsContents'[j] = AbsContents[j]
  <2>1. PICK b \in DOMAIN heap : heap[b].key = j
    BY <1>1
  <2>2. PICK a \in DOMAIN heap' : heap[b].key = heap'[a].key /\ heap[b].data = heap'[a].data
    BY <1>3, <2>1
  <2> QED
    BY <1>1, <2>1, <2>2
<1> QED
  BY <1>1, <1>4, <1>5 DEF D

\* The iterator does not touch the container.
LEMMA SameContainer ==
    ASSUME UNCHANGED <<kind, heap, nlist, nelem, list>>
    PROVE  AbsContents' = AbsContents /\ AbsFifo' = AbsFifo /\ Lists' = Lists
BY DEF AbsContents, Found, hashmap_get_by_key, Index, Current, AbsFifo, Lists

\* An idle iterator has nothing to return.
LEMMA Idle ==
    ASSUME iter = NoIter, UNCHANGED iter
    PROVE  /\ iter.state = "no" /\ iter'.state = "no"
           /\ AbsCurrent = NULL /\ AbsCurrent' = NULL /\ AbsLeft = {} /\ AbsLeft' = {}
<1>1. iter'.state = "no" /\ iter'.current_pos = NULL /\ iter.state = "no" /\ iter.current_pos = NULL
  BY DEF NoIter
<1>2. LeftToReturn = {} /\ LeftToReturn' = {}
  BY <1>1 DEF LeftToReturn
<1> QED
  BY <1>1, <1>2 DEF AbsCurrent, AbsLeft

LEMMA NotIterating == IterOk => (iter.state = "no" => iter = NoIter) /\ (kind = "queue" => iter = NoIter)
BY DEF IterOk, NoIter

\* The iterator moves to a, which is the next element to return.
Returns(a) ==
    /\ a \in DOMAIN heap
    /\ iter'.state = "yes" /\ iter'.current_pos = a
    /\ a \notin Left' /\ \A b : b \in Left <=> b = a \/ b \in Left'

LEMMA GetNextOk ==
    ASSUME ContainersInv, IterOk, iter_get_next
    PROVE  /\ UNCHANGED <<kind, heap, nlist, nelem, list>>
           /\ kind # "queue" /\ iter.state = "yes" /\ IterOk'
           /\ \/ \E a : Returns(a)
              \/ Left = {} /\ iter'.state = "end" /\ iter'.current_pos = NULL
<1> DEFINE c == iter.current_list
           pos == iter.current_pos
           next == IF pos = NULL THEN NULL ELSE heap[pos].next
           later == {i \in (c + 1)..(nlist - 1) : list[i].head # NULL}
           first == CHOOSE x \in later : \A y \in later : x <= y
           L == Lists
<1>1. /\ UNCHANGED <<kind, heap, nlist, nelem, list>> /\ iter.state = "yes" /\ kind # "queue"
      /\ iter = [state |-> "yes", current_list |-> c, current_pos |-> pos]
  BY DEF iter_get_next, IterOk, NoIter
<1>2. L' = L /\ HeldBy(L) /\ nlist \in Nat \ {0} /\ NULL \notin DOMAIN heap
  BY <1>1, Holds, SameContainer
<1>3. Sound(Current, L) /\ Own(L) = DOMAIN heap
  BY <1>2 DEF HeldBy
<1>4. \A j \in Buckets(nlist) : /\ L[j] \in Seq(DOMAIN heap) /\ IsInjective(L[j])
                                /\ Range(L[j]) \subseteq DOMAIN heap /\ Chain(heap, list[j], L[j])
  BY <1>3, CurrentIs, OwnOk DEF Sound, Chain
<1>5. \A i, j \in Buckets(nlist) : i # j => \A x \in Range(L[i]) : x \notin Range(L[j])
  BY <1>3, CurrentIs DEF Sound
<1>6. \/ pos = NULL /\ c = -1
      \/ c \in Buckets(nlist) /\ pos \in Range(L[c]) /\ pos \in DOMAIN heap /\ pos # NULL
  BY <1>1, <1>2, <1>4 DEF IterOk, NoIter
<1>7. iter' = CASE next # NULL  -> [iter EXCEPT !.current_pos = next]
                [] next = NULL /\ later # {} ->
                     [iter EXCEPT !.current_list = first, !.current_pos = list[first].head]
                [] OTHER -> [state |-> "end", current_list |-> -2, current_pos |-> NULL]
  BY DEF iter_get_next
<1>8. Left = {b \in DOMAIN heap : \/ pos # NULL /\ b \in Beyond(L[c], pos)
                                  \/ \E j \in Buckets(nlist) : j > c /\ b \in Range(L[j])}
  BY <1>1 DEF Left
<1>9. iter'.state = "yes" =>
        Left' = {b \in DOMAIN heap :
                   \/ iter'.current_pos # NULL /\ b \in Beyond(L[iter'.current_list], iter'.current_pos)
                   \/ \E j \in Buckets(nlist) : j > iter'.current_list /\ b \in Range(L[j])}
  BY <1>1, <1>2 DEF Left
<1> HIDE DEF c, pos, L, first, next, later
\* The next node of the same list.
<1>10. CASE next # NULL
  <2>1. pos # NULL /\ c \in Buckets(nlist) /\ pos \in Range(L[c]) /\ next = heap[pos].next
    BY <1>6, <1>10 DEF next
  <2>2. PICK p \in DOMAIN L[c] : L[c][p] = pos
    BY <2>1 DEF Range
  <2> DEFINE q == L[c]
  <2>3. /\ q \in Seq(DOMAIN heap) /\ IsInjective(q) /\ p \in 1 .. Len(q)
        /\ Range(q) \subseteq DOMAIN heap /\ Len(q) \in Nat
    BY <1>4, <2>1, <2>2
  <2>4. p # Len(q) /\ next = q[p + 1] /\ p + 1 \in DOMAIN q
    <3>1. Chain(heap, list[c], q)
      BY <1>4, <2>1
    <3>2. next = IF p = Len(q) THEN NULL ELSE q[p + 1]
      BY <2>1, <2>2, <2>3, <3>1 DEF Chain
    <3> HIDE DEF q
    <3>3. DOMAIN q = 1 .. Len(q)
      BY <2>3
    <3> QED
      BY <1>10, <2>3, <3>2, <3>3
  <2>5. next \in Range(q) /\ next \in DOMAIN heap
    BY <2>3, <2>4 DEF Range
  <2> HIDE DEF q
  <2>6. iter' = [state |-> "yes", current_list |-> c, current_pos |-> next]
    BY <1>1, <1>7, <1>10
  <2>7. iter'.state = "yes" /\ iter'.current_list = c /\ iter'.current_pos = next
    BY <2>6
  <2>8. IterOk'
    <3>1. nlist' = nlist /\ kind' = kind /\ Lists' = Lists
      BY <1>1, <1>2 DEF L
    <3>2. next \in Range(Lists[c])
      BY <2>5 DEF q, L
    <3> QED
      BY <1>1, <2>1, <2>6, <2>7, <3>1, <3>2 DEF IterOk
  <2>9. /\ \A b : b \in Beyond(q, pos) <=> b = next \/ b \in Beyond(q, next)
        /\ next \notin Beyond(q, next)
    BY <2>2, <2>3, <2>4, BeyondNext DEF q
  <2>10. Left' = {b \in DOMAIN heap : \/ b \in Beyond(q, next)
                                      \/ \E j \in Buckets(nlist) : j > c /\ b \in Range(L[j])}
    BY <1>9, <1>10, <2>7 DEF q
  <2>11. next \notin Left'
    <3>1. \A j \in Buckets(nlist) : j > c => next \notin Range(L[j])
      <4>1. \A j \in Buckets(nlist) : j > c => j # c
        BY <2>1 DEF Buckets
      <4> QED
        BY <1>5, <2>1, <2>5, <4>1 DEF q
    <3> QED
      BY <2>9, <2>10, <3>1
  <2>12. \A b : b \in Left <=> b = next \/ b \in Left'
    BY <1>8, <2>1, <2>5, <2>9, <2>10 DEF q
  <2>13. Returns(next)
    BY <2>5, <2>7, <2>11, <2>12 DEF Returns
  <2> QED
    BY <1>1, <2>8, <2>13
\* The current list ends.
<1>11. ASSUME next = NULL PROVE pos # NULL => Beyond(L[c], pos) = {}
  <2> SUFFICES ASSUME pos # NULL PROVE Beyond(L[c], pos) = {}
    OBVIOUS
  <2>1. c \in Buckets(nlist) /\ pos \in Range(L[c]) /\ heap[pos].next = NULL
    BY <1>6, <1>11 DEF next
  <2>2. PICK p \in DOMAIN L[c] : L[c][p] = pos
    BY <2>1 DEF Range
  <2> DEFINE q == L[c]
  <2>3. q \in Seq(DOMAIN heap) /\ IsInjective(q) /\ p \in 1 .. Len(q) /\ Len(q) \in Nat
    BY <1>4, <2>1, <2>2
  <2>4. p = Len(q)
    <3>1. Chain(heap, list[c], q)
      BY <1>4, <2>1
    <3>2. NULL = IF p = Len(q) THEN NULL ELSE q[p + 1]
      BY <2>1, <2>2, <2>3, <3>1 DEF Chain
    <3> HIDE DEF q
    <3>3. p # Len(q) => p + 1 \in 1 .. Len(q)
      BY <2>3
    <3>4. p # Len(q) => q[p + 1] \in DOMAIN heap
      BY <2>3, <3>3
    <3> QED
      BY <1>2, <3>2, <3>4
  <2> HIDE DEF q
  <2>5. Beyond(q, q[p]) = {}
    BY <2>3, <2>4, BeyondNext
  <2> QED
    BY <2>2, <2>5 DEF q
<1>12. c \in Int /\ c >= -1 /\ \A j \in Buckets(nlist) : j \in Int /\ (j > c <=> j \in (c + 1)..(nlist - 1))
  <2>1. c \in Int /\ c >= -1
    BY <1>6 DEF Buckets
  <2> QED
    BY <1>2, <2>1 DEF Buckets
<1>13. \A j \in (c + 1)..(nlist - 1) : j \in Buckets(nlist) /\ j \in Nat
  BY <1>2, <1>12 DEF Buckets
<1>14. \A j \in Buckets(nlist) : list[j].head = NULL <=> Len(L[j]) = 0
  <2> SUFFICES ASSUME NEW j \in Buckets(nlist) PROVE list[j].head = NULL <=> Len(L[j]) = 0
    OBVIOUS
  <2>1. L[j] \in Seq(DOMAIN heap) /\ list[j].head = IF Len(L[j]) = 0 THEN NULL ELSE L[j][1]
    <3>1. L[j] \in Seq(DOMAIN heap) /\ Chain(heap, list[j], L[j])
      BY <1>4
    <3> QED
      BY <3>1 DEF Chain
  <2>2. Len(L[j]) # 0 => L[j][1] \in DOMAIN heap
    BY <2>1
  <2> QED
    BY <1>2, <2>1, <2>2
<1>15. \A j \in Buckets(nlist) : Len(L[j]) = 0 => Range(L[j]) = {}
  BY <1>4 DEF Range
\* The first node of the next list that has one.
<1>16. CASE next = NULL /\ later # {}
  <2>1. first \in later /\ \A y \in later : first <= y
    <3>1. later \subseteq Nat
      BY <1>13 DEF later
    <3>2. \E x \in later : \A y \in later : x <= y
      BY <1>16, <3>1, Least
    <3> QED
      BY <3>2 DEF first
  <2> DEFINE q == L[first]
             a == list[first].head
  <2>2. first \in Buckets(nlist) /\ first > c /\ a # NULL /\ first \in (c + 1)..(nlist - 1)
    BY <1>12, <1>13, <2>1 DEF later
  <2>3. q \in Seq(DOMAIN heap) /\ IsInjective(q) /\ Len(q) # 0 /\ 1 \in 1 .. Len(q) /\ a = q[1]
    <3>1. q \in Seq(DOMAIN heap) /\ IsInjective(q) /\ Len(q) # 0 /\ Chain(heap, list[first], q)
      BY <1>4, <1>14, <2>2
    <3>2. a = q[1]
      BY <3>1 DEF Chain
    <3>3. 1 \in 1 .. Len(q)
      <4>1. Len(q) \in Nat
        BY <3>1
      <4> HIDE DEF q
      <4> QED
        BY <3>1, <4>1
    <3> QED
      BY <3>1, <3>2, <3>3
  <2> HIDE DEF q, a
  <2>4. a \in Range(q) /\ a \in DOMAIN heap
    BY <2>3 DEF Range
  <2>5. iter' = [state |-> "yes", current_list |-> first, current_pos |-> a]
    BY <1>1, <1>7, <1>16 DEF a
  <2>6. iter'.state = "yes" /\ iter'.current_list = first /\ iter'.current_pos = a
    BY <2>5
  <2>7. IterOk'
    <3>1. nlist' = nlist /\ kind' = kind /\ Lists' = Lists
      BY <1>1, <1>2 DEF L
    <3>2. a \in Range(Lists[first])
      BY <2>4 DEF q, L
    <3> QED
      BY <1>1, <2>2, <2>5, <2>6, <3>1, <3>2 DEF IterOk
  <2>8. /\ \A b : b \in Range(q) <=> b = a \/ b \in Beyond(q, a)
        /\ a \notin Beyond(q, a)
    BY <2>3, BeyondNext
  <2>9. Left' = {b \in DOMAIN heap : \/ b \in Beyond(q, a)
                                     \/ \E j \in Buckets(nlist) : j > first /\ b \in Range(L[j])}
    BY <1>9, <2>2, <2>6 DEF q
  <2>10. \A j \in Buckets(nlist) : j > c /\ j # first /\ ~(j > first) => Range(L[j]) = {}
    <3> SUFFICES ASSUME NEW j \in Buckets(nlist), j > c, j # first, ~(j > first)
                 PROVE  Range(L[j]) = {}
      OBVIOUS
    <3>1. j \in (c + 1)..(nlist - 1) /\ ~(first <= j)
      BY <1>12, <2>2
    <3>2. j \notin later
      BY <2>1, <3>1
    <3>3. list[j].head = NULL
      BY <3>1, <3>2 DEF later
    <3> QED
      BY <1>14, <1>15, <3>3
  <2>11. a \notin Left'
    <3>1. \A j \in Buckets(nlist) : j > first => a \notin Range(L[j])
      <4>1. \A j \in Buckets(nlist) : j > first => j # first
        BY <1>12, <2>2
      <4> QED
        BY <1>5, <2>2, <2>4, <4>1 DEF q
    <3> QED
      BY <2>8, <2>9, <3>1
  <2>12. \A j \in Buckets(nlist) : j > first => j > c
    BY <1>12, <2>2
  <2>13. \A b : b \in Left <=> \E j \in Buckets(nlist) : j > c /\ b \in Range(L[j])
    BY <1>4, <1>8, <1>11, <1>16
  <2>14. \A b : b \in Left' <=> \/ b \in Beyond(q, a)
                                \/ \E j \in Buckets(nlist) : j > first /\ b \in Range(L[j])
    <3>1. \A b \in Beyond(q, a) : b \in DOMAIN heap
      BY <1>4, <2>2, <2>8 DEF q
    <3> QED
      BY <1>4, <2>9, <3>1
  <2>15. \A b : b \in Left <=> b = a \/ b \in Left'
    <3>1. ASSUME NEW b \in Left PROVE b = a \/ b \in Left'
      <4>1. PICK j \in Buckets(nlist) : j > c /\ b \in Range(L[j])
        BY <2>13
      <4>2. j = first \/ j > first
        BY <2>10, <4>1
      <4> QED
        BY <2>8, <2>14, <4>1, <4>2 DEF q
    <3>2. a \in Left
      BY <2>2, <2>4, <2>13 DEF q
    <3>3. ASSUME NEW b \in Left' PROVE b \in Left
      <4>1. CASE b \in Beyond(q, a)
        BY <2>2, <2>8, <2>13, <4>1 DEF q
      <4>2. CASE \E j \in Buckets(nlist) : j > first /\ b \in Range(L[j])
        BY <2>12, <2>13, <4>2
      <4> QED
        BY <2>14, <4>1, <4>2
    <3> QED
      BY <3>1, <3>2, <3>3
  <2>16. Returns(a)
    BY <2>4, <2>6, <2>11, <2>15 DEF Returns
  <2> QED
    BY <1>1, <2>7, <2>16
\* The end.
<1>17. CASE next = NULL /\ later = {}
  <2>1. iter' = [state |-> "end", current_list |-> -2, current_pos |-> NULL]
    BY <1>7, <1>17
  <2>2. iter'.state = "end" /\ iter'.current_pos = NULL /\ iter'.current_list = -2
    BY <2>1
  <2>3. IterOk'
    BY <1>1, <2>1, <2>2 DEF IterOk
  <2>4. \A j \in Buckets(nlist) : j > c => Range(L[j]) = {}
    <3> SUFFICES ASSUME NEW j \in Buckets(nlist), j > c PROVE Range(L[j]) = {}
      OBVIOUS
    <3>1. j \in (c + 1)..(nlist - 1)
      BY <1>12
    <3>2. list[j].head = NULL
      BY <1>17, <3>1 DEF later
    <3> QED
      BY <1>14, <1>15, <3>2
  <2>5. Left = {}
    BY <1>8, <1>11, <1>17, <2>4
  <2> QED
    BY <1>1, <2>2, <2>3, <2>5
<1> QED
  BY <1>10, <1>16, <1>17

Mapped == ContainersInv /\ IterOk

LEMMA InsertRefines ==
    ASSUME Mapped, kind # "queue", NEW k \in Keys, NEW d \in Data \cup {NULL},
           Search(Current, HashOf[k] % nlist, k) = NULL, Add(k, d)
    PROVE  Mapped' /\ Abstract!Insert
<1>1. ContainersInv' /\ Pairs' = Pairs \cup {<<k, d>>}
  BY AddKeeps DEF Mapped
<1>2. iter = NoIter /\ iter' = iter /\ kind' = kind
  BY NotIterating DEF Mapped, Add, Become
<1>3. IterOk'
  BY <1>2 DEF IterOk, NoIter
<1>4. ContentsAre /\ ContentsAre'
  <2>1. ContentsAre
    BY ContentsOk DEF Mapped
  <2>2. (ContainersInv /\ kind # "queue" => ContentsAre)'
    BY ContentsOk, PTL
  <2> QED
    BY <1>1, <1>2, <2>1, <2>2
<1>5. k \notin DOMAIN AbsContents
  <2> SUFFICES ASSUME NEW a \in DOMAIN heap, heap[a].key = k PROVE FALSE
    BY <1>4 DEF ContentsAre
  <2>1. PICK Q : HeldBy(Q)
    BY DEF Mapped, ContainersInv
  <2> QED
    BY <2>1, Finds
<1>6. AbsContents' = [j \in DOMAIN AbsContents \cup {k} |->
                        IF j = k THEN Content(d) ELSE AbsContents[j]]
  BY <1>1, <1>2, <1>4, <1>5, ContentsGrow
<1>7. Content(d) \in Data \cup {NULL} /\ AbsFifo' = AbsFifo
  BY <1>2 DEF Content, AbsFifo
<1> QED
  BY <1>1, <1>2, <1>3, <1>5, <1>6, <1>7, Idle DEF Mapped, Abstract!Insert

LEMMA DeleteRefines ==
    ASSUME Mapped, kind # "queue", NEW k \in Keys, RemoveFrom(HashOf[k] % nlist, k)
    PROVE  Mapped' /\ Abstract!Delete
<1>1. /\ ContainersInv' /\ Pairs' = {e \in Pairs : e[1] # k}
      /\ \E a \in DOMAIN heap : heap[a].key = k
  BY RemoveKeeps DEF Mapped
<1>2. iter = NoIter /\ iter' = iter /\ kind' = kind
  BY NotIterating DEF Mapped, RemoveFrom, Become
<1>3. IterOk'
  BY <1>2 DEF IterOk, NoIter
<1>4. ContentsAre /\ ContentsAre'
  <2>1. ContentsAre
    BY ContentsOk DEF Mapped
  <2>2. (ContainersInv /\ kind # "queue" => ContentsAre)'
    BY ContentsOk, PTL
  <2> QED
    BY <1>1, <1>2, <2>1, <2>2
<1>5. k \in DOMAIN AbsContents
  BY <1>1, <1>4 DEF ContentsAre
<1>6. AbsContents' = [j \in DOMAIN AbsContents \ {k} |-> AbsContents[j]]
  BY <1>1, <1>2, <1>4, ContentsShrink
<1>7. AbsFifo' = AbsFifo
  BY <1>2 DEF AbsFifo
<1> QED
  BY <1>1, <1>2, <1>3, <1>5, <1>6, <1>7, Idle DEF Mapped, Abstract!Delete

LEMMA EnqueueRefines ==
    ASSUME Mapped, NEW k \in Keys, Enqueue(k)
    PROVE  Mapped' /\ Abstract!Enqueue
<1>1. ContainersInv' /\ AbsFifo' = Append(AbsFifo, k) /\ Len(AbsFifo) < MaxQueue
  BY EnqueueKeeps DEF Mapped
<1>2. iter = NoIter /\ iter' = iter /\ kind = "queue" /\ kind' = kind
  BY NotIterating DEF Mapped, Enqueue
<1>3. IterOk'
  BY <1>2 DEF IterOk, NoIter
<1>4. AbsContents' = AbsContents
  BY <1>2 DEF AbsContents
<1> QED
  BY <1>1, <1>2, <1>3, <1>4, Idle DEF Mapped, Abstract!Enqueue

LEMMA DequeueRefines ==
    ASSUME Mapped, Dequeue
    PROVE  Mapped' /\ Abstract!Dequeue
<1>1. ContainersInv' /\ AbsFifo # <<>> /\ AbsFifo' = Tail(AbsFifo)
  BY DequeueKeeps DEF Mapped
<1>2. iter = NoIter /\ iter' = iter /\ kind = "queue" /\ kind' = kind
  BY NotIterating DEF Mapped, Dequeue
<1>3. IterOk'
  BY <1>2 DEF IterOk, NoIter
<1>4. AbsContents' = AbsContents
  BY <1>2 DEF AbsContents
<1> QED
  BY <1>1, <1>2, <1>3, <1>4, Idle DEF Mapped, Abstract!Dequeue

\* The keys that are left are those of the elements that are left.
LEMMA LeftKeys == Mapped => AbsLeft = {heap[a].key : a \in Left} /\ Left \subseteq DOMAIN heap
<1> SUFFICES ASSUME Mapped PROVE AbsLeft = {heap[a].key : a \in Left} /\ Left \subseteq DOMAIN heap
  OBVIOUS
<1>1. LeftToReturn = Left
  BY LeftIs DEF Mapped
<1>2. Left \subseteq DOMAIN heap
  BY DEF Left
<1> QED
  BY <1>1, <1>2 DEF AbsLeft, KeyAt

LEMMA ContainersInvStays ==
    ASSUME ContainersInv, UNCHANGED <<kind, heap, nlist, nelem, list>>
    PROVE  ContainersInv'
<1>1. Current' = Current
  BY DEF Current
<1>2. PICK Q : HeldBy(Q)
  BY DEF ContainersInv
<1>3. HeldBy(Q)'
  BY <1>1, <1>2 DEF HeldBy
<1> QED
  BY <1>3 DEF ContainersInv

LEMMA BeginRefines ==
    ASSUME Mapped, hash_iter_init
    PROVE  Mapped' /\ Abstract!Begin
<1>1. /\ UNCHANGED <<kind, heap, nlist, nelem, list>> /\ kind # "queue" /\ iter = NoIter
      /\ iter' = [state |-> "yes", current_list |-> -1, current_pos |-> NULL]
  BY NotIterating DEF Mapped, hash_iter_init, NoIter
<1>2. iter'.state = "yes" /\ iter'.current_list = -1 /\ iter'.current_pos = NULL
      /\ iter.state = "no" /\ iter.current_pos = NULL
  BY <1>1 DEF NoIter
<1>3. ContainersInv' /\ AbsContents' = AbsContents /\ AbsFifo' = AbsFifo
  BY <1>1, ContainersInvStays, SameContainer DEF Mapped
<1>4. IterOk'
  BY <1>1, <1>2 DEF IterOk
<1>5. Mapped'
  BY <1>3, <1>4 DEF Mapped
<1>6. AbsLeft' = {heap'[a].key : a \in DOMAIN heap'}
  <2>1. (LeftToReturn = Range(Nodes(Current)))'
    BY <1>2 DEF LeftToReturn
  <2>2. Range(Nodes(Current)) = DOMAIN heap
    BY NodesOk DEF Mapped, ContainersInv, HeldBy
  <2>3. Current' = Current
    BY <1>1 DEF Current
  <2>4. LeftToReturn' = DOMAIN heap
    BY <2>1, <2>2, <2>3
  <2> QED
    BY <1>1, <2>4 DEF AbsLeft, KeyAt
<1>7. DOMAIN AbsContents = {heap[a].key : a \in DOMAIN heap}
  BY <1>1, ContentsOk DEF Mapped, ContentsAre
<1>8. AbsLeft' = DOMAIN AbsContents
  BY <1>1, <1>6, <1>7
<1>9. AbsCurrent = NULL /\ AbsCurrent' = NULL
  BY <1>2 DEF AbsCurrent
<1> QED
  BY <1>2, <1>3, <1>5, <1>8, <1>9 DEF Abstract!Begin

LEMMA StopRefines ==
    ASSUME Mapped, IterDone
    PROVE  Mapped' /\ Abstract!Stop
<1>1. /\ UNCHANGED <<kind, heap, nlist, nelem, list>> /\ iter.state # "no" /\ iter' = NoIter
  BY DEF IterDone
<1>2. iter'.state = "no" /\ iter'.current_pos = NULL
  BY <1>1 DEF NoIter
<1>3. ContainersInv' /\ AbsContents' = AbsContents /\ AbsFifo' = AbsFifo
  BY <1>1, ContainersInvStays, SameContainer DEF Mapped
<1>4. IterOk'
  BY <1>1 DEF IterOk, NoIter
<1>5. iter.state \in {"yes", "end"}
  BY <1>1 DEF Mapped, IterOk, NoIter
<1>6. AbsLeft' = {} /\ AbsCurrent' = NULL
  <2>1. LeftToReturn' = {}
    BY <1>2 DEF LeftToReturn
  <2> QED
    BY <1>2, <2>1 DEF AbsLeft, AbsCurrent
<1> QED
  BY <1>2, <1>3, <1>4, <1>5, <1>6 DEF Mapped, Abstract!Stop

LEMMA GetNextRefines ==
    ASSUME Mapped, iter_get_next
    PROVE  Mapped' /\ (Abstract!GetNext \/ Abstract!End)
<1>1. /\ UNCHANGED <<kind, heap, nlist, nelem, list>>
      /\ kind # "queue" /\ iter.state = "yes" /\ IterOk'
      /\ \/ \E a : Returns(a)
         \/ Left = {} /\ iter'.state = "end" /\ iter'.current_pos = NULL
  BY GetNextOk DEF Mapped
<1>2. ContainersInv' /\ AbsContents' = AbsContents /\ AbsFifo' = AbsFifo
  BY <1>1, ContainersInvStays, SameContainer DEF Mapped
<1>3. Mapped'
  BY <1>1, <1>2 DEF Mapped
<1>4. AbsLeft = {heap[a].key : a \in Left} /\ Left \subseteq DOMAIN heap
  BY LeftKeys
<1>5. AbsLeft' = {heap'[a].key : a \in Left'} /\ Left' \subseteq DOMAIN heap'
  <2>1. (Mapped => AbsLeft = {heap[a].key : a \in Left} /\ Left \subseteq DOMAIN heap)'
    BY LeftKeys, PTL
  <2> QED
    BY <1>3, <2>1
<1>6. \A x, y \in DOMAIN heap : heap[x].key = heap[y].key => x = y
  <2>1. PICK Q : HeldBy(Q)
    BY DEF Mapped, ContainersInv
  <2> QED
    BY <1>1, <2>1, CurrentIs DEF HeldBy, Hashed
<1>7. NULL \notin DOMAIN heap
  BY Holds DEF Mapped
<1>8. ASSUME NEW a, Returns(a) PROVE Abstract!GetNext
  <2>1. /\ a \in DOMAIN heap /\ iter'.state = "yes" /\ iter'.current_pos = a
        /\ a \notin Left' /\ \A b : b \in Left <=> b = a \/ b \in Left'
    BY <1>8 DEF Returns
  <2>2. heap[a].key \in AbsLeft
    BY <1>4, <2>1
  <2>3. AbsLeft' = AbsLeft \ {heap[a].key}
    BY <1>1, <1>4, <1>5, <1>6, <2>1
  <2>4. AbsCurrent' = heap[a].key
    BY <1>1, <1>7, <2>1 DEF AbsCurrent, KeyAt
  <2> QED
    BY <1>1, <1>2, <2>1, <2>2, <2>3, <2>4 DEF Abstract!GetNext
<1>9. ASSUME Left = {}, iter'.state = "end", iter'.current_pos = NULL PROVE Abstract!End
  <2>1. AbsLeft = {}
    BY <1>4, <1>9
  <2>2. AbsLeft' = {} /\ AbsCurrent' = NULL
    <3>1. LeftToReturn' = {}
      BY <1>9 DEF LeftToReturn
    <3> QED
      BY <1>9, <3>1 DEF AbsLeft, AbsCurrent
  <2> QED
    BY <1>1, <1>2, <1>9, <2>1, <2>2 DEF Abstract!End
<1> QED
  BY <1>1, <1>3, <1>8, <1>9

LEMMA MappedInit == Init => Mapped /\ Abstract!Init
<1> SUFFICES ASSUME Init PROVE Mapped /\ Abstract!Init
  OBVIOUS
<1>1. ContainersInv /\ iter = NoIter
  BY ContainersInit DEF Init
<1>2. IterOk
  BY <1>1 DEF IterOk, NoIter
<1>3. /\ iter.state = "no" /\ AbsCurrent = NULL /\ AbsLeft = {}
  <2>1. iter.state = "no" /\ iter.current_pos = NULL
    BY <1>1 DEF NoIter
  <2>2. LeftToReturn = {}
    BY <2>1 DEF LeftToReturn
  <2> QED
    BY <2>1, <2>2 DEF AbsCurrent, AbsLeft
<1>4. AbsContents = [k \in {} |-> NULL]
  <2>1. CASE kind = "queue"
    BY <2>1 DEF AbsContents
  <2>2. CASE kind # "queue"
    <3>1. ContentsAre /\ DOMAIN heap = {}
      BY <1>1, <2>2, ContentsOk DEF Init
    <3>2. DOMAIN AbsContents = {} /\ AbsContents = [k \in DOMAIN AbsContents |-> AbsContents[k]]
      BY <3>1 DEF ContentsAre
    <3> QED
      BY <3>2
  <2> QED
    BY <2>1, <2>2
<1>5. AbsFifo = <<>>
  <2>1. CASE kind # "queue"
    BY <2>1 DEF AbsFifo
  <2>2. CASE kind = "queue"
    <3>1. PICK Q : HeldBy(Q)
      BY <1>1 DEF ContainersInv
    <3>2. HeapOk(heap) /\ 0 \in Buckets(nlist) /\ Chain(heap, list[0], Q[0])
      BY <3>1, CurrentIs DEF HeldBy, Sound, Buckets
    <3>3. Q[0] \in Seq(DOMAIN heap) /\ DOMAIN heap = {} /\ AbsFifo = [i \in 1 .. Len(Q[0]) |-> heap[Q[0][i]].data]
      <4>1. DOMAIN heap = {}
        BY DEF Init
      <4>2. Q[0] \in Seq(DOMAIN heap)
        BY <3>2 DEF Chain
      <4> DEFINE w == Walk(heap, list[0].head)
      <4>5. AbsFifo = [i \in DOMAIN w |-> IF w[i] \in DOMAIN heap THEN heap[w[i]].data ELSE NULL]
        BY <2>2 DEF AbsFifo
      <4>6. AbsFifo = [i \in 1 .. Len(Q[0]) |-> heap[Q[0][i]].data]
        BY <3>2, <4>5, FifoIs
      <4> QED
        BY <4>1, <4>2, <4>6
    <3> DEFINE q == Q[0]
    <3>4. Len(q) = 0
      <4>1. q \in Seq({}) /\ Len(q) \in Nat
        BY <3>3
      <4>2. \A i \in 1 .. Len(q) : q[i] \in {}
        BY <4>1
      <4> HIDE DEF q
      <4>3. Len(q) # 0 => 1 \in 1 .. Len(q)
        BY <4>1
      <4> QED
        BY <4>2, <4>3
    <3> HIDE DEF q
    <3>5. AbsFifo = [i \in 1 .. 0 |-> heap[q[i]].data]
      BY <3>3, <3>4 DEF q
    <3>6. AbsFifo \in Seq({}) /\ Len(AbsFifo) = 0
      BY <3>5
    <3> QED
      BY <3>6
  <2> QED
    BY <2>1, <2>2
<1> QED
  BY <1>1, <1>2, <1>3, <1>4, <1>5 DEF Mapped, Abstract!Init

LEMMA MappedStep == Mapped /\ [Next]_vars => Mapped' /\ [Abstract!Next]_Abstract!vars
<1> SUFFICES ASSUME Mapped, [Next]_vars PROVE Mapped' /\ [Abstract!Next]_Abstract!vars
  OBVIOUS
<1>0. nlist \in Nat \ {0}
  BY Holds DEF Mapped
<1>1. ASSUME NEW k \in Keys, NEW d \in Data, hashmap_insert(k, d) PROVE Mapped' /\ Abstract!Next
  <2>1. kind = "map" /\ Search(Current, HashOf[k] % nlist, k) = NULL /\ Add(k, d)
    BY <1>0, <1>1, IndexOk DEF hashmap_insert, hashmap_contains
  <2> QED
    BY <2>1, InsertRefines DEF Abstract!Next
<1>2. ASSUME NEW k \in Keys, hashtbl_insert(k) PROVE Mapped' /\ Abstract!Next
  <2>1. kind = "table" /\ Search(Current, HashOf[k] % nlist, k) = NULL /\ Add(k, NULL)
    BY <1>0, <1>2, IndexOk DEF hashtbl_insert, hashtbl_contains
  <2> QED
    BY <2>1, InsertRefines DEF Abstract!Next
<1>3. ASSUME NEW k \in Keys, hashmap_remove(k) PROVE Mapped' /\ Abstract!Next
  <2>1. kind = "map" /\ RemoveFrom(HashOf[k] % nlist, k)
    BY <1>0, <1>3, IndexOk DEF hashmap_remove
  <2> QED
    BY <2>1, DeleteRefines DEF Abstract!Next
<1>4. ASSUME NEW k \in Keys, hashtbl_remove(k) PROVE Mapped' /\ Abstract!Next
  <2>1. kind = "table" /\ RemoveFrom(HashOf[k] % nlist, k)
    BY <1>0, <1>4, IndexOk DEF hashtbl_remove
  <2> QED
    BY <2>1, DeleteRefines DEF Abstract!Next
<1>5. ASSUME NEW k \in Keys, Enqueue(k) PROVE Mapped' /\ Abstract!Next
  BY <1>5, EnqueueRefines DEF Abstract!Next
<1>6. ASSUME Dequeue PROVE Mapped' /\ Abstract!Next
  BY <1>6, DequeueRefines DEF Abstract!Next
<1>7. ASSUME hash_iter_init PROVE Mapped' /\ Abstract!Next
  BY <1>7, BeginRefines DEF Abstract!Next
<1>8. ASSUME iter_get_next PROVE Mapped' /\ Abstract!Next
  BY <1>8, GetNextRefines DEF Abstract!Next
<1>9. ASSUME IterDone PROVE Mapped' /\ Abstract!Next
  BY <1>9, StopRefines DEF Abstract!Next
<1>10. ASSUME UNCHANGED vars PROVE Mapped' /\ UNCHANGED Abstract!vars
  <2>1. /\ UNCHANGED <<kind, heap, nlist, nelem, list>> /\ iter' = iter
    BY <1>10 DEF vars
  <2>2. ContainersInv' /\ AbsContents' = AbsContents /\ AbsFifo' = AbsFifo /\ Lists' = Lists
    BY <2>1, ContainersInvStays, SameContainer DEF Mapped
  <2>3. IterOk'
    BY <2>1, <2>2 DEF Mapped, IterOk
  <2>4. AbsCurrent' = AbsCurrent
    BY <2>1 DEF AbsCurrent, KeyAt
  <2>5. AbsLeft' = AbsLeft
    <3>1. Current' = Current
      BY <2>1 DEF Current
    <3>2. LeftToReturn' = LeftToReturn
      BY <2>1, <3>1 DEF LeftToReturn
    <3> QED
      BY <2>1, <3>2 DEF AbsLeft, KeyAt
  <2> QED
    BY <2>1, <2>2, <2>3, <2>4, <2>5 DEF Mapped, Abstract!vars
<1> QED
  BY <1>1, <1>2, <1>3, <1>4, <1>5, <1>6, <1>7, <1>8, <1>9, <1>10 DEF Next

(***************************************************************************)
(* Implements, for any keys, hash function and number of buckets: the hash *)
(* map and the hash table are a finite map whose iterator returns every    *)
(* element once and then reports the end; the queue of requests is first   *)
(* in, first out.                                                          *)
(***************************************************************************)
THEOREM ContainersRefine == Spec => Implements
<1>1. Init => Mapped /\ Abstract!Init
  BY MappedInit
<1>2. Mapped /\ [Next]_vars => Mapped' /\ [Abstract!Next]_Abstract!vars
  BY MappedStep
<1> QED
  BY <1>1, <1>2, PTL DEF Spec, Implements, Abstract!Spec
=============================================================================
