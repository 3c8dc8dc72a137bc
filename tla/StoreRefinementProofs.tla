----------------------- MODULE StoreRefinementProofs ------------------------
(***************************************************************************)
(* FileStore implements BoundedStore, for any finite sets of paths and     *)
(* workers, any clients, any limits and both policies.                     *)
(***************************************************************************)
EXTENDS StoreRefinement, FileStoreProofs, WellFoundedInduction

-----------------------------------------------------------------------------
(***************************************************************************)
(* Bytes of some files, where f says how large each is.                    *)
(***************************************************************************)
BytesOf(S, f) == {b \in S \X (1 .. MaxSpace) : b[2] <= f[b[1]].size}
Weight(S, f) == Cardinality(BytesOf(S, f))

\* They are finitely many.
LEMMA WeightFinite ==
    ASSUME NEW S \in SUBSET Paths, NEW f
    PROVE  IsFiniteSet(BytesOf(S, f)) /\ Weight(S, f) \in Nat
<1>1. IsFiniteSet(S) /\ IsFiniteSet(1 .. MaxSpace)
  BY StoreAssumption, FS_Subset, FS_Interval
<1>2. IsFiniteSet(S \X (1 .. MaxSpace))
  BY <1>1, FS_Product
<1>3. IsFiniteSet(BytesOf(S, f))
  BY <1>2, FS_Subset DEF BytesOf
<1> QED
  BY <1>3, FS_CardinalityType DEF Weight

\* No files, no bytes.
LEMMA WeightNone == \A f : Weight({}, f) = 0
<1>1. \A f : BytesOf({}, f) = {}
  BY DEF BytesOf
<1> QED
  BY <1>1, FS_EmptySet DEF Weight

\* Only the sizes matter.
LEMMA WeightSame ==
    ASSUME NEW S, NEW f, NEW g, \A p \in S : f[p].size = g[p].size
    PROVE  Weight(S, f) = Weight(S, g)
<1>1. \A b : b \in BytesOf(S, f) <=> b \in BytesOf(S, g)
  BY DEF BytesOf
<1>2. BytesOf(S, f) = BytesOf(S, g)
  BY <1>1
<1> QED
  BY <1>2 DEF Weight

\* The bytes of different files are different.
LEMMA WeightUnion ==
    ASSUME NEW S \in SUBSET Paths, NEW T \in SUBSET Paths, S \cap T = {}, NEW f
    PROVE  Weight(S \cup T, f) = Weight(S, f) + Weight(T, f)
<1> DEFINE A == BytesOf(S, f)
           B == BytesOf(T, f)
<1>1. BytesOf(S \cup T, f) = A \cup B
  <2>1. \A b : b \in BytesOf(S \cup T, f) <=> b \in A \/ b \in B
    BY DEF BytesOf
  <2> QED
    BY <2>1
<1>2. A \cap B = {}
  BY DEF BytesOf
<1>3. IsFiniteSet(A) /\ IsFiniteSet(B) /\ Weight(S, f) \in Nat /\ Weight(T, f) \in Nat
  BY WeightFinite
<1> HIDE DEF A, B
<1>4. Cardinality(A \cup B) = Cardinality(A) + Cardinality(B) - Cardinality(A \cap B)
  BY <1>3, FS_Union
<1>5. Cardinality(A \cap B) = 0
  BY <1>2, FS_EmptySet
<1>6. /\ Weight(S \cup T, f) = Cardinality(A \cup B)
      /\ Weight(S, f) = Cardinality(A) /\ Weight(T, f) = Cardinality(B)
  BY <1>1 DEF Weight, A, B
<1> QED
  BY <1>3, <1>4, <1>5, <1>6

\* One file weighs its size.
LEMMA WeightOne ==
    ASSUME NEW p \in Paths, NEW f, f[p].size \in Nat, f[p].size <= MaxSpace
    PROVE  Weight({p}, f) = f[p].size
<1>1. \A b : b \in BytesOf({p}, f) <=> b \in {p} \X (1 .. f[p].size)
  BY StoreAssumption DEF BytesOf
<1>2. BytesOf({p}, f) = {p} \X (1 .. f[p].size)
  BY <1>1
<1>3. \A n \in Nat : Cardinality({p} \X (1 .. n)) = n
  <2> SUFFICES ASSUME NEW n \in Nat PROVE Cardinality({p} \X (1 .. n)) = n
    OBVIOUS
  <2>1. 1 \in Nat /\ 1 <= n + 1 /\ n - 1 + 1 = n
    OBVIOUS
  <2>2. Cardinality({p} \X (1 .. n)) = n - 1 + 1
    BY <2>1, Segment
  <2> QED
    BY <2>1, <2>2
<1> QED
  BY <1>2, <1>3 DEF Weight

\* A subset weighs no more, and the rest weighs the difference.
LEMMA WeightRest ==
    ASSUME NEW S \in SUBSET Paths, NEW E \in SUBSET S, NEW f
    PROVE  /\ Weight(S \ E, f) = Weight(S, f) - Weight(E, f)
           /\ Weight(E, f) <= Weight(S, f)
<1>1. (S \ E) \cup E = S /\ (S \ E) \cap E = {} /\ S \ E \in SUBSET Paths /\ E \in SUBSET Paths
  OBVIOUS
<1>2. Weight(S, f) = Weight(S \ E, f) + Weight(E, f)
  BY <1>1, WeightUnion
<1>3. Weight(S \ E, f) \in Nat /\ Weight(E, f) \in Nat
  BY <1>1, WeightFinite
<1> QED
  BY <1>2, <1>3

-----------------------------------------------------------------------------
(***************************************************************************)
(* A run of oldest files of X that weighs at least m, and the shortest     *)
(* such run.                                                               *)
(***************************************************************************)
RunOf(E, X, order, f, m) == /\ E \subseteq X
                            /\ \A e \in E, q \in X \ E : <<e, q>> \in order
                            /\ Weight(E, f) >= m
Shortest(E, X, order, f, m) ==
    /\ RunOf(E, X, order, f, m)
    /\ \A F \in SUBSET X : RunOf(F, X, order, f, m) => E \subseteq F

Total2(order, X) == \A p, q \in X : p # q => (<<p, q>> \in order <=> <<q, p>> \notin order)

\* A set of naturals has a least element.
LEMMA LeastOf ==
    ASSUME NEW N, N \subseteq Nat, N # {}
    PROVE  \E x \in N : \A y \in N : x <= y
<1>1. PICK x \in N : \A y \in N : ~(<<y, x>> \in OpToRel(<, Nat))
  BY WFMin, NatLessThanWellFounded
<1>2. \A y \in N : <<y, x>> \in Nat \X Nat /\ (<<y, x>> \notin OpToRel(<, Nat) => ~(y < x))
  BY <1>1 DEF OpToRel
<1>3. \A y \in N : ~(y < x)
  BY <1>1, <1>2, Zenon
<1> QED
  BY <1>3

\* A set of sets of files has one with the fewest files.
LEMMA Fewest ==
    ASSUME NEW R, R # {}, R \subseteq SUBSET Paths
    PROVE  \E E \in R : \A F \in R : Cardinality(E) <= Cardinality(F)
<1> DEFINE N == {Cardinality(F) : F \in R}
<1>1. \A F \in R : Cardinality(F) \in Nat
  BY StoreAssumption, FS_Subset, FS_CardinalityType
<1>2. N \subseteq Nat /\ N # {}
  BY <1>1
<1> HIDE DEF N
<1>3. PICK x \in N : \A y \in N : x <= y
  BY <1>2, LeastOf
<1> USE DEF N
<1>4. PICK E \in R : x = Cardinality(E)
  BY <1>3
<1> QED
  BY <1>3, <1>4

\* There is a shortest run, and only one, if all the files weigh enough.
LEMMA ShortestExists ==
    ASSUME NEW X \in SUBSET Paths, NEW order, Total2(order, X), NEW f, NEW m,
           Weight(X, f) >= m
    PROVE  /\ \E E \in SUBSET X : Shortest(E, X, order, f, m)
           /\ \A E, F : Shortest(E, X, order, f, m) /\ Shortest(F, X, order, f, m) => E = F
<1> DEFINE R == {E \in SUBSET X : RunOf(E, X, order, f, m)}
<1>1. X \in R /\ R \subseteq SUBSET Paths
  BY DEF RunOf
<1>2. PICK E \in R : \A F \in R : Cardinality(E) <= Cardinality(F)
  BY <1>1, Fewest
<1>3. ASSUME NEW F \in R PROVE E \subseteq F
  <2>1. E \subseteq F \/ F \subseteq E
    <3> SUFFICES ASSUME NEW e \in E, e \notin F, NEW g \in F, g \notin E PROVE FALSE
      OBVIOUS
    <3>1. <<e, g>> \in order /\ <<g, e>> \in order /\ e \in X /\ g \in X
      BY <1>2, <1>3 DEF RunOf
    <3> QED
      BY <3>1 DEF Total2
  <2>2. ASSUME F \subseteq E PROVE E = F
    <3>1. IsFiniteSet(E) /\ IsFiniteSet(F)
      BY <1>1, <1>2, <1>3, StoreAssumption, FS_Subset
    <3>2. Cardinality(F) <= Cardinality(E) /\ (Cardinality(E) = Cardinality(F) => E = F)
      BY <2>2, <3>1, FS_Subset
    <3>3. Cardinality(E) <= Cardinality(F)
      BY <1>2, <1>3
    <3>4. Cardinality(E) \in Nat /\ Cardinality(F) \in Nat
      BY <3>1, FS_CardinalityType
    <3> QED
      BY <3>2, <3>3, <3>4
  <2> QED
    BY <2>1, <2>2
<1>4. Shortest(E, X, order, f, m)
  BY <1>2, <1>3 DEF Shortest
<1>5. E \in SUBSET X
  BY <1>2
<1>6. ASSUME NEW G, NEW F, Shortest(G, X, order, f, m), Shortest(F, X, order, f, m)
      PROVE  G = F
  BY <1>6 DEF Shortest, RunOf
<1> QED
  BY <1>4, <1>5, <1>6

(***************************************************************************)
(* The oldest file belongs to the shortest run if anything must go, and    *)
(* without it the run is still the shortest for what is left.              *)
(***************************************************************************)
LEMMA ShortestLess ==
    ASSUME NEW X \in SUBSET Paths, NEW order, Total2(order, X), NEW f, NEW m \in Int, m > 0,
           NEW E, Shortest(E, X, order, f, m),
           NEW v \in X, \A q \in X : <<q, v>> \notin order,
           f[v].size \in Nat, f[v].size <= MaxSpace,
           NEW g, \A p \in X \ {v} : g[p].size = f[p].size,
           NEW younger, \A p, q \in X \ {v} : <<p, q>> \in younger <=> <<p, q>> \in order
    PROVE  /\ v \in E
           /\ Shortest(E \ {v}, X \ {v}, younger, g, m - f[v].size)
<1>1. RunOf(E, X, order, f, m) /\ E \in SUBSET X /\ E \in SUBSET Paths
  BY DEF Shortest, RunOf
<1>2. v \in E
  <2>1. E # {}
    BY <1>1, WeightNone DEF RunOf
  <2> QED
    BY <1>1, <2>1 DEF RunOf
<1>3. ASSUME NEW F \in SUBSET (X \ {v})
      PROVE  RunOf(F, X \ {v}, younger, g, m - f[v].size)
                 <=> RunOf(F \cup {v}, X, order, f, m)
  <2>1. (\A e \in F, q \in (X \ {v}) \ F : <<e, q>> \in younger)
           <=> (\A e \in F \cup {v}, q \in X \ (F \cup {v}) : <<e, q>> \in order)
    BY <1>3 DEF Total2
  <2>2. Weight(F \cup {v}, f) = Weight(F, f) + f[v].size
    <3>1. F \in SUBSET Paths /\ {v} \in SUBSET Paths /\ F \cap {v} = {} /\ v \in Paths
      BY <1>3
    <3>2. Weight(F \cup {v}, f) = Weight(F, f) + Weight({v}, f)
      BY <3>1, WeightUnion
    <3>3. Weight({v}, f) = f[v].size
      BY <3>1, WeightOne
    <3> QED
      BY <3>2, <3>3
  <2>3. Weight(F, f) = Weight(F, g)
    BY <1>3, WeightSame
  <2>4. Weight(F, f) \in Nat
    BY <1>3, WeightFinite
  <2>5. Weight(F, g) >= m - f[v].size <=> Weight(F \cup {v}, f) >= m
    BY <2>2, <2>3, <2>4
  <2> QED
    BY <1>3, <2>1, <2>5 DEF RunOf
<1>4. (E \ {v}) \cup {v} = E /\ E \ {v} \in SUBSET (X \ {v})
  BY <1>1, <1>2
<1>5. RunOf(E \ {v}, X \ {v}, younger, g, m - f[v].size)
  BY <1>1, <1>3, <1>4
<1>6. ASSUME NEW F \in SUBSET (X \ {v}), RunOf(F, X \ {v}, younger, g, m - f[v].size)
      PROVE  E \ {v} \subseteq F
  <2>1. RunOf(F \cup {v}, X, order, f, m) /\ F \cup {v} \in SUBSET X
    BY <1>3, <1>6
  <2>2. E \subseteq F \cup {v}
    BY <2>1 DEF Shortest
  <2> QED
    BY <2>2
<1> QED
  BY <1>2, <1>5, <1>6 DEF Shortest

-----------------------------------------------------------------------------
(***************************************************************************)
(* The times of last use and of creation order the stored files, and a     *)
(* write or append that is being served carries some bytes.                *)
(***************************************************************************)
Ordered(order, S) == order \subseteq S \X S /\ Total2(order, S)
Ages == Ordered(last_use, files) /\ Ordered(creation_time, files)
Carries == \A w \in Workers :
    pc[w] \in InMutex /\ req[w].op \in {"write", "append"} => req[w].size \in Sizes
AInv == SInv /\ Ages /\ Carries

\* A file that is used, or created, becomes the youngest.
LEMMA StampOrdered ==
    ASSUME NEW order, NEW S, Ordered(order, S), NEW p
    PROVE  Ordered(Stamp(order, p, S), S \cup {p})
<1>1. \A x, y \in S \cup {p} : <<x, y>> \in Stamp(order, p, S) <=>
          \/ x # p /\ y # p /\ <<x, y>> \in order
          \/ x # p /\ y = p
  BY DEF Stamp
<1>2. Stamp(order, p, S) \subseteq (S \cup {p}) \X (S \cup {p})
  BY DEF Stamp, Ordered
<1> QED
  BY <1>1, <1>2 DEF Ordered, Total2

\* A file that is deleted leaves the order of the others.
LEMMA ForgetOrdered ==
    ASSUME NEW order, NEW S, Ordered(order, S), NEW p
    PROVE  /\ Ordered(Forget(order, p), S \ {p})
           /\ \A x, y \in S \ {p} : <<x, y>> \in Forget(order, p) <=> <<x, y>> \in order
<1>1. \A x, y \in S : <<x, y>> \in Forget(order, p) <=>
          x # p /\ y # p /\ <<x, y>> \in order
  BY DEF Forget
<1>2. Forget(order, p) \subseteq (S \ {p}) \X (S \ {p})
  BY DEF Forget, Ordered
<1> QED
  BY <1>1, <1>2 DEF Ordered, Total2

-----------------------------------------------------------------------------
(***************************************************************************)
(* The steps that change nothing BoundedStore knows of, and the others.    *)
(***************************************************************************)
SameFile(f, g) == /\ g.size = f.size /\ g.fd_lock = f.fd_lock /\ g.fd_open = f.fd_open
                  /\ g.can_be_expelled = f.can_be_expelled
Unseen == /\ UNCHANGED <<files, last_use, creation_time, loop>>
          /\ \A p \in Paths : SameFile(file[p], file'[p])
          /\ \A w \in Workers : pc'[w] = "expelling" <=> pc[w] = "expelling"

OpenGranted(w) ==
    /\ pc[w] = "locked" /\ req[w].op = "open"
    /\ req[w].lock => file[req[w].path].fd_lock \in {None, client[w]}
    /\ file' = [file EXCEPT ![req[w].path] =
                   Opened(WriterUnlocked(@), client[w], req[w].lock)]
    /\ last_use' = Stamp(last_use, req[w].path, files)
    /\ pc' = [pc EXCEPT ![w] = "answer"]
    /\ UNCHANGED <<files, creation_time>>

ReadGranted(w) ==
    /\ pc[w] = "locked" /\ req[w].op = "read"
    /\ client[w] \in file[req[w].path].fd_open
    /\ last_use' = Stamp(last_use, req[w].path, files)
    /\ pc' = [pc EXCEPT ![w] = "sending"]
    /\ UNCHANGED <<files, file, creation_time>>

GrowGranted(w) == Grows(w) /\ client[w] \in file[req[w].path].fd_open

Visible(w) == \/ OpenGranted(w) \/ Close(w) \/ ReadGranted(w) \/ Create(w)
              \/ CreateExpelling(w) \/ GrowGranted(w) \/ ExpellOne(w) \/ ExpellDone(w)
              \/ Removes(w)

\* A lock counter is no part of what BoundedStore knows.
LEMMA CountersHidden ==
    ASSUME SInv, NEW p \in Paths, NEW x,
           \/ file' = [file EXCEPT ![p].n_readers = x]
           \/ file' = [file EXCEPT ![p].n_writers = x]
    PROVE  \A q \in Paths : SameFile(file[q], file'[q])
<1> SUFFICES ASSUME NEW q \in Paths PROVE SameFile(file[q], file'[q])
  OBVIOUS
<1>1. \/ file'[q] = file[q]
      \/ file'[q] = [file[q] EXCEPT !.n_readers = x]
      \/ file'[q] = [file[q] EXCEPT !.n_writers = x]
  BY DEF SInv, TypeOK
<1>2. file[q] \in FileT
  BY DEF SInv, TypeOK
<1> QED
  BY <1>1, <1>2 DEF FileT, SameFile

\* A handler that gives up.
LEMMA RefuseUnseen ==
    ASSUME SInv, NEW w \in Workers, pc[w] = "locked", NEW code, Refuse(w, code)
    PROVE  Unseen
<1>1. req[w].path \in Paths
  BY LockedFile
<1>2. file' = [file EXCEPT ![req[w].path].n_writers = file[req[w].path].n_writers - 1]
  BY <1>1 DEF Refuse, WriterUnlocked, SInv, TypeOK
<1>3. \A q \in Paths : SameFile(file[q], file'[q])
  BY <1>1, <1>2, CountersHidden
<1> QED
  BY <1>3 DEF Refuse, Return, Unseen, SInv, TypeOK

\* write_file and append_to_file.
LEMMA WriteVisible ==
    ASSUME SInv, NEW w \in Workers, Write(w) \/ AppendTo(w)
    PROVE  Unseen \/ GrowGranted(w)
<1>1. pc[w] = "locked" /\ req[w].op \in {"write", "append"}
  BY DEF Write, AppendTo
<1>2. req[w] \in Requests /\ file[req[w].path] \in FileT
  BY <1>1, LockedFile
<1>3. req[w].size \in Nat /\ file[req[w].path].size \in Nat
  BY <1>1, <1>2, RequestSize, FileFields
<1> DEFINE f == file[req[w].path]
           n == req[w].size
<1>4. WriteError(f, client[w], n) = None => f.size + n <= MaxSpace /\ client[w] \in f.fd_open
  BY <1>3, StoreAssumption, f.size = 0 => f.size + n = n DEF WriteError, Results
<1>5. AppendError(f, client[w], n) = None => f.size + n <= MaxSpace /\ client[w] \in f.fd_open
  BY <1>3, StoreAssumption DEF AppendError, Results
<1>6. ASSUME f.size + n <= MaxSpace, client[w] \in f.fd_open, Grow(w, n) PROVE GrowGranted(w)
  BY <1>1, <1>3, <1>6 DEF Grows, GrowGranted
<1> HIDE DEF f, n
<1> QED
  BY <1>1, <1>4, <1>5, <1>6, RefuseUnseen DEF Write, AppendTo, f, n

\* Every handler's step is unseen or visible.
LEMMA HandlerVisible ==
    ASSUME SInv, NEW w \in Workers, Handler(w)
    PROVE  Unseen \/ Visible(w)
<1> USE DEF SInv, TypeOK, store, locals, loop
<1>0. ASSUME file' = file PROVE \A q \in Paths : SameFile(file[q], file'[q])
  BY <1>0 DEF SameFile
<1>1. CASE FileMissing(w) \/ CreateExists(w)
  BY <1>0, <1>1 DEF FileMissing, CreateExists, Return, Unseen
<1>2. CASE Send(w) \/ SendFails(w) \/ Answer(w)
  BY <1>0, <1>2 DEF Send, SendFails, Answer, Unseen
<1>3. CASE LockFile(w)
  <2>1. \A q \in Paths : SameFile(file[q], file'[q])
    BY <1>3, CountersHidden DEF LockFile
  <2> QED
    BY <1>3, <2>1 DEF LockFile, Unseen
<1>4. CASE Open(w)
  <2>1. CASE Refuse(w, "ALREADY_LOCKED")
    BY <1>4, <2>1, RefuseUnseen DEF Open
  <2> QED
    BY <1>4, <2>1 DEF Open, Return, OpenGranted, Visible
<1>5. CASE Read(w)
  <2>1. CASE /\ file' = [file EXCEPT ![req[w].path].n_readers = @ - 1]
             /\ Return(w, "NO_OPEN")
             /\ UNCHANGED last_use
    <3>1. req[w].path \in Paths
      BY <1>5, LockedFile DEF Read
    <3>2. \A q \in Paths : SameFile(file[q], file'[q])
      BY <2>1, <3>1, CountersHidden
    <3> QED
      BY <1>5, <2>1, <3>2 DEF Read, Return, Unseen
  <2> QED
    BY <1>5, <2>1 DEF Read, ReadGranted, Visible
<1>6. CASE ReadN(w)
  <2>1. CASE Return(w, "ERROR") /\ file' = file
    BY <1>0, <1>6, <2>1 DEF ReadN, Return, Unseen
  <2>2. ASSUME NEW S,
               file' = [p \in Paths |-> IF p \in S THEN [file[p] EXCEPT !.n_readers = @ + 1]
                                                    ELSE file[p]],
               pc' = [pc EXCEPT ![w] = "sending"]
        PROVE  Unseen
    <3>1. \A q \in Paths : SameFile(file[q], file'[q])
      <4> SUFFICES ASSUME NEW q \in Paths PROVE SameFile(file[q], file'[q])
        OBVIOUS
      <4>1. file'[q] = file[q] \/ file'[q] = [file[q] EXCEPT !.n_readers = file[q].n_readers + 1]
        BY <2>2
      <4>2. file[q] \in FileT
        OBVIOUS
      <4> QED
        BY <4>1, <4>2 DEF SameFile, FileT
    <3> QED
      BY <1>6, <2>2, <3>1 DEF ReadN, Unseen
  <2> QED
    BY <1>6, <2>1, <2>2 DEF ReadN
<1>7. CASE Remove(w)
  BY <1>7, RefuseUnseen DEF Remove, Removes, Visible
<1>8. CASE UnlockReader(w)
  <2>1. \A q \in Paths : SameFile(file[q], file'[q])
    BY <1>0, <1>8, CountersHidden DEF UnlockReader
  <2> QED
    BY <1>8, <2>1 DEF UnlockReader, Unseen
<1> QED
  BY <1>1, <1>2, <1>3, <1>4, <1>5, <1>6, <1>7, <1>8, WriteVisible DEF Handler, Visible

\* Every step is unseen or visible.
LEMMA StepVisible ==
    ASSUME SInv, [Next]_vars
    PROVE  Unseen \/ (\E w \in Workers : Visible(w)) \/ ForgetFiles
<1> USE DEF SInv, TypeOK, store, locals, loop
<1>0. ASSUME file' = file PROVE \A q \in Paths : SameFile(file[q], file'[q])
  BY <1>0 DEF SameFile
<1>1. CASE UNCHANGED vars
  BY <1>0, <1>1 DEF vars, Unseen
<1>2. ASSUME NEW c \in Clients, Connect(c) \/ CloseClient(c) PROVE Unseen
  BY <1>0, <1>2 DEF Connect, CloseClient, Unseen
<1>3. ASSUME NEW w \in Workers, NEW c \in Clients, Disconnect(w, c) \/ BadRequest(w, c)
      PROVE  Unseen
  BY <1>0, <1>3 DEF Disconnect, BadRequest, Unseen
<1>4. ASSUME NEW w \in Workers, NEW c \in Clients, NEW p \in Paths, AppendNothing(w, c, p)
      PROVE  Unseen
  BY <1>0, <1>4 DEF AppendNothing, Unseen
<1>5. ASSUME NEW w \in Workers, NEW c \in Clients, NEW r \in Requests, LockFiles(w, c, r)
      PROVE  Unseen
  BY <1>0, <1>5 DEF LockFiles, Unseen
<1> QED
  BY <1>1, <1>2, <1>3, <1>4, <1>5, HandlerVisible DEF Next, NewRequest

-----------------------------------------------------------------------------
\* What a creation that expels file v does.
LEMMA CreateExpellingStep ==
    ASSUME SInv, NEW w \in Workers, CreateExpelling(w), NEW p, p = req[w].path
    PROVE  /\ p \in Paths /\ p \notin files
           /\ \E v \in files :
                /\ Oldest(v)
                /\ files' = (files \ {v}) \cup {p}
                /\ file' = [[file EXCEPT ![v] = Blank] EXCEPT ![p] = NewFile(client[w], req[w].lock)]
                /\ last_use' = Stamp(Forget(last_use, v), p, files \ {v})
                /\ creation_time' = Stamp(Forget(creation_time, v), p, files \ {v})
<1>1. p \in Paths /\ p \notin files
  BY CreateExpellingEffect
<1> QED
  BY <1>1 DEF CreateExpelling, Insert

\* The times order the files after every step.
LEMMA NextAges == ASSUME SInv, Ages, [Next]_vars PROVE Ages'
<1> USE DEF Ages
<1>1. CASE Unseen
  BY <1>1 DEF Unseen
<1>2. ASSUME NEW p \in files, last_use' = Stamp(last_use, p, files),
             UNCHANGED <<files, creation_time>>
      PROVE  Ages'
  <2>1. Ordered(Stamp(last_use, p, files), files \cup {p}) /\ files \cup {p} = files
    BY StampOrdered
  <2> QED
    BY <1>2, <2>1
<1>3. ASSUME NEW v \in files, files' = files \ {v},
             last_use' = Forget(last_use, v), creation_time' = Forget(creation_time, v)
      PROVE  Ages'
  BY <1>3, ForgetOrdered
<1>4. ASSUME NEW w \in Workers, Visible(w) PROVE Ages'
  <2>1. CASE OpenGranted(w) \/ ReadGranted(w) \/ GrowGranted(w)
    <3>1. req[w].path \in files
      BY <2>1, LockedFile DEF OpenGranted, ReadGranted, GrowGranted, Grows
    <3> QED
      BY <1>2, <2>1, <3>1 DEF OpenGranted, ReadGranted, GrowGranted, Grows, Grow
  <2>2. CASE Close(w)
    BY <2>2 DEF Close
  <2>3. CASE Create(w)
    BY <2>3, StampOrdered DEF Create, Insert
  <2>4. CASE CreateExpelling(w)
    <3>1. PICK v \in files :
            /\ files' = (files \ {v}) \cup {req[w].path}
            /\ last_use' = Stamp(Forget(last_use, v), req[w].path, files \ {v})
            /\ creation_time' = Stamp(Forget(creation_time, v), req[w].path, files \ {v})
      BY <2>4, CreateExpellingStep
    <3>2. /\ Ordered(Forget(last_use, v), files \ {v})
          /\ Ordered(Forget(creation_time, v), files \ {v})
      BY ForgetOrdered
    <3> QED
      BY <3>1, <3>2, StampOrdered
  <2>5. CASE ExpellOne(w)
    BY <1>3, <2>5 DEF ExpellOne
  <2>6. CASE ExpellDone(w)
    BY <2>6 DEF ExpellDone
  <2>7. CASE Removes(w)
    <3>1. req[w].path \in files
      BY <2>7, LockedFile DEF Removes
    <3> QED
      BY <1>3, <2>7, <3>1 DEF Removes
  <2> QED
    BY <1>4, <2>1, <2>2, <2>3, <2>4, <2>5, <2>6, <2>7 DEF Visible
<1>5. CASE ForgetFiles
  BY <1>5 DEF ForgetFiles
<1> QED
  BY <1>1, <1>4, <1>5, StepVisible

\* No handler enters files_mtx by itself, and none changes its request there.
LEMMA NextCarries == ASSUME SInv, Carries, [Next]_vars PROVE Carries'
<1>1. ASSUME \A w \in Workers : pc'[w] \in InMutex => pc[w] \in InMutex /\ req'[w] = req[w]
      PROVE  Carries'
  BY <1>1 DEF Carries
<1>2. CASE Still
  BY <1>1, <1>2 DEF Still
<1>3. ASSUME NEW w \in Workers, Outside(w) PROVE Carries'
  BY <1>1, <1>3 DEF Outside
<1>4. ASSUME NEW w \in Workers, NEW c \in Clients, NEW r \in Requests, LockFiles(w, c, r)
      PROVE  Carries'
  <2>1. r.op \in {"write", "append"} => r.size \in Sizes
    BY <1>4 DEF LockFiles, Requests, OpenRequests, PathRequests, DataRequests, CountRequests
  <2>2. req'[w] = r /\ \A v \in Workers \ {w} : pc'[v] = pc[v] /\ req'[v] = req[v]
    BY <1>4 DEF LockFiles, SInv, TypeOK
  <2> QED
    BY <2>1, <2>2 DEF Carries
<1>5. ASSUME NEW w \in Workers, HandlerStep(w) PROVE Carries'
  <2>1. req' = req
    BY <1>5 DEF HandlerStep, LeavesCritical, LockFile, Create, CreateExpelling, Insert,
       EndsWriter, Read, Selects, Grows, Grow, ExpellOne, ExpellDone, Removes, UnlockReader
  <2>2. \A v \in Workers : pc'[v] \in InMutex => pc[v] \in InMutex
    BY <1>5 DEF HandlerStep, LeavesCritical, LockFile, Create, CreateExpelling, Insert,
       EndsWriter, Read, Selects, Grows, Grow, ExpellOne, ExpellDone, Removes, UnlockReader,
       Return, InMutex, SInv, TypeOK
  <2> QED
    BY <1>1, <2>1, <2>2
<1>6. ASSUME NEW c \in Clients, CloseClient(c) PROVE Carries'
  BY <1>1, <1>6 DEF CloseClient
<1>7. CASE ForgetFiles
  BY <1>1, <1>7 DEF ForgetFiles
<1> QED
  BY <1>2, <1>3, <1>4, <1>5, <1>6, <1>7, StepKinds

\* An empty store is in order.
LEMMA InitAInv == Init => AInv
<1> SUFFICES ASSUME Init PROVE AInv
  OBVIOUS
<1>1. Ages
  BY DEF Init, Ages, Ordered, Total2
<1>2. Carries
  BY DEF Init, Carries, InMutex
<1> QED
  BY <1>1, <1>2, InitSInv DEF AInv

\* The store is in order in every reachable state.
THEOREM AgeInvariant == Safety => []AInv
<1>1. AInv /\ SInv' /\ [Next]_vars => AInv'
  BY NextAges, NextCarries DEF AInv
<1> QED
  BY Invariant, InitAInv, <1>1, PTL DEF Safety

-----------------------------------------------------------------------------
(***************************************************************************)
(* The refinement mapping.  Settled: no file is going to be expelled, and  *)
(* BoundedStore sees the store as it is.                                   *)
(***************************************************************************)
Settled == \A w \in Workers : pc[w] # "expelling"
Info(f) == [size |-> f.size, locker |-> f.fd_lock, openers |-> f.fd_open]
AsItIs == /\ Doomed = {} /\ StoredNow = files
          /\ InfoNow = [p \in Paths |-> Info(file[p])]
          /\ AgeNow = PolicyOrder /\ Expellable = files

LEMMA SettledNow == AInv /\ Settled => AsItIs
<1> SUFFICES ASSUME AInv, Settled PROVE AsItIs
  OBVIOUS
<1> USE DEF AInv, SInv
<1>1. Doomed = {}
  BY DEF Doomed, Settled
<1>2. StoredNow = files
  BY <1>1 DEF StoredNow
<1>3. InfoNow = [p \in Paths |-> Info(file[p])]
  <2>1. \A p \in Paths \ files : Info(file[p]) = [size |-> 0, locker |-> None, openers |-> {}]
    <3>1. Info(Blank) = [size |-> 0, locker |-> None, openers |-> {}]
      BY DEF Info, Blank
    <3>2. \A p \in Paths \ files : file[p] = Blank
      BY DEF TypeOK
    <3> HIDE DEF AInv, SInv
    <3> QED
      BY <3>1, <3>2
  <2> QED
    BY <1>2, <2>1 DEF InfoNow, Info
<1>4. PolicyOrder \subseteq files \X files
  BY DEF PolicyOrder, Ages, Ordered
<1>5. AgeNow = PolicyOrder
  BY <1>2, <1>4 DEF AgeNow
<1>6. Expellable = files
  BY DEF Expellable, WriterLocks, Evicts, Settled
<1> QED
  BY <1>1, <1>2, <1>3, <1>5, <1>6 DEF AsItIs

\* The same after a step.
LEMMA SettledNext == AInv' /\ Settled' => AsItIs'
  BY SettledNow, PTL

\* All bytes of the store.
LEMMA AllBytes == AInv => Weight(files, file) = curr_state.space
<1> SUFFICES ASSUME AInv PROVE Weight(files, file) = curr_state.space
  OBVIOUS
<1> USE DEF AInv, SInv
<1>1. \A b : b \in BytesOf(files, file) <=> b \in Bytes
  BY DEF BytesOf, Bytes, TypeOK
<1>2. BytesOf(files, file) = Bytes
  BY <1>1
<1> QED
  BY <1>2 DEF Weight, AccountingExact

(***************************************************************************)
(* While w makes room for its file, the doomed files are the shortest run  *)
(* of oldest files, its own apart, that weighs what is still to be freed.  *)
(***************************************************************************)
Missing == size_to_free - freed
Dooms(w) == /\ Expellable = files \ {req[w].path}
            /\ Total2(PolicyOrder, Expellable)
            /\ Doomed \in SUBSET Expellable
            /\ Shortest(Doomed, Expellable, PolicyOrder, file, Missing)
            /\ \A E : Shortest(E, Expellable, PolicyOrder, file, Missing) => E = Doomed
AllDoom == \A w \in Workers : pc[w] = "expelling" => Dooms(w)

LEMMA DoomedShortest == AInv => AllDoom
<1> SUFFICES ASSUME AInv, NEW w \in Workers, pc[w] = "expelling" PROVE Dooms(w)
  BY DEF AllDoom
<1> USE DEF AInv, SInv
<1> DEFINE p == req[w].path
           X == Expellable
<1>1. p \in files /\ p \in Paths /\ file[p].size \in Nat /\ file[p].size <= MaxSpace
  BY LockedFile, FileFields DEF Room
<1>2. \A v \in Workers : v # w => pc[v] # "expelling"
  BY AloneInMutex DEF InMutex
<1>3. X = files \ {p}
  BY <1>1, <1>2 DEF Expellable, WriterLocks, Evicts
<1>4. X \in SUBSET Paths /\ files \in SUBSET Paths /\ {p} \in SUBSET files
  BY <1>1, <1>3 DEF TypeOK
<1>5. Weight(X, file) >= Missing
  <2>1. Weight(files \ {p}, file) = Weight(files, file) - Weight({p}, file)
    BY <1>4, WeightRest
  <2>2. Weight({p}, file) = file[p].size
    BY <1>1, WeightOne
  <2>3. Weight(files, file) = curr_state.space
    BY AllBytes
  <2>4. curr_state.space + freed = MaxSpace + size_to_free
    BY DEF Room
  <2>5. curr_state.space \in Nat /\ freed \in Nat /\ size_to_free \in Nat /\ MaxSpace \in Nat
    BY StoreAssumption DEF TypeOK
  <2> HIDE DEF X, p
  <2> QED
    BY <1>1, <1>3, <2>1, <2>2, <2>3, <2>4, <2>5 DEF Missing
<1>6. Total2(PolicyOrder, X)
  BY <1>3 DEF Ages, Ordered, Total2, PolicyOrder
<1>7. /\ \E E \in SUBSET X : Shortest(E, X, PolicyOrder, file, Missing)
      /\ \A E, F : Shortest(E, X, PolicyOrder, file, Missing)
                    /\ Shortest(F, X, PolicyOrder, file, Missing) => E = F
  BY <1>4, <1>5, <1>6, ShortestExists
<1>8. \A E \in SUBSET X : Shortest(E, X, PolicyOrder, file, Missing) <=>
          Frees(E) /\ \A F \in SUBSET X : Frees(F) => E \subseteq F
  BY DEF Shortest, RunOf, Frees, SizeOf, Weight, BytesOf, Missing
<1>9. Doomed = CHOOSE E \in SUBSET X : Frees(E) /\ \A F \in SUBSET X : Frees(F) => E \subseteq F
  BY DEF Doomed
<1>10. Doomed \in SUBSET X /\ Frees(Doomed) /\ \A F \in SUBSET X : Frees(F) => Doomed \subseteq F
  <2> HIDE DEF X
  <2> QED
    BY <1>7, <1>8, <1>9
<1>11. Shortest(Doomed, X, PolicyOrder, file, Missing)
  BY <1>8, <1>10
<1> QED
  BY <1>3, <1>6, <1>7, <1>10, <1>11 DEF Dooms

\* The same after a step.
LEMMA DoomedNext == AInv' => AllDoom'
  BY DoomedShortest, PTL

-----------------------------------------------------------------------------
BSame == StoredNow' = StoredNow /\ InfoNow' = InfoNow /\ AgeNow' = AgeNow

\* A worker that owns files_mtx and is not expelling leaves the store settled.
LEMMA SettledStep ==
    ASSUME AInv, AInv', NEW w \in Workers, pc[w] \in {"critical", "locked"},
           NEW l \in {"answer", "sending"}, pc' = [pc EXCEPT ![w] = l]
    PROVE  AsItIs /\ AsItIs'
<1>1. \A v \in Workers : v # w => pc[v] \notin InMutex
  BY AloneInMutex DEF AInv, InMutex
<1>2. Settled
  BY <1>1 DEF Settled, InMutex
<1>3. Settled'
  BY <1>1 DEF Settled, InMutex, AInv, SInv, TypeOK
<1> QED
  BY <1>2, <1>3, SettledNow, SettledNext

\* An unseen step is a step of BoundedStore that changes nothing.
LEMMA UnseenMaps == ASSUME AInv, AInv', Unseen PROVE BSame
<1> USE DEF Unseen
<1>1. PolicyOrder' = PolicyOrder
  BY DEF PolicyOrder
<1>2. CASE Settled
  <2>1. AsItIs /\ AsItIs'
    BY <1>2, SettledNow, SettledNext DEF Settled
  <2>2. \A p \in Paths : Info(file'[p]) = Info(file[p])
    BY DEF SameFile, Info
  <2> QED
    BY <1>1, <2>1, <2>2 DEF AsItIs, BSame
<1>3. ASSUME NEW w \in Workers, pc[w] = "expelling" PROVE BSame
  <2>1. Dooms(w) /\ Dooms(w)'
    BY <1>3, DoomedShortest, DoomedNext DEF AllDoom
  <2>2. Expellable' = Expellable /\ Expellable \subseteq Paths
    BY DEF Expellable, SameFile, AInv, SInv, TypeOK
  <2>3. Missing' = Missing
    BY DEF Missing, loop
  <2>4. \A E \in SUBSET Expellable : Weight(E, file') = Weight(E, file)
    BY <2>2, WeightSame DEF SameFile
  <2>5. Shortest(Doomed', Expellable, PolicyOrder, file', Missing)
    BY <1>1, <2>1, <2>2, <2>3 DEF Dooms
  <2>6. Doomed' \in SUBSET Expellable
    BY <2>1, <2>2 DEF Dooms
  <2>7. Shortest(Doomed', Expellable, PolicyOrder, file, Missing)
    BY <2>4, <2>5, <2>6 DEF Shortest, RunOf
  <2>8. Doomed' = Doomed
    BY <2>1, <2>7 DEF Dooms
  <2>9. StoredNow' = StoredNow
    BY <2>8 DEF StoredNow
  <2> QED
    BY <1>1, <2>9 DEF BSame, AgeNow, InfoNow, SameFile
<1> QED
  BY <1>2, <1>3 DEF Settled

(***************************************************************************)
(* The loop of expell_multiple_files expels a doomed file, which is no     *)
(* longer stored for BoundedStore: again nothing changes.                  *)
(***************************************************************************)
LEMMA ExpellOneMaps ==
    ASSUME AInv, AInv', NEW w \in Workers, ExpellOne(w)
    PROVE  BSame
<1>0. pc[w] = "expelling" /\ pc'[w] = "expelling" /\ req' = req
  BY DEF ExpellOne
<1>1. Dooms(w) /\ Dooms(w)'
  BY <1>0, DoomedShortest, DoomedNext DEF AllDoom
<1>2. PICK v \in files :
        /\ Oldest(v)
        /\ files' = files \ {v}
        /\ file' = [file EXCEPT ![v] = Blank]
        /\ last_use' = Forget(last_use, v)
        /\ creation_time' = Forget(creation_time, v)
        /\ freed' = freed + file[v].size
        /\ size_to_free' = size_to_free
  BY DEF ExpellOne
<1>3. v \in Paths /\ v \in Expellable /\ \A q \in Expellable : <<q, v>> \notin PolicyOrder
  BY <1>2 DEF Oldest, AInv, SInv, TypeOK
<1>4. file[v].size \in Nat /\ file[v].size <= MaxSpace /\ freed \in Nat /\ size_to_free \in Nat
  BY <1>2, <1>3, FileFields DEF AInv, SInv, TypeOK, Room
<1>5. Expellable' = Expellable \ {v} /\ Expellable \in SUBSET Paths
  BY <1>0, <1>1, <1>2 DEF Dooms, AInv, SInv, TypeOK
<1>6. PolicyOrder' = Forget(PolicyOrder, v)
  BY <1>2 DEF PolicyOrder
<1>7. Missing \in Int /\ Missing > 0 /\ Missing' = Missing - file[v].size
  BY <1>2, <1>4 DEF Missing, ExpellOne
<1>8. \A p \in Paths \ {v} : file'[p] = file[p]
  BY <1>2 DEF AInv, SInv, TypeOK
<1>9. Ordered(PolicyOrder, files)
  BY DEF PolicyOrder, AInv, Ages
<1>10. \A p, q \in files \ {v} : <<p, q>> \in Forget(PolicyOrder, v) <=> <<p, q>> \in PolicyOrder
  BY <1>9, ForgetOrdered
<1>11. /\ v \in Doomed
       /\ Shortest(Doomed \ {v}, Expellable \ {v}, PolicyOrder', file', Missing - file[v].size)
  <2>1. Total2(PolicyOrder, Expellable) /\ Shortest(Doomed, Expellable, PolicyOrder, file, Missing)
    BY <1>1 DEF Dooms
  <2>2. \A p \in Expellable \ {v} : file'[p].size = file[p].size
    BY <1>5, <1>8
  <2>3. \A p, q \in Expellable \ {v} : <<p, q>> \in PolicyOrder' <=> <<p, q>> \in PolicyOrder
    BY <1>6, <1>10 DEF Expellable
  <2> QED
    BY <1>3, <1>4, <1>5, <1>7, <2>1, <2>2, <2>3, ShortestLess
<1>12. Doomed' = Doomed \ {v}
  BY <1>1, <1>5, <1>7, <1>11 DEF Dooms
<1>13. StoredNow' = StoredNow
  BY <1>2, <1>11, <1>12 DEF StoredNow
<1>14. InfoNow' = InfoNow
  <2>1. \A p \in StoredNow : file'[p] = file[p]
    BY <1>8, <1>11 DEF StoredNow, AInv, SInv, TypeOK
  <2> QED
    BY <1>13, <2>1 DEF InfoNow
<1>15. AgeNow' = AgeNow
  <2>1. v \notin StoredNow
    BY <1>11 DEF StoredNow
  <2> QED
    BY <1>6, <1>13, <2>1 DEF AgeNow, Forget
<1> QED
  BY <1>13, <1>14, <1>15 DEF BSame

\* When the loop ends nothing is doomed any more.
LEMMA ExpellDoneMaps ==
    ASSUME AInv, AInv', NEW w \in Workers, ExpellDone(w)
    PROVE  BSame
<1>1. pc[w] = "expelling" /\ freed >= size_to_free
  BY DEF ExpellDone
<1>2. Dooms(w)
  BY <1>1, DoomedShortest DEF AllDoom
<1>3. Doomed = {}
  <2>1. freed \in Nat /\ size_to_free \in Nat
    BY DEF AInv, SInv, TypeOK
  <2>2. Weight({}, file) >= Missing
    BY <1>1, <2>1, WeightNone DEF Missing
  <2>3. RunOf({}, Expellable, PolicyOrder, file, Missing)
    BY <2>2 DEF RunOf
  <2> QED
    BY <1>2, <2>3 DEF Dooms, Shortest
<1>4. Settled'
  BY <1>1, AloneInMutex DEF ExpellDone, Settled, InMutex, AInv, SInv, TypeOK
<1>5. AsItIs'
  BY <1>4, SettledNext
<1>6. files' = files /\ PolicyOrder' = PolicyOrder
  BY DEF ExpellDone, PolicyOrder
<1>7. StoredNow' = StoredNow /\ StoredNow = files
  BY <1>3, <1>5, <1>6 DEF AsItIs, StoredNow
<1>8. \A p \in Paths : /\ file'[p].size = file[p].size /\ file'[p].fd_lock = file[p].fd_lock
                        /\ file'[p].fd_open = file[p].fd_open
  <2> DEFINE p == req[w].path
             g == [WriterUnlocked(file[p]) EXCEPT !.can_be_expelled = TRUE]
  <2>1. p \in Paths /\ file[p] \in FileT
    BY <1>1, LockedFile DEF AInv
  <2>2. g.size = file[p].size /\ g.fd_lock = file[p].fd_lock /\ g.fd_open = file[p].fd_open
    BY <2>1 DEF WriterUnlocked, FileT
  <2>3. file' = [file EXCEPT ![p] = g]
    BY DEF ExpellDone
  <2> HIDE DEF g, p
  <2> QED
    BY <2>1, <2>2, <2>3 DEF AInv, SInv, TypeOK
<1>9. InfoNow' = InfoNow
  BY <1>7, <1>8 DEF InfoNow
<1>10. AgeNow' = AgeNow
  BY <1>6, <1>7 DEF AgeNow
<1> QED
  BY <1>7, <1>9, <1>10 DEF BSame

-----------------------------------------------------------------------------
\* One file changes while the store is settled.
LEMMA InfoChanged ==
    ASSUME AsItIs, AsItIs', AInv, NEW p \in Paths, NEW g, file' = [file EXCEPT ![p] = g]
    PROVE  InfoNow' = [InfoNow EXCEPT ![p] = Info(g)]
<1>1. file'[p] = g /\ \A q \in Paths : q # p => file'[q] = file[q]
  BY DEF AInv, SInv, TypeOK
<1>2. /\ InfoNow = [q \in Paths |-> Info(file[q])]
      /\ InfoNow' = [q \in Paths |-> Info(file'[q])]
  BY DEF AsItIs
<1> HIDE DEF Info
<1> QED
  BY <1>1, <1>2

\* A file is used: under LRU it becomes the youngest of those that are kept.
LEMMA AgeUsed ==
    ASSUME AInv, AsItIs, NEW p \in files, NEW E \in SUBSET (files \ {p}),
           last_use' = Stamp(last_use, p, files), creation_time' = creation_time
    PROVE  {e \in PolicyOrder' : e[1] \in files \ E /\ e[2] \in files \ E} = Promise!Used(p, E)
<1>1. PolicyOrder \subseteq files \X files
  BY DEF PolicyOrder, AInv, Ages, Ordered
<1>2. StoredNow = files /\ AgeNow = PolicyOrder
  BY DEF AsItIs
<1>3. CASE Policy = "LRU"
  <2>1. PolicyOrder = last_use /\ PolicyOrder' = Stamp(PolicyOrder, p, files)
    BY <1>3 DEF PolicyOrder
  <2>2. \A e : e \in Stamp(PolicyOrder, p, files) <=>
          \/ e \in PolicyOrder /\ e[1] # p /\ e[2] # p
          \/ e \in (files \ {p}) \X {p}
    BY DEF Stamp
  <2>3. \A e : e \in Promise!Used(p, E) <=>
          \/ e \in PolicyOrder /\ e[1] \notin E \cup {p} /\ e[2] \notin E \cup {p}
          \/ e \in (files \ (E \cup {p})) \X {p}
    BY <1>2, <1>3 DEF Promise!Used, Promise!Youngest, Promise!Without
  <2>4. \A e : (e \in PolicyOrder' /\ e[1] \in files \ E /\ e[2] \in files \ E)
                 <=> e \in Promise!Used(p, E)
    BY <1>1, <2>1, <2>2, <2>3
  <2> QED
    BY <2>4
<1>4. CASE Policy = "FIFO"
  <2>1. PolicyOrder = creation_time /\ PolicyOrder' = PolicyOrder
    BY <1>4 DEF PolicyOrder
  <2>2. \A e : e \in Promise!Used(p, E) <=> e \in PolicyOrder /\ e[1] \notin E /\ e[2] \notin E
    BY <1>2, <1>4 DEF Promise!Used, Promise!Without
  <2>3. \A e : (e \in PolicyOrder' /\ e[1] \in files \ E /\ e[2] \in files \ E)
                 <=> e \in Promise!Used(p, E)
    BY <1>1, <2>1, <2>2
  <2> QED
    BY <2>3
<1> QED
  BY <1>3, <1>4, StoreAssumption

\* The same when all are kept.
LEMMA AgeUsedAll ==
    ASSUME AInv, AInv', AsItIs, AsItIs', files' = files, NEW p \in files,
           last_use' = Stamp(last_use, p, files), creation_time' = creation_time
    PROVE  AgeNow' = Promise!Used(p, {})
<1>1. PolicyOrder' \subseteq files \X files
  BY DEF PolicyOrder, AInv, Ages, Ordered
<1>2. {e \in PolicyOrder' : e[1] \in files \ {} /\ e[2] \in files \ {}} = Promise!Used(p, {})
  BY AgeUsed
<1>3. {e \in PolicyOrder' : e[1] \in files \ {} /\ e[2] \in files \ {}} = PolicyOrder'
  BY <1>1
<1> QED
  BY <1>2, <1>3 DEF AsItIs

\* An open request says whether to lock.
LEMMA RequestLock ==
    ASSUME NEW r \in Requests, r.op = "open"
    PROVE  r.lock \in BOOLEAN
  BY DEF Requests, OpenRequests, PathRequests, DataRequests, CountRequests

\* What open_file and close_file make of the visible part of a file.
LEMMA OpenedInfo ==
    ASSUME NEW f \in FileT, NEW c, NEW lock \in BOOLEAN, NEW g,
           g = Opened(WriterUnlocked(f), c, lock)
    PROVE  Info(g) = Promise!File(Info(f).size, IF lock THEN c ELSE Info(f).locker,
                                  Info(f).openers \cup {c})
<1>1. /\ g.size = f.size /\ g.fd_open = f.fd_open \cup {c}
      /\ g.fd_lock = IF lock THEN c ELSE f.fd_lock
  BY DEF Opened, WriterUnlocked, FileT
<1> QED
  BY <1>1 DEF Info, Promise!File

\* close_file and close_client forget the client.
LEMMA ForgottenInfo ==
    ASSUME NEW f \in FileT, NEW c, NEW g,
           g = ForgetClient(f, c) \/ g = ForgetClient(WriterUnlocked(f), c)
    PROVE  Info(g) = Promise!File(Info(f).size,
                                  IF Info(f).locker = c THEN None ELSE Info(f).locker,
                                  Info(f).openers \ {c})
<1>1. /\ g.size = f.size /\ g.fd_open = f.fd_open \ {c}
      /\ g.fd_lock = IF f.fd_lock = c THEN None ELSE f.fd_lock
  BY DEF ForgetClient, WriterUnlocked, FileT
<1> QED
  BY <1>1 DEF Info, Promise!File

\* openFile without O_CREATE.
LEMMA OpenMaps ==
    ASSUME AInv, AInv', NEW w \in Workers, OpenGranted(w)
    PROVE  Promise!BOpen(client[w], req[w].path, req[w].lock)
<1> DEFINE p == req[w].path
           c == client[w]
           f == file[p]
           g == Opened(WriterUnlocked(f), c, req[w].lock)
<1>1. p \in Paths /\ p \in files /\ f \in FileT /\ req[w].lock \in BOOLEAN
  BY LockedFile, RequestLock DEF OpenGranted, AInv
<1>2. AsItIs /\ AsItIs'
  BY SettledStep DEF OpenGranted
<1>3. /\ file' = [file EXCEPT ![p] = g]
      /\ last_use' = Stamp(last_use, p, files)
      /\ files' = files /\ creation_time' = creation_time
      /\ req[w].lock => f.fd_lock \in {None, c}
  BY DEF OpenGranted
<1>4. InfoNow[p] = Info(f)
  BY <1>1, <1>2 DEF AsItIs
<1> DEFINE h == Promise!File(InfoNow[p].size, IF req[w].lock THEN c ELSE InfoNow[p].locker,
                             InfoNow[p].openers \cup {c})
<1>5. Info(g) = h
  <2>1. Info(g) = Promise!File(Info(f).size, IF req[w].lock THEN c ELSE Info(f).locker,
                               Info(f).openers \cup {c})
    <3> HIDE DEF f, c
    <3> QED
      BY <1>1, OpenedInfo
  <2> HIDE DEF g, f, c
  <2> QED
    BY <1>4, <2>1
<1> HIDE DEF g
<1>6. InfoNow' = [InfoNow EXCEPT ![p] = Info(g)]
  BY <1>1, <1>2, <1>3, InfoChanged
<1>7. InfoNow' = [InfoNow EXCEPT ![p] = h]
  BY <1>5, <1>6
<1>8. AgeNow' = Promise!Used(p, {})
  BY <1>1, <1>2, <1>3, AgeUsedAll
<1>9. StoredNow = files /\ StoredNow' = files
  BY <1>2, <1>3 DEF AsItIs
<1>10. InfoNow[p].locker = f.fd_lock
  BY <1>4 DEF Info
<1> QED
  BY <1>1, <1>3, <1>7, <1>8, <1>9, <1>10 DEF Promise!BOpen

\* closeFile.
LEMMA CloseMaps ==
    ASSUME AInv, AInv', NEW w \in Workers, Close(w)
    PROVE  Promise!BClose(client[w], {req[w].path})
<1> DEFINE p == req[w].path
           c == client[w]
           f == file[p]
           g == ForgetClient(WriterUnlocked(f), c)
<1>1. p \in Paths /\ p \in files /\ f \in FileT
  BY LockedFile DEF Close, AInv
<1>2. AsItIs /\ AsItIs'
  BY SettledStep DEF Close, Return
<1>3. file' = [file EXCEPT ![p] = g] /\ UNCHANGED <<files, last_use, creation_time>>
  BY DEF Close
<1>4. InfoNow[p] = Info(f)
  BY <1>1, <1>2 DEF AsItIs
<1> DEFINE h == Promise!File(InfoNow[p].size,
                             IF InfoNow[p].locker = c THEN None ELSE InfoNow[p].locker,
                             InfoNow[p].openers \ {c})
<1>5. Info(g) = h
  <2>1. Info(g) = Promise!File(Info(f).size, IF Info(f).locker = c THEN None ELSE Info(f).locker,
                               Info(f).openers \ {c})
    <3> HIDE DEF f, c
    <3> QED
      BY <1>1, ForgottenInfo
  <2> HIDE DEF g, f, c
  <2> QED
    BY <1>4, <2>1
<1> HIDE DEF g
<1>6. InfoNow' = [InfoNow EXCEPT ![p] = Info(g)]
  BY <1>1, <1>2, <1>3, InfoChanged
<1>7. InfoNow' = [q \in Paths |->
          IF q \in {p} THEN Promise!File(InfoNow[q].size,
                               IF InfoNow[q].locker = c THEN None ELSE InfoNow[q].locker,
                               InfoNow[q].openers \ {c})
                       ELSE InfoNow[q]]
  <2> HIDE DEF Info
  <2>1. InfoNow = [q \in Paths |-> Info(file[q])]
    BY <1>2 DEF AsItIs
  <2> QED
    BY <1>1, <1>5, <1>6, <2>1
<1>8. StoredNow = files /\ StoredNow' = StoredNow /\ AgeNow' = AgeNow
  BY <1>2, <1>3 DEF AsItIs, PolicyOrder
<1> QED
  BY <1>1, <1>7, <1>8 DEF Promise!BClose

\* readFile.
LEMMA ReadMaps ==
    ASSUME AInv, AInv', NEW w \in Workers, ReadGranted(w)
    PROVE  Promise!BRead(client[w], req[w].path)
<1> DEFINE p == req[w].path
<1>1. p \in Paths /\ p \in files
  BY LockedFile DEF ReadGranted, AInv
<1>2. AsItIs /\ AsItIs'
  BY SettledStep DEF ReadGranted
<1>3. /\ files' = files /\ file' = file /\ creation_time' = creation_time
      /\ last_use' = Stamp(last_use, p, files)
      /\ client[w] \in file[p].fd_open
  BY DEF ReadGranted
<1>4. AgeNow' = Promise!Used(p, {})
  BY <1>1, <1>2, <1>3, AgeUsedAll
<1>5. StoredNow' = StoredNow /\ InfoNow' = InfoNow /\ StoredNow = files
  BY <1>2, <1>3 DEF AsItIs
<1>6. InfoNow[p].openers = file[p].fd_open
  BY <1>1, <1>2 DEF AsItIs, Info
<1> QED
  BY <1>1, <1>3, <1>4, <1>5, <1>6 DEF Promise!BRead

\* removeFile.
LEMMA RemoveMaps ==
    ASSUME AInv, AInv', NEW w \in Workers, Removes(w)
    PROVE  Promise!BRemove(client[w], req[w].path)
<1> DEFINE p == req[w].path
<1>1. p \in Paths /\ p \in files /\ file[p] \in FileT
  BY LockedFile DEF Removes, AInv
<1>2. AsItIs /\ AsItIs'
  BY SettledStep DEF Removes, Return
<1>3. /\ files' = files \ {p} /\ file' = [file EXCEPT ![p] = Blank]
      /\ PolicyOrder' = Forget(PolicyOrder, p)
  BY DEF Removes, PolicyOrder
<1>4. file[p].fd_lock = client[w]
  BY StoreAssumption DEF Removes, RemoveError, Results
<1>5. Info(Blank) = Promise!NoInfo
  BY DEF Info, Blank, Promise!NoInfo, Promise!File
<1>6. InfoNow' = [InfoNow EXCEPT ![p] = Info(Blank)]
  BY <1>1, <1>2, <1>3, InfoChanged
<1>7. StoredNow' = StoredNow \ {p} /\ StoredNow = files
  BY <1>2, <1>3 DEF AsItIs
<1>8. AgeNow' = Promise!Without({p})
  BY <1>2, <1>3 DEF AsItIs, Forget, Promise!Without
<1>9. InfoNow[p].locker = file[p].fd_lock
  BY <1>1, <1>2 DEF AsItIs, Info
<1> QED
  BY <1>1, <1>4, <1>5, <1>6, <1>7, <1>8, <1>9 DEF Promise!BRemove

\* close_client.
LEMMA ForgetMaps ==
    ASSUME AInv, AInv', ForgetFiles
    PROVE  main_client \in Clients /\ Promise!BClose(main_client, StoredNow)
<1>1. files_mtx = Main /\ main_client \in Clients
  BY DEF ForgetFiles, AInv, SInv, TypeOK, Owners
<1>2. \A w \in Workers : pc[w] \notin InMutex
  BY <1>1, StoreAssumption DEF AInv, SInv, Owners
<1>3. Settled /\ Settled'
  BY <1>2 DEF Settled, InMutex, ForgetFiles
<1>4. AsItIs /\ AsItIs'
  BY <1>3, SettledNow, SettledNext
<1>5. UNCHANGED <<files, PolicyOrder>>
  BY DEF ForgetFiles, PolicyOrder
<1>6. StoredNow' = StoredNow /\ AgeNow' = AgeNow /\ StoredNow = files
  BY <1>4, <1>5 DEF AsItIs
<1> DEFINE Cleaned(i) == Promise!File(i.size, IF i.locker = main_client THEN None ELSE i.locker,
                                      i.openers \ {main_client})
<1>7. \A p \in files : Info(file'[p]) = Cleaned(Info(file[p]))
  <2> SUFFICES ASSUME NEW p \in files PROVE Info(file'[p]) = Cleaned(Info(file[p]))
    OBVIOUS
  <2>1. file'[p] = ForgetClient(file[p], main_client) /\ file[p] \in FileT
    BY DEF ForgetFiles, AInv, SInv, TypeOK
  <2> QED
    BY <2>1, ForgottenInfo
<1>8. \A p \in Paths \ files : file'[p] = file[p]
  BY DEF ForgetFiles
<1>9. InfoNow' = [p \in Paths |-> IF p \in files THEN Cleaned(InfoNow[p]) ELSE InfoNow[p]]
  <2> HIDE DEF Info, Cleaned
  <2>1. /\ InfoNow = [p \in Paths |-> Info(file[p])]
        /\ InfoNow' = [p \in Paths |-> Info(file'[p])]
    BY <1>4 DEF AsItIs
  <2> QED
    BY <2>1, <1>7, <1>8
<1> QED
  BY <1>1, <1>6, <1>9 DEF Promise!BClose

\* BoundedStore counts as FileStore does.
LEMMA SameCardinality == \A S : Promise!Cardinality(S) = Cardinality(S)
  BY Zenon DEF Promise!Cardinality, Cardinality

\* A create of BoundedStore that expels the files in E.
LEMMA CreateWith ==
    ASSUME NEW c, NEW p, NEW lock, NEW E \in SUBSET StoredNow,
           p \notin StoredNow,
           Cardinality(E) = IF Cardinality(StoredNow) = MaxFiles THEN 1 ELSE 0,
           Promise!OldestFiles(E, p),
           StoredNow' = (StoredNow \ E) \cup {p},
           InfoNow' = [Promise!Expelled(E) EXCEPT ![p] =
                          Promise!File(0, IF lock THEN c ELSE None, {c})],
           AgeNow' = Promise!Youngest(p, E)
    PROVE  Promise!BCreate(c, p, lock)
  BY SameCardinality DEF Promise!BCreate

\* The visible part of a new file.
LEMMA NewInfo ==
    ASSUME NEW c, NEW lock
    PROVE  Info(NewFile(c, lock)) = Promise!File(0, IF lock THEN c ELSE None, {c})
<1> DEFINE g == NewFile(c, lock)
<1>1. g.size = 0 /\ g.fd_lock = (IF lock THEN c ELSE None) /\ g.fd_open = {c}
  BY DEF NewFile, Blank
<1> HIDE DEF g
<1>2. Info(g) = Promise!File(0, IF lock THEN c ELSE None, {c})
  BY <1>1 DEF Info, Promise!File
<1> QED
  BY <1>2 DEF g

\* openFile with O_CREATE, in a store that has room.
LEMMA CreateMaps ==
    ASSUME MaxFiles > 0, AInv, AInv', NEW w \in Workers, Create(w)
    PROVE  Promise!BCreate(client[w], req[w].path, req[w].lock)
<1> DEFINE p == req[w].path
           c == client[w]
           g == NewFile(c, req[w].lock)
<1>1. p \in Paths /\ p \notin files
  BY CreateEffect DEF AInv
<1>2. AsItIs /\ AsItIs'
  BY SettledStep DEF Create, Insert, Return
<1>3. /\ files' = files \cup {p} /\ file' = [file EXCEPT ![p] = g]
      /\ PolicyOrder' = Stamp(PolicyOrder, p, files)
  BY DEF Create, Insert, PolicyOrder
<1>4. Cardinality(files) # MaxFiles
  <2>1. Cardinality(files) = curr_state.files
    BY DEF AInv, SInv, AccountingExact
  <2> QED
    BY <2>1, FS_EmptySet, StoreAssumption DEF Create
<1>5. StoredNow = files /\ StoredNow' = (files \ {}) \cup {p} /\ AgeNow = PolicyOrder
  BY <1>2, <1>3 DEF AsItIs
<1>6. AgeNow' = Promise!Youngest(p, {})
  <2>1. AgeNow' = Stamp(PolicyOrder, p, files)
    BY <1>2, <1>3 DEF AsItIs
  <2>2. \A e : e \in Stamp(PolicyOrder, p, files) <=> e \in Promise!Youngest(p, {})
    BY <1>5 DEF Stamp, Promise!Youngest, Promise!Without
  <2> QED
    BY <2>1, <2>2
<1>7. Info(g) = Promise!File(0, IF req[w].lock THEN c ELSE None, {c})
  BY NewInfo
<1> HIDE DEF g
<1>8. InfoNow' = [InfoNow EXCEPT ![p] = Info(g)]
  BY <1>1, <1>2, <1>3, InfoChanged
<1>9. Promise!Expelled({}) = InfoNow
  BY <1>2 DEF AsItIs, Promise!Expelled
<1>10. Cardinality({}) = 0 /\ {} \in SUBSET files /\ Promise!OldestFiles({}, p)
  BY FS_EmptySet DEF Promise!OldestFiles
<1>12. InfoNow' = [Promise!Expelled({}) EXCEPT ![p] =
                     Promise!File(0, IF req[w].lock THEN c ELSE None, {c})]
  BY <1>7, <1>8, <1>9
<1> HIDE DEF p
<1>13. /\ {} \in SUBSET StoredNow
       /\ Cardinality({}) = IF Cardinality(StoredNow) = MaxFiles THEN 1 ELSE 0
       /\ Promise!OldestFiles({}, p)
       /\ StoredNow' = (StoredNow \ {}) \cup {p}
  BY <1>4, <1>5, <1>10
<1>14. p \notin StoredNow
  BY <1>1, <1>5
<1>15. Promise!BCreate(c, p, req[w].lock)
  BY <1>6, <1>12, <1>13, <1>14, CreateWith
<1> QED
  BY <1>15 DEF p

\* openFile with O_CREATE, in a full store.
LEMMA CreateExpellingMaps ==
    ASSUME AInv, AInv', NEW w \in Workers, CreateExpelling(w)
    PROVE  Promise!BCreate(client[w], req[w].path, req[w].lock)
<1> DEFINE p == req[w].path
           c == client[w]
           g == NewFile(c, req[w].lock)
<1>1. p \in Paths /\ p \notin files
  BY CreateExpellingStep DEF AInv
<1>2. AsItIs /\ AsItIs'
  BY SettledStep DEF CreateExpelling, Insert, Return
<1>3. PICK v \in files :
        /\ Oldest(v)
        /\ files' = (files \ {v}) \cup {p}
        /\ file' = [[file EXCEPT ![v] = Blank] EXCEPT ![p] = g]
        /\ last_use' = Stamp(Forget(last_use, v), p, files \ {v})
        /\ creation_time' = Stamp(Forget(creation_time, v), p, files \ {v})
  BY CreateExpellingStep DEF AInv
<1>4. Cardinality(files) = MaxFiles /\ Cardinality({v}) = 1
  BY FS_Singleton DEF CreateExpelling, AInv, SInv, AccountingExact
<1>5. StoredNow = files /\ StoredNow' = (files \ {v}) \cup {p} /\ AgeNow = PolicyOrder
  BY <1>2, <1>3 DEF AsItIs
<1>6. AgeNow' = Promise!Youngest(p, {v})
  <2>1. AgeNow' = Stamp(Forget(PolicyOrder, v), p, files \ {v})
    BY <1>2, <1>3 DEF AsItIs, PolicyOrder
  <2>2. \A e : e \in Stamp(Forget(PolicyOrder, v), p, files \ {v})
                 <=> e \in Promise!Youngest(p, {v})
    BY <1>5 DEF Stamp, Forget, Promise!Youngest, Promise!Without
  <2> QED
    BY <2>1, <2>2
<1>7. Promise!OldestFiles({v}, p)
  <2>1. \A q \in files : <<q, v>> \notin PolicyOrder
    BY <1>2, <1>3 DEF AsItIs, Oldest
  <2>2. Total2(PolicyOrder, files)
    BY DEF AInv, Ages, Ordered, PolicyOrder
  <2> QED
    BY <1>5, <2>1, <2>2 DEF Promise!OldestFiles, Total2
<1>8. Info(g) = Promise!File(0, IF req[w].lock THEN c ELSE None, {c})
  BY NewInfo
<1>9. Info(Blank) = Promise!NoInfo
  BY DEF Info, Blank, Promise!NoInfo, Promise!File
<1> HIDE DEF g
<1>10. InfoNow' = [Promise!Expelled({v}) EXCEPT ![p] = Info(g)]
  <2> HIDE DEF Info
  <2>1. /\ InfoNow = [q \in Paths |-> Info(file[q])]
        /\ InfoNow' = [q \in Paths |-> Info(file'[q])]
    BY <1>2 DEF AsItIs
  <2>2. /\ file'[p] = g /\ p # v /\ v \in Paths
        /\ file'[v] = Blank
        /\ \A q \in Paths : q # p /\ q # v => file'[q] = file[q]
    BY <1>1, <1>3 DEF AInv, SInv, TypeOK
  <2>3. Promise!Expelled({v}) = [q \in Paths |-> IF q = v THEN Promise!NoInfo ELSE Info(file[q])]
    BY <2>1 DEF Promise!Expelled
  <2> QED
    BY <1>9, <2>1, <2>2, <2>3
<1>11. {v} \in SUBSET files
  OBVIOUS
<1>12. InfoNow' = [Promise!Expelled({v}) EXCEPT ![p] =
                     Promise!File(0, IF req[w].lock THEN c ELSE None, {c})]
  BY <1>8, <1>10
<1> HIDE DEF p
<1>13. /\ {v} \in SUBSET StoredNow
       /\ Cardinality({v}) = IF Cardinality(StoredNow) = MaxFiles THEN 1 ELSE 0
       /\ Promise!OldestFiles({v}, p)
       /\ StoredNow' = (StoredNow \ {v}) \cup {p}
  BY <1>4, <1>5, <1>7, <1>11
<1>14. p \notin StoredNow
  BY <1>1, <1>5
<1>15. Promise!BCreate(c, p, req[w].lock)
  BY <1>6, <1>12, <1>13, <1>14, CreateWith
<1> QED
  BY <1>15 DEF p

-----------------------------------------------------------------------------
\* The bytes that BoundedStore counts, in a settled store.
LEMMA PromisedTotal ==
    ASSUME AInv, AsItIs, NEW F \in SUBSET files
    PROVE  Promise!Total(files \ F) = curr_state.space - Weight(F, file)
<1>1. InfoNow = [p \in Paths |-> Info(file[p])] /\ files \in SUBSET Paths
  BY DEF AsItIs, AInv, SInv, TypeOK
<1>2. \A p \in files \ F : InfoNow[p].size = file[p].size
  BY <1>1 DEF Info
<1>3. Weight(files \ F, InfoNow) = Weight(files \ F, file)
  BY <1>2, WeightSame
<1>4. Weight(files \ F, file) = Weight(files, file) - Weight(F, file)
  BY <1>1, WeightRest
<1>5. Promise!Total(files \ F) = Weight(files \ F, InfoNow)
  BY SameCardinality DEF Promise!Total, Weight, BytesOf
<1> QED
  BY <1>3, <1>4, <1>5, AllBytes

\* What a write or an append changes, whether or not it has to expel files.
LEMMA GrowStep ==
    ASSUME AInv, AInv', NEW w \in Workers, GrowGranted(w), NEW p, p = req[w].path,
           NEW n, n = req[w].size
    PROVE  /\ p \in files /\ p \in Paths /\ n \in Nat /\ n \in Sizes
           /\ AsItIs
           /\ files' = files /\ last_use' = Stamp(last_use, p, files)
           /\ creation_time' = creation_time /\ req' = req
           /\ \A q \in Paths \ {p} : file'[q] = file[q]
           /\ file'[p].size = file[p].size + n
           /\ file'[p].fd_lock = file[p].fd_lock /\ file'[p].fd_open = file[p].fd_open
           /\ \/ /\ pc'[w] = "expelling"
                 /\ Missing' = (curr_state.space + n) - MaxSpace
              \/ /\ AsItIs'
                 /\ curr_state.space + n <= MaxSpace
<1>1. pc[w] = "locked" /\ req[w].op \in {"write", "append"} /\ Grows(w) /\ Grow(w, n)
  BY DEF GrowGranted, Grows
<1>2. p \in files /\ p \in Paths /\ file[p] \in FileT /\ n \in Nat
  BY <1>1, LockedFile DEF AInv, Grows
<1>3. n \in Sizes
  BY <1>1 DEF AInv, Carries, InMutex
<1>4. /\ files' = files /\ last_use' = Stamp(last_use, p, files)
      /\ creation_time' = creation_time /\ req' = req
  BY <1>1 DEF Grow
<1>5. /\ \A q \in Paths \ {p} : file'[q] = file[q]
      /\ file'[p].size = file[p].size + n
  BY <1>1, GrowFile DEF AInv
<1>6. file'[p].fd_lock = file[p].fd_lock /\ file'[p].fd_open = file[p].fd_open
  <2>1. CASE file' = [file EXCEPT ![p].size = @ + n, ![p].can_be_expelled = FALSE]
    BY <1>2, <2>1 DEF AInv, SInv, TypeOK, FileT
  <2>2. CASE file' = [file EXCEPT ![p] = Grown(WriterUnlocked(@), n)]
    <3>1. file'[p] = Grown(WriterUnlocked(file[p]), n)
      BY <1>2, <2>2 DEF AInv, SInv, TypeOK
    <3> QED
      BY <1>2, <3>1 DEF Grown, WriterUnlocked, FileT
  <2> QED
    BY <1>1, <2>1, <2>2 DEF Grow
<1>7. AsItIs
  <2>1. Settled
    BY <1>1, AloneInMutex DEF AInv, InMutex, Settled
  <2> QED
    BY <2>1, SettledNow
<1>8. CASE /\ pc' = [pc EXCEPT ![w] = "expelling"]
           /\ size_to_free' = (curr_state.space + n) - MaxSpace
           /\ freed' = 0
  <2>1. pc'[w] = "expelling"
    BY <1>8 DEF AInv, SInv, TypeOK
  <2>2. Missing' = (curr_state.space + n) - MaxSpace
    BY <1>2, <1>8, StoreAssumption DEF Missing, AInv, SInv, TypeOK
  <2> QED
    BY <1>2, <1>3, <1>4, <1>5, <1>6, <1>7, <2>1, <2>2
<1>9. CASE /\ pc' = [pc EXCEPT ![w] = "sending"]
           /\ curr_state.space + n <= MaxSpace
  <2>1. AsItIs'
    BY <1>1, <1>9, SettledStep
  <2> QED
    BY <1>2, <1>3, <1>4, <1>5, <1>6, <1>7, <1>9, <2>1
<1>10. \/ /\ pc' = [pc EXCEPT ![w] = "expelling"]
          /\ size_to_free' = (curr_state.space + n) - MaxSpace
          /\ freed' = 0
       \/ /\ pc' = [pc EXCEPT ![w] = "sending"]
          /\ curr_state.space + n <= MaxSpace
  BY <1>1 DEF Grow
<1> QED
  BY <1>8, <1>9, <1>10

\* What BoundedStore sees of the store when p has grown and the files in E are gone.
LEMMA GrownInfo ==
    ASSUME AInv, AsItIs, NEW p \in files, NEW E \in SUBSET (files \ {p}), NEW n,
           StoredNow' = files \ E, \A q \in Paths \ {p} : file'[q] = file[q],
           file'[p].size = file[p].size + n,
           file'[p].fd_lock = file[p].fd_lock, file'[p].fd_open = file[p].fd_open
    PROVE  InfoNow' = [Promise!Expelled(E) EXCEPT ![p] =
                          Promise!File(InfoNow[p].size + n, InfoNow[p].locker, InfoNow[p].openers)]
<1> DEFINE g == Promise!File(InfoNow[p].size + n, InfoNow[p].locker, InfoNow[p].openers)
<1>1. InfoNow = [q \in Paths |-> Info(file[q])] /\ p \in Paths
  BY DEF AsItIs, AInv, SInv, TypeOK
<1>2. Info(file'[p]) = g
  BY <1>1 DEF Info, Promise!File
<1>3. Promise!Expelled(E) = [q \in Paths |-> IF q \in E THEN Promise!NoInfo ELSE InfoNow[q]]
  BY DEF Promise!Expelled
<1>4. InfoNow' = [q \in Paths |-> IF q \in files \ E THEN Info(file'[q]) ELSE Promise!NoInfo]
  BY DEF InfoNow, Info, Promise!NoInfo, Promise!File
<1>5. \A q \in Paths \ files : InfoNow[q] = Promise!NoInfo
  BY DEF AsItIs, InfoNow, Promise!NoInfo, Promise!File
<1> HIDE DEF Info, g
<1> QED
  BY <1>1, <1>2, <1>3, <1>4, <1>5 DEF g

\* A growth of BoundedStore that expels the files in E.
LEMMA GrowWith ==
    ASSUME NEW c, NEW p \in StoredNow, NEW n, NEW E \in SUBSET (StoredNow \ {p}),
           StoredNow \in SUBSET Paths, c \in InfoNow[p].openers, InfoNow[p].size + n <= MaxSpace,
           Promise!MakesRoom(E, p, n),
           \A F \in SUBSET (StoredNow \ {p}) : Promise!MakesRoom(F, p, n) => E \subseteq F,
           StoredNow' = StoredNow \ E,
           InfoNow' = [Promise!Expelled(E) EXCEPT ![p] =
                          Promise!File(InfoNow[p].size + n, InfoNow[p].locker, InfoNow[p].openers)],
           AgeNow' = Promise!Used(p, E)
    PROVE  Promise!BGrow(c, p, n)
<1>1. Promise!Expelled(E)[p] = InfoNow[p]
  BY DEF Promise!Expelled
<1>2. InfoNow' = [Promise!Expelled(E) EXCEPT ![p] = Promise!File(@.size + n, @.locker, @.openers)]
  BY <1>1
<1> QED
  BY <1>2 DEF Promise!BGrow

\* writeFile and appendToFile: the shortest run of oldest files is doomed.
LEMMA GrowMaps ==
    ASSUME AInv, AInv', NEW w \in Workers, GrowGranted(w)
    PROVE  req[w].size \in Sizes /\ Promise!BGrow(client[w], req[w].path, req[w].size)
<1> DEFINE P == req[w].path
           N == req[w].size
<1> SUFFICES ASSUME NEW p, p = P, NEW n, n = N
             PROVE  n \in Sizes /\ Promise!BGrow(client[w], p, n)
  OBVIOUS
<1>1. /\ p \in files /\ p \in Paths /\ n \in Nat /\ n \in Sizes
      /\ AsItIs
      /\ files' = files /\ last_use' = Stamp(last_use, p, files)
      /\ creation_time' = creation_time /\ req' = req
      /\ \A q \in Paths \ {p} : file'[q] = file[q]
      /\ file'[p].size = file[p].size + n
      /\ file'[p].fd_lock = file[p].fd_lock /\ file'[p].fd_open = file[p].fd_open
  BY GrowStep
<1>2. \/ /\ pc'[w] = "expelling"
         /\ Missing' = (curr_state.space + n) - MaxSpace
      \/ /\ AsItIs'
         /\ curr_state.space + n <= MaxSpace
  BY GrowStep
<1>3. StoredNow = files /\ AgeNow = PolicyOrder /\ InfoNow[p] = Info(file[p])
      /\ files \in SUBSET Paths
  BY <1>1 DEF AsItIs, AInv, SInv, TypeOK
<1>4. client[w] \in InfoNow[p].openers /\ InfoNow[p].size + n <= MaxSpace
  BY <1>3 DEF Info, GrowGranted, Grows
<1>5. \A F \in SUBSET (files \ {p}) :
        Promise!MakesRoom(F, p, n) <=>
          /\ \A e \in F, q \in (files \ {p}) \ F : <<e, q>> \in PolicyOrder
          /\ Weight(F, file) >= (curr_state.space + n) - MaxSpace
  <2> SUFFICES ASSUME NEW F \in SUBSET (files \ {p})
               PROVE  Promise!MakesRoom(F, p, n) <=>
                        /\ \A e \in F, q \in (files \ {p}) \ F : <<e, q>> \in PolicyOrder
                        /\ Weight(F, file) >= (curr_state.space + n) - MaxSpace
    OBVIOUS
  <2>1. Promise!Total(StoredNow \ F) = curr_state.space - Weight(F, file)
    BY <1>1, <1>3, PromisedTotal
  <2>2. curr_state.space \in Nat /\ MaxSpace \in Nat /\ Weight(F, file) \in Nat
    BY <1>3, WeightFinite, StoreAssumption DEF AInv, SInv, TypeOK
  <2>3. Promise!Total(StoredNow \ F) + n <= MaxSpace
          <=> Weight(F, file) >= (curr_state.space + n) - MaxSpace
    BY <1>1, <2>1, <2>2
  <2>4. Promise!OldestFiles(F, p)
          <=> \A e \in F, q \in (files \ {p}) \ F : <<e, q>> \in PolicyOrder
    BY <1>3 DEF Promise!OldestFiles
  <2> QED
    BY <2>3, <2>4 DEF Promise!MakesRoom
<1>6. ASSUME NEW E \in SUBSET (files \ {p}), StoredNow' = files \ E,
             Promise!MakesRoom(E, p, n),
             \A F \in SUBSET (files \ {p}) : Promise!MakesRoom(F, p, n) => E \subseteq F
      PROVE  Promise!BGrow(client[w], p, n)
  <2>1. InfoNow' = [Promise!Expelled(E) EXCEPT ![p] =
                      Promise!File(InfoNow[p].size + n, InfoNow[p].locker, InfoNow[p].openers)]
    BY <1>1, <1>6, GrownInfo
  <2>2. AgeNow' = Promise!Used(p, E)
    <3>1. AgeNow' = {e \in PolicyOrder' : e[1] \in files \ E /\ e[2] \in files \ E}
      BY <1>6 DEF AgeNow
    <3> QED
      BY <1>1, <3>1, AgeUsed
  <2> QED
    BY <1>1, <1>3, <1>4, <1>6, <2>1, <2>2, GrowWith
<1>7. CASE AsItIs' /\ curr_state.space + n <= MaxSpace
  <2>1. StoredNow' = files \ {}
    BY <1>1, <1>7 DEF AsItIs
  <2>2. Weight({}, file) >= (curr_state.space + n) - MaxSpace
    <3>1. curr_state.space \in Nat /\ MaxSpace \in Nat
      BY StoreAssumption DEF AInv, SInv, TypeOK
    <3> QED
      BY <1>1, <1>7, <3>1, WeightNone
  <2>3. Promise!MakesRoom({}, p, n)
    BY <1>5, <2>2
  <2> QED
    BY <1>1, <1>6, <2>1, <2>3
<1>8. CASE pc'[w] = "expelling" /\ Missing' = (curr_state.space + n) - MaxSpace
  <2> DEFINE X == files \ {p}
             m == (curr_state.space + n) - MaxSpace
             E == Doomed'
  <2>1. Dooms(w)'
    BY <1>8, DoomedNext DEF AllDoom
  <2>2. E \in SUBSET X /\ Shortest(E, X, PolicyOrder', file', m)
    BY <1>1, <1>8, <2>1 DEF Dooms
  <2>3. \A F \in SUBSET X : Weight(F, file') = Weight(F, file)
    BY <1>1, <1>3, WeightSame
  <2>4. \A a, b \in X : <<a, b>> \in PolicyOrder' <=> <<a, b>> \in PolicyOrder
    BY <1>1 DEF PolicyOrder, Stamp
  <2>5. \A F \in SUBSET X : RunOf(F, X, PolicyOrder', file', m) <=> Promise!MakesRoom(F, p, n)
    BY <1>5, <2>3, <2>4 DEF RunOf
  <2>6. Promise!MakesRoom(E, p, n)
        /\ \A F \in SUBSET X : Promise!MakesRoom(F, p, n) => E \subseteq F
    BY <2>2, <2>5 DEF Shortest
  <2>7. StoredNow' = files \ E
    BY <1>1 DEF StoredNow
  <2> QED
    BY <1>1, <1>6, <2>2, <2>6, <2>7
<1> QED
  BY <1>1, <1>2, <1>7, <1>8

-----------------------------------------------------------------------------
\* Both stores start empty.
LEMMA InitMaps == Init => Promise!BInit
<1> SUFFICES ASSUME Init PROVE Promise!BInit
  OBVIOUS
<1>1. AsItIs
  <2>1. Settled
    BY DEF Init, Settled
  <2> QED
    BY <2>1, InitAInv, SettledNow
<1>2. Info(Blank) = Promise!NoInfo
  BY DEF Info, Blank, Promise!NoInfo, Promise!File
<1>3. InfoNow = [p \in Paths |-> Promise!NoInfo]
  BY <1>1, <1>2 DEF AsItIs, Init
<1>4. StoredNow = {} /\ AgeNow = {}
  BY <1>1 DEF AsItIs, Init, PolicyOrder
<1> QED
  BY <1>3, <1>4 DEF Promise!BInit

\* A worker that handles a request has a client of the store, and a path.
LEMMA Asked ==
    ASSUME AInv, NEW w \in Workers, pc[w] \in {"critical", "locked"}
    PROVE  client[w] \in Clients /\ req[w] \in Requests
  BY DEF AInv, SInv, Requested, Knows, InMutex

\* Every step of FileStore is a step of BoundedStore or changes nothing there.
LEMMA StepMaps ==
    ASSUME MaxFiles > 0
    PROVE  AInv /\ AInv' /\ [Next]_vars => [Promise!BNext]_(Promise!bvars)
<1> SUFFICES ASSUME AInv, AInv', [Next]_vars
             PROVE  Promise!BNext \/ UNCHANGED Promise!bvars
  OBVIOUS
<1>1. ASSUME BSame PROVE UNCHANGED Promise!bvars
  BY <1>1 DEF BSame, Promise!bvars
<1>2. CASE Unseen
  BY <1>1, <1>2, UnseenMaps
<1>3. CASE ForgetFiles
  BY <1>3, ForgetMaps DEF Promise!BNext
<1>4. ASSUME NEW w \in Workers, Visible(w)
      PROVE  Promise!BNext \/ UNCHANGED Promise!bvars
  <2> DEFINE c == client[w]
             p == req[w].path
  <2>1. CASE ExpellOne(w) \/ ExpellDone(w)
    BY <1>1, <2>1, ExpellOneMaps, ExpellDoneMaps
  <2>2. CASE OpenGranted(w)
    <3>1. c \in Clients /\ p \in Paths /\ req[w].lock \in BOOLEAN
      BY <2>2, Asked, LockedFile, RequestLock DEF OpenGranted, AInv
    <3>2. Promise!BOpen(c, p, req[w].lock)
      BY <2>2, OpenMaps
    <3> QED
      BY <3>1, <3>2 DEF Promise!BNext
  <2>3. CASE Close(w)
    <3>1. c \in Clients /\ p \in Paths
      BY <2>3, Asked, LockedFile DEF Close, AInv
    <3>2. Promise!BClose(c, {p})
      BY <2>3, CloseMaps
    <3> QED
      BY <3>1, <3>2 DEF Promise!BNext
  <2>4. CASE ReadGranted(w)
    <3>1. c \in Clients /\ p \in Paths
      BY <2>4, Asked, LockedFile DEF ReadGranted, AInv
    <3>2. Promise!BRead(c, p)
      BY <2>4, ReadMaps
    <3> QED
      BY <3>1, <3>2 DEF Promise!BNext
  <2>5. CASE Create(w) \/ CreateExpelling(w)
    <3>1. c \in Clients /\ p \in Paths /\ req[w].lock \in BOOLEAN
      <4>1. c \in Clients /\ req[w] \in Requests /\ req[w].op = "open"
        BY <2>5, Asked DEF Create, CreateExpelling, IsCreate
      <4>2. p \in Paths
        BY <2>5, CreateEffect, CreateExpellingStep DEF AInv
      <4> QED
        BY <4>1, <4>2, RequestLock
    <3>2. Promise!BCreate(c, p, req[w].lock)
      BY <2>5, CreateMaps, CreateExpellingMaps
    <3> QED
      BY <3>1, <3>2 DEF Promise!BNext
  <2>6. CASE GrowGranted(w)
    <3>1. c \in Clients /\ p \in Paths
      BY <2>6, Asked, LockedFile DEF GrowGranted, Grows, AInv
    <3>2. req[w].size \in Sizes /\ Promise!BGrow(c, p, req[w].size)
      BY <2>6, GrowMaps
    <3> QED
      BY <3>1, <3>2 DEF Promise!BNext
  <2>7. CASE Removes(w)
    <3>1. c \in Clients /\ p \in Paths
      BY <2>7, Asked, LockedFile DEF Removes, AInv
    <3>2. Promise!BRemove(c, p)
      BY <2>7, RemoveMaps
    <3> QED
      BY <3>1, <3>2 DEF Promise!BNext
  <2> QED
    BY <1>4, <2>1, <2>2, <2>3, <2>4, <2>5, <2>6, <2>7 DEF Visible
<1> QED
  BY <1>2, <1>3, <1>4, StepVisible DEF AInv

(***************************************************************************)
(* The handlers of server.c and files.c, interleaved and with their        *)
(* evictions file by file, implement the atomic requests of BoundedStore,  *)
(* for any number of workers, clients and paths, any limits and both       *)
(* policies, provided that the server may store a file at all.             *)
(***************************************************************************)
THEOREM Refinement == ASSUME MaxFiles > 0 PROVE Safety => Implements
<1>1. AInv /\ AInv' /\ [Next]_vars => [Promise!BNext]_(Promise!bvars)
  BY StepMaps
<1> QED
  BY InitMaps, <1>1, AgeInvariant, PTL DEF Safety, Implements, Promise!BSpec

=============================================================================
