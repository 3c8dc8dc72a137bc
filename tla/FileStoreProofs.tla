-------------------------- MODULE FileStoreProofs ---------------------------
(***************************************************************************)
(* Proofs about the file store, for any finite sets of paths and workers,  *)
(* any clients, any limits and both policies.                              *)
(***************************************************************************)
EXTENDS FileStore, FiniteSetTheorems, TLAPS

InMutex == {"critical", "locked", "expelling"}

(***************************************************************************)
(* Who owns files_mtx is determined by where the threads are.              *)
(***************************************************************************)
Owners == /\ \A w \in Workers : files_mtx = w <=> pc[w] \in InMutex
          /\ files_mtx = Main <=> main_client # None

(***************************************************************************)
(* What a worker knows of its client, its request and its file.            *)
(***************************************************************************)
Knows(w) ==
    /\ pc[w] # "idle" => client[w] \in Clients
    /\ pc[w] \in InMutex \cup {"sending", "unlocking"} => req[w] \in Requests
    /\ pc[w] = "locked" => LooksUp(req[w])
    /\ pc[w] = "expelling" => req[w].op \in {"write", "append"}
    /\ pc[w] \in {"locked", "expelling"} => req[w].path \in files
    /\ reading[w] # {} => pc[w] \in {"sending", "unlocking"} /\ IsRead(req[w])
Requested == \A w \in Workers : Knows(w)

\* w holds the writer lock of p; w makes room for p.
Writes(w, p) == pc[w] \in {"locked", "expelling"} /\ req[w].op # "read" /\ req[w].path = p
Evicts(w, p) == pc[w] = "expelling" /\ req[w].path = p

(***************************************************************************)
(* The writer lock and can_be_expelled are what the owner of files_mtx     *)
(* made them.                                                              *)
(***************************************************************************)
WriterLocks == \A p \in files :
    /\ \A w \in Workers : Writes(w, p) => file[p].n_writers = 1 /\ file[p].n_readers = 0
    /\ (\A w \in Workers : ~Writes(w, p)) => file[p].n_writers = 0
    /\ file[p].can_be_expelled <=> \A w \in Workers : ~Evicts(w, p)

\* The workers that hold the reader lock of p.
Reads(w, p) == \/ p \in reading[w]
               \/ pc[w] = "locked" /\ req[w].op = "read" /\ req[w].path = p
Holders(p) == {w \in Workers : Reads(w, p)}

(***************************************************************************)
(* A file that is being read is stored and counts its readers; when writes *)
(* to clients fail it may count more, those that returned without          *)
(* unlocking it.                                                           *)
(***************************************************************************)
Counted(p) == /\ Holders(p) # {} => p \in files
              /\ p \in files => file[p].n_readers >= Cardinality(Holders(p))
              /\ p \in files /\ ~SendFailures => file[p].n_readers = Cardinality(Holders(p))
ReaderLocks == \A p \in Paths : Counted(p)

(***************************************************************************)
(* No file is larger than the store; only while files are being expelled   *)
(* is the store over its limit, by what is still to be freed.              *)
(***************************************************************************)
Room == /\ \A p \in files : file[p].size <= MaxSpace
        /\ curr_state.max_space <= MaxSpace
        /\ \A w \in Workers : pc[w] = "expelling" =>
                curr_state.space + freed = MaxSpace + size_to_free
        /\ (\A w \in Workers : pc[w] # "expelling") => curr_state.space <= curr_state.max_space

SInv == TypeOK /\ Owners /\ Requested /\ WriterLocks /\ ReaderLocks /\ Room /\ AccountingExact

-----------------------------------------------------------------------------
\* Every request has an operation, and all but readNFiles a path.
LEMMA RequestPath ==
    ASSUME NEW r \in Requests
    PROVE  /\ r.op # "read_n" => r.path \in Paths
           /\ r.op \in {"open", "close", "read", "remove", "write", "append", "read_n"}
  BY DEF Requests, OpenRequests, PathRequests, DataRequests, CountRequests

\* A write or an append carries a number of bytes.
LEMMA RequestSize ==
    ASSUME NEW r \in Requests, r.op \in {"write", "append"}
    PROVE  r.size \in Nat
<1>1. Sizes \cup {0} \subseteq Nat
  BY StoreAssumption
<1>2. r \in DataRequests
  BY DEF Requests, OpenRequests, PathRequests, DataRequests, CountRequests
<1>3. r.size \in Sizes \cup {0}
  BY <1>2 DEF DataRequests
<1> QED
  BY <1>1, <1>3

\* Files that differ in one field are files.
LEMMA FileFields ==
    ASSUME NEW f \in FileT
    PROVE  /\ \A n \in Nat : /\ [f EXCEPT !.n_readers = n] \in FileT
                             /\ [f EXCEPT !.n_writers = n] \in FileT
                             /\ [f EXCEPT !.size = n] \in FileT
           /\ \A b \in BOOLEAN : [f EXCEPT !.can_be_expelled = b] \in FileT
           /\ \A c \in Clients \cup {None} : [f EXCEPT !.fd_lock = c] \in FileT
           /\ \A S \in SUBSET Clients : [f EXCEPT !.fd_open = S] \in FileT
           /\ f.n_readers \in Nat /\ f.n_writers \in Nat /\ f.size \in Nat
           /\ f.can_be_expelled \in BOOLEAN
           /\ f.fd_lock \in Clients \cup {None}
           /\ f.fd_open \in SUBSET Clients
  BY DEF FileT

\* A path that is not in the map has the blank file.
LEMMA BlankType == Blank \in FileT
  BY DEF Blank, FileT

\* The result of a refused request.
LEMMA ErrorCodes ==
    ASSUME NEW f, NEW c, NEW n
    PROVE  /\ WriteError(f, c, n) \in Results \cup {None}
           /\ AppendError(f, c, n) \in Results \cup {None}
           /\ RemoveError(f, c) \in Results \cup {None}
  BY DEF WriteError, AppendError, RemoveError, Results

\* The holders of a reader lock are finitely many, and counted.
LEMMA HoldersFinite ==
    ASSUME NEW p
    PROVE  /\ IsFiniteSet(Holders(p))
           /\ Cardinality(Holders(p)) \in Nat
           /\ Cardinality(Holders(p)) = 0 <=> Holders(p) = {}
<1>1. IsFiniteSet(Holders(p))
  BY StoreAssumption, FS_Subset DEF Holders
<1> QED
  BY <1>1, FS_CardinalityType, FS_EmptySet

\* A worker that holds a reader lock makes n_readers positive.
LEMMA HolderCounted ==
    ASSUME TypeOK, ReaderLocks, NEW w \in Workers, NEW p \in Paths, Reads(w, p)
    PROVE  p \in files /\ file[p].n_readers > 0
<1>1. w \in Holders(p)
  BY DEF Holders
<1>2. Cardinality(Holders(p)) \in Nat \ {0}
  BY <1>1, HoldersFinite
<1>3. p \in files /\ file[p].n_readers >= Cardinality(Holders(p))
  BY <1>1 DEF ReaderLocks, Counted
<1>4. file[p].n_readers \in Nat
  BY FileFields DEF TypeOK
<1> QED
  BY <1>2, <1>3, <1>4

\* What a worker that holds the lock of its file finds there.
LEMMA LockedFile ==
    ASSUME SInv, NEW w \in Workers, pc[w] \in {"locked", "expelling"}
    PROVE  /\ req[w] \in Requests
           /\ req[w].path \in files /\ req[w].path \in Paths
           /\ file[req[w].path] \in FileT
           /\ client[w] \in Clients
           /\ req[w].op # "read" => /\ file[req[w].path].n_writers = 1
                                    /\ file[req[w].path].n_readers = 0
           /\ req[w].op = "read" => file[req[w].path].n_readers > 0
<1> USE DEF SInv
<1>1. req[w] \in Requests /\ req[w].path \in files /\ client[w] \in Clients
  BY DEF Requested, Knows, InMutex
<1>2. req[w].path \in Paths /\ file[req[w].path] \in FileT
  BY <1>1 DEF TypeOK
<1>3. req[w].op # "read" => /\ file[req[w].path].n_writers = 1
                            /\ file[req[w].path].n_readers = 0
  BY <1>1 DEF WriterLocks, Writes
<1>4. ASSUME req[w].op = "read" PROVE file[req[w].path].n_readers > 0
  <2>1. pc[w] = "locked"
    BY <1>4 DEF Requested, Knows
  <2>2. Reads(w, req[w].path)
    BY <2>1, <1>4 DEF Reads
  <2> QED
    BY <2>2, <1>2, HolderCounted
<1> QED
  BY <1>1, <1>2, <1>3, <1>4

-----------------------------------------------------------------------------
\* The bytes of the store are finitely many.
LEMMA BytesFinite ==
    /\ IsFiniteSet(Bytes)
    /\ Cardinality(Bytes) \in Nat
<1>1. IsFiniteSet(1 .. MaxSpace)
  BY FS_Interval, StoreAssumption
<1>2. IsFiniteSet(Paths \X (1 .. MaxSpace))
  BY <1>1, FS_Product, StoreAssumption
<1>3. IsFiniteSet(Bytes)
  BY <1>2, FS_Subset DEF Bytes
<1> QED
  BY <1>3, FS_CardinalityType

\* How many bytes there are from a to b.
LEMMA Segment ==
    ASSUME NEW p, NEW a \in Nat, NEW b \in Nat, a <= b + 1
    PROVE  /\ IsFiniteSet({p} \X (a .. b))
           /\ Cardinality({p} \X (a .. b)) = b - a + 1
<1>1. a \in Int /\ b \in Int
  OBVIOUS
<1>2. /\ IsFiniteSet(a .. b)
      /\ Cardinality(a .. b) = IF a > b THEN 0 ELSE b - a + 1
  BY <1>1, FS_Interval
<1>3. Cardinality(a .. b) = b - a + 1 /\ b - a + 1 \in Nat
  BY <1>2
<1>4. IsFiniteSet({p}) /\ Cardinality({p}) = 1
  BY FS_Singleton
<1>5. /\ IsFiniteSet({p} \X (a .. b))
      /\ Cardinality({p} \X (a .. b)) = Cardinality({p}) * Cardinality(a .. b)
  BY <1>2, <1>4, FS_Product
<1>6. \A n \in Nat : 1 * n = n
  OBVIOUS
<1> QED
  BY <1>3, <1>4, <1>5, <1>6

\* A stored file accounts for one file and for its size.
LEMMA FileAccounted ==
    ASSUME SInv, NEW p \in files
    PROVE  /\ curr_state.files - 1 \in Nat
           /\ curr_state.space - file[p].size \in Nat
           /\ file[p].size \in Nat
           /\ {p} \X (1 .. file[p].size) \subseteq Bytes
           /\ IsFiniteSet({p} \X (1 .. file[p].size))
           /\ Cardinality({p} \X (1 .. file[p].size)) = file[p].size
<1> USE DEF SInv
<1>1. p \in Paths /\ file[p].size \in Nat /\ file[p].size <= MaxSpace
  BY FileFields DEF TypeOK, Room
<1>2. {p} \X (1 .. file[p].size) \subseteq Bytes
  BY <1>1, StoreAssumption DEF Bytes
<1>3. /\ IsFiniteSet({p} \X (1 .. file[p].size))
      /\ Cardinality({p} \X (1 .. file[p].size)) = file[p].size
  BY <1>1, Segment
<1>4. file[p].size <= Cardinality(Bytes)
  BY <1>2, <1>3, BytesFinite, FS_Subset
<1>5. curr_state.space - file[p].size \in Nat
  BY <1>1, <1>4, BytesFinite DEF AccountingExact
<1>6. IsFiniteSet(files) /\ Cardinality(files) \in Nat \ {0}
  BY FS_Subset, FS_EmptySet, FS_CardinalityType, StoreAssumption DEF TypeOK
<1> QED
  BY <1>1, <1>2, <1>3, <1>5, <1>6 DEF AccountingExact

-----------------------------------------------------------------------------
\* file_writer_unlock changes n_writers only.
LEMMA UnlockedFile ==
    ASSUME NEW f \in FileT, f.n_writers = 1
    PROVE  /\ WriterUnlocked(f) \in FileT
           /\ WriterUnlocked(f).n_writers = 0
           /\ WriterUnlocked(f).n_readers = f.n_readers
           /\ WriterUnlocked(f).size = f.size
           /\ WriterUnlocked(f).can_be_expelled = f.can_be_expelled
           /\ WriterUnlocked(f).fd_lock = f.fd_lock
           /\ WriterUnlocked(f).fd_open = f.fd_open
<1>1. f.n_writers - 1 = 0
  OBVIOUS
<1>2. WriterUnlocked(f) = [f EXCEPT !.n_writers = 0]
  BY <1>1 DEF WriterUnlocked
<1> QED
  BY <1>2 DEF FileT

\* A change of one stored file.
LEMMA OneFileChanged ==
    ASSUME TypeOK, NEW p \in files, NEW f \in FileT, file' = [file EXCEPT ![p] = f]
    PROVE  /\ file' \in [Paths -> FileT]
           /\ \A q \in Paths \ files : file'[q] = Blank
           /\ file'[p] = f
           /\ \A q \in Paths : q # p => file'[q] = file[q]
  BY DEF TypeOK

\* A new file and the statistics that count it.
LEMMA InsertTypeOK ==
    ASSUME SInv, NEW w \in Workers, pc[w] = "critical", IsCreate(req[w]),
           NEW kept \in SUBSET files, NEW f \in [Paths -> FileT],
           \A p \in Paths \ kept : f[p] = Blank,
           NEW state \in [files : Nat, space : Nat, max_files : Nat, max_space : Nat],
           Insert(w, kept, f, state),
           last_use' \subseteq Paths \X Paths, creation_time' \subseteq Paths \X Paths
    PROVE  TypeOK'
<1>1. req[w].path \in Paths /\ client[w] \in Clients
  BY RequestPath DEF SInv, Requested, Knows, InMutex, IsCreate
<1>2. NewFile(client[w], req[w].lock) \in FileT
  BY <1>1 DEF NewFile, FileT, Blank
<1>3. file' \in [Paths -> FileT] /\ \A p \in Paths \ files' : file'[p] = Blank
  BY <1>1, <1>2 DEF Insert
<1>4. files' \subseteq Paths
  BY <1>1 DEF Insert, SInv, TypeOK
<1>5. curr_state' \in [files : Nat, space : Nat, max_files : Nat, max_space : Nat]
  <2> DEFINE n == state.files + 1
             m == IF n > state.max_files THEN n ELSE state.max_files
  <2>1. n \in Nat /\ m \in Nat
    OBVIOUS
  <2>2. curr_state' = [state EXCEPT !.files = n, !.max_files = m]
    BY DEF Insert
  <2> HIDE DEF n, m
  <2> QED
    BY <2>1, <2>2
<1> QED
  BY <1>3, <1>4, <1>5 DEF Insert, Return, SInv, TypeOK, locals, loop, Results

\* A write or an append that is accepted.
Grows(w) ==
    /\ pc[w] = "locked" /\ req[w].op \in {"write", "append"}
    /\ req[w].size \in Nat
    /\ file[req[w].path].size + req[w].size <= MaxSpace
    /\ Grow(w, req[w].size)

\* What it does to the file: it ends the lock, or protects the file.
LEMMA GrowFile ==
    ASSUME SInv, NEW w \in Workers, Grows(w)
    PROVE  /\ file' \in [Paths -> FileT]
           /\ \A q \in Paths \ files : file'[q] = Blank
           /\ \A q \in Paths \ {req[w].path} : file'[q] = file[q]
           /\ req[w].size \in Nat
           /\ file'[req[w].path].size = file[req[w].path].size + req[w].size
           /\ file'[req[w].path].n_readers = file[req[w].path].n_readers
           /\ \/ /\ pc'[w] = "expelling"
                 /\ file'[req[w].path].n_writers = 1
                 /\ file'[req[w].path].can_be_expelled = FALSE
              \/ /\ pc'[w] = "sending"
                 /\ file'[req[w].path].n_writers = 0
                 /\ file'[req[w].path].can_be_expelled = file[req[w].path].can_be_expelled
<1> DEFINE p == req[w].path
           n == req[w].size
<1>1. /\ p \in files /\ p \in Paths
      /\ file[p] \in FileT /\ file[p].n_writers = 1
      /\ n \in Nat
  BY LockedFile DEF Grows
<1>2. file[p].size + n \in Nat
  BY <1>1, FileFields
<1>3. CASE /\ pc' = [pc EXCEPT ![w] = "expelling"]
           /\ file' = [file EXCEPT ![p].size = @ + n, ![p].can_be_expelled = FALSE]
  <2> DEFINE f == [file[p] EXCEPT !.size = file[p].size + n, !.can_be_expelled = FALSE]
  <2>1. /\ f \in FileT
        /\ f.size = file[p].size + n /\ f.can_be_expelled = FALSE
        /\ f.n_readers = file[p].n_readers /\ f.n_writers = file[p].n_writers
        /\ f.fd_open = file[p].fd_open /\ f.fd_lock = file[p].fd_lock
    BY <1>1, <1>2 DEF FileT
  <2>2. file' = [file EXCEPT ![p] = f]
    BY <1>1, <1>3 DEF SInv, TypeOK
  <2>3. pc'[w] = "expelling"
    BY <1>3 DEF SInv, TypeOK
  <2> HIDE DEF f
  <2> QED
    BY <1>1, <2>1, <2>2, <2>3, OneFileChanged DEF SInv
<1>4. CASE /\ pc' = [pc EXCEPT ![w] = "sending"]
           /\ file' = [file EXCEPT ![p] = Grown(WriterUnlocked(@), n)]
  <2> DEFINE g == WriterUnlocked(file[p])
             f == Grown(g, n)
  <2>1. /\ g \in FileT /\ g.n_writers = 0
        /\ g.n_readers = file[p].n_readers /\ g.size = file[p].size
        /\ g.can_be_expelled = file[p].can_be_expelled
        /\ g.fd_lock = file[p].fd_lock /\ g.fd_open = file[p].fd_open
    BY <1>1, UnlockedFile
  <2>2. file' = [file EXCEPT ![p] = f]
    BY <1>4
  <2>3. pc'[w] = "sending"
    BY <1>4 DEF SInv, TypeOK
  <2> HIDE DEF g
  <2>4. /\ f \in FileT
        /\ f.size = file[p].size + n /\ f.can_be_expelled = file[p].can_be_expelled
        /\ f.n_readers = file[p].n_readers /\ f.n_writers = 0
        /\ f.fd_open = file[p].fd_open /\ f.fd_lock = file[p].fd_lock
    BY <1>2, <2>1 DEF FileT, Grown
  <2> HIDE DEF f
  <2> QED
    BY <1>1, <2>2, <2>3, <2>4, OneFileChanged DEF SInv
<1> QED
  BY <1>3, <1>4 DEF Grows, Grow

\* A file that grows, whether or not others have to be expelled.
LEMMA GrowTypeOK ==
    ASSUME SInv, NEW w \in Workers, Grows(w)
    PROVE  TypeOK'
<1> DEFINE n == req[w].size
<1>1. req[w].path \in Paths /\ Grow(w, n) /\ n \in Nat
  BY LockedFile DEF Grows
<1>2. file' \in [Paths -> FileT] /\ \A p \in Paths \ files : file'[p] = Blank
  BY GrowFile
<1> HIDE DEF n
<1>3. curr_state.space + n \in Nat /\ MaxSpace \in Nat
  BY <1>1, StoreAssumption DEF SInv, TypeOK
<1>4. last_use' \subseteq Paths \X Paths
  BY <1>1 DEF Grow, Stamp, SInv, TypeOK
<1>5. CASE curr_state.space + n > MaxSpace
  <2>1. curr_state' \in [files : Nat, space : Nat, max_files : Nat, max_space : Nat]
    BY <1>1, <1>3, <1>5 DEF Grow, SInv, TypeOK
  <2>2. size_to_free' \in Nat /\ freed' \in Nat
    BY <1>1, <1>3, <1>5 DEF Grow
  <2> QED
    BY <2>1, <2>2, <1>1, <1>2, <1>4, <1>3, <1>5 DEF Grow, SInv, TypeOK, locals
<1>6. CASE curr_state.space + n <= MaxSpace
  <2>1. curr_state' \in [files : Nat, space : Nat, max_files : Nat, max_space : Nat]
    BY <1>1, <1>3, <1>6 DEF Grow, SpaceSettled, SInv, TypeOK
  <2> QED
    BY <2>1, <1>1, <1>2, <1>4, <1>3, <1>6 DEF Grow, SInv, TypeOK, locals, loop
<1> QED
  BY <1>3, <1>5, <1>6

\* open_file gives the writer lock back and remembers the client.
LEMMA OpenedFile ==
    ASSUME NEW f \in FileT, f.n_writers = 1, NEW c \in Clients, NEW lock, NEW g,
           g = Opened(WriterUnlocked(f), c, lock)
    PROVE  /\ g \in FileT
           /\ g.n_writers = 0 /\ g.n_readers = f.n_readers
           /\ g.size = f.size /\ g.can_be_expelled = f.can_be_expelled
  BY UnlockedFile DEF Opened, FileT

\* close_file and close_client change the rights only.
LEMMA ForgottenFile ==
    ASSUME NEW f \in FileT, NEW c, NEW g, g = ForgetClient(f, c)
    PROVE  /\ g \in FileT
           /\ g.n_writers = f.n_writers /\ g.n_readers = f.n_readers
           /\ g.size = f.size /\ g.can_be_expelled = f.can_be_expelled
  BY DEF ForgetClient, FileT

\* The end of an eviction.
LEMMA ReleasedFile ==
    ASSUME NEW f \in FileT, f.n_writers = 1, NEW g,
           g = [WriterUnlocked(f) EXCEPT !.can_be_expelled = TRUE]
    PROVE  /\ g \in FileT
           /\ g.n_writers = 0 /\ g.n_readers = f.n_readers
           /\ g.size = f.size /\ g.can_be_expelled = TRUE
  BY UnlockedFile DEF FileT

(***************************************************************************)
(* Most handlers end like this: the writer lock is given back, neither the *)
(* size nor can_be_expelled of the file is touched, files_mtx is released. *)
(***************************************************************************)
EndsWriter(w) ==
    /\ pc[w] = "locked" /\ req[w].op # "read"
    /\ \E f \in FileT : 
         /\ f.n_writers = 0 /\ f.n_readers = file[req[w].path].n_readers
         /\ f.size = file[req[w].path].size
         /\ f.can_be_expelled = file[req[w].path].can_be_expelled
         /\ file' = [file EXCEPT ![req[w].path] = f]
    /\ \E code \in Results : Return(w, code)
    /\ last_use' \subseteq Paths \X Paths
    /\ UNCHANGED <<files, creation_time, curr_state, conn, client, req, locals, loop,
                   main_client>>

\* Refuse ends a handler so.
LEMMA RefuseEnds ==
    ASSUME SInv, NEW w \in Workers, pc[w] = "locked", req[w].op # "read",
           NEW code \in Results, Refuse(w, code)
    PROVE  EndsWriter(w)
<1> DEFINE f == WriterUnlocked(file[req[w].path])
<1>1. /\ f \in FileT
      /\ f.n_writers = 0 /\ f.n_readers = file[req[w].path].n_readers
      /\ f.size = file[req[w].path].size
      /\ f.can_be_expelled = file[req[w].path].can_be_expelled
  BY LockedFile, UnlockedFile
<1>2. file' = [file EXCEPT ![req[w].path] = f]
  BY DEF Refuse
<1>3. last_use' \subseteq Paths \X Paths
  BY DEF Refuse, SInv, TypeOK
<1> HIDE DEF f
<1> QED
  BY <1>1, <1>2, <1>3 DEF Refuse, EndsWriter

\* open_file ends so, whether or not another client locks the file.
LEMMA OpenEnds ==
    ASSUME SInv, NEW w \in Workers, Open(w)
    PROVE  EndsWriter(w)
<1> DEFINE f == Opened(WriterUnlocked(file[req[w].path]), client[w], req[w].lock)
<1>1. pc[w] = "locked" /\ req[w].op # "read" /\ req[w].path \in Paths
  BY LockedFile DEF Open
<1>2. CASE Refuse(w, "ALREADY_LOCKED")
  BY <1>1, <1>2, RefuseEnds DEF Results
<1>3. CASE /\ file' = [file EXCEPT ![req[w].path] = f]
           /\ last_use' = Stamp(last_use, req[w].path, files)
           /\ Return(w, "SUCCESS")
           /\ UNCHANGED <<files, creation_time, curr_state, conn, client, req, locals,
                          loop, main_client>>
  <2>1. /\ f \in FileT
        /\ f.n_writers = 0 /\ f.n_readers = file[req[w].path].n_readers
        /\ f.size = file[req[w].path].size
        /\ f.can_be_expelled = file[req[w].path].can_be_expelled
    BY <1>1, LockedFile, OpenedFile
  <2>2. last_use' \subseteq Paths \X Paths
    BY <1>1, <1>3 DEF Stamp, SInv, TypeOK
  <2>3. "SUCCESS" \in Results
    BY DEF Results
  <2> HIDE DEF f
  <2> QED
    BY <1>1, <1>3, <2>1, <2>2, <2>3 DEF EndsWriter
<1> QED
  BY <1>2, <1>3 DEF Open

\* close_file ends so.
LEMMA CloseEnds ==
    ASSUME SInv, NEW w \in Workers, Close(w)
    PROVE  EndsWriter(w)
<1> DEFINE f == ForgetClient(WriterUnlocked(file[req[w].path]), client[w])
<1>1. pc[w] = "locked" /\ req[w].op # "read"
  BY DEF Close
<1>2. /\ f \in FileT
      /\ f.n_writers = 0 /\ f.n_readers = file[req[w].path].n_readers
      /\ f.size = file[req[w].path].size
      /\ f.can_be_expelled = file[req[w].path].can_be_expelled
  BY <1>1, LockedFile, UnlockedFile, ForgottenFile
<1>3. file' = [file EXCEPT ![req[w].path] = f]
  BY DEF Close
<1>4. "SUCCESS" \in Results /\ last_use' \subseteq Paths \X Paths
  BY DEF Close, Results, SInv, TypeOK
<1> HIDE DEF f
<1> QED
  BY <1>1, <1>2, <1>3, <1>4 DEF Close, EndsWriter

-----------------------------------------------------------------------------
(***************************************************************************)
(* The other kinds of steps, as far as the store and its locks go.  Still: *)
(* nothing happens to them.  Outside: a worker without files_mtx goes on.  *)
(* LeavesCritical: a handler gives up before it locks a file.  Selects:    *)
(* read_n_files.  Removes: a removeFile that is accepted.                  *)
(***************************************************************************)
Still == UNCHANGED <<files, file, curr_state, files_mtx, pc, client, req, reading, loop,
                     main_client>>

Outside(w) ==
    /\ pc[w] \notin InMutex /\ pc'[w] \notin InMutex
    /\ reading'[w] \subseteq reading[w]
    /\ ~SendFailures => reading'[w] = reading[w]
    /\ Knows(w)'
    /\ \A v \in Workers \ {w} : /\ pc'[v] = pc[v] /\ client'[v] = client[v]
                                /\ req'[v] = req[v] /\ reading'[v] = reading[v]
    /\ UNCHANGED <<files, file, curr_state, files_mtx, loop, main_client>>

LeavesCritical(w) ==
    /\ pc[w] = "critical"
    /\ \E code \in Results : Return(w, code)
    /\ UNCHANGED <<store, curr_state, conn, client, req, locals, loop, main_client>>

Selects(w) ==
    /\ pc[w] = "critical" /\ req[w].op = "read_n"
    /\ \E S \in SUBSET files :
         /\ file' = [p \in Paths |-> IF p \in S THEN [file[p] EXCEPT !.n_readers = @ + 1]
                                                ELSE file[p]]
         /\ reading' = [reading EXCEPT ![w] = S]
         /\ \A p \in S : file[p].n_writers = 0
    /\ files_mtx' = None
    /\ pc' = [pc EXCEPT ![w] = "sending"]
    /\ UNCHANGED <<files, last_use, creation_time, curr_state, conn, client, req, to_expell,
                   res, loop, main_client>>

Removes(w) ==
    /\ pc[w] = "locked" /\ req[w].op = "remove"
    /\ RemoveError(file[req[w].path], client[w]) = None
    /\ files' = files \ {req[w].path}
    /\ file' = [file EXCEPT ![req[w].path] = Blank]
    /\ last_use' = Forget(last_use, req[w].path)
    /\ creation_time' = Forget(creation_time, req[w].path)
    /\ curr_state' = [curr_state EXCEPT !.files = @ - 1,
                                        !.space = @ - file[req[w].path].size]
    /\ Return(w, "SUCCESS")
    /\ UNCHANGED <<conn, client, req, locals, loop, main_client>>

HandlerStep(w) == \/ LeavesCritical(w)
                  \/ LockFile(w)
                  \/ Create(w)
                  \/ CreateExpelling(w)
                  \/ EndsWriter(w)
                  \/ Read(w)
                  \/ Selects(w)
                  \/ Grows(w)
                  \/ ExpellOne(w)
                  \/ ExpellDone(w)
                  \/ Removes(w)
                  \/ UnlockReader(w)

\* The steps of a worker that owns no mutex.
LEMMA OutsideSteps ==
    ASSUME SInv, NEW w \in Workers,
           \/ \E c \in Clients : BadRequest(w, c) \/ \E p \in Paths : AppendNothing(w, c, p)
           \/ Send(w) \/ SendFails(w) \/ Answer(w)
    PROVE  Outside(w)
<1> USE DEF SInv, TypeOK, Outside, Knows, InMutex, Requested, IsRead, store, locals, loop
<1>1. ASSUME NEW c \in Clients, BadRequest(w, c) PROVE Outside(w)
  BY <1>1 DEF BadRequest
<1>2. ASSUME NEW c \in Clients, NEW p \in Paths, AppendNothing(w, c, p) PROVE Outside(w)
  <2>1. [op |-> "append", path |-> p, size |-> 0] \in Requests
    BY DEF Requests, DataRequests
  <2> QED
    BY <1>2, <2>1 DEF AppendNothing
<1>3. CASE Send(w)
  BY <1>3 DEF Send
<1>4. CASE SendFails(w)
  BY <1>4 DEF SendFails
<1>5. CASE Answer(w)
  BY <1>5 DEF Answer
<1> QED
  BY <1>1, <1>2, <1>3, <1>4, <1>5

\* write_file and append_to_file refuse a file that would not fit.
LEMMA WriteSteps ==
    ASSUME SInv, NEW w \in Workers, Write(w) \/ AppendTo(w)
    PROVE  EndsWriter(w) \/ Grows(w)
<1>1. pc[w] = "locked" /\ req[w].op \in {"write", "append"}
  BY DEF Write, AppendTo
<1>2. req[w] \in Requests /\ file[req[w].path] \in FileT
  BY <1>1, LockedFile
<1>3. req[w].size \in Nat /\ file[req[w].path].size \in Nat
  BY <1>1, <1>2, RequestSize, FileFields
<1> DEFINE f == file[req[w].path]
           n == req[w].size
<1>4. ASSUME NEW code, code \in Results \cup {None}, code # None, Refuse(w, code)
      PROVE  EndsWriter(w)
  BY <1>1, <1>4, RefuseEnds
<1>5. ASSUME f.size + n <= MaxSpace, Grow(w, n)
      PROVE  Grows(w)
  BY <1>1, <1>3, <1>5 DEF Grows
<1>6. WriteError(f, client[w], n) = None => f.size + n <= MaxSpace
  BY <1>3, StoreAssumption, f.size = 0 => f.size + n = n DEF WriteError, Results
<1>7. AppendError(f, client[w], n) = None => f.size + n <= MaxSpace
  BY <1>3, StoreAssumption DEF AppendError, Results
<1> HIDE DEF f, n
<1> QED
  BY <1>4, <1>5, <1>6, <1>7, ErrorCodes DEF Write, AppendTo, f, n

\* remove_file.
LEMMA RemoveSteps ==
    ASSUME SInv, NEW w \in Workers, Remove(w)
    PROVE  EndsWriter(w) \/ Removes(w)
<1>1. pc[w] = "locked" /\ req[w].op = "remove"
  BY DEF Remove
<1>2. ASSUME NEW code, code \in Results \cup {None}, code # None, Refuse(w, code)
      PROVE  EndsWriter(w)
  BY <1>1, <1>2, RefuseEnds
<1> QED
  BY <1>1, <1>2, ErrorCodes DEF Remove, Removes

\* Every step of a handler is of one of the kinds.
LEMMA HandlerKinds ==
    ASSUME SInv, NEW w \in Workers, Handler(w)
    PROVE  HandlerStep(w) \/ Send(w) \/ SendFails(w) \/ Answer(w)
<1>1. ASSUME FileMissing(w) PROVE LeavesCritical(w)
  <2>1. (IF req[w].op = "remove" THEN "SUCCESS" ELSE "NO_FILE") \in Results
    BY DEF Results
  <2> QED
    BY <1>1, <2>1 DEF FileMissing, LeavesCritical
<1>2. ASSUME CreateExists(w) PROVE LeavesCritical(w)
  BY <1>2 DEF CreateExists, LeavesCritical, Results
<1>3. ASSUME ReadN(w) PROVE LeavesCritical(w) \/ Selects(w)
  BY <1>3 DEF ReadN, LeavesCritical, Selects, Selected, Results, store, locals
<1> QED
  BY <1>1, <1>2, <1>3, OpenEnds, CloseEnds, WriteSteps, RemoveSteps DEF Handler, HandlerStep

\* Every step is of one of the kinds.
LEMMA StepKinds ==
    ASSUME SInv, [Next]_vars
    PROVE  \/ Still
           \/ \E w \in Workers : \/ Outside(w)
                                 \/ \E c \in Clients, r \in Requests : LockFiles(w, c, r)
                                 \/ HandlerStep(w)
           \/ \E c \in Clients : CloseClient(c)
           \/ ForgetFiles
<1>1. CASE UNCHANGED vars
  BY <1>1 DEF vars, Still, loop
<1>2. ASSUME NEW c \in Clients, Connect(c) PROVE Still
  BY <1>2 DEF Connect, Still, store, locals, loop
<1>3. ASSUME NEW w \in Workers, NEW c \in Clients, Disconnect(w, c) PROVE Still
  BY <1>3 DEF Disconnect, Still, store, locals, loop
<1>4. ASSUME NEW w \in Workers, NewRequest(w)
      PROVE  Still \/ Outside(w) \/ \E c \in Clients, r \in Requests : LockFiles(w, c, r)
  BY <1>3, <1>4, OutsideSteps DEF NewRequest
<1>5. ASSUME NEW w \in Workers, Handler(w) PROVE Outside(w) \/ HandlerStep(w)
  BY <1>5, OutsideSteps, HandlerKinds
<1> QED
  BY <1>1, <1>2, <1>4, <1>5 DEF Next

-----------------------------------------------------------------------------
\* Deleting a stored file leaves the types.
LEMMA DeletedFile ==
    ASSUME SInv, NEW v \in files
    PROVE  /\ [file EXCEPT ![v] = Blank] \in [Paths -> FileT]
           /\ \A p \in Paths \ (files \ {v}) : [file EXCEPT ![v] = Blank][p] = Blank
           /\ [curr_state EXCEPT !.files = @ - 1, !.space = @ - file[v].size]
                 \in [files : Nat, space : Nat, max_files : Nat, max_space : Nat]
           /\ Forget(last_use, v) \subseteq Paths \X Paths
           /\ Forget(creation_time, v) \subseteq Paths \X Paths
<1>1. curr_state.files - 1 \in Nat /\ curr_state.space - file[v].size \in Nat
  BY FileAccounted
<1>2. [curr_state EXCEPT !.files = @ - 1, !.space = @ - file[v].size]
         \in [files : Nat, space : Nat, max_files : Nat, max_space : Nat]
  BY <1>1 DEF SInv, TypeOK
<1> QED
  BY <1>2, BlankType DEF SInv, TypeOK, Forget

\* Types are kept by the steps of a worker outside files_mtx.
LEMMA OutsideTypeOK ==
    ASSUME SInv, NEW w \in Workers, NEW c \in Clients,
           \/ Disconnect(w, c) \/ BadRequest(w, c)
           \/ \E p \in Paths : AppendNothing(w, c, p)
           \/ \E r \in Requests : LockFiles(w, c, r)
           \/ Send(w) \/ SendFails(w) \/ Answer(w)
    PROVE  TypeOK'
<1> USE DEF SInv, TypeOK, Results, store, locals, loop
<1>1. CASE Disconnect(w, c)
  BY <1>1 DEF Disconnect
<1>2. CASE BadRequest(w, c)
  BY <1>2 DEF BadRequest
<1>3. ASSUME NEW p \in Paths, AppendNothing(w, c, p) PROVE TypeOK'
  <2>1. [op |-> "append", path |-> p, size |-> 0] \in Requests
    BY DEF Requests, DataRequests
  <2> QED
    BY <1>3, <2>1 DEF AppendNothing
<1>4. ASSUME NEW r \in Requests, LockFiles(w, c, r) PROVE TypeOK'
  BY <1>4 DEF LockFiles
<1>5. CASE Send(w)
  BY <1>5 DEF Send
<1>6. CASE SendFails(w)
  BY <1>6 DEF SendFails
<1>7. CASE Answer(w)
  BY <1>7 DEF Answer, Requested, Knows
<1> QED
  BY <1>1, <1>2, <1>3, <1>4, <1>5, <1>6, <1>7

\* A file whose lock counters change.
LEMMA CountedFile ==
    ASSUME TypeOK, NEW p \in files, NEW n \in Nat,
           \/ file' = [file EXCEPT ![p].n_readers = n]
           \/ file' = [file EXCEPT ![p].n_writers = n]
    PROVE  /\ file' \in [Paths -> FileT]
           /\ \A q \in Paths \ files : file'[q] = Blank
           /\ \A q \in Paths : q # p => file'[q] = file[q]
           /\ file'[p].size = file[p].size
           /\ file'[p].can_be_expelled = file[p].can_be_expelled
           /\ file' = [file EXCEPT ![p].n_readers = n] =>
                 file'[p].n_readers = n /\ file'[p].n_writers = file[p].n_writers
           /\ file' = [file EXCEPT ![p].n_writers = n] =>
                 file'[p].n_writers = n /\ file'[p].n_readers = file[p].n_readers
<1>1. p \in Paths /\ file[p] \in FileT
  BY DEF TypeOK
<1>2. CASE file' = [file EXCEPT ![p].n_readers = n]
  <2> DEFINE f == [file[p] EXCEPT !.n_readers = n]
  <2>1. /\ f \in FileT /\ f.n_readers = n /\ f.n_writers = file[p].n_writers
        /\ f.size = file[p].size /\ f.can_be_expelled = file[p].can_be_expelled
    BY <1>1 DEF FileT
  <2>2. file' = [file EXCEPT ![p] = f]
    BY <1>2
  <2> HIDE DEF f
  <2>3. /\ file' \in [Paths -> FileT]
        /\ \A q \in Paths \ files : file'[q] = Blank
        /\ file'[p] = f
        /\ \A q \in Paths : q # p => file'[q] = file[q]
    BY <2>1, <2>2, OneFileChanged
  <2>4. file' = [file EXCEPT ![p].n_writers = n] =>
             file'[p].n_writers = n /\ file'[p].n_readers = file[p].n_readers
    BY <1>1 DEF TypeOK, FileT
  <2> QED
    BY <2>1, <2>3, <2>4
<1>3. CASE file' = [file EXCEPT ![p].n_writers = n]
  <2> DEFINE f == [file[p] EXCEPT !.n_writers = n]
  <2>1. /\ f \in FileT /\ f.n_writers = n /\ f.n_readers = file[p].n_readers
        /\ f.size = file[p].size /\ f.can_be_expelled = file[p].can_be_expelled
    BY <1>1 DEF FileT
  <2>2. file' = [file EXCEPT ![p] = f]
    BY <1>3
  <2> HIDE DEF f
  <2>3. /\ file' \in [Paths -> FileT]
        /\ \A q \in Paths \ files : file'[q] = Blank
        /\ file'[p] = f
        /\ \A q \in Paths : q # p => file'[q] = file[q]
    BY <2>1, <2>2, OneFileChanged
  <2>4. file' = [file EXCEPT ![p].n_readers = n] =>
             file'[p].n_readers = n /\ file'[p].n_writers = file[p].n_writers
    BY <1>1 DEF TypeOK, FileT
  <2> QED
    BY <2>1, <2>3, <2>4
<1> QED
  BY <1>2, <1>3

\* What file_reader_lock and file_writer_lock do.
LEMMA LockFileEffect ==
    ASSUME SInv, NEW w \in Workers, LockFile(w), NEW p, p = req[w].path
    PROVE  /\ p \in files /\ p \in Paths
           /\ file' \in [Paths -> FileT]
           /\ \A q \in Paths \ files : file'[q] = Blank
           /\ \A q \in Paths : q # p => file'[q] = file[q]
           /\ file'[p].size = file[p].size
           /\ file'[p].can_be_expelled = file[p].can_be_expelled
           /\ file[p].n_writers = 0 /\ file[p].n_readers \in Nat
           /\ \/ /\ req[w].op = "read"
                 /\ file'[p].n_readers = file[p].n_readers + 1 /\ file'[p].n_writers = 0
              \/ /\ req[w].op # "read"
                 /\ file[p].n_readers = 0
                 /\ file'[p].n_readers = 0 /\ file'[p].n_writers = 1
<1>1. p \in files /\ p \in Paths /\ file[p].n_readers \in Nat
  BY FileFields DEF LockFile, SInv, TypeOK
<1>2. CASE /\ req[w].op = "read"
           /\ file[p].n_writers = 0
           /\ file' = [file EXCEPT ![p].n_readers = @ + 1]
  <2>1. PICK n \in Nat : n = file[p].n_readers + 1
    BY <1>1
  <2>2. file' = [file EXCEPT ![p].n_readers = n]
    BY <1>2, <2>1
  <2>3. /\ file' \in [Paths -> FileT]
        /\ \A q \in Paths \ files : file'[q] = Blank
        /\ \A q \in Paths : q # p => file'[q] = file[q]
        /\ file'[p].size = file[p].size
        /\ file'[p].can_be_expelled = file[p].can_be_expelled
        /\ file'[p].n_readers = n /\ file'[p].n_writers = file[p].n_writers
    BY <1>1, <2>2, CountedFile DEF SInv
  <2>4. req[w].op = "read" /\ file[p].n_writers = 0
    BY <1>2
  <2> QED
    BY <1>1, <2>1, <2>3, <2>4
<1>3. CASE /\ req[w].op # "read"
           /\ file[p].n_readers = 0 /\ file[p].n_writers = 0
           /\ file' = [file EXCEPT ![p].n_writers = @ + 1]
  <2>1. file[p].n_writers + 1 = 1 /\ 1 \in Nat
    BY <1>3
  <2>2. file' = [file EXCEPT ![p].n_writers = 1]
    BY <1>3, <2>1
  <2>3. /\ file' \in [Paths -> FileT]
        /\ \A q \in Paths \ files : file'[q] = Blank
        /\ \A q \in Paths : q # p => file'[q] = file[q]
        /\ file'[p].size = file[p].size
        /\ file'[p].can_be_expelled = file[p].can_be_expelled
        /\ file'[p].n_writers = 1 /\ file'[p].n_readers = file[p].n_readers
    BY <1>1, <2>1, <2>2, CountedFile DEF SInv
  <2>4. req[w].op # "read" /\ file[p].n_readers = 0 /\ file[p].n_writers = 0
    BY <1>3
  <2> QED
    BY <1>1, <2>3, <2>4
<1> QED
  BY <1>2, <1>3 DEF LockFile, Unused

\* What giving back a reader lock does.
LEMMA UnlockedReader ==
    ASSUME SInv, NEW w \in Workers, NEW p, p \in Paths, Reads(w, p),
           file' = [file EXCEPT ![p].n_readers = @ - 1]
    PROVE  /\ p \in files
           /\ file' \in [Paths -> FileT]
           /\ \A q \in Paths \ files : file'[q] = Blank
           /\ \A q \in Paths : q # p => file'[q] = file[q]
           /\ file'[p].size = file[p].size
           /\ file'[p].can_be_expelled = file[p].can_be_expelled
           /\ file'[p].n_writers = file[p].n_writers
           /\ file[p].n_readers \in Nat \ {0}
           /\ file'[p].n_readers = file[p].n_readers - 1
<1>1. p \in files /\ file[p].n_readers \in Nat \ {0}
  BY HolderCounted, FileFields DEF SInv, TypeOK
<1>2. file[p].n_readers - 1 \in Nat
  BY <1>1
<1> QED
  BY <1>1, <1>2, CountedFile DEF SInv

\* A new file is empty, unlocked and may be expelled.
NewIn(p) == /\ file'[p].size = 0 /\ file'[p].n_readers = 0
            /\ file'[p].n_writers = 0 /\ file'[p].can_be_expelled = TRUE

\* What open_file with O_CREATE does to the store, with and without eviction.
LEMMA CreateEffect ==
    ASSUME SInv, NEW w \in Workers, Create(w), NEW p, p = req[w].path
    PROVE  /\ p \in Paths /\ p \notin files
           /\ files' = files \cup {p}
           /\ \A q \in files : file'[q] = file[q]
           /\ NewIn(p)
           /\ curr_state'.files = curr_state.files + 1
           /\ curr_state'.space = curr_state.space
           /\ curr_state'.max_space = curr_state.max_space
<1>1. p \in Paths /\ p \notin files
  BY RequestPath DEF Create, IsCreate, SInv, Requested, Knows, InMutex
<1> DEFINE f == NewFile(client[w], req[w].lock)
<1>2. f.size = 0 /\ f.n_readers = 0 /\ f.n_writers = 0 /\ f.can_be_expelled = TRUE
  BY DEF NewFile, Blank
<1>3. file' = [file EXCEPT ![p] = f] /\ files' = files \cup {p}
  BY DEF Create, Insert
<1> HIDE DEF f
<1>4. file'[p] = f /\ \A q \in files : file'[q] = file[q]
  BY <1>1, <1>3 DEF SInv, TypeOK
<1>5. /\ curr_state'.files = curr_state.files + 1
      /\ curr_state'.space = curr_state.space
      /\ curr_state'.max_space = curr_state.max_space
  BY DEF Create, Insert, SInv, TypeOK
<1> QED
  BY <1>1, <1>2, <1>3, <1>4, <1>5 DEF NewIn

\* The same when the store is full and its oldest file makes place.
LEMMA CreateExpellingEffect ==
    ASSUME SInv, NEW w \in Workers, CreateExpelling(w), NEW p, p = req[w].path
    PROVE  /\ p \in Paths /\ p \notin files
           /\ NewIn(p)
           /\ \E v \in files :
                /\ Unused(v)
                /\ files' = (files \ {v}) \cup {p}
                /\ \A q \in files : q # v => file'[q] = file[q]
                /\ curr_state'.files = (curr_state.files - 1) + 1
                /\ curr_state'.space = curr_state.space - file[v].size
                /\ curr_state'.max_space = curr_state.max_space
<1>1. p \in Paths /\ p \notin files
  BY RequestPath DEF CreateExpelling, IsCreate, SInv, Requested, Knows, InMutex
<1> DEFINE f == NewFile(client[w], req[w].lock)
<1>2. f.size = 0 /\ f.n_readers = 0 /\ f.n_writers = 0 /\ f.can_be_expelled = TRUE
  BY DEF NewFile, Blank
<1>3. PICK v \in files :
        /\ Oldest(v)
        /\ Insert(w, files \ {v}, [file EXCEPT ![v] = Blank],
                  [curr_state EXCEPT !.files = @ - 1, !.space = @ - file[v].size])
  BY DEF CreateExpelling
<1>4. /\ file' = [[file EXCEPT ![v] = Blank] EXCEPT ![p] = f]
      /\ files' = (files \ {v}) \cup {p}
  BY <1>3 DEF Insert
<1> HIDE DEF f
<1>5. file'[p] = f /\ \A q \in files : q # v => file'[q] = file[q]
  BY <1>1, <1>4 DEF SInv, TypeOK
<1> DEFINE state == [curr_state EXCEPT !.files = @ - 1, !.space = @ - file[v].size]
<1>6. /\ state.files = curr_state.files - 1
      /\ state.space = curr_state.space - file[v].size
      /\ state.max_space = curr_state.max_space
      /\ state \in [files : Nat, space : Nat, max_files : Nat, max_space : Nat]
  BY DeletedFile DEF SInv, TypeOK
<1>7. /\ curr_state'.files = state.files + 1
      /\ curr_state'.space = state.space
      /\ curr_state'.max_space = state.max_space
  <2>1. Insert(w, files \ {v}, [file EXCEPT ![v] = Blank], state)
    BY <1>3
  <2> HIDE DEF state
  <2> QED
    BY <1>6, <2>1 DEF Insert
<1>8. Unused(v)
  BY <1>3 DEF CreateExpelling, CanExpell, Oldest
<1> QED
  BY <1>1, <1>2, <1>4, <1>5, <1>6, <1>7, <1>8 DEF NewIn

\* No step of the server leaves the types; the unsigned numbers stay naturals.
LEMMA NextTypeOK == ASSUME SInv, [Next]_vars PROVE TypeOK'
<1> USE DEF SInv
<1>1. CASE UNCHANGED vars
  BY <1>1 DEF TypeOK, vars
<1>2. ASSUME NEW c \in Clients, Connect(c) PROVE TypeOK'
  BY <1>2 DEF Connect, TypeOK, store, locals, loop
<1>3. ASSUME NEW w \in Workers, Send(w) \/ SendFails(w) \/ Answer(w) PROVE TypeOK'
  <2>1. client[w] \in Clients
    BY <1>3 DEF Send, SendFails, Answer, Requested, Knows
  <2> QED
    BY <1>3, <2>1, OutsideTypeOK
<1>4. ASSUME NEW w \in Workers, NewRequest(w) PROVE TypeOK'
  BY <1>4, OutsideTypeOK DEF NewRequest
<1>5. ASSUME NEW w \in Workers, LeavesCritical(w) PROVE TypeOK'
  BY <1>5 DEF LeavesCritical, Return, TypeOK, store, locals, loop
<1>6. ASSUME NEW w \in Workers, LockFile(w) PROVE TypeOK'
  <2>1. file' \in [Paths -> FileT] /\ \A q \in Paths \ files : file'[q] = Blank
    BY <1>6, LockFileEffect
  <2> QED
    BY <1>6, <2>1 DEF LockFile, TypeOK, locals, loop
<1>7. ASSUME NEW w \in Workers, Create(w) PROVE TypeOK'
  <2>1. req[w].path \in Paths
    BY <1>7, RequestPath DEF Create, IsCreate, Requested, Knows, InMutex
  <2>2. last_use' \subseteq Paths \X Paths /\ creation_time' \subseteq Paths \X Paths
    BY <1>7, <2>1 DEF Create, Stamp, TypeOK
  <2>3. /\ files \in SUBSET files /\ file \in [Paths -> FileT]
        /\ \A p \in Paths \ files : file[p] = Blank
        /\ curr_state \in [files : Nat, space : Nat, max_files : Nat, max_space : Nat]
    BY DEF TypeOK
  <2> QED
    BY <1>7, <2>2, <2>3, InsertTypeOK DEF Create
<1>8. ASSUME NEW w \in Workers, CreateExpelling(w) PROVE TypeOK'
  <2>1. PICK v \in files :
          /\ Insert(w, files \ {v}, [file EXCEPT ![v] = Blank],
                    [curr_state EXCEPT !.files = @ - 1, !.space = @ - file[v].size])
          /\ last_use' = Stamp(Forget(last_use, v), req[w].path, files \ {v})
          /\ creation_time' = Stamp(Forget(creation_time, v), req[w].path, files \ {v})
    BY <1>8 DEF CreateExpelling
  <2>2. req[w].path \in Paths
    BY <1>8, RequestPath DEF CreateExpelling, IsCreate, Requested, Knows, InMutex
  <2>3. last_use' \subseteq Paths \X Paths /\ creation_time' \subseteq Paths \X Paths
    BY <2>1, <2>2, DeletedFile DEF Stamp, TypeOK
  <2> QED
    BY <1>8, <2>1, <2>3, DeletedFile, InsertTypeOK DEF CreateExpelling
<1>9. ASSUME NEW w \in Workers, EndsWriter(w) PROVE TypeOK'
  <2>1. req[w].path \in files
    BY <1>9, LockedFile DEF EndsWriter
  <2>2. file' \in [Paths -> FileT] /\ \A q \in Paths \ files : file'[q] = Blank
    BY <1>9, <2>1, OneFileChanged DEF EndsWriter
  <2> QED
    BY <1>9, <2>2 DEF EndsWriter, Return, TypeOK, locals, loop
<1>10. ASSUME NEW w \in Workers, Read(w) PROVE TypeOK'
  <2>1. req[w].path \in Paths /\ Reads(w, req[w].path)
    BY <1>10, LockedFile DEF Read, Reads
  <2>2. file' \in [Paths -> FileT] /\ \A q \in Paths \ files : file'[q] = Blank
    <3>1. CASE file' = file
      BY <3>1 DEF TypeOK
    <3>2. CASE file' = [file EXCEPT ![req[w].path].n_readers = @ - 1]
      BY <2>1, <3>2, UnlockedReader
    <3> QED
      BY <1>10, <3>1, <3>2 DEF Read
  <2>3. last_use' \subseteq Paths \X Paths
    BY <1>10, <2>1 DEF Read, Stamp, TypeOK
  <2> QED
    BY <1>10, <2>1, <2>2, <2>3 DEF Read, Return, Results, TypeOK, loop
<1>11. ASSUME NEW w \in Workers, Selects(w) PROVE TypeOK'
  <2>1. PICK S \in SUBSET files :
          /\ file' = [p \in Paths |-> IF p \in S THEN [file[p] EXCEPT !.n_readers = @ + 1]
                                                 ELSE file[p]]
          /\ reading' = [reading EXCEPT ![w] = S]
    BY <1>11 DEF Selects
  <2>2. \A p \in Paths : [file[p] EXCEPT !.n_readers = @ + 1] \in FileT
    <3>1. \A p \in Paths : file[p] \in FileT /\ file[p].n_readers + 1 \in Nat
      BY FileFields DEF TypeOK
    <3> QED
      BY <3>1, FileFields
  <2>3. file' \in [Paths -> FileT] /\ \A q \in Paths \ files : file'[q] = Blank
    BY <2>1, <2>2 DEF TypeOK
  <2> QED
    BY <1>11, <2>1, <2>3 DEF Selects, TypeOK, loop
<1>12. ASSUME NEW w \in Workers, Grows(w) PROVE TypeOK'
  BY <1>12, GrowTypeOK
<1>13. ASSUME NEW w \in Workers, ExpellOne(w) PROVE TypeOK'
  <2>1. PICK v \in files :
         /\ files' = files \ {v}
         /\ file' = [file EXCEPT ![v] = Blank]
         /\ last_use' = Forget(last_use, v)
         /\ creation_time' = Forget(creation_time, v)
         /\ curr_state' = [curr_state EXCEPT !.files = @ - 1, !.space = @ - file[v].size]
         /\ freed' = freed + file[v].size
         /\ to_expell' = [to_expell EXCEPT ![w] = @ \cup {v}]
    BY <1>13 DEF ExpellOne
  <2>2. freed' \in Nat
    BY <2>1, FileFields DEF TypeOK
  <2>3. /\ file' \in [Paths -> FileT] /\ \A q \in Paths \ files' : file'[q] = Blank
        /\ curr_state' \in [files : Nat, space : Nat, max_files : Nat, max_space : Nat]
        /\ last_use' \subseteq Paths \X Paths /\ creation_time' \subseteq Paths \X Paths
    BY <2>1, DeletedFile
  <2> QED
    BY <1>13, <2>1, <2>2, <2>3 DEF ExpellOne, TypeOK
<1>14. ASSUME NEW w \in Workers, ExpellDone(w) PROVE TypeOK'
  <2>1. /\ req[w].path \in files /\ file[req[w].path] \in FileT
        /\ file[req[w].path].n_writers = 1
    BY <1>14, LockedFile DEF ExpellDone, Requested, Knows
  <2>2. [WriterUnlocked(file[req[w].path]) EXCEPT !.can_be_expelled = TRUE] \in FileT
    BY <2>1, ReleasedFile
  <2>3. file' \in [Paths -> FileT] /\ \A q \in Paths \ files : file'[q] = Blank
    BY <1>14, <2>1, <2>2, OneFileChanged DEF ExpellDone
  <2>4. curr_state' \in [files : Nat, space : Nat, max_files : Nat, max_space : Nat]
    BY <1>14 DEF ExpellDone, SpaceSettled, TypeOK
  <2> QED
    BY <1>14, <2>3, <2>4 DEF ExpellDone, TypeOK, locals
<1>15. ASSUME NEW w \in Workers, Removes(w) PROVE TypeOK'
  <2>1. req[w].path \in files
    BY <1>15, LockedFile DEF Removes
  <2>2. /\ file' \in [Paths -> FileT] /\ \A q \in Paths \ files' : file'[q] = Blank
        /\ curr_state' \in [files : Nat, space : Nat, max_files : Nat, max_space : Nat]
        /\ last_use' \subseteq Paths \X Paths /\ creation_time' \subseteq Paths \X Paths
    BY <1>15, <2>1, DeletedFile DEF Removes
  <2> QED
    BY <1>15, <2>2 DEF Removes, Return, Results, TypeOK, locals, loop
<1>16. ASSUME NEW w \in Workers, UnlockReader(w) PROVE TypeOK'
  <2>1. ASSUME NEW p \in reading[w], file' = [file EXCEPT ![p].n_readers = @ - 1]
        PROVE  file' \in [Paths -> FileT] /\ \A q \in Paths \ files : file'[q] = Blank
    <3>1. p \in Paths /\ Reads(w, p)
      BY DEF Reads, TypeOK
    <3> QED
      BY <2>1, <3>1, UnlockedReader
  <2>2. file' \in [Paths -> FileT] /\ \A q \in Paths \ files : file'[q] = Blank
    BY <1>16, <2>1 DEF UnlockReader, TypeOK
  <2> QED
    BY <1>16, <2>2 DEF UnlockReader, TypeOK, loop
<1>17. ASSUME NEW c \in Clients, CloseClient(c) PROVE TypeOK'
  BY <1>17 DEF CloseClient, TypeOK, store, locals, loop
<1>18. CASE ForgetFiles
  <2>1. \A p \in Paths : ForgetClient(file[p], main_client) \in FileT
    BY ForgottenFile DEF TypeOK
  <2>2. file' \in [Paths -> FileT] /\ \A q \in Paths \ files : file'[q] = Blank
    BY <1>18, <2>1 DEF ForgetFiles, TypeOK
  <2> QED
    BY <1>18, <2>2 DEF ForgetFiles, TypeOK, locals, loop
<1> QED
  BY <1>1, <1>2, <1>3, <1>4, <1>5, <1>6, <1>7, <1>8, <1>9, <1>10, <1>11, <1>12, <1>13, <1>14,
     <1>15, <1>16, <1>17, <1>18, HandlerKinds DEF Next, HandlerStep

-----------------------------------------------------------------------------
\* files_mtx excludes: two threads are never past its lock together.
LEMMA AloneInMutex ==
    ASSUME SInv, NEW w \in Workers, pc[w] \in InMutex
    PROVE  /\ files_mtx = w
           /\ main_client = None
           /\ \A v \in Workers : v # w => pc[v] \notin InMutex
  BY StoreAssumption DEF SInv, Owners

\* Every function that locks files_mtx unlocks it before it ends.
LEMMA NextOwners == ASSUME SInv, [Next]_vars PROVE Owners'
<1> USE StoreAssumption DEF SInv, Owners, TypeOK, InMutex
<1>1. CASE Still
  BY <1>1 DEF Still
<1>2. ASSUME NEW w \in Workers, Outside(w) PROVE Owners'
  BY <1>2 DEF Outside
<1>3. ASSUME NEW w \in Workers, NEW c \in Clients, NEW r \in Requests, LockFiles(w, c, r)
      PROVE  Owners'
  BY <1>3 DEF LockFiles
<1>4. ASSUME NEW w \in Workers, HandlerStep(w), pc[w] \in InMutex,
             files_mtx' = None, \E l \in {"sending", "answer"} : pc' = [pc EXCEPT ![w] = l],
             main_client' = main_client
      PROVE  Owners'
  BY <1>4
<1>5. ASSUME NEW w \in Workers, HandlerStep(w), pc[w] \in InMutex,
             files_mtx' = files_mtx,
             pc' = pc \/ \E l \in InMutex : pc' = [pc EXCEPT ![w] = l],
             main_client' = main_client
      PROVE  Owners'
  BY <1>5
<1>6. ASSUME NEW w \in Workers, LeavesCritical(w) PROVE Owners'
  BY <1>4, <1>6 DEF LeavesCritical, Return, HandlerStep
<1>7. ASSUME NEW w \in Workers, LockFile(w) PROVE Owners'
  BY <1>5, <1>7 DEF LockFile, HandlerStep
<1>8. ASSUME NEW w \in Workers, Create(w) \/ CreateExpelling(w) PROVE Owners'
  BY <1>4, <1>8 DEF Create, CreateExpelling, Insert, Return, HandlerStep
<1>9. ASSUME NEW w \in Workers, EndsWriter(w) PROVE Owners'
  BY <1>4, <1>9 DEF EndsWriter, Return, HandlerStep
<1>10. ASSUME NEW w \in Workers, Read(w) PROVE Owners'
  BY <1>4, <1>10 DEF Read, Return, HandlerStep
<1>11. ASSUME NEW w \in Workers, Selects(w) PROVE Owners'
  BY <1>4, <1>11 DEF Selects, HandlerStep
<1>12. ASSUME NEW w \in Workers, Grows(w) PROVE Owners'
  BY <1>4, <1>5, <1>12 DEF Grows, Grow, HandlerStep
<1>13. ASSUME NEW w \in Workers, ExpellOne(w) PROVE Owners'
  BY <1>5, <1>13 DEF ExpellOne, HandlerStep
<1>14. ASSUME NEW w \in Workers, ExpellDone(w) PROVE Owners'
  BY <1>4, <1>14 DEF ExpellDone, HandlerStep
<1>15. ASSUME NEW w \in Workers, Removes(w) PROVE Owners'
  BY <1>4, <1>15 DEF Removes, Return, HandlerStep
<1>16. ASSUME NEW w \in Workers, UnlockReader(w) PROVE Owners'
  BY <1>16 DEF UnlockReader
<1>17. ASSUME NEW c \in Clients, CloseClient(c) PROVE Owners'
  BY <1>17 DEF CloseClient
<1>18. CASE ForgetFiles
  BY <1>18 DEF ForgetFiles
<1> QED
  BY <1>1, <1>2, <1>3, <1>6, <1>7, <1>8, <1>9, <1>10, <1>11, <1>12, <1>13, <1>14,
     <1>15, <1>16, <1>17, <1>18, StepKinds DEF HandlerStep

\* What the other workers know is not disturbed by a worker.
LEMMA OthersKnow ==
    ASSUME SInv, NEW w \in Workers,
           \A v \in Workers \ {w} : /\ pc'[v] = pc[v] /\ client'[v] = client[v]
                                    /\ req'[v] = req[v] /\ reading'[v] = reading[v],
           files' = files \/ pc[w] \in InMutex,
           Knows(w)'
    PROVE  Requested'
<1> SUFFICES ASSUME NEW v \in Workers, v # w PROVE Knows(v)'
  BY DEF Requested
<1>1. Knows(v)
  BY DEF SInv, Requested
<1>2. pc[w] \in InMutex => pc[v] \notin InMutex
  BY AloneInMutex
<1> QED
  BY <1>1, <1>2 DEF Knows, InMutex, LooksUp, IsCreate, IsRead

\* The handlers keep track of their request and of the files they read.
LEMMA NextRequested == ASSUME SInv, [Next]_vars PROVE Requested'
<1>1. CASE Still
  BY <1>1 DEF Still, SInv, Requested, Knows
<1>2. ASSUME NEW w \in Workers, Outside(w) PROVE Requested'
  BY <1>2, OthersKnow DEF Outside
<1>3. ASSUME NEW w \in Workers, NEW c \in Clients, NEW r \in Requests, LockFiles(w, c, r)
      PROVE  Requested'
  <2>1. Knows(w)'
    BY <1>3 DEF LockFiles, SInv, TypeOK, Requested, Knows, InMutex, locals
  <2> QED
    BY <1>3, <2>1, OthersKnow DEF LockFiles, SInv, TypeOK, store, locals
<1>4. ASSUME NEW w \in Workers, pc[w] \in InMutex, pc' = [pc EXCEPT ![w] = "answer"],
             client' = client, req' = req, reading' = reading
      PROVE  Requested'
  <2>1. Knows(w)'
    BY <1>4 DEF SInv, TypeOK, Requested, Knows, InMutex
  <2> QED
    BY <1>4, <2>1, OthersKnow DEF SInv, TypeOK
<1>5. ASSUME NEW w \in Workers, pc[w] \in InMutex, pc' = [pc EXCEPT ![w] = "sending"],
             client' = client, req' = req,
             \/ reading' = reading
             \/ IsRead(req[w]) /\ \E S : reading' = [reading EXCEPT ![w] = S]
      PROVE  Requested'
  <2>1. Knows(w)'
    BY <1>5 DEF SInv, TypeOK, Requested, Knows, InMutex, IsRead
  <2> QED
    BY <1>5, <2>1, OthersKnow DEF SInv, TypeOK
<1>6. ASSUME NEW w \in Workers, pc[w] \in InMutex, client' = client, req' = req,
             reading' = reading, req[w].path \in files',
             \/ pc' = [pc EXCEPT ![w] = "locked"] /\ LooksUp(req[w])
             \/ pc' = [pc EXCEPT ![w] = "expelling"] /\ req[w].op \in {"write", "append"}
      PROVE  Requested'
  <2>1. Knows(w)'
    BY <1>6 DEF SInv, TypeOK, Requested, Knows, InMutex, LooksUp, IsCreate
  <2> QED
    BY <1>6, <2>1, OthersKnow DEF SInv, TypeOK
<1>7. ASSUME NEW w \in Workers, LeavesCritical(w) PROVE Requested'
  BY <1>4, <1>7 DEF LeavesCritical, Return, InMutex, locals
<1>8. ASSUME NEW w \in Workers, LockFile(w) PROVE Requested'
  BY <1>6, <1>8 DEF LockFile, InMutex, locals
<1>9. ASSUME NEW w \in Workers, Create(w) \/ CreateExpelling(w) PROVE Requested'
  BY <1>4, <1>9 DEF Create, CreateExpelling, Insert, Return, InMutex, locals
<1>10. ASSUME NEW w \in Workers, EndsWriter(w) PROVE Requested'
  BY <1>4, <1>10 DEF EndsWriter, Return, InMutex, locals
<1>11. ASSUME NEW w \in Workers, Read(w) PROVE Requested'
  BY <1>4, <1>5, <1>11 DEF Read, Return, InMutex, IsRead
<1>12. ASSUME NEW w \in Workers, Selects(w) PROVE Requested'
  BY <1>5, <1>12 DEF Selects, InMutex, IsRead
<1>13. ASSUME NEW w \in Workers, Grows(w) PROVE Requested'
  <2>1. req[w].path \in files
    BY <1>13, LockedFile DEF Grows
  <2> QED
    BY <1>5, <1>6, <1>13, <2>1 DEF Grows, Grow, InMutex, locals
<1>14. ASSUME NEW w \in Workers, ExpellOne(w) PROVE Requested'
  <2>1. req[w].path \in files /\ req[w].op \in {"write", "append"}
    BY <1>14 DEF ExpellOne, SInv, Requested, Knows
  <2>2. ~file[req[w].path].can_be_expelled
    BY <1>14, <2>1 DEF ExpellOne, SInv, WriterLocks, Evicts
  <2>3. req[w].path \in files'
    BY <1>14, <2>1, <2>2 DEF ExpellOne, Oldest, Expellable
  <2>4. pc' = [pc EXCEPT ![w] = "expelling"]
    BY <1>14 DEF ExpellOne, SInv, TypeOK
  <2> QED
    BY <1>6, <1>14, <2>1, <2>3, <2>4 DEF ExpellOne, InMutex
<1>15. ASSUME NEW w \in Workers, ExpellDone(w) PROVE Requested'
  BY <1>5, <1>15 DEF ExpellDone, InMutex, locals
<1>16. ASSUME NEW w \in Workers, Removes(w) PROVE Requested'
  BY <1>4, <1>16 DEF Removes, Return, InMutex, locals
<1>17. ASSUME NEW w \in Workers, UnlockReader(w) PROVE Requested'
  <2>1. Knows(w)'
    BY <1>17 DEF UnlockReader, SInv, TypeOK, Requested, Knows, InMutex, IsRead
  <2> QED
    BY <1>17, <2>1, OthersKnow DEF UnlockReader, SInv, TypeOK
<1>18. ASSUME NEW c \in Clients, CloseClient(c) PROVE Requested'
  BY <1>18 DEF CloseClient, SInv, Requested, Knows, store, locals
<1>19. CASE ForgetFiles
  BY <1>19 DEF ForgetFiles, SInv, Requested, Knows, locals
<1> QED
  BY <1>1, <1>2, <1>3, <1>7, <1>8, <1>9, <1>10, <1>11, <1>12, <1>13, <1>14, <1>15,
     <1>16, <1>17, <1>18, <1>19, StepKinds DEF HandlerStep

-----------------------------------------------------------------------------
\* Files that the owner of files_mtx has not locked are free of writers.
LEMMA FreeOfWriters ==
    ASSUME SInv, NEW p \in files, \A w \in Workers : ~Writes(w, p)
    PROVE  file[p].n_writers = 0 /\ file[p].can_be_expelled = TRUE
<1>1. file[p].can_be_expelled \in BOOLEAN
  BY FileFields DEF SInv, TypeOK
<1>2. \A w \in Workers : ~Evicts(w, p)
  BY DEF Evicts, Writes, SInv, Requested, Knows
<1> QED
  BY <1>1, <1>2 DEF SInv, WriterLocks

\* When no worker holds a lock inside files_mtx, all files must be so.
LEMMA AllFree ==
    ASSUME \A w \in Workers : pc'[w] \notin {"locked", "expelling"},
           \A p \in files' : file'[p].n_writers = 0 /\ file'[p].can_be_expelled = TRUE
    PROVE  WriterLocks'
  BY DEF WriterLocks, Writes, Evicts

\* After a worker's last step inside files_mtx no worker holds a lock there.
LEMMA MutexEmptied ==
    ASSUME SInv, NEW w \in Workers, pc[w] \in InMutex,
           NEW l \in {"sending", "answer"}, pc' = [pc EXCEPT ![w] = l]
    PROVE  \A v \in Workers : pc'[v] \notin {"locked", "expelling"}
  BY AloneInMutex DEF InMutex, SInv, TypeOK

\* Only the worker inside files_mtx writes, and only the file of its request.
LEMMA OneWriter ==
    ASSUME SInv, NEW w \in Workers, pc[w] \in InMutex, NEW p,
           \/ pc[w] = "critical"
           \/ req[w].op = "read"
           \/ p # req[w].path
    PROVE  \A v \in Workers : ~Writes(v, p)
  BY AloneInMutex DEF Writes, InMutex, SInv, Requested, Knows

\* Handlers that end without having written a file.
LEMMA NothingWritten ==
    ASSUME SInv, NEW w \in Workers, pc[w] = "critical" \/ (pc[w] = "locked" /\ req[w].op = "read"),
           NEW l \in {"sending", "answer"}, pc' = [pc EXCEPT ![w] = l],
           \A p \in files' : \/ /\ p \in files
                                /\ file'[p].n_writers = file[p].n_writers
                                /\ file'[p].can_be_expelled = file[p].can_be_expelled
                             \/ file'[p].n_writers = 0 /\ file'[p].can_be_expelled = TRUE
    PROVE  WriterLocks'
<1>1. pc[w] \in InMutex
  BY DEF InMutex
<1>2. \A p \in files : file[p].n_writers = 0 /\ file[p].can_be_expelled = TRUE
  BY <1>1, OneWriter, FreeOfWriters
<1> QED
  BY <1>1, <1>2, MutexEmptied, AllFree

\* Handlers that end after they changed their file only.
LEMMA OneFileReleased ==
    ASSUME SInv, NEW w \in Workers, pc[w] \in InMutex,
           NEW l \in {"sending", "answer"}, pc' = [pc EXCEPT ![w] = l],
           files' \subseteq files,
           \A p \in files' : p # req[w].path => file'[p] = file[p],
           req[w].path \in files' => /\ file'[req[w].path].n_writers = 0
                                     /\ file'[req[w].path].can_be_expelled = TRUE
    PROVE  WriterLocks'
<1>1. \A p \in files : p # req[w].path =>
          file[p].n_writers = 0 /\ file[p].can_be_expelled = TRUE
  BY OneWriter, FreeOfWriters
<1>2. \A p \in files' : file'[p].n_writers = 0 /\ file'[p].can_be_expelled = TRUE
  BY <1>1
<1>3. \A v \in Workers : pc'[v] \notin {"locked", "expelling"}
  BY MutexEmptied
<1> QED
  BY <1>2, <1>3, AllFree

\* The file a worker has locked but is not evicting for may be expelled.
LEMMA LockedExpellable ==
    ASSUME SInv, NEW w \in Workers, pc[w] = "locked"
    PROVE  file[req[w].path].can_be_expelled = TRUE
<1>1. req[w].path \in files /\ file[req[w].path].can_be_expelled \in BOOLEAN
  BY LockedFile, FileFields
<1>2. \A v \in Workers : ~Evicts(v, req[w].path)
  BY AloneInMutex DEF Evicts, InMutex
<1> QED
  BY <1>1, <1>2 DEF SInv, WriterLocks

\* The handlers take and give back the writer lock of their file in step.
LEMMA NextWriterLocks == ASSUME SInv, [Next]_vars PROVE WriterLocks'
<1>1. CASE Still
  BY <1>1 DEF Still, SInv, WriterLocks, Writes, Evicts
<1>2. ASSUME NEW w \in Workers, Outside(w) PROVE WriterLocks'
  <2>1. \A v \in Workers : \A p : (Writes(v, p)' <=> Writes(v, p)) /\ (Evicts(v, p)' <=> Evicts(v, p))
    BY <1>2 DEF Outside, Writes, Evicts, InMutex
  <2> QED
    BY <1>2, <2>1 DEF Outside, SInv, WriterLocks
<1>3. ASSUME NEW w \in Workers, NEW c \in Clients, NEW r \in Requests, LockFiles(w, c, r)
      PROVE  WriterLocks'
  <2>1. \A v \in Workers : pc[v] \notin InMutex
    BY <1>3, StoreAssumption DEF LockFiles, SInv, Owners
  <2>2. \A v \in Workers : pc'[v] \notin {"locked", "expelling"}
    BY <1>3, <2>1 DEF LockFiles, InMutex, SInv, TypeOK
  <2>3. \A p \in files : file[p].n_writers = 0 /\ file[p].can_be_expelled = TRUE
    BY <2>1, FreeOfWriters DEF Writes, InMutex
  <2> QED
    BY <1>3, <2>2, <2>3, AllFree DEF LockFiles, store
<1>4. ASSUME NEW w \in Workers, LeavesCritical(w) PROVE WriterLocks'
  BY <1>4, NothingWritten DEF LeavesCritical, Return, store
<1>5. ASSUME NEW w \in Workers, LockFile(w) PROVE WriterLocks'
  <2> DEFINE p == req[w].path
  <2>1. \A v \in Workers : \A q : ~Writes(v, q) /\ ~Evicts(v, q)
    BY <1>5, AloneInMutex DEF LockFile, Writes, Evicts, InMutex
  <2>2. \A q \in files : file[q].n_writers = 0 /\ file[q].can_be_expelled = TRUE
    BY <2>1, FreeOfWriters
  <2>3. \A v \in Workers : \A q : ~Evicts(v, q)'
    BY <1>5, <2>1 DEF LockFile, Evicts, SInv, TypeOK
  <2>4. \A v \in Workers : \A q : Writes(v, q)' <=> v = w /\ q = p /\ req[w].op # "read"
    BY <1>5, <2>1 DEF LockFile, Writes, SInv, TypeOK
  <2>5. files' = files /\ files \subseteq Paths
    BY <1>5 DEF LockFile, SInv, TypeOK
  <2>6. /\ \A q \in Paths : q # p => file'[q] = file[q]
        /\ file'[p].can_be_expelled = file[p].can_be_expelled
        /\ \/ req[w].op = "read" /\ file'[p].n_writers = 0
           \/ req[w].op # "read" /\ file'[p].n_writers = 1 /\ file'[p].n_readers = 0
    BY <1>5, LockFileEffect
  <2> HIDE DEF p
  <2>7. ASSUME NEW q \in files
        PROVE  /\ \A v \in Workers : Writes(v, q)' => file'[q].n_writers = 1 /\ file'[q].n_readers = 0
               /\ (\A v \in Workers : ~Writes(v, q)') => file'[q].n_writers = 0
               /\ file'[q].can_be_expelled = TRUE
    BY <2>2, <2>4, <2>5, <2>6
  <2> QED
    BY <2>3, <2>5, <2>7 DEF WriterLocks
<1>6. ASSUME NEW w \in Workers, Create(w) \/ CreateExpelling(w) PROVE WriterLocks'
  <2>1. pc[w] = "critical" /\ pc' = [pc EXCEPT ![w] = "answer"]
    BY <1>6 DEF Create, CreateExpelling, Insert, Return
  <2>2. CASE Create(w)
    <3>1. \A p \in files' : \/ p \in files /\ file'[p] = file[p]
                            \/ file'[p].n_writers = 0 /\ file'[p].can_be_expelled = TRUE
      BY <2>2, CreateEffect DEF NewIn
    <3> QED
      BY <2>1, <3>1, NothingWritten
  <2>3. CASE CreateExpelling(w)
    <3>1. \A p \in files' : \/ p \in files /\ file'[p] = file[p]
                            \/ file'[p].n_writers = 0 /\ file'[p].can_be_expelled = TRUE
      <4>1. PICK v \in files : /\ files' = (files \ {v}) \cup {req[w].path}
                               /\ \A q \in files : q # v => file'[q] = file[q]
        BY <2>3, CreateExpellingEffect
      <4>2. NewIn(req[w].path)
        BY <2>3, CreateExpellingEffect
      <4> QED
        BY <4>1, <4>2 DEF NewIn
    <3> QED
      BY <2>1, <3>1, NothingWritten
  <2> QED
    BY <1>6, <2>2, <2>3
<1>7. ASSUME NEW w \in Workers, EndsWriter(w) PROVE WriterLocks'
  <2>1. pc[w] = "locked" /\ req[w].path \in files /\ files' = files
    BY <1>7, LockedFile DEF EndsWriter
  <2>2. file[req[w].path].can_be_expelled = TRUE
    BY <2>1, LockedExpellable
  <2>3. /\ \A q \in Paths : q # req[w].path => file'[q] = file[q]
        /\ file'[req[w].path].n_writers = 0 /\ file'[req[w].path].can_be_expelled = TRUE
    BY <1>7, <2>1, <2>2, OneFileChanged DEF EndsWriter, SInv
  <2>4. pc' = [pc EXCEPT ![w] = "answer"]
    BY <1>7 DEF EndsWriter, Return
  <2> QED
    BY <2>1, <2>3, <2>4, OneFileReleased DEF InMutex, SInv, TypeOK
<1>8. ASSUME NEW w \in Workers, Read(w) PROVE WriterLocks'
  <2>1. pc[w] = "locked" /\ req[w].op = "read" /\ files' = files
    BY <1>8 DEF Read
  <2>2. req[w].path \in Paths /\ Reads(w, req[w].path)
    BY <2>1, LockedFile DEF Reads
  <2>3. \E l \in {"sending", "answer"} : pc' = [pc EXCEPT ![w] = l]
    BY <1>8 DEF Read, Return
  <2>4. \A p \in files : /\ file'[p].n_writers = file[p].n_writers
                         /\ file'[p].can_be_expelled = file[p].can_be_expelled
    <3>1. CASE file' = [file EXCEPT ![req[w].path].n_readers = @ - 1]
      BY <2>2, <3>1, UnlockedReader DEF SInv, TypeOK
    <3> QED
      BY <1>8, <3>1 DEF Read
  <2> QED
    BY <2>1, <2>3, <2>4, NothingWritten
<1>9. ASSUME NEW w \in Workers, Selects(w) PROVE WriterLocks'
  <2>1. PICK S \in SUBSET files :
          file' = [p \in Paths |-> IF p \in S THEN [file[p] EXCEPT !.n_readers = @ + 1]
                                              ELSE file[p]]
    BY <1>9 DEF Selects
  <2>2. \A p \in Paths : /\ file'[p].n_writers = file[p].n_writers
                         /\ file'[p].can_be_expelled = file[p].can_be_expelled
    BY <2>1 DEF SInv, TypeOK, FileT
  <2>3. pc[w] = "critical" /\ pc' = [pc EXCEPT ![w] = "sending"] /\ files' = files
    BY <1>9 DEF Selects
  <2> QED
    BY <2>2, <2>3, NothingWritten DEF SInv, TypeOK
<1>10. ASSUME NEW w \in Workers, Grows(w) PROVE WriterLocks'
  <2> DEFINE p == req[w].path
  <2>1. pc[w] = "locked" /\ p \in files /\ files' = files /\ req' = req
    BY <1>10, LockedFile DEF Grows, Grow
  <2>2. file[p].can_be_expelled = TRUE /\ file[p].n_readers = 0
    BY <1>10, LockedExpellable, LockedFile DEF Grows
  <2>3. /\ \A q \in Paths : q # p => file'[q] = file[q]
        /\ file'[p].n_readers = file[p].n_readers
        /\ \/ /\ pc'[w] = "expelling"
              /\ file'[p].n_writers = 1 /\ file'[p].can_be_expelled = FALSE
           \/ /\ pc'[w] = "sending"
              /\ file'[p].n_writers = 0 /\ file'[p].can_be_expelled = file[p].can_be_expelled
    BY <1>10, GrowFile
  <2>4. CASE pc' = [pc EXCEPT ![w] = "sending"]
    <3>1. pc'[w] = "sending"
      BY <2>4 DEF SInv, TypeOK
    <3>2. /\ file'[p].n_writers = 0 /\ file'[p].can_be_expelled = TRUE
          /\ \A q \in files' : q # p => file'[q] = file[q]
      BY <2>1, <2>2, <2>3, <3>1 DEF SInv, TypeOK
    <3> QED
      BY <2>1, <2>4, <3>2, OneFileReleased DEF InMutex
  <2>5. CASE pc' = [pc EXCEPT ![w] = "expelling"]
    <3>1. pc'[w] = "expelling" /\ \A v \in Workers : v # w => pc'[v] \notin InMutex
      BY <2>1, <2>5, AloneInMutex DEF SInv, TypeOK, InMutex
    <3>2. \A v \in Workers : \A q : /\ Writes(v, q)' <=> v = w /\ q = p
                                    /\ Evicts(v, q)' <=> v = w /\ q = p
      BY <1>10, <2>1, <3>1 DEF Writes, Evicts, InMutex, Grows
    <3>3. \A q \in files : q # p =>
              file[q].n_writers = 0 /\ file[q].can_be_expelled = TRUE
      BY <2>1, OneWriter, FreeOfWriters DEF InMutex
    <3>4. file'[p].n_writers = 1 /\ file'[p].can_be_expelled = FALSE /\ file'[p].n_readers = 0
      BY <2>2, <2>3, <3>1
    <3>5. \A q \in files : q # p =>
              file'[q].n_writers = 0 /\ file'[q].can_be_expelled = TRUE
      BY <2>3, <3>3 DEF SInv, TypeOK
    <3> HIDE DEF p
    <3> QED
      BY <2>1, <3>2, <3>4, <3>5 DEF WriterLocks
  <2> QED
    BY <1>10, <2>4, <2>5 DEF Grows, Grow
<1>11. ASSUME NEW w \in Workers, ExpellOne(w) PROVE WriterLocks'
  <2>1. PICK v \in files : files' = files \ {v} /\ file' = [file EXCEPT ![v] = Blank]
    BY <1>11 DEF ExpellOne
  <2>2. \A q \in files' : q \in files /\ file'[q] = file[q]
    BY <2>1 DEF SInv, TypeOK
  <2>3. \A u \in Workers : \A q : (Writes(u, q)' <=> Writes(u, q)) /\ (Evicts(u, q)' <=> Evicts(u, q))
    BY <1>11 DEF ExpellOne, Writes, Evicts
  <2> QED
    BY <2>2, <2>3 DEF SInv, WriterLocks
<1>12. ASSUME NEW w \in Workers, ExpellDone(w) PROVE WriterLocks'
  <2> DEFINE f == [WriterUnlocked(file[req[w].path]) EXCEPT !.can_be_expelled = TRUE]
  <2>1. /\ req[w].path \in files /\ file[req[w].path] \in FileT
        /\ file[req[w].path].n_writers = 1
    BY <1>12, LockedFile DEF ExpellDone, SInv, Requested, Knows
  <2>2. f \in FileT /\ f.n_writers = 0 /\ f.can_be_expelled = TRUE
    BY <2>1, ReleasedFile
  <2>3. file' = [file EXCEPT ![req[w].path] = f]
    BY <1>12 DEF ExpellDone
  <2> HIDE DEF f
  <2>4. /\ \A q \in Paths : q # req[w].path => file'[q] = file[q]
        /\ file'[req[w].path] = f
    BY <2>1, <2>2, <2>3, OneFileChanged DEF SInv
  <2>5. files' = files /\ pc' = [pc EXCEPT ![w] = "sending"] /\ pc[w] \in InMutex
    BY <1>12 DEF ExpellDone, InMutex
  <2> QED
    BY <2>2, <2>4, <2>5, OneFileReleased DEF SInv, TypeOK
<1>13. ASSUME NEW w \in Workers, Removes(w) PROVE WriterLocks'
  <2>1. /\ files' = files \ {req[w].path} /\ pc[w] \in InMutex
        /\ pc' = [pc EXCEPT ![w] = "answer"]
    BY <1>13 DEF Removes, Return, InMutex
  <2>2. \A q \in files' : q # req[w].path => file'[q] = file[q]
    BY <1>13 DEF Removes, SInv, TypeOK
  <2> QED
    BY <2>1, <2>2, OneFileReleased
<1>14. ASSUME NEW w \in Workers, UnlockReader(w) PROVE WriterLocks'
  <2>1. files' = files /\ \A v \in Workers : \A p : /\ Writes(v, p)' <=> Writes(v, p)
                                                    /\ Evicts(v, p)' <=> Evicts(v, p)
    BY <1>14 DEF UnlockReader, Writes, Evicts, SInv, TypeOK
  <2>2. ASSUME NEW p \in reading[w], file' = [file EXCEPT ![p].n_readers = @ - 1]
        PROVE  WriterLocks'
    <3>1. p \in Paths /\ Reads(w, p)
      BY DEF Reads, SInv, TypeOK
    <3>2. /\ \A q \in Paths : q # p => file'[q] = file[q]
          /\ file'[p].can_be_expelled = file[p].can_be_expelled
          /\ file'[p].n_writers = file[p].n_writers
          /\ file[p].n_readers # 0 /\ p \in files
      BY <2>2, <3>1, UnlockedReader
    <3>3. \A v \in Workers : ~Writes(v, p)
      BY <3>2 DEF SInv, WriterLocks
    <3> QED
      BY <2>1, <3>2, <3>3 DEF SInv, TypeOK, WriterLocks
  <2> QED
    BY <1>14, <2>1, <2>2 DEF UnlockReader, SInv, WriterLocks
<1>15. ASSUME NEW c \in Clients, CloseClient(c) PROVE WriterLocks'
  BY <1>15 DEF CloseClient, SInv, WriterLocks, Writes, Evicts, store
<1>16. CASE ForgetFiles
  <2>1. \A q \in files : /\ file'[q].n_writers = file[q].n_writers
                         /\ file'[q].can_be_expelled = file[q].can_be_expelled
    BY <1>16, ForgottenFile DEF ForgetFiles, SInv, TypeOK
  <2>2. \A v \in Workers : pc[v] \notin InMutex
    BY <1>16, StoreAssumption DEF ForgetFiles, SInv, Owners
  <2>3. \A q \in files : file[q].n_writers = 0 /\ file[q].can_be_expelled = TRUE
    BY <2>2, FreeOfWriters DEF Writes, InMutex
  <2> QED
    BY <1>16, <2>1, <2>2, <2>3, AllFree DEF ForgetFiles, InMutex
<1> QED
  BY <1>1, <1>2, <1>3, <1>4, <1>5, <1>6, <1>7, <1>8, <1>9, <1>10, <1>11, <1>12, <1>13, <1>14,
     <1>15, <1>16, StepKinds DEF HandlerStep

-----------------------------------------------------------------------------
\* The holders after a step are finitely many, too.
LEMMA HoldersFinite2 ==
    ASSUME NEW p
    PROVE  /\ IsFiniteSet(Holders(p)')
           /\ Cardinality(Holders(p)') \in Nat
           /\ Cardinality(Holders(p)') = 0 <=> Holders(p)' = {}
<1>1. Holders(p)' \in SUBSET Workers
  BY DEF Holders
<1>2. IsFiniteSet(Holders(p)')
  BY <1>1, StoreAssumption, FS_Subset
<1> QED
  BY <1>2, FS_CardinalityType, FS_EmptySet

\* Nobody starts reading p, and its counter stays.
LEMMA FewerHolders ==
    ASSUME SInv, NEW p \in Paths, Holders(p)' \subseteq Holders(p),
           ~SendFailures => Holders(p)' = Holders(p),
           p \in files => p \in files' /\ file'[p].n_readers = file[p].n_readers,
           p \in files' => p \in files
    PROVE  Counted(p)'
<1>1. Counted(p) /\ (p \in files => file[p].n_readers \in Nat)
  BY FileFields DEF SInv, ReaderLocks, TypeOK
<1>2. Cardinality(Holders(p)') <= Cardinality(Holders(p))
  BY HoldersFinite, FS_Subset
<1>3. Cardinality(Holders(p)') \in Nat /\ Cardinality(Holders(p)) \in Nat
  BY HoldersFinite, HoldersFinite2
<1>4. Holders(p)' # {} => p \in files'
  BY <1>1 DEF Counted
<1>5. p \in files' => file'[p].n_readers >= Cardinality(Holders(p)')
  BY <1>1, <1>2, <1>3 DEF Counted
<1>6. p \in files' /\ ~SendFailures => file'[p].n_readers = Cardinality(Holders(p)')
  BY <1>1 DEF Counted
<1> QED
  BY <1>4, <1>5, <1>6 DEF Counted

\* Nobody reads p.
LEMMA NoHolders ==
    ASSUME NEW p \in Paths, Holders(p)' = {}, p \in files' => file'[p].n_readers = 0
    PROVE  Counted(p)'
<1>1. Cardinality(Holders(p)') = 0
  BY FS_EmptySet
<1> QED
  BY <1>1 DEF Counted

\* A worker starts reading p, and is counted.
LEMMA OneMoreHolder ==
    ASSUME SInv, NEW p \in files, NEW w \in Workers, Holders(p)' = Holders(p) \cup {w},
           w \notin Holders(p), p \in files', file'[p].n_readers = file[p].n_readers + 1
    PROVE  Counted(p)'
<1>1. Counted(p) /\ file[p].n_readers \in Nat
  BY FileFields DEF SInv, ReaderLocks, TypeOK
<1>2. Cardinality(Holders(p)) \in Nat /\ IsFiniteSet(Holders(p))
  BY HoldersFinite
<1>3. Cardinality(Holders(p)') = Cardinality(Holders(p)) + 1
  BY <1>2, FS_AddElement
<1> QED
  BY <1>1, <1>2, <1>3 DEF Counted

\* A worker stops reading p, and is no longer counted.
LEMMA OneHolderLess ==
    ASSUME SInv, NEW p \in files, NEW w \in Holders(p), Holders(p)' = Holders(p) \ {w},
           p \in files', file'[p].n_readers = file[p].n_readers - 1
    PROVE  Counted(p)'
<1>1. Counted(p) /\ file[p].n_readers \in Nat
  BY FileFields DEF SInv, ReaderLocks, TypeOK
<1>2. Cardinality(Holders(p)) \in Nat /\ IsFiniteSet(Holders(p))
  BY HoldersFinite
<1>3. Cardinality(Holders(p)') = Cardinality(Holders(p)) - 1
  BY <1>2, FS_RemoveElement
<1>4. Cardinality(Holders(p)') \in Nat
  BY HoldersFinite2
<1>5. file'[p].n_readers >= Cardinality(Holders(p)')
  BY <1>1, <1>2, <1>3, <1>4 DEF Counted
<1>6. ~SendFailures => file'[p].n_readers = Cardinality(Holders(p)')
  BY <1>1, <1>2, <1>3 DEF Counted
<1> QED
  BY <1>5, <1>6 DEF Counted

\* A file without readers has no holders.
LEMMA UnreadFile ==
    ASSUME SInv, NEW p \in files, file[p].n_readers = 0
    PROVE  Holders(p) = {}
<1>1. Counted(p)
  BY DEF SInv, ReaderLocks, TypeOK
<1>2. Cardinality(Holders(p)) \in Nat
  BY HoldersFinite
<1>3. Cardinality(Holders(p)) = 0
  BY <1>1, <1>2 DEF Counted
<1> QED
  BY <1>3, HoldersFinite

\* Nobody reads a file that is not stored.
LEMMA UnstoredFile ==
    ASSUME SInv, NEW p \in Paths, p \notin files
    PROVE  Holders(p) = {}
  BY DEF SInv, ReaderLocks, Counted

\* The readers of the other files are not touched when a file is deleted.
LEMMA ReadersKept ==
    ASSUME SInv, files' \subseteq files,
           \A p \in files' : file'[p].n_readers = file[p].n_readers,
           \A p \in files \ files' : file[p].n_readers = 0,
           \A v \in Workers, p \in Paths : Reads(v, p)' => Reads(v, p),
           ~SendFailures => \A v \in Workers, p \in Paths : Reads(v, p) => Reads(v, p)'
    PROVE  ReaderLocks'
<1> SUFFICES ASSUME NEW p \in Paths PROVE Counted(p)'
  BY DEF ReaderLocks
<1>1. Holders(p)' \subseteq Holders(p) /\ (~SendFailures => Holders(p)' = Holders(p))
  BY DEF Holders
<1>2. CASE p \in files <=> p \in files'
  BY <1>1, <1>2, FewerHolders
<1>3. CASE p \in files /\ p \notin files'
  BY <1>1, <1>3, UnreadFile, NoHolders
<1> QED
  BY <1>2, <1>3

\* A handler that ends, or goes on to expel files, reads nothing new.
LEMMA NoNewReads ==
    ASSUME SInv, NEW w \in Workers, NEW l, l # "locked", pc' = [pc EXCEPT ![w] = l],
           pc[w] # "locked" \/ req[w].op # "read", req' = req, reading' = reading
    PROVE  \A v \in Workers, p \in Paths : Reads(v, p)' <=> Reads(v, p)
  BY DEF SInv, TypeOK, Reads

\* The readers of a file are counted by its lock.
LEMMA NextReaderLocks == ASSUME SInv, [Next]_vars PROVE ReaderLocks'
<1>1. CASE Still
  BY <1>1, ReadersKept DEF Still, Reads
<1>2. ASSUME NEW w \in Workers, Outside(w) PROVE ReaderLocks'
  <2>1. /\ \A v \in Workers, p \in Paths : Reads(v, p)' => Reads(v, p)
        /\ ~SendFailures => \A v \in Workers, p \in Paths : Reads(v, p) => Reads(v, p)'
    BY <1>2 DEF Outside, Reads, InMutex
  <2> QED
    BY <1>2, <2>1, ReadersKept DEF Outside
<1>3. ASSUME NEW w \in Workers, NEW c \in Clients, NEW r \in Requests, LockFiles(w, c, r)
      PROVE  ReaderLocks'
  <2>1. \A v \in Workers, p \in Paths : Reads(v, p)' <=> Reads(v, p)
    BY <1>3 DEF LockFiles, Reads, SInv, TypeOK, locals
  <2> QED
    BY <1>3, <2>1, ReadersKept DEF LockFiles, store
<1>4. ASSUME NEW w \in Workers, LeavesCritical(w) PROVE ReaderLocks'
  <2>1. \A v \in Workers, p \in Paths : Reads(v, p)' <=> Reads(v, p)
    BY <1>4, NoNewReads DEF LeavesCritical, Return, locals
  <2> QED
    BY <1>4, <2>1, ReadersKept DEF LeavesCritical, store
<1>5. ASSUME NEW w \in Workers, LockFile(w) PROVE ReaderLocks'
  <2>0. PICK p : p = req[w].path
    OBVIOUS
  <2>1. files' = files /\ pc[w] = "critical" /\ reading' = reading /\ req' = req
    BY <1>5 DEF LockFile, locals
  <2>2. p \in files /\ p \in Paths /\ \A q \in Paths : q # p => file'[q] = file[q]
    BY <1>5, <2>0, LockFileEffect
  <2>3. \A v \in Workers, q \in Paths : v # w \/ q # p => (Reads(v, q)' <=> Reads(v, q))
    BY <1>5, <2>0, <2>1 DEF LockFile, Reads, SInv, TypeOK
  <2>3a. ~Reads(w, p)
    BY <2>1 DEF Reads, SInv, Requested, Knows
  <2>4. ASSUME NEW q \in Paths, q # p PROVE Counted(q)'
    <3>1. Holders(q)' = Holders(q)
      BY <2>3, <2>4 DEF Holders
    <3> QED
      BY <2>1, <2>2, <2>4, <3>1, FewerHolders
  <2>5. CASE req[w].op = "read"
    <3>1. file'[p].n_readers = file[p].n_readers + 1
      BY <1>5, <2>0, <2>5, LockFileEffect
    <3>2. Reads(w, p)'
      BY <1>5, <2>0, <2>1, <2>5 DEF LockFile, Reads, SInv, TypeOK
    <3>3. Holders(p)' = Holders(p) \cup {w} /\ w \notin Holders(p)
      BY <2>2, <2>3, <2>3a, <3>2 DEF Holders
    <3>4. Counted(p)'
      BY <2>1, <2>2, <3>1, <3>3, OneMoreHolder
    <3> QED
      BY <2>4, <3>4 DEF ReaderLocks
  <2>6. CASE req[w].op # "read"
    <3>1. file'[p].n_readers = file[p].n_readers
      BY <1>5, <2>0, <2>6, LockFileEffect
    <3>2. ~Reads(w, p)'
      BY <2>1, <2>6 DEF Reads, SInv, Requested, Knows
    <3>3. Holders(p)' = Holders(p)
      BY <2>2, <2>3, <2>3a, <3>2 DEF Holders
    <3>4. Counted(p)'
      BY <2>1, <2>2, <3>1, <3>3, FewerHolders
    <3> QED
      BY <2>4, <3>4 DEF ReaderLocks
  <2> QED
    BY <2>5, <2>6
<1>6. ASSUME NEW w \in Workers, Create(w) \/ CreateExpelling(w) PROVE ReaderLocks'
  <2> DEFINE p == req[w].path
  <2>1. \A v \in Workers, q \in Paths : Reads(v, q)' <=> Reads(v, q)
    BY <1>6, NoNewReads DEF Create, CreateExpelling, Insert, Return, locals
  <2>2. /\ p \in Paths /\ p \notin files /\ NewIn(p)
        /\ \E V \in SUBSET files :
             /\ files' = (files \ V) \cup {p}
             /\ \A q \in V : file[q].n_readers = 0
             /\ \A q \in files \ V : file'[q] = file[q]
    <3>1. CASE Create(w)
      <4>1. /\ p \in Paths /\ p \notin files /\ NewIn(p)
            /\ files' = files \cup {p}
            /\ \A q \in files : file'[q] = file[q]
        BY <3>1, CreateEffect
      <4> HIDE DEF p
      <4>2. {} \in SUBSET files /\ files \ {} = files
        OBVIOUS
      <4> QED
        BY <4>1, <4>2
    <3>2. CASE CreateExpelling(w)
      <4>1. p \in Paths /\ p \notin files /\ NewIn(p)
        BY <3>2, CreateExpellingEffect
      <4>2. PICK v \in files : /\ Unused(v)
                               /\ files' = (files \ {v}) \cup {p}
                               /\ \A q \in files : q # v => file'[q] = file[q]
        BY <3>2, CreateExpellingEffect
      <4> HIDE DEF p
      <4>3. {v} \in SUBSET files /\ (\A q \in {v} : file[q].n_readers = 0)
        BY <4>2 DEF Unused
      <4> QED
        BY <4>1, <4>2, <4>3
    <3> QED
      BY <1>6, <3>1, <3>2
  <2> HIDE DEF p
  <2>3. PICK V \in SUBSET files :
             /\ files' = (files \ V) \cup {p}
             /\ \A q \in V : file[q].n_readers = 0
             /\ \A q \in files \ V : file'[q] = file[q]
    BY <2>2
  <2> SUFFICES ASSUME NEW q \in Paths PROVE Counted(q)'
    BY DEF ReaderLocks
  <2>4. Holders(q)' = Holders(q)
    BY <2>1 DEF Holders
  <2>5. CASE q = p
    <3>1. Holders(q)' = {}
      BY <2>2, <2>4, <2>5, UnstoredFile
    <3> QED
      BY <2>2, <2>5, <3>1, NoHolders DEF NewIn
  <2>6. CASE q \in V
    <3>1. Holders(q)' = {}
      BY <2>3, <2>4, <2>6, UnreadFile
    <3> QED
      BY <2>2, <2>3, <2>6, <3>1, NoHolders
  <2>7. CASE q # p /\ q \notin V
    BY <2>3, <2>4, <2>7, FewerHolders
  <2> QED
    BY <2>5, <2>6, <2>7
<1>7. ASSUME NEW w \in Workers, EndsWriter(w) PROVE ReaderLocks'
  <2>1. \A v \in Workers, p \in Paths : Reads(v, p)' <=> Reads(v, p)
    BY <1>7, NoNewReads DEF EndsWriter, Return, locals
  <2>2. req[w].path \in files /\ files' = files
    BY <1>7, LockedFile DEF EndsWriter
  <2>3. \A p \in files : file'[p].n_readers = file[p].n_readers
    BY <1>7, <2>2, OneFileChanged DEF EndsWriter, SInv, TypeOK
  <2> QED
    BY <2>1, <2>2, <2>3, ReadersKept
<1>8. ASSUME NEW w \in Workers, Read(w) PROVE ReaderLocks'
  <2>0. PICK p : p = req[w].path
    OBVIOUS
  <2>1. /\ pc[w] = "locked" /\ req[w].op = "read" /\ files' = files /\ req' = req
        /\ p \in files /\ p \in Paths /\ Reads(w, p)
    BY <1>8, <2>0, LockedFile DEF Read, Reads
  <2>2. CASE /\ file' = [file EXCEPT ![p].n_readers = @ - 1]
             /\ pc' = [pc EXCEPT ![w] = "answer"]
             /\ reading' = reading
    <3>1. /\ \A q \in Paths : q # p => file'[q] = file[q]
          /\ file'[p].n_readers = file[p].n_readers - 1
      BY <2>1, <2>2, UnlockedReader
    <3>2. reading[w] = {}
      BY <2>1 DEF SInv, Requested, Knows
    <3>3. /\ ~Reads(w, p)'
          /\ \A v \in Workers, q \in Paths : v # w \/ q # p => (Reads(v, q)' <=> Reads(v, q))
      BY <2>0, <2>1, <2>2, <3>2 DEF SInv, TypeOK, Reads
    <3>4. Holders(p)' = Holders(p) \ {w} /\ w \in Holders(p)
      BY <2>1, <3>3 DEF Holders
    <3>5. Counted(p)'
      BY <2>1, <3>1, <3>4, OneHolderLess
    <3>6. ASSUME NEW q \in Paths, q # p PROVE Counted(q)'
      <4>1. Holders(q)' = Holders(q)
        BY <3>3, <3>6 DEF Holders
      <4> QED
        BY <2>1, <3>1, <3>6, <4>1, FewerHolders
    <3> QED
      BY <3>5, <3>6 DEF ReaderLocks
  <2>3. CASE /\ reading' = [reading EXCEPT ![w] = {p}]
             /\ pc' = [pc EXCEPT ![w] = "sending"]
             /\ file' = file
    <3>0. reading[w] = {}
      BY <2>1 DEF SInv, Requested, Knows
    <3>1. \A v \in Workers, q \in Paths : Reads(v, q)' <=> Reads(v, q)
      BY <2>0, <2>1, <2>3, <3>0 DEF Reads, SInv, TypeOK
    <3> QED
      BY <2>1, <2>3, <3>1, ReadersKept
  <2> QED
    BY <1>8, <2>0, <2>2, <2>3 DEF Read, Return
<1>9. ASSUME NEW w \in Workers, Selects(w) PROVE ReaderLocks'
  <2>1. PICK S \in SUBSET files :
         /\ file' = [p \in Paths |-> IF p \in S THEN [file[p] EXCEPT !.n_readers = @ + 1]
                                                ELSE file[p]]
         /\ reading' = [reading EXCEPT ![w] = S]
    BY <1>9 DEF Selects
  <2>2. /\ pc[w] = "critical" /\ files' = files /\ req' = req
        /\ pc' = [pc EXCEPT ![w] = "sending"]
    BY <1>9 DEF Selects
  <2>3. \A v \in Workers, q \in Paths :
            Reads(v, q)' <=> Reads(v, q) \/ (v = w /\ q \in S)
    BY <2>1, <2>2 DEF SInv, TypeOK, Reads, Requested, Knows
  <2> SUFFICES ASSUME NEW q \in Paths PROVE Counted(q)'
    BY DEF ReaderLocks
  <2>4. CASE q \in S
    <3>1. file'[q].n_readers = file[q].n_readers + 1
      BY <2>1, <2>4 DEF SInv, TypeOK, FileT
    <3>2. Holders(q)' = Holders(q) \cup {w} /\ w \notin Holders(q)
      BY <2>2, <2>3, <2>4 DEF Holders, Reads, SInv, Requested, Knows
    <3> QED
      BY <2>2, <2>4, <3>1, <3>2, OneMoreHolder
  <2>5. CASE q \notin S
    <3>1. Holders(q)' = Holders(q)
      BY <2>3, <2>5 DEF Holders
    <3>2. file'[q] = file[q]
      BY <2>1, <2>5
    <3> QED
      BY <2>2, <3>1, <3>2, FewerHolders
  <2> QED
    BY <2>4, <2>5
<1>10. ASSUME NEW w \in Workers, Grows(w) PROVE ReaderLocks'
  <2>1. \A v \in Workers, p \in Paths : Reads(v, p)' <=> Reads(v, p)
    BY <1>10, NoNewReads DEF Grows, Grow, locals
  <2>2. files' = files
    BY <1>10 DEF Grows, Grow
  <2>3. \A p \in Paths : file'[p].n_readers = file[p].n_readers
    BY <1>10, GrowFile
  <2> QED
    BY <2>1, <2>2, <2>3, ReadersKept DEF SInv, TypeOK
<1>11. ASSUME NEW w \in Workers, ExpellOne(w) PROVE ReaderLocks'
  <2>1. PICK v \in files : /\ Oldest(v) /\ files' = files \ {v}
                           /\ file' = [file EXCEPT ![v] = Blank]
    BY <1>11 DEF ExpellOne
  <2>2. file[v].n_readers = 0
    BY <1>11, <2>1 DEF ExpellOne, Oldest, CanExpell, Unused
  <2>3. \A p \in files' : file'[p] = file[p]
    BY <2>1 DEF SInv, TypeOK
  <2>4. \A u \in Workers, p \in Paths : Reads(u, p)' <=> Reads(u, p)
    BY <1>11 DEF ExpellOne, Reads
  <2> QED
    BY <2>1, <2>2, <2>3, <2>4, ReadersKept
<1>12. ASSUME NEW w \in Workers, ExpellDone(w) PROVE ReaderLocks'
  <2> DEFINE f == [WriterUnlocked(file[req[w].path]) EXCEPT !.can_be_expelled = TRUE]
  <2>1. /\ req[w].path \in files /\ file[req[w].path] \in FileT
        /\ file[req[w].path].n_writers = 1
    BY <1>12, LockedFile DEF ExpellDone, SInv, Requested, Knows
  <2>2. f \in FileT /\ f.n_readers = file[req[w].path].n_readers
    BY <2>1, ReleasedFile
  <2>3. file' = [file EXCEPT ![req[w].path] = f] /\ files' = files
    BY <1>12 DEF ExpellDone
  <2> HIDE DEF f
  <2>4. \A p \in files : file'[p].n_readers = file[p].n_readers
    BY <2>1, <2>2, <2>3, OneFileChanged DEF SInv, TypeOK
  <2>5. \A v \in Workers, p \in Paths : Reads(v, p)' <=> Reads(v, p)
    BY <1>12, NoNewReads DEF ExpellDone, locals
  <2> QED
    BY <2>3, <2>4, <2>5, ReadersKept
<1>13. ASSUME NEW w \in Workers, Removes(w) PROVE ReaderLocks'
  <2>1. \A v \in Workers, p \in Paths : Reads(v, p)' <=> Reads(v, p)
    BY <1>13, NoNewReads DEF Removes, Return, locals
  <2>2. file[req[w].path].n_readers = 0
    BY <1>13, LockedFile DEF Removes
  <2>3. files' = files \ {req[w].path} /\ \A p \in files' : file'[p] = file[p]
    BY <1>13 DEF Removes, SInv, TypeOK
  <2> QED
    BY <2>1, <2>2, <2>3, ReadersKept
<1>14. ASSUME NEW w \in Workers, UnlockReader(w) PROVE ReaderLocks'
  <2>1. files' = files /\ pc[w] = "unlocking" /\ req' = req
    BY <1>14 DEF UnlockReader
  <2>2. CASE reading' = reading /\ file' = file /\ pc' = [pc EXCEPT ![w] = "answer"]
    <3>1. \A v \in Workers, p \in Paths : Reads(v, p)' <=> Reads(v, p)
      BY <2>1, <2>2, NoNewReads
    <3> QED
      BY <2>1, <2>2, <3>1, ReadersKept
  <2>3. ASSUME NEW p \in reading[w], file' = [file EXCEPT ![p].n_readers = @ - 1],
               reading' = [reading EXCEPT ![w] = @ \ {p}], pc' = pc
        PROVE  ReaderLocks'
    <3>1. p \in Paths /\ Reads(w, p)
      BY DEF Reads, SInv, TypeOK
    <3>2. /\ \A q \in Paths : q # p => file'[q] = file[q]
          /\ file'[p].n_readers = file[p].n_readers - 1
          /\ p \in files
      BY <2>3, <3>1, UnlockedReader
    <3>3. /\ ~Reads(w, p)'
          /\ \A v \in Workers, q \in Paths : v # w \/ q # p => (Reads(v, q)' <=> Reads(v, q))
      BY <2>1, <2>3 DEF SInv, TypeOK, Reads
    <3>4. Holders(p)' = Holders(p) \ {w} /\ w \in Holders(p)
      BY <3>1, <3>3 DEF Holders
    <3>5. Counted(p)'
      BY <2>1, <3>2, <3>4, OneHolderLess
    <3>6. ASSUME NEW q \in Paths, q # p PROVE Counted(q)'
      <4>1. Holders(q)' = Holders(q)
        BY <3>3, <3>6 DEF Holders
      <4> QED
        BY <2>1, <3>2, <3>6, <4>1, FewerHolders
    <3> QED
      BY <3>5, <3>6 DEF ReaderLocks
  <2> QED
    BY <1>14, <2>2, <2>3 DEF UnlockReader
<1>15. ASSUME NEW c \in Clients, CloseClient(c) PROVE ReaderLocks'
  BY <1>15, ReadersKept DEF CloseClient, Reads, store, locals
<1>16. CASE ForgetFiles
  <2>1. \A q \in files : file'[q].n_readers = file[q].n_readers
    BY <1>16, ForgottenFile DEF ForgetFiles, SInv, TypeOK
  <2> QED
    BY <1>16, <2>1, ReadersKept DEF ForgetFiles, Reads, locals
<1> QED
  BY <1>1, <1>2, <1>3, <1>4, <1>5, <1>6, <1>7, <1>8, <1>9, <1>10, <1>11, <1>12, <1>13, <1>14,
     <1>15, <1>16, StepKinds DEF HandlerStep

-----------------------------------------------------------------------------
(***************************************************************************)
(* Steps that neither store, nor resize, nor delete a file; the others.    *)
(***************************************************************************)
Quiet == /\ \A w \in Workers : pc'[w] = "expelling" <=> pc[w] = "expelling"
         /\ \A p \in files : file'[p].size = file[p].size
         /\ UNCHANGED <<files, curr_state, size_to_free, freed>>

Resizes(w) == \/ Create(w) \/ CreateExpelling(w) \/ Grows(w)
              \/ ExpellOne(w) \/ ExpellDone(w) \/ Removes(w)

\* Only six kinds of steps may change what is stored.
LEMMA QuietSteps ==
    ASSUME SInv, [Next]_vars
    PROVE  Quiet \/ \E w \in Workers : Resizes(w)
<1>1. CASE Still
  BY <1>1 DEF Still, Quiet, loop
<1>2. ASSUME NEW w \in Workers, Outside(w) PROVE Quiet
  BY <1>2 DEF Outside, Quiet, InMutex, loop
<1>3. ASSUME NEW w \in Workers, NEW c \in Clients, NEW r \in Requests, LockFiles(w, c, r)
      PROVE  Quiet
  BY <1>3 DEF LockFiles, Quiet, SInv, TypeOK, store, loop
<1>4. ASSUME NEW w \in Workers, LeavesCritical(w) PROVE Quiet
  BY <1>4 DEF LeavesCritical, Return, Quiet, SInv, TypeOK, store, loop
<1>5. ASSUME NEW w \in Workers, LockFile(w) PROVE Quiet
  <2>1. \A p \in files : file'[p].size = file[p].size
    BY <1>5, LockFileEffect DEF SInv, TypeOK
  <2> QED
    BY <1>5, <2>1 DEF LockFile, Quiet, SInv, TypeOK, loop
<1>6. ASSUME NEW w \in Workers, EndsWriter(w) PROVE Quiet
  <2>1. req[w].path \in files
    BY <1>6, LockedFile DEF EndsWriter
  <2>2. \A p \in files : file'[p].size = file[p].size
    BY <1>6, <2>1, OneFileChanged DEF EndsWriter, SInv, TypeOK
  <2> QED
    BY <1>6, <2>2 DEF EndsWriter, Return, Quiet, SInv, TypeOK, loop
<1>7. ASSUME NEW w \in Workers, Read(w) PROVE Quiet
  <2>1. req[w].path \in Paths /\ Reads(w, req[w].path)
    BY <1>7, LockedFile DEF Read, Reads
  <2>2. \A p \in files : file'[p].size = file[p].size
    <3>1. CASE file' = [file EXCEPT ![req[w].path].n_readers = @ - 1]
      BY <2>1, <3>1, UnlockedReader DEF SInv, TypeOK
    <3> QED
      BY <1>7, <3>1 DEF Read
  <2> QED
    BY <1>7, <2>2 DEF Read, Return, Quiet, SInv, TypeOK, loop
<1>8. ASSUME NEW w \in Workers, Selects(w) PROVE Quiet
  <2>1. \A p \in files : file'[p].size = file[p].size
    BY <1>8 DEF Selects, SInv, TypeOK, FileT
  <2> QED
    BY <1>8, <2>1 DEF Selects, Quiet, SInv, TypeOK, loop
<1>9. ASSUME NEW w \in Workers, UnlockReader(w) PROVE Quiet
  <2>1. ASSUME NEW p \in reading[w], file' = [file EXCEPT ![p].n_readers = @ - 1]
        PROVE  \A q \in files : file'[q].size = file[q].size
    <3>1. p \in Paths /\ Reads(w, p)
      BY DEF Reads, SInv, TypeOK
    <3> QED
      BY <2>1, <3>1, UnlockedReader DEF SInv, TypeOK
  <2>2. \A q \in files : file'[q].size = file[q].size
    BY <1>9, <2>1 DEF UnlockReader
  <2> QED
    BY <1>9, <2>2 DEF UnlockReader, Quiet, SInv, TypeOK, loop
<1>10. ASSUME NEW c \in Clients, CloseClient(c) PROVE Quiet
  BY <1>10 DEF CloseClient, Quiet, store, loop
<1>11. CASE ForgetFiles
  <2>1. \A q \in files : file'[q].size = file[q].size
    BY <1>11, ForgottenFile DEF ForgetFiles, SInv, TypeOK
  <2> QED
    BY <1>11, <2>1 DEF ForgetFiles, Quiet, loop
<1> QED
  BY <1>1, <1>2, <1>3, <1>4, <1>5, <1>6, <1>7, <1>8, <1>9, <1>10, <1>11, StepKinds
  DEF HandlerStep, Resizes

\* What one turn of the eviction loop does to the store.
LEMMA ExpellOneEffect ==
    ASSUME SInv, NEW w \in Workers, ExpellOne(w)
    PROVE  \E v \in files :
             /\ Oldest(v)
             /\ files' = files \ {v}
             /\ \A q \in files : q # v => file'[q] = file[q]
             /\ curr_state'.files = curr_state.files - 1
             /\ curr_state'.space = curr_state.space - file[v].size
             /\ curr_state'.max_space = curr_state.max_space
             /\ freed' = freed + file[v].size
  BY DEF ExpellOne, SInv, TypeOK

\* What an accepted removeFile does to the store.
LEMMA RemovesEffect ==
    ASSUME SInv, NEW w \in Workers, Removes(w), NEW p, p = req[w].path
    PROVE  /\ p \in files
           /\ files' = files \ {p}
           /\ \A q \in files : q # p => file'[q] = file[q]
           /\ curr_state'.files = curr_state.files - 1
           /\ curr_state'.space = curr_state.space - file[p].size
           /\ curr_state'.max_space = curr_state.max_space
<1>1. p \in files
  BY LockedFile DEF Removes
<1> QED
  BY <1>1 DEF Removes, SInv, TypeOK

\* What an accepted write or append does to the statistics.
LEMMA GrowsEffect ==
    ASSUME SInv, NEW w \in Workers, Grows(w), NEW n, n = req[w].size
    PROVE  /\ n \in Nat
           /\ files' = files
           /\ curr_state'.files = curr_state.files
           /\ curr_state'.space = curr_state.space + n
           /\ \/ /\ pc' = [pc EXCEPT ![w] = "expelling"]
                 /\ curr_state.space + n > MaxSpace
                 /\ curr_state'.max_space = curr_state.max_space
                 /\ size_to_free' = (curr_state.space + n) - MaxSpace
                 /\ freed' = 0
              \/ /\ pc' = [pc EXCEPT ![w] = "sending"]
                 /\ curr_state.space + n <= MaxSpace
                 /\ curr_state'.max_space = IF curr_state.space + n > curr_state.max_space
                                            THEN curr_state.space + n
                                            ELSE curr_state.max_space
<1>1. /\ n \in Nat /\ Grow(w, n)
      /\ curr_state \in [files : Nat, space : Nat, max_files : Nat, max_space : Nat]
  BY DEF Grows, SInv, TypeOK
<1>2. PICK space : space = curr_state.space + n
  OBVIOUS
<1>3. files' = files
  BY <1>1 DEF Grow
<1>4. CASE space > MaxSpace
  <2>1. /\ curr_state' = [curr_state EXCEPT !.space = space]
        /\ size_to_free' = space - MaxSpace
        /\ freed' = 0
        /\ pc' = [pc EXCEPT ![w] = "expelling"]
    BY <1>1, <1>2, <1>4, StoreAssumption DEF Grow
  <2>2. /\ curr_state'.files = curr_state.files
        /\ curr_state'.space = space
        /\ curr_state'.max_space = curr_state.max_space
    BY <1>1, <2>1
  <2> QED
    BY <1>1, <1>2, <1>3, <1>4, <2>1, <2>2
<1>5. CASE space <= MaxSpace
  <2>1. /\ curr_state' = SpaceSettled([curr_state EXCEPT !.space = space])
        /\ pc' = [pc EXCEPT ![w] = "sending"]
    BY <1>1, <1>2, <1>5, StoreAssumption DEF Grow
  <2>2. /\ curr_state'.files = curr_state.files
        /\ curr_state'.space = space
        /\ curr_state'.max_space = IF space > curr_state.max_space
                                   THEN space ELSE curr_state.max_space
    BY <1>1, <2>1 DEF SpaceSettled
  <2> QED
    BY <1>1, <1>2, <1>3, <1>5, <2>1, <2>2
<1> QED
  BY <1>1, <1>2, <1>4, <1>5, StoreAssumption

\* What the end of the eviction loop does to the file and the statistics.
LEMMA ExpellDoneEffect ==
    ASSUME SInv, NEW w \in Workers, ExpellDone(w)
    PROVE  /\ files' = files
           /\ \A q \in files : file'[q].size = file[q].size
           /\ curr_state'.files = curr_state.files
           /\ curr_state'.space = curr_state.space
           /\ curr_state'.max_space = IF curr_state.space > curr_state.max_space
                                      THEN curr_state.space ELSE curr_state.max_space
<1> DEFINE f == [WriterUnlocked(file[req[w].path]) EXCEPT !.can_be_expelled = TRUE]
<1>1. /\ req[w].path \in files /\ file[req[w].path] \in FileT
      /\ file[req[w].path].n_writers = 1
  BY LockedFile DEF ExpellDone, SInv, Requested, Knows
<1>2. f \in FileT /\ f.size = file[req[w].path].size
  BY <1>1, ReleasedFile
<1>3. file' = [file EXCEPT ![req[w].path] = f] /\ files' = files
  BY DEF ExpellDone
<1> HIDE DEF f
<1>4. \A q \in files : file'[q].size = file[q].size
  BY <1>1, <1>2, <1>3, OneFileChanged DEF SInv, TypeOK
<1> QED
  BY <1>3, <1>4 DEF ExpellDone, SpaceSettled, SInv, TypeOK

\* A handler that stores or deletes files without taking more space.
LEMMA RoomKept ==
    ASSUME SInv, NEW w \in Workers, pc[w] \in {"critical", "locked"},
           NEW l, l # "expelling", pc' = [pc EXCEPT ![w] = l],
           \A p \in files' : \/ p \in files /\ file'[p].size = file[p].size
                             \/ file'[p].size = 0,
           curr_state'.space <= curr_state.space,
           curr_state'.space \in Nat,
           curr_state'.max_space = curr_state.max_space
    PROVE  Room'
<1>1. \A v \in Workers : pc[v] # "expelling"
  BY AloneInMutex DEF InMutex
<1>2. \A v \in Workers : pc'[v] # "expelling"
  BY <1>1 DEF SInv, TypeOK
<1>3. /\ curr_state.space \in Nat /\ curr_state.max_space \in Nat
      /\ curr_state.space <= curr_state.max_space
  BY <1>1 DEF SInv, Room, TypeOK
<1>4. curr_state'.space <= curr_state'.max_space
  BY <1>3
<1>5. \A p \in files' : file'[p].size <= MaxSpace
  BY StoreAssumption DEF SInv, Room
<1> QED
  BY <1>2, <1>4, <1>5 DEF SInv, Room

\* The store is over its limit only while files are being expelled.
LEMMA NextRoom == ASSUME SInv, [Next]_vars PROVE Room'
<1>1. CASE Quiet
  BY <1>1 DEF Quiet, SInv, Room
<1>2. ASSUME NEW w \in Workers, Create(w) PROVE Room'
  <2>1. pc[w] = "critical" /\ pc' = [pc EXCEPT ![w] = "answer"]
    BY <1>2 DEF Create, Insert, Return
  <2>2. /\ \A p \in files' : (p \in files /\ file'[p].size = file[p].size) \/ file'[p].size = 0
        /\ curr_state'.space = curr_state.space
        /\ curr_state'.max_space = curr_state.max_space
    <3>1. PICK p : p = req[w].path
      OBVIOUS
    <3>2. /\ files' = files \cup {p}
          /\ \A q \in files : file'[q] = file[q]
          /\ NewIn(p)
          /\ curr_state'.space = curr_state.space
          /\ curr_state'.max_space = curr_state.max_space
      BY <1>2, <3>1, CreateEffect
    <3> QED
      BY <3>2 DEF NewIn
  <2>3. curr_state'.space \in Nat /\ curr_state'.space <= curr_state.space
    BY <2>2 DEF SInv, TypeOK
  <2> QED
    BY <2>1, <2>2, <2>3, RoomKept
<1>3. ASSUME NEW w \in Workers, CreateExpelling(w) PROVE Room'
  <2>1. pc[w] = "critical" /\ pc' = [pc EXCEPT ![w] = "answer"]
    BY <1>3 DEF CreateExpelling, Insert, Return
  <2>2. PICK v \in files :
          /\ files' = (files \ {v}) \cup {req[w].path}
          /\ \A q \in files : q # v => file'[q] = file[q]
          /\ curr_state'.space = curr_state.space - file[v].size
          /\ curr_state'.max_space = curr_state.max_space
    BY <1>3, CreateExpellingEffect
  <2>3. NewIn(req[w].path)
    BY <1>3, CreateExpellingEffect
  <2>4. \A p \in files' : (p \in files /\ file'[p].size = file[p].size) \/ file'[p].size = 0
    BY <2>2, <2>3 DEF NewIn
  <2>5. curr_state'.space \in Nat /\ curr_state'.space <= curr_state.space
    <3>1. curr_state.space - file[v].size \in Nat /\ file[v].size \in Nat
      BY FileAccounted
    <3>2. curr_state.space \in Nat
      BY DEF SInv, TypeOK
    <3> QED
      BY <2>2, <3>1, <3>2
  <2> QED
    BY <2>1, <2>2, <2>4, <2>5, RoomKept
<1>4. ASSUME NEW w \in Workers, Removes(w) PROVE Room'
  <2>1. pc[w] = "locked" /\ pc' = [pc EXCEPT ![w] = "answer"]
    BY <1>4 DEF Removes, Return
  <2>2. /\ req[w].path \in files
        /\ \A q \in files' : q \in files /\ file'[q] = file[q]
        /\ curr_state'.space = curr_state.space - file[req[w].path].size
        /\ curr_state'.max_space = curr_state.max_space
    BY <1>4, RemovesEffect
  <2>3. curr_state'.space \in Nat /\ curr_state'.space <= curr_state.space
    <3>1. /\ curr_state.space - file[req[w].path].size \in Nat
          /\ file[req[w].path].size \in Nat
      BY <2>2, FileAccounted
    <3>2. curr_state.space \in Nat
      BY DEF SInv, TypeOK
    <3> QED
      BY <2>2, <3>1, <3>2
  <2> QED
    BY <2>1, <2>2, <2>3, RoomKept
<1>5. ASSUME NEW w \in Workers, Grows(w) PROVE Room'
  <2>1. pc[w] = "locked" /\ req[w].path \in files /\ files \subseteq Paths
    BY <1>5, LockedFile DEF Grows, SInv, TypeOK
  <2>2. \A v \in Workers : v # w => pc[v] # "expelling"
    BY <2>1, AloneInMutex DEF InMutex
  <2>3. \A v \in Workers : pc[v] # "expelling"
    BY <2>1, <2>2
  <2>4. PICK n : n = req[w].size
    OBVIOUS
  <2>5. file[req[w].path].size + n <= MaxSpace
    BY <1>5, <2>4 DEF Grows
  <2>6. \A p \in files : file'[p].size <= MaxSpace
    BY <1>5, <2>1, <2>4, <2>5, GrowFile DEF SInv, Room
  <2>7. /\ curr_state.space \in Nat /\ curr_state.max_space \in Nat
        /\ curr_state.space <= curr_state.max_space /\ curr_state.max_space <= MaxSpace
    BY <2>3 DEF SInv, Room, TypeOK
  <2>8. CASE /\ pc' = [pc EXCEPT ![w] = "expelling"]
             /\ curr_state.space + n > MaxSpace
             /\ curr_state'.max_space = curr_state.max_space
             /\ size_to_free' = (curr_state.space + n) - MaxSpace
             /\ freed' = 0
    <3>1. curr_state'.space + freed' = MaxSpace + size_to_free'
      <4>1. n \in Nat /\ curr_state'.space = curr_state.space + n
        BY <1>5, <2>4, GrowsEffect
      <4>2. MaxSpace \in Nat
        BY StoreAssumption
      <4> QED
        BY <2>7, <2>8, <4>1, <4>2
    <3>2. pc'[w] = "expelling"
      BY <2>8 DEF SInv, TypeOK
    <3> QED
      BY <1>5, <2>4, <2>6, <2>7, <2>8, <3>1, <3>2, GrowsEffect DEF Room
  <2>9. CASE /\ pc' = [pc EXCEPT ![w] = "sending"]
             /\ curr_state.space + n <= MaxSpace
             /\ curr_state'.max_space = IF curr_state.space + n > curr_state.max_space
                                        THEN curr_state.space + n
                                        ELSE curr_state.max_space
    <3>1. n \in Nat /\ curr_state'.space = curr_state.space + n /\ files' = files
      BY <1>5, <2>4, GrowsEffect
    <3>2. curr_state'.space <= curr_state'.max_space /\ curr_state'.max_space <= MaxSpace
      BY <2>7, <2>9, <3>1
    <3>3. \A v \in Workers : pc'[v] # "expelling"
      BY <2>3, <2>9 DEF SInv, TypeOK
    <3> QED
      BY <2>6, <3>1, <3>2, <3>3 DEF Room
  <2> QED
    BY <1>5, <2>4, <2>8, <2>9, GrowsEffect
<1>6. ASSUME NEW w \in Workers, ExpellOne(w) PROVE Room'
  <2>1. PICK v \in files :
             /\ files' = files \ {v}
             /\ \A q \in files : q # v => file'[q] = file[q]
             /\ curr_state'.space = curr_state.space - file[v].size
             /\ curr_state'.max_space = curr_state.max_space
             /\ freed' = freed + file[v].size
    BY <1>6, ExpellOneEffect
  <2>2. pc[w] = "expelling" /\ pc' = pc /\ size_to_free' = size_to_free
    BY <1>6 DEF ExpellOne
  <2>3. curr_state'.space + freed' = curr_state.space + freed
    BY <2>1, FileFields DEF SInv, TypeOK
  <2> QED
    BY <2>1, <2>2, <2>3 DEF SInv, Room
<1>7. ASSUME NEW w \in Workers, ExpellDone(w) PROVE Room'
  <2>1. pc[w] = "expelling" /\ freed >= size_to_free /\ pc' = [pc EXCEPT ![w] = "sending"]
    BY <1>7 DEF ExpellDone
  <2>2. \A v \in Workers : pc'[v] # "expelling"
    BY <2>1, AloneInMutex DEF InMutex, SInv, TypeOK
  <2>3. curr_state.space + freed = MaxSpace + size_to_free
    BY <2>1 DEF SInv, Room
  <2>4. curr_state.space <= MaxSpace
    BY <2>1, <2>3, StoreAssumption DEF SInv, TypeOK
  <2>5. curr_state'.space <= curr_state'.max_space /\ curr_state'.max_space <= MaxSpace
    BY <1>7, <2>4, ExpellDoneEffect DEF SInv, Room, TypeOK
  <2> QED
    BY <1>7, <2>2, <2>5, ExpellDoneEffect DEF SInv, Room
<1> QED
  BY <1>1, <1>2, <1>3, <1>4, <1>5, <1>6, <1>7, QuietSteps DEF Resizes

-----------------------------------------------------------------------------
\* Positions in the store are naturals.
LEMMA BytesElements ==
    /\ \A b : b \in Bytes <=>
          /\ b \in Paths \X (1 .. MaxSpace) /\ b[1] \in files /\ b[2] <= file[b[1]].size
    /\ \A b : b \in Bytes' <=>
          /\ b \in Paths \X (1 .. MaxSpace) /\ b[1] \in files' /\ b[2] <= file'[b[1]].size
  BY DEF Bytes

\* What is stored does not change.
LEMMA BytesSame ==
    ASSUME \A q \in files : q \in files' /\ file'[q].size = file[q].size,
           \A q \in files' : q \in files \/ file'[q].size = 0
    PROVE  Bytes' = Bytes
<1>1. \A b : b \in Bytes' <=> b \in Bytes
  BY StoreAssumption, BytesElements
<1>2. Bytes' \subseteq Bytes /\ Bytes \subseteq Bytes'
  BY <1>1
<1> QED
  BY <1>2

\* A file is deleted, and perhaps an empty one created: its bytes are gone.
LEMMA BytesDeleted ==
    ASSUME SInv, NEW v \in files,
           v \in files' => file'[v].size = 0,
           \A q \in files \ {v} : q \in files' /\ file'[q].size = file[q].size,
           \A q \in files' : q \in files \ {v} \/ file'[q].size = 0
    PROVE  Cardinality(Bytes') = Cardinality(Bytes) - file[v].size
<1> DEFINE T == {v} \X (1 .. file[v].size)
<1>1. T \subseteq Bytes /\ IsFiniteSet(T) /\ Cardinality(T) = file[v].size /\ file[v].size \in Nat
  BY FileAccounted
<1>2. \A b : b \in T <=> b \in {v} \X (1 .. file[v].size)
  OBVIOUS
<1>3. \A b : b \in Bytes' <=> b \in Bytes /\ b \notin T
  <2> SUFFICES ASSUME NEW b PROVE b \in Bytes' <=> b \in Bytes /\ b \notin T
    OBVIOUS
  <2>1. CASE b \notin Paths \X (1 .. MaxSpace)
    BY <2>1, BytesElements
  <2>2. CASE b \in Paths \X (1 .. MaxSpace)
    <3>1. PICK q \in Paths, i \in 1 .. MaxSpace : b = <<q, i>>
      BY <2>2
    <3>2. i \in Nat /\ i > 0
      BY <3>1, StoreAssumption
    <3>3. b[1] = q /\ b[2] = i
      BY <3>1
    <3>4. b \in Bytes <=> q \in files /\ i <= file[q].size
      BY <2>2, <3>3, BytesElements
    <3>5. b \in Bytes' <=> q \in files' /\ i <= file'[q].size
      BY <2>2, <3>3, BytesElements
    <3>6. b \in T <=> q = v /\ i <= file[v].size
      BY <1>1, <3>1, <3>2
    <3> HIDE DEF T
    <3> QED
      BY <3>2, <3>4, <3>5, <3>6
  <2> QED
    BY <2>1, <2>2
<1> HIDE DEF T
<1>4. Bytes' = Bytes \ T
  <2>1. Bytes' \subseteq Bytes \ T /\ Bytes \ T \subseteq Bytes'
    BY <1>3
  <2> QED
    BY <2>1
<1>5. Bytes \cap T = T
  BY <1>1
<1>6. Cardinality(Bytes \ T) = Cardinality(Bytes) - Cardinality(Bytes \cap T)
  BY BytesFinite, FS_Difference
<1> QED
  BY <1>1, <1>4, <1>5, <1>6

\* A file grows by n bytes.
LEMMA BytesGrown ==
    ASSUME SInv, NEW p \in files, NEW n \in Nat, files' = files,
           file[p].size + n <= MaxSpace,
           file'[p].size = file[p].size + n,
           \A q \in files \ {p} : file'[q].size = file[q].size
    PROVE  Cardinality(Bytes') = Cardinality(Bytes) + n
<1>0. PICK k \in Nat : k = file[p].size
  BY FileAccounted
<1> DEFINE T == {p} \X ((k + 1) .. (k + n))
<1>1. IsFiniteSet(T) /\ Cardinality(T) = n
  <2>1. k + 1 \in Nat /\ k + n \in Nat /\ k + 1 <= (k + n) + 1
    OBVIOUS
  <2>2. (k + n) - (k + 1) + 1 = n
    OBVIOUS
  <2> QED
    BY <2>1, <2>2, Segment
<1>2. p \in Paths
  BY DEF SInv, TypeOK
<1>3. ASSUME NEW b PROVE /\ b \in Bytes' <=> b \in Bytes \/ b \in T
                         /\ ~(b \in Bytes /\ b \in T)
  <2>1. b \in T => b \in Paths \X (1 .. MaxSpace)
    BY <1>0, <1>2, StoreAssumption
  <2>2. CASE b \notin Paths \X (1 .. MaxSpace)
    <3> HIDE DEF T
    <3> QED
      BY <2>1, <2>2, BytesElements
  <2>3. CASE b \in Paths \X (1 .. MaxSpace)
    <3>1. PICK q \in Paths, i \in 1 .. MaxSpace : b = <<q, i>>
      BY <2>3
    <3>2. i \in Nat /\ i > 0
      BY <3>1, StoreAssumption
    <3>3. b[1] = q /\ b[2] = i
      BY <3>1
    <3>4. b \in Bytes <=> q \in files /\ i <= file[q].size
      BY <2>3, <3>3, BytesElements
    <3>5. b \in Bytes' <=> q \in files' /\ i <= file'[q].size
      BY <2>3, <3>3, BytesElements
    <3>6. b \in T <=> q = p /\ k < i /\ i <= k + n
      BY <3>1, <3>2
    <3> HIDE DEF T
    <3>7. CASE q = p
      BY <1>0, <3>2, <3>4, <3>5, <3>6, <3>7
    <3>8. CASE q # p
      BY <3>4, <3>5, <3>6, <3>8
    <3> QED
      BY <3>7, <3>8
  <2> QED
    BY <2>2, <2>3
<1> HIDE DEF T
<1>4. Bytes' = Bytes \cup T
  <2>1. Bytes' \subseteq Bytes \cup T /\ Bytes \cup T \subseteq Bytes'
    BY <1>3
  <2> QED
    BY <2>1
<1>5. Bytes \cap T = {}
  BY <1>3
<1>6. Cardinality(Bytes \cup T) = Cardinality(Bytes) + Cardinality(T) - Cardinality(Bytes \cap T)
  BY <1>1, BytesFinite, FS_Union
<1>7. Cardinality(Bytes \cap T) = 0
  BY <1>5, FS_EmptySet
<1> QED
  BY <1>1, <1>4, <1>6, <1>7, BytesFinite

\* The number of stored files.
LEMMA FilesCounted ==
    ASSUME SInv
    PROVE  /\ IsFiniteSet(files) /\ Cardinality(files) \in Nat
           /\ \A v \in files : /\ IsFiniteSet(files \ {v})
                               /\ Cardinality(files \ {v}) = Cardinality(files) - 1
           /\ \A p \in Paths \ files : Cardinality(files \cup {p}) = Cardinality(files) + 1
<1>1. IsFiniteSet(files)
  BY StoreAssumption, FS_Subset DEF SInv, TypeOK
<1> QED
  BY <1>1, FS_CardinalityType, FS_RemoveElement, FS_AddElement

\* The statistics follow what is stored.
LEMMA NextAccounting == ASSUME SInv, [Next]_vars PROVE AccountingExact'
<1>0. /\ curr_state.files = Cardinality(files) /\ curr_state.space = Cardinality(Bytes)
      /\ files \subseteq Paths
  BY DEF SInv, TypeOK, AccountingExact
<1>1. CASE Quiet
  <2>1. Bytes' = Bytes
    BY <1>1, BytesSame DEF Quiet
  <2> QED
    BY <1>0, <1>1, <2>1 DEF Quiet, AccountingExact
<1>2. ASSUME NEW w \in Workers, Create(w) PROVE AccountingExact'
  <2>1. PICK p : p = req[w].path
    OBVIOUS
  <2>2. /\ p \in Paths /\ p \notin files
        /\ files' = files \cup {p}
        /\ \A q \in files : file'[q] = file[q]
        /\ file'[p].size = 0
        /\ curr_state'.files = curr_state.files + 1
        /\ curr_state'.space = curr_state.space
    BY <1>2, <2>1, CreateEffect DEF NewIn
  <2>3. Bytes' = Bytes
    BY <2>2, BytesSame
  <2>4. Cardinality(files') = Cardinality(files) + 1
    BY <2>2, FilesCounted
  <2> QED
    BY <1>0, <2>2, <2>3, <2>4 DEF AccountingExact
<1>3. ASSUME NEW w \in Workers, CreateExpelling(w) PROVE AccountingExact'
  <2>1. PICK p : p = req[w].path
    OBVIOUS
  <2>2. p \in Paths /\ p \notin files /\ file'[p].size = 0
    BY <1>3, <2>1, CreateExpellingEffect DEF NewIn
  <2>3. PICK v \in files :
          /\ files' = (files \ {v}) \cup {p}
          /\ \A q \in files : q # v => file'[q] = file[q]
          /\ curr_state'.files = (curr_state.files - 1) + 1
          /\ curr_state'.space = curr_state.space - file[v].size
    BY <1>3, <2>1, CreateExpellingEffect
  <2>4. Cardinality(Bytes') = Cardinality(Bytes) - file[v].size
    BY <2>2, <2>3, BytesDeleted
  <2>5. IsFiniteSet(files \ {v}) /\ Cardinality(files \ {v}) = Cardinality(files) - 1
    BY FilesCounted
  <2>6. Cardinality((files \ {v}) \cup {p}) = Cardinality(files \ {v}) + 1
    BY <2>2, <2>5, FS_AddElement
  <2>7. Cardinality(files') = (Cardinality(files) - 1) + 1
    BY <2>3, <2>5, <2>6
  <2> QED
    BY <1>0, <2>3, <2>4, <2>7 DEF AccountingExact
<1>4. ASSUME NEW v \in files, files' = files \ {v},
             \A q \in files : q # v => file'[q] = file[q],
             curr_state'.files = curr_state.files - 1,
             curr_state'.space = curr_state.space - file[v].size
      PROVE  AccountingExact'
  <2>1. Cardinality(Bytes') = Cardinality(Bytes) - file[v].size
    BY <1>4, BytesDeleted
  <2>2. Cardinality(files') = Cardinality(files) - 1
    BY <1>4, FilesCounted
  <2> QED
    BY <1>0, <1>4, <2>1, <2>2 DEF AccountingExact
<1>5. ASSUME NEW w \in Workers, ExpellOne(w) PROVE AccountingExact'
  BY <1>4, <1>5, ExpellOneEffect
<1>6. ASSUME NEW w \in Workers, Removes(w) PROVE AccountingExact'
  BY <1>4, <1>6, RemovesEffect
<1>7. ASSUME NEW w \in Workers, ExpellDone(w) PROVE AccountingExact'
  <2>1. Bytes' = Bytes
    BY <1>7, ExpellDoneEffect, BytesSame
  <2> QED
    BY <1>0, <1>7, <2>1, ExpellDoneEffect DEF AccountingExact
<1>8. ASSUME NEW w \in Workers, Grows(w) PROVE AccountingExact'
  <2>1. PICK p : p = req[w].path
    OBVIOUS
  <2>2. PICK n : n = req[w].size
    OBVIOUS
  <2>3. p \in files /\ file[p].size + n <= MaxSpace
    BY <1>8, <2>1, <2>2, LockedFile DEF Grows
  <2>4. /\ n \in Nat /\ files' = files
        /\ curr_state'.files = curr_state.files
        /\ curr_state'.space = curr_state.space + n
    BY <1>8, <2>2, GrowsEffect
  <2>5. /\ file'[p].size = file[p].size + n
        /\ \A q \in files \ {p} : file'[q].size = file[q].size
    BY <1>0, <1>8, <2>1, <2>2, GrowFile
  <2>6. Cardinality(Bytes') = Cardinality(Bytes) + n
    BY <2>3, <2>4, <2>5, BytesGrown
  <2> QED
    BY <1>0, <2>4, <2>6 DEF AccountingExact
<1> QED
  BY <1>1, <1>2, <1>3, <1>5, <1>6, <1>7, <1>8, QuietSteps DEF Resizes

-----------------------------------------------------------------------------
\* An empty store with all workers idle.
LEMMA InitSInv == Init => SInv
<1> SUFFICES ASSUME Init PROVE SInv
  OBVIOUS
<1>1. TypeOK
  BY BlankType, StoreAssumption DEF Init, TypeOK
<1>2. Owners
  BY StoreAssumption DEF Init, Owners, InMutex
<1>3. Requested
  BY DEF Init, Requested, Knows, InMutex
<1>4. WriterLocks
  BY DEF Init, WriterLocks
<1>5. ReaderLocks
  <2>1. \A p : Holders(p) = {}
    BY DEF Init, Holders, Reads
  <2> QED
    BY <2>1 DEF Init, ReaderLocks, Counted
<1>6. Room
  BY StoreAssumption DEF Init, Room
<1>7. AccountingExact
  <2>1. Bytes = {} /\ files = {}
    BY DEF Init, Bytes
  <2> QED
    BY <2>1, FS_EmptySet DEF Init, AccountingExact
<1> QED
  BY <1>1, <1>2, <1>3, <1>4, <1>5, <1>6, <1>7 DEF SInv

(***************************************************************************)
(* The inductive invariant: types, the owner of files_mtx, what each       *)
(* handler knows, the writer and reader locks, the room and the counters.  *)
(* The parts are preserved together, not one by one.                       *)
(***************************************************************************)
THEOREM Invariant == Safety => []SInv
<1>1. SInv /\ [Next]_vars => SInv'
  <2> SUFFICES ASSUME SInv, [Next]_vars PROVE SInv'
    OBVIOUS
  <2>1. TypeOK' /\ Owners' /\ Requested' /\ WriterLocks'
    BY NextTypeOK, NextOwners, NextRequested, NextWriterLocks
  <2>2. ReaderLocks' /\ Room' /\ AccountingExact'
    BY NextReaderLocks, NextRoom, NextAccounting
  <2> QED
    BY <2>1, <2>2 DEF SInv
<1> QED
  BY InitSInv, <1>1, PTL DEF Safety

(***************************************************************************)
(* Every field keeps its type whatever clients and workers do; the lock    *)
(* counters and the unsigned statistics never go below zero.               *)
(***************************************************************************)
THEOREM TypeCorrect == Safety => []TypeOK
<1>1. SInv => TypeOK
  BY DEF SInv
<1> QED
  BY Invariant, <1>1, PTL

(***************************************************************************)
(* curr_state is the number of files and of bytes really stored, through   *)
(* creations, writes, appends, removals and evictions.                     *)
(***************************************************************************)
THEOREM Accounting == Safety => []AccountingExact
<1>1. SInv => AccountingExact
  BY DEF SInv
<1> QED
  BY Invariant, <1>1, PTL

(***************************************************************************)
(* When files_mtx is free no file is locked by a writer and every file may *)
(* be expelled: no path through a handler forgets to undo what it did.     *)
(***************************************************************************)
THEOREM WritersLeave == Safety => []WritersDone
<1>1. SInv => WritersDone
  <2> SUFFICES ASSUME SInv, files_mtx = None, NEW p \in files
               PROVE  file[p].n_writers = 0 /\ file[p].can_be_expelled
    BY DEF WritersDone
  <2>1. \A w \in Workers : pc[w] \notin InMutex
    BY StoreAssumption DEF SInv, Owners
  <2>2. \A w \in Workers : ~Writes(w, p)
    BY <2>1 DEF Writes, InMutex
  <2> QED
    BY <2>2, FreeOfWriters
<1> QED
  BY Invariant, <1>1, PTL

(***************************************************************************)
(* A file that a worker is sending is stored and counts all its readers:   *)
(* the pointers that read_file and read_n_files use after they released    *)
(* files_mtx are never freed under them.                                   *)
(***************************************************************************)
THEOREM SendersPinTheirFiles == Safety => []ReadersPinned
<1>1. SInv => ReadersPinned
  <2> SUFFICES ASSUME SInv, NEW p \in Paths, {w \in Workers : p \in reading[w]} # {}
               PROVE  /\ p \in files
                      /\ file[p].n_readers >= Cardinality({w \in Workers : p \in reading[w]})
    BY DEF ReadersPinned
  <2> DEFINE rs == {w \in Workers : p \in reading[w]}
  <2>1. rs \in SUBSET Holders(p) /\ Holders(p) # {}
    BY DEF Holders, Reads
  <2>2. p \in files /\ file[p].n_readers >= Cardinality(Holders(p))
    BY <2>1 DEF SInv, ReaderLocks, Counted
  <2>3. file[p].n_readers \in Nat
    BY FileFields DEF SInv, TypeOK
  <2> HIDE DEF rs
  <2>4. IsFiniteSet(Holders(p)) /\ Cardinality(Holders(p)) \in Nat
    BY HoldersFinite
  <2>5. IsFiniteSet(rs) /\ Cardinality(rs) <= Cardinality(Holders(p))
    BY <2>1, <2>4, FS_Subset
  <2>6. Cardinality(rs) \in Nat
    BY <2>5, FS_CardinalityType
  <2>7. file[p].n_readers >= Cardinality(rs)
    BY <2>2, <2>3, <2>4, <2>5, <2>6
  <2> QED
    BY <2>2, <2>7 DEF rs
<1> QED
  BY Invariant, <1>1, PTL

(***************************************************************************)
(* When writes to clients succeed every reader lock is given back: the     *)
(* counter of a file is the number of workers that are reading it.         *)
(***************************************************************************)
THEOREM ReadersGivenBack == ASSUME ~SendFailures PROVE Safety => []ReadersExact
<1>1. SInv => ReadersExact
  <2> SUFFICES ASSUME SInv, NEW p \in files
               PROVE  file[p].n_readers = Cardinality({w \in Workers :
                   p \in reading[w] \/ (pc[w] = "locked" /\ req[w].op = "read" /\ req[w].path = p)})
    BY DEF ReadersExact
  <2>1. Counted(p)
    BY DEF SInv, ReaderLocks, TypeOK
  <2> QED
    BY <2>1 DEF Counted, Holders, Reads
<1> QED
  BY <1>1, Invariant, PTL

(***************************************************************************)
(* expell_single_file, which locks every file it considers while its       *)
(* caller holds a writer lock, meets no writer: it cannot wait for itself. *)
(***************************************************************************)
THEOREM EvictionMeetsNoWriter == Safety => []EvictionWaitsForReaders
<1>1. SInv => EvictionWaitsForReaders
  <2> SUFFICES ASSUME SInv, NEW w \in Workers, CallsExpell(w), NEW p \in Expellable
               PROVE  file[p].n_writers = 0
    BY DEF EvictionWaitsForReaders
  <2>1. p \in files /\ file[p].can_be_expelled
    BY DEF Expellable
  <2>2. pc[w] = "critical" \/ (pc[w] = "expelling" /\ p # req[w].path)
    BY <2>1 DEF CallsExpell, SInv, WriterLocks, Evicts
  <2>3. \A v \in Workers : ~Writes(v, p)
    BY <2>2, OneWriter DEF InMutex
  <2> QED
    BY <2>1, <2>3, FreeOfWriters
<1> QED
  BY Invariant, <1>1, PTL

(***************************************************************************)
(* expell_single_file always finds a file: the one that is being written   *)
(* is protected, but it fits into the store, so the bytes that are too     *)
(* many belong to others.                                                  *)
(***************************************************************************)
THEOREM VictimFound == Safety => []VictimExists
<1>1. SInv => VictimExists
  <2> SUFFICES ASSUME SInv, NEW w \in Workers, CallsExpell(w), Expellable = {}
               PROVE  FALSE
    BY DEF VictimExists
  <2>1. CASE pc[w] = "critical" /\ files # {}
    <3>1. PICK p \in files : TRUE
      BY <2>1
    <3>2. file[p].can_be_expelled = TRUE
      BY <2>1, OneWriter, FreeOfWriters DEF InMutex
    <3> QED
      BY <3>1, <3>2 DEF Expellable
  <2>2. CASE pc[w] = "expelling" /\ freed < size_to_free
    <3>1. PICK p : p = req[w].path
      OBVIOUS
    <3>2. p \in files
      BY <2>2, <3>1, LockedFile
    <3>3. \A q \in files : q = p
      <4> SUFFICES ASSUME NEW q \in files, q # p PROVE FALSE
        OBVIOUS
      <4>1. file[q].can_be_expelled = TRUE
        BY <2>2, <3>1, OneWriter, FreeOfWriters DEF InMutex
      <4> QED
        BY <4>1 DEF Expellable
    <3>4. Bytes \subseteq {p} \X (1 .. file[p].size)
      <4> SUFFICES ASSUME NEW b \in Bytes PROVE b \in {p} \X (1 .. file[p].size)
        OBVIOUS
      <4>1. b \in Paths \X (1 .. MaxSpace) /\ b[1] \in files /\ b[2] <= file[b[1]].size
        BY BytesElements
      <4>2. b[1] = p
        BY <3>3, <4>1
      <4>3. file[p].size \in Nat
        BY <3>2, FileAccounted
      <4> QED
        BY <4>1, <4>2, <4>3, StoreAssumption
    <3>5. curr_state.space <= file[p].size
      <4>1. /\ IsFiniteSet({p} \X (1 .. file[p].size))
            /\ Cardinality({p} \X (1 .. file[p].size)) = file[p].size
        BY <3>2, FileAccounted
      <4>2. Cardinality(Bytes) <= file[p].size
        BY <3>4, <4>1, FS_Subset
      <4> QED
        BY <4>2 DEF SInv, AccountingExact
    <3>6. file[p].size <= MaxSpace /\ file[p].size \in Nat
      BY <3>2, FileAccounted DEF SInv, Room
    <3>7. curr_state.space + freed = MaxSpace + size_to_free
      BY <2>2 DEF SInv, Room
    <3>8. /\ curr_state.space \in Nat /\ freed \in Nat /\ size_to_free \in Nat
          /\ MaxSpace \in Nat
      BY StoreAssumption DEF SInv, TypeOK
    <3> QED
      BY <2>2, <3>5, <3>6, <3>7, <3>8
  <2> QED
    BY <2>1, <2>2 DEF CallsExpell
<1> QED
  BY Invariant, <1>1, PTL

(***************************************************************************)
(* A step by which a file is deleted or resized never concerns a file that *)
(* has readers.                                                            *)
(***************************************************************************)
LEMMA ReadFilesStay ==
    ASSUME SInv, [Next]_vars, NEW p \in files, file[p].n_readers > 0
    PROVE  p \in files' /\ file'[p].size = file[p].size
<1>0. p \in Paths /\ file[p].n_readers # 0
  BY DEF SInv, TypeOK
<1>1. CASE Quiet
  BY <1>1 DEF Quiet
<1>2. ASSUME NEW w \in Workers, Create(w) PROVE p \in files' /\ file'[p].size = file[p].size
  BY <1>2, CreateEffect
<1>3. ASSUME NEW w \in Workers, CreateExpelling(w)
      PROVE  p \in files' /\ file'[p].size = file[p].size
  <2>1. PICK v \in files : /\ Unused(v)
                           /\ files' = (files \ {v}) \cup {req[w].path}
                           /\ \A q \in files : q # v => file'[q] = file[q]
    BY <1>3, CreateExpellingEffect
  <2> QED
    BY <1>0, <2>1 DEF Unused
<1>4. ASSUME NEW w \in Workers, Grows(w) PROVE p \in files' /\ file'[p].size = file[p].size
  <2>1. file[req[w].path].n_readers = 0
    BY <1>4, LockedFile DEF Grows
  <2>2. p # req[w].path
    BY <1>0, <2>1
  <2> QED
    BY <1>0, <1>4, <2>2, GrowFile, GrowsEffect
<1>5. ASSUME NEW w \in Workers, ExpellOne(w) PROVE p \in files' /\ file'[p].size = file[p].size
  <2>1. PICK v \in files : /\ Oldest(v)
                           /\ files' = files \ {v}
                           /\ \A q \in files : q # v => file'[q] = file[q]
    BY <1>5, ExpellOneEffect
  <2>2. file[v].n_readers = 0
    BY <1>5, <2>1 DEF ExpellOne, Oldest, CanExpell, Unused
  <2> QED
    BY <1>0, <2>1, <2>2
<1>6. ASSUME NEW w \in Workers, ExpellDone(w) PROVE p \in files' /\ file'[p].size = file[p].size
  BY <1>6, ExpellDoneEffect
<1>7. ASSUME NEW w \in Workers, Removes(w) PROVE p \in files' /\ file'[p].size = file[p].size
  <2>1. file[req[w].path].n_readers = 0
    BY <1>7, LockedFile DEF Removes
  <2> QED
    BY <1>0, <1>7, <2>1, RemovesEffect
<1> QED
  BY <1>1, <1>2, <1>3, <1>4, <1>5, <1>6, <1>7, QuietSteps DEF Resizes

(***************************************************************************)
(* What a worker is sending is neither deleted nor resized meanwhile.      *)
(***************************************************************************)
THEOREM SentFilesStable == Safety => SentStable
<1>1. SInv /\ [Next]_vars =>
        [\A w \in Workers : \A p \in reading[w] \cap reading'[w] :
            p \in files' /\ file'[p].size = file[p].size]_vars
  <2> SUFFICES ASSUME SInv, [Next]_vars, NEW w \in Workers, NEW p \in reading[w] \cap reading'[w]
               PROVE  p \in files' /\ file'[p].size = file[p].size
    OBVIOUS
  <2>1. p \in Paths /\ Reads(w, p)
    BY DEF Reads, SInv, TypeOK
  <2>2. p \in files /\ file[p].n_readers > 0
    BY <2>1, HolderCounted DEF SInv
  <2> QED
    BY <2>2, ReadFilesStay
<1> QED
  BY Invariant, <1>1, PTL DEF Safety, SentStable

(***************************************************************************)
(* A file leaves the store only by a removeFile of its locker, to make     *)
(* room that is really missing, or for a new file in a full store; never   *)
(* because it is itself being written.                                     *)
(***************************************************************************)
THEOREM FilesNotLost == Safety => NoNeedlessLoss
<1> DEFINE Lost(p, w) ==
        /\ files_mtx = w
        /\ \/ req[w].op = "remove" /\ req[w].path = p /\ file[p].fd_lock = client[w]
           \/ req[w].op \in {"write", "append"} /\ curr_state.space > MaxSpace /\ req[w].path # p
           \/ IsCreate(req[w]) /\ curr_state.files >= MaxFiles
<1>1. SInv /\ [Next]_vars => [\A p \in files \ files' : \E w \in Workers : Lost(p, w)]_vars
  <2> SUFFICES ASSUME SInv, [Next]_vars, NEW p \in files \ files'
               PROVE  \E w \in Workers : Lost(p, w)
    OBVIOUS
  <2>1. ~Quiet
    BY DEF Quiet
  <2>2. ASSUME NEW w \in Workers, Create(w) PROVE FALSE
    BY <2>2, CreateEffect
  <2>3. ASSUME NEW w \in Workers, CreateExpelling(w) PROVE Lost(p, w)
    <3>1. files_mtx = w
      BY <2>3, AloneInMutex DEF CreateExpelling, InMutex
    <3>2. IsCreate(req[w]) /\ curr_state.files >= MaxFiles
      BY <2>3, StoreAssumption DEF CreateExpelling
    <3> QED
      BY <3>1, <3>2
  <2>4. ASSUME NEW w \in Workers, Grows(w) PROVE FALSE
    BY <2>4, GrowsEffect
  <2>5. ASSUME NEW w \in Workers, ExpellOne(w) PROVE Lost(p, w)
    <3>1. files_mtx = w /\ pc[w] = "expelling" /\ freed < size_to_free
      BY <2>5, AloneInMutex DEF ExpellOne, InMutex
    <3>2. req[w].op \in {"write", "append"}
      BY <3>1 DEF SInv, Requested, Knows
    <3>3. curr_state.space + freed = MaxSpace + size_to_free
      BY <3>1 DEF SInv, Room
    <3>4. curr_state.space > MaxSpace
      BY <3>1, <3>3, StoreAssumption DEF SInv, TypeOK
    <3>5. file[p].can_be_expelled
      BY <2>5, ExpellOneEffect DEF Oldest, Expellable
    <3>6. req[w].path # p
      BY <3>1, <3>5 DEF SInv, WriterLocks, Evicts
    <3> QED
      BY <3>1, <3>2, <3>4, <3>6
  <2>6. ASSUME NEW w \in Workers, ExpellDone(w) PROVE FALSE
    BY <2>6, ExpellDoneEffect
  <2>7. ASSUME NEW w \in Workers, Removes(w) PROVE Lost(p, w)
    <3>1. files_mtx = w
      BY <2>7, AloneInMutex DEF Removes, InMutex
    <3>2. req[w].op = "remove" /\ req[w].path = p
      BY <2>7 DEF Removes
    <3>3. file[p].fd_lock = client[w]
      BY <2>7, <3>2, StoreAssumption DEF Removes, RemoveError, Results
    <3> QED
      BY <3>1, <3>2, <3>3
  <2> QED
    BY <2>1, <2>2, <2>3, <2>4, <2>5, <2>6, <2>7, QuietSteps DEF Resizes
<1> QED
  BY Invariant, <1>1, PTL DEF Safety, NoNeedlessLoss

-----------------------------------------------------------------------------
(***************************************************************************)
(* The number of files stays within its limit and its high-water mark.     *)
(***************************************************************************)
FileLimit == curr_state.files <= curr_state.max_files /\ curr_state.max_files <= MaxFiles

\* A new file is counted by the high-water mark.
LEMMA CreateMark ==
    ASSUME SInv, NEW w \in Workers, Create(w), NEW n, n = curr_state.files + 1
    PROVE  /\ curr_state'.files = n
           /\ curr_state'.max_files = IF n > curr_state.max_files THEN n
                                      ELSE curr_state.max_files
<1>1. curr_state' = [curr_state EXCEPT !.files = n,
                        !.max_files = IF n > curr_state.max_files THEN n
                                      ELSE curr_state.max_files]
  BY DEF Create, Insert
<1> QED
  BY <1>1 DEF SInv, TypeOK

\* The new file takes the place of the one that was expelled.
LEMMA CreateExpellingMark ==
    ASSUME SInv, NEW w \in Workers, CreateExpelling(w), FileLimit
    PROVE  /\ curr_state'.files = curr_state.files
           /\ curr_state'.max_files = curr_state.max_files
<1>1. PICK v \in files :
        Insert(w, files \ {v}, [file EXCEPT ![v] = Blank],
               [curr_state EXCEPT !.files = @ - 1, !.space = @ - file[v].size])
  BY DEF CreateExpelling
<1> DEFINE state == [curr_state EXCEPT !.files = @ - 1, !.space = @ - file[v].size]
<1>2. /\ state \in [files : Nat, space : Nat, max_files : Nat, max_space : Nat]
      /\ state.files = curr_state.files - 1 /\ state.max_files = curr_state.max_files
  BY DeletedFile DEF SInv, TypeOK
<1>3. Insert(w, files \ {v}, [file EXCEPT ![v] = Blank], state)
  BY <1>1
<1> HIDE DEF state
<1>4. PICK n : n = state.files + 1
  OBVIOUS
<1>5. curr_state.files \in Nat /\ curr_state.max_files \in Nat
  BY DEF SInv, TypeOK
<1>6. n = curr_state.files /\ ~(n > state.max_files)
  BY <1>2, <1>4, <1>5 DEF FileLimit
<1>7. curr_state' = [state EXCEPT !.files = n, !.max_files = state.max_files]
  BY <1>3, <1>4, <1>6 DEF Insert
<1> QED
  BY <1>2, <1>6, <1>7

\* A server configured for at least one file never stores more than that.
LEMMA NextFileLimit ==
    ASSUME SInv, [Next]_vars, FileLimit, MaxFiles > 0
    PROVE  FileLimit'
<1>0. curr_state.files \in Nat /\ curr_state.max_files \in Nat /\ MaxFiles \in Nat
  BY StoreAssumption DEF SInv, TypeOK
<1>1. CASE Quiet
  BY <1>1 DEF Quiet, FileLimit
<1>2. ASSUME NEW w \in Workers, Create(w) PROVE FileLimit'
  <2>1. curr_state.files # MaxFiles \/ files = {}
    BY <1>2 DEF Create
  <2>2. curr_state.files # MaxFiles
    BY <1>0, <2>1, FS_EmptySet DEF SInv, AccountingExact
  <2>3. PICK n : n = curr_state.files + 1
    OBVIOUS
  <2>4. n \in Nat /\ n <= MaxFiles
    BY <1>0, <2>2, <2>3 DEF FileLimit
  <2>5. /\ curr_state'.files = n
        /\ curr_state'.max_files = IF n > curr_state.max_files THEN n
                                   ELSE curr_state.max_files
    BY <1>2, <2>3, CreateMark
  <2> QED
    BY <1>0, <2>4, <2>5 DEF FileLimit
<1>3. ASSUME NEW w \in Workers, CreateExpelling(w) PROVE FileLimit'
  BY <1>3, CreateExpellingMark DEF FileLimit
<1>4. ASSUME NEW w \in Workers, Grows(w) PROVE FileLimit'
  <2>1. curr_state'.files = curr_state.files /\ curr_state'.max_files = curr_state.max_files
    BY <1>4 DEF Grows, Grow, SpaceSettled, SInv, TypeOK
  <2> QED
    BY <2>1 DEF FileLimit
<1>5. ASSUME NEW w \in Workers, ExpellOne(w) \/ Removes(w) PROVE FileLimit'
  <2>1. curr_state'.files = curr_state.files - 1 /\ curr_state'.max_files = curr_state.max_files
    BY <1>5 DEF ExpellOne, Removes, SInv, TypeOK
  <2> QED
    BY <1>0, <2>1 DEF FileLimit
<1>6. ASSUME NEW w \in Workers, ExpellDone(w) PROVE FileLimit'
  <2>1. curr_state'.files = curr_state.files /\ curr_state'.max_files = curr_state.max_files
    BY <1>6 DEF ExpellDone, SpaceSettled, SInv, TypeOK
  <2> QED
    BY <2>1 DEF FileLimit
<1> QED
  BY <1>1, <1>2, <1>3, <1>4, <1>5, <1>6, QuietSteps DEF Resizes

(***************************************************************************)
(* The configured limits hold whenever no thread is evicting files,        *)
(* provided that the server may store a file at all: with MaxFiles = 0     *)
(* open_file finds nothing to expel and stores the file nevertheless.      *)
(***************************************************************************)
THEOREM LimitsKept == ASSUME MaxFiles > 0 PROVE Safety => []WithinLimits
<1>1. Init => FileLimit
  BY StoreAssumption DEF Init, FileLimit
<1>2. SInv /\ FileLimit /\ [Next]_vars => FileLimit'
  BY NextFileLimit
<1>3. SInv /\ FileLimit => WithinLimits
  BY DEF SInv, Room, FileLimit, WithinLimits
<1> QED
  BY Invariant, <1>1, <1>2, <1>3, PTL DEF Safety
=============================================================================
