------------------------- MODULE StoreRightsProofs --------------------------
(***************************************************************************)
(* Who may use a file: proofs about the fields fd_lock and fd_open of the  *)
(* stored files and the connections they speak of, for any finite sets of  *)
(* paths and workers, any clients, limits and policy.                      *)
(***************************************************************************)
EXTENDS FileStoreProofs

(***************************************************************************)
(* A worker serves a connection that nobody else serves and that nobody    *)
(* closes meanwhile; the main thread closes one that is reported as over.  *)
(***************************************************************************)
Serving == /\ \A w \in Workers : pc[w] # "idle" => conn[client[w]] = "busy"
           /\ \A v, w \in Workers :
                (pc[v] # "idle" /\ pc[w] # "idle" /\ client[v] = client[w]) => v = w
           /\ files_mtx = Main => conn[main_client] = "closing"

(***************************************************************************)
(* The locker of a file has it open, and whoever has it open is connected. *)
(***************************************************************************)
Held(p) == /\ file[p].fd_lock # None => file[p].fd_lock \in file[p].fd_open
           /\ \A c \in file[p].fd_open : conn[c] # "off"
Rights == \A p \in Paths : Held(p)

RInv == SInv /\ Serving /\ Rights

-----------------------------------------------------------------------------
(***************************************************************************)
(* What a handler that serves client c may make of the rights in f: leave  *)
(* them, give c the right to use the file and, if nobody else locks it,    *)
(* the lock.  close_file forgets c, and a deleted file drops all rights.   *)
(***************************************************************************)
Rearranged(f, g, c) ==
    \/ g.fd_open = f.fd_open /\ g.fd_lock = f.fd_lock
    \/ /\ g.fd_open = f.fd_open \cup {c}
       /\ g.fd_lock = f.fd_lock \/ (f.fd_lock \in {None, c} /\ g.fd_lock = c)
Forgotten(f, g, c) ==
    /\ g.fd_open = f.fd_open \ {c}
    /\ g.fd_lock = IF f.fd_lock = c THEN None ELSE f.fd_lock
Dropped(p) == p \notin files' /\ file'[p] = Blank

\* A change of a lock counter, of the size or of can_be_expelled only.
LEMMA FieldChanged ==
    ASSUME NEW f \in FileT, NEW c, NEW x, NEW y
    PROVE  /\ Rearranged(f, [f EXCEPT !.n_readers = x], c)
           /\ Rearranged(f, [f EXCEPT !.n_writers = x], c)
           /\ Rearranged(f, [f EXCEPT !.n_writers = x, !.size = y], c)
           /\ Rearranged(f, [f EXCEPT !.size = x, !.can_be_expelled = y], c)
           /\ Rearranged(f, [f EXCEPT !.n_writers = x, !.can_be_expelled = y], c)
  BY DEF FileT, Rearranged

\* When one file changes, the rights in the others stay.
LEMMA OneRearranged ==
    ASSUME TypeOK, NEW p \in Paths, NEW g, NEW c,
           file' = [file EXCEPT ![p] = g], Rearranged(file[p], g, c)
    PROVE  \A q \in Paths : Rearranged(file[q], file'[q], c)
<1> SUFFICES ASSUME NEW q \in Paths PROVE Rearranged(file[q], file'[q], c)
  OBVIOUS
<1>1. CASE q = p
  BY <1>1 DEF TypeOK
<1>2. CASE q # p
  <2>1. file'[q] = file[q]
    BY <1>2 DEF TypeOK
  <2> QED
    BY <2>1 DEF Rearranged
<1> QED
  BY <1>1, <1>2

\* When one file is deleted, likewise.
LEMMA OneDropped ==
    ASSUME TypeOK, NEW v \in files, NEW c,
           file' = [file EXCEPT ![v] = Blank], files' = files \ {v}
    PROVE  \A q \in Paths : Rearranged(file[q], file'[q], c) \/ Dropped(q)
<1> SUFFICES ASSUME NEW q \in Paths PROVE Rearranged(file[q], file'[q], c) \/ Dropped(q)
  OBVIOUS
<1>1. CASE q = v
  BY <1>1 DEF TypeOK, Dropped
<1>2. CASE q # v
  <2>1. file'[q] = file[q]
    BY <1>2 DEF TypeOK
  <2> QED
    BY <2>1 DEF Rearranged
<1> QED
  BY <1>1, <1>2

\* A refused handler changes no right.
LEMMA RefuseRights ==
    ASSUME SInv, NEW w \in Workers, pc[w] = "locked", NEW code, Refuse(w, code)
    PROVE  \A q \in Paths : Rearranged(file[q], file'[q], client[w])
<1>1. req[w].path \in Paths /\ file[req[w].path] \in FileT
  BY LockedFile
<1>2. file' = [file EXCEPT ![req[w].path] =
                 [file[req[w].path] EXCEPT !.n_writers = file[req[w].path].n_writers - 1]]
  BY <1>1 DEF Refuse, WriterUnlocked
<1> QED
  BY <1>1, <1>2, FieldChanged, OneRearranged DEF SInv

\* open_file without O_CREATE: the client has the file open, and locks it if
\* it asked to and nobody else does.
LEMMA OpenRights ==
    ASSUME SInv, NEW w \in Workers, Open(w)
    PROVE  \A q \in Paths : Rearranged(file[q], file'[q], client[w])
<1> DEFINE p == req[w].path
           g == Opened(WriterUnlocked(file[p]), client[w], req[w].lock)
<1>1. pc[w] = "locked" /\ p \in Paths /\ file[p] \in FileT
  BY LockedFile DEF Open
<1>2. CASE Refuse(w, "ALREADY_LOCKED")
  BY <1>1, <1>2, RefuseRights
<1>3. CASE /\ ~(req[w].lock /\ file[p].fd_lock \notin {None, client[w]})
           /\ file' = [file EXCEPT ![p] = g]
  <2>1. /\ g.fd_open = file[p].fd_open \cup {client[w]}
        /\ \/ g.fd_lock = file[p].fd_lock
           \/ file[p].fd_lock \in {None, client[w]} /\ g.fd_lock = client[w]
    BY <1>1, <1>3 DEF Opened, WriterUnlocked, FileT
  <2>2. Rearranged(file[p], g, client[w])
    BY <2>1 DEF Rearranged
  <2> HIDE DEF g, p
  <2> QED
    BY <1>1, <1>3, <2>2, OneRearranged DEF SInv
<1> QED
  BY <1>2, <1>3 DEF Open

\* close_file: the client no longer has the file open, nor locks it.
LEMMA CloseRights ==
    ASSUME SInv, NEW w \in Workers, Close(w)
    PROVE  \A q \in Paths : \/ Rearranged(file[q], file'[q], client[w])
                            \/ Forgotten(file[q], file'[q], client[w])
<1> DEFINE p == req[w].path
           g == ForgetClient(WriterUnlocked(file[p]), client[w])
<1>1. p \in Paths /\ file[p] \in FileT
  BY LockedFile DEF Close
<1>2. /\ g.fd_open = file[p].fd_open \ {client[w]}
      /\ g.fd_lock = IF file[p].fd_lock = client[w] THEN None ELSE file[p].fd_lock
  BY <1>1 DEF ForgetClient, WriterUnlocked, FileT
<1>3. Forgotten(file[p], g, client[w])
  BY <1>2 DEF Forgotten
<1>4. file' = [file EXCEPT ![p] = g]
  BY DEF Close
<1> HIDE DEF g, p
<1>5. /\ file'[p] = g
      /\ \A q \in Paths : q # p => file'[q] = file[q]
  BY <1>1, <1>4 DEF SInv, TypeOK
<1> QED
  BY <1>1, <1>3, <1>5 DEF Rearranged

\* create_file: only the creator has the new file open.
LEMMA NewRights ==
    ASSUME NEW c, NEW lock
    PROVE  Rearranged(Blank, NewFile(c, lock), c)
<1>1. /\ NewFile(c, lock).fd_open = Blank.fd_open \cup {c}
      /\ Blank.fd_lock = None /\ NewFile(c, lock).fd_lock \in {None, c}
  BY DEF NewFile, Blank
<1> QED
  BY <1>1 DEF Rearranged

\* open_file with O_CREATE, with and without eviction.
LEMMA CreateRights ==
    ASSUME SInv, NEW w \in Workers, Create(w) \/ CreateExpelling(w)
    PROVE  \A q \in Paths : Rearranged(file[q], file'[q], client[w]) \/ Dropped(q)
<1> DEFINE p == req[w].path
           g == NewFile(client[w], req[w].lock)
<1>1. p \in Paths /\ p \notin files
  BY RequestPath DEF Create, CreateExpelling, IsCreate, SInv, Requested, Knows, InMutex
<1>2. file[p] = Blank /\ Rearranged(file[p], g, client[w])
  BY <1>1, NewRights DEF SInv, TypeOK
<1>3. CASE Create(w)
  <2>1. file' = [file EXCEPT ![p] = g]
    BY <1>3 DEF Create, Insert
  <2> HIDE DEF g, p
  <2> QED
    BY <1>1, <1>2, <2>1, OneRearranged DEF SInv
<1>4. CASE CreateExpelling(w)
  <2>1. PICK v \in files : /\ file' = [[file EXCEPT ![v] = Blank] EXCEPT ![p] = g]
                         /\ files' = (files \ {v}) \cup {p}
    BY <1>4 DEF CreateExpelling, Insert
  <2> HIDE DEF g, p
  <2> SUFFICES ASSUME NEW q \in Paths
                PROVE  Rearranged(file[q], file'[q], client[w]) \/ Dropped(q)
    OBVIOUS
  <2>2. \/ q = p /\ file'[q] = g
        \/ file'[q] = Blank /\ q \notin files'
        \/ file'[q] = file[q]
    BY <2>1, <1>1 DEF SInv, TypeOK
  <2>3. Rearranged(file[q], file[q], client[w])
    BY DEF Rearranged
  <2> QED
    BY <1>2, <2>2, <2>3 DEF Dropped
<1> QED
  BY <1>3, <1>4

\* A file that grows keeps its rights.
LEMMA GrowRights ==
    ASSUME SInv, NEW w \in Workers, pc[w] = "locked", NEW n, Grow(w, n)
    PROVE  \A q \in Paths : Rearranged(file[q], file'[q], client[w])
<1> DEFINE p == req[w].path
<1>1. p \in Paths /\ file[p] \in FileT
  BY LockedFile
<1>2. CASE file' = [file EXCEPT ![p].size = @ + n, ![p].can_be_expelled = FALSE]
  <2>1. file' = [file EXCEPT ![p] = [file[p] EXCEPT !.size = file[p].size + n,
                                                    !.can_be_expelled = FALSE]]
    BY <1>1, <1>2 DEF SInv, TypeOK
  <2> HIDE DEF p
  <2> QED
    BY <1>1, <2>1, FieldChanged, OneRearranged DEF SInv
<1>3. CASE file' = [file EXCEPT ![p] = Grown(WriterUnlocked(@), n)]
  <2>1. Grown(WriterUnlocked(file[p]), n) =
            [file[p] EXCEPT !.n_writers = file[p].n_writers - 1, !.size = file[p].size + n]
    BY <1>1 DEF Grown, WriterUnlocked, FileT
  <2>2. file' = [file EXCEPT ![p] =
            [file[p] EXCEPT !.n_writers = file[p].n_writers - 1, !.size = file[p].size + n]]
    BY <1>3, <2>1
  <2> HIDE DEF p
  <2> QED
    BY <1>1, <2>2, FieldChanged, OneRearranged DEF SInv
<1> QED
  BY <1>2, <1>3 DEF Grow

\* A worker gives its reader lock back, or takes one.
LEMMA ReaderRights ==
    ASSUME SInv, NEW p \in Paths, NEW x, NEW c, file' = [file EXCEPT ![p].n_readers = x]
    PROVE  \A q \in Paths : Rearranged(file[q], file'[q], c)
<1>1. file[p] \in FileT /\ file' = [file EXCEPT ![p] = [file[p] EXCEPT !.n_readers = x]]
  BY DEF SInv, TypeOK
<1> QED
  BY <1>1, FieldChanged, OneRearranged DEF SInv

(***************************************************************************)
(* No handler touches the rights of a client that is not its own, but by   *)
(* deleting the file.                                                      *)
(***************************************************************************)
LEMMA HandlerRights ==
    ASSUME SInv, NEW w \in Workers, Handler(w)
    PROVE  \A q \in Paths : \/ Rearranged(file[q], file'[q], client[w])
                            \/ Dropped(q)
                            \/ Close(w) /\ Forgotten(file[q], file'[q], client[w])
<1> DEFINE p == req[w].path
           Goal == \A q \in Paths : \/ Rearranged(file[q], file'[q], client[w])
                                    \/ Dropped(q)
                                    \/ Close(w) /\ Forgotten(file[q], file'[q], client[w])
<1>0. ASSUME file' = file PROVE Goal
  BY <1>0 DEF Rearranged
<1>1. ASSUME FileMissing(w) \/ CreateExists(w) \/ Send(w) \/ SendFails(w) \/ Answer(w)
      PROVE  Goal
  <2>1. file' = file
    BY <1>1 DEF FileMissing, CreateExists, Send, SendFails, Answer, store
  <2> QED
    BY <1>0, <2>1
<1>2. ASSUME pc[w] \in {"locked", "expelling"} PROVE p \in Paths /\ p \in files /\ file[p] \in FileT
  BY <1>2, LockedFile
<1>3. ASSUME LockFile(w) PROVE Goal
  <2>1. p \in Paths /\ file[p] \in FileT
    BY <1>3 DEF LockFile, SInv, TypeOK
  <2>2. CASE file' = [file EXCEPT ![p].n_readers = @ + 1]
    BY <2>1, <2>2, ReaderRights
  <2>3. CASE file' = [file EXCEPT ![p].n_writers = @ + 1]
    <3>1. file' = [file EXCEPT ![p] = [file[p] EXCEPT !.n_writers = file[p].n_writers + 1]]
      BY <2>1, <2>3 DEF SInv, TypeOK
    <3> HIDE DEF p
    <3> QED
      BY <2>1, <3>1, FieldChanged, OneRearranged DEF SInv
  <2> QED
    BY <1>3, <2>2, <2>3 DEF LockFile
<1>4. ASSUME Read(w) PROVE Goal
  <2>1. p \in Paths
    BY <1>2, <1>4 DEF Read
  <2>2. CASE file' = [file EXCEPT ![p].n_readers = @ - 1]
    BY <2>1, <2>2, ReaderRights
  <2>3. CASE file' = file
    BY <1>0, <2>3
  <2> QED
    BY <1>4, <2>2, <2>3 DEF Read
<1>5. ASSUME ReadN(w) PROVE Goal
  <2>1. CASE file' = file
    BY <1>0, <2>1
  <2>2. ASSUME NEW S,
               file' = [q \in Paths |-> IF q \in S THEN [file[q] EXCEPT !.n_readers = @ + 1]
                                                    ELSE file[q]],
               NEW q \in Paths
        PROVE  Rearranged(file[q], file'[q], client[w])
    <3>1. file'[q] = file[q] \/ file'[q] = [file[q] EXCEPT !.n_readers = file[q].n_readers + 1]
      BY <2>2
    <3>2. file[q] \in FileT /\ Rearranged(file[q], file[q], client[w])
      BY DEF SInv, TypeOK, Rearranged
    <3>3. Rearranged(file[q], [file[q] EXCEPT !.n_readers = file[q].n_readers + 1], client[w])
      BY <3>2, FieldChanged
    <3> QED
      BY <3>1, <3>2, <3>3
  <2> QED
    BY <1>5, <2>1, <2>2 DEF ReadN
<1>6. ASSUME Write(w) \/ AppendTo(w) PROVE Goal
  BY <1>6, RefuseRights, GrowRights DEF Write, AppendTo
<1>7. ASSUME ExpellOne(w) PROVE Goal
  <2>1. PICK v \in files : file' = [file EXCEPT ![v] = Blank] /\ files' = files \ {v}
    BY <1>7 DEF ExpellOne
  <2> QED
    BY <2>1, OneDropped DEF SInv
<1>8. ASSUME ExpellDone(w) PROVE Goal
  <2>1. p \in Paths /\ file[p] \in FileT
    BY <1>2, <1>8 DEF ExpellDone
  <2>2. [WriterUnlocked(file[p]) EXCEPT !.can_be_expelled = TRUE] =
            [file[p] EXCEPT !.n_writers = file[p].n_writers - 1, !.can_be_expelled = TRUE]
    BY <2>1 DEF WriterUnlocked, FileT
  <2>3. file' = [file EXCEPT ![p] =
            [file[p] EXCEPT !.n_writers = file[p].n_writers - 1, !.can_be_expelled = TRUE]]
    BY <1>8, <2>2 DEF ExpellDone
  <2> HIDE DEF p
  <2> QED
    BY <2>1, <2>3, FieldChanged, OneRearranged DEF SInv
<1>9. ASSUME Remove(w) PROVE Goal
  <2>1. pc[w] = "locked" /\ p \in files
    BY <1>2, <1>9 DEF Remove
  <2>2. CASE file' = [file EXCEPT ![p] = Blank] /\ files' = files \ {p}
    BY <2>1, <2>2, OneDropped DEF SInv
  <2> QED
    BY <1>9, <2>1, <2>2, RefuseRights DEF Remove
<1>10. ASSUME UnlockReader(w) PROVE Goal
  <2>1. CASE file' = file
    BY <1>0, <2>1
  <2>2. ASSUME NEW q \in reading[w], file' = [file EXCEPT ![q].n_readers = @ - 1]
        PROVE  Goal
    <3>1. q \in Paths
      BY DEF SInv, TypeOK
    <3> QED
      BY <2>2, <3>1, ReaderRights
  <2> QED
    BY <1>10, <2>1, <2>2 DEF UnlockReader
<1> HIDE DEF Goal
<1>11. Goal
  BY <1>1, <1>3, <1>4, <1>5, <1>6, <1>7, <1>8, <1>9, <1>10, OpenRights, CloseRights,
     CreateRights DEF Handler, Goal
<1> QED
  BY <1>11 DEF Goal

-----------------------------------------------------------------------------
(***************************************************************************)
(* A worker goes on with the client it has, or answers it; who waits for a *)
(* request serves nobody.                                                  *)
(***************************************************************************)
LEMMA HandlerConnections ==
    ASSUME SInv, NEW w \in Workers, Handler(w)
    PROVE  /\ pc[w] # "idle"
           /\ \/ /\ conn' = conn /\ client' = client /\ main_client' = main_client
                 /\ \A v \in Workers : pc'[v] # "idle" => pc[v] # "idle"
                 /\ files_mtx' = files_mtx \/ files_mtx' = None
              \/ Answer(w)
<1> USE DEF SInv, TypeOK
<1>1. CASE FileMissing(w) \/ CreateExists(w)
  BY <1>1 DEF FileMissing, CreateExists, Return
<1>2. CASE LockFile(w)
  BY <1>2 DEF LockFile
<1>3. CASE Create(w)
  BY <1>3 DEF Create, Insert, Return
<1>4. CASE CreateExpelling(w)
  BY <1>4 DEF CreateExpelling, Insert, Return
<1>5. CASE Open(w) \/ Close(w)
  BY <1>5 DEF Open, Close, Refuse, Return
<1>6. CASE Read(w) \/ ReadN(w)
  BY <1>6 DEF Read, ReadN, Return
<1>7. CASE Write(w) \/ AppendTo(w)
  BY <1>7 DEF Write, AppendTo, Refuse, Grow, Return
<1>8. CASE ExpellOne(w) \/ ExpellDone(w)
  BY <1>8 DEF ExpellOne, ExpellDone
<1>9. CASE Remove(w)
  BY <1>9 DEF Remove, Refuse, Return
<1>10. CASE Send(w) \/ SendFails(w) \/ UnlockReader(w)
  BY <1>10 DEF Send, SendFails, UnlockReader
<1>11. CASE Answer(w)
  BY <1>11 DEF Answer
<1> QED
  BY <1>1, <1>2, <1>3, <1>4, <1>5, <1>6, <1>7, <1>8, <1>9, <1>10, <1>11 DEF Handler

\* A worker takes up a connection that was idle, so nobody serves or closes it.
TakesUp(w, c) == /\ pc[w] = "idle" /\ conn[c] = "idle"
                 /\ conn' = [conn EXCEPT ![c] = "busy"]
                 /\ client' = [client EXCEPT ![w] = c]
                 /\ \E l \in {"answer", "sending", "critical"} : pc' = [pc EXCEPT ![w] = l]
                 /\ main_client' = main_client /\ file' = file
                 /\ files_mtx' \in {files_mtx, w}

\* A request is a hang-up or is taken up.
LEMMA NewRequests ==
    ASSUME NEW w \in Workers, NewRequest(w)
    PROVE  \E c \in Clients : Disconnect(w, c) \/ TakesUp(w, c)
  BY DEF NewRequest, BadRequest, AppendNothing, LockFiles, TakesUp, store

\* No two threads ever have the same connection in hand.
LEMMA NextServing == ASSUME SInv, Serving, [Next]_vars PROVE Serving'
<1> USE StoreAssumption DEF SInv, TypeOK, Serving
<1>0. /\ \A w \in Workers : pc[w] # "idle" => client[w] \in Clients
      /\ files_mtx = Main => main_client \in Clients
  BY DEF Requested, Knows, Owners
<1>1. CASE UNCHANGED vars
  BY <1>1 DEF vars
<1>2. ASSUME NEW c \in Clients, Connect(c) PROVE Serving'
  BY <1>0, <1>2 DEF Connect
<1>3. ASSUME NEW c \in Clients, CloseClient(c) PROVE Serving'
  BY <1>0, <1>3 DEF CloseClient
<1>4. ASSUME NEW w \in Workers, NEW c \in Clients, Disconnect(w, c) PROVE Serving'
  BY <1>0, <1>4 DEF Disconnect
<1>5. ASSUME NEW w \in Workers, NEW c \in Clients, TakesUp(w, c) PROVE Serving'
  BY <1>0, <1>5 DEF TakesUp
<1>6. ASSUME NEW w \in Workers, Handler(w) PROVE Serving'
  <2>1. CASE Answer(w)
    BY <1>0, <2>1 DEF Answer
  <2> QED
    BY <1>0, <1>6, <2>1, HandlerConnections
<1>7. CASE ForgetFiles
  BY <1>0, <1>7 DEF ForgetFiles
<1> QED
  BY <1>1, <1>2, <1>3, <1>4, <1>5, <1>6, <1>7, NewRequests DEF Next

-----------------------------------------------------------------------------
\* Rights stay in order when files stay and no connection goes away.
LEMMA RightsKept ==
    ASSUME SInv, Rights, file' = file,
           \A c \in Clients : conn[c] # "off" => conn'[c] # "off"
    PROVE  Rights'
<1>1. \A p \in Paths : file[p].fd_open \subseteq Clients
  BY FileFields DEF SInv, TypeOK
<1> QED
  BY <1>1 DEF Rights, Held

\* A handler keeps them in order, for its client is connected.
LEMMA RearrangedHeld ==
    ASSUME SInv, Rights, NEW p \in Paths, NEW c \in Clients, conn[c] # "off",
           \/ Rearranged(file[p], file'[p], c)
           \/ Dropped(p)
           \/ Forgotten(file[p], file'[p], c),
           \A d \in Clients : conn[d] # "off" => conn'[d] # "off"
    PROVE  Held(p)'
<1>1. file[p].fd_open \subseteq Clients /\ file[p].fd_lock \in Clients \cup {None}
  BY FileFields DEF SInv, TypeOK
<1>2. Held(p)
  BY DEF Rights
<1> QED
  BY <1>1, <1>2, StoreAssumption DEF Rearranged, Dropped, Forgotten, Held, Blank

\* A connection is gone only when close_client has gone through all files.
LEMMA NextRights == ASSUME SInv, Serving, Rights, [Next]_vars PROVE Rights'
<1> USE DEF SInv, TypeOK
<1>1. CASE UNCHANGED vars
  BY <1>1, RightsKept DEF vars
<1>2. ASSUME NEW c \in Clients, Connect(c) \/ CloseClient(c) PROVE Rights'
  BY <1>2, RightsKept DEF Connect, CloseClient, store
<1>3. ASSUME NEW w \in Workers, NEW c \in Clients, Disconnect(w, c) \/ TakesUp(w, c)
      PROVE  Rights'
  BY <1>3, RightsKept DEF Disconnect, TakesUp, store
<1>4. ASSUME NEW w \in Workers, Handler(w) PROVE Rights'
  <2>1. pc[w] # "idle" /\ client[w] \in Clients /\ conn[client[w]] = "busy"
    BY <1>4, HandlerConnections DEF Requested, Knows, Serving
  <2>2. \A d \in Clients : conn[d] # "off" => conn'[d] # "off"
    <3>1. CASE Answer(w)
      BY <2>1, <3>1 DEF Answer
    <3> QED
      BY <1>4, <3>1, HandlerConnections
  <2>3. \A p \in Paths : Held(p)'
    BY <1>4, <2>1, <2>2, HandlerRights, RearrangedHeld
  <2> QED
    BY <2>3 DEF Rights
<1>5. CASE ForgetFiles
  <2> SUFFICES ASSUME NEW p \in Paths PROVE Held(p)'
    BY DEF Rights
  <2>1. main_client \in Clients
    BY <1>5 DEF ForgetFiles, Owners
  <2>2. /\ file'[p].fd_open = file[p].fd_open \ {main_client}
        /\ file'[p].fd_lock = IF file[p].fd_lock = main_client THEN None ELSE file[p].fd_lock
    <3>1. CASE p \in files
      <4>1. file'[p] = ForgetClient(file[p], main_client) /\ file[p] \in FileT
        BY <1>5, <3>1 DEF ForgetFiles
      <4> QED
        BY <4>1 DEF ForgetClient, FileT
    <3>2. CASE p \notin files
      BY <1>5, <2>1, <3>2, StoreAssumption DEF ForgetFiles, Blank
    <3> QED
      BY <3>1, <3>2
  <2>3. \A c \in Clients \ {main_client} : conn'[c] = conn[c]
    BY <1>5, <2>1 DEF ForgetFiles
  <2>4. Held(p) /\ file[p].fd_open \subseteq Clients
    BY FileFields DEF Rights
  <2> QED
    BY <2>2, <2>3, <2>4 DEF Held
<1> QED
  BY <1>1, <1>2, <1>3, <1>4, <1>5, NewRequests DEF Next

-----------------------------------------------------------------------------
(***************************************************************************)
(* The inductive invariant: with SInv, each worker has a connection of its *)
(* own, and the rights in every file are those of connected clients.       *)
(***************************************************************************)
THEOREM RightsInvariant == Safety => []RInv
<1>1. Init => RInv
  <2> SUFFICES ASSUME Init PROVE RInv
    OBVIOUS
  <2>1. Serving
    BY StoreAssumption DEF Init, Serving
  <2>2. Rights
    BY DEF Init, Rights, Held, Blank
  <2> QED
    BY <2>1, <2>2, InitSInv DEF RInv
<1>2. RInv /\ SInv' /\ [Next]_vars => RInv'
  BY NextServing, NextRights DEF RInv
<1> QED
  BY Invariant, <1>1, <1>2, PTL DEF Safety

(***************************************************************************)
(* Whoever locks a file has it open: open_file sets both fields, and       *)
(* close_file and close_client reset both.                                 *)
(***************************************************************************)
THEOREM LockersHaveOpened == Safety => []LockersOpened
<1>1. RInv => LockersOpened
  BY DEF RInv, SInv, TypeOK, Rights, Held, LockersOpened
<1> QED
  BY RightsInvariant, <1>1, PTL

(***************************************************************************)
(* A descriptor that accept returns again finds no file open and no file   *)
(* locked: close_client cleans every file before the connection is off,    *)
(* and no worker can still be serving that client then.                    *)
(***************************************************************************)
THEOREM NothingInherited == Safety => []NoInheritedRights
<1>1. RInv => NoInheritedRights
  BY DEF RInv, SInv, TypeOK, Rights, Held, NoInheritedRights
<1> QED
  BY RightsInvariant, <1>1, PTL

(***************************************************************************)
(* A lock is never stolen: as long as the file is stored its locker keeps  *)
(* it, until the locker's own closeFile gives it up or the main thread     *)
(* closes the locker's connection.                                         *)
(***************************************************************************)
LockKept == \A p \in files \cap files' :
    file[p].fd_lock # None /\ file'[p].fd_lock # file[p].fd_lock =>
        \/ \E w \in Workers : /\ files_mtx = w
                              /\ req[w].op = "close" /\ client[w] = file[p].fd_lock
        \/ files_mtx = Main /\ main_client = file[p].fd_lock

(***************************************************************************)
(* open_file tests fd_lock and sets it under the same writer lock, so two  *)
(* clients that race for O_LOCK cannot both get it, and no other handler   *)
(* overwrites fd_lock.                                                     *)
(***************************************************************************)
THEOREM LocksNotStolen == Safety => [][LockKept]_vars
<1>1. SInv /\ [Next]_vars => [LockKept]_vars
  <2> SUFFICES ASSUME SInv, Next, NEW p \in files, p \in files',
                      file[p].fd_lock # None, file'[p].fd_lock # file[p].fd_lock
               PROVE  \/ \E w \in Workers : /\ files_mtx = w
                                             /\ req[w].op = "close"
                                             /\ client[w] = file[p].fd_lock
                      \/ files_mtx = Main /\ main_client = file[p].fd_lock
    BY DEF LockKept
  <2>0. p \in Paths
    BY DEF SInv, TypeOK
  <2>1. ASSUME NEW c \in Clients, Connect(c) \/ CloseClient(c) PROVE FALSE
    BY <2>1 DEF Connect, CloseClient, store
  <2>2. ASSUME NEW w \in Workers, NEW c \in Clients, Disconnect(w, c) \/ TakesUp(w, c)
        PROVE  FALSE
    BY <2>2 DEF Disconnect, TakesUp, store
  <2>3. ASSUME NEW w \in Workers, Handler(w)
        PROVE  files_mtx = w /\ req[w].op = "close" /\ client[w] = file[p].fd_lock
    <3>1. Close(w) /\ Forgotten(file[p], file'[p], client[w])
      BY <2>0, <2>3, HandlerRights DEF Rearranged, Dropped
    <3>2. files_mtx = w
      BY <3>1, AloneInMutex DEF Close, InMutex
    <3> QED
      BY <3>1, <3>2 DEF Close, Forgotten
  <2>4. ASSUME ForgetFiles PROVE files_mtx = Main /\ main_client = file[p].fd_lock
    <3>1. file'[p] = ForgetClient(file[p], main_client) /\ file[p] \in FileT
      BY <2>0, <2>4 DEF ForgetFiles, SInv, TypeOK
    <3> QED
      BY <2>4, <3>1 DEF ForgetFiles, ForgetClient, FileT
  <2> QED
    BY <2>1, <2>2, <2>3, <2>4, NewRequests DEF Next
<1> QED
  BY Invariant, <1>1, PTL DEF Safety
=============================================================================
