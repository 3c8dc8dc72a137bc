----------------------------- MODULE FileStore ------------------------------
(***************************************************************************)
(* The in-memory file store: the request handlers of src/src/server/       *)
(* (open_file.c, close_file.c, read_file.c, read_n_files.c, write_file.c,  *)
(* append_to_file.c, remove_file.c), the replacement algorithm             *)
(* (replacement.c) and the clean-up after a client (close_client in        *)
(* server.c), run by several workers and by the main thread.               *)
(*                                                                         *)
(* The hash map of files is guarded by files_mtx, each file by the         *)
(* reader-writer lock that module FileLock models; here a lock is its two  *)
(* counters.  Every lock is taken by the owner of files_mtx, but a reader  *)
(* gives its lock back without owning it, while it sends a file.           *)
(*                                                                         *)
(* Where a worker is, pc[w]:                                               *)
(*   "idle"       waits for a request                                      *)
(*   "critical"   owns files_mtx, looks up the file of its request         *)
(*   "locked"     owns files_mtx and the lock of that file                 *)
(*   "expelling"  as "locked", in the loop of expell_multiple_files        *)
(*   "sending"    owns no mutex, writes files to its client                *)
(*   "unlocking"  gives back the reader locks of the files it sent         *)
(*   "answer"     has the result of the request, not yet reported          *)
(*                                                                         *)
(* A connection, conn[c]: "off", "idle" (watched by the main thread),      *)
(* "busy" (a worker serves it), "closing" (reported MW_CLOSE or            *)
(* MW_FATAL_ERROR, to be closed by the main thread).                       *)
(***************************************************************************)
EXTENDS Integers, FiniteSets

CONSTANTS
    Paths,          \* path names
    Clients,        \* file descriptors of clients
    Workers,        \* worker threads
    Main,           \* the main thread
    None,           \* no client (-1), no thread, no request
    MaxFiles,       \* server_config.max_files
    MaxSpace,       \* server_config.max_space
    Policy,         \* server_config.policy: "LRU" or "FIFO"
    Sizes,          \* bytes that a write or append request carries
    Counts,         \* the N of a readNFiles request
    SendFailures    \* may a write to a client fail?

\* The results of a request, SA_SUCCESS ... in server-api-protocol.h.
Results == {"SUCCESS", "ERROR", "CLOSE", "EXISTS", "NO_FILE", "ALREADY_LOCKED",
            "NOT_LOCKED", "NOT_EMPTY", "TOO_BIG", "NO_OPEN"}

ASSUME StoreAssumption ==
    /\ IsFiniteSet(Paths) /\ IsFiniteSet(Workers)
    /\ None \notin Clients \cup Workers \cup Paths \cup Results
    /\ Main \notin Workers \cup {None}
    /\ MaxFiles \in Nat
    /\ MaxSpace \in Nat
    /\ Policy \in {"LRU", "FIFO"}
    /\ Sizes \subseteq Nat \ {0}
    /\ Counts \subseteq Int
    /\ SendFailures \in BOOLEAN

VARIABLES
    files,          \* the paths stored in the hash map
    file,           \* the file_t of each stored path, Blank for the others
    last_use,       \* <<p, q>>: p was last used before q
    creation_time,  \* <<p, q>>: p was created before q
    curr_state,     \* number of files, bytes, and their maxima so far
    files_mtx,      \* owner of files_mtx, or None
    conn,           \* the connections, see above
    pc,             \* the workers, see above
    client,         \* fd_client of each worker
    req,            \* the request each worker serves
    reading,        \* files a worker has locked as a reader
    to_expell,      \* files expelled for a worker's request, not yet sent
    res,            \* the result of a worker's request
    size_to_free,   \* the argument of expell_multiple_files
    freed,          \* its local variable
    main_client     \* the client the main thread is closing

store == <<files, file, last_use, creation_time>>
locals == <<reading, to_expell>>
loop == <<size_to_free, freed>>
vars == <<files, file, last_use, creation_time, curr_state, files_mtx, conn, pc,
          client, req, reading, to_expell, res, size_to_free, freed, main_client>>

OpenRequests == [op : {"open"}, path : Paths, create : BOOLEAN, lock : BOOLEAN]
PathRequests == [op : {"close", "read", "remove"}, path : Paths]
DataRequests == [op : {"write", "append"}, path : Paths, size : Sizes \cup {0}]
CountRequests == [op : {"read_n"}, n : Counts]
Requests == OpenRequests \cup PathRequests \cup DataRequests \cup CountRequests

\* A file_t; Blank stands for a path that is not in the hash map.
FileT == [size : Nat, fd_lock : Clients \cup {None}, fd_open : SUBSET Clients,
          n_readers : Nat, n_writers : Nat, can_be_expelled : BOOLEAN]
Blank == [size |-> 0, fd_lock |-> None, fd_open |-> {},
          n_readers |-> 0, n_writers |-> 0, can_be_expelled |-> TRUE]

Init == /\ files = {}
        /\ file = [p \in Paths |-> Blank]
        /\ last_use = {}
        /\ creation_time = {}
        /\ curr_state = [files |-> 0, space |-> 0, max_files |-> 0, max_space |-> 0]
        /\ files_mtx = None
        /\ conn = [c \in Clients |-> "off"]
        /\ pc = [w \in Workers |-> "idle"]
        /\ client = [w \in Workers |-> None]
        /\ req = [w \in Workers |-> None]
        /\ reading = [w \in Workers |-> {}]
        /\ to_expell = [w \in Workers |-> {}]
        /\ res = [w \in Workers |-> None]
        /\ size_to_free = 0
        /\ freed = 0
        /\ main_client = None

-----------------------------------------------------------------------------
\* clock_gettime(CLOCK_MONOTONIC): p becomes the youngest of the files in S.
Stamp(order, p, S) == {e \in order : p \notin {e[1], e[2]}} \cup ((S \ {p}) \X {p})
\* A deleted file has no time.
Forget(order, p) == {e \in order : p \notin {e[1], e[2]}}

\* The worker releases files_mtx and has its result.
Return(w, code) == /\ files_mtx' = None
                   /\ pc' = [pc EXCEPT ![w] = "answer"]
                   /\ res' = [res EXCEPT ![w] = code]

WriterUnlocked(f) == [f EXCEPT !.n_writers = @ - 1]
Unused(p) == file[p].n_readers = 0 /\ file[p].n_writers = 0

-----------------------------------------------------------------------------
\* The main thread accepts a connection.
Connect(c) == /\ conn[c] = "off"
              /\ conn' = [conn EXCEPT ![c] = "idle"]
              /\ UNCHANGED <<store, curr_state, files_mtx, pc, client, req, locals, res,
                             loop, main_client>>

\* A worker finds that an idle client has closed its end (MW_CLOSE).
Disconnect(w, c) == /\ pc[w] = "idle"
                    /\ conn[c] = "idle"
                    /\ conn' = [conn EXCEPT ![c] = "closing"]
                    /\ UNCHANGED <<store, curr_state, files_mtx, pc, client, req, locals,
                                   res, loop, main_client>>

(***************************************************************************)
(* A request whose arguments cannot be read: the client went away, or it   *)
(* is a write of 0 bytes, for which readn returns 0 as at end of file.     *)
(***************************************************************************)
BadRequest(w, c) == /\ pc[w] = "idle"
                    /\ conn[c] = "idle"
                    /\ conn' = [conn EXCEPT ![c] = "busy"]
                    /\ client' = [client EXCEPT ![w] = c]
                    /\ pc' = [pc EXCEPT ![w] = "answer"]
                    /\ \E code \in {"CLOSE", "ERROR"} : res' = [res EXCEPT ![w] = code]
                    /\ UNCHANGED <<store, curr_state, files_mtx, req, locals, loop, main_client>>

\* append_to_file with size 0 looks at no file at all.
AppendNothing(w, c, p) ==
    /\ pc[w] = "idle"
    /\ conn[c] = "idle"
    /\ conn' = [conn EXCEPT ![c] = "busy"]
    /\ client' = [client EXCEPT ![w] = c]
    /\ req' = [req EXCEPT ![w] = [op |-> "append", path |-> p, size |-> 0]]
    /\ pc' = [pc EXCEPT ![w] = "sending"]
    /\ UNCHANGED <<store, curr_state, files_mtx, locals, res, loop, main_client>>

\* A worker has read request r of client c and locks files_mtx.
LockFiles(w, c, r) ==
    /\ pc[w] = "idle"
    /\ conn[c] = "idle"
    /\ r.op \in {"write", "append"} => r.size > 0
    /\ files_mtx = None
    /\ files_mtx' = w
    /\ conn' = [conn EXCEPT ![c] = "busy"]
    /\ client' = [client EXCEPT ![w] = c]
    /\ req' = [req EXCEPT ![w] = r]
    /\ pc' = [pc EXCEPT ![w] = "critical"]
    /\ UNCHANGED <<store, curr_state, locals, res, loop, main_client>>

IsCreate(r) == r.op = "open" /\ r.create
\* The handlers that begin with hashmap_get_by_key(files, pathname).
LooksUp(r) == r.op # "read_n" /\ ~IsCreate(r)

\* Fault: a missing file makes the handler return without unlocking files_mtx.
FileMissingKeepsMutex(w) ==
    /\ pc[w] = "critical"
    /\ LooksUp(req[w])
    /\ req[w].path \notin files
    /\ pc' = [pc EXCEPT ![w] = "answer"]
    /\ res' = [res EXCEPT ![w] = "NO_FILE"]
    /\ UNCHANGED <<store, curr_state, files_mtx, conn, client, req, locals, loop, main_client>>

\* The file of the request is not stored: an error, except for removeFile.
FileMissing(w) ==
    /\ pc[w] = "critical"
    /\ LooksUp(req[w])
    /\ req[w].path \notin files
    /\ Return(w, IF req[w].op = "remove" THEN "SUCCESS" ELSE "NO_FILE")
    /\ UNCHANGED <<store, curr_state, conn, client, req, locals, loop, main_client>>

\* Fault: a writer does not wait for the readers of its file.
LockFileOverReaders(w) ==
    /\ pc[w] = "critical"
    /\ LooksUp(req[w])
    /\ req[w].path \in files
    /\ file' = [file EXCEPT ![req[w].path] =
                  IF req[w].op = "read" THEN [@ EXCEPT !.n_readers = @ + 1]
                                        ELSE [@ EXCEPT !.n_writers = @ + 1]]
    /\ pc' = [pc EXCEPT ![w] = "locked"]
    /\ UNCHANGED <<files, last_use, creation_time, curr_state, files_mtx, conn, client,
                   req, locals, res, loop, main_client>>

\* file_reader_lock in read_file, file_writer_lock in the other handlers.
LockFile(w) ==
    /\ pc[w] = "critical"
    /\ LooksUp(req[w])
    /\ LET p == req[w].path IN
         /\ p \in files
         /\ \/ /\ req[w].op = "read"
               /\ file[p].n_writers = 0
               /\ file' = [file EXCEPT ![p].n_readers = @ + 1]
            \/ /\ req[w].op # "read"
               /\ Unused(p)
               /\ file' = [file EXCEPT ![p].n_writers = @ + 1]
    /\ pc' = [pc EXCEPT ![w] = "locked"]
    /\ UNCHANGED <<files, last_use, creation_time, curr_state, files_mtx, conn, client,
                   req, locals, res, loop, main_client>>

\* Fault: the writer lock is given back twice.
RefuseUnlockingTwice(w, code) ==
    /\ file' = [file EXCEPT ![req[w].path] = WriterUnlocked(WriterUnlocked(@))]
    /\ Return(w, code)
    /\ UNCHANGED <<files, last_use, creation_time, curr_state, conn, client, req, locals,
                   loop, main_client>>

\* The handlers that locked their file as writers and give up.
Refuse(w, code) ==
    /\ file' = [file EXCEPT ![req[w].path] = WriterUnlocked(@)]
    /\ Return(w, code)
    /\ UNCHANGED <<files, last_use, creation_time, curr_state, conn, client, req, locals,
                   loop, main_client>>

-----------------------------------------------------------------------------
\* replacement.c: the files the algorithm may choose, and the oldest of them.
Expellable == {p \in files : file[p].can_be_expelled}
PolicyOrder == IF Policy = "FIFO" THEN creation_time ELSE last_use
\* Fault: the comparison is the wrong way round.
Newest(p) == /\ p \in Expellable
             /\ \A q \in Expellable : <<p, q>> \notin PolicyOrder
Oldest(p) == /\ p \in Expellable
             /\ \A q \in Expellable : <<q, p>> \notin PolicyOrder
\* expell_single_file locks every such file as a writer, one after the other.
CanExpell == \A p \in Expellable : Unused(p)

CreateExists(w) ==
    /\ pc[w] = "critical"
    /\ IsCreate(req[w])
    /\ req[w].path \in files
    /\ Return(w, "EXISTS")
    /\ UNCHANGED <<store, curr_state, conn, client, req, locals, loop, main_client>>

\* create_file.
NewFile(c, lock) == [Blank EXCEPT !.fd_lock = IF lock THEN c ELSE None, !.fd_open = {c}]

\* The new file enters the map and the statistics, and files_mtx is released.
Insert(w, kept, f, state) ==
    LET p == req[w].path
        n == state.files + 1
    IN  /\ files' = kept \cup {p}
        /\ file' = [f EXCEPT ![p] = NewFile(client[w], req[w].lock)]
        /\ curr_state' = [state EXCEPT !.files = n,
                                       !.max_files = IF n > @ THEN n ELSE @]
        /\ Return(w, "SUCCESS")
        /\ UNCHANGED <<conn, client, req, locals, loop, main_client>>

\* Fault: the test for a full store is off by one.
CreateOneMore(w) ==
    /\ pc[w] = "critical"
    /\ IsCreate(req[w])
    /\ req[w].path \notin files
    /\ curr_state.files <= MaxFiles
    /\ Insert(w, files, file, curr_state)
    /\ last_use' = Stamp(last_use, req[w].path, files)
    /\ creation_time' = Stamp(creation_time, req[w].path, files)

\* open_file with O_CREATE; expell_single_file returns -1 on an empty map.
Create(w) ==
    /\ pc[w] = "critical"
    /\ IsCreate(req[w])
    /\ req[w].path \notin files
    /\ curr_state.files # MaxFiles \/ files = {}
    /\ Insert(w, files, file, curr_state)
    /\ last_use' = Stamp(last_use, req[w].path, files)
    /\ creation_time' = Stamp(creation_time, req[w].path, files)

\* The store is full: the oldest file is expelled, and thrown away.
CreateExpelling(w) ==
    /\ pc[w] = "critical"
    /\ IsCreate(req[w])
    /\ req[w].path \notin files
    /\ curr_state.files = MaxFiles
    /\ files # {}
    /\ CanExpell
    /\ \E v \in files :
         /\ Oldest(v)
         /\ Insert(w, files \ {v}, [file EXCEPT ![v] = Blank],
                   [curr_state EXCEPT !.files = @ - 1, !.space = @ - file[v].size])
         /\ last_use' = Stamp(Forget(last_use, v), req[w].path, files \ {v})
         /\ creation_time' = Stamp(Forget(creation_time, v), req[w].path, files \ {v})

\* A file that c has opened, and perhaps locked.
Opened(f, c, lock) == [f EXCEPT !.fd_lock = IF lock THEN c ELSE @, !.fd_open = @ \cup {c}]

\* open_file without O_CREATE.
Open(w) ==
    /\ pc[w] = "locked"
    /\ req[w].op = "open"
    /\ LET p == req[w].path
           c == client[w]
       IN  \/ /\ req[w].lock
              /\ file[p].fd_lock \notin {None, c}
              /\ Refuse(w, "ALREADY_LOCKED")
           \/ /\ ~(req[w].lock /\ file[p].fd_lock \notin {None, c})
              /\ file' = [file EXCEPT ![p] = Opened(WriterUnlocked(@), c, req[w].lock)]
              /\ last_use' = Stamp(last_use, p, files)
              /\ Return(w, "SUCCESS")
              /\ UNCHANGED <<files, creation_time, curr_state, conn, client, req, locals,
                             loop, main_client>>

\* Fault: a client that closes a file keeps its lock.
ForgetOpenOnly(f, c) == [f EXCEPT !.fd_open = @ \ {c}]
\* A file that c no longer has open, and no longer locks.
ForgetClient(f, c) == [f EXCEPT !.fd_open = @ \ {c}, !.fd_lock = IF @ = c THEN None ELSE @]

\* close_file; no error if the client had not opened the file.
Close(w) ==
    /\ pc[w] = "locked"
    /\ req[w].op = "close"
    /\ file' = [file EXCEPT ![req[w].path] = ForgetClient(WriterUnlocked(@), client[w])]
    /\ Return(w, "SUCCESS")
    /\ UNCHANGED <<files, last_use, creation_time, curr_state, conn, client, req, locals,
                   loop, main_client>>

\* Fault: the reader lock is given back before the file is sent.
ReadUnlockedTooSoon(w) ==
    /\ pc[w] = "locked"
    /\ req[w].op = "read"
    /\ client[w] \in file[req[w].path].fd_open
    /\ file' = [file EXCEPT ![req[w].path].n_readers = @ - 1]
    /\ last_use' = Stamp(last_use, req[w].path, files)
    /\ reading' = [reading EXCEPT ![w] = {req[w].path}]
    /\ files_mtx' = None
    /\ pc' = [pc EXCEPT ![w] = "sending"]
    /\ UNCHANGED <<files, creation_time, curr_state, conn, client, req, to_expell, res, loop,
                   main_client>>

\* read_file up to the release of files_mtx; the reader lock is kept.
Read(w) ==
    /\ pc[w] = "locked"
    /\ req[w].op = "read"
    /\ LET p == req[w].path IN
         \/ /\ client[w] \notin file[p].fd_open
            /\ file' = [file EXCEPT ![p].n_readers = @ - 1]
            /\ Return(w, "NO_OPEN")
            /\ UNCHANGED <<last_use, reading>>
         \/ /\ client[w] \in file[p].fd_open
            /\ last_use' = Stamp(last_use, p, files)
            /\ reading' = [reading EXCEPT ![w] = {p}]
            /\ files_mtx' = None
            /\ pc' = [pc EXCEPT ![w] = "sending"]
            /\ UNCHANGED <<file, res>>
    /\ UNCHANGED <<files, creation_time, curr_state, conn, client, req, to_expell, loop,
                   main_client>>

\* N or, when N <= 0, all: read_n_files takes at most this many files.
Wanted(n) == IF n <= 0 THEN curr_state.files ELSE n

\* The first files that the iterator over the map meets; any set may be.
Selected(n) == {S \in SUBSET files :
                  \/ S = files /\ Cardinality(S) <= Wanted(n)
                  \/ Cardinality(S) = Wanted(n)}

(***************************************************************************)
(* read_n_files up to the release of files_mtx.  When all files are wanted *)
(* and there are none, the loop body never runs and the test that follows  *)
(* reads the uninitialised err: it may take the error branch.              *)
(***************************************************************************)
ReadN(w) ==
    /\ pc[w] = "critical"
    /\ req[w].op = "read_n"
    /\ \/ \E S \in Selected(req[w].n) :
            /\ \A p \in S : file[p].n_writers = 0
            /\ file' = [p \in Paths |-> IF p \in S THEN [file[p] EXCEPT !.n_readers = @ + 1]
                                                   ELSE file[p]]
            /\ reading' = [reading EXCEPT ![w] = S]
            /\ files_mtx' = None
            /\ pc' = [pc EXCEPT ![w] = "sending"]
            /\ UNCHANGED res
       \/ /\ Wanted(req[w].n) = 0
          /\ Return(w, "ERROR")
          /\ UNCHANGED <<file, reading>>
    /\ UNCHANGED <<files, last_use, creation_time, curr_state, conn, client, req, to_expell,
                   loop, main_client>>

-----------------------------------------------------------------------------
\* The statistics after n bytes were added, when nothing has to be expelled.
SpaceSettled(state) == [state EXCEPT !.max_space = IF state.space > @ THEN state.space ELSE @]

Grown(f, n) == [f EXCEPT !.size = @ + n]

\* Fault: the file that grows is not protected from the replacement algorithm.
GrowUnprotected(w, n) ==
    LET p == req[w].path
        space == curr_state.space + n
    IN  /\ last_use' = Stamp(last_use, p, files)
        /\ file' = [file EXCEPT ![p].size = @ + n]
        /\ curr_state' = [curr_state EXCEPT !.space = space]
        /\ size_to_free' = IF space > MaxSpace THEN space - MaxSpace ELSE 0
        /\ freed' = 0
        /\ pc' = [pc EXCEPT ![w] = "expelling"]
        /\ UNCHANGED <<files, creation_time, files_mtx, conn, client, req, locals, res,
                       main_client>>

(***************************************************************************)
(* The common end of write_file and append_to_file: the file grows by n    *)
(* bytes and, if the store is now over its limit, it is protected and      *)
(* expell_multiple_files is called.                                        *)
(***************************************************************************)
Grow(w, n) ==
    LET p == req[w].path
        space == curr_state.space + n
    IN  /\ last_use' = Stamp(last_use, p, files)
        /\ \/ /\ space > MaxSpace
              /\ file' = [file EXCEPT ![p].size = @ + n, ![p].can_be_expelled = FALSE]
              /\ curr_state' = [curr_state EXCEPT !.space = space]
              /\ size_to_free' = space - MaxSpace
              /\ freed' = 0
              /\ pc' = [pc EXCEPT ![w] = "expelling"]
              /\ UNCHANGED files_mtx
           \/ /\ space <= MaxSpace
              /\ file' = [file EXCEPT ![p] = Grown(WriterUnlocked(@), n)]
              /\ curr_state' = SpaceSettled([curr_state EXCEPT !.space = space])
              /\ files_mtx' = None
              /\ pc' = [pc EXCEPT ![w] = "sending"]
              /\ UNCHANGED loop
        /\ UNCHANGED <<files, creation_time, conn, client, req, locals, res, main_client>>

\* write_file; the checks are made in this order.
WriteError(f, c, n) == CASE c \notin f.fd_open -> "NO_OPEN"
                         [] c \in f.fd_open /\ f.fd_lock # c -> "NOT_LOCKED"
                         [] c \in f.fd_open /\ f.fd_lock = c /\ f.size # 0 -> "NOT_EMPTY"
                         [] c \in f.fd_open /\ f.fd_lock = c /\ f.size = 0 /\ n > MaxSpace -> "TOO_BIG"
                         [] OTHER -> None

Write(w) ==
    /\ pc[w] = "locked"
    /\ req[w].op = "write"
    /\ LET code == WriteError(file[req[w].path], client[w], req[w].size) IN
         \/ code # None /\ Refuse(w, code)
         \/ code = None /\ Grow(w, req[w].size)

\* Fault: only the bytes appended are compared with max_space.
AppendChecksBuffer(f, c, n) == CASE c \notin f.fd_open -> "NO_OPEN"
                                 [] c \in f.fd_open /\ n > MaxSpace -> "TOO_BIG"
                                 [] OTHER -> None

\* append_to_file; a file locked by another client is not protected.
AppendError(f, c, n) == CASE c \notin f.fd_open -> "NO_OPEN"
                          [] c \in f.fd_open /\ f.size + n > MaxSpace -> "TOO_BIG"
                          [] OTHER -> None

AppendTo(w) ==
    /\ pc[w] = "locked"
    /\ req[w].op = "append"
    /\ LET code == AppendError(file[req[w].path], client[w], req[w].size) IN
         \/ code # None /\ Refuse(w, code)
         \/ code = None /\ Grow(w, req[w].size)

\* Fault: the loop goes on until more than size_to_free bytes are freed.
ExpellOneMore(w) ==
    /\ pc[w] = "expelling"
    /\ freed <= size_to_free
    /\ CanExpell
    /\ \E v \in files :
         /\ Oldest(v)
         /\ files' = files \ {v}
         /\ file' = [file EXCEPT ![v] = Blank]
         /\ last_use' = Forget(last_use, v)
         /\ creation_time' = Forget(creation_time, v)
         /\ curr_state' = [curr_state EXCEPT !.files = @ - 1, !.space = @ - file[v].size]
         /\ freed' = freed + file[v].size
         /\ to_expell' = [to_expell EXCEPT ![w] = @ \cup {v}]
    /\ UNCHANGED <<files_mtx, conn, pc, client, req, reading, res, size_to_free, main_client>>

\* One turn of the loop of expell_multiple_files.
ExpellOne(w) ==
    /\ pc[w] = "expelling"
    /\ freed < size_to_free
    /\ CanExpell
    /\ \E v \in files :
         /\ Oldest(v)
         /\ files' = files \ {v}
         /\ file' = [file EXCEPT ![v] = Blank]
         /\ last_use' = Forget(last_use, v)
         /\ creation_time' = Forget(creation_time, v)
         /\ curr_state' = [curr_state EXCEPT !.files = @ - 1, !.space = @ - file[v].size]
         /\ freed' = freed + file[v].size
         /\ to_expell' = [to_expell EXCEPT ![w] = @ \cup {v}]
    /\ UNCHANGED <<files_mtx, conn, pc, client, req, reading, res, size_to_free, main_client>>

\* Fault: can_be_expelled is not set again.
ExpellDoneProtected(w) ==
    /\ pc[w] = "expelling"
    /\ freed >= size_to_free
    /\ file' = [file EXCEPT ![req[w].path] = WriterUnlocked(@)]
    /\ curr_state' = SpaceSettled(curr_state)
    /\ size_to_free' = 0
    /\ freed' = 0
    /\ files_mtx' = None
    /\ pc' = [pc EXCEPT ![w] = "sending"]
    /\ UNCHANGED <<files, last_use, creation_time, conn, client, req, locals, res, main_client>>

\* The loop ends; the file may be expelled again and all is unlocked.
ExpellDone(w) ==
    /\ pc[w] = "expelling"
    /\ freed >= size_to_free
    /\ file' = [file EXCEPT ![req[w].path] = [WriterUnlocked(@) EXCEPT !.can_be_expelled = TRUE]]
    /\ curr_state' = SpaceSettled(curr_state)
    /\ size_to_free' = 0
    /\ freed' = 0
    /\ files_mtx' = None
    /\ pc' = [pc EXCEPT ![w] = "sending"]
    /\ UNCHANGED <<files, last_use, creation_time, conn, client, req, locals, res, main_client>>

\* remove_file.
RemoveError(f, c) == CASE c \notin f.fd_open -> "NO_OPEN"
                       [] c \in f.fd_open /\ f.fd_lock # c -> "NOT_LOCKED"
                       [] OTHER -> None

\* Fault: the bytes of a removed file stay in curr_state.space.
RemoveKeepsSpace(w) ==
    /\ pc[w] = "locked"
    /\ req[w].op = "remove"
    /\ RemoveError(file[req[w].path], client[w]) = None
    /\ files' = files \ {req[w].path}
    /\ file' = [file EXCEPT ![req[w].path] = Blank]
    /\ last_use' = Forget(last_use, req[w].path)
    /\ creation_time' = Forget(creation_time, req[w].path)
    /\ curr_state' = [curr_state EXCEPT !.files = @ - 1]
    /\ Return(w, "SUCCESS")
    /\ UNCHANGED <<conn, client, req, locals, loop, main_client>>

Remove(w) ==
    /\ pc[w] = "locked"
    /\ req[w].op = "remove"
    /\ LET p == req[w].path
           code == RemoveError(file[p], client[w])
       IN  \/ code # None /\ Refuse(w, code)
           \/ /\ code = None
              /\ files' = files \ {p}
              /\ file' = [file EXCEPT ![p] = Blank]
              /\ last_use' = Forget(last_use, p)
              /\ creation_time' = Forget(creation_time, p)
              /\ curr_state' = [curr_state EXCEPT !.files = @ - 1, !.space = @ - file[p].size]
              /\ Return(w, "SUCCESS")
              /\ UNCHANGED <<conn, client, req, locals, loop, main_client>>

-----------------------------------------------------------------------------
IsRead(r) == r.op \in {"read", "read_n"}

\* Fault: read_file ends without file_reader_unlock.
SendKeepsLock(w) ==
    /\ pc[w] = "sending"
    /\ pc' = [pc EXCEPT ![w] = "answer"]
    /\ reading' = [reading EXCEPT ![w] = {}]
    /\ to_expell' = [to_expell EXCEPT ![w] = {}]
    /\ res' = [res EXCEPT ![w] = "SUCCESS"]
    /\ UNCHANGED <<store, curr_state, files_mtx, conn, client, req, loop, main_client>>

\* The files are written to the client; the expelled ones are then freed.
Send(w) ==
    /\ pc[w] = "sending"
    /\ pc' = [pc EXCEPT ![w] = IF IsRead(req[w]) THEN "unlocking" ELSE "answer"]
    /\ to_expell' = [to_expell EXCEPT ![w] = {}]
    /\ res' = [res EXCEPT ![w] = "SUCCESS"]
    /\ UNCHANGED <<store, curr_state, files_mtx, conn, client, req, reading, loop, main_client>>

(***************************************************************************)
(* A write to the client fails.  read_n_files still unlocks its files;     *)
(* read_file returns at once and its reader lock is never given back.      *)
(***************************************************************************)
SendFails(w) ==
    /\ SendFailures
    /\ pc[w] = "sending"
    /\ pc' = [pc EXCEPT ![w] = IF req[w].op = "read_n" THEN "unlocking" ELSE "answer"]
    /\ reading' = [reading EXCEPT ![w] = IF req[w].op = "read_n" THEN @ ELSE {}]
    /\ to_expell' = [to_expell EXCEPT ![w] = {}]
    /\ res' = [res EXCEPT ![w] = "ERROR"]
    /\ UNCHANGED <<store, curr_state, files_mtx, conn, client, req, loop, main_client>>

\* file_reader_unlock of one file that was sent; reader_unlock_all's loop.
UnlockReader(w) ==
    /\ pc[w] = "unlocking"
    /\ \/ /\ \E p \in reading[w] :
               /\ file' = [file EXCEPT ![p].n_readers = @ - 1]
               /\ reading' = [reading EXCEPT ![w] = @ \ {p}]
          /\ UNCHANGED pc
       \/ /\ reading[w] = {}
          /\ pc' = [pc EXCEPT ![w] = "answer"]
          /\ UNCHANGED <<file, reading>>
    /\ UNCHANGED <<files, last_use, creation_time, curr_state, files_mtx, conn, client, req,
                   to_expell, res, loop, main_client>>

\* The worker's switch: the result goes to the client and to the main thread.
Answer(w) ==
    /\ pc[w] = "answer"
    /\ \/ /\ res[w] \notin {"CLOSE", "ERROR"}
          /\ conn' = [conn EXCEPT ![client[w]] = "idle"]
       \/ /\ res[w] \in {"CLOSE", "ERROR"} \/ SendFailures
          /\ conn' = [conn EXCEPT ![client[w]] = "closing"]
    /\ pc' = [pc EXCEPT ![w] = "idle"]
    /\ client' = [client EXCEPT ![w] = None]
    /\ req' = [req EXCEPT ![w] = None]
    /\ res' = [res EXCEPT ![w] = None]
    /\ UNCHANGED <<store, curr_state, files_mtx, locals, loop, main_client>>

-----------------------------------------------------------------------------
\* close_client: the descriptor is closed and files_mtx locked ...
CloseClient(c) ==
    /\ conn[c] = "closing"
    /\ files_mtx = None
    /\ files_mtx' = Main
    /\ main_client' = c
    /\ UNCHANGED <<store, curr_state, conn, pc, client, req, locals, res, loop>>

\* Fault: only the locks of the client are forgotten.
ForgetLocksOnly ==
    /\ files_mtx = Main
    /\ \A p \in files : Unused(p)
    /\ file' = [p \in Paths |-> IF p \in files /\ file[p].fd_lock = main_client
                                THEN [file[p] EXCEPT !.fd_lock = None] ELSE file[p]]
    /\ conn' = [conn EXCEPT ![main_client] = "off"]
    /\ main_client' = None
    /\ files_mtx' = None
    /\ UNCHANGED <<files, last_use, creation_time, curr_state, pc, client, req, locals, res, loop>>

\* ... then every file is locked as a writer and forgets the client.
ForgetFiles ==
    /\ files_mtx = Main
    /\ \A p \in files : Unused(p)
    /\ file' = [p \in Paths |-> IF p \in files THEN ForgetClient(file[p], main_client) ELSE file[p]]
    /\ conn' = [conn EXCEPT ![main_client] = "off"]
    /\ main_client' = None
    /\ files_mtx' = None
    /\ UNCHANGED <<files, last_use, creation_time, curr_state, pc, client, req, locals, res, loop>>

Handler(w) == \/ FileMissing(w)
              \/ LockFile(w)
              \/ CreateExists(w)
              \/ Create(w)
              \/ CreateExpelling(w)
              \/ Open(w)
              \/ Close(w)
              \/ Read(w)
              \/ ReadN(w)
              \/ Write(w)
              \/ AppendTo(w)
              \/ ExpellOne(w)
              \/ ExpellDone(w)
              \/ Remove(w)
              \/ Send(w)
              \/ SendFails(w)
              \/ UnlockReader(w)
              \/ Answer(w)

NewRequest(w) == \E c \in Clients : \/ Disconnect(w, c)
                                    \/ BadRequest(w, c)
                                    \/ \E p \in Paths : AppendNothing(w, c, p)
                                    \/ \E r \in Requests : LockFiles(w, c, r)

Next == \/ \E c \in Clients : Connect(c) \/ CloseClient(c)
        \/ \E w \in Workers : NewRequest(w) \/ Handler(w)
        \/ ForgetFiles

Safety == Init /\ [][Next]_vars

(***************************************************************************)
(* A thread inside a handler or inside close_client goes on when it can.   *)
(* The main thread gets files_mtx to close a client although the workers   *)
(* compete for it (strong fairness): a mutex that never lets it in would   *)
(* be the scheduler's fault.  Clients need not connect nor send requests.  *)
(***************************************************************************)
Fairness == /\ \A w \in Workers : WF_vars(Handler(w))
            /\ \A c \in Clients : SF_vars(CloseClient(c))
            /\ WF_vars(ForgetFiles)

Spec == Safety /\ Fairness

-----------------------------------------------------------------------------
TypeOK == /\ files \subseteq Paths
          /\ file \in [Paths -> FileT]
          /\ \A p \in Paths \ files : file[p] = Blank
          /\ last_use \subseteq Paths \X Paths
          /\ creation_time \subseteq Paths \X Paths
          /\ curr_state \in [files : Nat, space : Nat, max_files : Nat, max_space : Nat]
          /\ files_mtx \in Workers \cup {Main, None}
          /\ conn \in [Clients -> {"off", "idle", "busy", "closing"}]
          /\ pc \in [Workers -> {"idle", "critical", "locked", "expelling", "sending",
                                 "unlocking", "answer"}]
          /\ client \in [Workers -> Clients \cup {None}]
          /\ req \in [Workers -> Requests \cup {None}]
          /\ reading \in [Workers -> SUBSET Paths]
          /\ to_expell \in [Workers -> SUBSET Paths]
          /\ res \in [Workers -> Results \cup {None}]
          /\ size_to_free \in Nat
          /\ freed \in Nat
          /\ main_client \in Clients \cup {None}

\* Every byte of the stored files, as pairs of a path and a position.
Bytes == {b \in Paths \X (1 .. MaxSpace) : b[1] \in files /\ b[2] <= file[b[1]].size}

(***************************************************************************)
(* curr_state, updated in five handlers and in the replacement algorithm,  *)
(* never drifts from the files really stored, not even in mid-eviction.    *)
(***************************************************************************)
AccountingExact == /\ curr_state.files = Cardinality(files)
                   /\ curr_state.space = Cardinality(Bytes)

(***************************************************************************)
(* The configured limits hold whenever no thread is evicting files, and    *)
(* the high-water marks printed at exit bound what was ever stored.        *)
(***************************************************************************)
WithinLimits == /\ curr_state.files <= curr_state.max_files
                /\ curr_state.max_files <= MaxFiles
                /\ curr_state.max_space <= MaxSpace
                /\ \/ curr_state.space <= curr_state.max_space
                   \/ \E w \in Workers : pc[w] = "expelling"

\* w is about to run expell_single_file on a map that is not empty.
CallsExpell(w) == \/ pc[w] = "expelling" /\ freed < size_to_free
                  \/ /\ pc[w] = "critical"
                     /\ IsCreate(req[w])
                     /\ req[w].path \notin files
                     /\ curr_state.files = MaxFiles
                     /\ files # {}

(***************************************************************************)
(* "least_file is != NULL" (replacement.c): each time the algorithm runs   *)
(* it finds a file it may expel.                                           *)
(***************************************************************************)
VictimExists == \A w \in Workers : CallsExpell(w) => Expellable # {}

(***************************************************************************)
(* expell_single_file locks every file it considers as a writer while its  *)
(* caller holds the writer lock of the file it makes room for: it never    *)
(* considers that file, so it waits for readers only and never for itself. *)
(***************************************************************************)
EvictionWaitsForReaders == \A w \in Workers : CallsExpell(w) =>
                               \A p \in Expellable : file[p].n_writers = 0

(***************************************************************************)
(* Every path through the handlers, the early returns included, gives the  *)
(* writer lock back and makes the file expellable again before files_mtx   *)
(* is released.                                                            *)
(***************************************************************************)
WritersDone == files_mtx = None => \A p \in files : file[p].n_writers = 0 /\ file[p].can_be_expelled

(***************************************************************************)
(* A file being sent to a client outside files_mtx is neither deleted nor  *)
(* expelled meanwhile: it is stored and counts its reader.                 *)
(***************************************************************************)
ReadersPinned == \A p \in Paths : LET rs == {w \in Workers : p \in reading[w]} IN
                     rs # {} => p \in files /\ file[p].n_readers >= Cardinality(rs)

(***************************************************************************)
(* When writes to clients succeed every reader lock is given back: the     *)
(* counter is the number of workers that are sending the file.             *)
(***************************************************************************)
ReadersExact == \A p \in files :
    file[p].n_readers = Cardinality({w \in Workers :
        p \in reading[w] \/ (pc[w] = "locked" /\ req[w].op = "read" /\ req[w].path = p)})

(***************************************************************************)
(* Whoever locks a file has it open.                                       *)
(***************************************************************************)
LockersOpened == \A p \in files : file[p].fd_lock # None => file[p].fd_lock \in file[p].fd_open

(***************************************************************************)
(* No file remembers a client that is gone: a new connection that gets the *)
(* same descriptor inherits no open file and no lock.                      *)
(***************************************************************************)
NoInheritedRights == \A p \in files : \A c \in file[p].fd_open : conn[c] # "off"

(***************************************************************************)
(* What a worker is sending does not change under its feet.                *)
(***************************************************************************)
SentStable == [][\A w \in Workers : \A p \in reading[w] \cap reading'[w] :
                    p \in files' /\ file'[p].size = file[p].size]_vars

(***************************************************************************)
(* A file is lost only if its locker removes it, if the bytes stored are   *)
(* over the limit at that very moment, or if a file is created in a full   *)
(* store; never the file that is being written.                            *)
(***************************************************************************)
NoNeedlessLoss == [][\A p \in files \ files' :
    \E w \in Workers :
        /\ files_mtx = w
        /\ \/ req[w].op = "remove" /\ req[w].path = p /\ file[p].fd_lock = client[w]
           \/ req[w].op \in {"write", "append"} /\ curr_state.space > MaxSpace /\ req[w].path # p
           \/ IsCreate(req[w]) /\ curr_state.files >= MaxFiles]_vars

(***************************************************************************)
(* Liveness: whoever gets files_mtx gives it back, although it may have to *)
(* wait for readers while it owns it.                                      *)
(***************************************************************************)
MutexReleased == \A t \in Workers \cup {Main} : files_mtx = t ~> files_mtx # t

(***************************************************************************)
(* Liveness: closing a client ends ("those files are unlocked and client   *)
(* is removed from the list of openers", close_client in server.c).        *)
(***************************************************************************)
ClosingFinishes == \A c \in Clients : conn[c] = "closing" ~> conn[c] = "off"
=============================================================================
