----------------------------- MODULE Dispatcher -----------------------------
(***************************************************************************)
(* How requests travel through the server: the select loop and the         *)
(* shutdown of the main thread (main in src/src/server/server.c), the loop *)
(* of the worker threads (workers.c) and the signal handler thread         *)
(* (sig_handler.c).  What a request does to the files is module FileStore; *)
(* here a request is served in one step and the client stays or goes.      *)
(*                                                                         *)
(* Descriptors are numbered as the server opens them: the read end of the  *)
(* signal pipe, those of the worker pipes, the listening socket, clients.  *)
(*                                                                         *)
(* Where the main thread is, main:                                         *)
(*   "head"     at the test of the while loop                              *)
(*   "select"   in select                                                  *)
(*   "scan"     in the for loop, about to look at descriptor i             *)
(*   "after"    after the for loop                                         *)
(*   "join"     in yield_all_threads                                       *)
(*   "closed"   returned 0;  "aborted"  returned -1                        *)
(* Where a worker is, pc[w]:                                               *)
(*   "top"      at the head of its while loop                              *)
(*   "test"     owns the mutex, at the test before pthread_cond_wait       *)
(*   "wait"     about to call pthread_cond_wait, still owns the mutex      *)
(*   "sleep"    blocked on request_queue_nonempty                          *)
(*   "woken"    must lock the mutex again to return from the wait          *)
(*   "take"     owns the mutex, past the wait                              *)
(*   "serve"    serves fd_client[w]                                        *)
(*   "exit"     left the loop and closed its pipe                          *)
(***************************************************************************)
EXTENDS Integers, Sequences, FiniteSets

CONSTANTS
    NWorkers,       \* server_config.n_workers
    NClients,       \* bound: clients connected or waiting to be
    SpuriousWakeups,\* may pthread_cond_wait return without a signal?
    Signals,        \* the signals the server may get: "SIGINT", "SIGHUP"
    PipeCapacity,   \* results that fit into a worker's pipe
    ConnModulus,    \* curr_state.conn is unsigned: 2^32, scaled down
    None

ASSUME DispatcherAssumption ==
    /\ NWorkers \in Nat \ {0}
    /\ NClients \in Nat \ {0}
    /\ PipeCapacity \in Nat \ {0}
    /\ ConnModulus \in Nat /\ ConnModulus > NClients
    /\ SpuriousWakeups \in BOOLEAN
    /\ Signals \subseteq {"SIGINT", "SIGHUP"}
    /\ None \notin Int

Workers == 1 .. NWorkers
SigPipe == 0
Listen == NWorkers + 1
ClientFds == (NWorkers + 2) .. (NWorkers + 1 + NClients)
Fds == 0 .. (NWorkers + 1 + NClients)
BadFd == NWorkers + 2 + NClients    \* what a junk value of fd_client names: nothing

VARIABLES
    mode,               \* the server mode
    sig,                \* signal handler: "waiting", "mode_set", "done"
    main, i,            \* the main thread and its loop index
    set, tmpset, fd_max,
    conn_client_table,  \* connected clients
    conn,               \* curr_state.conn
    listening,          \* is the listening socket open?
    backlog,            \* connections not yet accepted
    sock,               \* per client descriptor, see Socks
    request_queue,
    request_queue_mtx,  \* the worker that owns it, or None
    pc, fd_client,      \* the workers and their local variable
    pipe,               \* results written by a worker, not yet read
    pipe_open           \* is the write end of its pipe open?

mainVars == <<main, i, set, tmpset, fd_max, conn_client_table, conn, listening>>
envVars == <<backlog, sock>>
queueVars == <<request_queue, request_queue_mtx>>
workerVars == <<pc, fd_client, pipe, pipe_open>>
vars == <<mode, sig, main, i, set, tmpset, fd_max, conn_client_table, conn, listening,
          backlog, sock, request_queue, request_queue_mtx, pc, fd_client, pipe, pipe_open>>

\* free: no connection; none: nothing to read; request; eof: client hung up.
Socks == {"free", "none", "request", "eof"}
\* MW_NON_FATAL_ERROR is handled as MW_SUCCESS, MW_FATAL_ERROR as MW_CLOSE.
Codes == {"MW_SUCCESS", "MW_CLOSE"}
Results == [code : Codes, fd : Fds \cup {BadFd}]
\* An uninitialised worker_res_t: an earlier result, or a code of no case.
Leftovers == [code : Codes, fd : ClientFds]
Junk == [code |-> "junk", fd |-> BadFd]

Init == /\ mode = "ACCEPT_CONN"
        /\ sig = "waiting"
        /\ main = "head"
        /\ i = 0
        /\ set = 0 .. Listen
        /\ tmpset = {}
        /\ fd_max = Listen
        /\ conn_client_table = {}
        /\ conn = 0
        /\ listening = TRUE
        /\ backlog = 0
        /\ sock = [f \in ClientFds |-> "free"]
        /\ request_queue = <<>>
        /\ request_queue_mtx = None
        /\ pc = [w \in Workers |-> "top"]
        /\ fd_client = [w \in Workers |-> BadFd]
        /\ pipe = [w \in Workers |-> <<>>]
        /\ pipe_open = [w \in Workers |-> TRUE]

\* The process is gone once main has returned.
Running == main \notin {"closed", "aborted"}

\* update_max: the largest descriptor that is set.
MaxOf(S) == CHOOSE x \in S : \A y \in S : y <= x
MinOf(S) == CHOOSE x \in S : \A y \in S : x <= y

-----------------------------------------------------------------------------
(* Clients and signals. *)

FreeFds == {f \in ClientFds : sock[f] = "free"}

ClientConnects == /\ Running
                  /\ listening
                  /\ backlog < Cardinality(FreeFds)
                  /\ backlog' = backlog + 1
                  /\ UNCHANGED <<mode, sig, mainVars, sock, queueVars, workerVars>>

ClientSends(f) == /\ Running
                  /\ sock[f] = "none"
                  /\ sock' = [sock EXCEPT ![f] = "request"]
                  /\ UNCHANGED <<mode, sig, mainVars, backlog, queueVars, workerVars>>

ClientHangsUp(f) == /\ Running
                    /\ sock[f] = "none"
                    /\ sock' = [sock EXCEPT ![f] = "eof"]
                    /\ UNCHANGED <<mode, sig, mainVars, backlog, queueVars, workerVars>>

\* sig_handler_thread: one signal sets the mode ...
GetSignal(s) == /\ Running
                /\ sig = "waiting"
                /\ mode' = IF s = "SIGHUP" THEN "REFUSE_CONN" ELSE "CLOSE_SERVER"
                /\ sig' = "mode_set"
                /\ UNCHANGED <<mainVars, envVars, queueVars, workerVars>>

\* ... and closes the pipe to the main thread; the thread ends.
CloseSigPipe == /\ Running
                /\ sig = "mode_set"
                /\ sig' = "done"
                /\ UNCHANGED <<mode, mainVars, envVars, queueVars, workerVars>>

-----------------------------------------------------------------------------
(* The main thread. *)

Readable(f) == \/ f = SigPipe /\ sig = "done"
               \/ f \in Workers /\ (pipe[f] # <<>> \/ ~pipe_open[f])
               \/ f = Listen /\ backlog > 0
               \/ f \in ClientFds /\ sock[f] \in {"request", "eof"}

\* while(mode != CLOSE_SERVER): call select, or leave the loop.
TestMode == /\ main = "head"
            /\ mode # "CLOSE_SERVER"
            /\ main' = "select"
            /\ UNCHANGED <<mode, sig, i, set, tmpset, fd_max, conn_client_table, conn, listening,
                           envVars, queueVars, workerVars>>

\* Fault: the loop scans the watched descriptors, not the readable ones.
SelectAll == /\ main = "select"
             /\ \E f \in set : Readable(f)
             /\ tmpset' = set
             /\ i' = 0
             /\ main' = "scan"
             /\ UNCHANGED <<mode, sig, set, fd_max, conn_client_table, conn, listening,
                            envVars, queueVars, workerVars>>

\* select blocks until a watched descriptor is readable, whatever the mode.
Select == /\ main = "select"
          /\ LET ready == {f \in set : f <= fd_max /\ Readable(f)}
             IN  ready # {} /\ tmpset' = ready
          /\ i' = 0
          /\ main' = "scan"
          /\ UNCHANGED <<mode, sig, set, fd_max, conn_client_table, conn, listening,
                         envVars, queueVars, workerVars>>

\* select fails on a closed descriptor.
SelectFails == /\ main = "select"
               /\ \/ \E f \in set \cap ClientFds : f <= fd_max /\ sock[f] = "free"
                  \/ Listen \in set /\ ~listening
               /\ main' = "aborted"
               /\ UNCHANGED <<mode, sig, i, set, tmpset, fd_max, conn_client_table, conn,
                              listening, envVars, queueVars, workerVars>>

\* The next descriptor of the for loop that is set in tmpset.
Pending == {f \in tmpset : i <= f /\ f <= fd_max}
Scanning(f) == /\ main = "scan"
               /\ Pending # {}
               /\ f = MinOf(Pending)
               /\ i' = f + 1

\* Fault: fd_max is taken for the number of descriptors.
AcceptOneMore == /\ Scanning(Listen)
                 /\ mode = "ACCEPT_CONN"
                 /\ FreeFds # {}
                 /\ LET f == MinOf(FreeFds) IN
                      /\ sock' = [sock EXCEPT ![f] = "none"]
                      /\ set' = set \cup {f}
                      /\ fd_max' = IF f >= fd_max THEN f + 1 ELSE fd_max
                      /\ conn_client_table' = conn_client_table \cup {f}
                 /\ backlog' = backlog - 1
                 /\ conn' = (conn + 1) % ConnModulus
                 /\ UNCHANGED <<mode, sig, main, tmpset, listening, queueVars, workerVars>>

Accept == /\ Scanning(Listen)
          /\ mode = "ACCEPT_CONN"
          /\ FreeFds # {}
          /\ LET f == MinOf(FreeFds) IN
               /\ sock' = [sock EXCEPT ![f] = "none"]
               /\ set' = set \cup {f}
               /\ fd_max' = IF f > fd_max THEN f ELSE fd_max
               /\ conn_client_table' = conn_client_table \cup {f}
          /\ backlog' = backlog - 1
          /\ conn' = (conn + 1) % ConnModulus
          /\ UNCHANGED <<mode, sig, main, tmpset, listening, queueVars, workerVars>>

\* pthread_cond_broadcast: the sleeping workers wake up.
Broadcast == pc' = [w \in Workers |-> IF pc[w] = "sleep" THEN "woken" ELSE pc[w]]

SigPipeReady ==
    /\ Scanning(SigPipe)
    /\ \/ mode = "CLOSE_SERVER" /\ Broadcast /\ main' = "after" /\ tmpset' = {}
       \/ mode # "CLOSE_SERVER" /\ UNCHANGED <<pc, main, tmpset>>
    /\ UNCHANGED <<mode, sig, set, fd_max, conn_client_table, conn, listening,
                   envVars, queueVars, fd_client, pipe, pipe_open>>

\* close_client, as far as descriptors and statistics go.
CloseFd(f) == /\ sock' = [g \in ClientFds |-> IF g = f THEN "free" ELSE sock[g]]
              /\ listening' = (listening /\ f # Listen)
              /\ backlog' = IF f = Listen THEN 0 ELSE backlog
              /\ conn' = (conn - 1) % ConnModulus

\* Fault: a client that is closed stays in the table.
HandleResultKeepsClient(r) ==
    \/ /\ r.code = "MW_SUCCESS"
       /\ set' = set \cup {r.fd}
       /\ fd_max' = IF r.fd > fd_max THEN r.fd ELSE fd_max
       /\ UNCHANGED <<main, conn_client_table, conn, listening, backlog, sock>>
    \/ /\ r.code = "MW_CLOSE"
       /\ CloseFd(r.fd)
       /\ UNCHANGED <<main, set, fd_max, conn_client_table>>

\* Fault: fd_max is not raised when a client is watched again.
HandleResultKeepsMax(r) ==
    /\ r.code = "MW_SUCCESS"
    /\ set' = set \cup {r.fd}
    /\ UNCHANGED <<main, fd_max, conn_client_table, conn, listening, backlog, sock>>

\* The switch on result.code; any other code makes main return -1.
HandleResult(r) ==
    \/ /\ r.code = "MW_SUCCESS"
       /\ set' = set \cup {r.fd}
       /\ fd_max' = IF r.fd > fd_max THEN r.fd ELSE fd_max
       /\ UNCHANGED <<main, conn_client_table, conn, listening, backlog, sock>>
    \/ /\ r.code = "MW_CLOSE"
       /\ conn_client_table' = conn_client_table \ {r.fd}
       /\ CloseFd(r.fd)
       /\ UNCHANGED <<main, set, fd_max>>
    \/ /\ r.code \notin Codes
       /\ main' = "aborted"
       /\ UNCHANGED <<set, fd_max, conn_client_table, conn, listening, backlog, sock>>

WorkerResult(w) ==
    /\ Scanning(w)
    /\ pipe[w] # <<>>
    /\ HandleResult(Head(pipe[w]))
    /\ pipe' = [pipe EXCEPT ![w] = Tail(@)]
    /\ UNCHANGED <<mode, sig, tmpset, queueVars, pc, fd_client, pipe_open>>

(***************************************************************************)
(* The worker has closed its end: readn returns 0, which is not tested,    *)
(* and the switch uses the uninitialised result.                           *)
(***************************************************************************)
WorkerPipeEof(w) ==
    /\ Scanning(w)
    /\ pipe[w] = <<>>
    /\ \E r \in Leftovers \cup {Junk} : HandleResult(r)
    /\ UNCHANGED <<mode, sig, tmpset, queueVars, workerVars>>

\* Fault: the client stays in the set of watched descriptors.
ClientRequestWatched(f) ==
    /\ Scanning(f)
    /\ f \in ClientFds
    /\ request_queue_mtx = None
    /\ request_queue' = Append(request_queue, f)
    /\ pc' = [w \in Workers |-> IF pc[w] = "sleep" THEN "woken" ELSE pc[w]]
    /\ UNCHANGED <<mode, sig, main, set, tmpset, fd_max, conn_client_table, conn, listening,
                   envVars, request_queue_mtx, fd_client, pipe, pipe_open>>

\* Fault: no worker is signalled.
ClientRequestSilent(f) ==
    /\ Scanning(f)
    /\ f \in ClientFds \/ (f = Listen /\ mode # "ACCEPT_CONN")
    /\ request_queue_mtx = None
    /\ request_queue' = Append(request_queue, f)
    /\ set' = set \ {f}
    /\ fd_max' = IF f = fd_max THEN MaxOf(set \ {f}) ELSE fd_max
    /\ UNCHANGED <<mode, sig, main, tmpset, conn_client_table, conn, listening, envVars,
                   request_queue_mtx, workerVars>>

(***************************************************************************)
(* Everything else is taken for a client request, the listening socket     *)
(* included when the server no longer accepts connections: it is queued,   *)
(* a worker is signalled, and it is not watched until a worker is done.    *)
(***************************************************************************)
ClientRequest(f) ==
    /\ Scanning(f)
    /\ f \in ClientFds \/ (f = Listen /\ mode # "ACCEPT_CONN")
    /\ request_queue_mtx = None
    /\ request_queue' = Append(request_queue, f)
    /\ \/ /\ \A w \in Workers : pc[w] # "sleep"
          /\ UNCHANGED pc
       \/ \E w \in Workers : pc[w] = "sleep" /\ pc' = [pc EXCEPT ![w] = "woken"]
    /\ set' = set \ {f}
    /\ fd_max' = IF f = fd_max THEN MaxOf(set \ {f}) ELSE fd_max
    /\ UNCHANGED <<mode, sig, main, tmpset, conn_client_table, conn, listening, envVars,
                   request_queue_mtx, fd_client, pipe, pipe_open>>

ScanEnds == /\ main = "scan"
            /\ Pending = {}
            /\ main' = "after"
            /\ tmpset' = {}     \* dead from here on, as is i
            /\ i' = 0
            /\ UNCHANGED <<mode, sig, set, fd_max, conn_client_table, conn,
                           listening, envVars, queueVars, workerVars>>

\* After the for loop: with no more clients a server that refuses new ones closes.
AfterScan ==
    /\ main = "after"
    /\ \/ /\ mode = "REFUSE_CONN" /\ conn_client_table = {}
          /\ mode' = "CLOSE_SERVER"
          /\ Broadcast
       \/ /\ ~(mode = "REFUSE_CONN" /\ conn_client_table = {})
          /\ UNCHANGED <<mode, pc>>
    /\ main' = "head"
    /\ UNCHANGED <<sig, i, set, tmpset, fd_max, conn_client_table, conn, listening,
                   envVars, queueVars, fd_client, pipe, pipe_open>>

\* The while loop ends; the listening socket is closed.
LeaveLoop == /\ main = "head"
             /\ mode = "CLOSE_SERVER"
             /\ main' = "join"
             /\ listening' = FALSE
             /\ backlog' = 0
             /\ UNCHANGED <<mode, sig, i, set, tmpset, fd_max, conn_client_table, conn,
                            sock, queueVars, workerVars>>

\* yield_all_threads: the signal handler and all workers have ended.
JoinThreads == /\ main = "join"
               /\ sig = "done"
               /\ \A w \in Workers : pc[w] = "exit"
               /\ main' = "closed"
               /\ sock' = [f \in ClientFds |-> IF f \in conn_client_table THEN "free" ELSE sock[f]]
               /\ UNCHANGED <<mode, sig, i, set, tmpset, fd_max, conn_client_table, conn,
                              listening, backlog, queueVars, workerVars>>

Main == \/ TestMode
        \/ Select
        \/ SelectFails
        \/ Accept
        \/ SigPipeReady
        \/ \E w \in Workers : WorkerResult(w) \/ WorkerPipeEof(w)
        \/ \E f \in Fds : ClientRequest(f)
        \/ ScanEnds
        \/ AfterScan
        \/ LeaveLoop
        \/ JoinThreads

-----------------------------------------------------------------------------
(* A worker. *)

At(w, l) == Running /\ pc[w] = l
GoTo(w, l) == pc' = [pc EXCEPT ![w] = l]

\* The end of worker_thread: it closes its pipe.
Exit(w) == /\ pipe_open' = [pipe_open EXCEPT ![w] = FALSE]
           /\ GoTo(w, "exit")

\* while(mode != CLOSE_SERVER): lock the mutex, or leave.
LoopHead(w) ==
    /\ At(w, "top")
    /\ \/ /\ mode # "CLOSE_SERVER"
          /\ request_queue_mtx = None
          /\ request_queue_mtx' = w
          /\ GoTo(w, "test")
          /\ UNCHANGED pipe_open
       \/ /\ mode = "CLOSE_SERVER"
          /\ Exit(w)
          /\ UNCHANGED request_queue_mtx
    /\ UNCHANGED <<mode, sig, mainVars, envVars, request_queue, fd_client, pipe>>

\* if(mode != CLOSE_SERVER && request_queue->nelem == 0) ...
TestQueue(w) ==
    /\ At(w, "test")
    /\ GoTo(w, IF mode # "CLOSE_SERVER" /\ request_queue = <<>> THEN "wait" ELSE "take")
    /\ UNCHANGED <<mode, sig, mainVars, envVars, queueVars, fd_client, pipe, pipe_open>>

\* ... pthread_cond_wait: releases the mutex and sleeps.
CondWait(w) == /\ At(w, "wait")
               /\ request_queue_mtx' = None
               /\ GoTo(w, "sleep")
               /\ UNCHANGED <<mode, sig, mainVars, envVars, request_queue, fd_client, pipe, pipe_open>>

\* pthread_cond_wait returns; it is not called again.
Relock(w) == /\ At(w, "woken")
             /\ request_queue_mtx = None
             /\ request_queue_mtx' = w
             /\ GoTo(w, "take")
             /\ UNCHANGED <<mode, sig, mainVars, envVars, request_queue, fd_client, pipe, pipe_open>>

\* POSIX allows pthread_cond_wait to return without a signal.
SpuriousWakeup(w) == /\ SpuriousWakeups
                     /\ At(w, "sleep")
                     /\ GoTo(w, "woken")
                     /\ UNCHANGED <<mode, sig, mainVars, envVars, queueVars, fd_client, pipe, pipe_open>>

(***************************************************************************)
(* The server closes, or the first request is taken.  list_pop_front fails *)
(* on an empty queue and leaves fd_client uninitialised: the value of the  *)
(* last turn of the loop, or junk.                                         *)
(***************************************************************************)
TakeRequest(w) ==
    /\ At(w, "take")
    /\ request_queue_mtx' = None
    /\ \/ /\ mode = "CLOSE_SERVER"
          /\ Exit(w)
          /\ UNCHANGED <<request_queue, fd_client>>
       \/ /\ mode # "CLOSE_SERVER"
          /\ GoTo(w, "serve")
          /\ \/ /\ request_queue # <<>>
                /\ request_queue' = Tail(request_queue)
                /\ fd_client' = [fd_client EXCEPT ![w] = Head(request_queue)]
             \/ /\ request_queue = <<>>
                /\ \E f \in {fd_client[w], BadFd} : fd_client' = [fd_client EXCEPT ![w] = f]
                /\ UNCHANGED request_queue
          /\ UNCHANGED pipe_open
    /\ UNCHANGED <<mode, sig, mainVars, envVars, pipe>>

Report(w, code) == /\ Len(pipe[w]) < PipeCapacity
                   /\ pipe' = [pipe EXCEPT ![w] = Append(@, [code |-> code, fd |-> fd_client[w]])]
                   /\ GoTo(w, "top")
                   /\ UNCHANGED <<mode, sig, mainVars, backlog, queueVars, fd_client, pipe_open>>

\* The request is read and executed; a fatal error makes the client go.
ServeRequest(w) == /\ At(w, "serve")
                   /\ fd_client[w] \in ClientFds
                   /\ sock[fd_client[w]] = "request"
                   /\ sock' = [sock EXCEPT ![fd_client[w]] = "none"]
                   /\ \E code \in Codes : Report(w, code)

\* Fault: the end of the connection is reported as a success.
ServeFailsQuietly(w) == /\ At(w, "serve")
                        /\ fd_client[w] \in ClientFds => sock[fd_client[w]] \in {"eof", "free"}
                        /\ UNCHANGED sock
                        /\ Report(w, "MW_SUCCESS")

\* readn returns 0, or fails on what is not a connected socket.
ServeFails(w) == /\ At(w, "serve")
                 /\ fd_client[w] \in ClientFds => sock[fd_client[w]] \in {"eof", "free"}
                 /\ UNCHANGED sock
                 /\ Report(w, "MW_CLOSE")

Worker(w) == \/ LoopHead(w)
             \/ TestQueue(w)
             \/ CondWait(w)
             \/ Relock(w)
             \/ TakeRequest(w)
             \/ ServeRequest(w)
             \/ ServeFails(w)

Environment == \/ ClientConnects
               \/ \E f \in ClientFds : ClientSends(f) \/ ClientHangsUp(f)
               \/ \E s \in Signals : GetSignal(s)
               \/ \E w \in Workers : SpuriousWakeup(w)

\* Nothing happens any more.
Stopped == ~Running /\ UNCHANGED vars

Next == \/ Environment
        \/ CloseSigPipe
        \/ Main
        \/ \E w \in Workers : Worker(w)
        \/ Stopped

Safety == Init /\ [][Next]_vars

(***************************************************************************)
(* Each thread runs when it can.  Clients, signals and spurious wake-ups   *)
(* need not happen.                                                        *)
(***************************************************************************)
Fairness == /\ WF_vars(Main)
            /\ WF_vars(CloseSigPipe)
            /\ \A w \in Workers : WF_vars(Worker(w))

Spec == Safety /\ Fairness

-----------------------------------------------------------------------------
TypeOK == /\ mode \in {"ACCEPT_CONN", "REFUSE_CONN", "CLOSE_SERVER"}
          /\ sig \in {"waiting", "mode_set", "done"}
          /\ main \in {"head", "select", "scan", "after", "join", "closed", "aborted"}
          /\ i \in Nat
          /\ set \subseteq Fds
          /\ tmpset \subseteq Fds
          /\ fd_max \in Fds
          /\ conn_client_table \subseteq ClientFds
          /\ conn \in 0 .. (ConnModulus - 1)
          /\ listening \in BOOLEAN
          /\ backlog \in 0 .. NClients
          /\ sock \in [ClientFds -> Socks]
          /\ request_queue \in Seq(Fds)
          /\ request_queue_mtx \in Workers \cup {None}
          /\ pc \in [Workers -> {"top", "test", "wait", "sleep", "woken", "take", "serve", "exit"}]
          /\ fd_client \in [Workers -> Fds \cup {BadFd}]
          /\ pipe \in [Workers -> Seq(Results)]
          /\ pipe_open \in [Workers -> BOOLEAN]

InQueue == {request_queue[k] : k \in 1 .. Len(request_queue)}
Served == {fd_client[w] : w \in {v \in Workers : pc[v] = "serve"}}
Reported == UNION {{pipe[w][k].fd : k \in 1 .. Len(pipe[w])} : w \in Workers}

\* Everywhere a descriptor is: each occurrence is a place of its own.
Places(f) ==
    {p \in {<<"watched">>} : f \in set}
      \cup {<<"queued", k>> : k \in {x \in 1 .. Len(request_queue) : request_queue[x] = f}}
      \cup {<<"served", w>> : w \in {v \in Workers : pc[v] = "serve" /\ fd_client[v] = f}}
      \cup UNION {{<<"reported", w, k>> : k \in {x \in 1 .. Len(pipe[w]) : pipe[w][x].fd = f}} :
                    w \in Workers}

(***************************************************************************)
(* A connected client is in one place at a time: watched by select, in the *)
(* queue, with a worker, or in a worker's report.  It is never served      *)
(* twice at once, never queued twice and never forgotten.                  *)
(***************************************************************************)
OnePlace == \A f \in conn_client_table : Cardinality(Places(f)) = 1

(***************************************************************************)
(* curr_state.conn counts the connected clients: no double close, no       *)
(* wrap-around.                                                            *)
(***************************************************************************)
ConnExact == /\ conn = Cardinality(conn_client_table)
             /\ \A f \in ClientFds : f \in conn_client_table <=> sock[f] # "free"

(***************************************************************************)
(* select and the scan are given fd_max: it covers every watched           *)
(* descriptor, although it is updated in three places and lowered while    *)
(* the scan is running.                                                    *)
(***************************************************************************)
FdMaxCovers == \A f \in set : f <= fd_max

(***************************************************************************)
(* The copy tmpset made before the scan is not stale when used: a client   *)
(* descriptor that the scan has still to look at is still watched and      *)
(* still belongs to the client that sent the request.                      *)
(***************************************************************************)
ScanFresh == main = "scan" => \A f \in Pending \cap ClientFds :
                f \in set /\ f \in conn_client_table /\ sock[f] \in {"request", "eof"}

(***************************************************************************)
(* While requests are queued some worker is awake: the one signal per      *)
(* request is not lost.                                                    *)
(***************************************************************************)
NoStrandedRequest == request_queue # <<>> => \E w \in Workers : pc[w] # "sleep"

(***************************************************************************)
(* Liveness: a request that was sent is read by a worker.                  *)
(***************************************************************************)
RequestsServed == \A f \in ClientFds : sock[f] = "request" ~> sock[f] # "request"

(***************************************************************************)
(* Liveness: a client that hangs up is disconnected.                       *)
(***************************************************************************)
HangUpsNoticed == \A f \in ClientFds : sock[f] = "eof" ~> sock[f] = "free"

(***************************************************************************)
(* workers.c: when a worker takes a request the "request queue isn't       *)
(* empty".                                                                 *)
(***************************************************************************)
PopsRequest == \A w \in Workers :
    pc[w] = "take" /\ mode # "CLOSE_SERVER" => request_queue # <<>>

(***************************************************************************)
(* server.h: in REFUSE_CONN the "server only accepts new requests from     *)
(* already connected clients".                                             *)
(***************************************************************************)
OnlyClientsQueued == InQueue \subseteq conn_client_table

(***************************************************************************)
(* The report: after a signal the server waits for its threads and closes  *)
(* cleanly.                                                                *)
(***************************************************************************)
ShutdownCompletes == mode = "CLOSE_SERVER" ~> main = "closed"
=============================================================================
