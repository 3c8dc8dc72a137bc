-------------------------- MODULE DispatcherProofs --------------------------
(***************************************************************************)
(* Proofs about the main loop, the request queue and the workers.          *)
(***************************************************************************)
EXTENDS Dispatcher, FiniteSetTheorems, SequenceTheorems, WellFoundedInduction, TLAPS

(***************************************************************************)
(* For any number of workers and clients and any signals.                  *)
(***************************************************************************)
\* The owner of request_queue_mtx is the worker between its lock and its unlock.
MutexOwner == \A w \in Workers : request_queue_mtx = w <=> pc[w] \in {"test", "wait", "take"}

\* A worker about to wait has found the queue empty, and nobody has filled it since.
WaitsEmpty == \A w \in Workers : pc[w] = "wait" => request_queue = <<>>

\* Only a client is reported as served.
SuccessOfClient == \A w \in Workers : \A k \in 1 .. Len(pipe[w]) :
    pipe[w][k].code = "MW_SUCCESS" => pipe[w][k].fd \in ClientFds

\* Until the first signal the listening socket is not taken for a client, and no
\* worker has ended.
BeforeSignals == mode = "ACCEPT_CONN" =>
    /\ \A k \in 1 .. Len(request_queue) : request_queue[k] # Listen
    /\ \A w \in Workers : /\ fd_client[w] # Listen
                          /\ pipe_open[w] /\ pc[w] # "exit"
                          /\ \A k \in 1 .. Len(pipe[w]) : pipe[w][k].fd # Listen

\* The connection that select has announced is still there when it is accepted.
ConnectionWaits ==
    mode = "ACCEPT_CONN" /\ main = "scan" /\ Listen \in tmpset /\ i <= Listen => backlog > 0

GInv == /\ TypeOK
        /\ MutexOwner /\ WaitsEmpty /\ NoStrandedRequest
        /\ SigPipe \in set /\ FdMaxCovers
        /\ SuccessOfClient /\ BeforeSignals /\ ConnectionWaits

(***************************************************************************)
(* As long as no signal has come and no worker takes from an empty queue.  *)
(***************************************************************************)
Watched == set \cap ClientFds

\* The queue, the workers and the reports hold a descriptor at most once each.
QueuedOnce == \A j, k \in 1 .. Len(request_queue) : request_queue[j] = request_queue[k] => j = k
ServedOnce == \A v, w \in Workers :
    pc[v] = "serve" /\ pc[w] = "serve" /\ fd_client[v] = fd_client[w] => v = w
ReportedOnce == \A v, w \in Workers : \A j \in 1 .. Len(pipe[v]), k \in 1 .. Len(pipe[w]) :
    pipe[v][j].fd = pipe[w][k].fd => v = w /\ j = k

\* Each connected client is in exactly one of the four.
Partition ==
    /\ conn_client_table = Watched \cup InQueue \cup Served \cup Reported
    /\ Watched \cap InQueue = {} /\ Watched \cap Served = {} /\ Watched \cap Reported = {}
    /\ InQueue \cap Served = {} /\ InQueue \cap Reported = {} /\ Served \cap Reported = {}

\* ScanFresh without fd_max, which may rise during the scan; and no pipe found readable
\* is empty when its turn comes.
FreshCopy == main = "scan" =>
    /\ \A f \in tmpset \cap ClientFds : i <= f => f \in set /\ sock[f] \in {"request", "eof"}
    /\ \A w \in tmpset \cap Workers : i <= w => pipe[w] # <<>>

PInv == /\ GInv /\ ConnExact /\ FreshCopy
        /\ QueuedOnce /\ ServedOnce /\ ReportedOnce /\ Partition

Sound == mode = "ACCEPT_CONN" /\ PopsRequest

-----------------------------------------------------------------------------
\* A set of natural numbers has a least element.
LEMMA MinOfNat ==
    ASSUME NEW S, S \subseteq Nat, S # {}
    PROVE  MinOf(S) \in S /\ \A y \in S : MinOf(S) <= y
<1>1. PICK x \in S : \A y \in S : ~(<<y, x>> \in OpToRel(<, Nat))
  BY WFMin, NatLessThanWellFounded
<1>2. \A y \in S : <<y, x>> \in Nat \X Nat /\ (<<y, x>> \notin OpToRel(<, Nat) => ~(y < x))
  BY <1>1 DEF OpToRel
<1>3. \A y \in S : ~(y < x)
  BY <1>1, <1>2, Zenon
<1>4. \A y \in S : x <= y
  BY <1>3
<1> QED
  BY <1>4 DEF MinOf

\* update_max: a bounded set of natural numbers has a greatest element.
LEMMA MaxOfBounded ==
    ASSUME NEW n \in Nat, NEW S, S \subseteq 0 .. n, S # {}
    PROVE  MaxOf(S) \in S /\ \A y \in S : y <= MaxOf(S)
<1> DEFINE T == {n - x : x \in S}
<1>0. \A x \in S : n - x \in Nat
  OBVIOUS
<1>1. T \subseteq Nat /\ T # {}
  BY <1>0, Zenon
<1>2. MinOf(T) \in T /\ \A y \in T : MinOf(T) <= y
  BY <1>1, MinOfNat
<1>3. PICK x \in S : MinOf(T) = n - x
  BY <1>2
<1>4. \A y \in S : y <= x
  <2> SUFFICES ASSUME NEW y \in S PROVE y <= x
    OBVIOUS
  <2>1. n - x <= n - y
    BY <1>2, <1>3
  <2> QED
    BY <2>1
<1> QED
  BY <1>4 DEF MaxOf

-----------------------------------------------------------------------------
\* Arithmetic of the descriptors and of the unsigned counter.
LEMMA Numbers ==
    /\ Workers \subseteq Fds /\ ClientFds \subseteq Fds /\ Listen \in Fds /\ SigPipe \in Fds
    /\ Fds \subseteq Nat /\ BadFd \in Nat /\ BadFd \notin Fds
    /\ Listen \notin ClientFds /\ Listen \notin Workers /\ SigPipe \notin Workers
    /\ SigPipe \notin ClientFds /\ SigPipe # Listen /\ Workers \cap ClientFds = {}
    /\ None \notin Workers /\ Workers # {}
  BY DispatcherAssumption DEF Workers, ClientFds, Fds, Listen, SigPipe, BadFd

\* The counter stays in its width.
LEMMA ConnType == \A x \in Int : x % ConnModulus \in 0 .. (ConnModulus - 1)
  BY DispatcherAssumption

\* There are finitely many descriptors left for clients.
LEMMA FreeFdsFinite ==
    /\ IsFiniteSet(ClientFds) /\ Cardinality(ClientFds) = NClients
    /\ IsFiniteSet(FreeFds) /\ Cardinality(FreeFds) \in 0 .. NClients
<1>1. IsFiniteSet(ClientFds) /\ Cardinality(ClientFds) = NClients
  BY DispatcherAssumption, FS_Interval DEF ClientFds
<1>2. FreeFds \subseteq ClientFds
  BY DEF FreeFds
<1>3. /\ IsFiniteSet(FreeFds) /\ Cardinality(FreeFds) \in Nat
      /\ Cardinality(FreeFds) <= Cardinality(ClientFds)
  BY <1>1, <1>2, FS_Subset, FS_CardinalityType
<1> QED
  BY <1>1, <1>3, DispatcherAssumption

\* The descriptor that accept returns.
LEMMA MinFree == ASSUME FreeFds # {} PROVE MinOf(FreeFds) \in FreeFds /\ MinOf(FreeFds) \in ClientFds
<1>1. FreeFds \subseteq Nat /\ FreeFds \subseteq ClientFds
  BY Numbers DEF FreeFds
<1> QED
  BY <1>1, MinOfNat

\* The descriptor that the scan looks at.
LEMMA ScanningPending ==
    ASSUME TypeOK, NEW f, Scanning(f)
    PROVE  f \in tmpset /\ i <= f /\ f \in Fds /\ i' = f + 1
<1>1. Pending \subseteq Nat /\ Pending # {}
  BY Numbers DEF Pending, TypeOK, Scanning
<1>2. f \in Pending
  BY <1>1, MinOfNat DEF Scanning
<1> QED
  BY <1>2 DEF Pending, Scanning, TypeOK

\* What a worker reports is well typed.
LEMMA ReportType ==
    ASSUME TypeOK, NEW w \in Workers, NEW code \in Codes
    PROVE  Append(pipe[w], [code |-> code, fd |-> fd_client[w]]) \in Seq(Results)
<1>1. pipe[w] \in Seq(Results) /\ [code |-> code, fd |-> fd_client[w]] \in Results
  BY DEF TypeOK, Results
<1> QED
  BY <1>1

\* What the main thread reads from a pipe is one of the results written.
LEMMA HeadOfPipe ==
    ASSUME TypeOK, NEW w \in Workers, pipe[w] # <<>>
    PROVE  /\ Head(pipe[w]) \in Results /\ Tail(pipe[w]) \in Seq(Results)
           /\ Head(pipe[w]) = pipe[w][1] /\ 1 \in 1 .. Len(pipe[w])
<1>1. pipe[w] \in Seq(Results)
  BY DEF TypeOK
<1> QED
  BY <1>1

-----------------------------------------------------------------------------
\* What the main thread may find in an uninitialised result.
LEMMA JunkType ==
    ASSUME NEW r \in Leftovers \cup {Junk}
    PROVE  r.fd \in ClientFds \cup {BadFd} /\ r.fd \in Fds \cup {BadFd}
           /\ (r.code = "MW_SUCCESS" => r.fd \in ClientFds)
<1>1. CASE r \in Leftovers
  BY <1>1, Numbers DEF Leftovers
<1>2. CASE r = Junk
  BY <1>2 DEF Junk
<1> QED
  BY <1>1, <1>2

\* What the switch on a result does to the types, if a success names a client.
LEMMA HandleResultType ==
    ASSUME TypeOK, NEW r, HandleResult(r), r.fd \in Fds \cup {BadFd},
           r.code = "MW_SUCCESS" => r.fd \in ClientFds
    PROVE  /\ main' \in {main, "aborted"}
           /\ set \subseteq set' /\ set' \subseteq Fds /\ set' \subseteq set \cup {r.fd}
           /\ fd_max' \in Fds /\ conn_client_table' \subseteq conn_client_table
           /\ conn' \in 0 .. (ConnModulus - 1) /\ listening' \in BOOLEAN
           /\ backlog' \in 0 .. NClients /\ sock' \in [ClientFds -> Socks]
<1> USE DEF TypeOK
<1>1. CASE r.code = "MW_SUCCESS"
  BY <1>1, Numbers DEF HandleResult, Codes
<1>2. CASE r.code = "MW_CLOSE"
  <2>1. conn - 1 \in Int /\ conn' = (conn - 1) % ConnModulus
    BY <1>2 DEF HandleResult, CloseFd, Codes
  <2>2. conn' \in 0 .. (ConnModulus - 1)
    BY <2>1, ConnType
  <2>3. backlog' \in 0 .. NClients
    BY <1>2, DispatcherAssumption DEF HandleResult, CloseFd, Codes
  <2>4. sock' \in [ClientFds -> Socks]
    BY <1>2 DEF HandleResult, CloseFd, Codes, Socks
  <2> QED
    BY <1>2, <2>2, <2>3, <2>4 DEF HandleResult, CloseFd, Codes
<1>3. CASE r.code \notin Codes
  BY <1>3 DEF HandleResult, Codes
<1> QED
  BY <1>1, <1>2, <1>3 DEF HandleResult

\* Initially nothing is queued and nobody is connected.
LEMMA InitTypeOK == Init => TypeOK
  BY Numbers, DispatcherAssumption DEF Init, TypeOK, Fds, Listen, Socks

\* No step of a client, of a signal or of a thread leaves the types.
LEMMA EnvironmentTypeOK == TypeOK /\ (Environment \/ CloseSigPipe) => TypeOK'
<1> SUFFICES ASSUME TypeOK, Environment \/ CloseSigPipe PROVE TypeOK'
  OBVIOUS
<1> USE DEF mainVars, envVars, queueVars, workerVars
<1>1. CASE ClientConnects
  <2>1. backlog' \in 0 .. NClients
    BY <1>1, FreeFdsFinite, DispatcherAssumption DEF ClientConnects, TypeOK
  <2> QED
    BY <1>1, <2>1 DEF ClientConnects, TypeOK
<1>2. ASSUME NEW f \in ClientFds, ClientSends(f) \/ ClientHangsUp(f) PROVE TypeOK'
  BY <1>2 DEF ClientSends, ClientHangsUp, TypeOK, Socks
<1>3. ASSUME NEW s \in Signals, GetSignal(s) PROVE TypeOK'
  BY <1>3 DEF GetSignal, TypeOK
<1>4. ASSUME NEW w \in Workers, SpuriousWakeup(w) PROVE TypeOK'
  BY <1>4 DEF SpuriousWakeup, GoTo, TypeOK
<1>5. CASE CloseSigPipe
  BY <1>5 DEF CloseSigPipe, TypeOK
<1> QED
  BY <1>1, <1>2, <1>3, <1>4, <1>5 DEF Environment

\* The same of a step of a worker ...
LEMMA WorkerTypeOK ==
    ASSUME TypeOK, NEW w \in Workers, Worker(w)
    PROVE  TypeOK'
<1> USE DEF mainVars, envVars, queueVars, workerVars, GoTo, At
<1>1. CASE LoopHead(w)
  BY <1>1 DEF LoopHead, Exit, TypeOK
<1>2. CASE TestQueue(w)
  BY <1>2 DEF TestQueue, TypeOK
<1>3. CASE CondWait(w)
  BY <1>3 DEF CondWait, TypeOK
<1>4. CASE Relock(w)
  BY <1>4 DEF Relock, TypeOK
<1>5. CASE TakeRequest(w)
  <2>1. CASE mode = "CLOSE_SERVER"
    BY <1>5, <2>1 DEF TakeRequest, Exit, TypeOK
  <2>2. CASE mode # "CLOSE_SERVER" /\ request_queue # <<>>
    <3>1. Head(request_queue) \in Fds /\ Tail(request_queue) \in Seq(Fds)
      BY <2>2 DEF TypeOK
    <3> QED
      BY <1>5, <2>2, <3>1 DEF TakeRequest, TypeOK
  <2>3. CASE mode # "CLOSE_SERVER" /\ request_queue = <<>>
    BY <1>5, <2>3 DEF TakeRequest, TypeOK
  <2> QED
    BY <2>1, <2>2, <2>3
<1>6. ASSUME NEW code \in Codes, Report(w, code), sock' \in [ClientFds -> Socks] PROVE TypeOK'
  BY <1>6, ReportType DEF Report, TypeOK
<1>7. CASE ServeRequest(w)
  <2>1. sock' \in [ClientFds -> Socks]
    BY <1>7 DEF ServeRequest, TypeOK, Socks
  <2> QED
    BY <1>6, <1>7, <2>1 DEF ServeRequest
<1>8. CASE ServeFails(w)
  BY <1>6, <1>8 DEF ServeFails, TypeOK, Codes
<1> QED
  BY <1>1, <1>2, <1>3, <1>4, <1>5, <1>7, <1>8 DEF Worker

\* ... and of the main thread.
LEMMA MainTypeOK == TypeOK /\ SuccessOfClient /\ ConnectionWaits /\ SigPipe \in set /\ Main => TypeOK'
<1> SUFFICES ASSUME TypeOK, SuccessOfClient, ConnectionWaits, SigPipe \in set, Main PROVE TypeOK'
  OBVIOUS
<1> USE DEF mainVars, envVars, queueVars, workerVars
<1>1. CASE TestMode
  BY <1>1 DEF TestMode, TypeOK
<1>2. CASE Select
  BY <1>2 DEF Select, TypeOK
<1>3. CASE SelectFails
  BY <1>3 DEF SelectFails, TypeOK
<1>4. CASE Accept
  <2> DEFINE f == MinOf(FreeFds)
  <2>1. f \in ClientFds /\ f \in Fds
    BY <1>4, MinFree, Numbers DEF Accept
  <2>2. Listen \in tmpset /\ i <= Listen /\ i' = Listen + 1 /\ main = "scan"
    BY <1>4, ScanningPending DEF Accept, Scanning
  <2>3. backlog' \in 0 .. NClients
    BY <1>4, <2>2, DispatcherAssumption DEF Accept, ConnectionWaits, TypeOK
  <2>4. conn' \in 0 .. (ConnModulus - 1)
    BY <1>4, ConnType DEF Accept, TypeOK
  <2>5. sock' \in [ClientFds -> Socks]
    BY <1>4, <2>1 DEF Accept, TypeOK, Socks
  <2>6. i' \in Nat
    BY <2>2, Numbers
  <2>7. fd_max' \in Fds /\ set' \subseteq Fds /\ conn_client_table' \subseteq ClientFds
    BY <1>4, <2>1 DEF Accept, TypeOK
  <2> QED
    BY <1>4, <2>3, <2>4, <2>5, <2>6, <2>7 DEF Accept, TypeOK
<1>5. CASE SigPipeReady
  <2>1. i' \in Nat
    BY <1>5 DEF SigPipeReady, Scanning, SigPipe
  <2> QED
    BY <1>5, <2>1 DEF SigPipeReady, Scanning, Broadcast, TypeOK
<1>6. ASSUME NEW w \in Workers, WorkerResult(w) PROVE TypeOK'
  <2> DEFINE r == Head(pipe[w])
  <2>1. pipe[w] # <<>> /\ HandleResult(r) /\ i' = w + 1
    BY <1>6 DEF WorkerResult, Scanning
  <2>2. r \in Results /\ Tail(pipe[w]) \in Seq(Results) /\ (r.code = "MW_SUCCESS" => r.fd \in ClientFds)
    BY <2>1, HeadOfPipe DEF SuccessOfClient
  <2>3. r.fd \in Fds \cup {BadFd}
    BY <2>2 DEF Results
  <2>4. w \in Nat
    BY Numbers
  <2>5. pipe' \in [Workers -> Seq(Results)]
    BY <1>6, <2>2 DEF WorkerResult, TypeOK
  <2> HIDE DEF r
  <2>6. i' \in Nat
    BY <2>1, <2>4
  <2> QED
    BY <1>6, <2>1, <2>2, <2>3, <2>5, <2>6, HandleResultType DEF WorkerResult, TypeOK
<1>7. ASSUME NEW w \in Workers, WorkerPipeEof(w) PROVE TypeOK'
  <2>1. PICK r \in Leftovers \cup {Junk} : HandleResult(r)
    BY <1>7 DEF WorkerPipeEof
  <2>2. r.fd \in Fds \cup {BadFd} /\ (r.code = "MW_SUCCESS" => r.fd \in ClientFds)
    BY JunkType
  <2>3. i' \in Nat
    <3>1. Scanning(w) /\ w \in Nat
      BY <1>7, Numbers DEF WorkerPipeEof
    <3> QED
      BY <3>1, ScanningPending
  <2> QED
    BY <1>7, <2>1, <2>2, <2>3, HandleResultType DEF WorkerPipeEof, TypeOK
<1>8. ASSUME NEW f \in Fds, ClientRequest(f) PROVE TypeOK'
  <2>1. f # SigPipe /\ i' = f + 1
    BY <1>8, Numbers DEF ClientRequest, Scanning
  <2>2. SigPipe \in set \ {f} /\ set \ {f} \subseteq 0 .. (NWorkers + 1 + NClients)
    BY <2>1 DEF TypeOK, Fds
  <2>3. MaxOf(set \ {f}) \in Fds
    BY <2>2, MaxOfBounded, DispatcherAssumption DEF Fds
  <2>4. i' \in Nat /\ fd_max' \in Fds /\ set' \subseteq Fds
    BY <1>8, <2>1, <2>3, Numbers DEF ClientRequest, TypeOK
  <2>5. request_queue' \in Seq(Fds)
    BY <1>8 DEF ClientRequest, TypeOK
  <2>6. pc' \in [Workers -> {"top", "test", "wait", "sleep", "woken", "take", "serve", "exit"}]
    BY <1>8 DEF ClientRequest, TypeOK
  <2> QED
    BY <1>8, <2>4, <2>5, <2>6 DEF ClientRequest, TypeOK
<1>9. CASE ScanEnds
  BY <1>9 DEF ScanEnds, TypeOK
<1>10. CASE AfterScan
  BY <1>10 DEF AfterScan, Broadcast, TypeOK
<1>11. CASE LeaveLoop
  <2>1. backlog' \in 0 .. NClients
    BY <1>11, DispatcherAssumption DEF LeaveLoop
  <2> QED
    BY <1>11, <2>1 DEF LeaveLoop, TypeOK
<1>12. CASE JoinThreads
  BY <1>12 DEF JoinThreads, TypeOK, Socks
<1> QED
  BY <1>1, <1>2, <1>3, <1>4, <1>5, <1>6, <1>7, <1>8, <1>9, <1>10, <1>11, <1>12 DEF Main

\* The three together.
LEMMA NextTypeOK == TypeOK /\ SuccessOfClient /\ ConnectionWaits /\ SigPipe \in set /\ [Next]_vars => TypeOK'
<1> SUFFICES ASSUME TypeOK, SuccessOfClient, ConnectionWaits, SigPipe \in set, [Next]_vars
             PROVE  TypeOK'
  OBVIOUS
<1>1. CASE UNCHANGED vars
  BY <1>1 DEF vars, TypeOK
<1>2. CASE Next
  BY <1>1, <1>2, EnvironmentTypeOK, WorkerTypeOK, MainTypeOK DEF Next, Stopped
<1> QED
  BY <1>1, <1>2

-----------------------------------------------------------------------------
\* The steps that touch the queue, its mutex or the place of a worker.
LEMMA QueueSteps ==
    ASSUME TypeOK, [Next]_vars
    PROVE  \/ UNCHANGED <<pc, request_queue, request_queue_mtx>>
           \/ \E w \in Workers : Worker(w) \/ SpuriousWakeup(w)
           \/ \E f \in Fds : ClientRequest(f)
           \/ Broadcast /\ UNCHANGED <<request_queue, request_queue_mtx>>
<1> USE DEF mainVars, envVars, queueVars, workerVars
<1>1. CASE Environment \/ CloseSigPipe
  BY <1>1 DEF Environment, CloseSigPipe, ClientConnects, ClientSends, ClientHangsUp, GetSignal
<1>2. CASE Main
  <2>1. CASE SigPipeReady \/ AfterScan
    BY <2>1 DEF SigPipeReady, AfterScan
  <2>2. CASE \E w \in Workers : WorkerResult(w) \/ WorkerPipeEof(w)
    BY <2>2 DEF WorkerResult, WorkerPipeEof
  <2>3. CASE TestMode \/ Select \/ SelectFails \/ Accept \/ ScanEnds \/ LeaveLoop \/ JoinThreads
    BY <2>3 DEF TestMode, Select, SelectFails, Accept, ScanEnds, LeaveLoop, JoinThreads
  <2> QED
    BY <1>2, <2>1, <2>2, <2>3 DEF Main
<1>3. CASE UNCHANGED vars
  BY <1>3 DEF vars
<1> QED
  BY <1>1, <1>2, <1>3 DEF Next, Stopped

\* The mutex belongs to the worker that is past its lock.
LEMMA NextMutexOwner == TypeOK /\ MutexOwner /\ [Next]_vars => MutexOwner'
<1> SUFFICES ASSUME TypeOK, MutexOwner, [Next]_vars PROVE MutexOwner'
  OBVIOUS
<1> USE DEF MutexOwner, queueVars, At, GoTo
<1>1. CASE UNCHANGED <<pc, request_queue, request_queue_mtx>>
  BY <1>1
<1>2. ASSUME NEW w \in Workers, LoopHead(w) PROVE MutexOwner'
  BY <1>2, Numbers DEF LoopHead, Exit, TypeOK
<1>3. ASSUME NEW w \in Workers, TestQueue(w) PROVE MutexOwner'
  BY <1>3 DEF TestQueue, TypeOK
<1>4. ASSUME NEW w \in Workers, CondWait(w) PROVE MutexOwner'
  BY <1>4, Numbers DEF CondWait, TypeOK
<1>5. ASSUME NEW w \in Workers, Relock(w) PROVE MutexOwner'
  BY <1>5, Numbers DEF Relock, TypeOK
<1>6. ASSUME NEW w \in Workers, TakeRequest(w) PROVE MutexOwner'
  BY <1>6, Numbers DEF TakeRequest, Exit, TypeOK
<1>7. ASSUME NEW w \in Workers, ServeRequest(w) \/ ServeFails(w) PROVE MutexOwner'
  BY <1>7 DEF ServeRequest, ServeFails, Report, TypeOK
<1>8. ASSUME NEW w \in Workers, SpuriousWakeup(w) PROVE MutexOwner'
  BY <1>8 DEF SpuriousWakeup, TypeOK
<1>9. ASSUME NEW f \in Fds, ClientRequest(f) PROVE MutexOwner'
  BY <1>9 DEF ClientRequest, TypeOK
<1>10. CASE Broadcast /\ UNCHANGED <<request_queue, request_queue_mtx>>
  BY <1>10 DEF Broadcast, TypeOK
<1> QED
  BY <1>1, <1>2, <1>3, <1>4, <1>5, <1>6, <1>7, <1>8, <1>9, <1>10, QueueSteps DEF Worker

\* Between the test of the queue and the wait nobody adds a request.
LEMMA NextWaitsEmpty == TypeOK /\ MutexOwner /\ WaitsEmpty /\ [Next]_vars => WaitsEmpty'
<1> SUFFICES ASSUME TypeOK, MutexOwner, WaitsEmpty, [Next]_vars PROVE WaitsEmpty'
  OBVIOUS
<1> USE DEF WaitsEmpty, queueVars, At, GoTo
<1>1. CASE UNCHANGED <<pc, request_queue, request_queue_mtx>>
  BY <1>1
<1>2. ASSUME NEW w \in Workers, LoopHead(w) PROVE WaitsEmpty'
  BY <1>2 DEF LoopHead, Exit, TypeOK
<1>3. ASSUME NEW w \in Workers, TestQueue(w) PROVE WaitsEmpty'
  BY <1>3 DEF TestQueue, TypeOK
<1>4. ASSUME NEW w \in Workers, CondWait(w) PROVE WaitsEmpty'
  BY <1>4 DEF CondWait, TypeOK
<1>5. ASSUME NEW w \in Workers, Relock(w) PROVE WaitsEmpty'
  BY <1>5 DEF Relock, TypeOK
<1>6. ASSUME NEW w \in Workers, TakeRequest(w) PROVE WaitsEmpty'
  <2>1. \A v \in Workers : pc'[v] = "wait" => pc[v] = "wait" /\ v # w
    BY <1>6 DEF TakeRequest, Exit, TypeOK
  <2>2. \A v \in Workers : v # w => pc[v] # "wait"
    BY <1>6 DEF TakeRequest, MutexOwner
  <2> QED
    BY <2>1, <2>2
<1>7. ASSUME NEW w \in Workers, ServeRequest(w) \/ ServeFails(w) PROVE WaitsEmpty'
  BY <1>7 DEF ServeRequest, ServeFails, Report, TypeOK
<1>8. ASSUME NEW w \in Workers, SpuriousWakeup(w) PROVE WaitsEmpty'
  BY <1>8 DEF SpuriousWakeup, TypeOK
<1>9. ASSUME NEW f \in Fds, ClientRequest(f) PROVE WaitsEmpty'
  <2>1. \A v \in Workers : pc[v] # "wait"
    BY <1>9, Numbers DEF ClientRequest, MutexOwner
  <2> QED
    BY <1>9, <2>1 DEF ClientRequest, TypeOK
<1>10. CASE Broadcast /\ UNCHANGED <<request_queue, request_queue_mtx>>
  BY <1>10 DEF Broadcast, TypeOK
<1> QED
  BY <1>1, <1>2, <1>3, <1>4, <1>5, <1>6, <1>7, <1>8, <1>9, <1>10, QueueSteps DEF Worker

\* A worker that goes to sleep leaves no request behind, and a new request finds or
\* makes a worker awake.
LEMMA NextNoStranded == TypeOK /\ WaitsEmpty /\ NoStrandedRequest /\ [Next]_vars => NoStrandedRequest'
<1> SUFFICES ASSUME TypeOK, WaitsEmpty, NoStrandedRequest, [Next]_vars PROVE NoStrandedRequest'
  OBVIOUS
<1> USE DEF NoStrandedRequest, queueVars, At, GoTo
<1>1. CASE UNCHANGED <<pc, request_queue, request_queue_mtx>>
  BY <1>1
<1>2. ASSUME NEW w \in Workers, CondWait(w) PROVE NoStrandedRequest'
  BY <1>2 DEF CondWait, WaitsEmpty
<1>3. ASSUME NEW w \in Workers, Worker(w) \/ SpuriousWakeup(w), ~CondWait(w) PROVE NoStrandedRequest'
  <2>1. pc'[w] # "sleep"
    BY <1>3 DEF Worker, LoopHead, Exit, TestQueue, Relock, TakeRequest, ServeRequest, ServeFails,
                Report, SpuriousWakeup, TypeOK
  <2> QED
    BY <2>1
<1>4. ASSUME NEW f \in Fds, ClientRequest(f) PROVE NoStrandedRequest'
  <2>1. CASE \A w \in Workers : pc[w] # "sleep"
    BY <1>4, <2>1, Numbers DEF ClientRequest
  <2>2. CASE ~\A w \in Workers : pc[w] # "sleep"
    BY <1>4, <2>2 DEF ClientRequest, TypeOK
  <2> QED
    BY <2>1, <2>2
<1>5. CASE Broadcast /\ UNCHANGED <<request_queue, request_queue_mtx>>
  BY <1>5, Numbers DEF Broadcast, TypeOK
<1> QED
  BY <1>1, <1>2, <1>3, <1>4, <1>5, QueueSteps

-----------------------------------------------------------------------------
\* The steps that change what is watched.
LEMMA SetSteps ==
    ASSUME [Next]_vars
    PROVE  \/ UNCHANGED <<set, fd_max>>
           \/ Accept
           \/ \E w \in Workers : WorkerResult(w) \/ WorkerPipeEof(w)
           \/ \E f \in Fds : ClientRequest(f)
<1> USE DEF mainVars, envVars, queueVars, workerVars
<1>1. CASE Environment \/ CloseSigPipe
  BY <1>1 DEF Environment, CloseSigPipe, ClientConnects, ClientSends, ClientHangsUp, GetSignal,
              SpuriousWakeup
<1>2. CASE TestMode \/ Select \/ SelectFails \/ SigPipeReady \/ ScanEnds \/ AfterScan
             \/ LeaveLoop \/ JoinThreads
  BY <1>2 DEF TestMode, Select, SelectFails, SigPipeReady, ScanEnds, AfterScan, LeaveLoop, JoinThreads
<1>3. ASSUME NEW w \in Workers, Worker(w) PROVE UNCHANGED <<set, fd_max>>
  BY <1>3 DEF Worker, LoopHead, TestQueue, CondWait, Relock, TakeRequest, ServeRequest, ServeFails,
              Report
<1>4. CASE UNCHANGED vars
  BY <1>4 DEF vars
<1> QED
  BY <1>1, <1>2, <1>3, <1>4 DEF Next, Main, Stopped

\* fd_max follows the watched descriptors, up and down, whatever is reported.
LEMMA NextFdMax == TypeOK /\ SigPipe \in set /\ FdMaxCovers /\ [Next]_vars
                     => SigPipe \in set' /\ FdMaxCovers'
<1> SUFFICES ASSUME TypeOK, SigPipe \in set, FdMaxCovers, [Next]_vars
             PROVE  SigPipe \in set' /\ FdMaxCovers'
  OBVIOUS
<1>0. \A f \in set : f \in Nat /\ f <= fd_max /\ fd_max \in Nat
  BY Numbers DEF TypeOK, FdMaxCovers
<1>1. CASE UNCHANGED <<set, fd_max>>
  BY <1>1 DEF FdMaxCovers
<1>2. CASE Accept
  <2>1. MinOf(FreeFds) \in Nat
    BY <1>2, MinFree, Numbers DEF Accept
  <2> QED
    BY <1>0, <1>2, <2>1 DEF Accept, FdMaxCovers
<1>3. ASSUME NEW r, r.fd \in Nat, HandleResult(r) PROVE SigPipe \in set' /\ FdMaxCovers'
  BY <1>0, <1>3 DEF HandleResult, FdMaxCovers
<1>4. ASSUME NEW w \in Workers, WorkerResult(w) PROVE SigPipe \in set' /\ FdMaxCovers'
  <2>1. Head(pipe[w]) \in Results
    BY <1>4, HeadOfPipe DEF WorkerResult
  <2>2. Head(pipe[w]).fd \in Nat
    BY <2>1, Numbers DEF Results
  <2> QED
    BY <1>3, <1>4, <2>2 DEF WorkerResult
<1>5. ASSUME NEW w \in Workers, WorkerPipeEof(w) PROVE SigPipe \in set' /\ FdMaxCovers'
  <2>1. PICK r \in Leftovers \cup {Junk} : HandleResult(r)
    BY <1>5 DEF WorkerPipeEof
  <2>2. r.fd \in Nat
    BY JunkType, Numbers
  <2> QED
    BY <1>3, <2>1, <2>2
<1>6. ASSUME NEW f \in Fds, ClientRequest(f) PROVE SigPipe \in set' /\ FdMaxCovers'
  <2>1. f # SigPipe
    BY <1>6, Numbers DEF ClientRequest
  <2>2. SigPipe \in set \ {f} /\ set \ {f} \subseteq 0 .. (NWorkers + 1 + NClients)
    BY <2>1 DEF TypeOK, Fds
  <2>3. \A y \in set \ {f} : y <= MaxOf(set \ {f})
    BY <2>2, MaxOfBounded, DispatcherAssumption
  <2> QED
    BY <1>0, <1>6, <2>2, <2>3 DEF ClientRequest, FdMaxCovers
<1> QED
  BY <1>1, <1>2, <1>4, <1>5, <1>6, SetSteps

-----------------------------------------------------------------------------
\* The steps that write or read a pipe.
LEMMA PipeSteps ==
    ASSUME [Next]_vars
    PROVE  \/ UNCHANGED pipe
           \/ \E w \in Workers : \/ WorkerResult(w)
                                 \/ ServeRequest(w)
                                 \/ ServeFails(w)
<1> USE DEF mainVars, envVars, queueVars, workerVars
<1>1. CASE Environment \/ CloseSigPipe
  BY <1>1 DEF Environment, CloseSigPipe, ClientConnects, ClientSends, ClientHangsUp, GetSignal,
              SpuriousWakeup
<1>2. CASE TestMode \/ Select \/ SelectFails \/ Accept \/ SigPipeReady \/ ScanEnds \/ AfterScan
             \/ LeaveLoop \/ JoinThreads
  BY <1>2 DEF TestMode, Select, SelectFails, Accept, SigPipeReady, ScanEnds, AfterScan, LeaveLoop,
              JoinThreads
<1>3. CASE (\E f \in Fds : ClientRequest(f)) \/ (\E w \in Workers : WorkerPipeEof(w))
  BY <1>3 DEF ClientRequest, WorkerPipeEof
<1>4. ASSUME NEW w \in Workers, Worker(w), ~ServeRequest(w), ~ServeFails(w) PROVE UNCHANGED pipe
  BY <1>4 DEF Worker, LoopHead, TestQueue, CondWait, Relock, TakeRequest
<1>5. CASE UNCHANGED vars
  BY <1>5 DEF vars
<1> QED
  BY <1>1, <1>2, <1>3, <1>4, <1>5 DEF Next, Main, Stopped

\* A sequence without its first element.
LEMMA TailElements ==
    ASSUME NEW S, NEW s \in Seq(S), s # <<>>
    PROVE  /\ Len(s) \in Nat /\ Len(s) > 0 /\ Len(Tail(s)) = Len(s) - 1
           /\ \A k \in 1 .. Len(Tail(s)) : Tail(s)[k] = s[k + 1]
  OBVIOUS

\* A pipe after its first result is read.
LEMMA PipeAfterRead ==
    ASSUME TypeOK, NEW w \in Workers, WorkerResult(w)
    PROVE  /\ pipe[w] # <<>>
           /\ \A v \in Workers : v # w => pipe'[v] = pipe[v]
           /\ Len(pipe'[w]) = Len(pipe[w]) - 1 /\ Len(pipe[w]) \in Nat /\ Len(pipe[w]) > 0
           /\ \A k \in 1 .. Len(pipe'[w]) : pipe'[w][k] = pipe[w][k + 1]
<1>1. pipe[w] # <<>> /\ pipe' = [pipe EXCEPT ![w] = Tail(pipe[w])] /\ pipe[w] \in Seq(Results)
  BY DEF WorkerResult, TypeOK
<1>2. pipe'[w] = Tail(pipe[w]) /\ \A v \in Workers : v # w => pipe'[v] = pipe[v]
  BY <1>1 DEF TypeOK
<1>3. /\ Len(pipe[w]) \in Nat /\ Len(pipe[w]) > 0 /\ Len(Tail(pipe[w])) = Len(pipe[w]) - 1
      /\ \A k \in 1 .. Len(Tail(pipe[w])) : Tail(pipe[w])[k] = pipe[w][k + 1]
  BY <1>1, TailElements
<1> QED
  BY <1>1, <1>2, <1>3, Zenon

\* A pipe after a worker has written to it.
LEMMA PipeAfterReport ==
    ASSUME TypeOK, NEW w \in Workers, NEW code \in Codes, Report(w, code)
    PROVE  /\ \A v \in Workers : v # w => pipe'[v] = pipe[v]
           /\ Len(pipe'[w]) = Len(pipe[w]) + 1 /\ Len(pipe[w]) \in Nat
           /\ \A k \in 1 .. Len(pipe[w]) : pipe'[w][k] = pipe[w][k]
           /\ pipe'[w][Len(pipe[w]) + 1].code = code
           /\ pipe'[w][Len(pipe[w]) + 1].fd = fd_client[w]
<1> DEFINE r == [code |-> code, fd |-> fd_client[w]]
<1>1. pipe[w] \in Seq(Results) /\ r \in Results
  BY DEF TypeOK, Results
<1>2. pipe'[w] = Append(pipe[w], r) /\ \A v \in Workers : v # w => pipe'[v] = pipe[v]
  BY DEF Report, TypeOK
<1>3. r.code = code /\ r.fd = fd_client[w]
  OBVIOUS
<1> HIDE DEF r
<1> QED
  BY <1>1, <1>2, <1>3

\* A worker that has answered a request says so of the client it has served.
LEMMA NextSuccess == TypeOK /\ SuccessOfClient /\ [Next]_vars => SuccessOfClient'
<1> SUFFICES ASSUME TypeOK, SuccessOfClient, [Next]_vars PROVE SuccessOfClient'
  OBVIOUS
<1>1. CASE UNCHANGED pipe
  BY <1>1 DEF SuccessOfClient
<1>2. ASSUME NEW w \in Workers, WorkerResult(w) PROVE SuccessOfClient'
  <2> SUFFICES ASSUME NEW v \in Workers, NEW k \in 1 .. Len(pipe'[v]),
                      pipe'[v][k].code = "MW_SUCCESS"
               PROVE  pipe'[v][k].fd \in ClientFds
    BY DEF SuccessOfClient
  <2>1. CASE v # w
    BY <1>2, <2>1, PipeAfterRead DEF SuccessOfClient
  <2>2. CASE v = w
    <3>1. k + 1 \in 1 .. Len(pipe[w]) /\ pipe'[w][k] = pipe[w][k + 1]
      BY <1>2, <2>2, PipeAfterRead
    <3> QED
      BY <2>2, <3>1 DEF SuccessOfClient
  <2> QED
    BY <2>1, <2>2
<1>3. ASSUME NEW w \in Workers, NEW code \in Codes, Report(w, code),
             code = "MW_SUCCESS" => fd_client[w] \in ClientFds
      PROVE  SuccessOfClient'
  <2> SUFFICES ASSUME NEW v \in Workers, NEW k \in 1 .. Len(pipe'[v]),
                      pipe'[v][k].code = "MW_SUCCESS"
               PROVE  pipe'[v][k].fd \in ClientFds
    BY DEF SuccessOfClient
  <2>1. CASE v # w
    BY <1>3, <2>1, PipeAfterReport DEF SuccessOfClient
  <2>2. CASE v = w
    <3>1. k \in 1 .. Len(pipe[w]) \/ k = Len(pipe[w]) + 1
      BY <1>3, <2>2, PipeAfterReport
    <3> QED
      BY <1>3, <2>2, <3>1, PipeAfterReport DEF SuccessOfClient
  <2> QED
    BY <2>1, <2>2
<1>4. ASSUME NEW w \in Workers, ServeRequest(w) PROVE SuccessOfClient'
  BY <1>3, <1>4 DEF ServeRequest
<1>5. ASSUME NEW w \in Workers, ServeFails(w) PROVE SuccessOfClient'
  BY <1>3, <1>5 DEF ServeFails, Codes
<1> QED
  BY <1>1, <1>2, <1>4, <1>5, PipeSteps

\* The mode changes for good.
LEMMA ModeStays == TypeOK /\ [Next]_vars /\ mode' = "ACCEPT_CONN" => mode = "ACCEPT_CONN"
<1> SUFFICES ASSUME TypeOK, [Next]_vars, mode' = "ACCEPT_CONN" PROVE mode = "ACCEPT_CONN"
  OBVIOUS
<1>1. CASE Environment \/ CloseSigPipe
  BY <1>1 DEF Environment, CloseSigPipe, ClientConnects, ClientSends, ClientHangsUp, GetSignal,
              SpuriousWakeup
<1>2. CASE Main
  BY <1>2 DEF Main, TestMode, Select, SelectFails, Accept, SigPipeReady, ScanEnds, AfterScan,
              LeaveLoop, JoinThreads, WorkerResult, WorkerPipeEof, ClientRequest
<1>3. ASSUME NEW w \in Workers, Worker(w) PROVE mode' = mode
  BY <1>3 DEF Worker, LoopHead, TestQueue, CondWait, Relock, TakeRequest, ServeRequest, ServeFails,
              Report
<1>4. CASE UNCHANGED vars
  BY <1>4 DEF vars
<1> QED
  BY <1>1, <1>2, <1>3, <1>4 DEF Next, Stopped

\* The parts of BeforeSignals.
ListenNotQueued == \A k \in 1 .. Len(request_queue) : request_queue[k] # Listen
ListenNotServed == \A w \in Workers : fd_client[w] # Listen
ListenNotReported == \A w \in Workers : \A k \in 1 .. Len(pipe[w]) : pipe[w][k].fd # Listen
NoWorkerEnded == \A w \in Workers : pipe_open[w] /\ pc[w] # "exit"

\* They are what BeforeSignals says.
LEMMA BeforeSignalsParts ==
    BeforeSignals <=> (mode = "ACCEPT_CONN" =>
        ListenNotQueued /\ ListenNotServed /\ ListenNotReported /\ NoWorkerEnded)
  BY DEF BeforeSignals, ListenNotQueued, ListenNotServed, ListenNotReported, NoWorkerEnded

\* The steps that change what a worker serves.
LEMMA TakeSteps ==
    ASSUME [Next]_vars
    PROVE  \/ UNCHANGED fd_client
           \/ \E w \in Workers : TakeRequest(w)
<1> USE DEF mainVars, envVars, queueVars, workerVars
<1>1. CASE Environment \/ CloseSigPipe
  BY <1>1 DEF Environment, CloseSigPipe, ClientConnects, ClientSends, ClientHangsUp, GetSignal,
              SpuriousWakeup
<1>2. CASE Main
  BY <1>2 DEF Main, TestMode, Select, SelectFails, Accept, SigPipeReady, ScanEnds, AfterScan,
              LeaveLoop, JoinThreads, WorkerResult, WorkerPipeEof, ClientRequest
<1>3. ASSUME NEW w \in Workers, Worker(w), ~TakeRequest(w) PROVE UNCHANGED fd_client
  BY <1>3 DEF Worker, LoopHead, TestQueue, CondWait, Relock, ServeRequest, ServeFails, Report
<1>4. CASE UNCHANGED vars
  BY <1>4 DEF vars
<1> QED
  BY <1>1, <1>2, <1>3, <1>4 DEF Next, Stopped

\* The steps that change the queue.
LEMMA EnqueueSteps ==
    ASSUME TypeOK, [Next]_vars
    PROVE  \/ UNCHANGED request_queue
           \/ \E w \in Workers : TakeRequest(w)
           \/ \E f \in Fds : ClientRequest(f)
<1>1. ASSUME NEW w \in Workers, Worker(w) \/ SpuriousWakeup(w), ~TakeRequest(w)
      PROVE  UNCHANGED request_queue
  BY <1>1 DEF Worker, LoopHead, TestQueue, CondWait, Relock, ServeRequest, ServeFails, Report,
              SpuriousWakeup, queueVars
<1> QED
  BY <1>1, QueueSteps

\* A worker ends only when the server closes.
LEMMA NextNoWorkerEnded ==
    ASSUME TypeOK, NoWorkerEnded, mode = "ACCEPT_CONN", [Next]_vars
    PROVE  NoWorkerEnded'
<1> USE DEF NoWorkerEnded, TypeOK, mainVars, envVars, queueVars, workerVars
<1>1. CASE Environment \/ CloseSigPipe
  BY <1>1 DEF Environment, CloseSigPipe, ClientConnects, ClientSends, ClientHangsUp, GetSignal,
              SpuriousWakeup, GoTo
<1>2. CASE Main
  <2>1. UNCHANGED pipe_open
    BY <1>2 DEF Main, TestMode, Select, SelectFails, Accept, SigPipeReady, ScanEnds, AfterScan,
                LeaveLoop, JoinThreads, WorkerResult, WorkerPipeEof, ClientRequest
  <2>2. \A w \in Workers : pc'[w] \in {pc[w], "woken"}
    BY <1>2 DEF Main, TestMode, Select, SelectFails, Accept, SigPipeReady, ScanEnds, AfterScan,
                LeaveLoop, JoinThreads, WorkerResult, WorkerPipeEof, ClientRequest, Broadcast
  <2> QED
    BY <2>1, <2>2
<1>3. ASSUME NEW w \in Workers, Worker(w) PROVE NoWorkerEnded'
  <2>1. UNCHANGED pipe_open
    BY <1>3 DEF Worker, LoopHead, TestQueue, CondWait, Relock, TakeRequest, ServeRequest, ServeFails,
                Report
  <2>2. \A v \in Workers : pc'[v] \in {pc[v], "test", "wait", "take", "sleep", "serve", "top"}
    BY <1>3 DEF Worker, LoopHead, TestQueue, CondWait, Relock, TakeRequest, ServeRequest, ServeFails,
                Report, GoTo
  <2> QED
    BY <2>1, <2>2
<1>4. CASE UNCHANGED vars
  BY <1>4 DEF vars
<1> QED
  BY <1>1, <1>2, <1>3, <1>4 DEF Next, Stopped

\* The queue after its first request is taken.
LEMMA QueueAfterTake ==
    ASSUME TypeOK, request_queue # <<>>, request_queue' = Tail(request_queue)
    PROVE  /\ Len(request_queue) \in Nat /\ Len(request_queue) > 0
           /\ Len(request_queue') = Len(request_queue) - 1
           /\ \A k \in 1 .. Len(request_queue') : request_queue'[k] = request_queue[k + 1]
           /\ Head(request_queue) = request_queue[1]
  BY DEF TypeOK

\* The same for a request that is added.
LEMMA QueueAfterAdd ==
    ASSUME TypeOK, NEW f \in Fds, request_queue' = Append(request_queue, f)
    PROVE  /\ Len(request_queue) \in Nat
           /\ Len(request_queue') = Len(request_queue) + 1
           /\ \A k \in 1 .. Len(request_queue) : request_queue'[k] = request_queue[k]
           /\ request_queue'[Len(request_queue) + 1] = f
  BY DEF TypeOK

\* The main thread does not queue the listening socket while it accepts connections.
LEMMA NextBeforeSignals == TypeOK /\ BeforeSignals /\ [Next]_vars => BeforeSignals'
<1> SUFFICES ASSUME TypeOK, BeforeSignals, [Next]_vars, mode' = "ACCEPT_CONN"
             PROVE  (ListenNotQueued /\ ListenNotServed /\ ListenNotReported /\ NoWorkerEnded)'
  BY BeforeSignalsParts DEF BeforeSignals, ListenNotQueued, ListenNotServed, ListenNotReported,
                            NoWorkerEnded
<1>1. mode = "ACCEPT_CONN" /\ ListenNotQueued /\ ListenNotServed /\ ListenNotReported /\ NoWorkerEnded
  BY ModeStays, BeforeSignalsParts
<1>2. NoWorkerEnded'
  BY <1>1, NextNoWorkerEnded
<1>3. ListenNotQueued'
  <2>1. CASE UNCHANGED request_queue
    BY <1>1, <2>1 DEF ListenNotQueued
  <2>2. ASSUME NEW f \in Fds, ClientRequest(f) PROVE ListenNotQueued'
    <3>1. f # Listen /\ request_queue' = Append(request_queue, f)
      BY <1>1, <2>2, Numbers DEF ClientRequest
    <3> QED
      BY <1>1, <3>1, QueueAfterAdd DEF ListenNotQueued
  <2>3. ASSUME NEW w \in Workers, TakeRequest(w) PROVE ListenNotQueued'
    <3>1. UNCHANGED request_queue
            \/ (request_queue # <<>> /\ request_queue' = Tail(request_queue))
      BY <2>3 DEF TakeRequest
    <3> QED
      BY <1>1, <2>1, <3>1, QueueAfterTake DEF ListenNotQueued
  <2> QED
    BY <2>1, <2>2, <2>3, EnqueueSteps
<1>4. ListenNotServed'
  <2>1. CASE UNCHANGED fd_client
    BY <1>1, <2>1 DEF ListenNotServed
  <2>2. ASSUME NEW w \in Workers, TakeRequest(w) PROVE ListenNotServed'
    <3>1. CASE request_queue # <<>>
      <4>1. Head(request_queue) # Listen
        BY <1>1, <3>1 DEF ListenNotQueued, TypeOK
      <4>2. fd_client' = [fd_client EXCEPT ![w] = Head(request_queue)]
        BY <1>1, <2>2, <3>1 DEF TakeRequest
      <4> QED
        BY <1>1, <4>1, <4>2 DEF ListenNotServed, TypeOK
    <3>2. CASE request_queue = <<>>
      <4>1. BadFd # Listen
        BY Numbers
      <4>2. \E f \in {fd_client[w], BadFd} : fd_client' = [fd_client EXCEPT ![w] = f]
        BY <1>1, <2>2, <3>2 DEF TakeRequest
      <4> QED
        BY <1>1, <4>1, <4>2 DEF ListenNotServed, TypeOK
    <3> QED
      BY <3>1, <3>2
  <2> QED
    BY <2>1, <2>2, TakeSteps
<1>5. ListenNotReported'
  <2>1. CASE UNCHANGED pipe
    BY <1>1, <2>1 DEF ListenNotReported
  <2>2. ASSUME NEW w \in Workers, WorkerResult(w) PROVE ListenNotReported'
    <3> SUFFICES ASSUME NEW v \in Workers, NEW k \in 1 .. Len(pipe'[v]) PROVE pipe'[v][k].fd # Listen
      BY DEF ListenNotReported
    <3>1. CASE v # w
      BY <1>1, <2>2, <3>1, PipeAfterRead DEF ListenNotReported
    <3>2. CASE v = w
      <4>1. k + 1 \in 1 .. Len(pipe[w]) /\ pipe'[w][k] = pipe[w][k + 1]
        BY <2>2, <3>2, PipeAfterRead
      <4> QED
        BY <1>1, <3>2, <4>1 DEF ListenNotReported
    <3> QED
      BY <3>1, <3>2
  <2>3. ASSUME NEW w \in Workers, NEW code \in Codes, Report(w, code) PROVE ListenNotReported'
    <3> SUFFICES ASSUME NEW v \in Workers, NEW k \in 1 .. Len(pipe'[v]) PROVE pipe'[v][k].fd # Listen
      BY DEF ListenNotReported
    <3>1. CASE v # w
      BY <1>1, <2>3, <3>1, PipeAfterReport DEF ListenNotReported
    <3>2. CASE v = w
      <4>1. k \in 1 .. Len(pipe[w]) \/ k = Len(pipe[w]) + 1
        BY <2>3, <3>2, PipeAfterReport
      <4>2. CASE k \in 1 .. Len(pipe[w])
        BY <1>1, <2>3, <3>2, <4>2, PipeAfterReport DEF ListenNotReported
      <4>3. CASE k = Len(pipe[w]) + 1
        BY <1>1, <2>3, <3>2, <4>3, PipeAfterReport DEF ListenNotServed
      <4> QED
        BY <4>1, <4>2, <4>3
    <3> QED
      BY <3>1, <3>2
  <2> QED
    BY <2>1, <2>2, <2>3, PipeSteps DEF ServeRequest, ServeFails, Codes
<1> QED
  BY <1>2, <1>3, <1>4, <1>5

\* The listening socket is readable until the connection is accepted.
LEMMA NextConnectionWaits ==
    TypeOK /\ SuccessOfClient /\ BeforeSignals /\ ConnectionWaits /\ [Next]_vars => ConnectionWaits'
<1> SUFFICES ASSUME TypeOK, BeforeSignals, ConnectionWaits, [Next]_vars,
                    mode' = "ACCEPT_CONN", main' = "scan", Listen \in tmpset', i' <= Listen
             PROVE  backlog' > 0
  BY DEF ConnectionWaits
<1>0. mode = "ACCEPT_CONN"
  BY ModeStays
<1> USE DEF mainVars, envVars, queueVars, workerVars
<1>1. CASE ClientConnects
  BY <1>0, <1>1 DEF ClientConnects, TypeOK
<1>2. CASE Select
  BY <1>2, Numbers DEF Select, Readable
<1>3. ASSUME NEW f, Scanning(f), tmpset' = tmpset, main' = main, backlog' = backlog PROVE backlog' > 0
  <2>1. f \in tmpset /\ i <= f /\ f \in Fds /\ i' = f + 1 /\ main = "scan"
    BY <1>3, ScanningPending DEF Scanning
  <2>2. i <= Listen
    BY <2>1, Numbers DEF TypeOK
  <2> QED
    BY <1>0, <1>3, <2>1, <2>2 DEF ConnectionWaits
<1>4. CASE Accept
  BY <1>4, Numbers DEF Accept, Scanning
<1>5. CASE SigPipeReady
  BY <1>0, <1>3, <1>5 DEF SigPipeReady
<1>6. ASSUME NEW f \in Fds, ClientRequest(f) PROVE backlog' > 0
  BY <1>3, <1>6 DEF ClientRequest
<1>7. ASSUME NEW r, HandleResult(r), r.fd # Listen PROVE backlog' = backlog /\ main' \in {main, "aborted"}
  BY <1>7 DEF HandleResult, CloseFd
<1>8. ASSUME NEW w \in Workers, WorkerResult(w) PROVE backlog' > 0
  <2>1. Head(pipe[w]).fd # Listen
    BY <1>0, <1>8, HeadOfPipe DEF WorkerResult, BeforeSignals
  <2> QED
    BY <1>3, <1>7, <1>8, <2>1 DEF WorkerResult
<1>9. ASSUME NEW w \in Workers, WorkerPipeEof(w) PROVE backlog' > 0
  <2>1. PICK r \in Leftovers \cup {Junk} : HandleResult(r)
    BY <1>9 DEF WorkerPipeEof
  <2>2. r.fd # Listen
    BY JunkType, Numbers
  <2> QED
    BY <1>3, <1>7, <1>9, <2>1, <2>2 DEF WorkerPipeEof
<1>10. CASE UNCHANGED <<main, tmpset, i, backlog>>
  BY <1>0, <1>10 DEF ConnectionWaits
<1>11. CASE TestMode \/ SelectFails \/ ScanEnds \/ AfterScan \/ LeaveLoop \/ JoinThreads
  BY <1>11 DEF TestMode, SelectFails, ScanEnds, AfterScan, LeaveLoop, JoinThreads
<1>12. CASE CloseSigPipe \/ (Environment /\ ~ClientConnects)
  BY <1>10, <1>12 DEF Environment, CloseSigPipe, ClientSends, ClientHangsUp, GetSignal, SpuriousWakeup
<1>13. ASSUME NEW w \in Workers, Worker(w) PROVE UNCHANGED <<main, tmpset, i, backlog>>
  BY <1>13 DEF Worker, LoopHead, TestQueue, CondWait, Relock, TakeRequest, ServeRequest, ServeFails,
               Report
<1>14. CASE UNCHANGED vars
  BY <1>10, <1>14 DEF vars
<1> QED
  BY <1>1, <1>2, <1>4, <1>5, <1>6, <1>8, <1>9, <1>10, <1>11, <1>12, <1>13, <1>14
     DEF Next, Main, Stopped

-----------------------------------------------------------------------------
\* Initially there is no client, no request and no result.
LEMMA InitGInv == Init => GInv
<1> SUFFICES ASSUME Init PROVE GInv
  OBVIOUS
<1>1. TypeOK
  BY InitTypeOK
<1>2. MutexOwner
  BY Numbers DEF Init, MutexOwner
<1>3. WaitsEmpty /\ NoStrandedRequest /\ SuccessOfClient /\ ConnectionWaits
  BY DEF Init, WaitsEmpty, NoStrandedRequest, SuccessOfClient, ConnectionWaits
<1>4. SigPipe \in set /\ FdMaxCovers
  BY DispatcherAssumption DEF Init, FdMaxCovers, SigPipe, Listen
<1>5. BeforeSignals
  BY Numbers DEF Init, BeforeSignals
<1> QED
  BY <1>1, <1>2, <1>3, <1>4, <1>5 DEF GInv

\* Every step keeps the invariant.
LEMMA NextGInv == GInv /\ [Next]_vars => GInv'
  BY NextTypeOK, NextMutexOwner, NextWaitsEmpty, NextNoStranded, NextFdMax, NextSuccess,
     NextBeforeSignals, NextConnectionWaits DEF GInv

(***************************************************************************)
(* The inductive invariant, for any number of workers and clients, with or *)
(* without spurious wake-ups and signals.                                  *)
(***************************************************************************)
THEOREM Invariant == Safety => []GInv
  BY InitGInv, NextGInv, PTL DEF Safety

(***************************************************************************)
(* Type correctness of the main thread, the queue, the workers and their   *)
(* pipes: the unsigned counter, the backlog and the results stay in range  *)
(* even where an uninitialised result or descriptor is used.               *)
(***************************************************************************)
THEOREM TypeCorrect == Safety => []TypeOK
<1>1. GInv => TypeOK
  BY DEF GInv
<1> QED
  BY <1>1, Invariant, PTL

(***************************************************************************)
(* fd_max, raised by Accept and by a result and lowered by update_max in   *)
(* the middle of a scan, covers every watched descriptor.                  *)
(***************************************************************************)
THEOREM FdMaxFollows == Safety => []FdMaxCovers
<1>1. GInv => FdMaxCovers
  BY DEF GInv
<1> QED
  BY <1>1, Invariant, PTL

(***************************************************************************)
(* One pthread_cond_signal per request is enough: while a request is       *)
(* queued not all workers sleep.                                           *)
(***************************************************************************)
THEOREM NoRequestStranded == Safety => []NoStrandedRequest
<1>1. GInv => NoStrandedRequest
  BY DEF GInv
<1> QED
  BY <1>1, Invariant, PTL

-----------------------------------------------------------------------------
(***************************************************************************)
(* How the four places of a descriptor change.                             *)
(***************************************************************************)
\* A request is added at the end of the queue.
LEMMA QueueGrows ==
    ASSUME TypeOK, NEW f \in Fds, request_queue' = Append(request_queue, f), f \notin InQueue,
           QueuedOnce
    PROVE  InQueue' = InQueue \cup {f} /\ QueuedOnce'
<1> DEFINE n == Len(request_queue)
<1>1. /\ n \in Nat /\ Len(request_queue') = n + 1
      /\ \A k \in 1 .. n : request_queue'[k] = request_queue[k]
      /\ request_queue'[n + 1] = f
  BY QueueAfterAdd
<1>2. \A k \in 1 .. n : request_queue[k] # f
  BY DEF InQueue
<1> HIDE DEF n
<1>3. 1 .. (n + 1) = (1 .. n) \cup {n + 1}
  BY <1>1
<1>4. InQueue' = InQueue \cup {f}
  BY <1>1, <1>3 DEF InQueue, n
<1>5. QueuedOnce'
  BY <1>1, <1>2, <1>3 DEF QueuedOnce, n
<1> QED
  BY <1>4, <1>5

\* The first request is taken.
LEMMA QueueShrinks ==
    ASSUME TypeOK, request_queue # <<>>, request_queue' = Tail(request_queue), QueuedOnce
    PROVE  /\ Head(request_queue) \in InQueue
           /\ InQueue' = InQueue \ {Head(request_queue)} /\ QueuedOnce'
<1> DEFINE n == Len(request_queue)
<1>1. /\ n \in Nat /\ n > 0 /\ Len(request_queue') = n - 1
      /\ \A k \in 1 .. (n - 1) : request_queue'[k] = request_queue[k + 1]
      /\ Head(request_queue) = request_queue[1]
  BY QueueAfterTake
<1>2. 1 \in 1 .. n /\ \A k \in 1 .. (n - 1) : k + 1 \in 1 .. n /\ k + 1 # 1
  BY <1>1
<1>3. \A k \in 1 .. n : k # 1 => k - 1 \in 1 .. (n - 1) /\ (k - 1) + 1 = k
  BY <1>1
<1> HIDE DEF n
<1>4. \A f : f \in InQueue <=> \E k \in 1 .. n : f = request_queue[k]
  BY DEF InQueue, n
<1>5. \A f : f \in InQueue' <=> \E k \in 1 .. (n - 1) : f = request_queue[k + 1]
  BY <1>1 DEF InQueue, n
<1>6. \A f : f \in InQueue' => f \in InQueue /\ f # request_queue[1]
  BY <1>2, <1>4, <1>5 DEF QueuedOnce, n
<1>7. \A f : f \in InQueue /\ f # request_queue[1] => f \in InQueue'
  BY <1>3, <1>4, <1>5
<1>8. QueuedOnce'
  <2> SUFFICES ASSUME NEW j \in 1 .. (n - 1), NEW k \in 1 .. (n - 1),
                      request_queue'[j] = request_queue'[k]
               PROVE  j = k
    BY <1>1 DEF QueuedOnce, n
  <2>1. request_queue[j + 1] = request_queue[k + 1]
    BY <1>1
  <2>2. j + 1 = k + 1
    BY <1>2, <2>1 DEF QueuedOnce, n
  <2> QED
    BY <2>2
<1> QED
  BY <1>1, <1>2, <1>4, <1>6, <1>7, <1>8

\* No worker starts or ends to serve.
LEMMA ServedSame ==
    ASSUME fd_client' = fd_client, \A v \in Workers : pc'[v] = "serve" <=> pc[v] = "serve", ServedOnce
    PROVE  Served' = Served /\ ServedOnce'
  BY DEF Served, ServedOnce

\* A worker starts to serve a descriptor.
LEMMA ServedGrows ==
    ASSUME TypeOK, NEW w \in Workers, NEW f, pc[w] # "serve", f \notin Served, ServedOnce,
           pc' = [pc EXCEPT ![w] = "serve"], fd_client' = [fd_client EXCEPT ![w] = f]
    PROVE  Served' = Served \cup {f} /\ ServedOnce'
<1>1. /\ pc'[w] = "serve" /\ fd_client'[w] = f
      /\ \A v \in Workers : v # w => pc'[v] = pc[v] /\ fd_client'[v] = fd_client[v]
  BY DEF TypeOK
<1>2. \A v \in Workers : pc[v] = "serve" => fd_client[v] # f /\ v # w
  BY DEF Served
<1>3. \A g : g \in Served <=> \E v \in Workers : pc[v] = "serve" /\ g = fd_client[v]
  BY DEF Served
<1>4. \A g : g \in Served' <=> \E v \in Workers : pc'[v] = "serve" /\ g = fd_client'[v]
  BY DEF Served
<1>5. \A g : g \in Served' <=> g \in Served \/ g = f
  BY <1>1, <1>2, <1>3, <1>4
<1>6. ServedOnce'
  BY <1>1, <1>2 DEF ServedOnce
<1> QED
  BY <1>5, <1>6

\* A worker has done with a descriptor.
LEMMA ServedShrinks ==
    ASSUME TypeOK, NEW w \in Workers, pc[w] = "serve", ServedOnce,
           pc' = [pc EXCEPT ![w] = "top"], fd_client' = fd_client
    PROVE  fd_client[w] \in Served /\ Served' = Served \ {fd_client[w]} /\ ServedOnce'
<1>1. pc'[w] = "top" /\ \A v \in Workers : v # w => pc'[v] = pc[v]
  BY DEF TypeOK
<1>2. \A v \in Workers : pc[v] = "serve" /\ v # w => fd_client[v] # fd_client[w]
  BY DEF ServedOnce
<1>3. \A g : g \in Served <=> \E v \in Workers : pc[v] = "serve" /\ g = fd_client[v]
  BY DEF Served
<1>4. \A g : g \in Served' <=> \E v \in Workers : pc'[v] = "serve" /\ g = fd_client[v]
  BY DEF Served
<1>5. \A g : g \in Served' <=> g \in Served /\ g # fd_client[w]
  BY <1>1, <1>2, <1>3, <1>4
<1>6. ServedOnce'
  BY <1>1 DEF ServedOnce
<1> QED
  BY <1>3, <1>5, <1>6

\* Membership in Reported.
LEMMA InReported ==
    \A f : f \in Reported <=> \E w \in Workers : \E k \in 1 .. Len(pipe[w]) : f = pipe[w][k].fd
  BY DEF Reported

\* A worker reports the descriptor it has served.
LEMMA ReportedGrows ==
    ASSUME TypeOK, NEW w \in Workers, NEW code \in Codes, Report(w, code),
           fd_client[w] \notin Reported, ReportedOnce
    PROVE  Reported' = Reported \cup {fd_client[w]} /\ ReportedOnce'
<1> DEFINE n == Len(pipe[w])
           f == fd_client[w]
<1>1. /\ \A v \in Workers : v # w => pipe'[v] = pipe[v]
      /\ Len(pipe'[w]) = n + 1 /\ n \in Nat
      /\ \A k \in 1 .. n : pipe'[w][k] = pipe[w][k]
      /\ pipe'[w][n + 1].fd = f
  BY PipeAfterReport
<1>2. \A v \in Workers : \A k \in 1 .. Len(pipe[v]) : pipe[v][k].fd # f
  BY InReported
<1>3. \A g : g \in Reported' <=> \E v \in Workers : \E k \in 1 .. Len(pipe'[v]) : g = pipe'[v][k].fd
  BY DEF Reported
<1>4. 1 .. Len(pipe'[w]) = (1 .. n) \cup {n + 1}
  BY <1>1
<1> HIDE DEF f
<1>5. \A g : g \in Reported' => g \in Reported \/ g = f
  <2> SUFFICES ASSUME NEW g, NEW v \in Workers, NEW k \in 1 .. Len(pipe'[v]), g = pipe'[v][k].fd
               PROVE  g \in Reported \/ g = f
    BY <1>3
  <2>1. CASE v # w
    BY <1>1, <2>1, InReported
  <2>2. CASE v = w
    BY <1>1, <1>4, <2>2, InReported
  <2> QED
    BY <2>1, <2>2
<1>6. f \in Reported'
  BY <1>1, <1>3, <1>4
<1>7. ASSUME NEW g \in Reported PROVE g \in Reported'
  <2>0. PICK v \in Workers : \E k \in 1 .. Len(pipe[v]) : g = pipe[v][k].fd
    BY InReported
  <2>1. PICK k \in 1 .. Len(pipe[v]) : g = pipe[v][k].fd
    BY <2>0
  <2>2. CASE v # w
    BY <1>1, <1>3, <2>1, <2>2
  <2>3. CASE v = w
    BY <1>1, <1>3, <1>4, <2>1, <2>3
  <2> QED
    BY <2>2, <2>3
<1>8. ReportedOnce'
  <2> SUFFICES ASSUME NEW u \in Workers, NEW v \in Workers, NEW j \in 1 .. Len(pipe'[u]),
                      NEW k \in 1 .. Len(pipe'[v]), pipe'[u][j].fd = pipe'[v][k].fd
               PROVE  u = v /\ j = k
    BY DEF ReportedOnce
  <2>1. \/ j \in 1 .. Len(pipe[u]) /\ pipe'[u][j] = pipe[u][j]
        \/ u = w /\ j = n + 1 /\ pipe'[u][j].fd = f
    BY <1>1, <1>4
  <2>2. \/ k \in 1 .. Len(pipe[v]) /\ pipe'[v][k] = pipe[v][k]
        \/ v = w /\ k = n + 1 /\ pipe'[v][k].fd = f
    BY <1>1, <1>4
  <2>3. CASE j \in 1 .. Len(pipe[u]) /\ pipe'[u][j] = pipe[u][j]
    <3>1. CASE k \in 1 .. Len(pipe[v]) /\ pipe'[v][k] = pipe[v][k]
      BY <2>3, <3>1 DEF ReportedOnce
    <3>2. CASE v = w /\ k = n + 1 /\ pipe'[v][k].fd = f
      BY <1>2, <2>3, <3>2
    <3> QED
      BY <2>2, <3>1, <3>2
  <2>4. CASE u = w /\ j = n + 1 /\ pipe'[u][j].fd = f
    BY <1>2, <2>2, <2>4
  <2> QED
    BY <2>1, <2>3, <2>4
<1> QED
  BY <1>5, <1>6, <1>7, <1>8 DEF f

\* The main thread reads a result.
LEMMA ReportedShrinks ==
    ASSUME TypeOK, NEW w \in Workers, WorkerResult(w), ReportedOnce
    PROVE  LET f == Head(pipe[w]).fd
           IN  f \in Reported /\ Reported' = Reported \ {f} /\ ReportedOnce'
<1> DEFINE n == Len(pipe[w])
           f == Head(pipe[w]).fd
<1>1. /\ pipe[w] # <<>>
      /\ \A v \in Workers : v # w => pipe'[v] = pipe[v]
      /\ Len(pipe'[w]) = n - 1 /\ n \in Nat /\ n > 0
      /\ \A k \in 1 .. (n - 1) : pipe'[w][k] = pipe[w][k + 1]
  BY PipeAfterRead
<1>2. f = pipe[w][1].fd /\ 1 \in 1 .. n
  BY <1>1, HeadOfPipe
<1>3. \A g : g \in Reported' <=> \E v \in Workers : \E k \in 1 .. Len(pipe'[v]) : g = pipe'[v][k].fd
  BY DEF Reported
<1> HIDE DEF f
<1>4. ASSUME NEW v \in Workers, NEW k \in 1 .. Len(pipe'[v])
      PROVE  \E j \in 1 .. Len(pipe[v]) : /\ pipe'[v][k] = pipe[v][j]
                                         /\ ~(v = w /\ j = 1)
                                         /\ j = (IF v = w THEN k + 1 ELSE k)
  <2>1. CASE v # w
    BY <1>1, <2>1
  <2>2. CASE v = w
    <3>1. k + 1 \in 1 .. n /\ k + 1 # 1 /\ pipe'[w][k] = pipe[w][k + 1]
      BY <1>1, <2>2
    <3> QED
      BY <2>2, <3>1
  <2> QED
    BY <2>1, <2>2
<1>5. ASSUME NEW v \in Workers, NEW j \in 1 .. Len(pipe[v]), ~(v = w /\ j = 1)
      PROVE  \E k \in 1 .. Len(pipe'[v]) : pipe'[v][k] = pipe[v][j]
  <2>1. CASE v # w
    BY <1>1, <2>1
  <2>2. CASE v = w
    <3>1. j - 1 \in 1 .. (n - 1) /\ (j - 1) + 1 = j
      BY <1>1, <1>5, <2>2
    <3> QED
      BY <1>1, <2>2, <3>1
  <2> QED
    BY <2>1, <2>2
<1>6. f \in Reported
  BY <1>2, InReported
<1>7. ASSUME NEW g \in Reported' PROVE g \in Reported /\ g # f
  <2>0. PICK v \in Workers : \E k \in 1 .. Len(pipe'[v]) : g = pipe'[v][k].fd
    BY <1>3, <1>7
  <2>1. PICK k \in 1 .. Len(pipe'[v]) : g = pipe'[v][k].fd
    BY <2>0
  <2>2. PICK j \in 1 .. Len(pipe[v]) : pipe'[v][k] = pipe[v][j] /\ ~(v = w /\ j = 1)
    BY <1>4
  <2> QED
    BY <1>2, <2>1, <2>2, InReported DEF ReportedOnce
<1>8. ASSUME NEW g \in Reported, g # f PROVE g \in Reported'
  <2>0. PICK v \in Workers : \E j \in 1 .. Len(pipe[v]) : g = pipe[v][j].fd
    BY InReported
  <2>1. PICK j \in 1 .. Len(pipe[v]) : g = pipe[v][j].fd
    BY <2>0
  <2>2. ~(v = w /\ j = 1)
    BY <1>2, <1>8, <2>1
  <2> QED
    BY <1>3, <1>5, <2>1, <2>2
<1>9. ReportedOnce'
  <2> SUFFICES ASSUME NEW u \in Workers, NEW v \in Workers, NEW j \in 1 .. Len(pipe'[u]),
                      NEW k \in 1 .. Len(pipe'[v]), pipe'[u][j].fd = pipe'[v][k].fd
               PROVE  u = v /\ j = k
    BY DEF ReportedOnce
  <2>1. PICK a \in 1 .. Len(pipe[u]) : pipe'[u][j] = pipe[u][a] /\ a = (IF u = w THEN j + 1 ELSE j)
    BY <1>4
  <2>2. PICK b \in 1 .. Len(pipe[v]) : pipe'[v][k] = pipe[v][b] /\ b = (IF v = w THEN k + 1 ELSE k)
    BY <1>4
  <2>3. u = v /\ a = b
    BY <2>1, <2>2 DEF ReportedOnce
  <2> QED
    BY <2>1, <2>2, <2>3
<1> QED
  BY <1>6, <1>7, <1>8, <1>9 DEF f

-----------------------------------------------------------------------------
\* The table is finite, and the counter has room for it.
LEMMA TableFinite ==
    ASSUME TypeOK
    PROVE  /\ IsFiniteSet(conn_client_table)
           /\ Cardinality(conn_client_table) \in 0 .. NClients
<1>1. conn_client_table \subseteq ClientFds
  BY DEF TypeOK
<1>2. /\ IsFiniteSet(conn_client_table) /\ Cardinality(conn_client_table) \in Nat
      /\ Cardinality(conn_client_table) <= Cardinality(ClientFds)
  BY <1>1, FreeFdsFinite, FS_Subset, FS_CardinalityType
<1> QED
  BY <1>2, FreeFdsFinite, DispatcherAssumption

\* The counter does not wrap around when a client comes ...
LEMMA ConnComes ==
    ASSUME TypeOK, TypeOK', ConnExact, NEW f, f \notin conn_client_table,
           conn_client_table' = conn_client_table \cup {f}, conn' = (conn + 1) % ConnModulus
    PROVE  conn' = Cardinality(conn_client_table')
<1>1. Cardinality(conn_client_table') = Cardinality(conn_client_table) + 1
  BY TableFinite, FS_AddElement
<1>2. Cardinality(conn_client_table') \in 0 .. NClients
  <2>1. conn_client_table' \subseteq ClientFds
    BY DEF TypeOK
  <2>2. /\ IsFiniteSet(conn_client_table') /\ Cardinality(conn_client_table') \in Nat
        /\ Cardinality(conn_client_table') <= Cardinality(ClientFds)
    BY <2>1, FreeFdsFinite, FS_Subset, FS_CardinalityType
  <2> QED
    BY <2>2, FreeFdsFinite, DispatcherAssumption
<1>3. conn = Cardinality(conn_client_table) /\ conn \in Nat
  BY TableFinite DEF ConnExact
<1>4. conn + 1 \in 0 .. (ConnModulus - 1)
  BY <1>1, <1>2, <1>3, DispatcherAssumption
<1>5. (conn + 1) % ConnModulus = conn + 1
  BY <1>4, DispatcherAssumption
<1> QED
  BY <1>1, <1>3, <1>5

\* ... nor when one goes.
LEMMA ConnGoes ==
    ASSUME TypeOK, ConnExact, NEW f \in conn_client_table,
           conn_client_table' = conn_client_table \ {f}, conn' = (conn - 1) % ConnModulus
    PROVE  conn' = Cardinality(conn_client_table')
<1>1. Cardinality(conn_client_table') = Cardinality(conn_client_table) - 1
  BY TableFinite, FS_RemoveElement
<1>2. IsFiniteSet(conn_client_table') /\ Cardinality(conn_client_table') \in Nat
  BY TableFinite, FS_RemoveElement, FS_CardinalityType
<1>3. conn = Cardinality(conn_client_table) /\ conn \in 0 .. NClients
  BY TableFinite DEF ConnExact
<1>4. conn - 1 \in 0 .. (ConnModulus - 1)
  BY <1>1, <1>2, <1>3, DispatcherAssumption
<1>5. (conn - 1) % ConnModulus = conn - 1
  BY <1>4, DispatcherAssumption
<1> QED
  BY <1>1, <1>3, <1>5

-----------------------------------------------------------------------------
(***************************************************************************)
(* Each step, as long as the connections are accepted and no worker takes  *)
(* from an empty queue.                                                    *)
(***************************************************************************)
Placed == ConnExact /\ QueuedOnce /\ ServedOnce /\ ReportedOnce /\ Partition

\* A step that moves no client.
LEMMA MovesNobody ==
    ASSUME Placed, UNCHANGED <<set, conn_client_table, conn, request_queue, fd_client, pipe>>,
           \A v \in Workers : pc'[v] = "serve" <=> pc[v] = "serve",
           \A f \in ClientFds : sock'[f] = "free" <=> sock[f] = "free"
    PROVE  Placed'
<1>1. Served' = Served /\ ServedOnce'
  BY ServedSame DEF Placed
<1>2. Watched' = Watched /\ InQueue' = InQueue /\ Reported' = Reported
  BY DEF Watched, InQueue, Reported
<1>3. QueuedOnce' /\ ReportedOnce'
  BY DEF Placed, QueuedOnce, ReportedOnce
<1>4. ConnExact'
  BY DEF Placed, ConnExact
<1>5. Partition'
  BY <1>1, <1>2 DEF Placed, Partition
<1> QED
  BY <1>1, <1>3, <1>4, <1>5 DEF Placed

\* A client is accepted, watched and counted.
LEMMA AcceptPlaced ==
    ASSUME TypeOK, TypeOK', Placed, Accept
    PROVE  Placed'
<1> DEFINE f == MinOf(FreeFds)
<1>1. f \in FreeFds /\ f \in ClientFds
  BY MinFree DEF Accept
<1>2. f \notin conn_client_table
  BY <1>1 DEF FreeFds, Placed, ConnExact
<1>3. /\ sock' = [sock EXCEPT ![f] = "none"] /\ set' = set \cup {f}
      /\ conn_client_table' = conn_client_table \cup {f} /\ conn' = (conn + 1) % ConnModulus
      /\ UNCHANGED <<request_queue, pc, fd_client, pipe>>
  BY DEF Accept, queueVars, workerVars
<1> HIDE DEF f
<1>4. conn' = Cardinality(conn_client_table')
  BY <1>2, <1>3, ConnComes DEF Placed
<1>5. ConnExact'
  BY <1>1, <1>3, <1>4 DEF Placed, ConnExact, TypeOK
<1>6. Watched' = Watched \cup {f}
  BY <1>1, <1>3 DEF Watched
<1>7. Served' = Served /\ InQueue' = InQueue /\ Reported' = Reported
  BY <1>3 DEF Served, InQueue, Reported
<1>8. QueuedOnce' /\ ServedOnce' /\ ReportedOnce'
  BY <1>3 DEF Placed, QueuedOnce, ServedOnce, ReportedOnce
<1>9. Partition'
  BY <1>2, <1>3, <1>6, <1>7 DEF Placed, Partition
<1> QED
  BY <1>5, <1>8, <1>9 DEF Placed

\* A client with a request goes from the watched ones to the queue.
LEMMA RequestPlaced ==
    ASSUME TypeOK, Placed, NEW f \in ClientFds, f \in set, ClientRequest(f)
    PROVE  Placed'
<1>1. /\ request_queue' = Append(request_queue, f) /\ set' = set \ {f}
      /\ UNCHANGED <<conn_client_table, conn, sock, fd_client, pipe>>
      /\ \A v \in Workers : pc'[v] = "serve" <=> pc[v] = "serve"
  BY DEF ClientRequest, envVars, TypeOK
<1>2. f \in Watched /\ f \in Fds
  BY Numbers DEF Watched
<1>3. f \notin InQueue
  BY <1>2 DEF Placed, Partition
<1>4. InQueue' = InQueue \cup {f} /\ QueuedOnce'
  BY <1>1, <1>2, <1>3, QueueGrows DEF Placed
<1>5. Served' = Served /\ ServedOnce'
  BY <1>1, ServedSame DEF Placed
<1>6. Reported' = Reported /\ ReportedOnce' /\ ConnExact'
  BY <1>1 DEF Placed, Reported, ReportedOnce, ConnExact
<1>7. Watched' = Watched \ {f}
  BY <1>1 DEF Watched
<1>8. Partition'
  BY <1>1, <1>2, <1>4, <1>5, <1>6, <1>7 DEF Placed, Partition
<1> QED
  BY <1>4, <1>5, <1>6, <1>8 DEF Placed

\* A request goes from the queue to a worker.
LEMMA TakePlaced ==
    ASSUME TypeOK, Placed, NEW w \in Workers, TakeRequest(w), mode # "CLOSE_SERVER",
           request_queue # <<>>
    PROVE  Placed'
<1> DEFINE f == Head(request_queue)
<1>1. /\ request_queue' = Tail(request_queue) /\ fd_client' = [fd_client EXCEPT ![w] = f]
      /\ pc' = [pc EXCEPT ![w] = "serve"] /\ pc[w] # "serve"
      /\ UNCHANGED <<set, conn_client_table, conn, sock, pipe>>
  BY DEF TakeRequest, At, GoTo, mainVars, envVars
<1>2. f \in InQueue /\ InQueue' = InQueue \ {f} /\ QueuedOnce'
  BY <1>1, QueueShrinks DEF Placed
<1> HIDE DEF f
<1>3. f \notin Served
  BY <1>2 DEF Placed, Partition
<1>4. Served' = Served \cup {f} /\ ServedOnce'
  BY <1>1, <1>3, ServedGrows DEF Placed
<1>5. Reported' = Reported /\ ReportedOnce' /\ ConnExact' /\ Watched' = Watched
  BY <1>1 DEF Placed, Reported, ReportedOnce, ConnExact, Watched
<1>6. Partition'
  BY <1>1, <1>2, <1>4, <1>5 DEF Placed, Partition
<1> QED
  BY <1>2, <1>4, <1>5, <1>6 DEF Placed

\* A served client goes from the worker to its report.
LEMMA ReportPlaced ==
    ASSUME TypeOK, Placed, NEW w \in Workers, pc[w] = "serve", NEW code \in Codes, Report(w, code),
           \A f \in ClientFds : sock'[f] = "free" <=> sock[f] = "free"
    PROVE  Placed'
<1> DEFINE f == fd_client[w]
<1>1. /\ pc' = [pc EXCEPT ![w] = "top"] /\ fd_client' = fd_client
      /\ UNCHANGED <<set, conn_client_table, conn, request_queue>>
  BY DEF Report, GoTo, mainVars, queueVars
<1>2. f \in Served /\ Served' = Served \ {f} /\ ServedOnce'
  BY <1>1, ServedShrinks DEF Placed
<1>3. f \notin Reported
  BY <1>2 DEF Placed, Partition
<1>4. Reported' = Reported \cup {f} /\ ReportedOnce'
  BY <1>3, ReportedGrows DEF Placed
<1> HIDE DEF f
<1>5. InQueue' = InQueue /\ QueuedOnce' /\ ConnExact' /\ Watched' = Watched
  BY <1>1 DEF Placed, InQueue, QueuedOnce, ConnExact, Watched
<1>6. Partition'
  BY <1>1, <1>2, <1>4, <1>5 DEF Placed, Partition
<1> QED
  BY <1>2, <1>4, <1>5, <1>6 DEF Placed

\* A reported client is watched again, or goes.
LEMMA ResultPlaced ==
    ASSUME TypeOK, Placed, NEW w \in Workers, WorkerResult(w)
    PROVE  Placed'
<1> DEFINE r == Head(pipe[w])
           f == r.fd
<1>1. f \in Reported /\ Reported' = Reported \ {f} /\ ReportedOnce'
  BY ReportedShrinks DEF Placed
<1>2. HandleResult(r) /\ r \in Results /\ UNCHANGED <<request_queue, pc, fd_client>>
  BY HeadOfPipe DEF WorkerResult, queueVars
<1>3. Served' = Served /\ InQueue' = InQueue /\ QueuedOnce' /\ ServedOnce'
  BY <1>2 DEF Served, InQueue, Placed, QueuedOnce, ServedOnce
<1>4. f \in conn_client_table /\ f \in ClientFds
  BY <1>1 DEF Placed, Partition, TypeOK
<1>5. CASE r.code = "MW_SUCCESS"
  <2>1. set' = set \cup {f} /\ UNCHANGED <<conn_client_table, conn, sock>>
    BY <1>2, <1>5 DEF HandleResult, Codes
  <2> HIDE DEF f
  <2>2. Watched' = Watched \cup {f} /\ ConnExact'
    BY <1>4, <2>1 DEF Watched, Placed, ConnExact
  <2>3. Partition'
    BY <1>1, <1>3, <2>1, <2>2 DEF Placed, Partition
  <2> QED
    BY <1>1, <1>3, <2>2, <2>3 DEF Placed
<1>6. CASE r.code = "MW_CLOSE"
  <2>1. /\ set' = set /\ conn_client_table' = conn_client_table \ {f}
        /\ conn' = (conn - 1) % ConnModulus
        /\ sock' = [g \in ClientFds |-> IF g = f THEN "free" ELSE sock[g]]
    BY <1>2, <1>6 DEF HandleResult, CloseFd, Codes
  <2> HIDE DEF f
  <2>2. conn' = Cardinality(conn_client_table')
    BY <1>4, <2>1, ConnGoes DEF Placed
  <2>3. ConnExact'
    BY <1>4, <2>1, <2>2 DEF Placed, ConnExact
  <2>4. Watched' = Watched
    BY <2>1 DEF Watched
  <2>5. Partition'
    BY <1>1, <1>3, <2>1, <2>4 DEF Placed, Partition
  <2> QED
    BY <1>1, <1>3, <2>3, <2>5 DEF Placed
<1> QED
  BY <1>2, <1>5, <1>6 DEF Results, Codes

\* While the scan goes on, a pipe found readable has a result in it.
LEMMA NoEofYet ==
    ASSUME TypeOK, FreshCopy, NEW w \in Workers, WorkerPipeEof(w)
    PROVE  FALSE
<1>1. w \in tmpset /\ i <= w /\ main = "scan"
  BY ScanningPending DEF WorkerPipeEof, Scanning
<1> QED
  BY <1>1 DEF FreshCopy, WorkerPipeEof

\* A queued client was watched, and its request is there.
LEMMA RequestWatched ==
    ASSUME TypeOK, FreshCopy, NEW f \in ClientFds, ClientRequest(f)
    PROVE  f \in set /\ f \in tmpset /\ i <= f /\ i' = f + 1
<1>1. f \in tmpset /\ i <= f /\ main = "scan" /\ i' = f + 1
  BY ScanningPending DEF ClientRequest, Scanning
<1> QED
  BY <1>1 DEF FreshCopy

\* Every step keeps the clients in their places.
LEMMA NextPlaced ==
    ASSUME PInv, TypeOK', Sound, Sound', [Next]_vars
    PROVE  Placed'
<1>0. /\ TypeOK /\ BeforeSignals /\ FreshCopy /\ Placed
      /\ mode = "ACCEPT_CONN" /\ mode' = "ACCEPT_CONN" /\ PopsRequest
  BY DEF PInv, GInv, Placed, Sound
<1> USE DEF mainVars, envVars, queueVars, workerVars, TypeOK
<1>1. CASE ClientConnects \/ CloseSigPipe
  BY <1>0, <1>1, MovesNobody DEF ClientConnects, CloseSigPipe
<1>2. ASSUME NEW f \in ClientFds, ClientSends(f) \/ ClientHangsUp(f) PROVE Placed'
  <2>1. \A g \in ClientFds : sock'[g] = "free" <=> sock[g] = "free"
    BY <1>0, <1>2 DEF ClientSends, ClientHangsUp
  <2> QED
    BY <1>0, <1>2, <2>1, MovesNobody DEF ClientSends, ClientHangsUp
<1>3. ASSUME NEW s \in Signals, GetSignal(s) PROVE Placed'
  BY <1>0, <1>3 DEF GetSignal
<1>4. ASSUME NEW w \in Workers, SpuriousWakeup(w) PROVE Placed'
  <2>1. \A v \in Workers : pc'[v] = "serve" <=> pc[v] = "serve"
    BY <1>0, <1>4 DEF SpuriousWakeup, GoTo, At
  <2> QED
    BY <1>0, <1>4, <2>1, MovesNobody DEF SpuriousWakeup
<1>5. CASE TestMode \/ Select \/ SelectFails \/ ScanEnds \/ SigPipeReady \/ AfterScan
  BY <1>0, <1>5, MovesNobody DEF TestMode, Select, SelectFails, ScanEnds, SigPipeReady, AfterScan
<1>6. CASE Accept
  BY <1>0, <1>6, AcceptPlaced
<1>7. ASSUME NEW w \in Workers, WorkerResult(w) PROVE Placed'
  BY <1>0, <1>7, ResultPlaced
<1>8. ASSUME NEW w \in Workers, WorkerPipeEof(w) PROVE Placed'
  BY <1>0, <1>8, NoEofYet
<1>9. ASSUME NEW f \in Fds, ClientRequest(f) PROVE Placed'
  <2>1. f \in ClientFds
    BY <1>0, <1>9 DEF ClientRequest
  <2> QED
    BY <1>0, <1>9, <2>1, RequestWatched, RequestPlaced
<1>10. CASE LeaveLoop
  BY <1>0, <1>10 DEF LeaveLoop
<1>11. CASE JoinThreads
  BY <1>0, <1>11, Numbers DEF JoinThreads, BeforeSignals
<1>12. ASSUME NEW w \in Workers, LoopHead(w) \/ TestQueue(w) \/ CondWait(w) \/ Relock(w) PROVE Placed'
  <2>1. \A v \in Workers : pc'[v] = "serve" <=> pc[v] = "serve"
    BY <1>0, <1>12 DEF LoopHead, TestQueue, CondWait, Relock, Exit, GoTo, At
  <2> QED
    BY <1>0, <1>12, <2>1, MovesNobody DEF LoopHead, TestQueue, CondWait, Relock
<1>13. ASSUME NEW w \in Workers, TakeRequest(w) PROVE Placed'
  <2>1. request_queue # <<>>
    BY <1>0, <1>13 DEF TakeRequest, At, PopsRequest
  <2> QED
    BY <1>0, <1>13, <2>1, TakePlaced
<1>14. ASSUME NEW w \in Workers, ServeRequest(w) \/ ServeFails(w) PROVE Placed'
  <2>1. \A f \in ClientFds : sock'[f] = "free" <=> sock[f] = "free"
    BY <1>0, <1>14 DEF ServeRequest, ServeFails
  <2>2. pc[w] = "serve" /\ \E code \in Codes : Report(w, code)
    BY <1>14 DEF ServeRequest, ServeFails, At, Codes
  <2> QED
    BY <1>0, <2>1, <2>2, ReportPlaced
<1>15. CASE UNCHANGED vars
  BY <1>0, <1>15, MovesNobody DEF vars
<1> QED
  BY <1>1, <1>2, <1>3, <1>4, <1>5, <1>6, <1>7, <1>8, <1>9, <1>10, <1>11, <1>12, <1>13, <1>14, <1>15
     DEF Next, Environment, Main, Worker, Stopped

\* A client outside the watched ones is not met again by the scan.
LEMMA NextFreshCopy ==
    ASSUME PInv, TypeOK', Sound, Sound', [Next]_vars
    PROVE  FreshCopy'
<1>0. /\ TypeOK /\ BeforeSignals /\ FreshCopy /\ Placed
      /\ mode = "ACCEPT_CONN" /\ mode' = "ACCEPT_CONN" /\ PopsRequest
  BY DEF PInv, GInv, Placed, Sound
<1> USE DEF mainVars, envVars, queueVars, workerVars
<1>1. CASE main' # "scan"
  BY <1>1 DEF FreshCopy
<1>2. ASSUME UNCHANGED <<main, tmpset, i, set, sock>>,
             \A w \in Workers : pipe[w] # <<>> => pipe'[w] # <<>>
      PROVE  FreshCopy'
  BY <1>0, <1>2 DEF FreshCopy
<1>3. CASE Select
  <2> SUFFICES /\ \A f \in tmpset' \cap ClientFds : f \in set /\ sock[f] \in {"request", "eof"}
               /\ \A w \in tmpset' \cap Workers : pipe[w] # <<>>
    BY <1>3 DEF FreshCopy, Select
  <2>1. \A f \in tmpset' : f \in set /\ Readable(f)
    BY <1>3 DEF Select
  <2>2. \A w \in Workers : pipe_open[w]
    BY <1>0 DEF BeforeSignals
  <2> QED
    BY <2>1, <2>2, Numbers DEF Readable
<1>4. ASSUME NEW f \in ClientFds, ClientSends(f) \/ ClientHangsUp(f) PROVE FreshCopy'
  BY <1>0, <1>4 DEF ClientSends, ClientHangsUp, FreshCopy, TypeOK
<1>5. CASE Accept
  <2> DEFINE f == MinOf(FreeFds)
  <2>1. i <= Listen /\ i' = Listen + 1 /\ main = "scan" /\ Listen \in Nat /\ i \in Nat
    BY <1>0, <1>5, ScanningPending, Numbers DEF Accept, Scanning, TypeOK
  <2>2. f \in ClientFds /\ sock[f] = "free"
    BY <1>5, MinFree DEF Accept, FreeFds
  <2>3. sock' = [sock EXCEPT ![f] = "none"] /\ set' = set \cup {f} /\ UNCHANGED <<main, tmpset, pipe>>
    BY <1>5 DEF Accept
  <2> HIDE DEF f
  <2>4. \A g \in tmpset : g \in Nat /\ (i' <= g => i <= g)
    BY <1>0, <2>1, Numbers DEF TypeOK
  <2> QED
    BY <1>0, <2>1, <2>2, <2>3, <2>4 DEF FreshCopy, TypeOK
<1>6. CASE SigPipeReady
  <2>1. i <= SigPipe /\ i' = SigPipe + 1 /\ i \in Nat /\ UNCHANGED <<main, tmpset, set, sock, pipe>>
    BY <1>0, <1>6, ScanningPending DEF SigPipeReady, TypeOK
  <2>2. \A g \in tmpset : g \in Nat /\ (i' <= g => i <= g)
    BY <1>0, <2>1, Numbers DEF TypeOK, SigPipe
  <2> QED
    BY <1>0, <2>1, <2>2 DEF FreshCopy
<1>7. ASSUME NEW w \in Workers, WorkerResult(w) PROVE FreshCopy'
  <2> DEFINE r == Head(pipe[w])
             f == r.fd
  <2>1. /\ w \in tmpset /\ i <= w /\ i' = w + 1 /\ main = "scan" /\ w \in Nat /\ i \in Nat
        /\ tmpset' = tmpset
    BY <1>0, <1>7, ScanningPending, Numbers DEF WorkerResult, Scanning, TypeOK
  <2>2. \A g \in tmpset : g \in Nat /\ (i' <= g => i <= g /\ g # w)
    BY <1>0, <2>1, Numbers DEF TypeOK
  <2>3. \A v \in Workers : v # w => pipe'[v] = pipe[v]
    BY <1>0, <1>7, PipeAfterRead
  <2>4. f \in Reported
    BY <1>0, <1>7, ReportedShrinks DEF Placed
  <2>5. \A g \in tmpset \cap ClientFds : i <= g => g # f
    BY <1>0, <2>1, <2>4 DEF FreshCopy, Placed, Partition, Watched
  <2>6. HandleResult(r)
    BY <1>7 DEF WorkerResult
  <2>7. set \subseteq set' /\ \A g \in ClientFds : g # f => sock'[g] = sock[g]
    BY <1>0, <2>6 DEF HandleResult, CloseFd, TypeOK
  <2> HIDE DEF f
  <2> QED
    BY <1>0, <2>1, <2>2, <2>3, <2>5, <2>7 DEF FreshCopy
<1>8. ASSUME NEW w \in Workers, WorkerPipeEof(w) PROVE FreshCopy'
  BY <1>0, <1>8, NoEofYet
<1>9. ASSUME NEW f \in Fds, ClientRequest(f) PROVE FreshCopy'
  <2>1. f \in ClientFds
    BY <1>0, <1>9 DEF ClientRequest
  <2>2. f \in Nat /\ i \in Nat /\ i <= f /\ i' = f + 1
    BY <1>0, <1>9, <2>1, RequestWatched, Numbers DEF TypeOK
  <2>3. \A g \in tmpset : g \in Nat /\ (i' <= g => i <= g /\ g # f)
    BY <1>0, <2>2, Numbers DEF TypeOK
  <2>4. set' = set \ {f} /\ UNCHANGED <<main, tmpset, sock, pipe>>
    BY <1>9 DEF ClientRequest
  <2> QED
    BY <1>0, <2>3, <2>4 DEF FreshCopy
<1>10. ASSUME NEW w \in Workers, ServeRequest(w) \/ ServeFails(w) PROVE FreshCopy'
  <2>1. fd_client[w] \in Served
    BY <1>10 DEF ServeRequest, ServeFails, At, Served
  <2>2. main = "scan" => \A g \in tmpset \cap ClientFds : i <= g => g # fd_client[w]
    BY <1>0, <2>1 DEF FreshCopy, Placed, Partition, Watched
  <2>3. \A g \in ClientFds : g # fd_client[w] => sock'[g] = sock[g]
    BY <1>0, <1>10 DEF ServeRequest, ServeFails, TypeOK
  <2>4. PICK code \in Codes : Report(w, code)
    BY <1>10 DEF ServeRequest, ServeFails, Codes
  <2>5. UNCHANGED <<main, tmpset, i, set>>
    BY <2>4 DEF Report
  <2>6. \A v \in Workers : pipe[v] # <<>> => pipe'[v] # <<>>
    <3> SUFFICES ASSUME NEW v \in Workers, pipe[v] # <<>> PROVE pipe'[v] # <<>>
      OBVIOUS
    <3>1. CASE v # w
      BY <1>0, <2>4, <3>1, PipeAfterReport
    <3>2. Len(pipe'[w]) = Len(pipe[w]) + 1 /\ Len(pipe[w]) \in Nat
      BY <1>0, <2>4, PipeAfterReport
    <3>3. Len(pipe'[w]) # 0
      BY <3>2
    <3>4. CASE v = w
      BY <3>3, <3>4
    <3> QED
      BY <3>1, <3>4
  <2> QED
    BY <1>0, <2>2, <2>3, <2>5, <2>6 DEF FreshCopy
<1>11. ASSUME NEW w \in Workers,
              LoopHead(w) \/ TestQueue(w) \/ CondWait(w) \/ Relock(w) \/ TakeRequest(w)
                \/ SpuriousWakeup(w)
       PROVE  FreshCopy'
  BY <1>2, <1>11 DEF LoopHead, TestQueue, CondWait, Relock, TakeRequest, SpuriousWakeup
<1>12. CASE ClientConnects \/ CloseSigPipe \/ UNCHANGED vars
  BY <1>2, <1>12 DEF ClientConnects, CloseSigPipe, vars
<1>13. ASSUME NEW s \in Signals, GetSignal(s) PROVE FreshCopy'
  BY <1>2, <1>13 DEF GetSignal
<1>14. CASE TestMode \/ SelectFails \/ ScanEnds \/ AfterScan \/ LeaveLoop \/ JoinThreads
  BY <1>1, <1>14 DEF TestMode, SelectFails, ScanEnds, AfterScan, LeaveLoop, JoinThreads
<1> QED
  BY <1>3, <1>4, <1>5, <1>6, <1>7, <1>8, <1>9, <1>10, <1>11, <1>12, <1>13, <1>14
     DEF Next, Environment, Main, Worker, Stopped

\* Initially nobody is connected.
LEMMA InitPInv == Init => PInv
<1> SUFFICES ASSUME Init PROVE PInv
  OBVIOUS
<1>1. GInv
  BY InitGInv
<1>2. conn = Cardinality(conn_client_table)
  BY FS_EmptySet DEF Init
<1>3. ConnExact
  BY <1>2 DEF Init, ConnExact
<1>4. FreshCopy /\ QueuedOnce /\ ServedOnce /\ ReportedOnce
  BY DEF Init, FreshCopy, QueuedOnce, ServedOnce, ReportedOnce
<1>5. Watched = {}
  BY Numbers, DispatcherAssumption DEF Init, Watched, ClientFds, Listen
<1>6. InQueue = {} /\ Served = {}
  BY DEF Init, InQueue, Served
<1>7. Reported = {}
  BY InReported DEF Init
<1>8. Partition
  BY <1>5, <1>6, <1>7 DEF Init, Partition
<1> QED
  BY <1>1, <1>3, <1>4, <1>8 DEF PInv

\* As long as the two conditions hold, every step keeps all of it.
LEMMA NextPInv == PInv /\ Sound /\ Sound' /\ [Next]_vars => PInv'
<1> SUFFICES ASSUME PInv, Sound, Sound', [Next]_vars PROVE PInv'
  OBVIOUS
<1>1. GInv'
  BY NextGInv DEF PInv
<1>2. TypeOK'
  BY <1>1 DEF GInv
<1>3. Placed' /\ FreshCopy'
  BY <1>2, NextPlaced, NextFreshCopy
<1> QED
  BY <1>1, <1>3 DEF PInv, Placed

\* The occurrences of a descriptor, one by one.
LEMMA InPlaces ==
    \A f, p : p \in Places(f) <=>
        \/ p = <<"watched">> /\ f \in set
        \/ \E k \in 1 .. Len(request_queue) : request_queue[k] = f /\ p = <<"queued", k>>
        \/ \E w \in Workers : pc[w] = "serve" /\ fd_client[w] = f /\ p = <<"served", w>>
        \/ \E w \in Workers : \E k \in 1 .. Len(pipe[w]) :
               pipe[w][k].fd = f /\ p = <<"reported", w, k>>
<1> SUFFICES ASSUME NEW f, NEW p
             PROVE  p \in Places(f) <=>
                        \/ p = <<"watched">> /\ f \in set
                        \/ \E k \in 1 .. Len(request_queue) : request_queue[k] = f /\ p = <<"queued", k>>
                        \/ \E w \in Workers : pc[w] = "serve" /\ fd_client[w] = f /\ p = <<"served", w>>
                        \/ \E w \in Workers : \E k \in 1 .. Len(pipe[w]) :
                               pipe[w][k].fd = f /\ p = <<"reported", w, k>>
  OBVIOUS
<1> DEFINE A == {q \in {<<"watched">>} : f \in set}
           B == {<<"queued", k>> : k \in {x \in 1 .. Len(request_queue) : request_queue[x] = f}}
           C == {<<"served", w>> : w \in {v \in Workers : pc[v] = "serve" /\ fd_client[v] = f}}
           D(w) == {<<"reported", w, k>> : k \in {x \in 1 .. Len(pipe[w]) : pipe[w][x].fd = f}}
           E == UNION {D(w) : w \in Workers}
<1>1. Places(f) = A \cup B \cup C \cup E
  BY Zenon DEF Places
<1>2. p \in A <=> p = <<"watched">> /\ f \in set
  OBVIOUS
<1>3. p \in B <=> \E k \in 1 .. Len(request_queue) : request_queue[k] = f /\ p = <<"queued", k>>
  OBVIOUS
<1>4. p \in C <=> \E w \in Workers : pc[w] = "serve" /\ fd_client[w] = f /\ p = <<"served", w>>
  OBVIOUS
<1>5. \A w \in Workers : p \in D(w) <=>
          \E k \in 1 .. Len(pipe[w]) : pipe[w][k].fd = f /\ p = <<"reported", w, k>>
  OBVIOUS
<1> HIDE DEF D
<1>6. p \in E <=> \E w \in Workers : p \in D(w)
  OBVIOUS
<1> HIDE DEF A, B, C, E
<1> QED
  BY <1>1, <1>2, <1>3, <1>4, <1>5, <1>6

\* A client of the table occurs once.
LEMMA PInvOnePlace == PInv => OnePlace
<1> SUFFICES ASSUME PInv, NEW f \in conn_client_table PROVE Cardinality(Places(f)) = 1
  BY DEF OnePlace
<1>0. Partition /\ QueuedOnce /\ ServedOnce /\ ReportedOnce /\ f \in ClientFds
  BY DEF PInv, GInv, TypeOK
<1>1. /\ f \in Watched <=> f \in set
      /\ f \in InQueue <=> \E k \in 1 .. Len(request_queue) : request_queue[k] = f
      /\ f \in Served <=> \E w \in Workers : pc[w] = "serve" /\ fd_client[w] = f
      /\ f \in Reported <=> \E w \in Workers : \E k \in 1 .. Len(pipe[w]) : pipe[w][k].fd = f
  BY <1>0, InReported DEF Watched, InQueue, Served
<1>2. f \in Watched \/ f \in InQueue \/ f \in Served \/ f \in Reported
  BY <1>0 DEF Partition
<1>3. CASE f \in Watched
  <2>1. f \notin InQueue /\ f \notin Served /\ f \notin Reported
    BY <1>0, <1>3 DEF Partition
  <2>2. Places(f) = {<<"watched">>}
    BY <1>1, <1>3, <2>1, InPlaces
  <2> QED
    BY <2>2, FS_Singleton
<1>4. CASE f \in InQueue
  <2>1. f \notin Watched /\ f \notin Served /\ f \notin Reported
    BY <1>0, <1>4 DEF Partition
  <2>2. PICK k \in 1 .. Len(request_queue) : request_queue[k] = f
    BY <1>1, <1>4
  <2>3. \A j \in 1 .. Len(request_queue) : request_queue[j] = f => j = k
    BY <1>0, <2>2 DEF QueuedOnce
  <2>4. Places(f) = {<<"queued", k>>}
    BY <1>1, <2>1, <2>2, <2>3, InPlaces
  <2> QED
    BY <2>4, FS_Singleton
<1>5. CASE f \in Served
  <2>1. f \notin Watched /\ f \notin InQueue /\ f \notin Reported
    BY <1>0, <1>5 DEF Partition
  <2>2. PICK w \in Workers : pc[w] = "serve" /\ fd_client[w] = f
    BY <1>1, <1>5
  <2>3. \A v \in Workers : pc[v] = "serve" /\ fd_client[v] = f => v = w
    BY <1>0, <2>2 DEF ServedOnce
  <2>4. Places(f) = {<<"served", w>>}
    BY <1>1, <2>1, <2>2, <2>3, InPlaces
  <2> QED
    BY <2>4, FS_Singleton
<1>6. CASE f \in Reported
  <2>1. f \notin Watched /\ f \notin InQueue /\ f \notin Served
    BY <1>0, <1>6 DEF Partition
  <2>2. PICK w \in Workers : \E k \in 1 .. Len(pipe[w]) : pipe[w][k].fd = f
    BY <1>1, <1>6
  <2>3. PICK k \in 1 .. Len(pipe[w]) : pipe[w][k].fd = f
    BY <2>2
  <2>4. \A v \in Workers : \A j \in 1 .. Len(pipe[v]) : pipe[v][j].fd = f => v = w /\ j = k
    BY <1>0, <2>3 DEF ReportedOnce
  <2>5. Places(f) = {<<"reported", w, k>>}
    BY <1>1, <2>1, <2>3, <2>4, InPlaces
  <2> QED
    BY <2>5, FS_Singleton
<1> QED
  BY <1>2, <1>3, <1>4, <1>5, <1>6

\* A client that the scan has still to look at is connected.
LEMMA PInvScanFresh == PInv => ScanFresh
<1> SUFFICES ASSUME PInv, main = "scan", NEW f \in Pending \cap ClientFds
             PROVE  f \in set /\ f \in conn_client_table /\ sock[f] \in {"request", "eof"}
  BY DEF ScanFresh
<1>1. f \in tmpset \cap ClientFds /\ i <= f
  BY DEF Pending
<1> QED
  BY <1>1 DEF PInv, FreshCopy, ConnExact

(***************************************************************************)
(* As long as the server accepts connections and no worker finds the queue *)
(* empty after its wait, with any number of workers and clients: a client  *)
(* is in one place, the counter of connections is exact and never wraps,   *)
(* and the scan works on fresh data.                                       *)
(***************************************************************************)
THEOREM SoundInvariant == Safety /\ []Sound => [](OnePlace /\ ConnExact /\ ScanFresh)
<1>1. PInv => OnePlace /\ ConnExact /\ ScanFresh
  BY PInvOnePlace, PInvScanFresh DEF PInv
<1> QED
  BY <1>1, InitPInv, NextPInv, PTL DEF Safety

-----------------------------------------------------------------------------
(***************************************************************************)
(* The server of config.txt: one worker.  Without spurious wake-ups it     *)
(* meets the condition of SoundInvariant until the first signal.           *)
(***************************************************************************)
OneWorker == NWorkers = 1 /\ ~SpuriousWakeups

\* A worker that was woken has a request to take.
WokenForRequest == /\ mode = "ACCEPT_CONN"
                   /\ \A w \in Workers : pc[w] \in {"woken", "take"} => request_queue # <<>>

\* The only worker takes the request it was woken for.
LEMMA NextWokenForRequest ==
    ASSUME OneWorker, TypeOK, WokenForRequest, [Next]_vars, mode' = "ACCEPT_CONN"
    PROVE  WokenForRequest'
<1>0. Workers = {1}
  BY DEF OneWorker, Workers
<1>1. mode' = mode
  BY DEF WokenForRequest
<1> USE DEF WokenForRequest, queueVars, At, GoTo
<1>2. CASE UNCHANGED <<pc, request_queue, request_queue_mtx>>
  BY <1>1, <1>2
<1>3. ASSUME NEW w \in Workers, LoopHead(w) \/ TestQueue(w) \/ CondWait(w) \/ Relock(w)
      PROVE  WokenForRequest'
  BY <1>0, <1>1, <1>3 DEF LoopHead, TestQueue, CondWait, Relock, Exit, TypeOK
<1>4. ASSUME NEW w \in Workers, TakeRequest(w) PROVE WokenForRequest'
  <2>1. pc'[w] = "serve" /\ w = 1
    BY <1>0, <1>4 DEF TakeRequest, TypeOK
  <2> QED
    BY <1>0, <1>1, <2>1
<1>5. ASSUME NEW w \in Workers, ServeRequest(w) \/ ServeFails(w) PROVE WokenForRequest'
  BY <1>0, <1>1, <1>5 DEF ServeRequest, ServeFails, Report, TypeOK
<1>6. ASSUME NEW w \in Workers, SpuriousWakeup(w) PROVE WokenForRequest'
  BY <1>6 DEF SpuriousWakeup, OneWorker
<1>7. ASSUME NEW f \in Fds, ClientRequest(f) PROVE WokenForRequest'
  <2>1. Len(request_queue') = Len(request_queue) + 1 /\ Len(request_queue) \in Nat
    BY <1>7, QueueAfterAdd DEF ClientRequest
  <2>2. Len(request_queue') # 0
    BY <2>1
  <2> QED
    BY <1>1, <2>2
<1>8. CASE SigPipeReady \/ AfterScan
  BY <1>1, <1>8 DEF SigPipeReady, AfterScan
<1>9. QED
  <2>1. CASE Main /\ ~SigPipeReady /\ ~AfterScan /\ ~\E f \in Fds : ClientRequest(f)
    BY <1>2, <2>1 DEF Main, TestMode, Select, SelectFails, Accept, ScanEnds, LeaveLoop, JoinThreads,
                      WorkerResult, WorkerPipeEof, workerVars
  <2>2. CASE (Environment /\ ~\E w \in Workers : SpuriousWakeup(w)) \/ CloseSigPipe \/ UNCHANGED vars
    BY <1>2, <2>2 DEF Environment, ClientConnects, ClientSends, ClientHangsUp, GetSignal,
                      CloseSigPipe, workerVars, vars
  <2> QED
    BY <1>3, <1>4, <1>5, <1>6, <1>7, <1>8, <2>1, <2>2 DEF Next, Environment, Worker, Stopped

\* A signal ends it for good.
UntilSignal == mode = "ACCEPT_CONN" => PInv /\ WokenForRequest

\* Until the signal the only worker keeps the two conditions itself.
LEMMA NextUntilSignal ==
    ASSUME OneWorker, GInv, UntilSignal, [Next]_vars
    PROVE  UntilSignal'
<1> SUFFICES ASSUME mode' = "ACCEPT_CONN" PROVE PInv' /\ WokenForRequest'
  BY DEF UntilSignal
<1>1. PInv /\ WokenForRequest /\ TypeOK
  BY ModeStays DEF UntilSignal, GInv
<1>2. WokenForRequest'
  BY <1>1, NextWokenForRequest
<1>3. Sound /\ Sound'
  BY <1>1, <1>2 DEF WokenForRequest, Sound, PopsRequest
<1> QED
  BY <1>1, <1>2, <1>3, NextPInv

(***************************************************************************)
(* With one worker, and any number of clients that connect, send and hang  *)
(* up at any time, until the first signal: a connected client is watched,  *)
(* queued, served or reported, and exactly once; the counter of            *)
(* connections is exact; the scan works on fresh data.                     *)
(***************************************************************************)
THEOREM OneWorkerSound ==
    ASSUME OneWorker
    PROVE  Safety => [](mode = "ACCEPT_CONN" => OnePlace /\ ConnExact /\ ScanFresh)
<1>1. Init => UntilSignal
  BY InitPInv DEF Init, UntilSignal, WokenForRequest
<1>2. GInv /\ UntilSignal /\ [Next]_vars => UntilSignal'
  BY NextUntilSignal
<1>3. UntilSignal => (mode = "ACCEPT_CONN" => OnePlace /\ ConnExact /\ ScanFresh)
  BY PInvOnePlace, PInvScanFresh DEF UntilSignal, PInv
<1> QED
  BY <1>1, <1>2, <1>3, Invariant, PTL DEF Safety

\* Without signals the mode never changes.
LEMMA NoSignals ==
    ASSUME Signals = {}
    PROVE  Safety => [](mode = "ACCEPT_CONN")
<1>1. Init => mode = "ACCEPT_CONN"
  BY DEF Init
<1>2. mode = "ACCEPT_CONN" /\ [Next]_vars => (mode = "ACCEPT_CONN")'
  <2> SUFFICES ASSUME mode = "ACCEPT_CONN", [Next]_vars PROVE mode' = "ACCEPT_CONN"
    OBVIOUS
  <2>1. CASE Environment \/ CloseSigPipe
    BY <2>1 DEF Environment, CloseSigPipe, ClientConnects, ClientSends, ClientHangsUp,
                GetSignal, SpuriousWakeup
  <2>2. CASE Main
    BY <2>2 DEF Main, TestMode, Select, SelectFails, Accept, SigPipeReady, ScanEnds, AfterScan,
                LeaveLoop, JoinThreads, WorkerResult, WorkerPipeEof, ClientRequest
  <2>3. ASSUME NEW w \in Workers, Worker(w) PROVE mode' = mode
    BY <2>3 DEF Worker, LoopHead, TestQueue, CondWait, Relock, TakeRequest, ServeRequest,
                ServeFails, Report
  <2>4. CASE UNCHANGED vars
    BY <2>4 DEF vars
  <2> QED
    BY <2>1, <2>2, <2>3, <2>4 DEF Next, Stopped
<1> QED
  BY <1>1, <1>2, PTL DEF Safety

(***************************************************************************)
(* One worker and no signal: a client is never served twice at once, never *)
(* queued twice and never forgotten.                                       *)
(***************************************************************************)
THEOREM ClientsInOnePlace ==
    ASSUME OneWorker, Signals = {}
    PROVE  Safety => []OnePlace
  BY OneWorkerSound, NoSignals, PTL

(***************************************************************************)
(* One worker and no signal: curr_state.conn, an unsigned number that is   *)
(* counted up and down in two places, is the number of connected clients.  *)
(***************************************************************************)
THEOREM ConnectionsCounted ==
    ASSUME OneWorker, Signals = {}
    PROVE  Safety => []ConnExact
  BY OneWorkerSound, NoSignals, PTL

(***************************************************************************)
(* One worker and no signal: the scan never looks at a client that is no   *)
(* longer watched, closed or replaced by another, although the set that    *)
(* was copied has changed since.                                           *)
(***************************************************************************)
THEOREM ScanStaysFresh ==
    ASSUME OneWorker, Signals = {}
    PROVE  Safety => []ScanFresh
  BY OneWorkerSound, NoSignals, PTL
=============================================================================
