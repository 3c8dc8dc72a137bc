------------------------ MODULE ClientProgramProofs ------------------------
(***************************************************************************)
(* The client application, and any other process that goes on until it     *)
(* hears that its connection is lost, is a program that ApiSessionProofs   *)
(* is about; the options -d and -D never stand alone; and the directory    *)
(* scan keeps to the limit of -w.                                          *)
(***************************************************************************)
EXTENDS ClientProgram, ApiSessionProofs, FiniteSetTheorems, WellFoundedInduction

-----------------------------------------------------------------------------
(***************************************************************************)
(* The k-th element of a set of numbers exists.                            *)
(***************************************************************************)
LEMMA Least ==
    ASSUME NEW T, T \subseteq Nat, T # {}
    PROVE  \E x \in T : \A y \in T : x <= y
<1> DEFINE R == OpToRel(<, Nat)
<1>1. IsWellFoundedOn(R, Nat)
  BY NatLessThanWellFounded
<1>2. \A x, y \in Nat : x < y => <<x, y>> \in R
  BY DEF OpToRel
<1> HIDE DEF R
<1>3. PICK x \in T : \A y \in T : ~ (<<y, x>> \in R)
  BY <1>1, WFMin
<1>4. ASSUME NEW y \in T PROVE x <= y
  <2>1. x \in Nat /\ y \in Nat /\ ~(y < x)
    BY <1>2, <1>3
  <2> QED
    BY <2>1
<1> QED
  BY <1>4

UpTo(S, i) == {j \in S : j <= i}

LEMMA KthExists ==
    ASSUME NEW n \in Nat, NEW S, S \subseteq 1 .. n, NEW k \in 1 .. Cardinality(S)
    PROVE  Kth(S, k) \in S
<1>0. \A j \in S : j \in Nat /\ 1 <= j /\ j <= n
  OBVIOUS
<1>1. /\ IsFiniteSet(S) /\ Cardinality(S) \in Nat
      /\ \A i \in Nat : IsFiniteSet(UpTo(S, i)) /\ Cardinality(UpTo(S, i)) \in Nat
  <2>1. IsFiniteSet(1 .. n)
    BY FS_Interval
  <2>2. IsFiniteSet(S)
    BY <2>1, FS_Subset
  <2>3. ASSUME NEW i \in Nat PROVE IsFiniteSet(UpTo(S, i))
    BY <2>2, FS_Subset DEF UpTo
  <2> QED
    BY <2>2, <2>3, FS_CardinalityType
<1> DEFINE T == {i \in Nat : Cardinality(UpTo(S, i)) >= k}
<1>2. n \in T
  <2>1. UpTo(S, n) = S
    BY <1>0 DEF UpTo
  <2> QED
    BY <1>1, <2>1
<1>3. PICK i \in T : \A y \in T : i <= y
  <2>1. T \subseteq Nat /\ T # {}
    BY <1>2
  <2> HIDE DEF T
  <2> QED
    BY <2>1, Least
<1>4. i # 0
  <2>1. UpTo(S, 0) = {}
    <3>1. \A j \in S : ~(j <= 0)
      BY <1>0
    <3> QED
      BY <3>1 DEF UpTo
  <2>2. Cardinality(UpTo(S, 0)) = 0
    BY <2>1, FS_EmptySet
  <2> QED
    BY <2>2
<1>5. i - 1 \in Nat /\ Cardinality(UpTo(S, i - 1)) < k
  <2>1. i - 1 \in Nat /\ ~(i <= i - 1)
    BY <1>4
  <2>2. i - 1 \notin T
    BY <1>3, <2>1
  <2> QED
    BY <1>1, <2>1, <2>2
<1>6. i \in S
  <2> SUFFICES ASSUME i \notin S PROVE FALSE
    OBVIOUS
  <2>1. \A j \in S : j <= i <=> j <= i - 1
    BY <1>0, <1>4
  <2>2. UpTo(S, i) = UpTo(S, i - 1)
    BY <2>1 DEF UpTo
  <2> QED
    BY <1>1, <1>5, <2>2
<1>7. Cardinality(UpTo(S, i)) = k
  <2>1. UpTo(S, i) = UpTo(S, i - 1) \cup {i} /\ i \notin UpTo(S, i - 1)
    <3>1. \A j \in S : j <= i <=> (j <= i - 1 \/ j = i)
      BY <1>0
    <3>2. ~(i <= i - 1)
      OBVIOUS
    <3> QED
      BY <1>6, <3>1, <3>2 DEF UpTo
  <2>2. Cardinality(UpTo(S, i)) = Cardinality(UpTo(S, i - 1)) + 1
    BY <1>1, <1>5, <2>1, FS_AddElement
  <2>3. Cardinality(UpTo(S, i)) >= k
    OBVIOUS
  <2> QED
    BY <1>1, <1>5, <2>2, <2>3
<1> QED
  BY <1>6, <1>7 DEF Kth, UpTo

LEMMA ParsedRequests ==
    ASSUME NEW args \in Seq(Options)
    PROVE  /\ parse_options(args).requests \in Seq(Options)
           /\ \A k \in 1 .. Len(parse_options(args).requests) :
                 \E i \in DOMAIN args : parse_options(args).requests[k] = args[i]
<1> DEFINE S == RequestsOf(args)
           r == [k \in 1 .. Cardinality(S) |-> args[Kth(S, k)]]
<1>1. S \subseteq 1 .. Len(args) /\ Len(args) \in Nat
  BY DEF RequestsOf
<1>2. IsFiniteSet(S) /\ Cardinality(S) \in Nat
  <2>1. IsFiniteSet(1 .. Len(args))
    BY <1>1, FS_Interval
  <2> QED
    BY <1>1, <2>1, FS_Subset, FS_CardinalityType
<1>3. \A k \in 1 .. Cardinality(S) : Kth(S, k) \in DOMAIN args
  BY <1>1, KthExists
<1>4. parse_options(args).requests = r
  BY DEF parse_options
<1> HIDE DEF S
<1>5. r \in Seq(Options) /\ Len(r) = Cardinality(S)
  <2>1. \A k \in 1 .. Cardinality(S) : args[Kth(S, k)] \in Options
    BY <1>3
  <2> QED
    BY <1>2, <2>1
<1> QED
  BY <1>2, <1>3, <1>4, <1>5

-----------------------------------------------------------------------------
(***************************************************************************)
(* What execute_requests, for its part, keeps.                             *)
(***************************************************************************)
ReadOps == {"OPEN_FILE", "READ_FILE", "CLOSE_FILE"}
Scripted == [op : OpCodes, path : Files, create : BOOLEAN, lock : BOOLEAN, n : {0},
             dir : Dirs \cup {NULL}]

\* An option that parse_options accepts.
Good == {o \in Options : /\ o.good /\ o.n \in Nat
                         /\ o.opt \in {"d", "D"} => o.dir # NULL
                         /\ o.opt = "w" => o.dir \in DOMAIN Tree}

Entries == Files \cup DOMAIN Tree \cup {NULL}
Frames == [entries : Seq(Entries), N : Int, n_reads : Nat]

\* Each -d and -D directly follows an option that it belongs to.
Paired(q) == \A i \in 1 .. Len(q) : q[i].opt \in {"d", "D"} =>
                /\ i > 1 /\ q[i - 1].opt \in MayPrecede(q[i].opt)
                /\ q[i].dir # NULL

ProgramTypes ==
    /\ argv \in Seq(Options)
    /\ \A i \in DOMAIN argv : argv[i].good => argv[i] \in Good
    /\ request_q \in Seq(Good) /\ Paired(request_q)
    /\ files \in Seq(Files) /\ script \in Seq(Scripted) /\ calling \in BOOLEAN
    /\ stack \in Seq(Frames)

\* The client application: a call is running, or has just failed, only where one was made.
AtWork ==
    /\ user = "library" => prog = "start" /\ ~calling
    /\ user = "client" =>
          /\ pc = "connect" => prog = "connecting"
          /\ Calling => calling \/ prog = "readn"
          /\ pc = "idle" /\ Fatal(ret.errno) => calling \/ prog = "readn"
    /\ ret.ok = (ret.errno = "0")
    /\ user \in {"client", "library"}

\* The call made is the first of the script, and the script suits the request.
ScriptOps == IF Current.opt = "r" THEN ReadOps ELSE OpCodes \ {"READ_FILE"}
OnScript ==
    /\ calling => /\ script # <<>> /\ prog \in {"files", "scan"}
                  /\ pc = "idle" => ret.op = Head(script).op
                  /\ Calling => call.op = Head(script).op
    /\ prog \in {"files", "scan", "readn"} => request_q # <<>>
    /\ prog = "files" => /\ Current.opt \in {"W", "r", "c"}
                         /\ \A i \in 1 .. Len(script) : script[i].op \in ScriptOps
                         /\ to_write # <<>> => /\ Current.opt = "r"
                                               /\ pc = "idle" /\ ~calling => ret.op \in ReadOps

\* The limits of the invocations of rec_scan_dirs: none has counted more than its own
\* limit, which is what the one around it had left when it began.
Limits(st) ==
    /\ \A i \in 1 .. Len(st) : st[i].N # -1 => st[i].n_reads <= st[i].N
    /\ \A i \in 1 .. Len(st) - 1 :
          st[i].N # -1 => st[i + 1].N = st[i].N - st[i].n_reads

\* The calls of a script belong to a file of the request or of the directory, and
\* while they are made one more file may be counted.
OnFile ==
    /\ prog \notin {"files", "scan"} => script = <<>>
    /\ prog = "files" /\ script # <<>> => files # <<>>
    /\ stack # <<>> => prog = "scan"
    /\ prog = "scan" /\ script # <<>> =>
          stack # <<>> /\ (Top.N # -1 => Top.n_reads < Top.N)
    /\ Limits(stack)

ProgramInv == ProgramTypes /\ AtWork /\ OnScript /\ OnFile

-----------------------------------------------------------------------------
(***************************************************************************)
(* The list of requests.                                                   *)
(***************************************************************************)
LEMMA PairedTail ==
    ASSUME NEW q \in Seq(Good), q # <<>>, Paired(q),
           Len(q) > 1 => q[2].opt \notin {"d", "D"}
    PROVE  Tail(q) \in Seq(Good) /\ Paired(Tail(q))
<1> DEFINE t == Tail(q)
<1>1. /\ Len(q) \in Nat /\ t \in Seq(Good) /\ Len(t) = Len(q) - 1
      /\ \A i \in 1 .. Len(q) - 1 : t[i] = q[i + 1]
  BY HeadTail
<1> HIDE DEF t
<1>2. ASSUME NEW i \in 1 .. Len(t), t[i].opt \in {"d", "D"}
      PROVE  i > 1 /\ t[i - 1].opt \in MayPrecede(t[i].opt) /\ t[i].dir # NULL
  <2>1. /\ i \in 1 .. Len(q) - 1 /\ i + 1 \in 1 .. Len(q) /\ (i + 1) - 1 = i
        /\ t[i] = q[i + 1]
    BY <1>1
  <2>2. q[i].opt \in MayPrecede(q[i + 1].opt) /\ q[i + 1].dir # NULL
    <3>1. q[(i + 1) - 1].opt \in MayPrecede(q[i + 1].opt) /\ q[i + 1].dir # NULL
      BY <1>2, <2>1 DEF Paired
    <3> QED
      BY <2>1, <3>1
  <2>3. i # 1
    BY <1>1, <1>2, <2>1
  <2>4. i > 1 /\ i - 1 \in 1 .. Len(q) - 1 /\ (i - 1) + 1 = i
    BY <1>1, <2>1, <2>3
  <2>5. t[i - 1] = q[(i - 1) + 1]
    BY <1>1, <2>4
  <2> QED
    BY <2>1, <2>2, <2>4, <2>5
<1>3. Paired(t)
  BY <1>2 DEF Paired
<1> QED
  BY <1>1, <1>3 DEF t

LEMMA PairedNext ==
    ASSUME request_q \in Seq(Good), request_q # <<>>, Paired(request_q)
    PROVE  /\ Current.opt \notin {"d", "D"}
           /\ GO_TO_NEXT \in Seq(Good) /\ Paired(GO_TO_NEXT)
           /\ Current.opt \notin {"w", "W", "r", "R"} =>
                 Tail(request_q) \in Seq(Good) /\ Paired(Tail(request_q))
<1> DEFINE q == request_q
           t == Tail(q)
<1>1. /\ Len(q) \in Nat /\ Len(q) > 0 /\ Current = q[1]
      /\ t \in Seq(Good) /\ Len(t) = Len(q) - 1
      /\ \A i \in 1 .. Len(q) - 1 : t[i] = q[i + 1]
  BY HeadTail DEF Current
<1>2. Current.opt \notin {"d", "D"}
  BY <1>1 DEF Paired
<1>3. ASSUME Len(q) > 1, q[2].opt \in {"d", "D"}
      PROVE  /\ Current.opt \in MayPrecede(q[2].opt) /\ q[2].dir # NULL
             /\ Current.opt \in {"w", "W", "r", "R"} /\ exp_dir # NULL
  <2>1. q[2 - 1].opt \in MayPrecede(q[2].opt) /\ q[2].dir # NULL /\ 2 - 1 = 1
    BY <1>1, <1>3 DEF Paired
  <2>2. \/ q[2].opt = "d" /\ q[1].opt \in {"r", "R"}
        \/ q[2].opt = "D" /\ q[1].opt \in {"w", "W"}
    BY <1>3, <2>1 DEF MayPrecede
  <2>3. exp_dir = q[2].dir
    BY <1>1, <1>3, <2>2 DEF exp_dir
  <2> QED
    BY <1>1, <2>1, <2>2, <2>3
<1>4. ASSUME ~(Len(q) > 1 /\ q[2].opt \in {"d", "D"})
      PROVE  t \in Seq(Good) /\ Paired(t)
  BY <1>4, PairedTail
<1>5. CASE Current.opt \in {"w", "W", "r", "R"} /\ exp_dir # NULL
  <2>1. Len(q) > 1 /\ q[2].opt \in {"d", "D"}
    BY <1>5 DEF exp_dir
  <2>2. t # <<>> /\ t[1] = q[2]
    <3>1. Len(t) > 0 /\ Len(<<>>) = 0 /\ 1 \in 1 .. Len(q) - 1 /\ 1 + 1 = 2
      BY <1>1, <2>1
    <3>2. t[1] = q[1 + 1]
      BY <1>1, <3>1
    <3> HIDE DEF t
    <3> QED
      BY <3>1, <3>2
  <2>3. Paired(Tail(t)) /\ Tail(t) \in Seq(Good)
    <3> DEFINE u == Tail(t)
    <3>1. /\ u \in Seq(Good) /\ Len(u) = Len(t) - 1
          /\ \A i \in 1 .. Len(t) - 1 : u[i] = t[i + 1]
      BY <1>1, <2>2, HeadTail
    <3> HIDE DEF u, t
    <3>2. ASSUME NEW i \in 1 .. Len(u), u[i].opt \in {"d", "D"}
          PROVE  i > 1 /\ u[i - 1].opt \in MayPrecede(u[i].opt) /\ u[i].dir # NULL
      <4>1. /\ i \in 1 .. Len(t) - 1 /\ i + 1 \in 1 .. Len(q) - 1 /\ i + 2 \in 1 .. Len(q)
            /\ (i + 1) + 1 = i + 2 /\ (i + 2) - 1 = i + 1
        BY <1>1, <3>1
      <4>2. u[i] = q[i + 2]
        <5>1. u[i] = t[i + 1] /\ t[i + 1] = q[(i + 1) + 1]
          BY <1>1, <3>1, <4>1
        <5> QED
          BY <4>1, <5>1
      <4>3. q[i + 1].opt \in MayPrecede(q[i + 2].opt) /\ q[i + 2].dir # NULL
        <5>1. q[(i + 2) - 1].opt \in MayPrecede(q[i + 2].opt) /\ q[i + 2].dir # NULL
          BY <3>2, <4>1, <4>2 DEF Paired
        <5> QED
          BY <4>1, <5>1
      <4>4. q[i + 1].opt \in {"r", "R", "w", "W"}
        BY <3>2, <4>2, <4>3 DEF MayPrecede
      <4>5. i # 1
        BY <2>1, <4>4
      <4>6. i > 1 /\ i - 1 \in 1 .. Len(t) - 1 /\ (i - 1) + 1 = i /\ i \in 1 .. Len(q) - 1
        BY <1>1, <4>1, <4>5
      <4>7. u[i - 1] = q[i + 1]
        <5>1. u[i - 1] = t[(i - 1) + 1] /\ t[i] = q[i + 1]
          BY <1>1, <3>1, <4>6
        <5> QED
          BY <4>6, <5>1
      <4> QED
        BY <4>2, <4>3, <4>6, <4>7
    <3>3. Paired(u)
      BY <3>2 DEF Paired
    <3> QED
      BY <3>1, <3>3 DEF u
  <2>4. GO_TO_NEXT = Tail(t)
    BY <1>5 DEF GO_TO_NEXT
  <2> QED
    BY <1>2, <1>5, <2>3, <2>4
<1>6. CASE ~(Current.opt \in {"w", "W", "r", "R"} /\ exp_dir # NULL)
  <2>1. t \in Seq(Good) /\ Paired(t)
    BY <1>3, <1>4, <1>6
  <2>2. GO_TO_NEXT = t
    BY <1>6 DEF GO_TO_NEXT
  <2> QED
    BY <1>2, <2>1, <2>2
<1> QED
  BY <1>5, <1>6

\* The list that parse_options returns, when validate_options accepts it.
LEMMA PairedRequests ==
    ASSUME ProgramTypes, parse_options(argv).ok, validate_options(parse_options(argv))
    PROVE  /\ parse_options(argv).requests \in Seq(Good)
           /\ Paired(parse_options(argv).requests)
<1> DEFINE r == parse_options(argv).requests
<1>1. /\ r \in Seq(Options)
      /\ \A k \in 1 .. Len(r) : \E i \in DOMAIN argv : r[k] = argv[i]
  BY ParsedRequests DEF ProgramTypes
<1>2. \A i \in DOMAIN argv : argv[i].good
  BY DEF parse_options, StopsAt, BadArgument
<1>3. \A i \in DOMAIN r : r[i].opt \in {"d", "D"} =>
         i > 1 /\ r[i - 1].opt \in MayPrecede(r[i].opt)
  BY DEF validate_options
<1> HIDE DEF r
<1>4. DOMAIN r = 1 .. Len(r) /\ Len(r) \in Nat
  BY <1>1
<1>5. \A k \in 1 .. Len(r) : r[k] \in Good
  BY <1>1, <1>2 DEF ProgramTypes
<1>6. r \in Seq(Good)
  <2>1. r = [k \in 1 .. Len(r) |-> r[k]]
    BY <1>1
  <2>2. r \in [1 .. Len(r) -> Good]
    BY <1>4, <1>5, <2>1
  <2> QED
    BY <1>4, <2>2
<1>7. \A k \in 1 .. Len(r) : r[k].opt \in {"d", "D"} => r[k].dir # NULL
  BY <1>5 DEF Good
<1>8. Paired(r)
  BY <1>3, <1>4, <1>7 DEF Paired
<1> QED
  BY <1>6, <1>8 DEF r

-----------------------------------------------------------------------------
(***************************************************************************)
(* A step of the library, the server or the kernel, as the program sees    *)
(* it.                                                                     *)
(***************************************************************************)
Seen == \/ pc' = "dead" /\ ret' = NoReturn
        \/ Calling /\ Calling' /\ call' = call /\ ret' = ret
        \/ Calling /\ pc' = "idle" /\ ret'.op = call.op /\ ret'.ok = (ret'.errno = "0")
        \/ pc = "connect" /\ pc' = "connect" /\ ret' = ret
        \/ pc = "connect" /\ pc' = "idle" /\ ret'.ok = (ret'.errno = "0") /\ ~Fatal(ret'.errno)
        \/ pc' = pc /\ call' = call /\ ret' = ret

LEMMA SeenSteps ==
    ASSUME LibraryStep \/ WorkerStep \/ Killed \/ ServerStops \/ ServerStarts \/ Die
    PROVE  Seen
<1>1. ASSUME NEW errno, Return(errno), Calling PROVE Seen
  BY <1>1 DEF Return, Seen
<1>2. CASE ReadResult \/ ReadFinal
  <2>1. Calling
    BY <1>2 DEF ReadResult, ReadFinal, Calling
  <2>2. \/ Return(convert_res_to_errno(Value))
        \/ Calling' /\ call' = call /\ ret' = ret
    BY <1>2 DEF ReadResult, ReadFinal, Calling, locals
  <2> QED
    BY <1>1, <2>1, <2>2 DEF Seen
<1>3. CASE ReadNoContents \/ ReadEof \/ SaveNowhere \/ NoDirectory \/ Saved
  <2>1. Calling
    BY <1>3 DEF ReadNoContents, ReadEof, Reading, SaveNowhere, NoDirectory, Saved, Calling
  <2>2. Return("EBADE") \/ Return("0") \/ Return("ECANCELED") \/ Return("mkdir")
    BY <1>3 DEF ReadNoContents, ReadEof, SaveNowhere, NoDirectory, Saved
  <2> QED
    BY <1>1, <2>1, <2>2
<1>4. CASE SendField \/ ReadSize \/ ReadContents \/ ReadListPath \/ ReadListSize \/ ReadListData
           \/ SaveFile
  BY <1>4 DEF SendField, ReadSize, ReadContents, ReadListPath, ReadListSize, ReadListData, SaveFile,
              Calling, Seen, locals
<1>5. CASE Connected \/ ConnectFails
  <2>1. /\ pc = "connect" /\ pc' \in {"idle", "connect"}
        /\ pc' = "connect" => ret' = ret
        /\ pc' = "idle" => \/ ret' = [op |-> "CONNECT", ok |-> TRUE, errno |-> "0"]
                          \/ ret' = [op |-> "CONNECT", ok |-> FALSE, errno |-> "ETIMEDOUT"]
    BY <1>5 DEF Connected, ConnectFails
  <2>2. pc' = "idle" => (ret'.ok = TRUE /\ ret'.errno = "0")
                          \/ (ret'.ok = FALSE /\ ret'.errno = "ETIMEDOUT")
    BY <2>1
  <2>3. pc' = "idle" => ret'.ok = (ret'.errno = "0") /\ ~Fatal(ret'.errno)
    BY <2>2 DEF Fatal
  <2> QED
    BY <2>1, <2>3 DEF Seen
<1>6. CASE BrokenPipe \/ Killed \/ Die
  BY <1>6 DEF BrokenPipe, Killed, Die, Seen
<1>7. CASE WorkerStep \/ ServerStops \/ ServerStarts
  BY <1>7, WorkerKeeps DEF LibraryKept, Seen
<1> QED
  BY <1>2, <1>3, <1>4, <1>5, <1>6, <1>7 DEF LibraryStep

LEMMA SeenInv == ASSUME ProgramInv, Seen, UNCHANGED progVars PROVE ProgramInv'
<1>1. /\ user' = user /\ prog' = prog /\ argv' = argv /\ request_q' = request_q /\ files' = files
      /\ to_write' = to_write /\ script' = script /\ calling' = calling /\ stack' = stack
  BY DEF progVars
<1>2. ProgramTypes'
  BY <1>1 DEF ProgramInv, ProgramTypes, Paired
<1>3. AtWork'
  <2>1. NoReturn.ok = (NoReturn.errno = "0")
    BY DEF NoReturn
  <2>2. pc = "connect" \/ pc = "idle" \/ pc = "dead" <=> ~Calling
    BY DEF Calling
  <2>3. pc' = "connect" \/ pc' = "idle" \/ pc' = "dead" <=> ~Calling'
    BY DEF Calling
  <2> QED
    BY <1>1, <2>1, <2>2, <2>3 DEF Seen, ProgramInv, AtWork, OnScript
<1>4. OnScript'
  <2>1. Current' = Current /\ ScriptOps' = ScriptOps
    BY <1>1 DEF Current, ScriptOps
  <2>2. pc = "connect" \/ pc = "idle" \/ pc = "dead" <=> ~Calling
    BY DEF Calling
  <2>3. pc' = "connect" \/ pc' = "idle" \/ pc' = "dead" <=> ~Calling'
    BY DEF Calling
  <2>4. /\ calling => user = "client"
        /\ prog = "files" => user = "client"
    BY DEF ProgramInv, AtWork
  <2>5. calling' =>  /\ script' # <<>> /\ prog' \in {"files", "scan"}
                     /\ pc' = "idle" => ret'.op = Head(script').op
                     /\ Calling' => call'.op = Head(script').op
    BY <1>1, <2>2, <2>3, <2>4 DEF Seen, ProgramInv, AtWork, OnScript
  <2>6. prog' = "files" /\ to_write' # <<>> /\ pc' = "idle" /\ ~calling' => ret'.op \in ReadOps
    BY <1>1, <2>2, <2>3, <2>4 DEF Seen, ProgramInv, AtWork, OnScript
  <2> QED
    BY <1>1, <2>1, <2>5, <2>6 DEF ProgramInv, OnScript
<1>5. OnFile'
  BY <1>1 DEF ProgramInv, OnFile, Limits, Top, Last
<1> QED
  BY <1>2, <1>3, <1>4, <1>5 DEF ProgramInv

-----------------------------------------------------------------------------
(***************************************************************************)
(* A step of the program.                                                  *)
(***************************************************************************)
\* The program goes on to something else: the library is not involved.
LEMMA Unseen ==
    ASSUME UNCHANGED sessionButSaved
    PROVE  pc' = pc /\ call' = call /\ ret' = ret /\ (Calling' <=> Calling)
  BY DEF sessionButSaved, Calling

\* A call that the script or a request asks for.
LEMMA Begins ==
    ASSUME NEW c, BeginCall(c), pc = "idle"
    PROVE  \/ /\ pc' = "idle" /\ ret'.op = c.op /\ ret'.ok = (ret'.errno = "0")
              /\ ~Fatal(ret'.errno) /\ ~Calling'
           \/ pc' = "send" /\ call' = c /\ ret' = ret /\ Calling'
<1>1. CASE Reject(c)
  <2>1. /\ pc' = "idle" /\ ret' = [op |-> c.op, ok |-> FALSE, errno |-> LocalError(c)]
        /\ LocalError(c) # "0" /\ ~Fatal(LocalError(c))
    BY <1>1 DEF Reject, LocalError, Fatal
  <2> QED
    BY <2>1 DEF Calling
<1>2. CASE Start(c)
  BY <1>2 DEF Start, Calling
<1> QED
  BY <1>1, <1>2 DEF BeginCall

Suits(letter, t) ==
    /\ t \in Seq(Scripted)
    /\ \A i \in 1 .. Len(t) :
          t[i].op \in (IF letter = "r" THEN ReadOps ELSE OpCodes \ {"READ_FILE"})

LEMMA ScriptType ==
    ASSUME ProgramTypes, NEW letter \in {"W", "r", "c"}, NEW f \in Files
    PROVE  Suits(letter, Script(letter, f, exp_dir))
<1> DEFINE x == exp_dir
<1>1. exp_dir \in Dirs \cup {NULL}
  <2>1. Len(request_q) > 1 => request_q[2] \in Options
    BY DEF ProgramTypes, Good
  <2> QED
    BY <2>1 DEF exp_dir, Options
<1> HIDE DEF x
<1>2. x \in Dirs \cup {NULL}
  BY <1>1 DEF x
<1>3. \A op \in OpCodes : \A cr, lk \in BOOLEAN : \A d \in {x, NULL} :
         Call(op, f, cr, lk, 0, d) \in Scripted /\ Call(op, f, cr, lk, 0, d).op = op
  BY <1>2 DEF Call, Scripted
<1>4. {"OPEN_FILE", "WRITE_FILE", "READ_FILE", "CLOSE_FILE", "REMOVE_FILE"} \subseteq OpCodes
  BY DEF OpCodes
<1>5. ASSUME letter = "W" PROVE Suits(letter, Script(letter, f, x))
  <2>1. Script(letter, f, x) = SendScript(f, x)
    BY <1>5 DEF Script
  <2> DEFINE a == Call("OPEN_FILE", f, TRUE, TRUE, 0, NULL)
             b == Call("WRITE_FILE", f, FALSE, FALSE, 0, x)
             e == Call("CLOSE_FILE", f, FALSE, FALSE, 0, NULL)
  <2>2. /\ a \in Scripted /\ b \in Scripted /\ e \in Scripted
        /\ a.op = "OPEN_FILE" /\ b.op = "WRITE_FILE" /\ e.op = "CLOSE_FILE"
    BY <1>3, <1>4
  <2>3. Script(letter, f, x) = <<a, b, e>>
    BY <2>1 DEF SendScript
  <2> HIDE DEF a, b, e
  <2>4. <<a, b, e>> \in Seq(Scripted) /\ \A i \in 1 .. Len(<<a, b, e>>) : <<a, b, e>>[i] \in {a, b, e}
    BY <2>2
  <2> QED
    BY <1>4, <1>5, <2>2, <2>3, <2>4 DEF Suits
<1>6. ASSUME letter = "r" PROVE Suits(letter, Script(letter, f, x))
  <2>1. Script(letter, f, x) = ReadScript(f)
    BY <1>6 DEF Script
  <2> DEFINE a == Call("OPEN_FILE", f, FALSE, FALSE, 0, NULL)
             b == Call("READ_FILE", f, FALSE, FALSE, 0, NULL)
             e == Call("CLOSE_FILE", f, FALSE, FALSE, 0, NULL)
  <2>2. /\ a \in Scripted /\ b \in Scripted /\ e \in Scripted
        /\ a.op = "OPEN_FILE" /\ b.op = "READ_FILE" /\ e.op = "CLOSE_FILE"
    BY <1>3, <1>4
  <2>3. Script(letter, f, x) = <<a, b, e>>
    BY <2>1 DEF ReadScript
  <2> HIDE DEF a, b, e
  <2>4. <<a, b, e>> \in Seq(Scripted) /\ \A i \in 1 .. Len(<<a, b, e>>) : <<a, b, e>>[i] \in {a, b, e}
    BY <2>2
  <2> QED
    BY <1>6, <2>2, <2>3, <2>4 DEF Suits, ReadOps
<1>7. ASSUME letter = "c" PROVE Suits(letter, Script(letter, f, x))
  <2>1. Script(letter, f, x) = RemoveScript(f)
    BY <1>7 DEF Script
  <2> DEFINE a == Call("OPEN_FILE", f, FALSE, TRUE, 0, NULL)
             b == Call("REMOVE_FILE", f, FALSE, FALSE, 0, NULL)
  <2>2. /\ a \in Scripted /\ b \in Scripted
        /\ a.op = "OPEN_FILE" /\ b.op = "REMOVE_FILE"
    BY <1>3, <1>4
  <2>3. Script(letter, f, x) = <<a, b>>
    BY <2>1 DEF RemoveScript
  <2> HIDE DEF a, b
  <2>4. <<a, b>> \in Seq(Scripted) /\ \A i \in 1 .. Len(<<a, b>>) : <<a, b>>[i] \in {a, b}
    BY <2>2
  <2> QED
    BY <1>4, <1>7, <2>2, <2>3, <2>4 DEF Suits
<1> QED
  BY <1>5, <1>6, <1>7 DEF x

LEMMA InitInv == ASSUME Init PROVE ProgramInv
<1>1. /\ user \in {"client", "library"} /\ prog = "start" /\ request_q = <<>> /\ files = <<>>
      /\ to_write = <<>> /\ script = <<>> /\ calling = FALSE /\ pc = "idle" /\ ret = NoReturn
      /\ stack = <<>>
      /\ argv \in CommandLines \cup {<<>>}
  BY DEF Init, ProgInit, SessionInit
<1>2. NoReturn.ok = (NoReturn.errno = "0") /\ ~Fatal(NoReturn.errno) /\ ~Calling
  BY <1>1 DEF NoReturn, Fatal, Calling
<1>3. ProgramTypes
  <2>1. <<>> \in Seq(Options) /\ DOMAIN <<>> = {}
    OBVIOUS
  <2>2. argv \in Seq(Options)
    BY <1>1, <2>1, ProgramAssumption
  <2>3. \A i \in DOMAIN argv : argv[i].good => argv[i] \in Good
    <3>1. \A i \in DOMAIN argv : argv[i] \in Options
      BY <2>2
    <3> QED
      BY <1>1, <2>1, <3>1, ProgramAssumption DEF Good
  <2>4. /\ request_q \in Seq(Good) /\ files \in Seq(Files) /\ script \in Seq(Scripted)
        /\ stack \in Seq(Frames)
    BY <1>1
  <2>5. Paired(request_q)
    <3>1. \A i \in 1 .. Len(request_q) : FALSE
      BY <1>1
    <3> QED
      BY <3>1 DEF Paired
  <2> QED
    BY <1>1, <2>2, <2>3, <2>4, <2>5 DEF ProgramTypes
<1> QED
  BY <1>1, <1>2, <1>3 DEF ProgramInv, AtWork, OnScript, OnFile, Limits

-----------------------------------------------------------------------------
(***************************************************************************)
(* The invocations of rec_scan_dirs.                                       *)
(***************************************************************************)
Stacked(st) == st \in Seq(Frames) /\ Limits(st)

LEMMA LastFrame ==
    ASSUME NEW st \in Seq(Frames), st # <<>>
    PROVE  /\ Len(st) \in Nat /\ Len(st) >= 1 /\ Last(st) = st[Len(st)] /\ Last(st) \in Frames
           /\ DOMAIN st = 1 .. Len(st)
           /\ Last(st).N \in Int /\ Last(st).n_reads \in Nat /\ Last(st).entries \in Seq(Entries)
<1>1. Len(st) \in Nat /\ Len(st) # 0 /\ DOMAIN st = 1 .. Len(st)
  OBVIOUS
<1>2. Len(st) >= 1 /\ Len(st) \in 1 .. Len(st)
  BY <1>1
<1>3. Last(st) = st[Len(st)]
  BY DEF Last
<1>4. st[Len(st)] \in Frames
  BY <1>2
<1> HIDE DEF Last
<1> QED
  BY <1>1, <1>2, <1>3, <1>4 DEF Frames

\* The innermost frame is replaced by one with the same limit.
LEMMA TopChanged ==
    ASSUME NEW st, Stacked(st), st # <<>>, NEW fr \in Frames, fr.N = Last(st).N,
           fr.N # -1 => fr.n_reads <= fr.N
    PROVE  LET t == [st EXCEPT ![Len(st)] = fr] IN
           Stacked(t) /\ t # <<>> /\ Last(t) = fr
<1> DEFINE k == Len(st)
           t == [st EXCEPT ![k] = fr]
<1>1. st \in Seq(Frames) /\ k \in Nat /\ k >= 1 /\ DOMAIN st = 1 .. k /\ Last(st) = st[k]
  BY LastFrame DEF Stacked
<1>2. /\ t \in Seq(Frames) /\ Len(t) = k /\ t[k] = fr
      /\ \A i \in 1 .. k : i # k => t[i] = st[i]
  <2>1. t \in [1 .. k -> Frames]
    BY <1>1
  <2>2. t \in Seq(Frames)
    BY <1>1, <2>1
  <2>3. DOMAIN t = 1 .. k
    BY <2>1
  <2>4. Len(t) = k
    <3> HIDE DEF t
    <3> QED
      BY <1>1, <2>2, <2>3
  <2> QED
    BY <1>1, <2>2, <2>4
<1> HIDE DEF t, k
<1>3. t # <<>> /\ Last(t) = fr
  <2>1. Len(t) # 0 /\ Len(<<>>) = 0
    BY <1>1, <1>2
  <2> QED
    BY <1>2, <2>1 DEF Last
<1>4. Limits(t)
  <2>1. \A i \in 1 .. k : t[i].N = st[i].N /\ (i # k => t[i] = st[i])
    BY <1>1, <1>2
  <2>2. /\ \A i \in 1 .. k : st[i].N # -1 => st[i].n_reads <= st[i].N
        /\ \A i \in 1 .. k - 1 : st[i].N # -1 => st[i + 1].N = st[i].N - st[i].n_reads
    BY DEF Limits, Stacked, k
  <2>3. \A i \in 1 .. k : t[i].N # -1 => t[i].n_reads <= t[i].N
    BY <1>2, <2>1, <2>2
  <2>4. ASSUME NEW i \in 1 .. k - 1, t[i].N # -1 PROVE t[i + 1].N = t[i].N - t[i].n_reads
    <3>1. i \in 1 .. k /\ i + 1 \in 1 .. k /\ i # k
      BY <1>1
    <3> QED
      BY <2>1, <2>2, <2>4, <3>1
  <2> QED
    BY <1>2, <2>3, <2>4 DEF Limits
<1> QED
  BY <1>2, <1>3, <1>4 DEF Stacked, t, k

\* An invocation returns: the one around it is the innermost again.
LEMMA Popped ==
    ASSUME NEW st, Stacked(st), st # <<>>
    PROVE  /\ Stacked(Front(st)) /\ Len(Front(st)) = Len(st) - 1
           /\ Len(st) # 1 => /\ Front(st) # <<>>
                             /\ Last(Front(st)) = st[Len(st) - 1]
                             /\ Last(Front(st)).N # -1 =>
                                   Last(st).N = Last(Front(st)).N - Last(Front(st)).n_reads
<1> DEFINE k == Len(st)
           t == Front(st)
<1>1. st \in Seq(Frames) /\ k \in Nat /\ k >= 1 /\ DOMAIN st = 1 .. k /\ Last(st) = st[k]
  BY LastFrame DEF Stacked
<1>2. t \in Seq(Frames) /\ Len(t) = k - 1 /\ \A i \in 1 .. k - 1 : t[i] = st[i]
  <2>1. t = SubSeq(st, 1, k - 1)
    BY DEF Front
  <2>2. \A i \in 1 .. k - 1 : st[i] \in Frames
    BY <1>1
  <2>3. t = [i \in 1 .. k - 1 |-> st[i]]
    BY <1>1, <2>1 DEF SubSeq
  <2>4. t \in [1 .. k - 1 -> Frames] /\ k - 1 \in Nat
    BY <1>1, <2>2, <2>3
  <2>5. t \in Seq(Frames) /\ DOMAIN t = 1 .. k - 1
    BY <2>4
  <2> HIDE DEF t
  <2>6. Len(t) = k - 1
    BY <2>4, <2>5
  <2> QED
    BY <2>3, <2>5, <2>6
<1> HIDE DEF t, k
<1>3. Limits(t)
  <2>2. /\ \A i \in 1 .. k : st[i].N # -1 => st[i].n_reads <= st[i].N
        /\ \A i \in 1 .. k - 1 : st[i].N # -1 => st[i + 1].N = st[i].N - st[i].n_reads
    BY DEF Limits, Stacked, k
  <2>3. \A i \in 1 .. k - 1 : i \in 1 .. k /\ (i \in 1 .. (k - 1) - 1 => i + 1 \in 1 .. k - 1)
    BY <1>1
  <2>4. \A i \in 1 .. k - 1 : t[i].N # -1 => t[i].n_reads <= t[i].N
    BY <1>2, <2>2, <2>3
  <2>5. \A i \in 1 .. (k - 1) - 1 : t[i].N # -1 => t[i + 1].N = t[i].N - t[i].n_reads
    <3>1. \A i \in 1 .. (k - 1) - 1 : i \in 1 .. k - 1
      BY <1>1
    <3> QED
      BY <1>2, <2>2, <2>3, <3>1
  <2> QED
    BY <1>2, <2>4, <2>5 DEF Limits
<1>4. ASSUME k # 1
      PROVE  /\ t # <<>> /\ Last(t) = st[k - 1]
             /\ Last(t).N # -1 => Last(st).N = Last(t).N - Last(t).n_reads
  <2>1. Len(t) # 0 /\ Len(<<>>) = 0 /\ k - 1 \in 1 .. k - 1 /\ (k - 1) + 1 = k
    BY <1>1, <1>2, <1>4
  <2>2. t # <<>> /\ Last(t) = st[k - 1]
    BY <1>2, <2>1 DEF Last
  <2>3. st[k - 1].N # -1 => st[(k - 1) + 1].N = st[k - 1].N - st[k - 1].n_reads
    BY <2>1 DEF Limits, Stacked, k
  <2> QED
    BY <1>1, <2>1, <2>2, <2>3
<1> QED
  BY <1>2, <1>3, <1>4 DEF t, k, Stacked

\* An invocation begins, with what the one around it has left.
LEMMA Pushed ==
    ASSUME NEW st, Stacked(st), NEW fr \in Frames, fr.N # -1 => fr.n_reads <= fr.N,
           st # <<>> /\ Last(st).N # -1 => fr.N = Last(st).N - Last(st).n_reads
    PROVE  Stacked(Append(st, fr))
<1> DEFINE k == Len(st)
           t == Append(st, fr)
<1>1. st \in Seq(Frames) /\ k \in Nat
  BY DEF Stacked
<1>2. t \in Seq(Frames) /\ Len(t) = k + 1 /\ t[k + 1] = fr /\ \A i \in 1 .. k : t[i] = st[i]
  BY <1>1
<1> HIDE DEF t
<1>3. Limits(t)
  <2>1. /\ \A i \in 1 .. k : st[i].N # -1 => st[i].n_reads <= st[i].N
        /\ \A i \in 1 .. k - 1 : st[i].N # -1 => st[i + 1].N = st[i].N - st[i].n_reads
    BY DEF Limits, Stacked
  <2>2. ASSUME NEW i \in 1 .. Len(t), t[i].N # -1 PROVE t[i].n_reads <= t[i].N
    <3>1. i \in 1 .. k \/ i = k + 1
      BY <1>1, <1>2
    <3> QED
      BY <1>2, <2>1, <2>2, <3>1
  <2>3. ASSUME NEW i \in 1 .. Len(t) - 1, t[i].N # -1 PROVE t[i + 1].N = t[i].N - t[i].n_reads
    <3>1. i \in 1 .. k
      BY <1>1, <1>2
    <3>2. CASE i = k
      <4>1. st # <<>>
        <5>1. k # 0 /\ Len(<<>>) = 0
          BY <1>1, <3>1, <3>2
        <5> QED
          BY <5>1
      <4>2. Last(st) = st[k]
        BY DEF Last
      <4> QED
        BY <1>2, <2>3, <3>1, <3>2, <4>1, <4>2
    <3>3. CASE i # k
      <4>1. i \in 1 .. k - 1 /\ i + 1 \in 1 .. k
        BY <1>1, <3>1, <3>3
      <4> QED
        BY <1>2, <2>1, <2>3, <3>1, <4>1
    <3> QED
      BY <3>2, <3>3
  <2> QED
    BY <2>2, <2>3 DEF Limits
<1> QED
  BY <1>2, <1>3 DEF Stacked, t

-----------------------------------------------------------------------------
(***************************************************************************)
(* A step of the program within a request: the library is not involved,    *)
(* and the list of requests stays.                                         *)
(***************************************************************************)
Aside == /\ pc' = pc /\ call' = call /\ ret' = ret /\ (Calling' <=> Calling)
         /\ user' = user /\ argv' = argv /\ user = "client" /\ pc = "idle" /\ ~Calling

LEMMA AsideSteps ==
    ASSUME UNCHANGED sessionButSaved, IsClient, UNCHANGED <<user, argv>>
    PROVE  Aside
  BY Unseen DEF IsClient, Calling, Aside

LEMMA NextFileInv == ASSUME ProgramInv, NextFile PROVE ProgramInv'
<1>1. /\ Aside /\ prog = "files" /\ script = <<>> /\ files # <<>> /\ files' = files
      /\ to_write' = to_write /\ calling' = calling /\ stack' = stack /\ prog' = prog
      /\ request_q' = request_q /\ script' = Script(Current.opt, Head(files), exp_dir)
  BY AsideSteps DEF NextFile, sessionVars
<1>2. Current.opt \in {"W", "r", "c"} /\ ~calling /\ stack = <<>>
  BY <1>1 DEF ProgramInv, OnScript, OnFile
<1>3. Head(files) \in Files
  BY <1>1, HeadTail DEF ProgramInv, ProgramTypes
<1>4. Suits(Current.opt, script')
  BY <1>1, <1>2, <1>3, ScriptType DEF ProgramInv
<1>5. script' \in Seq(Scripted) /\ \A i \in 1 .. Len(script') : script'[i].op \in ScriptOps
  BY <1>4 DEF Suits, ScriptOps
<1>6. Current' = Current /\ ScriptOps' = ScriptOps
  BY <1>1 DEF Current, ScriptOps
<1>7. ProgramTypes'
  BY <1>1, <1>5 DEF ProgramInv, ProgramTypes, Paired, Aside
<1>8. AtWork'
  BY <1>1 DEF ProgramInv, AtWork, Aside
<1>9. OnScript'
  BY <1>1, <1>2, <1>5, <1>6 DEF ProgramInv, OnScript, Aside
<1>10. OnFile'
  BY <1>1, <1>2 DEF ProgramInv, OnFile, Limits
<1> QED
  BY <1>7, <1>8, <1>9, <1>10 DEF ProgramInv

LEMMA CallReturnedInv == ASSUME ProgramInv, CallReturned PROVE ProgramInv'
<1>1. /\ Aside /\ calling /\ ~CHECK_IF_FATAL_ERR /\ calling' = FALSE
      /\ prog' = prog /\ request_q' = request_q
      /\ script' = IF ret.ok THEN Tail(script) ELSE <<>>
      /\ files' = IF prog = "files" /\ script' = <<>> THEN Tail(files) ELSE files
      /\ to_write' = IF ret.op = "READ_FILE" /\ ret.ok THEN Append(to_write, Head(files))
                     ELSE to_write
      /\ stack' = IF prog = "scan" /\ ret.ok /\ Len(script) = 1
                  THEN [stack EXCEPT ![Len(stack)].n_reads = @ + 1] ELSE stack
  BY AsideSteps DEF CallReturned, sessionVars
<1>2. /\ script # <<>> /\ prog \in {"files", "scan"} /\ ret.op = Head(script).op
      /\ prog = "files" => files # <<>>
      /\ prog = "scan" => stack # <<>> /\ (Top.N # -1 => Top.n_reads < Top.N)
      /\ ~Calling /\ pc = "idle"
  BY <1>1 DEF ProgramInv, OnScript, OnFile, Aside
<1>3. /\ Len(script) \in Nat /\ Len(script) > 0 /\ Head(script) = script[1]
      /\ Tail(script) \in Seq(Scripted) /\ Len(Tail(script)) = Len(script) - 1
      /\ \A i \in 1 .. Len(script) - 1 : Tail(script)[i] = script[i + 1]
  BY <1>2, HeadTail DEF ProgramInv, ProgramTypes
<1>4. script' \in Seq(Scripted)
  BY <1>1, <1>3
<1>5. files' \in Seq(Files)
  <2>1. files \in Seq(Files) /\ (files # <<>> => Tail(files) \in Seq(Files))
    BY HeadTail DEF ProgramInv, ProgramTypes
  <2> QED
    BY <1>1, <1>2, <2>1
<1>6. ~Fatal(ret.errno)
  BY <1>1 DEF ProgramInv, AtWork, CHECK_IF_FATAL_ERR, Fatal
<1>7. Stacked(stack') /\ (stack' # <<>> => stack # <<>>)
      /\ (script' # <<>> => stack' = stack)
  <2>1. Stacked(stack)
    BY DEF ProgramInv, ProgramTypes, OnFile, Stacked
  <2>2. CASE prog = "scan" /\ ret.ok /\ Len(script) = 1
    <3> DEFINE fr == [stack[Len(stack)] EXCEPT !.n_reads = @ + 1]
    <3>1. stack # <<>> /\ (Last(stack).N # -1 => Last(stack).n_reads < Last(stack).N)
      BY <1>2, <2>2 DEF Top
    <3>2. /\ Last(stack) = stack[Len(stack)] /\ Last(stack) \in Frames
          /\ Last(stack).n_reads \in Nat /\ Last(stack).N \in Int
      BY <2>1, <3>1, LastFrame DEF Stacked
    <3>3. fr \in Frames /\ fr.N = Last(stack).N /\ fr.n_reads = Last(stack).n_reads + 1
      BY <3>2 DEF Frames
    <3>4. stack' = [stack EXCEPT ![Len(stack)] = fr]
      BY <1>1, <2>2
    <3> HIDE DEF fr
    <3>5. fr.N # -1 => fr.n_reads <= fr.N
      BY <3>1, <3>2, <3>3
    <3>6. Stacked(stack')
      BY <2>1, <3>1, <3>3, <3>4, <3>5, TopChanged
    <3>7. script' = <<>>
      <4>1. Len(script') = 0 /\ script' \in Seq(Scripted)
        BY <1>1, <1>3, <2>2
      <4> QED
        BY <4>1
    <3> QED
      BY <3>1, <3>6, <3>7
  <2>3. CASE ~(prog = "scan" /\ ret.ok /\ Len(script) = 1)
    BY <1>1, <2>1, <2>3
  <2> QED
    BY <2>2, <2>3
<1>8. Current' = Current /\ ScriptOps' = ScriptOps
  BY <1>1 DEF Current, ScriptOps
<1>9. ProgramTypes'
  BY <1>1, <1>4, <1>5, <1>7 DEF ProgramInv, ProgramTypes, Paired, Aside, Stacked
<1>10. AtWork'
  BY <1>1, <1>2, <1>6 DEF ProgramInv, AtWork, Aside
<1>11. OnScript'
  <2>1. CASE prog = "files"
    <3>1. /\ Current.opt \in {"W", "r", "c"}
          /\ \A i \in 1 .. Len(script) : script[i].op \in ScriptOps
          /\ to_write # <<>> => Current.opt = "r"
      BY <2>1 DEF ProgramInv, OnScript
    <3>2. ret.op \in ScriptOps
      <4>1. 1 \in 1 .. Len(script)
        BY <1>3
      <4> QED
        BY <1>2, <1>3, <3>1, <4>1
    <3>3. \A i \in 1 .. Len(Tail(script)) : Tail(script)[i].op \in ScriptOps
      <4> SUFFICES ASSUME NEW i \in 1 .. Len(script) - 1 PROVE Tail(script)[i].op \in ScriptOps
        BY <1>3
      <4>1. i + 1 \in 1 .. Len(script)
        BY <1>3
      <4> QED
        BY <1>3, <3>1, <4>1
    <3>4. \A i \in 1 .. Len(script') : script'[i].op \in ScriptOps
      <4>1. CASE ret.ok
        BY <1>1, <3>3, <4>1
      <4>2. CASE ~ret.ok
        BY <1>1, <4>2
      <4> QED
        BY <4>1, <4>2
    <3>5. to_write' # <<>> => Current.opt = "r"
      BY <1>1, <3>1, <3>2 DEF ScriptOps
    <3>6. Current.opt = "r" => ret.op \in ReadOps
      BY <3>2 DEF ScriptOps
    <3> QED
      BY <1>1, <1>2, <1>8, <2>1, <3>1, <3>4, <3>5, <3>6 DEF ProgramInv, OnScript, Aside
  <2>2. CASE prog # "files"
    BY <1>1, <1>2, <1>8, <2>2 DEF ProgramInv, OnScript, Aside
  <2> QED
    BY <2>1, <2>2
<1>12. OnFile'
  <2>1. Limits(stack') /\ (stack' # <<>> => prog' = "scan")
    BY <1>1, <1>7 DEF Stacked, ProgramInv, OnFile
  <2>2. prog' = "files" /\ script' # <<>> => files' # <<>>
    BY <1>1, <1>2
  <2>3. prog' = "scan" /\ script' # <<>> =>
           stack' # <<>> /\ (Top'.N # -1 => Top'.n_reads < Top'.N)
    BY <1>1, <1>2, <1>7 DEF Top
  <2> QED
    BY <1>1, <1>2, <2>1, <2>2, <2>3 DEF OnFile
<1> QED
  BY <1>9, <1>10, <1>11, <1>12 DEF ProgramInv

LEMMA ScanInv ==
    ASSUME ProgramInv, ScanFile \/ ScanSubdirectory \/ ScanFails \/ ScanReturns
    PROVE  ProgramInv'
<1>1. /\ Aside /\ prog = "scan" /\ script = <<>> /\ stack # <<>> /\ prog' = prog
      /\ files' = files /\ to_write' = to_write /\ calling' = calling /\ request_q' = request_q
  BY AsideSteps DEF ScanFile, ScanSubdirectory, ScanFails, ScanReturns, Scanning, sessionVars
<1>2. ~calling
  BY <1>1 DEF ProgramInv, OnScript
<1>3. Stacked(stack)
  BY DEF ProgramInv, ProgramTypes, OnFile, Stacked
<1>4. /\ Top = stack[Len(stack)] /\ Top \in Frames /\ Top.n_reads \in Nat /\ Top.N \in Int
      /\ Top.entries \in Seq(Entries) /\ Top = Last(stack) /\ Len(stack) \in Nat /\ Len(stack) >= 1
      /\ DOMAIN stack = 1 .. Len(stack)
  BY <1>1, <1>3, LastFrame DEF Stacked, Top
<1>5. Top.N # -1 => Top.n_reads <= Top.N
  <2>1. Len(stack) \in 1 .. Len(stack)
    BY <1>4
  <2>2. stack[Len(stack)].N # -1 => stack[Len(stack)].n_reads <= stack[Len(stack)].N
    BY <1>3, <2>1 DEF Stacked, Limits
  <2> QED
    BY <1>4, <2>2
<1>6. MoreEntries => /\ Stacked(WithoutFirst) /\ WithoutFirst # <<>>
                     /\ Last(WithoutFirst).N = Top.N
                     /\ Last(WithoutFirst).n_reads = Top.n_reads
  <2> SUFFICES ASSUME MoreEntries
               PROVE  /\ Stacked(WithoutFirst) /\ WithoutFirst # <<>>
                      /\ Last(WithoutFirst).N = Top.N
                      /\ Last(WithoutFirst).n_reads = Top.n_reads
    OBVIOUS
  <2> DEFINE fr == [stack[Len(stack)] EXCEPT !.entries = Tail(@)]
  <2>1. Tail(Top.entries) \in Seq(Entries)
    BY <1>4, HeadTail DEF MoreEntries
  <2>2. fr \in Frames /\ fr.N = Top.N /\ fr.n_reads = Top.n_reads
    BY <1>4, <2>1 DEF Frames
  <2>3. WithoutFirst = [stack EXCEPT ![Len(stack)] = fr]
    BY DEF WithoutFirst
  <2> HIDE DEF fr
  <2>4. fr.N = Last(stack).N /\ (fr.N # -1 => fr.n_reads <= fr.N)
    BY <1>4, <1>5, <2>2
  <2>5. Stacked(WithoutFirst) /\ WithoutFirst # <<>> /\ Last(WithoutFirst) = fr
    BY <1>1, <1>3, <2>2, <2>3, <2>4, TopChanged
  <2> QED
    BY <2>2, <2>5
<1>7. Stacked(stack') /\ script' \in Seq(Scripted)
      /\ (script' # <<>> => stack' # <<>> /\ (Top'.N # -1 => Top'.n_reads < Top'.N))
  <2>1. CASE ScanFile
    <3>1. /\ Head(Top.entries) \in Files /\ script' = SendScript(Head(Top.entries), exp_dir)
          /\ MoreEntries /\ stack' = WithoutFirst
      BY <2>1 DEF ScanFile
    <3>2. script' = Script("W", Head(Top.entries), exp_dir)
      BY <3>1 DEF Script
    <3>3. script' \in Seq(Scripted)
      BY <3>1, <3>2, ScriptType DEF ProgramInv, Suits
    <3>4. Top' = Last(WithoutFirst) /\ (Top.N # -1 => Top.n_reads < Top.N)
      BY <3>1 DEF Top, MoreEntries
    <3> QED
      BY <1>6, <3>1, <3>3, <3>4
  <2>2. CASE ScanSubdirectory
    <3> DEFINE fr == Frame(Tree[Head(Top.entries)], SubLimit(Top))
    <3>1. /\ Head(Top.entries) \in DOMAIN Tree /\ MoreEntries /\ script' = script
          /\ stack' = Append(WithoutFirst, fr)
      BY <2>2 DEF ScanSubdirectory
    <3>2. SubLimit(Top) \in Int /\ (SubLimit(Top) # -1 => SubLimit(Top) >= 0)
          /\ (Top.N # -1 => SubLimit(Top) = Top.N - Top.n_reads)
      BY <1>4, <1>5 DEF SubLimit
    <3>3. fr \in Frames /\ fr.n_reads = 0 /\ fr.N = SubLimit(Top)
      BY <3>1, <3>2, ProgramAssumption DEF Frame, Frames, Entries
    <3> HIDE DEF fr
    <3>4. /\ fr.N # -1 => fr.n_reads <= fr.N
          /\ Last(WithoutFirst).N # -1 =>
                fr.N = Last(WithoutFirst).N - Last(WithoutFirst).n_reads
      BY <1>6, <3>1, <3>2, <3>3
    <3>5. Stacked(stack')
      BY <1>6, <3>1, <3>3, <3>4, Pushed
    <3> QED
      BY <1>1, <3>1, <3>5
  <2>3. CASE ScanFails
    <3>1. stack' = Front(stack) /\ script' = script
      BY <2>3 DEF ScanFails
    <3> QED
      BY <1>1, <1>3, <3>1, Popped
  <2>4. CASE ScanReturns
    <3>1. /\ script' = script
          /\ stack' = IF Len(stack) = 1 THEN <<>>
                      ELSE [Front(stack) EXCEPT ![Len(stack) - 1].n_reads = @ + Top.n_reads]
      BY <2>4 DEF ScanReturns
    <3>2. CASE Len(stack) = 1
      <4>1. Stacked(<<>>)
        BY DEF Stacked, Limits
      <4> QED
        BY <1>1, <3>1, <3>2, <4>1
    <3>3. CASE Len(stack) # 1
      <4> DEFINE t == Front(stack)
                 fr == [t[Len(stack) - 1] EXCEPT !.n_reads = @ + Top.n_reads]
      <4>1. /\ Stacked(t) /\ t # <<>> /\ Len(t) = Len(stack) - 1
            /\ Last(t).N # -1 => Top.N = Last(t).N - Last(t).n_reads
        BY <1>1, <1>3, <1>4, <3>3, Popped
      <4>2. stack' = [t EXCEPT ![Len(t)] = fr]
        BY <3>1, <3>3, <4>1
      <4> HIDE DEF t
      <4>3. /\ Last(t) = t[Len(stack) - 1] /\ Last(t) \in Frames
            /\ Last(t).N \in Int /\ Last(t).n_reads \in Nat
        BY <4>1, LastFrame DEF Stacked
      <4>4. fr \in Frames /\ fr.N = Last(t).N /\ fr.n_reads = Last(t).n_reads + Top.n_reads
        BY <1>4, <4>3 DEF Frames
      <4> HIDE DEF fr
      <4>5. Last(t).N # -1 => Last(t).n_reads <= Last(t).N
        BY <4>1, <4>3, LastFrame DEF Stacked, Limits
      <4>6. fr.N # -1 => fr.n_reads <= fr.N
        BY <1>4, <1>5, <4>1, <4>3, <4>4, <4>5
      <4>7. Stacked(stack')
        BY <4>1, <4>2, <4>4, <4>6, TopChanged
      <4> QED
        BY <1>1, <3>1, <4>7
    <3> QED
      BY <3>2, <3>3
  <2> QED
    BY <2>1, <2>2, <2>3, <2>4
<1>8. Current' = Current /\ ScriptOps' = ScriptOps
  BY <1>1 DEF Current, ScriptOps
<1>9. ProgramTypes'
  BY <1>1, <1>7 DEF ProgramInv, ProgramTypes, Paired, Aside, Stacked
<1>10. AtWork'
  BY <1>1 DEF ProgramInv, AtWork, Aside
<1>11. OnScript'
  BY <1>1, <1>2, <1>8 DEF ProgramInv, OnScript, Aside
<1>12. OnFile'
  BY <1>1, <1>7 DEF OnFile, Stacked
<1> QED
  BY <1>9, <1>10, <1>11, <1>12 DEF ProgramInv

-----------------------------------------------------------------------------
(***************************************************************************)
(* A step of the program from one request to the next.                     *)
(***************************************************************************)
LEMMA BetweenInv ==
    ASSUME ProgramInv,
           Begin \/ PassOver \/ BeginFiles \/ BeginScan \/ ReadNDone \/ FilesDone \/ ScanDone
    PROVE  ProgramInv'
<1>1. /\ Aside /\ script' = script /\ calling' = calling
      /\ prog # "start" /\ prog' # "connecting" /\ (prog = "connecting" => ret.ok)
  <2>1. UNCHANGED sessionButSaved /\ IsClient /\ UNCHANGED <<user, argv>>
    BY DEF Begin, PassOver, BeginFiles, BeginScan, ReadNDone, FilesDone, ScanDone, AtRequest,
           sessionVars
  <2>2. Aside
    BY <2>1, AsideSteps
  <2> QED
    BY <2>2 DEF Begin, PassOver, BeginFiles, BeginScan, ReadNDone, FilesDone, ScanDone, AtRequest
<1>2. ~calling /\ script = <<>> /\ stack = <<>>
  <2>1. /\ prog \in {"files", "scan"} => script = <<>>
        /\ prog = "scan" => stack = <<>>
    BY DEF Begin, PassOver, BeginFiles, BeginScan, ReadNDone, FilesDone, ScanDone, AtRequest,
           ProgramInv, OnFile
  <2> QED
    BY <2>1 DEF ProgramInv, OnScript, OnFile
<1>3. ~Fatal(ret.errno)
  <2>1. prog = "readn" => ~CHECK_IF_FATAL_ERR
    BY DEF Begin, PassOver, BeginFiles, BeginScan, ReadNDone, FilesDone, ScanDone, AtRequest
  <2> QED
    BY <1>1, <1>2, <2>1 DEF ProgramInv, AtWork, CHECK_IF_FATAL_ERR, Fatal, Aside
<1>4. /\ request_q' \in Seq(Good) /\ Paired(request_q')
      /\ prog' \in {"files", "scan"} => request_q' = request_q /\ request_q # <<>>
      /\ prog' \in {"requests", "files", "scan"}
  <2>1. CASE Begin
    BY <2>1 DEF Begin, ProgramInv, ProgramTypes
  <2>2. CASE BeginFiles \/ BeginScan
    BY <2>2 DEF BeginFiles, BeginScan, AtRequest, ProgramInv, ProgramTypes
  <2>3. CASE PassOver
    <3>1. /\ request_q # <<>> /\ Current.opt \notin {"w", "W", "r", "R"} /\ prog' = "requests"
          /\ request_q' = Tail(request_q)
      BY <2>3 DEF PassOver, AtRequest
    <3> QED
      BY <3>1, PairedNext DEF ProgramInv, ProgramTypes
  <2>4. CASE ReadNDone \/ FilesDone \/ ScanDone
    <3>1. request_q # <<>> /\ prog' = "requests" /\ request_q' = GO_TO_NEXT
      BY <2>4 DEF ReadNDone, FilesDone, ScanDone, ProgramInv, OnScript
    <3> QED
      BY <3>1, PairedNext DEF ProgramInv, ProgramTypes
  <2> QED
    BY <2>1, <2>2, <2>3, <2>4
<1>5. CASE BeginFiles
  <2>1. /\ prog' = "files" /\ files' = Current.files /\ to_write' = <<>> /\ stack' = stack
        /\ Current.opt \in {"W", "r", "c"} /\ request_q # <<>> /\ request_q' = request_q
    BY <1>5 DEF BeginFiles, AtRequest
  <2>2. Current' = Current
    BY <2>1 DEF Current
  <2>3. Current \in Good
    BY <2>1, HeadTail DEF Current, ProgramInv, ProgramTypes
  <2>4. files' \in Seq(Files)
    BY <2>1, <2>3 DEF Good, Options
  <2>5. ProgramTypes'
    BY <1>1, <1>2, <1>4, <2>1, <2>4 DEF ProgramInv, ProgramTypes, Aside
  <2>6. AtWork'
    BY <1>1, <1>2, <1>3, <2>1 DEF ProgramInv, AtWork, Aside
  <2>7. OnScript'
    BY <1>1, <1>2, <2>1, <2>2 DEF OnScript, Aside
  <2>8. OnFile'
    BY <1>1, <1>2, <2>1 DEF ProgramInv, OnFile, Limits
  <2> QED
    BY <2>5, <2>6, <2>7, <2>8 DEF ProgramInv
<1>6. CASE BeginScan
  <2>1. /\ prog' = "scan" /\ files' = files /\ request_q # <<>> /\ request_q' = request_q
        /\ Current.opt = "w" /\ stack' = <<Frame(Tree[Current.dir], OrAll(Current.n))>>
    BY <1>6 DEF BeginScan, AtRequest
  <2>2. Current \in Good
    BY <2>1, HeadTail DEF Current, ProgramInv, ProgramTypes
  <2>3. /\ Tree[Current.dir] \in Seq(Entries)
        /\ OrAll(Current.n) \in Int /\ (OrAll(Current.n) # -1 => OrAll(Current.n) >= 0)
    BY <2>1, <2>2, ProgramAssumption DEF Good, Entries, OrAll
  <2> DEFINE fr == Frame(Tree[Current.dir], OrAll(Current.n))
  <2>4. fr \in Frames /\ (fr.N # -1 => fr.n_reads <= fr.N)
    BY <2>3 DEF Frame, Frames
  <2> HIDE DEF fr
  <2>5. Stacked(<<fr>>)
    BY <2>4 DEF Stacked, Limits
  <2>6. Stacked(stack')
    BY <2>1, <2>5 DEF fr
  <2>7. ProgramTypes'
    BY <1>1, <1>2, <1>4, <2>1, <2>6 DEF ProgramInv, ProgramTypes, Aside, Stacked
  <2>8. AtWork'
    BY <1>1, <1>2, <1>3, <2>1 DEF ProgramInv, AtWork, Aside
  <2>9. OnScript'
    BY <1>1, <1>2, <2>1 DEF OnScript, Aside
  <2>10. OnFile'
    BY <1>1, <1>2, <2>1, <2>6 DEF OnFile, Stacked
  <2> QED
    BY <2>7, <2>8, <2>9, <2>10 DEF ProgramInv
<1>7. CASE Begin \/ PassOver \/ ReadNDone \/ FilesDone \/ ScanDone
  <2>1. prog' = "requests" /\ files' = files /\ stack' = stack
    BY <1>7 DEF Begin, PassOver, ReadNDone, FilesDone, ScanDone, AtRequest
  <2>2. ProgramTypes'
    BY <1>1, <1>2, <1>4, <2>1 DEF ProgramInv, ProgramTypes, Aside
  <2>3. AtWork'
    BY <1>1, <1>2, <1>3, <2>1 DEF ProgramInv, AtWork, Aside
  <2>4. OnScript'
    BY <1>1, <1>2, <2>1 DEF OnScript, Aside
  <2>5. OnFile'
    BY <1>1, <1>2, <2>1 DEF ProgramInv, OnFile, Limits
  <2> QED
    BY <2>2, <2>3, <2>4, <2>5 DEF ProgramInv
<1> QED
  BY <1>5, <1>6, <1>7

-----------------------------------------------------------------------------
(***************************************************************************)
(* A step in which the process calls a function of the library.            *)
(***************************************************************************)
Dials == \/ pc' = "connect" /\ ret' = ret /\ ~Calling'
         \/ pc' = "idle" /\ ret'.ok = (ret'.errno = "0") /\ ~Fatal(ret'.errno) /\ ~Calling'

LEMMA Dialling ==
    ASSUME NEW sec, openConnection(sec) \/ closeConnection
    PROVE  pc = "idle" /\ Dials /\ (closeConnection => pc' = "idle")
<1>1. CASE openConnection(sec)
  <2>1. /\ pc = "idle"
        /\ \/ pc' = "idle" /\ ret' = [op |-> "CONNECT", ok |-> FALSE, errno |-> "EISCONN"]
           \/ pc' = "connect" /\ ret' = ret
    BY <1>1 DEF openConnection
  <2>2. pc' = "idle" => ret'.ok = FALSE /\ ret'.errno = "EISCONN"
    BY <2>1
  <2>3. pc' = "idle" => (ret'.ok = (ret'.errno = "0") /\ ~Fatal(ret'.errno))
    BY <2>2 DEF Fatal
  <2>4. ~Calling'
    BY <2>1 DEF Calling
  <2>5. closeConnection => pc' = "idle"
    BY <2>1 DEF closeConnection
  <2> QED
    BY <2>1, <2>3, <2>4, <2>5 DEF Dials
<1>2. CASE closeConnection
  <2>1. /\ pc = "idle" /\ pc' = "idle"
        /\ ret' = [op |-> "DISCONNECT", ok |-> TRUE, errno |-> "0"]
    BY <1>2 DEF closeConnection
  <2>2. ret'.ok = (ret'.errno = "0") /\ ~Fatal(ret'.errno) /\ ~Calling'
    BY <2>1 DEF Fatal, Calling
  <2> QED
    BY <2>1, <2>2 DEF Dials
<1> QED
  BY <1>1, <1>2

LEMMA ConnectInv == ASSUME ProgramInv, Connect \/ Disconnect PROVE ProgramInv'
<1>1. /\ user = "client" /\ prog \in {"start", "requests"} /\ user' = user /\ argv' = argv
      /\ files' = files /\ script' = script /\ calling' = calling /\ stack' = stack
      /\ Connect => prog' = "connecting"
      /\ Disconnect => prog' = "done"
  BY DEF Connect, Disconnect, IsClient
<1>2. Dials /\ (Disconnect => pc' = "idle")
  BY Dialling DEF Connect, Disconnect
<1>3. request_q' \in Seq(Good) /\ Paired(request_q')
  <2>1. CASE Connect
    BY <2>1, PairedRequests DEF Connect, ProgramInv
  <2>2. CASE Disconnect
    BY <2>2 DEF Disconnect, ProgramInv, ProgramTypes
  <2> QED
    BY <2>1, <2>2
<1>4. ProgramTypes'
  BY <1>1, <1>3 DEF ProgramInv, ProgramTypes
<1>5. ~calling /\ script = <<>> /\ stack = <<>>
  BY <1>1 DEF ProgramInv, OnScript, OnFile
<1>6. prog' \in {"connecting", "done"} /\ (pc' = "connect" => prog' = "connecting")
  BY <1>1, <1>2
<1>7. ~Calling' /\ (ret'.ok = (ret'.errno = "0")) /\ (pc' = "idle" => ~Fatal(ret'.errno))
  BY <1>2 DEF Dials, ProgramInv, AtWork
<1>8. AtWork'
  BY <1>1, <1>5, <1>6, <1>7 DEF AtWork
<1>9. OnScript' /\ OnFile'
  BY <1>1, <1>5, <1>6 DEF ProgramInv, OnScript, OnFile, Limits
<1> QED
  BY <1>4, <1>8, <1>9 DEF ProgramInv

LEMMA BeginReadNInv == ASSUME ProgramInv, BeginReadN PROVE ProgramInv'
<1> DEFINE c == Call("READ_N_FILES", NULL, FALSE, FALSE, OrAll(Current.n), exp_dir)
<1>1. /\ user = "client" /\ pc = "idle" /\ prog = "requests" /\ prog' = "readn" /\ user' = user
      /\ argv' = argv /\ request_q # <<>> /\ request_q' = request_q /\ files' = files
      /\ script' = script /\ calling' = calling /\ stack' = stack /\ BeginCall(c)
  BY DEF BeginReadN, AtRequest, IsClient
<1> HIDE DEF c
<1>2. /\ pc' # "connect" /\ (ret'.ok = (ret'.errno = "0"))
  <2>1. \/ pc' = "idle" /\ ret'.ok = (ret'.errno = "0")
        \/ pc' = "send" /\ ret' = ret
    BY <1>1, Begins
  <2> QED
    BY <2>1 DEF ProgramInv, AtWork
<1>3. ~calling /\ script = <<>> /\ stack = <<>>
  BY <1>1 DEF ProgramInv, OnScript, OnFile
<1>4. ProgramTypes'
  BY <1>1 DEF ProgramInv, ProgramTypes, Paired
<1>5. AtWork'
  BY <1>1, <1>2, <1>3 DEF AtWork
<1>6. OnScript' /\ OnFile'
  BY <1>1, <1>3 DEF ProgramInv, OnScript, OnFile, Limits
<1> QED
  BY <1>4, <1>5, <1>6 DEF ProgramInv

LEMMA CallNextInv == ASSUME ProgramInv, CallNext PROVE ProgramInv'
<1>1. /\ user = "client" /\ pc = "idle" /\ prog \in {"files", "scan"} /\ prog' = prog
      /\ user' = user /\ argv' = argv /\ request_q' = request_q /\ files' = files
      /\ to_write' = to_write /\ script' = script /\ calling' = TRUE /\ stack' = stack
      /\ script # <<>> /\ BeginCall(Head(script))
  BY DEF CallNext, IsClient
<1>2. \/ /\ pc' = "idle" /\ ret'.op = Head(script).op /\ ret'.ok = (ret'.errno = "0") /\ ~Calling'
      \/ pc' = "send" /\ call' = Head(script) /\ ret' = ret /\ Calling'
  BY <1>1, Begins
<1>3. ProgramTypes'
  BY <1>1 DEF ProgramInv, ProgramTypes, Paired
<1>4. AtWork'
  BY <1>1, <1>2 DEF ProgramInv, AtWork
<1>5. Current' = Current /\ ScriptOps' = ScriptOps
  BY <1>1 DEF Current, ScriptOps
<1>6. OnScript'
  <2>1. /\ pc' = "idle" => ret'.op = Head(script').op
        /\ Calling' => call'.op = Head(script').op
    BY <1>1, <1>2 DEF Calling
  <2> QED
    BY <1>1, <1>5, <2>1 DEF ProgramInv, OnScript
<1>7. OnFile'
  BY <1>1 DEF ProgramInv, OnFile, Limits, Top, Last
<1> QED
  BY <1>3, <1>4, <1>6, <1>7 DEF ProgramInv

LEMMA UserInv == ASSUME ProgramInv, UserStep PROVE ProgramInv'
<1>1. /\ user = "library" /\ pc = "idle" /\ user' = user /\ prog' = prog /\ argv' = argv
      /\ request_q' = request_q /\ files' = files /\ to_write' = to_write /\ script' = script
      /\ calling' = calling /\ stack' = stack
  BY DEF UserStep
<1>2. /\ prog = "start" /\ ~calling /\ script = <<>> /\ stack = <<>>
  BY <1>1 DEF ProgramInv, AtWork, OnFile
<1>3. ret'.ok = (ret'.errno = "0")
  <2>1. CASE \E c \in UserCalls : BeginCall(c)
    <3>1. PICK c : BeginCall(c)
      BY <2>1
    <3>2. ret'.ok = (ret'.errno = "0") \/ ret' = ret
      BY <1>1, <3>1, Begins
    <3> QED
      BY <3>2 DEF ProgramInv, AtWork
  <2>2. CASE openConnection(DefaultWait) \/ closeConnection
    BY <2>2, Dialling DEF Dials, ProgramInv, AtWork
  <2>3. CASE CloseUnconnected
    BY <2>3 DEF CloseUnconnected, Die, NoReturn
  <2> QED
    BY <2>1, <2>2, <2>3 DEF UserStep
<1>4. ProgramTypes'
  BY <1>1 DEF ProgramInv, ProgramTypes, Paired
<1>5. AtWork'
  BY <1>1, <1>2, <1>3 DEF AtWork
<1>6. OnScript' /\ OnFile'
  BY <1>1, <1>2 DEF ProgramInv, OnScript, OnFile, Limits
<1> QED
  BY <1>4, <1>5, <1>6 DEF ProgramInv

-----------------------------------------------------------------------------
(***************************************************************************)
(* The invariant.                                                          *)
(***************************************************************************)
LEMMA ProgramStepInv == ASSUME ProgramInv, [Next]_vars PROVE ProgramInv'
<1>1. CASE ProgramStep
  <2>1. CASE BadCommandLine \/ NotConnected \/ Finish \/ FatalError
    <3>1. Die /\ UNCHANGED progVars
      BY <2>1 DEF BadCommandLine, NotConnected, Finish, FatalError, Exit
    <3> QED
      BY <3>1, SeenSteps, SeenInv
  <2>2. CASE Connect \/ Disconnect
    BY <2>2, ConnectInv
  <2>3. CASE Begin \/ PassOver \/ BeginFiles \/ BeginScan \/ ReadNDone \/ FilesDone \/ ScanDone
    BY <2>3, BetweenInv
  <2>4. CASE BeginReadN
    BY <2>4, BeginReadNInv
  <2>5. CASE NextFile
    BY <2>5, NextFileInv
  <2>6. CASE CallNext
    BY <2>6, CallNextInv
  <2>7. CASE CallReturned
    BY <2>7, CallReturnedInv
  <2>8. CASE ScanFile \/ ScanSubdirectory \/ ScanFails \/ ScanReturns
    BY <2>8, ScanInv
  <2> QED
    BY <1>1, <2>1, <2>2, <2>3, <2>4, <2>5, <2>6, <2>7, <2>8 DEF ProgramStep
<1>2. CASE (LibraryStep \/ WorkerStep \/ Killed \/ ServerStops \/ ServerStarts)
              /\ UNCHANGED progVars
  BY <1>2, SeenSteps, SeenInv
<1>3. CASE UserStep
  BY <1>3, UserInv
<1>4. CASE UNCHANGED vars
  <2>1. Seen /\ UNCHANGED progVars
    BY <1>4 DEF vars, sessionVars, sessionButSaved, Seen
  <2> QED
    BY <2>1, SeenInv
<1> QED
  BY <1>1, <1>2, <1>3, <1>4 DEF Next

(***************************************************************************)
(* The client application is where it should be (execute_requests,         *)
(* rec_scan_dirs): the calls it makes, the files and the requests it has   *)
(* still to do and the limits of -w fit together.                          *)
(***************************************************************************)
THEOREM ProgramInvariant == Spec => []ProgramInv
<1>1. ProgramInv /\ [Next]_vars => ProgramInv'
  BY ProgramStepInv
<1> QED
  BY <1>1, InitInv, PTL DEF Spec

(***************************************************************************)
(* Whatever the command line, execute_requests never meets -d or -D as a   *)
(* request of its own (parse_options, validate_options, GO_TO_NEXT).       *)
(***************************************************************************)
THEOREM OptionsNeverAlone == Spec => []OptionsPaired
<1>1. ProgramInv => OptionsPaired
  BY PairedNext DEF ProgramInv, ProgramTypes, OptionsPaired
<1> QED
  BY <1>1, ProgramInvariant, PTL

-----------------------------------------------------------------------------
(***************************************************************************)
(* The program keeps to what a user of the library does in                 *)
(* ApiSessionProofs.                                                       *)
(***************************************************************************)
LEMMA ScriptCallOk == ASSUME NEW c \in Scripted PROVE CallOk(c)
  BY DEF Scripted, CallOk

LEMMA UserCallOk == ASSUME NEW c \in UserCalls PROVE CallOk(c)
<1>1. UserFiles \subseteq Files
  BY ProgramAssumption
<1>2. /\ c.path \in UserFiles \cup {NULL} /\ c.create \in BOOLEAN /\ c.lock \in BOOLEAN
      /\ c.n \in {0, 1}
  BY DEF UserCalls
<1>3. c.op \in OpCodes \cup {"LOCK_FILE", "UNLOCK_FILE"}
  BY DEF UserCalls, OpCodes
<1> QED
  BY <1>1, <1>2, <1>3 DEF CallOk

LEMMA ProgramStepSession == ASSUME ProgramInv, [Next]_vars PROVE [SessionStep]_sessionVars
<1>1. CASE Connect \/ Disconnect
  <2>1. pc = "idle" /\ user = "client" /\ prog \in {"start", "requests"}
    BY <1>1 DEF Connect, Disconnect, IsClient
  <2>2. ~Fatal(ret.errno)
    BY <2>1 DEF ProgramInv, AtWork, OnScript
  <2>3. UserCall
    BY <1>1 DEF Connect, Disconnect, UserCall
  <2> QED
    BY <2>1, <2>2, <2>3 DEF Goes, SessionStep
<1>2. CASE BeginReadN
  <2> DEFINE c == Call("READ_N_FILES", NULL, FALSE, FALSE, OrAll(Current.n), exp_dir)
  <2>1. pc = "idle" /\ user = "client" /\ prog = "requests" /\ request_q # <<>> /\ BeginCall(c)
    BY <1>2 DEF BeginReadN, AtRequest, IsClient
  <2>2. ~Fatal(ret.errno)
    BY <2>1 DEF ProgramInv, AtWork, OnScript
  <2>3. Current.n \in Nat
    BY <2>1, HeadTail DEF Current, ProgramInv, ProgramTypes, Good
  <2>4. CallOk(c)
    BY <2>3 DEF CallOk, Call, OrAll, OpCodes
  <2> HIDE DEF c
  <2> QED
    BY <2>1, <2>2, <2>4 DEF Goes, UserCall, SessionStep
<1>3. CASE CallNext
  <2>1. /\ pc = "idle" /\ user = "client" /\ prog \in {"files", "scan"} /\ ~calling
        /\ script # <<>> /\ BeginCall(Head(script))
    BY <1>3 DEF CallNext, IsClient
  <2>2. ~Fatal(ret.errno)
    BY <2>1 DEF ProgramInv, AtWork, OnScript
  <2>3. CallOk(Head(script))
    BY <2>1, HeadTail, ScriptCallOk DEF ProgramInv, ProgramTypes
  <2> QED
    BY <2>1, <2>2, <2>3 DEF Goes, UserCall, SessionStep
<1>4. CASE FilesDone
  <2>1. /\ pc = "idle" /\ prog = "files" /\ script = <<>> /\ UNCHANGED sessionButSaved
        /\ UNCHANGED saved \/ to_write # <<>>
    BY <1>4 DEF FilesDone, IsClient, KeepRead
  <2>2. CASE UNCHANGED saved
    BY <2>1, <2>2 DEF sessionVars
  <2>3. CASE to_write # <<>>
    <3>1. ret.op \in ReadOps
      BY <2>1, <2>3 DEF ProgramInv, OnScript
    <3>2. ~AnswersWithList(ret.op)
      BY <3>1 DEF ReadOps, AnswersWithList
    <3> QED
      BY <2>1, <3>2 DEF Keeps, SessionStep
  <2> QED
    BY <2>1, <2>2, <2>3
<1>5. CASE BadCommandLine \/ NotConnected \/ Finish \/ FatalError
  BY <1>5 DEF BadCommandLine, NotConnected, Finish, FatalError, Exit, SessionStep
<1>6. CASE Begin \/ PassOver \/ BeginFiles \/ BeginScan \/ ReadNDone \/ NextFile \/ CallReturned
             \/ ScanFile \/ ScanSubdirectory \/ ScanFails \/ ScanReturns \/ ScanDone
  <2>1. UNCHANGED sessionVars
    BY <1>6 DEF Begin, PassOver, BeginFiles, BeginScan, ReadNDone, NextFile, CallReturned, ScanFile,
                ScanSubdirectory, ScanFails, ScanReturns, ScanDone
  <2> QED
    BY <2>1
<1>7. CASE UserStep
  <2>1. Goes
    BY <1>7 DEF UserStep, Goes
  <2>2. CASE \E c \in UserCalls : BeginCall(c)
    BY <2>1, <2>2, UserCallOk DEF UserCall, SessionStep
  <2>3. CASE openConnection(DefaultWait) \/ closeConnection
    BY <2>1, <2>3 DEF UserCall, SessionStep
  <2>4. CASE CloseUnconnected
    BY <2>4 DEF CloseUnconnected, SessionStep
  <2> QED
    BY <1>7, <2>2, <2>3, <2>4 DEF UserStep
<1>8. CASE LibraryStep \/ WorkerStep \/ Killed \/ ServerStops \/ ServerStarts
  BY <1>8 DEF Killed, SessionStep
<1>9. CASE UNCHANGED vars
  BY <1>9 DEF vars
<1> QED
  BY <1>1, <1>2, <1>3, <1>4, <1>5, <1>6, <1>7, <1>8, <1>9 DEF Next, ProgramStep

(***************************************************************************)
(* The client application, and every other process that stops calling the  *)
(* library when its connection is lost, is one that the theorems of        *)
(* ApiSessionProofs are about: it makes no call but between two others, no *)
(* call after CHECK_IF_FATAL_ERR, and does not touch what a call has saved *)
(* while it may still be asked about it.                                   *)
(***************************************************************************)
THEOREM ProgramIsSession == Spec => SessionSpec
<1>1. Init => SessionInit
  BY DEF Init
<1>2. ProgramInv /\ [Next]_vars => [SessionStep]_sessionVars
  BY ProgramStepSession
<1> QED
  BY <1>1, <1>2, ProgramInvariant, PTL DEF Spec, SessionSpec

(***************************************************************************)
(* The client application and the server stay in step.                     *)
(***************************************************************************)
THEOREM ProgramInStep == Spec => []InStep
  BY ProgramIsSession, SessionSound, PTL

(***************************************************************************)
(* It is told what the server did.                                         *)
(***************************************************************************)
THEOREM ProgramOutcomeTold == Spec => []OutcomeTold
  BY ProgramIsSession, SessionSound, PTL

(***************************************************************************)
(* It loses no file that the server gives away, when the call succeeds.    *)
(***************************************************************************)
THEOREM ProgramNothingLost == Spec => []NothingLost
  BY ProgramIsSession, SessionSound, PTL

(***************************************************************************)
(* The server gets contents only from the creator of the file.             *)
(***************************************************************************)
THEOREM ProgramWriteAfterCreate == Spec => []WriteAfterCreate
  BY ProgramIsSession, SessionSound, PTL

-----------------------------------------------------------------------------
(***************************************************************************)
(* The limit of -w, across the recursion.                                  *)
(***************************************************************************)
\* The sums of the first k elements of w.
Sums(n, w, g) == \A k \in 0 .. n : g[k] = IF k = 0 THEN 0 ELSE g[k - 1] + w[k]

LEMMA SumsExist ==
    ASSUME NEW n \in Nat, NEW w \in [1 .. n -> Nat]
    PROVE  \E g \in [0 .. n -> Nat] : Sums(n, w, g)
<1> DEFINE T == {m \in 0 .. n : ~ \E g \in [0 .. m -> Nat] : Sums(m, w, g)}
<1> SUFFICES ASSUME T # {} PROVE FALSE
  <2>1. n \in 0 .. n
    OBVIOUS
  <2> QED
    BY <2>1
<1>1. PICK m \in T : \A y \in T : m <= y
  <2>1. T \subseteq Nat
    OBVIOUS
  <2> HIDE DEF T
  <2> QED
    BY <2>1, Least
<1>2. m \in 0 .. n /\ ~ \E g \in [0 .. m -> Nat] : Sums(m, w, g)
  OBVIOUS
<1>3. m # 0
  <2> SUFFICES ASSUME m = 0 PROVE FALSE
    OBVIOUS
  <2> DEFINE g == [k \in 0 .. 0 |-> 0]
  <2>1. g \in [0 .. m -> Nat] /\ Sums(m, w, g)
    BY DEF Sums
  <2> QED
    BY <1>2, <2>1
<1>4. m - 1 \in 0 .. n /\ ~(m <= m - 1) /\ m \in 1 .. n
  BY <1>2, <1>3
<1>5. PICK g \in [0 .. m - 1 -> Nat] : Sums(m - 1, w, g)
  BY <1>1, <1>4
<1> DEFINE h == [k \in 0 .. m |-> IF k = m THEN g[m - 1] + w[m] ELSE g[k]]
<1>6. /\ \A k \in 0 .. m : k # m => k \in 0 .. m - 1 /\ h[k] = g[k]
      /\ h[m] = g[m - 1] + w[m] /\ g[m - 1] \in Nat /\ w[m] \in Nat /\ m - 1 \in 0 .. m - 1
  BY <1>4
<1>7. h \in [0 .. m -> Nat]
  BY <1>4, <1>6
<1> HIDE DEF h
<1>8. Sums(m, w, h)
  <2>1. ASSUME NEW k \in 0 .. m PROVE h[k] = IF k = 0 THEN 0 ELSE h[k - 1] + w[k]
    <3>1. CASE k = m
      <4>1. m - 1 \in 0 .. m /\ m - 1 # m
        BY <1>4
      <4>2. h[m - 1] = g[m - 1]
        BY <1>6, <4>1
      <4> QED
        BY <1>3, <1>6, <3>1, <4>2
    <3>2. CASE k # m
      <4>1. k \in 0 .. m - 1 /\ h[k] = g[k]
        BY <1>6, <3>2
      <4>2. g[k] = IF k = 0 THEN 0 ELSE g[k - 1] + w[k]
        BY <1>5, <4>1 DEF Sums
      <4>3. k # 0 => k - 1 \in 0 .. m /\ k - 1 # m
        BY <1>4, <4>1
      <4>4. k # 0 => h[k - 1] = g[k - 1]
        BY <1>6, <4>3
      <4> QED
        BY <4>1, <4>2, <4>4
    <3> QED
      BY <3>1, <3>2
  <2> QED
    BY <2>1 DEF Sums
<1> QED
  BY <1>2, <1>7, <1>8

\* What the innermost k invocations have counted.
LEMMA InnermostSums ==
    ASSUME stack \in Seq(Frames)
    PROVE  /\ innermost[0] = 0
           /\ \A k \in 1 .. Len(stack) :
                 innermost[k] = innermost[k - 1] + stack[(Len(stack) - k) + 1].n_reads
           /\ \A k \in 0 .. Len(stack) : innermost[k] \in Nat
<1> DEFINE n == Len(stack)
           w == [k \in 1 .. n |-> stack[(n - k) + 1].n_reads]
<1>1. n \in Nat /\ \A k \in 1 .. n : (n - k) + 1 \in 1 .. n
  OBVIOUS
<1>2. \A k \in 1 .. n : stack[(n - k) + 1] \in Frames
  BY <1>1
<1>3. w \in [1 .. n -> Nat]
  BY <1>2 DEF Frames
<1> HIDE DEF w
<1>4. PICK g \in [0 .. n -> Nat] : Sums(n, w, g)
  BY <1>1, <1>3, SumsExist
<1>5. g = [k \in 0 .. n |-> IF k = 0 THEN 0 ELSE g[k - 1] + stack[(n - k) + 1].n_reads]
  <2>1. \A k \in 0 .. n : g[k] = IF k = 0 THEN 0 ELSE g[k - 1] + stack[(n - k) + 1].n_reads
    <3> SUFFICES ASSUME NEW k \in 0 .. n
                 PROVE  g[k] = IF k = 0 THEN 0 ELSE g[k - 1] + stack[(n - k) + 1].n_reads
      OBVIOUS
    <3>1. k # 0 => k \in 1 .. n
      OBVIOUS
    <3>2. k # 0 => w[k] = stack[(n - k) + 1].n_reads
      BY <3>1 DEF w
    <3> QED
      BY <1>4, <3>2 DEF Sums
  <2> QED
    BY <2>1
<1>6. innermost = [k \in 0 .. n |-> IF k = 0 THEN 0
                                    ELSE innermost[k - 1] + stack[(n - k) + 1].n_reads]
  <2> DEFINE F(f) == [k \in 0 .. n |-> IF k = 0 THEN 0
                                      ELSE f[k - 1] + stack[(n - k) + 1].n_reads]
  <2>1. innermost = CHOOSE f : f = F(f)
    BY DEF innermost
  <2>2. \E f : f = F(f)
    BY <1>5
  <2> HIDE DEF F
  <2>3. innermost = F(innermost)
    BY <2>1, <2>2
  <2> QED
    BY <2>3 DEF F
<1> DEFINE f == innermost
<1> HIDE DEF f
<1>7. f = [k \in 0 .. n |-> IF k = 0 THEN 0 ELSE f[k - 1] + stack[(n - k) + 1].n_reads]
  BY <1>6 DEF f
<1>8. /\ f[0] = 0
      /\ \A k \in 1 .. n : f[k] = f[k - 1] + stack[(n - k) + 1].n_reads
  <2>1. 0 \in 0 .. n /\ \A k \in 1 .. n : k \in 0 .. n /\ k # 0
    BY <1>1
  <2> QED
    BY <1>7, <2>1
<1>9. \A k \in 0 .. n : f[k] \in Nat
  <2> DEFINE T == {k \in 0 .. n : f[k] \notin Nat}
  <2> SUFFICES ASSUME T # {} PROVE FALSE
    OBVIOUS
  <2>1. PICK m \in T : \A y \in T : m <= y
    <3>1. T \subseteq Nat
      OBVIOUS
    <3> HIDE DEF T
    <3> QED
      BY <3>1, Least
  <2>2. m \in 0 .. n /\ f[m] \notin Nat
    OBVIOUS
  <2>3. m # 0
    BY <1>8, <2>2
  <2>4. m \in 1 .. n /\ m - 1 \in 0 .. n /\ ~(m <= m - 1)
    BY <2>2, <2>3
  <2>5. f[m - 1] \in Nat
    BY <2>1, <2>4
  <2>6. stack[(n - m) + 1].n_reads \in Nat
    BY <1>2, <2>4 DEF Frames
  <2>7. f[m] = f[m - 1] + stack[(n - m) + 1].n_reads
    BY <1>8, <2>4
  <2> QED
    BY <2>2, <2>5, <2>6, <2>7
<1> QED
  BY <1>8, <1>9 DEF f

\* What the limit of an invocation leaves for those inside it.
LEMMA AtMost ==
    ASSUME NEW a \in Nat, NEW b \in Nat, NEW n \in Int, b <= n, NEW r, r = n - b,
           r # -1 => a <= r
    PROVE  a + b <= n
  OBVIOUS

LEMMA QuotaKept == ASSUME stack \in Seq(Frames), Limits(stack) PROVE CountedWithinQuota
<1> DEFINE n == Len(stack)
           f == innermost
<1> HIDE DEF f
<1>1. /\ n \in Nat /\ f[0] = 0
      /\ \A k \in 1 .. n : f[k] = f[k - 1] + stack[(n - k) + 1].n_reads
      /\ \A k \in 0 .. n : f[k] \in Nat
  BY InnermostSums DEF f
<1>2. \A i \in 1 .. n : stack[i].N \in Int /\ stack[i].n_reads \in Nat
  <2>1. \A i \in 1 .. n : stack[i] \in Frames
    OBVIOUS
  <2> QED
    BY <2>1 DEF Frames
<1> DEFINE Q(k) == stack[(n - k) + 1].N # -1 => f[k] <= stack[(n - k) + 1].N
           T == {k \in 1 .. n : ~Q(k)}
<1>3. T = {}
  <2> SUFFICES ASSUME T # {} PROVE FALSE
    OBVIOUS
  <2>1. PICK m \in T : \A y \in T : m <= y
    <3>1. T \subseteq Nat
      OBVIOUS
    <3> HIDE DEF T
    <3> QED
      BY <3>1, Least
  <2> DEFINE i == (n - m) + 1
  <2>2. m \in 1 .. n /\ ~Q(m)
    OBVIOUS
  <2>3. i \in 1 .. n /\ stack[i].N # -1 /\ ~(f[m] <= stack[i].N)
    BY <1>1, <2>2
  <2>4. f[m] = f[m - 1] + stack[i].n_reads
    BY <1>1, <2>2
  <2>5. stack[i].n_reads <= stack[i].N
    BY <2>3 DEF Limits
  <2>6. CASE m = 1
    BY <1>1, <1>2, <2>3, <2>4, <2>5, <2>6
  <2>7. CASE m # 1
    <3>1. /\ m - 1 \in 1 .. n /\ ~(m <= m - 1) /\ (n - (m - 1)) + 1 = i + 1
          /\ i \in 1 .. n - 1 /\ i + 1 \in 1 .. n /\ m - 1 \in 0 .. n
      BY <1>1, <2>2, <2>7
    <3>2. m - 1 \notin T
      BY <2>1, <3>1
    <3>3. Q(m - 1)
      BY <3>1, <3>2
    <3>4. stack[i + 1].N # -1 => f[m - 1] <= stack[i + 1].N
      BY <3>1, <3>3
    <3>5. stack[i + 1].N = stack[i].N - stack[i].n_reads
      BY <2>3, <3>1 DEF Limits
    <3>6. stack[i].N \in Int /\ stack[i].n_reads \in Nat /\ f[m - 1] \in Nat
      BY <1>1, <1>2, <2>3, <3>1
    <3> DEFINE inner == f[m - 1]
               own == stack[i].n_reads
               most == stack[i].N
               rest == stack[i + 1].N
    <3>7. /\ inner \in Nat /\ own \in Nat /\ most \in Int /\ own <= most
          /\ rest = most - own /\ (rest # -1 => inner <= rest)
      BY <2>5, <3>4, <3>5, <3>6
    <3>8. inner + own <= most
      <4> HIDE DEF inner, own, most, rest, T, i
      <4> QED
        BY <3>7, AtMost
    <3> QED
      BY <2>3, <2>4, <3>8
  <2> QED
    BY <2>6, <2>7
<1>4. ASSUME NEW i \in DOMAIN stack, stack[i].N # -1 PROVE Counted(i) <= stack[i].N
  <2>1. i \in 1 .. n /\ (n - i) + 1 \in 1 .. n /\ (n - ((n - i) + 1)) + 1 = i
    BY <1>1
  <2>2. Q((n - i) + 1)
    BY <1>3, <2>1
  <2>3. f[(n - i) + 1] <= stack[i].N
    BY <1>4, <2>1, <2>2
  <2> QED
    BY <2>3 DEF Counted, f
<1> QED
  BY <1>4 DEF CountedWithinQuota

(***************************************************************************)
(* Whatever the directory tree and wherever calls fail, rec_scan_dirs      *)
(* counts no more files than -w asks for.                                  *)
(***************************************************************************)
THEOREM QuotaHolds == Spec => []CountedWithinQuota
<1>1. ProgramInv => CountedWithinQuota
  BY QuotaKept DEF ProgramInv, ProgramTypes, OnFile
<1> QED
  BY <1>1, ProgramInvariant, PTL

=============================================================================
