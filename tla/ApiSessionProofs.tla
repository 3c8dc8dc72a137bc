-------------------------- MODULE ApiSessionProofs --------------------------
(***************************************************************************)
(* The two ends of a connection stay in step, whatever program uses the    *)
(* library, whatever the server decides and sends, and wherever a process  *)
(* ends.  SessionStep is a step of any such program.                       *)
(***************************************************************************)
EXTENDS ApiSession, SequenceTheorems, TLAPS

\* A call that a program may make; only the directory can be anything.
CallOk(c) == /\ c.op \in OpCodes \cup {"LOCK_FILE", "UNLOCK_FILE"}
             /\ c.path \in Files \cup {NULL}
             /\ c.create \in BOOLEAN /\ c.lock \in BOOLEAN /\ c.n \in Int

RequestOk(c) == CallOk(c) /\ c.op \in OpCodes /\ (c.op # "READ_N_FILES" => c.path \in Files)

\* No program goes on after an error that ends the connection, and what it keeps
\* on its own account is not what a list of files has been saved to.
Goes == pc = "idle" /\ ~Fatal(ret.errno)
Keeps == pc = "idle" /\ ~AnswersWithList(ret.op) /\ UNCHANGED sessionButSaved
UserCall == \/ \E c : CallOk(c) /\ BeginCall(c)
            \/ \E sec : openConnection(sec)
            \/ closeConnection

SessionStep == \/ LibraryStep \/ WorkerStep \/ ServerStops \/ ServerStarts
               \/ Goes /\ UserCall
               \/ Die \/ Keeps \/ UNCHANGED sessionVars

-----------------------------------------------------------------------------
(***************************************************************************)
(* Types.                                                                  *)
(***************************************************************************)
Flags == [create : BOOLEAN, lock : BOOLEAN]
Values == OpCodes \cup Verdicts \cup Files \cup {NULL} \cup Int \cup Flags
Kinds == {"op", "path", "flags", "size", "data", "n", "res"}
M == [kind : Kinds, value : Values]

Places == {"idle", "connect", "send", "result", "size", "contents", "lpath", "lsize", "ldata",
           "final", "save", "dead"}
JobT == [pc : {"idle", "read", "list", "write", "close"}, op : OpCodes \cup {NULL},
         want : Seq(Kinds), args : Seq(Values), res : Verdicts \cup {NULL}, out : Seq(M),
         left : SUBSET Stored]

SessionTypes ==
    /\ fd_sock \in BOOLEAN /\ listening \in BOOLEAN
    /\ last_op \in [is_open : BOOLEAN, create : BOOLEAN, lock : BOOLEAN, success : BOOLEAN,
                    path : Files \cup {NULL}]
    /\ pc \in Places
    /\ out \in Seq(M) /\ c2s \in Seq(M) /\ s2c \in Seq(M) /\ got \in Seq(Values)
    /\ item \in Values
    /\ clientEnd \in {"none", "open", "closed"} /\ serverEnd \in {"none", "open", "closed"}
    /\ job \in JobT
    /\ served \in Verdicts \cup {NULL} /\ sent \subseteq Stored /\ opened \in Files \cup {NULL}

\* In a function of the library; before and after the handler has decided.
Calling == pc \notin {"idle", "connect", "dead"}
Asked == Calling /\ served = NULL
Answered == Calling /\ served # NULL
Rest == pc = "connect" \/ Goes

Ends == /\ job.pc # "idle" => serverEnd = "open"
        /\ job.pc \notin {"list", "write"} => job.out = <<>>
        /\ fd_sock => clientEnd = "open"
        /\ Calling => fd_sock /\ RequestOk(call)
        /\ pc = "connect" => serverEnd # "open"
        /\ pc = "idle" /\ Fatal(ret.errno) => serverEnd = "closed" \/ (c2s = <<>> /\ job.pc # "read")

-----------------------------------------------------------------------------
(***************************************************************************)
(* A request: c is the call whose fields are under way.  Of them the       *)
(* worker, j, has taken some, the next, q, are in the stream, the last, o, *)
(* are still to be written.  w is the file that was opened before.         *)
(***************************************************************************)
Taken(j) == IF j.pc = "read" THEN 1 + Len(j.args) ELSE 0
UnderWay(q, o, j) == (Taken(j) + Len(q)) + Len(o)

\* w is what writeFile asks for.
MayWrite(path, w) == w = path \/ (w # NULL /\ <<path, w>> \in PrefixOf)

Taking(c, j) == /\ j.op = c.op
                /\ \A i \in 1 .. Len(j.args) : j.args[i] = Request(c)[i + 1].value
                /\ \/ j.want = <<>> /\ Taken(j) = Len(Request(c))
                   \/ /\ Len(j.want) + Len(j.args) = Len(Fields(c.op))
                      /\ \A k \in 1 .. Len(j.want) :
                            j.want[k] = Fields(c.op)[Len(j.args) + k]

Flow(c, q, o, j, w) ==
    /\ RequestOk(c)
    /\ UnderWay(q, o, j) <= Len(Request(c))
    /\ \A i \in 1 .. Len(q) : q[i] = Request(c)[Taken(j) + i]
    /\ \A i \in 1 .. Len(o) : o[i] = Request(c)[(Taken(j) + Len(q)) + i]
    /\ j.pc = "read" => Taking(c, j)
    /\ c.op = "WRITE_FILE" /\ UnderWay(q, o, j) > 0 => MayWrite(c.path, w)

Flows == \E c : Flow(c, c2s, out, job, opened)

AskedOk == Asked =>
    /\ Flow(call, c2s, out, job, opened)
    /\ UnderWay(c2s, out, job) = Len(Request(call))
    /\ pc \in {"send", "result"} /\ (pc = "send" <=> out # <<>>)
    /\ got = <<>> /\ sent = {} /\ s2c = <<>> /\ job.out = <<>>
    /\ job.pc \in {"idle", "read", "write"}
    /\ job.pc = "write" => ~EndsConnection(job.res)

\* Nothing is under way unless a call is.
QuietOk == /\ ~Asked => out = <<>>
           /\ Rest \/ Answered => c2s = <<>> /\ job.pc # "read"
           /\ Rest => /\ s2c = <<>> /\ job.out = <<>>
                      /\ job.pc # "list"
                      /\ job.pc = "write" => ~EndsConnection(job.res)
                      /\ job.pc = "close" => clientEnd # "open"

-----------------------------------------------------------------------------
(***************************************************************************)
(* An answer to an operation op: a is what the library, at p, has still to *)
(* read of what was written so far; v was decided and the files S chosen.  *)
(***************************************************************************)
WithFiles(op) == AnswersWithFile(op) \/ AnswersWithList(op)

\* The kind that comes first, and the kind that comes after a field.
Due(p, it) == CASE p \in {"result", "final"} -> "res"
                [] p \in {"size", "lsize"}   -> "size"
                [] p = "ldata"               -> "data"
                [] p = "contents"            -> IF it = 0 THEN "res" ELSE "data"
                [] p = "lpath"               -> "path"
                [] OTHER                     -> "none"
AfterFile(op) == IF AnswersWithFile(op) THEN "res" ELSE "path"
After(op, m) == CASE m.kind = "res"  -> IF AnswersWithFile(op) THEN "size" ELSE "path"
                  [] m.kind = "path" -> IF m.value = NULL THEN "res" ELSE "size"
                  [] m.kind = "size" -> IF m.value = 0 THEN AfterFile(op) ELSE "data"
                  [] OTHER           -> AfterFile(op)

\* After it another file, or the end of the list, may come.
Closed(m) == m.kind \in {"res", "data"} \/ (m.kind = "size" /\ m.value = 0)

\* How the library goes on when it has read m.
ReadsOn(p, it, op, m, p2, it2) ==
    \/ /\ p = "result" /\ WithFiles(op) /\ m.value = "SUCCESS"
       /\ p2 = IF AnswersWithFile(op) THEN "size" ELSE "lpath"
    \/ p = "size" /\ p2 = "contents" /\ it2 = m.value
    \/ p = "contents" /\ it # 0 /\ p2 = "final"
    \/ p = "lpath" /\ it2 = m.value /\ p2 = IF m.value = NULL THEN "final" ELSE "lsize"
    \/ p = "lsize" /\ p2 = IF m.value = 0 THEN "lpath" ELSE "ldata"
    \/ p = "ldata" /\ p2 = "lpath"
    \/ p = "final" /\ p2 = "save" /\ AnswersWithList(op)

Told(m, i, a, p, op, v, S) ==
    /\ m.kind \in {"res", "path", "size", "data"}
    /\ m.kind = "res" => m.value = v
    /\ m.kind = "res" /\ i < Len(a) => i = 1 /\ p = "result" /\ v = "SUCCESS" /\ WithFiles(op)
    /\ m.kind = "path" => m.value = NULL \/ m.value \in S

Answering(a, p, it, op, v, S) ==
    /\ p # "send"
    /\ p # "result" => v = "SUCCESS" /\ WithFiles(op)
    /\ p \in {"size", "contents"} => AnswersWithFile(op)
    /\ p \in {"lpath", "lsize", "ldata", "save"} => AnswersWithList(op)
    /\ a # <<>> => a[1].kind = Due(p, it)
    /\ \A i \in 1 .. Len(a) - 1 : a[i + 1].kind = After(op, a[i])
    /\ \A i \in 1 .. Len(a) : Told(a[i], i, a, p, op, v, S)

\* More files may come.
Listing(a, p, op, v) ==
    /\ AnswersWithList(op) /\ v = "SUCCESS"
    /\ p \in {"result", "lpath", "lsize", "ldata"}
    /\ \A i \in 1 .. Len(a) : /\ a[i].kind = "path" => a[i].value # NULL
                              /\ a[i].kind = "res" => i = 1 /\ p = "result"
    /\ a = <<>> => p = "lpath"
    /\ a # <<>> => Closed(a[Len(a)])

Ahead == s2c \o job.out

AnsweredOk == Answered =>
    /\ Answering(Ahead, pc, item, call.op, served, sent)
    /\ job.pc = "list" => Listing(Ahead, pc, call.op, served)
    /\ job.pc \in {"list", "write"} => job.res = served
    /\ job.pc = "close" => EndsConnection(served)

-----------------------------------------------------------------------------
(***************************************************************************)
(* Files on their way: each file sent is still to be written (L), or to be *)
(* read, or in the list g, or saved in d, unless one with its base name    *)
(* is.                                                                     *)
(***************************************************************************)
Kept(f, d, S) == \E g \in S : BaseName[g] = BaseName[f] /\ <<BaseName[g], g>> \in d
OnItsWay(f, a, p, it, g, d, L, S) ==
    \/ f \in L
    \/ \E i \in 1 .. Len(a) : a[i].kind = "path" /\ a[i].value = f
    \/ p = "lsize" /\ it = f
    \/ \E i \in 1 .. Len(g) : g[i] = f
    \/ Kept(f, d, S)

Carried(a, p, it, g, d, L, S) ==
    /\ \A f \in S : OnItsWay(f, a, p, it, g, d, L, S)
    /\ \A i \in 1 .. Len(g) : g[i] \in S
    /\ p = "lsize" => it \in S
    /\ L \subseteq S

Left == IF job.pc = "list" THEN job.left ELSE {}
FilesOk == Answered /\ AnswersWithList(call.op) =>
    Carried(Ahead, pc, item, got, saved, Left, sent)

\* What last_op says of the last request that the server has served.
OpenOk ==
    /\ Rest /\ last_op.is_open /\ last_op.create /\ last_op.lock /\ last_op.success
          => opened = last_op.path
    /\ Calling /\ call.op # "OPEN_FILE" => last_op = NoOp
    /\ Calling /\ call.op = "OPEN_FILE" /\ pc = "result" =>
          /\ last_op = [is_open |-> TRUE, create |-> call.create, lock |-> call.lock,
                        success |-> FALSE, path |-> call.path]
          /\ served = "SUCCESS" /\ call.create /\ call.lock => opened = call.path

SessionCore == /\ Ends /\ Flows /\ AskedOk /\ QuietOk /\ AnsweredOk /\ FilesOk /\ OpenOk
               /\ OutcomeTold /\ NothingLost
SessionInv == SessionTypes /\ SessionCore

-----------------------------------------------------------------------------
(***************************************************************************)
(* Sequences.                                                              *)
(***************************************************************************)
LEMMA SeqAt ==
    ASSUME NEW S, NEW s \in Seq(S), NEW t \in Seq(S)
    PROVE  /\ s \o t \in Seq(S) /\ Len(s \o t) = Len(s) + Len(t)
           /\ \A i \in 1 .. Len(s \o t) : (s \o t)[i] = IF i <= Len(s) THEN s[i] ELSE t[i - Len(s)]
  OBVIOUS

\* A field goes from a writer to the stream: nothing changes for the reader.
LEMMA SeqMove ==
    ASSUME NEW S, NEW s \in Seq(S), NEW t \in Seq(S), t # <<>>
    PROVE  Append(s, Head(t)) \o Tail(t) = s \o t
<1> DEFINE a == Append(s, Head(t))
           b == Tail(t)
<1>1. a \in Seq(S) /\ b \in Seq(S) /\ Len(a) = Len(s) + 1 /\ Len(b) = Len(t) - 1 /\ Len(t) > 0
  OBVIOUS
<1>2. \A i \in 1 .. Len(a) : a[i] = IF i <= Len(s) THEN s[i] ELSE t[1]
  OBVIOUS
<1>3. \A i \in 1 .. Len(b) : b[i] = t[i + 1]
  OBVIOUS
<1> HIDE DEF a, b
<1>4. Len(a \o b) = Len(s \o t) /\ a \o b \in Seq(S) /\ s \o t \in Seq(S)
  <2>1. a \o b \in Seq(S) /\ Len(a \o b) = Len(a) + Len(b)
    BY <1>1, SeqAt
  <2>2. s \o t \in Seq(S) /\ Len(s \o t) = Len(s) + Len(t)
    BY SeqAt
  <2>3. Len(s) \in Nat /\ Len(t) \in Nat
    OBVIOUS
  <2> QED
    BY <1>1, <2>1, <2>2, <2>3
<1>5. \A i \in 1 .. Len(a \o b) : (a \o b)[i] = (s \o t)[i]
  <2> SUFFICES ASSUME NEW i \in 1 .. Len(a \o b) PROVE (a \o b)[i] = (s \o t)[i]
    OBVIOUS
  <2>1. (a \o b)[i] = IF i <= Len(a) THEN a[i] ELSE b[i - Len(a)]
    BY <1>1, SeqAt
  <2>2. (s \o t)[i] = IF i <= Len(s) THEN s[i] ELSE t[i - Len(s)]
    BY <1>4, SeqAt
  <2>3. Len(a \o b) = Len(a) + Len(b)
    BY <1>1, SeqAt
  <2>4. Len(s) \in Nat /\ Len(t) \in Nat
    OBVIOUS
  <2>5. CASE i <= Len(s)
    BY <1>1, <1>2, <2>1, <2>2, <2>3, <2>4, <2>5
  <2>6. CASE i = Len(s) + 1
    BY <1>1, <1>2, <2>1, <2>2, <2>3, <2>4, <2>6
  <2>7. CASE i > Len(s) + 1
    <3>1. (a \o b)[i] = b[i - Len(a)] /\ i - Len(a) \in 1 .. Len(b)
      BY <1>1, <2>1, <2>3, <2>4, <2>7
    <3>2. b[i - Len(a)] = t[(i - Len(a)) + 1] /\ (i - Len(a)) + 1 = i - Len(s)
      BY <1>1, <1>3, <2>4, <3>1
    <3> QED
      BY <2>2, <2>4, <2>7, <3>1, <3>2
  <2>8. i \in Int
    BY <1>1, <2>3, <2>4
  <2>9. i <= Len(s) \/ i = Len(s) + 1 \/ i > Len(s) + 1
    BY <2>4, <2>8
  <2> QED
    BY <2>5, <2>6, <2>7, <2>9
<1>6. a \o b = s \o t
  BY <1>4, <1>5, SeqEqual
<1> QED
  BY <1>6 DEF a, b

\* A reader takes the first field of the stream.
LEMMA SeqTake ==
    ASSUME NEW S, NEW s \in Seq(S), NEW t \in Seq(S), s # <<>>
    PROVE  /\ s \o t # <<>> /\ (s \o t)[1] = Head(s)
           /\ Tail(s) \o t = Tail(s \o t)
<1>1. s \o t \in Seq(S) /\ Len(s \o t) = Len(s) + Len(t) /\ Len(s) > 0
  BY SeqAt
<1>2. Tail(s) \in Seq(S) /\ Len(Tail(s)) = Len(s) - 1 /\ \A i \in 1 .. Len(s) - 1 : Tail(s)[i] = s[i + 1]
  BY <1>1
<1>3. (s \o t)[1] = s[1] /\ s \o t # <<>>
  BY <1>1, SeqAt
<1>4. Tail(s \o t) \in Seq(S) /\ Len(Tail(s \o t)) = Len(s \o t) - 1
      /\ \A i \in 1 .. Len(s \o t) - 1 : Tail(s \o t)[i] = (s \o t)[i + 1]
  BY <1>1, <1>3
<1>5. Tail(s) \o t \in Seq(S) /\ Len(Tail(s) \o t) = Len(s \o t) - 1
  BY <1>1, <1>2, SeqAt
<1>6. \A i \in 1 .. Len(Tail(s) \o t) : (Tail(s) \o t)[i] = Tail(s \o t)[i]
  <2> SUFFICES ASSUME NEW i \in 1 .. Len(s \o t) - 1 PROVE (Tail(s) \o t)[i] = Tail(s \o t)[i]
    BY <1>5
  <2>1. (Tail(s) \o t)[i] = IF i <= Len(s) - 1 THEN s[i + 1] ELSE t[i - (Len(s) - 1)]
    BY <1>1, <1>2, <1>5, SeqAt
  <2>2. (s \o t)[i + 1] = IF i + 1 <= Len(s) THEN s[i + 1] ELSE t[(i + 1) - Len(s)]
    BY <1>1, SeqAt
  <2> QED
    BY <1>1, <1>4, <2>1, <2>2
<1>7. Tail(s) \o t = Tail(s \o t)
  BY <1>4, <1>5, <1>6, SeqEqual
<1> QED
  BY <1>3, <1>7

-----------------------------------------------------------------------------
(***************************************************************************)
(* The fields that a function writes are those that its handler reads;     *)
(* the contents are missing in both when their size is 0.                  *)
(***************************************************************************)
HasData(op) == op \in {"WRITE_FILE", "APPEND_TO_FILE"}

Pathed(op) == op \in {"CLOSE_FILE", "READ_FILE", "REMOVE_FILE"}

LEMMA FieldsOf ==
    ASSUME NEW op \in OpCodes
    PROVE  /\ Fields(op) \in Seq(Kinds)
           /\ HasData(op) => Fields(op) = <<"path", "size", "data">>
           /\ op = "OPEN_FILE" => Fields(op) = <<"path", "flags">>
           /\ op = "READ_N_FILES" => Fields(op) = <<"n">>
           /\ Pathed(op) => Fields(op) = <<"path">>
<1>1. HasData(op) => Fields(op) = <<"path", "size", "data">>
  BY DEF Fields, HasData
<1>2. op = "OPEN_FILE" => Fields(op) = <<"path", "flags">>
  BY DEF Fields
<1>3. op = "READ_N_FILES" => Fields(op) = <<"n">>
  BY DEF Fields
<1>4. Pathed(op) => Fields(op) = <<"path">>
  BY DEF Fields, Pathed
<1>5. HasData(op) \/ op = "OPEN_FILE" \/ op = "READ_N_FILES" \/ Pathed(op)
  BY DEF OpCodes, HasData, Pathed
<1>6. /\ <<"path", "size", "data">> \in Seq(Kinds) /\ <<"path", "flags">> \in Seq(Kinds)
      /\ <<"n">> \in Seq(Kinds) /\ <<"path">> \in Seq(Kinds)
  BY DEF Kinds
<1> QED
  BY <1>1, <1>2, <1>3, <1>4, <1>5, <1>6

LEMMA MsgOf ==
    ASSUME NEW k, NEW v
    PROVE  /\ Msg(k, v).kind = k /\ Msg(k, v).value = v
           /\ k \in Kinds /\ v \in Values => Msg(k, v) \in M
  BY DEF Msg, M

LEMMA ContentsOf ==
    ASSUME NEW n \in Int
    PROVE  /\ Contents(n) \in Seq(M)
           /\ n = 0 => Len(Contents(n)) = 0
           /\ n # 0 => Len(Contents(n)) = 1 /\ Contents(n)[1] = Msg("data", n)
<1>1. Msg("data", n) \in M
  BY MsgOf DEF Kinds, Values
<1> QED
  BY <1>1 DEF Contents

Requested(c, r) ==
    /\ r \in Seq(M) /\ r[1] = Msg("op", c.op)
    /\ c.op = "OPEN_FILE" => /\ Len(r) = 3 /\ r[2] = Msg("path", c.path)
                             /\ r[3] = Msg("flags", [create |-> c.create, lock |-> c.lock])
    /\ HasData(c.op) => \E n \in Int :
          /\ Len(r) = IF n = 0 THEN 3 ELSE 4
          /\ r[2] = Msg("path", c.path) /\ r[3] = Msg("size", n)
          /\ n # 0 => r[4] = Msg("data", n)
    /\ c.op = "READ_N_FILES" => Len(r) = 2 /\ r[2] = Msg("n", c.n)
    /\ Pathed(c.op) => Len(r) = 2 /\ r[2] = Msg("path", c.path)

LEMMA RequestOf == ASSUME NEW c, RequestOk(c) PROVE Requested(c, Request(c))
<1> DEFINE r == Request(c)
<1> HIDE DEF r
<1> DEFINE o == Msg("op", c.op)
           p == Msg("path", c.path)
           g == Msg("flags", [create |-> c.create, lock |-> c.lock])
           k == Msg("n", c.n)
           z(n) == Msg("size", n)
<1>1. /\ o \in M /\ p \in M /\ g \in M /\ k \in M /\ \A n \in Int : z(n) \in M
  BY MsgOf DEF RequestOk, CallOk, Kinds, Values, Flags
<1>2. ASSUME NEW t \in Seq(M), r = <<o>> \o t
      PROVE  /\ r \in Seq(M) /\ Len(r) = Len(t) + 1 /\ r[1] = o
             /\ \A i \in 1 .. Len(t) : r[i + 1] = t[i]
  <2> HIDE DEF o
  <2>1. <<o>> \in Seq(M) /\ Len(<<o>>) = 1 /\ <<o>>[1] = o
    BY <1>1
  <2> QED
    BY <1>2, <2>1, SeqAt
<1>3. ASSUME NEW n \in Int, r = <<o>> \o (<<p, z(n)>> \o Contents(n))
      PROVE  /\ r \in Seq(M) /\ r[1] = o
             /\ Len(r) = IF n = 0 THEN 3 ELSE 4
             /\ r[2] = p /\ r[3] = z(n)
             /\ n # 0 => r[4] = Msg("data", n)
  <2> HIDE DEF o, p, z
  <2> DEFINE t == <<p, z(n)>> \o Contents(n)
             d == Contents(n)
  <2>1. <<p, z(n)>> \in Seq(M) /\ Len(<<p, z(n)>>) = 2
    BY <1>1
  <2>2. d \in Seq(M) /\ Len(d) = (IF n = 0 THEN 0 ELSE 1) /\ (n # 0 => d[1] = Msg("data", n))
    BY ContentsOf
  <2> HIDE DEF d
  <2>3. /\ t \in Seq(M) /\ Len(t) = (IF n = 0 THEN 2 ELSE 3)
        /\ t[1] = p /\ t[2] = z(n) /\ (n # 0 => t[3] = d[1])
    BY <2>1, <2>2, SeqAt DEF d
  <2> HIDE DEF t
  <2>4. r = <<o>> \o t
    BY <1>3 DEF t
  <2>5. /\ r \in Seq(M) /\ Len(r) = Len(t) + 1 /\ r[1] = o
        /\ \A i \in 1 .. Len(t) : r[i + 1] = t[i]
    BY <1>2, <2>3, <2>4
  <2>6. r[2] = t[1] /\ r[3] = t[2] /\ (n # 0 => r[4] = t[3])
    <3>1. 1 \in 1 .. Len(t) /\ 2 \in 1 .. Len(t) /\ (n # 0 => 3 \in 1 .. Len(t))
      BY <2>3
    <3>2. r[1 + 1] = t[1] /\ r[2 + 1] = t[2] /\ (n # 0 => r[3 + 1] = t[3])
      BY <2>5, <3>1
    <3> QED
      BY <3>2
  <2> QED
    BY <2>2, <2>3, <2>5, <2>6
<1>4. ASSUME c.op = "OPEN_FILE"
      PROVE  r \in Seq(M) /\ Len(r) = 3 /\ r[1] = o /\ r[2] = p /\ r[3] = g
  <2>1. r = <<o>> \o <<p, g>>
    BY <1>4 DEF r, Request, OpenRequest
  <2> HIDE DEF o, p, g
  <2> DEFINE t == <<p, g>>
  <2>2. t \in Seq(M) /\ Len(t) = 2 /\ t[1] = p /\ t[2] = g
    BY <1>1
  <2> HIDE DEF t
  <2>3. r = <<o>> \o t
    BY <2>1 DEF t
  <2>4. r \in Seq(M) /\ Len(r) = Len(t) + 1 /\ r[1] = o
        /\ \A i \in 1 .. Len(t) : r[i + 1] = t[i]
    BY <1>2, <2>2, <2>3
  <2>5. r[1 + 1] = t[1] /\ r[2 + 1] = t[2]
    BY <2>2, <2>4
  <2> QED
    BY <2>2, <2>4, <2>5
<1>5. ASSUME HasData(c.op) PROVE \E n \in Int : r = <<o>> \o (<<p, z(n)>> \o Contents(n))
  <2>1. c.n \in Int /\ (c.path \in Files => LocalSize[c.path] \in Int)
    BY SessionAssumption DEF RequestOk, CallOk
  <2>2. CASE c.op = "WRITE_FILE"
    BY <2>1, <2>2 DEF r, Request, WriteRequest, RequestOk
  <2>3. CASE c.op = "APPEND_TO_FILE"
    BY <2>1, <2>3 DEF r, Request, AppendRequest
  <2> QED
    BY <1>5, <2>2, <2>3 DEF HasData
<1>6. ASSUME c.op = "READ_N_FILES" PROVE r \in Seq(M) /\ Len(r) = 2 /\ r[1] = o /\ r[2] = k
  <2>1. r = <<o>> \o <<k>>
    BY <1>6 DEF r, Request, ReadNRequest
  <2> HIDE DEF o, k
  <2> QED
    BY <1>1, <1>2, <2>1
<1>7. ASSUME Pathed(c.op) PROVE r \in Seq(M) /\ Len(r) = 2 /\ r[1] = o /\ r[2] = p
  <2>1. r = <<o>> \o <<p>>
    BY <1>7 DEF r, Request, PathRequest, Pathed
  <2> HIDE DEF o, p
  <2> QED
    BY <1>1, <1>2, <2>1
<1>8. HasData(c.op) \/ c.op = "OPEN_FILE" \/ c.op = "READ_N_FILES" \/ Pathed(c.op)
  BY DEF RequestOk, OpCodes, HasData, Pathed
<1>9. \A x, y \in {"OPEN_FILE", "READ_N_FILES"} : ~(HasData(x) \/ Pathed(x)) /\ ~(HasData(c.op) /\ Pathed(c.op))
  BY DEF HasData, Pathed
<1>10. Requested(c, r)
  BY <1>3, <1>4, <1>5, <1>6, <1>7, <1>8, <1>9 DEF Requested
<1> QED
  BY <1>10 DEF r

\* The kinds of the fields are those that the handler expects; the contents are
\* missing when their size is 0.
LEMMA RequestFields ==
    ASSUME NEW c, RequestOk(c), NEW r, r = Request(c), NEW f, f = Fields(c.op)
    PROVE  /\ f \in Seq(Kinds) /\ r \in Seq(M) /\ Len(f) > 0
           /\ r[1].kind = "op" /\ r[1].value = c.op
           /\ Len(r) > 1 /\ Len(r) <= Len(f) + 1
           /\ \A i \in 1 .. Len(r) - 1 : r[i + 1].kind = f[i]
           /\ Len(r) = Len(f) + 1 \/ (HasData(c.op) /\ Len(r) = 3 /\ Len(f) = 3)
           /\ HasData(c.op) /\ r[3].value = 0 => Len(r) = 3
           /\ \A i \in 1 .. Len(f) : f[i] = "data" => HasData(c.op) /\ i = 3
           /\ HasData(c.op) => Len(r) >= 3
<1>0. Requested(c, r)
  BY RequestOf
<1>1. c.op \in OpCodes
  BY DEF RequestOk
<1>2. f \in Seq(Kinds) /\ r \in Seq(M) /\ r[1].kind = "op" /\ r[1].value = c.op
  BY <1>0, <1>1, FieldsOf, MsgOf DEF Requested
<1>3. CASE HasData(c.op)
  <2>1. f = <<"path", "size", "data">>
    BY <1>1, <1>3, FieldsOf
  <2>2. PICK n \in Int : /\ Len(r) = IF n = 0 THEN 3 ELSE 4
                         /\ r[2] = Msg("path", c.path) /\ r[3] = Msg("size", n)
                         /\ n # 0 => r[4] = Msg("data", n)
    BY <1>0, <1>3 DEF Requested
  <2>3. r[2].kind = "path" /\ r[3].kind = "size" /\ r[3].value = n /\ (n # 0 => r[4].kind = "data")
    BY <2>2, MsgOf
  <2> QED
    BY <1>2, <1>3, <2>1, <2>2, <2>3
<1>4. CASE c.op = "OPEN_FILE"
  <2>1. f = <<"path", "flags">>
    BY <1>1, <1>4, FieldsOf
  <2>2. Len(r) = 3 /\ r[2].kind = "path" /\ r[3].kind = "flags" /\ ~HasData(c.op)
    BY <1>0, <1>4, MsgOf DEF Requested, HasData
  <2> QED
    BY <1>2, <2>1, <2>2
<1>5. CASE c.op = "READ_N_FILES"
  <2>1. f = <<"n">>
    BY <1>1, <1>5, FieldsOf
  <2>2. Len(r) = 2 /\ r[2].kind = "n" /\ ~HasData(c.op)
    BY <1>0, <1>5, MsgOf DEF Requested, HasData
  <2> QED
    BY <1>2, <2>1, <2>2
<1>6. CASE Pathed(c.op)
  <2>1. f = <<"path">>
    BY <1>1, <1>6, FieldsOf
  <2>2. Len(r) = 2 /\ r[2].kind = "path" /\ ~HasData(c.op)
    BY <1>0, <1>6, MsgOf DEF Requested, HasData, Pathed
  <2> QED
    BY <1>2, <2>1, <2>2
<1> QED
  BY <1>1, <1>3, <1>4, <1>5, <1>6 DEF OpCodes, HasData, Pathed

LEMMA HeadTail ==
    ASSUME NEW S, NEW s \in Seq(S), s # <<>>
    PROVE  /\ Len(s) \in Nat /\ Len(s) > 0 /\ Head(s) = s[1] /\ s[1] \in S
           /\ Tail(s) \in Seq(S) /\ Len(Tail(s)) = Len(s) - 1
           /\ \A i \in 1 .. Len(s) - 1 : Tail(s)[i] = s[i + 1]
  OBVIOUS

LEMMA Appended ==
    ASSUME NEW S, NEW s \in Seq(S), NEW x \in S
    PROVE  /\ Append(s, x) \in Seq(S) /\ Len(Append(s, x)) = Len(s) + 1 /\ Len(s) \in Nat
           /\ \A i \in 1 .. Len(s) : Append(s, x)[i] = s[i]
           /\ Append(s, x)[Len(s) + 1] = x
  OBVIOUS

-----------------------------------------------------------------------------
(***************************************************************************)
(* A request moves.                                                        *)
(***************************************************************************)
LEMMA FlowQuiet ==
    ASSUME NEW c, NEW q, NEW o, NEW j, NEW j2, NEW w,
           Flow(c, q, o, j, w), j.pc # "read", j2.pc # "read"
    PROVE  Flow(c, q, o, j2, w) /\ UnderWay(q, o, j2) = UnderWay(q, o, j)
  BY DEF Flow, UnderWay, Taken

\* Nothing is under way: the next request may be any.
LEMMA FlowNone ==
    ASSUME NEW c, NEW j, NEW w, RequestOk(c), j.pc # "read"
    PROVE  Flow(c, <<>>, <<>>, j, w)
<1>1. Len(Request(c)) > 1 /\ Len(Request(c)) \in Nat
  BY RequestFields
<1>2. UnderWay(<<>>, <<>>, j) = 0
  BY DEF UnderWay, Taken
<1> QED
  BY <1>1, <1>2 DEF Flow

LEMMA FlowStart ==
    ASSUME NEW c, NEW j, NEW w, RequestOk(c), j.pc # "read",
           c.op = "WRITE_FILE" => MayWrite(c.path, w)
    PROVE  /\ Flow(c, <<>>, Request(c), j, w)
           /\ UnderWay(<<>>, Request(c), j) = Len(Request(c))
<1>1. Len(Request(c)) \in Nat
  BY RequestFields
<1>2. UnderWay(<<>>, Request(c), j) = Len(Request(c)) /\ Taken(j) = 0
  BY <1>1 DEF UnderWay, Taken
<1> QED
  BY <1>1, <1>2 DEF Flow

\* The library is gone.
LEMMA FlowDrop ==
    ASSUME NEW c, NEW q \in Seq(M), NEW o \in Seq(M), NEW j, j.args \in Seq(Values), NEW w,
           Flow(c, q, o, j, w)
    PROVE  Flow(c, q, <<>>, j, w)
<1>1. Taken(j) \in Nat /\ Len(q) \in Nat /\ Len(o) \in Nat /\ Len(Request(c)) \in Nat
  BY RequestFields DEF Taken, Flow
<1>2. UnderWay(q, <<>>, j) <= UnderWay(q, o, j) /\ UnderWay(q, <<>>, j) \in Nat
      /\ UnderWay(q, o, j) \in Nat
  BY <1>1 DEF UnderWay
<1>3. UnderWay(q, <<>>, j) <= Len(Request(c))
      /\ (UnderWay(q, <<>>, j) > 0 => UnderWay(q, o, j) > 0)
  BY <1>1, <1>2 DEF Flow
<1> QED
  BY <1>3 DEF Flow

LEMMA FlowSend ==
    ASSUME NEW c, NEW q \in Seq(M), NEW o \in Seq(M), NEW j, j.args \in Seq(Values), NEW w,
           Flow(c, q, o, j, w), o # <<>>
    PROVE  /\ Flow(c, Append(q, Head(o)), Tail(o), j, w)
           /\ UnderWay(Append(q, Head(o)), Tail(o), j) = UnderWay(q, o, j)
<1> DEFINE q2 == Append(q, Head(o))
           o2 == Tail(o)
<1>1. Taken(j) \in Nat /\ Len(Request(c)) \in Nat
  BY RequestFields DEF Taken, Flow
<1>2. /\ Len(o) \in Nat /\ Len(o) > 0 /\ Head(o) = o[1] /\ o[1] \in M /\ Len(o2) = Len(o) - 1
      /\ \A i \in 1 .. Len(o) - 1 : o2[i] = o[i + 1]
  BY HeadTail
<1>3. /\ Len(q2) = Len(q) + 1 /\ Len(q) \in Nat /\ q2[Len(q) + 1] = o[1]
      /\ \A i \in 1 .. Len(q) : q2[i] = q[i]
  BY <1>2, Appended
<1> HIDE DEF q2, o2
<1>4. UnderWay(q2, o2, j) = UnderWay(q, o, j)
  BY <1>1, <1>2, <1>3 DEF UnderWay
<1>5. \A i \in 1 .. Len(q2) : q2[i] = Request(c)[Taken(j) + i]
  <2>1. o[1] = Request(c)[(Taken(j) + Len(q)) + 1]
    BY <1>2 DEF Flow
  <2>2. (Taken(j) + Len(q)) + 1 = Taken(j) + (Len(q) + 1)
    BY <1>1, <1>3
  <2>3. ASSUME NEW i \in 1 .. Len(q2) PROVE i \in 1 .. Len(q) \/ i = Len(q) + 1
    BY <1>3
  <2> QED
    BY <1>3, <2>1, <2>2, <2>3 DEF Flow
<1>6. \A i \in 1 .. Len(o2) : o2[i] = Request(c)[(Taken(j) + Len(q2)) + i]
  <2> SUFFICES ASSUME NEW i \in 1 .. Len(o) - 1
               PROVE  o2[i] = Request(c)[(Taken(j) + Len(q2)) + i]
    BY <1>2
  <2>1. i + 1 \in 1 .. Len(o)
    BY <1>2
  <2>2. (Taken(j) + Len(q2)) + i = (Taken(j) + Len(q)) + (i + 1)
    <3> DEFINE k == Taken(j)
               l == Len(q)
               l2 == Len(q2)
    <3>1. k \in Nat /\ l \in Nat /\ l2 = l + 1 /\ i \in Int
      BY <1>1, <1>2, <1>3
    <3> HIDE DEF k, l, l2
    <3>2. (k + l2) + i = (k + l) + (i + 1)
      BY <3>1
    <3> QED
      BY <3>2 DEF k, l, l2
  <2> QED
    BY <1>2, <2>1, <2>2 DEF Flow
<1> QED
  BY <1>4, <1>5, <1>6 DEF q2, o2, Flow

\* The worker has read the operation, or the next field.
TakesOp(c, q, o, j, w, j2) ==
    /\ q \in Seq(M) /\ o \in Seq(M) /\ q # <<>> /\ Flow(c, q, o, j, w)
    /\ j.pc = "idle" /\ j2.pc = "read" /\ j2.args = <<>>
    /\ j2.op = Head(q).value /\ j2.want = Fields(Head(q).value)
TakesField(c, q, o, j, w, j2) ==
    /\ q \in Seq(M) /\ o \in Seq(M) /\ q # <<>> /\ Flow(c, q, o, j, w)
    /\ j \in JobT /\ j.pc = "read" /\ j.want # <<>>
    /\ j2.pc = "read" /\ j2.op = j.op
    /\ j2.args = Append(j.args, Head(q).value) /\ j2.want = Tail(j.want)

LEMMA FlowOp ==
    ASSUME NEW c, NEW q, NEW o, NEW j, NEW w, NEW j2, TakesOp(c, q, o, j, w, j2)
    PROVE  /\ Head(q).kind = "op" /\ Head(q).value = c.op /\ c.op \in OpCodes
           /\ j2.want = Fields(c.op) /\ j2.want \in Seq(Kinds)
           /\ Flow(c, Tail(q), o, j2, w)
           /\ UnderWay(Tail(q), o, j2) = UnderWay(q, o, j)
<1>0. /\ q \in Seq(M) /\ o \in Seq(M) /\ q # <<>> /\ Flow(c, q, o, j, w)
      /\ j.pc = "idle" /\ j2.pc = "read" /\ j2.args = <<>>
      /\ j2.op = Head(q).value /\ j2.want = Fields(Head(q).value)
  BY DEF TakesOp
<1> DEFINE r == Request(c)
           f == Fields(c.op)
           q2 == Tail(q)
<1> HIDE DEF r, f, q2
<1>1. /\ f \in Seq(Kinds) /\ r \in Seq(M) /\ Len(r) \in Nat
      /\ r[1].kind = "op" /\ r[1].value = c.op /\ c.op \in OpCodes
  BY <1>0, RequestFields DEF Flow, RequestOk, r, f
<1>2. /\ Len(q) \in Nat /\ Len(q) > 0 /\ Head(q) = q[1] /\ Len(q2) = Len(q) - 1
      /\ \A i \in 1 .. Len(q) - 1 : q2[i] = q[i + 1]
  BY <1>0, HeadTail DEF q2
<1>3. /\ RequestOk(c) /\ Len(q) + Len(o) <= Len(r)
      /\ \A i \in 1 .. Len(q) : q[i] = r[0 + i]
      /\ \A i \in 1 .. Len(o) : o[i] = r[(0 + Len(q)) + i]
      /\ c.op = "WRITE_FILE" /\ Len(q) + Len(o) > 0 => MayWrite(c.path, w)
  BY <1>0, <1>2 DEF Flow, UnderWay, Taken, r
<1>4. Head(q) = r[1]
  BY <1>0, <1>2, <1>3
<1>5. j2.pc = "read" /\ j2.op = c.op /\ j2.want = f /\ j2.args = <<>>
  BY <1>0, <1>1, <1>4 DEF f
<1>6. Taken(j2) = 1
  BY <1>0, <1>5 DEF Taken
<1>7. UnderWay(q2, o, j2) = Len(q) + Len(o) /\ UnderWay(q, o, j) = Len(q) + Len(o)
  BY <1>0, <1>2, <1>6 DEF UnderWay, Taken
<1>8. \A i \in 1 .. Len(q2) : q2[i] = r[1 + i]
  <2> SUFFICES ASSUME NEW i \in 1 .. Len(q) - 1 PROVE q2[i] = r[1 + i]
    BY <1>0, <1>2
  <2>1. i + 1 \in 1 .. Len(q) /\ 0 + (i + 1) = 1 + i
    BY <1>0, <1>2
  <2> QED
    BY <1>0, <1>2, <1>3, <2>1
<1>9. \A i \in 1 .. Len(o) : o[i] = r[(1 + Len(q2)) + i]
  BY <1>0, <1>2, <1>3
<1>10. Taking(c, j2)
  <2>1. Len(f) \in Nat /\ \A i \in 1 .. Len(f) : f[i] = f[0 + i]
    BY <1>0, <1>1
  <2>2. Len(j2.args) = 0 /\ Len(j2.want) = Len(f)
    BY <1>0, <1>5
  <2>3. Len(j2.want) + Len(j2.args) = Len(f)
    <3>1. \A n \in Nat : n + 0 = n
      OBVIOUS
    <3>2. Len(f) + 0 = Len(f)
      BY <1>0, <2>1, <3>1
    <3> QED
      BY <1>0, <2>2, <3>2
  <2>4. \A i \in 1 .. Len(j2.want) : j2.want[i] = f[Len(j2.args) + i]
    BY <1>0, <1>5, <2>1, <2>2
  <2>5. \A i \in 1 .. Len(j2.args) : j2.args[i] = Request(c)[i + 1].value
    BY <1>0, <2>2
  <2> QED
    BY <1>0, <1>5, <2>3, <2>4, <2>5 DEF Taking, f
<1>11. Flow(c, q2, o, j2, w)
  BY <1>0, <1>3, <1>6, <1>7, <1>8, <1>9, <1>10 DEF Flow, r
<1> QED
  BY <1>0, <1>1, <1>4, <1>5, <1>7, <1>11 DEF q2, f

LEMMA FlowField ==
    ASSUME NEW c, NEW q, NEW o, NEW j, NEW w, NEW j2, TakesField(c, q, o, j, w, j2)
    PROVE  /\ Flow(c, Tail(q), o, j2, w)
           /\ UnderWay(Tail(q), o, j2) = UnderWay(q, o, j)
           /\ Head(q).kind = Head(j.want)
<1>0. /\ q \in Seq(M) /\ o \in Seq(M) /\ q # <<>> /\ Flow(c, q, o, j, w)
      /\ j \in JobT /\ j.pc = "read" /\ j.want # <<>>
      /\ j2.pc = "read" /\ j2.op = j.op
      /\ j2.args = Append(j.args, Head(q).value) /\ j2.want = Tail(j.want)
  BY DEF TakesField
<1> DEFINE r == Request(c)
           f == Fields(c.op)
           q2 == Tail(q)
           k == Len(j.args)
<1> HIDE DEF r, f, q2, k
<1>1. /\ f \in Seq(Kinds) /\ r \in Seq(M) /\ Len(r) \in Nat /\ Len(f) \in Nat
      /\ \A i \in 1 .. Len(r) - 1 : r[i + 1].kind = f[i]
  BY <1>0, RequestFields DEF Flow, RequestOk, r, f
<1>2. /\ Len(q) \in Nat /\ Len(q) > 0 /\ Head(q) = q[1] /\ q[1] \in M /\ Len(q2) = Len(q) - 1
      /\ \A i \in 1 .. Len(q) - 1 : q2[i] = q[i + 1]
  BY <1>0, HeadTail DEF q2
<1>3. j.args \in Seq(Values) /\ j.want \in Seq(Kinds) /\ k \in Nat /\ Len(o) \in Nat
  BY <1>0 DEF JobT, k
<1>4. /\ Len(j.want) \in Nat /\ Len(j.want) > 0 /\ Head(j.want) = j.want[1]
      /\ Len(Tail(j.want)) = Len(j.want) - 1
      /\ \A i \in 1 .. Len(j.want) - 1 : Tail(j.want)[i] = j.want[i + 1]
  BY <1>0, <1>3, HeadTail
<1>5. q[1].value \in Values
  BY <1>0, <1>2 DEF M
<1>6. /\ Len(Append(j.args, q[1].value)) = k + 1
      /\ \A i \in 1 .. k : Append(j.args, q[1].value)[i] = j.args[i]
      /\ Append(j.args, q[1].value)[k + 1] = q[1].value
  BY <1>0, <1>3, <1>5, Appended DEF k
<1>7. Taken(j) = 1 + k
  BY <1>0 DEF Taken, k
<1>8. /\ RequestOk(c) /\ ((1 + k) + Len(q)) + Len(o) <= Len(r)
      /\ \A i \in 1 .. Len(q) : q[i] = r[(1 + k) + i]
      /\ \A i \in 1 .. Len(o) : o[i] = r[((1 + k) + Len(q)) + i]
      /\ c.op = "WRITE_FILE" /\ ((1 + k) + Len(q)) + Len(o) > 0 => MayWrite(c.path, w)
      /\ Taking(c, j)
  BY <1>0, <1>7 DEF Flow, UnderWay, r
<1>9. /\ j.op = c.op
      /\ \A i \in 1 .. k : j.args[i] = r[i + 1].value
      /\ Len(j.want) + k = Len(f)
      /\ \A i \in 1 .. Len(j.want) : j.want[i] = f[k + i]
  BY <1>0, <1>4, <1>8 DEF Taking, r, f, k
<1>10. /\ j2.pc = "read" /\ j2.op = j.op /\ j2.want = Tail(j.want)
       /\ j2.args = Append(j.args, q[1].value)
  BY <1>0, <1>2 DEF JobT
<1>11. q[1] = r[k + 2] /\ k + 1 \in 1 .. Len(r) - 1
  <2>1. q[1] = r[(1 + k) + 1] /\ (1 + k) + 1 = k + 2
    BY <1>0, <1>2, <1>3, <1>8
  <2>2. k + 1 <= Len(r) - 1
    BY <1>0, <1>1, <1>2, <1>3, <1>8
  <2> QED
    BY <1>0, <1>1, <1>3, <2>1, <2>2
<1>12. Head(q).kind = Head(j.want)
  <2>1. r[(k + 1) + 1].kind = f[k + 1] /\ (k + 1) + 1 = k + 2
    BY <1>0, <1>1, <1>3, <1>11
  <2>2. j.want[1] = f[k + 1]
    BY <1>0, <1>4, <1>9
  <2> QED
    BY <1>0, <1>2, <1>4, <1>11, <2>1, <2>2
<1>13. Taken(j2) = k + 2
  BY <1>0, <1>3, <1>6, <1>10 DEF Taken
<1>14. UnderWay(q2, o, j2) = ((1 + k) + Len(q)) + Len(o) /\ UnderWay(q, o, j) = ((1 + k) + Len(q)) + Len(o)
  <2>1. ((k + 2) + (Len(q) - 1)) + Len(o) = ((1 + k) + Len(q)) + Len(o)
    BY <1>0, <1>2, <1>3
  <2> QED
    BY <1>0, <1>2, <1>7, <1>13, <2>1 DEF UnderWay
<1>15. \A i \in 1 .. Len(q2) : q2[i] = r[(k + 2) + i]
  <2> SUFFICES ASSUME NEW i \in 1 .. Len(q) - 1 PROVE q2[i] = r[(k + 2) + i]
    BY <1>0, <1>2
  <2>1. i + 1 \in 1 .. Len(q) /\ (1 + k) + (i + 1) = (k + 2) + i
    BY <1>0, <1>2, <1>3
  <2> QED
    BY <1>0, <1>2, <1>8, <2>1
<1>16. \A i \in 1 .. Len(o) : o[i] = r[((k + 2) + Len(q2)) + i]
  <2>1. (k + 2) + Len(q2) = (1 + k) + Len(q)
    BY <1>0, <1>2, <1>3
  <2> QED
    BY <1>0, <1>8, <2>1
<1>17. Taking(c, j2)
  <2>1. \A i \in 1 .. k + 1 : j2.args[i] = r[i + 1].value
    <3> SUFFICES ASSUME NEW i \in 1 .. k + 1 PROVE j2.args[i] = r[i + 1].value
      OBVIOUS
    <3>1. CASE i = k + 1
      <4>1. i + 1 = k + 2
        BY <1>0, <1>3, <3>1
      <4> QED
        BY <1>0, <1>6, <1>10, <1>11, <3>1, <4>1
    <3>2. CASE i # k + 1
      <4>1. i \in 1 .. k
        BY <1>0, <1>3, <3>2
      <4> QED
        BY <1>0, <1>6, <1>9, <1>10, <4>1
    <3> QED
      BY <1>0, <3>1, <3>2
  <2>2. Len(j2.want) + Len(j2.args) = Len(f)
    <3> DEFINE l == Len(j.want)
    <3>1. l \in Nat /\ Len(j2.want) = l - 1 /\ Len(j2.args) = k + 1 /\ l + k = Len(f)
      BY <1>0, <1>4, <1>6, <1>9, <1>10
    <3> HIDE DEF l
    <3>2. (l - 1) + (k + 1) = l + k
      BY <1>0, <1>3, <3>1
    <3> QED
      BY <1>0, <3>1, <3>2
  <2>3. \A i \in 1 .. Len(j2.want) : j2.want[i] = f[(k + 1) + i]
    <3> SUFFICES ASSUME NEW i \in 1 .. Len(j.want) - 1 PROVE Tail(j.want)[i] = f[(k + 1) + i]
      BY <1>0, <1>4, <1>10
    <3>1. i + 1 \in 1 .. Len(j.want) /\ i \in Int
      BY <1>0, <1>4
    <3>2. k + (i + 1) = (k + 1) + i
      BY <1>0, <1>3, <3>1
    <3> QED
      BY <1>0, <1>4, <1>9, <3>1, <3>2
  <2> QED
    BY <1>0, <1>6, <1>9, <1>10, <2>1, <2>2, <2>3 DEF Taking, r, f
<1>18. Flow(c, q2, o, j2, w)
  BY <1>0, <1>8, <1>13, <1>14, <1>15, <1>16, <1>17 DEF Flow, r
<1> QED
  BY <1>0, <1>12, <1>14, <1>18 DEF q2

\* The contents that a handler expects, of size 0, are not under way.
SizeIsZero(j) == Head(j.want) = "data" /\ Last(j.args) = 0

\* A handler that has read all fields, or all but the missing contents, has read
\* all that was written.
LEMMA FlowAll ==
    ASSUME NEW c, NEW q \in Seq(M), NEW o \in Seq(M), NEW j \in JobT, NEW w,
           Flow(c, q, o, j, w), j.pc = "read", j.want = <<>> \/ SizeIsZero(j)
    PROVE  /\ Taken(j) = Len(Request(c)) /\ q = <<>> /\ o = <<>>
           /\ UnderWay(q, o, j) = Len(Request(c)) /\ Len(Request(c)) > 1
<1> DEFINE r == Request(c)
           f == Fields(c.op)
           k == Len(j.args)
<1> HIDE DEF r, f, k
<1>1. /\ f \in Seq(Kinds) /\ r \in Seq(M) /\ Len(r) \in Nat /\ Len(f) \in Nat /\ Len(r) > 1
      /\ Len(r) <= Len(f) + 1
      /\ HasData(c.op) /\ r[3].value = 0 => Len(r) = 3
      /\ \A i \in 1 .. Len(f) : f[i] = "data" => HasData(c.op) /\ i = 3
  BY RequestFields DEF Flow, RequestOk, r, f
<1>2. j.args \in Seq(Values) /\ j.want \in Seq(Kinds) /\ k \in Nat /\ Len(o) \in Nat /\ Len(q) \in Nat
  BY DEF JobT, k
<1>3. Taken(j) = 1 + k
  BY DEF Taken, k
<1>4. /\ ((1 + k) + Len(q)) + Len(o) <= Len(r)
      /\ Taking(c, j)
  BY <1>3 DEF Flow, UnderWay, r
<1>5. /\ \A i \in 1 .. k : j.args[i] = r[i + 1].value
      /\ \/ j.want = <<>> /\ 1 + k = Len(r)
         \/ /\ Len(j.want) + k = Len(f)
            /\ \A i \in 1 .. Len(j.want) : j.want[i] = f[k + i]
  BY <1>3, <1>4 DEF Taking, r, f, k
<1>6. 1 + k = Len(r)
  <2>1. CASE j.want = <<>>
    BY <1>1, <1>2, <1>4, <1>5, <2>1
  <2>2. CASE j.want # <<>>
    <3>1. Len(j.want) \in Nat /\ Len(j.want) > 0 /\ j.want[1] = "data" /\ Last(j.args) = 0
      BY <1>2, <2>2, HeadTail DEF SizeIsZero
    <3>0. /\ Len(j.want) + k = Len(f)
          /\ \A i \in 1 .. Len(j.want) : j.want[i] = f[k + i]
      BY <1>5, <2>2
    <3>2. f[k + 1] = "data" /\ k + 1 \in 1 .. Len(f)
      <4>1. 1 \in 1 .. Len(j.want)
        BY <3>1
      <4>2. f[k + 1] = "data"
        BY <3>0, <3>1, <4>1
      <4>3. k + 1 \in 1 .. Len(f)
        BY <1>1, <1>2, <3>0, <3>1
      <4> QED
        BY <4>2, <4>3
    <3>3. HasData(c.op) /\ k = 2
      BY <1>1, <1>2, <3>2
    <3>4. j.args[2] = 0
      BY <3>1, <3>3 DEF Last, k
    <3>5. r[2 + 1].value = 0
      BY <1>5, <3>3, <3>4
    <3> QED
      BY <1>1, <3>3, <3>5
  <2> QED
    BY <2>1, <2>2
<1>7. Len(q) = 0 /\ Len(o) = 0
  BY <1>1, <1>2, <1>4, <1>6
<1>8. q = <<>> /\ o = <<>>
  BY <1>7
<1> QED
  BY <1>1, <1>2, <1>3, <1>6, <1>7, <1>8 DEF UnderWay, r

\* An append of nothing.
LEMMA FlowSkip ==
    ASSUME NEW c, NEW q \in Seq(M), NEW o \in Seq(M), NEW j \in JobT, NEW w,
           Flow(c, q, o, j, w), j.pc = "read", SizeIsZero(j),
           NEW j2, j2 = [j EXCEPT !.want = <<>>]
    PROVE  Flow(c, q, o, j2, w) /\ UnderWay(q, o, j2) = UnderWay(q, o, j)
<1>1. Taken(j) = Len(Request(c))
  BY FlowAll
<1>2. j2.pc = "read" /\ j2.op = j.op /\ j2.args = j.args /\ j2.want = <<>>
  BY DEF JobT
<1>3. Taken(j2) = Taken(j)
  BY <1>2 DEF Taken
<1>4. Taking(c, j2)
  BY <1>1, <1>2, <1>3 DEF Flow, Taking
<1> QED
  BY <1>3, <1>4 DEF Flow, UnderWay

\* What the handler knows when it has read the request.
Known(c, j, w) ==
    /\ j.op = c.op
    /\ c.op = "OPEN_FILE" => /\ Last(j.args) = j.args[2]
                             /\ j.args[2] = [create |-> c.create, lock |-> c.lock]
    /\ c.op # "READ_N_FILES" => j.args[1] = c.path
    /\ c.op = "WRITE_FILE" => MayWrite(c.path, w)

LEMMA FlowRequest ==
    ASSUME NEW c, NEW q \in Seq(M), NEW o \in Seq(M), NEW j \in JobT, NEW w,
           Flow(c, q, o, j, w), j.pc = "read", j.want = <<>>
    PROVE  Known(c, j, w)
<1> DEFINE r == Request(c)
<1> HIDE DEF r
<1>1. Requested(c, r)
  BY RequestOf DEF Flow, r
<1>2. 1 + Len(j.args) = Len(r) /\ UnderWay(q, o, j) > 0 /\ Len(r) > 1
  BY FlowAll DEF Taken, r
<1>3. /\ j.op = c.op
      /\ \A i \in 1 .. Len(j.args) : j.args[i] = r[i + 1].value
  BY DEF Flow, Taking, r
<1>4. Len(j.args) \in Nat
  BY DEF JobT
<1>5. c.op # "READ_N_FILES" => j.args[1] = c.path
  <2> SUFFICES ASSUME c.op # "READ_N_FILES" PROVE j.args[1] = c.path
    OBVIOUS
  <2>1. r[2] = Msg("path", c.path)
    BY <1>1 DEF Requested, Flow, RequestOk, OpCodes, HasData, Pathed
  <2>2. 1 \in 1 .. Len(j.args) /\ 1 + 1 = 2
    BY <1>2, <1>4
  <2> QED
    BY <1>3, <2>1, <2>2, MsgOf
<1>6. ASSUME c.op = "OPEN_FILE"
      PROVE  Last(j.args) = j.args[2] /\ j.args[2] = [create |-> c.create, lock |-> c.lock]
  <2>1. Len(r) = 3 /\ r[3] = Msg("flags", [create |-> c.create, lock |-> c.lock])
    BY <1>1, <1>6 DEF Requested
  <2>2. Len(j.args) = 2
    <3> DEFINE k == Len(j.args)
    <3>1. 1 + k = 3 /\ k \in Nat
      BY <1>2, <1>4, <2>1
    <3> HIDE DEF k
    <3>2. k = 2
      BY <3>1
    <3> QED
      BY <3>2 DEF k
  <2>3. j.args[2] = r[2 + 1].value
    BY <1>3, <2>2
  <2> QED
    BY <2>1, <2>2, <2>3, MsgOf DEF Last
<1> QED
  BY <1>2, <1>3, <1>5, <1>6 DEF Flow, Known

-----------------------------------------------------------------------------
(***************************************************************************)
(* An answer is read, and grows.                                           *)
(***************************************************************************)
LEMMA AnswerTake ==
    ASSUME NEW a \in Seq(M), a # <<>>, NEW p, NEW it, NEW op, NEW v, NEW S, NEW p2, NEW it2,
           Answering(a, p, it, op, v, S), ReadsOn(p, it, op, a[1], p2, it2)
    PROVE  /\ Answering(Tail(a), p2, it2, op, v, S)
           /\ Listing(a, p, op, v) => Listing(Tail(a), p2, op, v)
<1> DEFINE b == Tail(a)
<1> HIDE DEF b
<1>1. /\ Len(a) \in Nat /\ Len(a) > 0 /\ b \in Seq(M) /\ Len(b) = Len(a) - 1
      /\ \A i \in 1 .. Len(a) - 1 : b[i] = a[i + 1]
  BY HeadTail DEF b
<1>2. /\ a[1].kind = Due(p, it) /\ Told(a[1], 1, a, p, op, v, S)
      /\ Len(a) > 1 => a[2].kind = After(op, a[1])
  <2>1. 1 \in 1 .. Len(a) /\ (Len(a) > 1 => 1 \in 1 .. Len(a) - 1) /\ 1 + 1 = 2
    BY <1>1
  <2> QED
    BY <2>1 DEF Answering
<1>3. ~(AnswersWithFile(op) /\ AnswersWithList(op))
  BY DEF AnswersWithFile, AnswersWithList
<1>4. /\ v = "SUCCESS" /\ WithFiles(op)
      /\ p2 # "send"
      /\ p2 \in {"size", "contents"} => AnswersWithFile(op)
      /\ p2 \in {"lpath", "lsize", "ldata", "save"} => AnswersWithList(op)
      /\ Len(a) > 1 => a[2].kind = Due(p2, it2)
  BY <1>2, <1>3 DEF ReadsOn, Answering, Told, Due, After, AfterFile, WithFiles
<1>5. \A i \in 1 .. Len(b) - 1 : b[i + 1].kind = After(op, b[i])
  <2> SUFFICES ASSUME NEW i \in 1 .. (Len(a) - 1) - 1 PROVE b[i + 1].kind = After(op, b[i])
    BY <1>1
  <2>1. i + 1 \in 1 .. Len(a) - 1 /\ i \in 1 .. Len(a) - 1
    BY <1>1
  <2> QED
    BY <1>1, <2>1 DEF Answering
<1>6. \A i \in 1 .. Len(b) : Told(b[i], i, b, p2, op, v, S)
  <2> SUFFICES ASSUME NEW i \in 1 .. Len(a) - 1 PROVE Told(b[i], i, b, p2, op, v, S)
    BY <1>1
  <2>1. b[i] = a[i + 1] /\ i + 1 \in 1 .. Len(a) /\ i + 1 # 1 /\ (i < Len(b) => i + 1 < Len(a))
    BY <1>1
  <2>2. Told(a[i + 1], i + 1, a, p, op, v, S)
    BY <2>1 DEF Answering
  <2> QED
    BY <2>1, <2>2 DEF Told
<1>7. b # <<>> => b[1].kind = Due(p2, it2)
  <2>1. b # <<>> => Len(a) > 1 /\ b[1] = a[2]
    BY <1>1
  <2> QED
    BY <1>4, <2>1
<1>8. Answering(b, p2, it2, op, v, S)
  BY <1>4, <1>5, <1>6, <1>7 DEF Answering
<1>9. ASSUME Listing(a, p, op, v) PROVE Listing(b, p2, op, v)
  <2>1. 1 \in 1 .. Len(a)
    BY <1>1
  <2>2. p2 \in {"result", "lpath", "lsize", "ldata"} /\ p2 # "result"
    BY <1>2, <1>3, <1>9, <2>1 DEF Listing, ReadsOn, Due
  <2>3. Closed(a[1]) => p2 = "lpath"
    BY <1>2, <1>3, <1>9 DEF Listing, ReadsOn, Due, Closed
  <2>4. ASSUME NEW i \in 1 .. Len(b)
        PROVE  (b[i].kind = "path" => b[i].value # NULL) /\ b[i].kind # "res"
    <3>1. b[i] = a[i + 1] /\ i + 1 \in 1 .. Len(a) /\ i + 1 # 1
      BY <1>1
    <3> QED
      BY <1>9, <3>1 DEF Listing
  <2>5. b = <<>> => p2 = "lpath"
    <3>1. b = <<>> => Len(a) = 1
      BY <1>1
    <3>2. a # <<>> /\ Closed(a[Len(a)])
      BY <1>9 DEF Listing
    <3> QED
      BY <2>3, <3>1, <3>2
  <2>6. b # <<>> => Closed(b[Len(b)])
    <3>1. b # <<>> => Len(b) \in 1 .. Len(a) - 1 /\ Len(b) + 1 = Len(a)
      BY <1>1
    <3> QED
      BY <1>1, <1>9, <3>1 DEF Listing
  <2> QED
    BY <1>9, <2>2, <2>4, <2>5, <2>6 DEF Listing
<1> QED
  BY <1>8, <1>9 DEF b

\* Fields t of a file, or the end of the list.
Piece(t, op, v, S) ==
    /\ t # <<>> /\ t[1].kind = "path"
    /\ \A i \in 1 .. Len(t) - 1 : t[i + 1].kind = After(op, t[i])
    /\ \A i \in 1 .. Len(t) : /\ t[i].kind \in {"res", "path", "size", "data"}
                              /\ t[i].kind = "res" => t[i].value = v /\ i = Len(t)
                              /\ t[i].kind = "path" => t[i].value = NULL \/ t[i].value \in S

LEMMA AnswerGrow ==
    ASSUME NEW a \in Seq(M), NEW t \in Seq(M), NEW p, NEW it, NEW op, NEW v, NEW S,
           Answering(a, p, it, op, v, S), Listing(a, p, op, v), Piece(t, op, v, S)
    PROVE  /\ Answering(a \o t, p, it, op, v, S)
           /\ /\ \A i \in 1 .. Len(t) : t[i].kind # "res" /\ (t[i].kind = "path" => t[i].value # NULL)
              /\ Closed(t[Len(t)])
              => Listing(a \o t, p, op, v)
<1> DEFINE b == a \o t
<1> HIDE DEF b
<1>1. /\ b \in Seq(M) /\ Len(b) = Len(a) + Len(t) /\ Len(a) \in Nat /\ Len(t) \in Nat /\ Len(t) > 0
      /\ \A i \in 1 .. Len(b) : b[i] = IF i <= Len(a) THEN a[i] ELSE t[i - Len(a)]
  BY SeqAt DEF b, Piece
<1>2. ASSUME NEW i \in 1 .. Len(b)
      PROVE  \/ i \in 1 .. Len(a) /\ b[i] = a[i]
             \/ i - Len(a) \in 1 .. Len(t) /\ i = Len(a) + (i - Len(a)) /\ b[i] = t[i - Len(a)]
                /\ ~(i <= Len(a))
  BY <1>1
<1>3. b # <<>>
  BY <1>1
<1>4. b[1].kind = Due(p, it)
  <2>1. CASE a = <<>>
    <3>1. p = "lpath" /\ Len(a) = 0
      BY <2>1 DEF Listing
    <3>2. b[1] = t[1]
      BY <1>1, <3>1
    <3> QED
      BY <3>1, <3>2 DEF Piece, Due
  <2>2. CASE a # <<>>
    <3>1. b[1] = a[1]
      BY <1>1, <2>2
    <3> QED
      BY <2>2, <3>1 DEF Answering
  <2> QED
    BY <2>1, <2>2
<1>5. ASSUME NEW i \in 1 .. Len(b) - 1 PROVE b[i + 1].kind = After(op, b[i])
  <2>1. CASE i < Len(a)
    <3>1. i \in 1 .. Len(a) - 1 /\ b[i] = a[i] /\ b[i + 1] = a[i + 1]
      BY <1>1, <2>1
    <3> QED
      BY <3>1 DEF Answering
  <2>2. CASE i = Len(a)
    <3>1. b[i] = a[Len(a)] /\ b[i + 1] = t[1] /\ a # <<>>
      BY <1>1, <2>2
    <3>2. Closed(a[Len(a)]) /\ ~AnswersWithFile(op)
      BY <3>1 DEF Listing, AnswersWithFile, AnswersWithList
    <3> QED
      BY <3>1, <3>2 DEF Piece, Closed, After, AfterFile
  <2>3. CASE i > Len(a)
    <3> DEFINE k == i - Len(a)
    <3>1. k \in 1 .. Len(t) - 1 /\ b[i] = t[k]
      BY <1>1, <2>3
    <3>2. b[i + 1] = t[k + 1]
      <4>1. i + 1 \in 1 .. Len(b) /\ ~(i + 1 <= Len(a)) /\ (i + 1) - Len(a) = k + 1
        BY <1>1, <2>3
      <4> HIDE DEF k
      <4> QED
        BY <1>1, <4>1
    <3> HIDE DEF k
    <3> QED
      BY <3>1, <3>2 DEF Piece
  <2> QED
    BY <1>1, <2>1, <2>2, <2>3
<1>6. ASSUME NEW i \in 1 .. Len(b) PROVE Told(b[i], i, b, p, op, v, S)
  <2>1. CASE i \in 1 .. Len(a) /\ b[i] = a[i]
    <3>1. Told(a[i], i, a, p, op, v, S)
      BY <2>1 DEF Answering
    <3>2. a[i].kind = "res" => i = 1 /\ p = "result" /\ v = "SUCCESS" /\ WithFiles(op)
      BY <2>1 DEF Listing, WithFiles
    <3> QED
      BY <2>1, <3>1, <3>2 DEF Told
  <2>2. CASE i - Len(a) \in 1 .. Len(t) /\ i = Len(a) + (i - Len(a)) /\ b[i] = t[i - Len(a)]
    <3> DEFINE k == i - Len(a)
    <3>1. k \in 1 .. Len(t) /\ i = Len(a) + k /\ b[i] = t[k]
      BY <2>2
    <3> HIDE DEF k
    <3>2. t[k].kind = "res" => ~(i < Len(b))
      BY <1>1, <3>1 DEF Piece
    <3> QED
      BY <3>1, <3>2 DEF Piece, Told
  <2> QED
    BY <1>2, <2>1, <2>2
<1>7. Answering(b, p, it, op, v, S)
  BY <1>4, <1>5, <1>6 DEF Answering
<1>8. ASSUME \A i \in 1 .. Len(t) : t[i].kind # "res" /\ (t[i].kind = "path" => t[i].value # NULL),
             Closed(t[Len(t)])
      PROVE  Listing(b, p, op, v)
  <2>1. ASSUME NEW i \in 1 .. Len(b)
        PROVE  /\ b[i].kind = "path" => b[i].value # NULL
               /\ b[i].kind = "res" => i = 1 /\ p = "result"
    <3>1. CASE i \in 1 .. Len(a) /\ b[i] = a[i]
      BY <3>1 DEF Listing
    <3>2. CASE i - Len(a) \in 1 .. Len(t) /\ b[i] = t[i - Len(a)]
      BY <1>8, <3>2
    <3> QED
      BY <1>2, <3>1, <3>2
  <2>2. b[Len(b)] = t[Len(t)]
    <3>1. Len(b) \in 1 .. Len(b) /\ ~(Len(b) <= Len(a)) /\ Len(b) - Len(a) = Len(t)
      BY <1>1
    <3> QED
      BY <1>1, <3>1
  <2> QED
    BY <1>3, <1>8, <2>1, <2>2 DEF Listing
<1> QED
  BY <1>7, <1>8 DEF b

\* The fields of a file, and those at the end of the list.
LEMMA FileOf ==
    ASSUME NEW f \in Files, NEW n \in Int, NEW op, AnswersWithList(op), NEW v, NEW S, f \in S
    PROVE  LET t == FileFields(f, n)
           IN  /\ t \in Seq(M) /\ Piece(t, op, v, S) /\ t[1] = Msg("path", f)
               /\ \A i \in 1 .. Len(t) : t[i].kind # "res" /\ (t[i].kind = "path" => t[i].value # NULL)
               /\ Closed(t[Len(t)]) /\ Len(t) > 0
<1> DEFINE h == <<Msg("path", f), Msg("size", n)>>
           d == Contents(n)
           t == h \o d
<1>1. Msg("path", f) \in M /\ Msg("size", n) \in M
  BY MsgOf DEF Kinds, Values
<1>2. h \in Seq(M) /\ Len(h) = 2 /\ h[1] = Msg("path", f) /\ h[2] = Msg("size", n)
  BY <1>1
<1>3. d \in Seq(M) /\ (n = 0 => Len(d) = 0) /\ (n # 0 => Len(d) = 1 /\ d[1] = Msg("data", n))
  BY ContentsOf
<1> HIDE DEF h, d
<1>4. /\ t \in Seq(M) /\ Len(t) = (IF n = 0 THEN 2 ELSE 3) /\ t[1] = h[1] /\ t[2] = h[2]
      /\ n # 0 => t[3] = d[1]
  <2>1. /\ t \in Seq(M) /\ Len(t) = Len(h) + Len(d)
        /\ \A i \in 1 .. Len(t) : t[i] = IF i <= Len(h) THEN h[i] ELSE d[i - Len(h)]
    BY <1>2, <1>3, SeqAt
  <2> HIDE DEF t
  <2>2. Len(t) = (IF n = 0 THEN 2 ELSE 3)
    BY <1>2, <1>3, <2>1
  <2>3. 1 \in 1 .. Len(t) /\ 2 \in 1 .. Len(t) /\ (n # 0 => 3 \in 1 .. Len(t) /\ 3 - 2 = 1)
    BY <2>2
  <2> QED
    BY <1>2, <2>1, <2>2, <2>3
<1> HIDE DEF t
<1>5. /\ t[1].kind = "path" /\ t[1].value = f /\ t[2].kind = "size" /\ t[2].value = n
      /\ n # 0 => t[3].kind = "data"
  BY <1>2, <1>3, <1>4, MsgOf
<1>6. f # NULL /\ ~AnswersWithFile(op)
  BY SessionAssumption DEF AnswersWithFile, AnswersWithList
<1>7. t # <<>> /\ \A i \in 1 .. Len(t) - 1 : t[i + 1].kind = After(op, t[i])
  BY <1>4, <1>5, <1>6 DEF After, AfterFile
<1>8. \A i \in 1 .. Len(t) : /\ t[i].kind \in {"path", "size", "data"}
                             /\ t[i].kind = "path" => t[i].value = f
  BY <1>4, <1>5
<1>9. Closed(t[Len(t)])
  BY <1>4, <1>5 DEF Closed
<1>10. Piece(t, op, v, S)
  BY <1>5, <1>7, <1>8 DEF Piece
<1> QED
  BY <1>2, <1>4, <1>6, <1>8, <1>9, <1>10 DEF FileFields, t, h, d

LEMMA EndOf ==
    ASSUME NEW op, NEW S
    PROVE  LET t == <<Msg("path", NULL)>> \o Result("SUCCESS")
           IN  t \in Seq(M) /\ Piece(t, op, "SUCCESS", S)
<1> DEFINE h == <<Msg("path", NULL)>>
           d == Result("SUCCESS")
           t == h \o d
<1>1. Msg("path", NULL) \in M /\ Msg("res", "SUCCESS") \in M
  BY MsgOf DEF Kinds, Values, Verdicts
<1>2. h \in Seq(M) /\ Len(h) = 1 /\ h[1] = Msg("path", NULL)
  BY <1>1
<1>3. d \in Seq(M) /\ Len(d) = 1 /\ d[1] = Msg("res", "SUCCESS")
  BY <1>1 DEF Result
<1> HIDE DEF h, d
<1>4. t \in Seq(M) /\ Len(t) = 2 /\ t[1] = h[1] /\ t[2] = d[1]
  BY <1>2, <1>3, SeqAt
<1> HIDE DEF t
<1>5. /\ t[1].kind = "path" /\ t[1].value = NULL /\ t[2].kind = "res" /\ t[2].value = "SUCCESS"
  BY <1>2, <1>3, <1>4, MsgOf
<1>6. t # <<>> /\ \A i \in 1 .. Len(t) - 1 : t[i + 1].kind = After(op, t[i])
  <2>1. \A i \in 1 .. Len(t) - 1 : i = 1 /\ i + 1 = 2
    BY <1>4
  <2>2. t[2].kind = After(op, t[1])
    BY <1>5 DEF After
  <2> QED
    BY <1>4, <2>1, <2>2
<1>7. \A i \in 1 .. Len(t) : i = 1 \/ (i = 2 /\ i = Len(t))
  BY <1>4
<1>8. Piece(t, op, "SUCCESS", S)
  BY <1>5, <1>6, <1>7 DEF Piece
<1> QED
  BY <1>4, <1>8 DEF t, h, d

LEMMA ResultOf ==
    ASSUME NEW v \in Verdicts
    PROVE  LET t == Result(v)
           IN  t \in Seq(M) /\ Len(t) = 1 /\ t[1].kind = "res" /\ t[1].value = v
<1>1. Msg("res", v) \in M /\ Msg("res", v).kind = "res" /\ Msg("res", v).value = v
  BY MsgOf DEF Kinds, Values
<1> QED
  BY <1>1 DEF Result

\* The answer begins.
LEMMA AnswerResult ==
    ASSUME NEW v \in Verdicts, NEW it, NEW op, NEW S
    PROVE  LET t == Result(v)
           IN  /\ Answering(t, "result", it, op, v, S)
               /\ v = "SUCCESS" /\ AnswersWithList(op) => Listing(t, "result", op, v)
<1> DEFINE t == Result(v)
<1>1. t \in Seq(M) /\ Len(t) = 1 /\ t[1].kind = "res" /\ t[1].value = v
  BY ResultOf
<1> HIDE DEF t
<1>2. /\ t # <<>> /\ Due("result", it) = "res" /\ \A i \in 1 .. Len(t) : i = 1 /\ ~(i < Len(t))
      /\ \A i \in 1 .. Len(t) - 1 : FALSE
  <2>1. Due("result", it) = "res"
    BY DEF Due
  <2>2. t # <<>>
    <3>1. Len(<<>>) = 0 /\ Len(t) # 0
      BY <1>1
    <3> QED
      BY <3>1
  <2>3. ASSUME NEW i \in 1 .. Len(t) PROVE i = 1 /\ ~(i < Len(t))
    BY <1>1
  <2>4. ASSUME NEW i \in 1 .. Len(t) - 1 PROVE FALSE
    <3>1. i \in 1 .. 0
      <4>1. 1 - 1 = 0
        OBVIOUS
      <4> QED
        BY <1>1, <4>1
    <3> QED
      BY <3>1
  <2> QED
    BY <2>1, <2>2, <2>3, <2>4
<1>3. Answering(t, "result", it, op, v, S)
  BY <1>1, <1>2 DEF Answering, Told
<1>4. v = "SUCCESS" /\ AnswersWithList(op) => Listing(t, "result", op, v)
  BY <1>1, <1>2 DEF Listing, Closed
<1> QED
  BY <1>3, <1>4 DEF t

LEMMA AnswerFile ==
    ASSUME NEW n \in Int, NEW it, NEW op, AnswersWithFile(op), NEW S
    PROVE  LET t == Result("SUCCESS") \o <<Msg("size", n)>> \o Contents(n) \o Result("SUCCESS")
           IN  t \in Seq(M) /\ Answering(t, "result", it, op, "SUCCESS", S)
<1> DEFINE r == Result("SUCCESS")
           z == <<Msg("size", n)>>
           d == Contents(n)
           t1 == r \o z
           t2 == t1 \o d
           t == t2 \o r
           m == IF n = 0 THEN 0 ELSE 1
<1>0. "SUCCESS" \in Verdicts
  BY DEF Verdicts
<1>1. r \in Seq(M) /\ Len(r) = 1 /\ r[1].kind = "res" /\ r[1].value = "SUCCESS"
  BY <1>0, ResultOf
<1>2. z \in Seq(M) /\ Len(z) = 1 /\ z[1].kind = "size" /\ z[1].value = n
  <2>1. Msg("size", n) \in M /\ Msg("size", n).kind = "size" /\ Msg("size", n).value = n
    BY MsgOf DEF Kinds, Values
  <2> QED
    BY <2>1
<1>3. d \in Seq(M) /\ Len(d) = m /\ (n # 0 => d[1].kind = "data")
  BY ContentsOf, MsgOf
<1> HIDE DEF r, z, d
<1>4. /\ t1 \in Seq(M) /\ Len(t1) = 2 /\ t1[1] = r[1] /\ t1[2] = z[1]
  BY <1>1, <1>2, SeqAt
<1> HIDE DEF t1
<1>5. m \in {0, 1} /\ (m = 0 <=> n = 0)
  OBVIOUS
<1> HIDE DEF m
<1>6. /\ t2 \in Seq(M) /\ Len(t2) = 2 + m /\ t2[1] = r[1] /\ t2[2] = z[1]
      /\ m = 1 => t2[3] = d[1]
  <2>1. /\ t2 \in Seq(M) /\ Len(t2) = Len(t1) + Len(d)
        /\ \A i \in 1 .. Len(t2) : t2[i] = IF i <= Len(t1) THEN t1[i] ELSE d[i - Len(t1)]
    BY <1>3, <1>4, SeqAt
  <2> HIDE DEF t2
  <2>2. Len(t2) = 2 + m
    BY <1>3, <1>4, <2>1
  <2>3. 1 \in 1 .. Len(t2) /\ 2 \in 1 .. Len(t2) /\ (m = 1 => 3 \in 1 .. Len(t2)) /\ 3 - 2 = 1
    BY <1>5, <2>2
  <2> QED
    BY <1>4, <2>1, <2>2, <2>3
<1> HIDE DEF t2
<1>7. /\ t \in Seq(M) /\ Len(t) = 3 + m /\ t[1] = r[1] /\ t[2] = z[1]
      /\ m = 1 => t[3] = d[1]
      /\ t[3 + m] = r[1]
  <2>1. /\ t \in Seq(M) /\ Len(t) = Len(t2) + Len(r)
        /\ \A i \in 1 .. Len(t) : t[i] = IF i <= Len(t2) THEN t2[i] ELSE r[i - Len(t2)]
    BY <1>1, <1>6, SeqAt
  <2> HIDE DEF t
  <2>2. Len(t) = 3 + m
    BY <1>1, <1>5, <1>6, <2>1
  <2>3. /\ 1 \in 1 .. Len(t) /\ 2 \in 1 .. Len(t) /\ 3 \in 1 .. Len(t) /\ 3 + m \in 1 .. Len(t)
        /\ (3 + m) - (2 + m) = 1 /\ ~(3 + m <= 2 + m) /\ 2 <= 2 + m /\ 1 <= 2 + m
        /\ m = 1 => 3 <= 2 + m
    BY <1>5, <2>2
  <2> QED
    BY <1>6, <2>1, <2>2, <2>3
<1> HIDE DEF t
<1>8. /\ t[1].kind = "res" /\ t[1].value = "SUCCESS" /\ t[2].kind = "size" /\ t[2].value = n
      /\ m = 1 => t[3].kind = "data"
      /\ t[3 + m].kind = "res" /\ t[3 + m].value = "SUCCESS"
  BY <1>1, <1>2, <1>3, <1>5, <1>7
<1>9. \A i \in 1 .. Len(t) - 1 : t[i + 1].kind = After(op, t[i])
  <2>1. CASE m = 0
    <3>1. \A i \in 1 .. Len(t) - 1 : (i = 1 /\ i + 1 = 2) \/ (i = 2 /\ i + 1 = 3)
      BY <1>7, <2>1
    <3>2. t[3].kind = "res" /\ n = 0
      BY <1>5, <1>8, <2>1
    <3>3. t[2].kind = After(op, t[1]) /\ t[3].kind = After(op, t[2])
      BY <1>8, <3>2 DEF After, AfterFile
    <3> QED
      BY <3>1, <3>3
  <2>2. CASE m = 1
    <3>1. \A i \in 1 .. Len(t) - 1 :
              (i = 1 /\ i + 1 = 2) \/ (i = 2 /\ i + 1 = 3) \/ (i = 3 /\ i + 1 = 4)
      BY <1>7, <2>2
    <3>2. t[4].kind = "res" /\ n # 0
      BY <1>5, <1>8, <2>2
    <3>3. t[2].kind = After(op, t[1]) /\ t[3].kind = After(op, t[2]) /\ t[4].kind = After(op, t[3])
      BY <1>8, <2>2, <3>2 DEF After, AfterFile
    <3> QED
      BY <3>1, <3>3
  <2> QED
    BY <1>5, <2>1, <2>2
<1>10. ASSUME NEW i \in 1 .. Len(t) PROVE Told(t[i], i, t, "result", op, "SUCCESS", S)
  <2>1. i = 1 \/ i = 2 \/ (i = 3 /\ m = 1) \/ (i = 3 + m /\ ~(i < Len(t)))
    BY <1>5, <1>7
  <2> QED
    BY <1>8, <2>1 DEF Told, WithFiles
<1>11. t # <<>> /\ t[1].kind = Due("result", it)
  BY <1>5, <1>7, <1>8 DEF Due
<1>12. Answering(t, "result", it, op, "SUCCESS", S)
  BY <1>9, <1>10, <1>11 DEF Answering
<1> QED
  BY <1>7, <1>12 DEF t, t2, t1, r, z, d

-----------------------------------------------------------------------------
(***************************************************************************)
(* Files on their way.                                                     *)
(***************************************************************************)
LEMMA CarryTake ==
    ASSUME NEW a \in Seq(M), a # <<>>, NEW p, NEW it \in Values, NEW op, NEW v,
           NEW S, S \subseteq Files, NEW p2, NEW it2, NEW g \in Seq(Values), NEW d, NEW L,
           Answering(a, p, it, op, v, S), ReadsOn(p, it, op, a[1], p2, it2),
           Carried(a, p, it, g, d, L, S)
    PROVE  Carried(Tail(a), p2, it2, IF p = "lsize" THEN Append(g, it) ELSE g, d, L, S)
<1> DEFINE b == Tail(a)
           g2 == IF p = "lsize" THEN Append(g, it) ELSE g
<1>1. /\ Len(a) \in Nat /\ Len(a) > 0 /\ b \in Seq(M) /\ Len(b) = Len(a) - 1
      /\ \A i \in 1 .. Len(a) - 1 : b[i] = a[i + 1]
  BY HeadTail
<1>2. a[1].kind = Due(p, it) /\ Told(a[1], 1, a, p, op, v, S)
  BY <1>1 DEF Answering
<1>3. /\ \A i \in 1 .. Len(g) : i \in 1 .. Len(g2) /\ g2[i] = g[i]
      /\ p = "lsize" => Len(g2) \in 1 .. Len(g2) /\ g2[Len(g2)] = it
      /\ \A i \in 1 .. Len(g2) :
            (g2[i] = it /\ p = "lsize") \/ \E k \in 1 .. Len(g) : g2[i] = g[k]
  <2>1. CASE p = "lsize"
    <3>1. g2 = Append(g, it)
      BY <2>1
    <3>2. /\ Len(g2) = Len(g) + 1 /\ Len(g) \in Nat
          /\ \A i \in 1 .. Len(g) : g2[i] = g[i]
          /\ g2[Len(g) + 1] = it
      BY <3>1, Appended
    <3> HIDE DEF g2
    <3>3. \A i \in 1 .. Len(g2) : i \in 1 .. Len(g) \/ i = Len(g) + 1
      BY <3>2
    <3> QED
      BY <2>1, <3>2, <3>3
  <2>2. CASE p # "lsize"
    BY <2>2
  <2> QED
    BY <2>1, <2>2
<1> HIDE DEF b, g2
<1>4. ASSUME NEW f \in S PROVE OnItsWay(f, b, p2, it2, g2, d, L, S)
  <2>1. OnItsWay(f, a, p, it, g, d, L, S)
    BY DEF Carried
  <2>2. ASSUME NEW i \in 1 .. Len(a), a[i].kind = "path", a[i].value = f
        PROVE  OnItsWay(f, b, p2, it2, g2, d, L, S)
    <3>1. CASE i = 1
      <4>1. p = "lpath"
        BY <1>2, <2>2, <3>1 DEF Due
      <4>2. it2 = f /\ p2 = "lsize"
        BY <2>2, <3>1, <4>1, SessionAssumption DEF ReadsOn
      <4> QED
        BY <4>2 DEF OnItsWay
    <3>2. CASE i # 1
      <4>1. i - 1 \in 1 .. Len(b) /\ b[i - 1] = a[(i - 1) + 1] /\ (i - 1) + 1 = i
        BY <1>1, <3>2
      <4> QED
        BY <2>2, <4>1 DEF OnItsWay
    <3> QED
      BY <3>1, <3>2
  <2>3. ASSUME p = "lsize", it = f PROVE OnItsWay(f, b, p2, it2, g2, d, L, S)
    BY <1>3, <2>3 DEF OnItsWay
  <2>4. ASSUME NEW i \in 1 .. Len(g), g[i] = f PROVE OnItsWay(f, b, p2, it2, g2, d, L, S)
    BY <1>3, <2>4 DEF OnItsWay
  <2> QED
    BY <2>1, <2>2, <2>3, <2>4 DEF OnItsWay
<1>5. \A i \in 1 .. Len(g2) : g2[i] \in S
  BY <1>3 DEF Carried
<1>6. p2 = "lsize" => it2 \in S
  <2> SUFFICES ASSUME p2 = "lsize" PROVE it2 \in S
    OBVIOUS
  <2>1. p = "lpath" /\ it2 = a[1].value /\ it2 # NULL
    BY DEF ReadsOn
  <2> QED
    BY <1>2, <2>1 DEF Due, Told
<1>7. Carried(b, p2, it2, g2, d, L, S)
  BY <1>4, <1>5, <1>6 DEF Carried
<1> QED
  BY <1>7 DEF b, g2

LEMMA CarryGrow ==
    ASSUME NEW a \in Seq(M), NEW t \in Seq(M), NEW p, NEW it, NEW g, NEW d, NEW L, NEW L2, NEW S,
           Carried(a, p, it, g, d, L, S), L2 \subseteq L,
           \A f \in L \ L2 : Len(t) > 0 /\ t[1].kind = "path" /\ t[1].value = f
    PROVE  Carried(a \o t, p, it, g, d, L2, S)
<1> DEFINE b == a \o t
<1>1. /\ b \in Seq(M) /\ Len(b) = Len(a) + Len(t) /\ Len(a) \in Nat /\ Len(t) \in Nat
      /\ \A i \in 1 .. Len(b) : b[i] = IF i <= Len(a) THEN a[i] ELSE t[i - Len(a)]
  BY SeqAt
<1> HIDE DEF b
<1>2. ASSUME NEW f \in S PROVE OnItsWay(f, b, p, it, g, d, L2, S)
  <2>1. OnItsWay(f, a, p, it, g, d, L, S)
    BY DEF Carried
  <2>2. ASSUME NEW i \in 1 .. Len(a), a[i].kind = "path", a[i].value = f
        PROVE  OnItsWay(f, b, p, it, g, d, L2, S)
    <3>1. i \in 1 .. Len(b) /\ b[i] = a[i]
      BY <1>1
    <3> QED
      BY <2>2, <3>1 DEF OnItsWay
  <2>3. ASSUME f \in L \ L2 PROVE OnItsWay(f, b, p, it, g, d, L2, S)
    <3>1. Len(t) > 0 /\ t[1].kind = "path" /\ t[1].value = f
      BY <2>3
    <3>2. Len(a) + 1 \in 1 .. Len(b) /\ ~(Len(a) + 1 <= Len(a)) /\ (Len(a) + 1) - Len(a) = 1
      BY <1>1, <3>1
    <3>3. b[Len(a) + 1] = t[1]
      BY <1>1, <3>2
    <3> QED
      BY <3>1, <3>2, <3>3 DEF OnItsWay
  <2> QED
    BY <2>1, <2>2, <2>3 DEF OnItsWay
<1>3. Carried(b, p, it, g, d, L2, S)
  BY <1>2 DEF Carried
<1> QED
  BY <1>3 DEF b

LEMMA CarrySave ==
    ASSUME NEW a, NEW p, NEW it, NEW g \in Seq(Values), g # <<>>, NEW d, NEW L, NEW S,
           Carried(a, p, it, g, d, L, S)
    PROVE  Carried(a, p, it, Tail(g), WriteOne(d, Head(g)), L, S)
<1> DEFINE g2 == Tail(g)
           d2 == WriteOne(d, Head(g))
<1>1. /\ Len(g) \in Nat /\ Len(g) > 0 /\ Head(g) = g[1] /\ Len(g2) = Len(g) - 1
      /\ \A i \in 1 .. Len(g) - 1 : g2[i] = g[i + 1]
  BY HeadTail
<1>2. g[1] \in S /\ <<BaseName[g[1]], g[1]>> \in d2
  BY <1>1 DEF WriteOne, Carried
<1>3. \A s \in d : s \in d2 \/ s[1] = BaseName[g[1]]
  BY <1>1 DEF WriteOne
<1> HIDE DEF g2, d2
<1>4. ASSUME NEW f \in S PROVE OnItsWay(f, a, p, it, g2, d2, L, S)
  <2>1. OnItsWay(f, a, p, it, g, d, L, S)
    BY DEF Carried
  <2>2. ASSUME NEW i \in 1 .. Len(g), g[i] = f PROVE OnItsWay(f, a, p, it, g2, d2, L, S)
    <3>1. CASE i = 1
      <4>1. Kept(f, d2, S)
        BY <1>2, <2>2, <3>1 DEF Kept
      <4> QED
        BY <4>1 DEF OnItsWay
    <3>2. CASE i # 1
      <4>1. i - 1 \in 1 .. Len(g2) /\ g2[i - 1] = g[(i - 1) + 1] /\ (i - 1) + 1 = i
        BY <1>1, <3>2
      <4> QED
        BY <2>2, <4>1 DEF OnItsWay
    <3> QED
      BY <3>1, <3>2
  <2>3. ASSUME Kept(f, d, S) PROVE OnItsWay(f, a, p, it, g2, d2, L, S)
    <3>1. PICK h \in S : BaseName[h] = BaseName[f] /\ <<BaseName[h], h>> \in d
      BY <2>3 DEF Kept
    <3>2. <<BaseName[h], h>> \in d2 \/ BaseName[h] = BaseName[g[1]]
      <4>1. <<BaseName[h], h>>[1] = BaseName[h]
        OBVIOUS
      <4> QED
        BY <1>3, <3>1, <4>1
    <3>3. Kept(f, d2, S)
      BY <1>2, <3>1, <3>2 DEF Kept
    <3> QED
      BY <3>3 DEF OnItsWay
  <2> QED
    BY <2>1, <2>2, <2>3 DEF OnItsWay
<1>5. \A i \in 1 .. Len(g2) : g2[i] \in S
  <2> SUFFICES ASSUME NEW i \in 1 .. Len(g) - 1 PROVE g2[i] \in S
    BY <1>1
  <2>1. i + 1 \in 1 .. Len(g) /\ g2[i] = g[i + 1]
    BY <1>1
  <2> QED
    BY <2>1 DEF Carried
<1>6. Carried(a, p, it, g2, d2, L, S)
  BY <1>4, <1>5 DEF Carried
<1> QED
  BY <1>6 DEF g2, d2

\* When the list is saved every file is.
LEMMA CarryEnd ==
    ASSUME NEW p, p # "lsize", NEW it, NEW d, NEW S,
           Carried(<<>>, p, it, <<>>, d, {}, S), NEW f \in S
    PROVE  <<BaseName[f], f>> \in d \/ \E g \in S \ {f} : BaseName[g] = BaseName[f]
<1>1. OnItsWay(f, <<>>, p, it, <<>>, d, {}, S)
  BY DEF Carried
<1>2. ~(\E i \in 1 .. Len(<<>>) : TRUE)
  OBVIOUS
<1>3. Kept(f, d, S)
  BY <1>1, <1>2 DEF OnItsWay
<1> QED
  BY <1>3 DEF Kept

-----------------------------------------------------------------------------
(***************************************************************************)
(* Types.                                                                  *)
(***************************************************************************)
LEMMA RefusalsType ==
    ASSUME NEW op \in OpCodes, NEW flags
    PROVE  RefusalsOf(op, flags) \subseteq Verdicts
  BY DEF RefusalsOf, OpCodes, Verdicts, Refusals

LEMMA Verdict == {"SUCCESS", "ERROR", "CLOSE"} \subseteq Verdicts
  BY DEF Verdicts

\* The library and its user.
LEMMA LibraryTypes ==
    ASSUME SessionInv, [LibraryStep \/ (\E c : CallOk(c) /\ BeginCall(c))
                          \/ (\E sec : openConnection(sec)) \/ closeConnection \/ Die]_sessionVars
    PROVE  SessionTypes'
<1> USE DEF SessionInv, SessionCore
<1>1. CASE SendField
  <2>1. out # <<>>
    <3>1. Asked
      BY <1>1 DEF SendField, AnsweredOk, Answering, Answered, Asked, Calling
    <3> QED
      BY <1>1, <3>1 DEF AskedOk, SendField
  <2>2. Head(out) \in M /\ Tail(out) \in Seq(M)
    BY <2>1, HeadTail DEF SessionTypes
  <2>3. c2s' \in Seq(M)
    BY <1>1, <2>2, Appended DEF SendField, SessionTypes
  <2>4. Asked /\ RequestOk(call)
    BY <1>1 DEF SendField, AnsweredOk, Answering, Answered, Asked, Calling, Ends
  <2>5. last_op' \in [is_open : BOOLEAN, create : BOOLEAN, lock : BOOLEAN, success : BOOLEAN,
                      path : Files \cup {NULL}]
    <3>1. call.create \in BOOLEAN /\ call.lock \in BOOLEAN /\ call.path \in Files \cup {NULL}
      BY <2>4 DEF RequestOk, CallOk
    <3>2. [is_open |-> TRUE, create |-> call.create, lock |-> call.lock, success |-> FALSE,
           path |-> call.path]
             \in [is_open : BOOLEAN, create : BOOLEAN, lock : BOOLEAN, success : BOOLEAN,
                  path : Files \cup {NULL}]
      BY <3>1
    <3>3. \/ last_op' = last_op
          \/ last_op' = [is_open |-> TRUE, create |-> call.create, lock |-> call.lock,
                         success |-> FALSE, path |-> call.path]
      BY <1>1 DEF SendField
    <3> QED
      BY <3>2, <3>3 DEF SessionTypes
  <2>6. pc' \in Places
    BY <1>1 DEF SendField, SessionTypes, Places
  <2> QED
    BY <1>1, <2>2, <2>3, <2>5, <2>6 DEF SendField, SessionTypes, socket, worker, history
<1>2. ASSUME Take PROVE s2c' \in Seq(M) /\ Value \in Values
  <2>1. Head(s2c) \in M /\ Tail(s2c) \in Seq(M)
    BY <1>2, HeadTail DEF Take, SessionTypes
  <2> QED
    BY <1>2, <2>1 DEF Take, Value, M
<1>3. NULL \in Values /\ <<>> \in Seq(M) /\ <<>> \in Seq(Values)
  BY DEF Values
<1>4. CASE ReadResult
  <2>1. last_op' \in [is_open : BOOLEAN, create : BOOLEAN, lock : BOOLEAN, success : BOOLEAN,
                      path : Files \cup {NULL}]
    BY <1>4 DEF ReadResult, SessionTypes, locals, Return
  <2>2. pc' \in Places
    BY <1>4 DEF ReadResult, Return, Places
  <2> QED
    BY <1>2, <1>3, <1>4, <2>1, <2>2
       DEF ReadResult, Return, Take, SessionTypes, locals, socket, worker, history
<1>5. CASE ReadSize \/ ReadContents \/ ReadListPath \/ ReadListData
  <2>1. pc' \in Places /\ Take
    BY <1>5 DEF ReadSize, ReadContents, ReadListPath, ReadListData, Places
  <2> QED
    BY <1>2, <1>3, <1>5, <2>1 DEF ReadSize, ReadContents, ReadListPath, ReadListData, Take,
       SessionTypes, locals, socket, worker, history
<1>6. CASE ReadListSize
  <2>1. pc' \in Places /\ Take
    BY <1>6 DEF ReadListSize, Places
  <2>2. got' \in Seq(Values)
    BY <1>6, Appended DEF ReadListSize, SessionTypes
  <2> QED
    BY <1>2, <1>3, <1>6, <2>1, <2>2 DEF ReadListSize, Take, SessionTypes, socket, worker, history
<1>7. CASE ReadFinal
  <2>1. pc' \in Places /\ Take
    BY <1>7 DEF ReadFinal, Return, Places
  <2>2. out' \in Seq(M) /\ item' \in Values /\ got' \in Seq(Values)
    BY <1>3, <1>7 DEF ReadFinal, Return, locals, SessionTypes
  <2>3. UNCHANGED <<saved, waiting, c2s, socket, worker, history, last_op>> /\ s2c' \in Seq(M)
    BY <1>2, <1>7 DEF ReadFinal, Take
  <2> QED
    BY <2>1, <2>2, <2>3 DEF SessionTypes, socket, worker, history
<1>8. CASE ReadNoContents \/ ReadEof \/ SaveNowhere \/ NoDirectory \/ Saved
  <2>1. pc' \in Places /\ out' = <<>> /\ item' = NULL /\ got' = <<>>
    BY <1>8 DEF ReadNoContents, ReadEof, SaveNowhere, NoDirectory, Saved, Return, Places
  <2> QED
    BY <1>3, <1>8, <2>1 DEF ReadNoContents, ReadEof, SaveNowhere, NoDirectory, Saved, Return,
       SessionTypes, socket, worker, history
<1>9. CASE SaveFile
  <2>1. got' \in Seq(Values)
    BY <1>9, HeadTail DEF SaveFile, SessionTypes
  <2> QED
    BY <1>9, <2>1 DEF SaveFile, SessionTypes, socket, worker, history
<1>10. CASE Connected \/ ConnectFails
  <2>1. pc' \in Places
    BY <1>10 DEF Connected, ConnectFails, SessionTypes, Places
  <2> QED
    BY <1>3, <1>10, <2>1
       DEF Connected, ConnectFails, SessionTypes, locals, socket, worker, history
<1>11. CASE Die
  <2>1. pc' \in Places
    BY <1>11 DEF Die, Places
  <2>2. last_op' \in [is_open : BOOLEAN, create : BOOLEAN, lock : BOOLEAN, success : BOOLEAN,
                      path : Files \cup {NULL}]
    BY <1>11 DEF Die, NoOp
  <2> QED
    BY <1>3, <1>11, <2>1, <2>2 DEF Die, SessionTypes, worker
<1>12. ASSUME NEW c, CallOk(c), Reject(c) PROVE SessionTypes'
  <2>1. last_op' \in [is_open : BOOLEAN, create : BOOLEAN, lock : BOOLEAN, success : BOOLEAN,
                      path : Files \cup {NULL}]
    BY <1>12 DEF Reject, NoOp, SessionTypes
  <2> QED
    BY <1>12, <2>1 DEF Reject, SessionTypes, locals, socket, worker, history
<1>13. ASSUME NEW c, CallOk(c), Start(c) PROVE SessionTypes'
  <2>1. last_op' \in [is_open : BOOLEAN, create : BOOLEAN, lock : BOOLEAN, success : BOOLEAN,
                      path : Files \cup {NULL}]
    BY <1>13 DEF Start, NoOp, SessionTypes
  <2>2. RequestOk(c)
    BY <1>13 DEF Start, LocalError, RequestOk, CallOk
  <2>3. out' \in Seq(M)
    BY <1>13, <2>2, RequestFields DEF Start
  <2>4. pc' \in Places
    BY <1>13 DEF Start, Places
  <2> QED
    BY <1>3, <1>13, <2>1, <2>3, <2>4 DEF Start, SessionTypes, socket, worker
<1>14. CASE (\E sec : openConnection(sec)) \/ closeConnection
  <2>1. pc' \in Places
    BY <1>14 DEF openConnection, closeConnection, SessionTypes, Places
  <2> QED
    BY <1>14, <2>1
       DEF openConnection, closeConnection, SessionTypes, locals, socket, worker, history
<1>15. CASE UNCHANGED sessionVars
  BY <1>15 DEF sessionVars, sessionButSaved, SessionTypes
<1> QED
  BY <1>1, <1>4, <1>5, <1>6, <1>7, <1>8, <1>9, <1>10, <1>11, <1>12, <1>13, <1>14, <1>15
     DEF LibraryStep, BrokenPipe, BeginCall

\* The worker and the server.
LEMMA WorkerTypes ==
    ASSUME SessionInv, WorkerStep \/ ServerStops \/ ServerStarts
    PROVE  SessionTypes'
<1> USE DEF SessionInv, SessionCore
<1>0. UNCHANGED <<fd_sock, last_op, pc, out, got, item, clientEnd>>
  BY DEF WorkerStep, ServerStops, ServerStarts, ReadOp, HangUp, ReadField, SkipData, FieldMissing,
         Refuse, FailsEmpty, Succeed, Answer, SendFile, EndList, WriteField, JobDone, CloseClient,
         Library, locals, socket
<1> DEFINE Rem == /\ listening' \in BOOLEAN
                  /\ c2s' \in Seq(M) /\ s2c' \in Seq(M)
                  /\ serverEnd' \in {"none", "open", "closed"}
                  /\ job' \in JobT
                  /\ served' \in Verdicts \cup {NULL} /\ sent' \subseteq Stored
                  /\ opened' \in Files \cup {NULL}
<1> SUFFICES Rem
  BY <1>0 DEF SessionTypes
<1>1. NoJob \in JobT
  BY DEF NoJob, JobT
<1>2. c2s # <<>> => Head(c2s) \in M /\ Tail(c2s) \in Seq(M) /\ Head(c2s).value \in Values
  <2>1. c2s # <<>> => Head(c2s) \in M /\ Tail(c2s) \in Seq(M)
    BY HeadTail DEF SessionTypes
  <2> QED
    BY <2>1 DEF M
<1>3. PICK c : Flow(c, c2s, out, job, opened)
  BY DEF Flows
<1>a. c2s \in Seq(M) /\ out \in Seq(M) /\ job \in JobT
  BY DEF SessionTypes
<1>b. RequestOk(c) /\ c.op \in OpCodes /\ (c.op # "READ_N_FILES" => c.path \in Files)
  BY <1>3 DEF Flow, RequestOk
<1>c. job.pc = "read" /\ job.want = <<>> => Known(c, job, opened)
  <2> HIDE DEF SessionInv, SessionCore
  <2> QED
    BY <1>a, <1>3, FlowRequest
<1>4. CASE ReadOp
  <2>1. Head(c2s).value \in OpCodes /\ Fields(Head(c2s).value) \in Seq(Kinds)
    <3>1. TakesOp(c, c2s, out, job, opened, job')
      BY <1>a, <1>3, <1>4 DEF ReadOp, NoJob, TakesOp
    <3> HIDE DEF SessionInv, SessionCore
    <3>2. Head(c2s).value = c.op
      BY <3>1, FlowOp
    <3> QED
      BY <1>b, <3>2, FieldsOf
  <2>2. job' \in JobT
    BY <1>1, <1>4, <2>1 DEF ReadOp, JobT
  <2> QED
    BY <1>2, <1>4, <2>2 DEF ReadOp, SessionTypes, history
<1>5. CASE HangUp \/ JobDone
  BY <1>1, <1>5 DEF HangUp, JobDone, SessionTypes, JobT, history
<1>6. CASE ReadField
  <2>1. Append(job.args, Head(c2s).value) \in Seq(Values)
    BY <1>2, <1>6, Appended DEF ReadField, SessionTypes, JobT
  <2>2. Tail(job.want) \in Seq(Kinds)
    BY <1>6, HeadTail DEF ReadField, SessionTypes, JobT
  <2>3. job' \in JobT
    BY <1>6, <2>1, <2>2 DEF ReadField, SessionTypes, JobT
  <2> QED
    BY <1>2, <1>6, <2>3 DEF ReadField, SessionTypes, history
<1>7. CASE SkipData
  <2>1. job' \in JobT
    <3>1. job' = [job EXCEPT !.want = <<>>] /\ <<>> \in Seq(Kinds)
      BY <1>7 DEF SkipData
    <3> HIDE DEF SessionInv, SessionCore
    <3> QED
      BY <1>a, <3>1 DEF JobT
  <2> QED
    BY <1>7, <2>1 DEF SkipData, SessionTypes, history
<1>8. CASE FieldMissing
  <2>1. Result("CLOSE") \in Seq(M) /\ "CLOSE" \in Verdicts
    BY ResultOf, Verdict
  <2>2. job' \in JobT
    BY <1>8, <2>1 DEF FieldMissing, SessionTypes, JobT
  <2> QED
    BY <1>8, <2>1, <2>2 DEF FieldMissing, SessionTypes
<1>9. ASSUME NEW next \in {"list", "write"}, NEW res \in Verdicts, NEW fields \in Seq(M),
             NEW S \in SUBSET Stored, job.pc = "read", job.want = <<>>,
             Answer(next, res, fields, S)
      PROVE  Rem
  <2>1. job' \in JobT
    BY <1>9 DEF Answer, SessionTypes, JobT
  <2>2. opened' \in Files \cup {NULL}
    <3>1. job.op = "OPEN_FILE" => job.args[1] \in Files
      <4> HIDE DEF SessionInv, SessionCore
      <4>1. job.op = c.op /\ (c.op # "READ_N_FILES" => job.args[1] = c.path)
        BY <1>c, <1>9 DEF Known
      <4> QED
        BY <1>b, <4>1
    <3> QED
      BY <1>9, <3>1 DEF Answer
  <2> QED
    BY <1>9, <2>1, <2>2 DEF Answer, SessionTypes
<1>10. CASE Refuse
  <2>1. job.pc = "read" /\ job.want = <<>>
    BY <1>10 DEF Refuse
  <2>2. job.op \in OpCodes
    <3> HIDE DEF SessionInv, SessionCore
    <3>1. job.op = c.op
      BY <1>c, <2>1 DEF Known
    <3> QED
      BY <1>b, <3>1
  <2>3. PICK res \in RefusalsOf(job.op, Last(job.args)) : Answer("write", res, Result(res), {})
    BY <1>10 DEF Refuse
  <2>4. res \in Verdicts
    BY <2>2, RefusalsType
  <2>5. Result(res) \in Seq(M) /\ {} \in SUBSET Stored
    BY <2>4, ResultOf
  <2> QED
    BY <1>9, <2>1, <2>3, <2>4, <2>5
<1>11. CASE FailsEmpty
  <2>1. Result("ERROR") \in Seq(M) /\ {} \in SUBSET Stored /\ "ERROR" \in Verdicts
    BY ResultOf, Verdict
  <2> QED
    BY <1>9, <1>11, <2>1 DEF FailsEmpty
<1>12. CASE Succeed
  <2>1. Result("SUCCESS") \in Seq(M) /\ {} \in SUBSET Stored /\ "SUCCESS" \in Verdicts
    BY ResultOf, Verdict
  <2>2. ASSUME AnswersWithFile(job.op), NEW n \in RemoteSizes,
               Answer("write", "SUCCESS", Result("SUCCESS") \o <<Msg("size", n)>> \o Contents(n)
                                            \o Result("SUCCESS"), {})
        PROVE  Rem
    <3>1. Result("SUCCESS") \o <<Msg("size", n)>> \o Contents(n) \o Result("SUCCESS") \in Seq(M)
      BY <2>2, SessionAssumption, AnswerFile
    <3> QED
      BY <1>9, <1>12, <2>1, <2>2, <3>1 DEF Succeed
  <2>3. ASSUME NEW S \in SUBSET Stored, Answer("list", "SUCCESS", Result("SUCCESS"), S)
        PROVE  Rem
    BY <1>9, <1>12, <2>1, <2>3 DEF Succeed
  <2>4. CASE Answer("write", "SUCCESS", Result("SUCCESS"), {})
    BY <1>9, <1>12, <2>1, <2>4 DEF Succeed
  <2>5. (IF NoOpAppend THEN {{}} ELSE SendableBy(job.op, job.args)) \subseteq SUBSET Stored
    BY DEF SendableBy
  <2> QED
    BY <1>12, <2>2, <2>3, <2>4, <2>5 DEF Succeed
<1>13. CASE SendFile
  <2>1. PICK f \in job.left, n \in RemoteSizes :
            job' = [job EXCEPT !.out = FileFields(f, n), !.left = @ \ {f}]
    BY <1>13 DEF SendFile
  <2>2. f \in Files /\ n \in Int
    BY SessionAssumption DEF SessionTypes, JobT
  <2>3. FileFields(f, n) \in Seq(M)
    <3>1. AnswersWithList("READ_N_FILES") /\ f \in Files
      BY <2>2 DEF AnswersWithList
    <3> QED
      BY <2>2, <3>1, FileOf
  <2>4. job' \in JobT
    BY <2>1, <2>3 DEF SessionTypes, JobT
  <2> QED
    BY <1>13, <2>4 DEF SendFile, SessionTypes, history
<1>14. CASE EndList
  <2>1. <<Msg("path", NULL)>> \o Result("SUCCESS") \in Seq(M)
    BY EndOf
  <2>2. job' \in JobT
    BY <1>14, <2>1 DEF EndList, SessionTypes, JobT
  <2> QED
    BY <1>14, <2>2 DEF EndList, SessionTypes, history
<1>15. CASE WriteField
  <2>1. Head(job.out) \in M /\ Tail(job.out) \in Seq(M)
    BY <1>15, HeadTail DEF WriteField, SessionTypes, JobT
  <2>2. Append(s2c, Head(job.out)) \in Seq(M)
    BY <2>1, Appended DEF SessionTypes
  <2>3. job' \in JobT
    <3>1. \/ job' = [job EXCEPT !.out = Tail(@)]
          \/ job' = [job EXCEPT !.pc = "close", !.out = <<>>, !.left = {}]
      BY <1>15 DEF WriteField
    <3>2. <<>> \in Seq(M)
      OBVIOUS
    <3> HIDE DEF SessionInv, SessionCore
    <3> QED
      BY <1>a, <2>1, <3>1, <3>2 DEF JobT
  <2>4. s2c' \in Seq(M)
    BY <1>15, <2>2 DEF WriteField, SessionTypes
  <2> QED
    BY <1>15, <2>3, <2>4 DEF WriteField, SessionTypes, history
<1>16. CASE CloseClient
  BY <1>1, <1>16 DEF CloseClient, SessionTypes, history
<1>17. CASE ServerStops \/ ServerStarts
  BY <1>17 DEF ServerStops, ServerStarts, SessionTypes, history
<1> QED
  BY <1>4, <1>5, <1>6, <1>7, <1>8, <1>10, <1>11, <1>12, <1>13, <1>14, <1>15, <1>16, <1>17
     DEF WorkerStep

-----------------------------------------------------------------------------
(***************************************************************************)
(* Where things stand.                                                     *)
(***************************************************************************)
LEMMA Typed ==
    ASSUME SessionInv
    PROVE  /\ c2s \in Seq(M) /\ out \in Seq(M) /\ s2c \in Seq(M) /\ job.out \in Seq(M)
           /\ Ahead \in Seq(M)
           /\ got \in Seq(Values) /\ item \in Values /\ job \in JobT /\ sent \subseteq Files
           /\ job.args \in Seq(Values) /\ job.left \subseteq Stored
           /\ Stored \subseteq Files /\ NULL \notin Files /\ sent \subseteq Stored
<1>1. /\ c2s \in Seq(M) /\ out \in Seq(M) /\ s2c \in Seq(M) /\ got \in Seq(Values)
      /\ item \in Values /\ job \in JobT /\ sent \subseteq Stored
  BY DEF SessionInv, SessionTypes
<1>2. job.out \in Seq(M) /\ job.args \in Seq(Values) /\ job.left \subseteq Stored
  BY <1>1 DEF JobT
<1>3. Ahead \in Seq(M)
  BY <1>1, <1>2, SeqAt DEF Ahead
<1> QED
  BY <1>1, <1>2, <1>3, SessionAssumption

LEMMA Situation ==
    ASSUME SessionInv
    PROVE  /\ pc = "send" => Asked /\ out # <<>>
           /\ pc \in {"size", "contents", "lpath", "lsize", "ldata", "final", "save"} => Answered
           /\ s2c # <<>> => ~Asked
           /\ job.pc = "read" => Asked \/ pc = "dead"
           /\ Asked => clientEnd = "open"
           /\ pc # "send" => out = <<>>
<1> USE DEF SessionInv, SessionCore
<1>1. pc = "send" => Asked /\ out # <<>>
  <2>1. Answered => pc # "send"
    BY DEF AnsweredOk, Answering
  <2> QED
    BY <2>1 DEF Answered, Asked, Calling, AskedOk
<1>2. pc \in {"size", "contents", "lpath", "lsize", "ldata", "final", "save"} => Answered
  BY DEF Answered, Asked, Calling, AskedOk
<1>3. s2c # <<>> => ~Asked
  BY DEF AskedOk
<1>4. job.pc = "read" => Asked \/ pc = "dead"
  BY DEF QuietOk, Ends, Rest, Goes, Answered, Asked, Calling
<1>5. Asked => clientEnd = "open"
  BY DEF Ends, Asked
<1>6. pc # "send" => out = <<>>
  BY DEF AskedOk, QuietOk
<1> QED
  BY <1>1, <1>2, <1>3, <1>4, <1>5, <1>6

\* The field that is read is the first one ahead.
LEMMA TakeAhead ==
    ASSUME SessionInv, s2c # <<>>
    PROVE  /\ Ahead # <<>> /\ Head(s2c) = Ahead[1] /\ Tail(s2c) \o job.out = Tail(Ahead)
  BY Typed, SeqTake DEF Ahead

-----------------------------------------------------------------------------
(***************************************************************************)
(* The library reads on.                                                   *)
(***************************************************************************)
ReadOnward ==
    /\ Answered /\ s2c # <<>> /\ s2c' = Tail(s2c)
    /\ ReadsOn(pc, item, call.op, Head(s2c), pc', item')
    /\ got' = IF pc = "lsize" THEN Append(got, item) ELSE got
    /\ UNCHANGED <<call, out, last_op, ret, saved, waiting, c2s, socket, worker, history>>

LEMMA ReadOnwardCore == ASSUME SessionInv, ReadOnward PROVE SessionCore'
<1> DEFINE p2 == pc'
           i2 == item'
           g2 == got'
<1>1. /\ Answered /\ s2c # <<>> /\ s2c' = Tail(s2c) /\ got' = IF pc = "lsize" THEN Append(got, item) ELSE got
      /\ call' = call /\ out' = out /\ last_op' = last_op /\ ret' = ret /\ saved' = saved
      /\ c2s' = c2s /\ fd_sock' = fd_sock /\ clientEnd' = clientEnd /\ serverEnd' = serverEnd
      /\ job' = job /\ served' = served /\ sent' = sent /\ opened' = opened
      /\ ReadsOn(pc, item, call.op, Ahead[1], pc', item')
  BY TakeAhead DEF ReadOnward, socket, worker, history
<1>2. Ahead # <<>> /\ Ahead' = Tail(Ahead)
  <2>1. Ahead' = s2c' \o job'.out
    BY DEF Ahead
  <2> QED
    BY <1>1, <2>1, TakeAhead
<1>3. pc' \in {"size", "contents", "lpath", "lsize", "ldata", "final", "save"}
  BY <1>1 DEF ReadsOn
<1>4. Calling' /\ ~Rest' /\ Answered' /\ ~Asked' /\ ~Asked /\ Calling
  BY <1>1, <1>3 DEF Calling, Rest, Goes, Answered, Asked
<1>5. Answering(Ahead, pc, item, call.op, served, sent)
  BY <1>1 DEF SessionInv, SessionCore, AnsweredOk
<1>6. /\ Answering(Tail(Ahead), pc', item', call.op, served, sent)
      /\ Listing(Ahead, pc, call.op, served) => Listing(Tail(Ahead), pc', call.op, served)
  BY <1>1, <1>2, <1>5, Typed, AnswerTake
<1>7. AnsweredOk'
  <2>1. /\ job.pc = "list" => Listing(Ahead, pc, call.op, served)
        /\ job.pc \in {"list", "write"} => job.res = served
        /\ job.pc = "close" => EndsConnection(served)
    BY <1>1 DEF SessionInv, SessionCore, AnsweredOk
  <2>2. AnsweredOk' = (Answered' =>
          /\ Answering(Ahead', pc', item', call'.op, served', sent')
          /\ job'.pc = "list" => Listing(Ahead', pc', call'.op, served')
          /\ job'.pc \in {"list", "write"} => job'.res = served'
          /\ job'.pc = "close" => EndsConnection(served'))
    BY DEF AnsweredOk
  <2> QED
    BY <1>1, <1>2, <1>6, <2>1, <2>2
<1>8. FilesOk'
  <2> SUFFICES ASSUME AnswersWithList(call.op)
               PROVE  Carried(Ahead', pc', item', got', saved', Left', sent')
    BY <1>1 DEF FilesOk
  <2>1. Carried(Ahead, pc, item, got, saved, Left, sent)
    BY <1>1 DEF SessionInv, SessionCore, FilesOk
  <2>2. Carried(Tail(Ahead), pc', item', IF pc = "lsize" THEN Append(got, item) ELSE got, saved,
                Left, sent)
    BY <1>1, <1>2, <1>5, <2>1, Typed, CarryTake
  <2>3. Left' = Left
    BY <1>1 DEF Left
  <2> QED
    BY <1>1, <1>2, <2>2, <2>3
<1>9. Ends' /\ Flows' /\ AskedOk' /\ QuietOk'
  <2>1. Ends'
    BY <1>1, <1>3, <1>4 DEF SessionInv, SessionCore, Ends
  <2>2. Flows'
    BY <1>1 DEF SessionInv, SessionCore, Flows
  <2>3. AskedOk'
    BY <1>4 DEF AskedOk
  <2>4. QuietOk'
    BY <1>1, <1>4 DEF SessionInv, SessionCore, QuietOk
  <2> QED
    BY <2>1, <2>2, <2>3, <2>4
<1>10. OpenOk'
  <2>1. call.op # "OPEN_FILE"
    <3>1. WithFiles(call.op)
      BY <1>1, <1>5 DEF ReadsOn, Answering
    <3> QED
      BY <3>1 DEF WithFiles, AnswersWithFile, AnswersWithList
  <2> QED
    BY <1>1, <1>4, <2>1 DEF SessionInv, SessionCore, OpenOk
<1>11. OutcomeTold' /\ NothingLost'
  BY <1>3 DEF OutcomeTold, NothingLost
<1> QED
  BY <1>7, <1>8, <1>9, <1>10, <1>11 DEF SessionCore

LEMMA ReadingGoesOn ==
    ASSUME SessionInv
    PROVE  /\ ReadSize \/ ReadContents \/ ReadListPath \/ ReadListSize \/ ReadListData => ReadOnward
           /\ ReadResult => ReadOnward \/ (/\ pc = "result" /\ Take
                                           /\ Value # "SUCCESS" \/ ~WithFiles(call.op)
                                           /\ Return(convert_res_to_errno(Value))
                                           /\ last_op' = IF call.op = "OPEN_FILE"
                                                THEN [last_op EXCEPT !.success = (Value = "SUCCESS")]
                                                ELSE last_op)
           /\ ReadFinal => ReadOnward \/ (/\ pc = "final" /\ Take
                                          /\ Value # "SUCCESS" \/ AnswersWithFile(call.op)
                                          /\ Return(convert_res_to_errno(Value))
                                          /\ UNCHANGED last_op)
<1>0. pc \in {"size", "contents", "lpath", "lsize", "ldata", "final", "save"} => Answered
  BY Situation
<1>1. pc = "result" /\ s2c # <<>> => Answered
  BY Situation DEF Answered, Asked, Calling
<1>2. CASE ReadSize
  BY <1>0, <1>2 DEF ReadSize, Take, Value, ReadOnward, ReadsOn
<1>3. CASE ReadContents
  BY <1>0, <1>3 DEF ReadContents, Take, Value, ReadOnward, ReadsOn, locals
<1>4. CASE ReadListPath
  BY <1>0, <1>4 DEF ReadListPath, Take, Value, ReadOnward, ReadsOn
<1>5. CASE ReadListSize
  BY <1>0, <1>5 DEF ReadListSize, Take, Value, ReadOnward, ReadsOn
<1>6. CASE ReadListData
  BY <1>0, <1>6 DEF ReadListData, Take, Value, ReadOnward, ReadsOn, locals
<1>7. ASSUME ReadResult, Value = "SUCCESS", WithFiles(call.op),
             pc' = IF AnswersWithFile(call.op) THEN "size" ELSE "lpath",
             UNCHANGED <<locals, ret, last_op>>
      PROVE  ReadOnward
  BY <1>1, <1>7 DEF ReadResult, Take, Value, ReadOnward, ReadsOn, locals
<1>8. ASSUME ReadFinal, Value = "SUCCESS", AnswersWithList(call.op), pc' = "save",
             UNCHANGED <<locals, ret, last_op>>
      PROVE  ReadOnward
  BY <1>0, <1>8 DEF ReadFinal, Take, Value, ReadOnward, ReadsOn, locals
<1>9. ReadResult => ReadOnward \/ (/\ pc = "result" /\ Take
                                   /\ Value # "SUCCESS" \/ ~WithFiles(call.op)
                                   /\ Return(convert_res_to_errno(Value))
                                   /\ last_op' = IF call.op = "OPEN_FILE"
                                        THEN [last_op EXCEPT !.success = (Value = "SUCCESS")]
                                        ELSE last_op)
  BY <1>7 DEF ReadResult, WithFiles
<1>10. ReadFinal => ReadOnward \/ (/\ pc = "final" /\ Take
                                   /\ Value # "SUCCESS" \/ AnswersWithFile(call.op)
                                   /\ Return(convert_res_to_errno(Value))
                                   /\ UNCHANGED last_op)
  BY <1>8 DEF ReadFinal
<1> QED
  BY <1>2, <1>3, <1>4, <1>5, <1>6, <1>9, <1>10

-----------------------------------------------------------------------------
(***************************************************************************)
(* A function returns.                                                     *)
(***************************************************************************)
LEMMA Converted ==
    ASSUME NEW v \in Verdicts
    PROVE  /\ EndsConnection(v) <=> Fatal(convert_res_to_errno(v))
           /\ convert_res_to_errno(v) = "0" <=> v = "SUCCESS"
  BY DEF Verdicts, Refusals, EndsConnection, Fatal, convert_res_to_errno

LEMMA ReturnCore ==
    ASSUME SessionInv, NEW errno, Return(errno), Calling, pc # "send",
           UNCHANGED <<saved, waiting, c2s, socket, worker, history>>,
           \/ Fatal(errno) /\ (serverEnd = "closed" \/ Answered)
           \/ /\ ~Fatal(errno) /\ Answered /\ s2c' = <<>> /\ job.out = <<>>
              /\ job.pc \notin {"list", "close"}
              /\ job.pc = "write" => ~EndsConnection(job.res),
           ~Fatal(errno) /\ last_op'.is_open /\ last_op'.create /\ last_op'.lock /\ last_op'.success
              => opened = last_op'.path,
           \/ served # NULL /\ errno = convert_res_to_errno(served)
           \/ errno = "EBADE" /\ (serverEnd = "closed" \/ call.op = "READ_FILE")
           \/ errno \in {"ECANCELED", "mkdir"} /\ served = "SUCCESS",
           errno = "0" /\ AnswersWithList(call.op) =>
              \A f \in sent : \/ <<BaseName[f], f>> \in saved
                              \/ \E g \in sent \ {f} : BaseName[g] = BaseName[f]
    PROVE  SessionCore'
<1>1. /\ pc' = "idle" /\ ret' = [op |-> call.op, ok |-> errno = "0", errno |-> errno]
      /\ out' = <<>> /\ out = <<>>
      /\ saved' = saved /\ c2s' = c2s /\ fd_sock' = fd_sock /\ clientEnd' = clientEnd
      /\ serverEnd' = serverEnd /\ job' = job /\ served' = served /\ sent' = sent
      /\ opened' = opened
  BY Situation DEF Return, socket, worker, history
<1>2. ret'.op = call.op /\ ret'.errno = errno /\ (ret'.ok <=> errno = "0")
  BY <1>1
<1>3. ~Calling' /\ ~Asked' /\ ~Answered' /\ (Rest' <=> ~Fatal(errno))
  BY <1>1, <1>2 DEF Calling, Asked, Answered, Rest, Goes, Fatal
<1>4. Answered => c2s = <<>> /\ job.pc # "read"
  BY DEF SessionInv, SessionCore, QuietOk
<1>5. Ends'
  BY <1>1, <1>2, <1>3, <1>4 DEF SessionInv, SessionCore, Ends, Fatal
<1>6. Flows'
  BY <1>1 DEF SessionInv, SessionCore, Flows
<1>7. QuietOk'
  <2>1. Rest' => Answered /\ s2c' = <<>> /\ job.out = <<>> /\ job.pc \notin {"list", "close"}
                 /\ (job.pc = "write" => ~EndsConnection(job.res))
    BY <1>3
  <2> QED
    BY <1>1, <1>3, <1>4, <2>1 DEF QuietOk
<1>8. AskedOk' /\ AnsweredOk' /\ FilesOk'
  BY <1>3 DEF AskedOk, AnsweredOk, FilesOk
<1>9. OpenOk'
  BY <1>1, <1>3 DEF OpenOk
<1>10. OutcomeTold'
  BY <1>1, <1>2 DEF OutcomeTold
<1>11. NothingLost'
  BY <1>1, <1>2 DEF NothingLost
<1> QED
  BY <1>5, <1>6, <1>7, <1>8, <1>9, <1>10, <1>11 DEF SessionCore

LEMMA NothingJoined ==
    ASSUME NEW S, NEW s \in Seq(S), NEW t \in Seq(S), Len(s \o t) = 0
    PROVE  s = <<>> /\ t = <<>>
<1> DEFINE m == Len(s)
           n == Len(t)
<1>1. m + n = 0 /\ m \in Nat /\ n \in Nat
  BY SeqAt
<1> HIDE DEF m, n
<1>2. m = 0 /\ n = 0
  BY <1>1
<1> QED
  BY <1>2 DEF m, n

\* A result that no files follow is the end of the answer.
LEMMA LastField ==
    ASSUME SessionInv, Answered, s2c # <<>>, pc \in {"result", "final"},
           ~(pc = "result" /\ served = "SUCCESS" /\ WithFiles(call.op))
    PROVE  /\ Value = served /\ Tail(s2c) = <<>> /\ job.out = <<>>
           /\ job.pc # "list"
           /\ job.pc \in {"write", "close"} /\ ~EndsConnection(served) =>
                 job.pc = "write" /\ ~EndsConnection(job.res)
<1>1. /\ Answering(Ahead, pc, item, call.op, served, sent)
      /\ job.pc = "list" => Listing(Ahead, pc, call.op, served)
      /\ job.pc \in {"list", "write"} => job.res = served
      /\ job.pc = "close" => EndsConnection(served)
  BY DEF SessionInv, SessionCore, AnsweredOk
<1>2. Ahead # <<>> /\ Head(s2c) = Ahead[1] /\ Tail(s2c) \o job.out = Tail(Ahead)
  BY TakeAhead
<1>3. Ahead \in Seq(M) /\ s2c \in Seq(M) /\ job.out \in Seq(M)
  BY Typed
<1>4. Len(Ahead) \in Nat /\ Len(Ahead) > 0 /\ Len(Tail(Ahead)) = Len(Ahead) - 1
  BY <1>2, <1>3, HeadTail
<1>5. Ahead[1].kind = "res" /\ Told(Ahead[1], 1, Ahead, pc, call.op, served, sent)
  <2>1. 1 \in 1 .. Len(Ahead)
    BY <1>4
  <2> QED
    BY <1>1, <1>2, <2>1 DEF Answering, Due
<1>6. Ahead[1].value = served /\ Len(Ahead) = 1
  <2>1. Ahead[1].value = served /\ ~(1 < Len(Ahead))
    BY <1>5 DEF Told
  <2> QED
    BY <1>4, <2>1
<1>7. Tail(s2c) \in Seq(M) /\ Len(Tail(s2c) \o job.out) = 0
  <2>1. Tail(s2c) \in Seq(M)
    BY <1>3, HeadTail
  <2>2. Len(Tail(Ahead)) = 0
    BY <1>4, <1>6
  <2> QED
    BY <1>2, <2>1, <2>2
<1>8. Tail(s2c) = <<>> /\ job.out = <<>>
  BY <1>3, <1>7, NothingJoined
<1>9. job.pc # "list"
  BY <1>1 DEF Listing, WithFiles
<1> QED
  BY <1>1, <1>2, <1>6, <1>8, <1>9 DEF Value

\* After the last file is read nothing is ahead.
LEMMA NothingAhead ==
    ASSUME SessionInv, pc = "save"
    PROVE  /\ Answered /\ Ahead = <<>> /\ s2c = <<>> /\ job.out = <<>> /\ served = "SUCCESS"
           /\ AnswersWithList(call.op)
           /\ job.pc \notin {"list", "close"}
           /\ job.pc = "write" => ~EndsConnection(job.res)
<1>1. Answered
  BY Situation
<1>2. /\ Answering(Ahead, pc, item, call.op, served, sent)
      /\ job.pc = "list" => Listing(Ahead, pc, call.op, served)
      /\ job.pc \in {"list", "write"} => job.res = served
      /\ job.pc = "close" => EndsConnection(served)
  BY <1>1 DEF SessionInv, SessionCore, AnsweredOk
<1>3. Ahead \in Seq(M) /\ s2c \in Seq(M) /\ job.out \in Seq(M)
  BY Typed
<1>4. Ahead = <<>>
  <2> SUFFICES ASSUME Ahead # <<>> PROVE FALSE
    OBVIOUS
  <2>1. 1 \in 1 .. Len(Ahead)
    BY <1>3, HeadTail
  <2>2. Ahead[1].kind = "none" /\ Told(Ahead[1], 1, Ahead, pc, call.op, served, sent)
    BY <1>2, <2>1 DEF Answering, Due
  <2> QED
    BY <2>2 DEF Told
<1>5. s2c = <<>> /\ job.out = <<>>
  <2>1. Len(Ahead) = Len(s2c) + Len(job.out) /\ Len(s2c) \in Nat /\ Len(job.out) \in Nat
    BY <1>3, SeqAt DEF Ahead
  <2>2. Len(Ahead) = 0
    BY <1>4
  <2>3. Len(s2c) = 0 /\ Len(job.out) = 0
    BY <2>1, <2>2
  <2> QED
    BY <1>3, <2>3
<1>6. served = "SUCCESS" /\ AnswersWithList(call.op)
  BY <1>2 DEF Answering
<1>7. job.pc \notin {"list", "close"} /\ (job.pc = "write" => ~EndsConnection(job.res))
  BY <1>2, <1>6 DEF Listing, EndsConnection
<1> QED
  BY <1>1, <1>4, <1>5, <1>6, <1>7

LEMMA ReadResultCore == ASSUME SessionInv, ReadResult PROVE SessionCore'
<1> SUFFICES ASSUME pc = "result", Take, Value # "SUCCESS" \/ ~WithFiles(call.op),
                    Return(convert_res_to_errno(Value)),
                    last_op' = IF call.op = "OPEN_FILE"
                               THEN [last_op EXCEPT !.success = (Value = "SUCCESS")] ELSE last_op
             PROVE  SessionCore'
  BY ReadingGoesOn, ReadOnwardCore
<1>1. s2c # <<>> /\ s2c' = Tail(s2c) /\ UNCHANGED <<saved, waiting, c2s, socket, worker, history>>
  BY DEF Take
<1>2. Answered /\ Calling
  BY <1>1, Situation DEF Answered, Asked, Calling
<1>3. served \in Verdicts
  BY <1>2 DEF SessionInv, SessionTypes, Answered
<1>4. Value = served
  <2>1. Ahead[1].kind = Due(pc, item) /\ Told(Ahead[1], 1, Ahead, pc, call.op, served, sent)
        /\ Head(s2c) = Ahead[1]
    <3>1. Ahead # <<>> /\ Head(s2c) = Ahead[1] /\ Ahead \in Seq(M)
      BY <1>1, TakeAhead, Typed
    <3>2. 1 \in 1 .. Len(Ahead)
      BY <3>1, HeadTail
    <3> QED
      BY <1>2, <3>1, <3>2 DEF SessionInv, SessionCore, AnsweredOk, Answering
  <2> QED
    BY <2>1 DEF Due, Told, Value
<1>5. /\ Tail(s2c) = <<>> /\ job.out = <<>> /\ job.pc # "list"
      /\ job.pc \in {"write", "close"} /\ ~EndsConnection(served) =>
            job.pc = "write" /\ ~EndsConnection(job.res)
  BY <1>1, <1>2, <1>4, LastField
<1> DEFINE errno == convert_res_to_errno(Value)
<1>6. /\ EndsConnection(served) <=> Fatal(errno)
      /\ errno = "0" <=> served = "SUCCESS"
  BY <1>3, <1>4, Converted
<1>7. ~Fatal(errno) /\ last_op'.is_open /\ last_op'.create /\ last_op'.lock /\ last_op'.success
         => opened = last_op'.path
  <2>1. CASE call.op = "OPEN_FILE"
    <3>1. /\ last_op = [is_open |-> TRUE, create |-> call.create, lock |-> call.lock,
                        success |-> FALSE, path |-> call.path]
          /\ served = "SUCCESS" /\ call.create /\ call.lock => opened = call.path
      BY <1>2, <2>1 DEF SessionInv, SessionCore, OpenOk
    <3>2. last_op' = [last_op EXCEPT !.success = (served = "SUCCESS")]
      BY <1>4, <2>1
    <3>3. /\ last_op'.create <=> call.create
          /\ last_op'.lock <=> call.lock
          /\ last_op'.success <=> served = "SUCCESS"
          /\ last_op'.path = call.path
      BY <3>1, <3>2
    <3> QED
      BY <3>1, <3>3
  <2>2. CASE call.op # "OPEN_FILE"
    <3>1. last_op' = NoOp
      BY <1>2, <2>2 DEF SessionInv, SessionCore, OpenOk
    <3> QED
      BY <3>1 DEF NoOp
  <2> QED
    BY <2>1, <2>2
<1>8. errno = "0" => ~AnswersWithList(call.op)
  BY <1>4, <1>6 DEF WithFiles
<1>9. served # NULL
  BY <1>2 DEF Answered
<1> HIDE DEF errno
<1>10. Return(errno) /\ errno = convert_res_to_errno(served)
  BY <1>4 DEF errno
<1>11. \/ Fatal(errno) /\ (serverEnd = "closed" \/ Answered)
       \/ /\ ~Fatal(errno) /\ Answered /\ s2c' = <<>> /\ job.out = <<>>
          /\ job.pc \notin {"list", "close"}
          /\ job.pc = "write" => ~EndsConnection(job.res)
  BY <1>1, <1>2, <1>5, <1>6
<1> QED
  BY <1>1, <1>2, <1>7, <1>8, <1>9, <1>10, <1>11, ReturnCore

LEMMA ReadFinalCore == ASSUME SessionInv, ReadFinal PROVE SessionCore'
<1> SUFFICES ASSUME pc = "final", Take, Value # "SUCCESS" \/ AnswersWithFile(call.op),
                    Return(convert_res_to_errno(Value)), UNCHANGED last_op
             PROVE  SessionCore'
  BY ReadingGoesOn, ReadOnwardCore
<1>1. s2c # <<>> /\ s2c' = Tail(s2c) /\ UNCHANGED <<saved, waiting, c2s, socket, worker, history>>
  BY DEF Take
<1>2. Answered /\ Calling
  BY <1>1, Situation DEF Answered
<1>3. served = "SUCCESS" /\ WithFiles(call.op)
  BY <1>2 DEF SessionInv, SessionCore, AnsweredOk, Answering
<1>4. /\ Value = served /\ Tail(s2c) = <<>> /\ job.out = <<>> /\ job.pc # "list"
      /\ job.pc \in {"write", "close"} /\ ~EndsConnection(served) =>
            job.pc = "write" /\ ~EndsConnection(job.res)
  BY <1>1, <1>2, LastField
<1> DEFINE errno == convert_res_to_errno(Value)
<1>5. ~EndsConnection(served) /\ ~Fatal(errno) /\ errno = convert_res_to_errno(served)
  BY <1>3, <1>4 DEF EndsConnection, Fatal, convert_res_to_errno
<1>6. last_op' = NoOp /\ ~AnswersWithList(call.op)
  BY <1>2, <1>3, <1>4 DEF SessionInv, SessionCore, OpenOk, AnswersWithFile, AnswersWithList
<1>7. ~last_op'.is_open
  BY <1>6 DEF NoOp
<1>8. Return(errno) /\ served # NULL
  BY <1>2 DEF Answered
<1> HIDE DEF errno
<1> QED
  BY <1>1, <1>2, <1>4, <1>5, <1>6, <1>7, <1>8, ReturnCore

LEMMA ReadNoContentsCore == ASSUME SessionInv, ReadNoContents PROVE SessionCore'
<1>1. /\ pc = "contents" /\ Return("EBADE") /\ UNCHANGED <<last_op, s2c>>
      /\ UNCHANGED <<saved, waiting, c2s, socket, worker, history>>
  BY DEF ReadNoContents
<1>2. Answered /\ Calling
  BY <1>1, Situation DEF Answered
<1>3. call.op = "READ_FILE"
  BY <1>1, <1>2 DEF SessionInv, SessionCore, AnsweredOk, Answering, AnswersWithFile
<1>4. Fatal("EBADE") /\ "EBADE" # "0"
  BY DEF Fatal
<1> QED
  BY <1>1, <1>2, <1>3, <1>4, ReturnCore

LEMMA ReadEofCore == ASSUME SessionInv, ReadEof PROVE SessionCore'
<1>1. /\ Reading /\ serverEnd = "closed" /\ Return("EBADE") /\ UNCHANGED <<last_op, s2c>>
      /\ UNCHANGED <<saved, waiting, c2s, socket, worker, history>>
  BY DEF ReadEof
<1>2. Calling /\ pc # "send"
  BY <1>1 DEF Reading, Calling
<1>3. Fatal("EBADE") /\ "EBADE" # "0"
  BY DEF Fatal
<1> QED
  BY <1>1, <1>2, <1>3, ReturnCore

\* write_list_of_files_into_dir returns.
LEMMA SaveCore ==
    ASSUME SessionInv, SaveNowhere \/ NoDirectory \/ Saved
    PROVE  SessionCore'
<1>1. /\ pc = "save" /\ UNCHANGED <<last_op, s2c>>
      /\ UNCHANGED <<saved, waiting, c2s, socket, worker, history>>
      /\ \/ Return("0") /\ got = <<>>
         \/ Return("ECANCELED") \/ Return("mkdir")
  BY DEF SaveNowhere, NoDirectory, Saved
<1>2. /\ Answered /\ Calling /\ Ahead = <<>> /\ s2c = <<>> /\ job.out = <<>>
      /\ served = "SUCCESS" /\ AnswersWithList(call.op)
      /\ job.pc \notin {"list", "close"}
      /\ job.pc = "write" => ~EndsConnection(job.res)
  BY <1>1, NothingAhead DEF Answered
<1>3. last_op' = NoOp
  BY <1>1, <1>2 DEF SessionInv, SessionCore, OpenOk, AnswersWithList
<1>4. ~last_op'.is_open
  BY <1>3 DEF NoOp
<1>5. got = <<>> => \A f \in sent : \/ <<BaseName[f], f>> \in saved
                                    \/ \E g \in sent \ {f} : BaseName[g] = BaseName[f]
  <2>1. Carried(Ahead, pc, item, got, saved, Left, sent)
    BY <1>2 DEF SessionInv, SessionCore, FilesOk
  <2>2. Left = {}
    BY <1>2 DEF Left
  <2> QED
    BY <1>1, <1>2, <2>1, <2>2, CarryEnd
<1>6. ~Fatal("0") /\ ~Fatal("ECANCELED") /\ ~Fatal("mkdir") /\ convert_res_to_errno("SUCCESS") = "0"
      /\ "SUCCESS" # NULL
  BY SessionAssumption DEF Fatal, convert_res_to_errno, Verdicts
<1>7. CASE Return("0") /\ got = <<>>
  BY <1>1, <1>2, <1>4, <1>5, <1>6, <1>7, ReturnCore
<1>8. CASE Return("ECANCELED")
  BY <1>1, <1>2, <1>4, <1>6, <1>8, ReturnCore
<1>9. CASE Return("mkdir")
  BY <1>1, <1>2, <1>4, <1>6, <1>9, ReturnCore
<1> QED
  BY <1>1, <1>7, <1>8, <1>9

LEMMA SaveFileCore == ASSUME SessionInv, SaveFile PROVE SessionCore'
<1>1. /\ pc = "save" /\ got # <<>> /\ saved' = WriteOne(saved, Head(got)) /\ got' = Tail(got)
      /\ pc' = pc /\ call' = call /\ out' = out /\ item' = item /\ ret' = ret /\ last_op' = last_op
      /\ c2s' = c2s /\ s2c' = s2c /\ fd_sock' = fd_sock /\ clientEnd' = clientEnd
      /\ serverEnd' = serverEnd /\ job' = job /\ served' = served /\ sent' = sent
      /\ opened' = opened
  BY DEF SaveFile, socket, worker, history
<1>2. Answered /\ AnswersWithList(call.op)
  BY <1>1, NothingAhead
<1>3. /\ Ahead' = Ahead /\ Left' = Left /\ (Calling' <=> Calling) /\ (Answered' <=> Answered)
      /\ (Asked' <=> Asked) /\ (Rest' <=> Rest) /\ Answered' /\ ~Asked'
  BY <1>1, <1>2 DEF Ahead, Left, Calling, Answered, Asked, Rest, Goes
<1>4. FilesOk'
  <2>1. Carried(Ahead, pc, item, got, saved, Left, sent)
    BY <1>2 DEF SessionInv, SessionCore, FilesOk
  <2>2. Carried(Ahead, pc, item, Tail(got), WriteOne(saved, Head(got)), Left, sent)
    BY <1>1, <2>1, Typed, CarrySave
  <2> QED
    BY <1>1, <1>3, <2>2 DEF FilesOk
<1>5. Ends' /\ Flows' /\ AskedOk' /\ QuietOk'
  BY <1>1, <1>3 DEF SessionInv, SessionCore, Ends, Flows, AskedOk, QuietOk
<1>6. AnsweredOk' /\ OpenOk'
  BY <1>1, <1>3 DEF SessionInv, SessionCore, AnsweredOk, OpenOk
<1>7. OutcomeTold' /\ NothingLost'
  BY <1>1 DEF OutcomeTold, NothingLost
<1> QED
  BY <1>4, <1>5, <1>6, <1>7 DEF SessionCore

-----------------------------------------------------------------------------
(***************************************************************************)
(* The program calls, connects, goes on or ends.                           *)
(***************************************************************************)
LEMMA DieCore == ASSUME SessionInv, Die PROVE SessionCore'
<1>1. /\ pc' = "dead" /\ fd_sock' = FALSE /\ out' = <<>> /\ c2s' = c2s /\ job' = job
      /\ serverEnd' = serverEnd /\ opened' = opened
  BY DEF Die, worker
<1>2. ~Calling' /\ ~Asked' /\ ~Answered' /\ ~Rest'
  BY <1>1 DEF Calling, Asked, Answered, Rest, Goes
<1>3. Ends'
  BY <1>1, <1>2 DEF SessionInv, SessionCore, Ends
<1>4. Flows'
  <2>1. PICK c : Flow(c, c2s, out, job, opened)
    BY DEF SessionInv, SessionCore, Flows
  <2>2. Flow(c, c2s, <<>>, job, opened)
    BY <2>1, Typed, FlowDrop
  <2> QED
    BY <1>1, <2>2 DEF Flows
<1>5. AskedOk' /\ QuietOk' /\ AnsweredOk' /\ FilesOk' /\ OpenOk' /\ OutcomeTold' /\ NothingLost'
  BY <1>1, <1>2 DEF AskedOk, QuietOk, AnsweredOk, FilesOk, OpenOk, OutcomeTold, NothingLost
<1> QED
  BY <1>3, <1>4, <1>5 DEF SessionCore

LEMMA StartCore == ASSUME SessionInv, Goes, NEW c, CallOk(c), Start(c) PROVE SessionCore'
<1>1. /\ pc = "idle" /\ LocalError(c) = "0" /\ pc' = "send" /\ call' = c /\ out' = Request(c)
      /\ got' = <<>> /\ served' = NULL /\ sent' = {}
      /\ last_op' = IF c.op = "OPEN_FILE" THEN last_op ELSE NoOp
      /\ ret' = ret /\ c2s' = c2s /\ s2c' = s2c /\ fd_sock' = fd_sock /\ clientEnd' = clientEnd
      /\ job' = job /\ serverEnd' = serverEnd /\ opened' = opened
  BY DEF Start, socket, worker
<1>2. RequestOk(c) /\ fd_sock /\ (c.op = "WRITE_FILE" => Granted(c.path))
  BY <1>1 DEF LocalError, RequestOk, CallOk
<1>3. Rest
  BY DEF Rest
<1>4. /\ c2s = <<>> /\ s2c = <<>> /\ job.out = <<>> /\ job.pc \notin {"read", "list"}
      /\ job.pc = "write" => ~EndsConnection(job.res)
      /\ job.pc = "close" => clientEnd # "open"
      /\ clientEnd = "open"
  BY <1>2, <1>3 DEF SessionInv, SessionCore, QuietOk, Ends
<1>5. c.op = "WRITE_FILE" => MayWrite(c.path, opened)
  <2>1. Granted(c.path) => opened = last_op.path
    BY <1>3 DEF SessionInv, SessionCore, OpenOk, Granted
  <2>2. Granted(c.path) => last_op.path = c.path \/ <<c.path, last_op.path>> \in PrefixOf
    BY DEF Granted
  <2>3. \A p, q : <<p, q>> \in PrefixOf => q # NULL
    BY SessionAssumption
  <2> QED
    BY <1>2, <2>1, <2>2, <2>3 DEF MayWrite
<1>6. /\ Flow(c, <<>>, Request(c), job, opened)
      /\ UnderWay(<<>>, Request(c), job) = Len(Request(c))
      /\ Request(c) # <<>>
  <2>1. Flow(c, <<>>, Request(c), job, opened) /\ UnderWay(<<>>, Request(c), job) = Len(Request(c))
    BY <1>2, <1>4, <1>5, FlowStart
  <2>2. Len(Request(c)) > 1
    BY <1>2, RequestFields
  <2> QED
    BY <2>1, <2>2
<1>7. Asked' /\ ~Answered' /\ ~Rest' /\ Calling'
  BY <1>1 DEF Asked, Answered, Calling, Rest, Goes
<1>8. Ends'
  BY <1>1, <1>2 DEF SessionInv, SessionCore, Ends
<1>9. Flows'
  BY <1>1, <1>4, <1>6 DEF Flows
<1>10. AskedOk'
  <2>1. /\ Flow(call', c2s', out', job', opened')
        /\ UnderWay(c2s', out', job') = Len(Request(call'))
    BY <1>1, <1>4, <1>6
  <2>2. AskedOk' = (Asked' =>
          /\ Flow(call', c2s', out', job', opened')
          /\ UnderWay(c2s', out', job') = Len(Request(call'))
          /\ pc' \in {"send", "result"} /\ (pc' = "send" <=> out' # <<>>)
          /\ got' = <<>> /\ sent' = {} /\ s2c' = <<>> /\ job'.out = <<>>
          /\ job'.pc \in {"idle", "read", "write"}
          /\ job'.pc = "write" => ~EndsConnection(job'.res))
    BY DEF AskedOk, Flow, UnderWay, Request, OpenRequest, WriteRequest, AppendRequest, ReadNRequest,
           PathRequest
  <2>3. job.pc \in {"idle", "write"}
    BY <1>4 DEF SessionInv, SessionTypes, JobT
  <2> QED
    BY <1>1, <1>4, <1>6, <2>1, <2>2, <2>3
<1>11. QuietOk' /\ AnsweredOk' /\ FilesOk'
  BY <1>7 DEF QuietOk, AnsweredOk, FilesOk
<1>12. OpenOk'
  BY <1>1, <1>7 DEF OpenOk
<1>13. OutcomeTold' /\ NothingLost'
  BY <1>1 DEF OutcomeTold, NothingLost
<1> QED
  BY <1>8, <1>9, <1>10, <1>11, <1>12, <1>13 DEF SessionCore

\* A step of the program between two calls: nothing is under way before or after it.
Between ==
    /\ Rest /\ Rest'
    /\ UNCHANGED <<out, c2s, s2c, job, served, sent, opened>>
    /\ last_op' \in {last_op, NoOp}
    /\ serverEnd' = serverEnd \/ (pc = "connect" /\ serverEnd' = "open")
    /\ fd_sock' => clientEnd' = "open"
    /\ pc' = "connect" => serverEnd' # "open"
    /\ clientEnd' = clientEnd \/ clientEnd' # "open" \/ pc = "connect"
    /\ pc' = "idle" /\ ret' # ret => ret'.op \notin OpCodes \/ ret'.errno \in LocalErrors
    /\ saved' = saved \/ (ret' = ret /\ ~AnswersWithList(ret.op))
    /\ pc = "connect" /\ pc' = "idle" => ret'.op \notin OpCodes

LEMMA BetweenCore == ASSUME SessionInv, Between PROVE SessionCore'
<1>1. /\ out' = out /\ c2s' = c2s /\ s2c' = s2c /\ job' = job /\ served' = served /\ sent' = sent
      /\ opened' = opened /\ Rest /\ Rest'
  BY DEF Between
<1>2. ~Calling /\ ~Calling' /\ ~Asked' /\ ~Answered' /\ ~Asked
  BY <1>1 DEF Calling, Rest, Goes, Asked, Answered
<1>3. pc = "connect" => job.pc = "idle"
  BY DEF SessionInv, SessionCore, Ends
<1>4. Ends'
  <2>1. ~(pc' = "idle" /\ Fatal(ret'.errno))
    BY <1>1 DEF Rest, Goes
  <2> QED
    BY <1>1, <1>2, <1>3, <2>1 DEF Between, SessionInv, SessionCore, Ends
<1>5. Flows' /\ AskedOk' /\ AnsweredOk' /\ FilesOk'
  BY <1>1, <1>2 DEF SessionInv, SessionCore, Flows, AskedOk, AnsweredOk, FilesOk
<1>6. QuietOk'
  BY <1>1, <1>2, <1>3 DEF Between, SessionInv, SessionCore, QuietOk
<1>7. OpenOk'
  BY <1>1, <1>2 DEF Between, SessionInv, SessionCore, OpenOk, NoOp
<1>8. OutcomeTold'
  BY <1>1, <1>2 DEF Between, SessionInv, SessionCore, OutcomeTold, Rest, Goes
<1>9. NothingLost'
  BY <1>1, <1>2 DEF Between, SessionInv, SessionCore, NothingLost, Rest, Goes
<1> QED
  BY <1>4, <1>5, <1>6, <1>7, <1>8, <1>9 DEF SessionCore

LEMMA UserStepCore ==
    ASSUME SessionInv,
           \/ Goes /\ UserCall
           \/ Connected \/ ConnectFails \/ Keeps \/ UNCHANGED sessionVars
    PROVE  SessionCore'
<1>1. ASSUME Goes, NEW c, CallOk(c), Reject(c) PROVE SessionCore'
  <2>1. LocalError(c) \in LocalErrors /\ ~Fatal(LocalError(c))
    BY <1>1 DEF Reject, LocalError, LocalErrors, Fatal
  <2>2. ret' = [op |-> c.op, ok |-> FALSE, errno |-> LocalError(c)] /\ pc' = pc /\ pc = "idle"
    BY <1>1 DEF Reject
  <2>3. Rest /\ Rest'
    BY <1>1, <2>1, <2>2 DEF Rest, Goes
  <2>4. last_op' \in {last_op, NoOp}
    BY <1>1 DEF Reject
  <2>5. fd_sock' => clientEnd' = "open"
    BY <1>1 DEF Reject, socket, SessionInv, SessionCore, Ends
  <2>6. Between
    BY <1>1, <2>1, <2>2, <2>3, <2>4, <2>5 DEF Between, Reject, locals, socket, worker, history
  <2> QED
    BY <2>6, BetweenCore
<1>2. ASSUME Goes, NEW sec, openConnection(sec) PROVE SessionCore'
  <2>1. /\ pc = "idle" /\ pc' \in {"idle", "connect"}
        /\ pc' = "connect" => serverEnd # "open"
        /\ ret' = ret \/ ret' = [op |-> "CONNECT", ok |-> FALSE, errno |-> "EISCONN"]
    BY <1>2 DEF openConnection
  <2>2. Rest /\ Rest'
    BY <1>2, <2>1 DEF Rest, Goes, Fatal
  <2>3. fd_sock' => clientEnd' = "open"
    BY <1>2 DEF openConnection, socket, SessionInv, SessionCore, Ends
  <2>4. "CONNECT" \notin OpCodes
    BY DEF OpCodes
  <2>5. Between
    BY <1>2, <2>1, <2>2, <2>3, <2>4 DEF Between, openConnection, locals, socket, worker, history
  <2> QED
    BY <2>5, BetweenCore
<1>3. ASSUME Goes, closeConnection PROVE SessionCore'
  <2>1. /\ pc = "idle" /\ pc' = "idle" /\ ret' = [op |-> "DISCONNECT", ok |-> TRUE, errno |-> "0"]
        /\ fd_sock' = FALSE /\ clientEnd' = "closed"
    BY <1>3 DEF closeConnection
  <2>2. Rest /\ Rest'
    BY <1>3, <2>1 DEF Rest, Goes, Fatal
  <2>3. "DISCONNECT" \notin OpCodes
    BY DEF OpCodes
  <2>4. Between
    BY <1>3, <2>1, <2>2, <2>3 DEF Between, closeConnection, locals, socket, worker, history
  <2> QED
    BY <2>4, BetweenCore
<1>4. CASE Connected
  <2>1. /\ pc = "connect" /\ pc' = "idle" /\ ret' = [op |-> "CONNECT", ok |-> TRUE, errno |-> "0"]
        /\ serverEnd' = "open" /\ clientEnd' = "open" /\ c2s' = <<>> /\ s2c' = <<>>
    BY <1>4 DEF Connected
  <2>2. Rest /\ Rest'
    BY <2>1 DEF Rest, Goes, Fatal
  <2>3. c2s = <<>> /\ s2c = <<>>
    BY <2>2 DEF SessionInv, SessionCore, QuietOk
  <2>4. "CONNECT" \notin OpCodes
    BY DEF OpCodes
  <2>5. Between
    BY <1>4, <2>1, <2>2, <2>3, <2>4 DEF Between, Connected, locals, history
  <2> QED
    BY <2>5, BetweenCore
<1>5. CASE ConnectFails
  <2>1. /\ pc = "connect" /\ pc' \in {"idle", "connect"}
        /\ pc' = "connect" => ret' = ret
        /\ pc' = "idle" => ret' = [op |-> "CONNECT", ok |-> FALSE, errno |-> "ETIMEDOUT"]
    BY <1>5 DEF ConnectFails
  <2>2. Rest /\ Rest'
    BY <2>1 DEF Rest, Goes, Fatal
  <2>3. (fd_sock' => clientEnd' = "open") /\ (pc' = "connect" => serverEnd' # "open")
    BY <1>5, <2>1 DEF ConnectFails, socket, worker, SessionInv, SessionCore, Ends
  <2>4. "CONNECT" \notin OpCodes
    BY DEF OpCodes
  <2>5. Between
    BY <1>5, <2>1, <2>2, <2>3, <2>4 DEF Between, ConnectFails, locals, socket, worker, history
  <2> QED
    BY <2>5, BetweenCore
<1>6. CASE Keeps \/ UNCHANGED sessionVars
  <2>1. /\ fd_sock' = fd_sock /\ last_op' = last_op /\ pc' = pc /\ call' = call /\ out' = out
        /\ item' = item /\ got' = got /\ ret' = ret /\ c2s' = c2s /\ s2c' = s2c
        /\ clientEnd' = clientEnd /\ serverEnd' = serverEnd /\ job' = job /\ served' = served
        /\ sent' = sent /\ opened' = opened
        /\ saved' = saved \/ (pc = "idle" /\ ~AnswersWithList(ret.op))
    BY <1>6 DEF Keeps, sessionVars, sessionButSaved
  <2>2. /\ Calling' <=> Calling
        /\ Asked' <=> Asked
        /\ Answered' <=> Answered
        /\ Rest' <=> Rest
        /\ Ahead' = Ahead /\ Left' = Left
        /\ pc = "idle" => ~Answered
    BY <2>1 DEF Calling, Asked, Answered, Rest, Goes, Ahead, Left
  <2>3. Ends' /\ Flows' /\ QuietOk' /\ OpenOk'
    BY <2>1, <2>2 DEF SessionInv, SessionCore, Ends, Flows, QuietOk, OpenOk
  <2>4. AskedOk'
    BY <2>1, <2>2 DEF SessionInv, SessionCore, AskedOk
  <2>5. AnsweredOk' /\ FilesOk'
    BY <2>1, <2>2 DEF SessionInv, SessionCore, AnsweredOk, FilesOk
  <2>6. OutcomeTold' /\ NothingLost'
    BY <2>1 DEF SessionInv, SessionCore, OutcomeTold, NothingLost
  <2> QED
    BY <2>3, <2>4, <2>5, <2>6 DEF SessionCore
<1>7. ASSUME Goes, NEW c, CallOk(c), Start(c) PROVE SessionCore'
  BY <1>7, StartCore
<1> QED
  BY <1>1, <1>2, <1>3, <1>4, <1>5, <1>6, <1>7 DEF UserCall, BeginCall

-----------------------------------------------------------------------------
(***************************************************************************)
(* The worker reads a request, decides, and writes the answer.             *)
(***************************************************************************)
LibraryKept == /\ fd_sock' = fd_sock /\ last_op' = last_op /\ pc' = pc /\ call' = call /\ out' = out
               /\ item' = item /\ got' = got /\ saved' = saved /\ ret' = ret
               /\ clientEnd' = clientEnd

LEMMA WorkerKeeps ==
    ASSUME WorkerStep \/ ServerStops \/ ServerStarts
    PROVE  /\ LibraryKept
           /\ Calling' <=> Calling
           /\ Rest' <=> Rest
<1>1. LibraryKept
  BY DEF WorkerStep, ServerStops, ServerStarts, ReadOp, HangUp, ReadField, SkipData, FieldMissing,
         Refuse, FailsEmpty, Succeed, Answer, SendFile, EndList, WriteField, JobDone, CloseClient,
         Library, locals, socket, LibraryKept
<1> QED
  BY <1>1 DEF LibraryKept, Calling, Rest, Goes

LEMMA RequestTakenCore ==
    ASSUME SessionInv, LibraryKept, UNCHANGED <<s2c, serverEnd, history>>,
           pc # "idle", ~Rest, ~Answered, serverEnd = "open",
           job.pc \in {"idle", "read"}, job'.pc = "read", job'.out = job.out,
           \A c : Flow(c, c2s, out, job, opened) =>
              /\ Flow(c, c2s', out, job', opened)
              /\ UnderWay(c2s', out, job') = UnderWay(c2s, out, job)
    PROVE  SessionCore'
<1>1. /\ fd_sock' = fd_sock /\ last_op' = last_op /\ pc' = pc /\ call' = call /\ out' = out
      /\ item' = item /\ got' = got /\ saved' = saved /\ ret' = ret /\ clientEnd' = clientEnd
      /\ s2c' = s2c /\ serverEnd' = serverEnd /\ served' = served /\ sent' = sent /\ opened' = opened
  BY DEF LibraryKept, history
<1>2. /\ Calling' <=> Calling
      /\ Asked' <=> Asked
      /\ ~Answered' /\ ~Rest'
  BY <1>1 DEF Calling, Asked, Answered, Rest, Goes
<1>3. job.out = <<>>
  BY DEF SessionInv, SessionCore, Ends
<1>4. Ends'
  BY <1>1, <1>2, <1>3 DEF SessionInv, SessionCore, Ends
<1>5. Flows'
  BY <1>1 DEF SessionInv, SessionCore, Flows
<1>6. AskedOk'
  <2> SUFFICES ASSUME Asked PROVE AskedOk'
    BY <1>2 DEF AskedOk
  <2>1. /\ Flow(call, c2s, out, job, opened) /\ UnderWay(c2s, out, job) = Len(Request(call))
        /\ pc \in {"send", "result"} /\ (pc = "send" <=> out # <<>>)
        /\ got = <<>> /\ sent = {} /\ s2c = <<>>
    BY DEF SessionInv, SessionCore, AskedOk
  <2>2. Flow(call, c2s', out, job', opened) /\ UnderWay(c2s', out, job') = Len(Request(call))
    BY <2>1
  <2>3. Flow(call', c2s', out', job', opened') /\ UnderWay(c2s', out', job') = Len(Request(call'))
    BY <1>1, <2>2
  <2> QED
    BY <1>1, <1>3, <2>1, <2>3 DEF AskedOk
<1>7. QuietOk' /\ AnsweredOk' /\ FilesOk'
  BY <1>1, <1>2 DEF SessionInv, SessionCore, QuietOk, AnsweredOk, FilesOk
<1>8. OpenOk'
  BY <1>1, <1>2 DEF SessionInv, SessionCore, OpenOk
<1>9. OutcomeTold' /\ NothingLost'
  BY <1>1 DEF OutcomeTold, NothingLost
<1> QED
  BY <1>4, <1>5, <1>6, <1>7, <1>8, <1>9 DEF SessionCore

LEMMA ReadOpCore == ASSUME SessionInv, ReadOp PROVE SessionCore'
<1>1. /\ job.pc = "idle" /\ serverEnd = "open" /\ c2s # <<>> /\ c2s' = Tail(c2s)
      /\ job' = [NoJob EXCEPT !.pc = "read", !.op = Head(c2s).value,
                              !.want = Fields(Head(c2s).value)]
      /\ UNCHANGED <<s2c, serverEnd, history>> /\ LibraryKept
  BY WorkerKeeps DEF ReadOp, WorkerStep
<1>2. ~Rest /\ ~Answered /\ pc # "idle"
  BY <1>1 DEF SessionInv, SessionCore, QuietOk, Ends, Rest, Goes
<1>3. job'.pc = "read" /\ job'.out = <<>> /\ job.out = <<>>
  BY <1>1 DEF NoJob, SessionInv, SessionCore, Ends
<1>4. ASSUME NEW c, Flow(c, c2s, out, job, opened)
      PROVE  /\ Flow(c, c2s', out, job', opened)
             /\ UnderWay(c2s', out, job') = UnderWay(c2s, out, job)
  <2>1. c2s \in Seq(M) /\ out \in Seq(M) /\ job \in JobT
    BY Typed
  <2>2. /\ Flow(c, Tail(c2s), out, job', opened)
        /\ UnderWay(Tail(c2s), out, job') = UnderWay(c2s, out, job)
    <3>1. /\ job'.op = Head(c2s).value /\ job'.want = Fields(Head(c2s).value)
          /\ job'.args = <<>> /\ job'.pc = "read"
      BY <1>1 DEF NoJob
    <3>2. TakesOp(c, c2s, out, job, opened, job')
      BY <1>1, <1>4, <2>1, <3>1 DEF TakesOp
    <3> QED
      BY <3>2, FlowOp
  <2> QED
    BY <1>1, <2>2
<1> QED
  BY <1>1, <1>2, <1>3, <1>4, RequestTakenCore

LEMMA ReadFieldCore == ASSUME SessionInv, ReadField PROVE SessionCore'
<1>1. /\ job.pc = "read" /\ job.want # <<>> /\ c2s # <<>> /\ c2s' = Tail(c2s)
      /\ job' = [job EXCEPT !.args = Append(@, Head(c2s).value), !.want = Tail(@)]
      /\ UNCHANGED <<s2c, serverEnd, history>> /\ LibraryKept
  BY WorkerKeeps DEF ReadField, WorkerStep
<1>2. ~Rest /\ ~Answered /\ pc # "idle" /\ serverEnd = "open"
  BY <1>1, Situation DEF SessionInv, SessionCore, QuietOk, Ends, Rest, Goes, Asked, Calling
<1>3. job'.pc = "read" /\ job'.out = job.out
  BY <1>1, Typed DEF JobT
<1>4. ASSUME NEW c, Flow(c, c2s, out, job, opened)
      PROVE  /\ Flow(c, c2s', out, job', opened)
             /\ UnderWay(c2s', out, job') = UnderWay(c2s, out, job)
  <2>1. c2s \in Seq(M) /\ out \in Seq(M) /\ job \in JobT
    BY Typed
  <2>2. /\ Flow(c, Tail(c2s), out, job', opened)
        /\ UnderWay(Tail(c2s), out, job') = UnderWay(c2s, out, job)
    <3>1. /\ job'.op = job.op /\ job'.want = Tail(job.want)
          /\ job'.args = Append(job.args, Head(c2s).value) /\ job'.pc = "read"
      BY <1>1, <2>1 DEF JobT
    <3>2. TakesField(c, c2s, out, job, opened, job')
      BY <1>1, <1>4, <2>1, <3>1 DEF TakesField
    <3> QED
      BY <3>2, FlowField
  <2> QED
    BY <1>1, <2>2
<1> QED
  BY <1>1, <1>2, <1>3, <1>4, RequestTakenCore

LEMMA SkipDataCore == ASSUME SessionInv, SkipData PROVE SessionCore'
<1>1. /\ job.pc = "read" /\ SizeIsZero(job) /\ job' = [job EXCEPT !.want = <<>>] /\ c2s' = c2s
      /\ UNCHANGED <<s2c, serverEnd, history>> /\ LibraryKept
  BY WorkerKeeps DEF SkipData, WorkerStep, NoData, SizeIsZero
<1>2. ~Rest /\ ~Answered /\ pc # "idle" /\ serverEnd = "open"
  BY <1>1, Situation DEF SessionInv, SessionCore, QuietOk, Ends, Rest, Goes, Asked, Calling
<1>3. job'.pc = "read" /\ job'.out = job.out
  BY <1>1, Typed DEF JobT
<1>4. ASSUME NEW c, Flow(c, c2s, out, job, opened)
      PROVE  /\ Flow(c, c2s', out, job', opened)
             /\ UnderWay(c2s', out, job') = UnderWay(c2s, out, job)
  <2>1. c2s \in Seq(M) /\ out \in Seq(M) /\ job \in JobT
    BY Typed
  <2>2. /\ Flow(c, c2s, out, job', opened)
        /\ UnderWay(c2s, out, job') = UnderWay(c2s, out, job)
    BY <1>1, <1>4, <2>1, FlowSkip
  <2> QED
    BY <1>1, <2>2
<1> QED
  BY <1>1, <1>2, <1>3, <1>4, RequestTakenCore

\* The library writes a field of the request.
LEMMA SendFieldCore == ASSUME SessionInv, SendField PROVE SessionCore'
<1>1. /\ pc = "send" /\ serverEnd = "open" /\ c2s' = Append(c2s, Head(out)) /\ out' = Tail(out)
      /\ call' = call /\ item' = item /\ got' = got /\ saved' = saved /\ ret' = ret
      /\ s2c' = s2c /\ fd_sock' = fd_sock /\ clientEnd' = clientEnd /\ job' = job
      /\ serverEnd' = serverEnd /\ served' = served /\ sent' = sent /\ opened' = opened
  BY DEF SendField, socket, worker, history
<1>2. /\ out # <<>> /\ Asked /\ out' \in Seq(M)
      /\ (Tail(out) # <<>> /\ pc' = "send" /\ last_op' = last_op)
            \/ (Tail(out) = <<>> /\ pc' = "result"
                /\ last_op' = IF call.op = "OPEN_FILE"
                              THEN [is_open |-> TRUE, create |-> call.create, lock |-> call.lock,
                                    success |-> FALSE, path |-> call.path]
                              ELSE last_op)
  <2>1. out # <<>> /\ Asked
    BY <1>1, Situation
  <2>2. out' \in Seq(M)
    BY <1>1, <2>1, Typed, HeadTail
  <2> QED
    BY <1>1, <2>1, <2>2 DEF SendField
<1>3. /\ c2s \in Seq(M) /\ out \in Seq(M) /\ job.args \in Seq(Values)
  BY Typed
<1>4. ASSUME NEW c, Flow(c, c2s, out, job, opened)
      PROVE  /\ Flow(c, c2s', out', job', opened')
             /\ UnderWay(c2s', out', job') = UnderWay(c2s, out, job)
  <2>1. /\ Flow(c, Append(c2s, Head(out)), Tail(out), job, opened)
        /\ UnderWay(Append(c2s, Head(out)), Tail(out), job) = UnderWay(c2s, out, job)
    BY <1>2, <1>3, <1>4, FlowSend
  <2> QED
    BY <1>1, <2>1
<1>5. /\ Calling /\ Calling' /\ Asked' /\ ~Answered' /\ ~Rest' /\ served = NULL
      /\ pc' # "idle" /\ pc' # "connect"
  BY <1>1, <1>2 DEF Calling, Asked, Answered, Rest, Goes
<1>6. Ends'
  BY <1>1, <1>5 DEF SessionInv, SessionCore, Ends
<1>7. Flows'
  BY <1>4 DEF SessionInv, SessionCore, Flows
<1>8. AskedOk'
  <2>1. /\ Flow(call, c2s, out, job, opened) /\ UnderWay(c2s, out, job) = Len(Request(call))
        /\ got = <<>> /\ sent = {} /\ s2c = <<>> /\ job.out = <<>>
        /\ job.pc \in {"idle", "read", "write"}
        /\ job.pc = "write" => ~EndsConnection(job.res)
    BY <1>2 DEF SessionInv, SessionCore, AskedOk
  <2>2. Flow(call, c2s', out', job', opened') /\ UnderWay(c2s', out', job') = Len(Request(call))
    BY <1>4, <2>1
  <2>3. Flow(call', c2s', out', job', opened') /\ UnderWay(c2s', out', job') = Len(Request(call'))
    BY <1>1, <2>2
  <2> QED
    BY <1>1, <1>2, <2>1, <2>3 DEF AskedOk
<1>9. QuietOk' /\ AnsweredOk' /\ FilesOk'
  BY <1>5 DEF QuietOk, AnsweredOk, FilesOk
<1>10. OpenOk'
  <2>1. served # "SUCCESS"
    BY <1>5, SessionAssumption DEF Verdicts
  <2> QED
    BY <1>1, <1>2, <1>5, <2>1 DEF SessionInv, SessionCore, OpenOk
<1>11. OutcomeTold' /\ NothingLost'
  BY <1>5 DEF OutcomeTold, NothingLost
<1> QED
  BY <1>6, <1>7, <1>8, <1>9, <1>10, <1>11 DEF SessionCore

\* The worker finds that the client is gone; nobody is in a function of the library.
LEMMA Deserted ==
    ASSUME SessionInv, clientEnd # "open"
    PROVE  ~Calling /\ ~Asked /\ ~Answered
  BY DEF SessionInv, SessionCore, Ends, Asked, Answered, Calling

LEMMA HangUpCore == ASSUME SessionInv, HangUp PROVE SessionCore'
<1>1. /\ job.pc = "idle" /\ serverEnd = "open" /\ clientEnd = "closed" /\ c2s' = c2s /\ s2c' = s2c
      /\ job' = [job EXCEPT !.pc = "close"]
      /\ UNCHANGED <<serverEnd, history>> /\ LibraryKept
  BY WorkerKeeps DEF HangUp, WorkerStep, AtEof
<1>2. /\ fd_sock' = fd_sock /\ last_op' = last_op /\ pc' = pc /\ call' = call /\ out' = out
      /\ item' = item /\ got' = got /\ saved' = saved /\ ret' = ret /\ clientEnd' = clientEnd
      /\ serverEnd' = serverEnd /\ served' = served /\ sent' = sent /\ opened' = opened
  BY <1>1 DEF LibraryKept, history
<1>3. ~Calling /\ ~Asked /\ ~Answered /\ ~Calling' /\ ~Asked' /\ ~Answered' /\ (Rest' <=> Rest)
  BY <1>1, <1>2, Deserted DEF Calling, Asked, Answered, Rest, Goes
<1>4. job'.pc = "close" /\ job'.out = job.out
  BY <1>1, Typed DEF JobT
<1>5. Flows'
  BY <1>1, <1>2, <1>4, FlowQuiet DEF SessionInv, SessionCore, Flows
<1>6. Ends' /\ QuietOk'
  BY <1>1, <1>2, <1>3, <1>4 DEF SessionInv, SessionCore, Ends, QuietOk
<1>7. AskedOk' /\ AnsweredOk' /\ FilesOk'
  BY <1>3 DEF AskedOk, AnsweredOk, FilesOk
<1>8. OpenOk'
  BY <1>2, <1>3 DEF SessionInv, SessionCore, OpenOk
<1>9. OutcomeTold' /\ NothingLost'
  BY <1>1, <1>2 DEF SessionInv, SessionCore, OutcomeTold, NothingLost
<1> QED
  BY <1>5, <1>6, <1>7, <1>8, <1>9 DEF SessionCore

\* The handler has read the request, or cannot read on, and decides.
Decides(next, v, fields, S) ==
    /\ next \in {"list", "write"} /\ v \in Verdicts /\ fields \in Seq(M)
    /\ job'.pc = next /\ job'.res = v /\ job'.out = fields /\ (next = "list" => job'.left = S)
    /\ served' = v /\ sent' = S
    /\ LibraryKept /\ UNCHANGED <<c2s, s2c, serverEnd>>

Answers(next, v, fields, S) ==
    /\ Answering(fields, "result", item, call.op, v, S)
    /\ next = "list" => Listing(fields, "result", call.op, v)
    /\ next # "list" => S = {}

LEMMA DecideCore ==
    ASSUME SessionInv, job.pc = "read", c2s = <<>>, out = <<>>,
           NEW next, NEW v, NEW fields, NEW S, Decides(next, v, fields, S),
           Asked => Answers(next, v, fields, S),
           Asked /\ call.op = "OPEN_FILE" /\ v = "SUCCESS" /\ call.create /\ call.lock
              => opened' = call.path
    PROVE  SessionCore'
<1>1. /\ fd_sock' = fd_sock /\ last_op' = last_op /\ pc' = pc /\ call' = call /\ out' = out
      /\ item' = item /\ got' = got /\ saved' = saved /\ ret' = ret /\ clientEnd' = clientEnd
      /\ c2s' = c2s /\ s2c' = s2c /\ serverEnd' = serverEnd
      /\ next \in {"list", "write"} /\ v \in Verdicts /\ fields \in Seq(M)
      /\ job'.pc = next /\ job'.res = v /\ job'.out = fields /\ (next = "list" => job'.left = S)
      /\ served' = v /\ sent' = S
  BY DEF Decides, LibraryKept
<1>2. /\ Asked \/ pc = "dead"
      /\ serverEnd = "open"
  BY Situation DEF SessionInv, SessionCore, Ends
<1>3. Asked => /\ pc = "result" /\ Calling /\ got = <<>> /\ s2c = <<>>
  BY DEF SessionInv, SessionCore, AskedOk, Asked
<1>4. /\ pc \in {"result", "dead"} /\ pc' \in {"result", "dead"} /\ ~Rest /\ ~Rest'
      /\ (Calling <=> Asked) /\ (Calling' <=> Asked) /\ ~Asked' /\ (Answered' <=> Asked)
      /\ Asked <=> pc = "result"
  <2>1. v # NULL
    BY <1>1, SessionAssumption
  <2> QED
    BY <1>1, <1>2, <1>3, <2>1 DEF Calling, Asked, Answered, Rest, Goes
<1>5. Ends'
  BY <1>1, <1>2, <1>4 DEF SessionInv, SessionCore, Ends
<1>6. Flows'
  <2>1. PICK c : Flow(c, c2s, out, job, opened)
    BY DEF SessionInv, SessionCore, Flows
  <2>2. RequestOk(c) /\ job'.pc # "read"
    BY <1>1, <2>1 DEF Flow
  <2>3. Flow(c, <<>>, <<>>, job', opened')
    BY <2>2, FlowNone
  <2>4. Flow(c, c2s', out', job', opened')
    BY <1>1, <2>3
  <2> QED
    BY <2>4 DEF Flows
<1>7. AskedOk' /\ QuietOk'
  BY <1>1, <1>4 DEF AskedOk, QuietOk
<1>8. Asked => Ahead' = fields
  <2>1. Asked => Ahead' = <<>> \o fields
    BY <1>1, <1>3 DEF Ahead
  <2> QED
    BY <1>1, <2>1
<1>9. AnsweredOk'
  BY <1>1, <1>4, <1>8 DEF AnsweredOk, Answers
<1>10. FilesOk'
  <2> SUFFICES ASSUME Asked PROVE Carried(Ahead', pc', item', got', saved', Left', sent')
    BY <1>4 DEF FilesOk
  <2>1. Left' = S
    BY <1>1 DEF Left, Answers
  <2>2. got' = <<>> /\ pc' = "result" /\ sent' = S
    BY <1>1, <1>3
  <2> QED
    BY <2>1, <2>2 DEF Carried, OnItsWay
<1>11. OpenOk'
  BY <1>1, <1>4 DEF SessionInv, SessionCore, OpenOk
<1>12. OutcomeTold' /\ NothingLost'
  BY <1>4 DEF OutcomeTold, NothingLost
<1> QED
  BY <1>5, <1>6, <1>7, <1>9, <1>10, <1>11, <1>12 DEF SessionCore

\* What a handler that has read all fields knows of the call.
LEMMA AllRead ==
    ASSUME SessionInv, job.pc = "read", job.want = <<>> \/ SizeIsZero(job)
    PROVE  /\ c2s = <<>> /\ out = <<>> /\ job.op \in OpCodes
           /\ Asked /\ job.want = <<>> => Known(call, job, opened)
           /\ Asked => job.op = call.op
<1>1. PICK c : Flow(c, c2s, out, job, opened)
  BY DEF SessionInv, SessionCore, Flows
<1>2. c2s \in Seq(M) /\ out \in Seq(M) /\ job \in JobT
  BY Typed
<1>3. c2s = <<>> /\ out = <<>>
  BY <1>1, <1>2, FlowAll
<1>4. job.op = c.op /\ c.op \in OpCodes
  BY <1>1 DEF Flow, Taking, RequestOk
<1>5. Asked => Flow(call, c2s, out, job, opened)
  BY DEF SessionInv, SessionCore, AskedOk
<1>6. Asked => job.op = call.op
  BY <1>5 DEF Flow, Taking
<1>7. Asked /\ job.want = <<>> => Known(call, job, opened)
  BY <1>2, <1>5, FlowRequest
<1> QED
  BY <1>3, <1>4, <1>6, <1>7

LEMMA AnswerCore ==
    ASSUME SessionInv, job.pc = "read", job.want = <<>>,
           NEW next \in {"list", "write"}, NEW v \in Verdicts, NEW fields \in Seq(M), NEW S,
           Answer(next, v, fields, S),
           Asked => Answers(next, v, fields, S)
    PROVE  SessionCore'
<1>1. /\ job' = [job EXCEPT !.pc = next, !.res = v, !.out = fields, !.left = S]
      /\ served' = v /\ sent' = S /\ UNCHANGED <<Library, c2s, s2c, serverEnd>>
      /\ job.op = "OPEN_FILE" /\ v = "SUCCESS" /\ job.args[2].create /\ job.args[2].lock
            => opened' = job.args[1]
  BY DEF Answer
<1>2. LibraryKept
  BY <1>1 DEF Library, LibraryKept, locals, socket
<1>3. Decides(next, v, fields, S)
  BY <1>1, <1>2, Typed DEF Decides, JobT
<1>4. c2s = <<>> /\ out = <<>> /\ (Asked => Known(call, job, opened))
  BY AllRead
<1>5. Asked /\ call.op = "OPEN_FILE" /\ v = "SUCCESS" /\ call.create /\ call.lock
        => opened' = call.path
  <2> SUFFICES ASSUME Asked, call.op = "OPEN_FILE", v = "SUCCESS", call.create, call.lock
               PROVE  opened' = call.path
    OBVIOUS
  <2>1. /\ job.op = "OPEN_FILE" /\ job.args[1] = call.path
        /\ job.args[2] = [create |-> call.create, lock |-> call.lock]
    BY <1>4 DEF Known
  <2> QED
    BY <1>1, <2>1
<1> QED
  BY <1>3, <1>4, <1>5, DecideCore

LEMMA FieldMissingCore == ASSUME SessionInv, FieldMissing PROVE SessionCore'
<1>1. /\ job.pc = "read"
      /\ job' = [job EXCEPT !.pc = "write", !.res = "CLOSE", !.out = Result("CLOSE")]
      /\ served' = "CLOSE" /\ sent' = sent
      /\ UNCHANGED <<Library, c2s, s2c, serverEnd>>
      /\ SizeIsZero(job) \/ (c2s = <<>> /\ clientEnd = "closed")
  BY DEF FieldMissing, NoData, SizeIsZero, AtEof
<1>2. LibraryKept
  BY <1>1 DEF Library, LibraryKept, locals, socket
<1>3. "CLOSE" \in Verdicts /\ Result("CLOSE") \in Seq(M) /\ "CLOSE" # "SUCCESS"
  BY Verdict, ResultOf
<1>4. Asked => sent = {}
  BY DEF SessionInv, SessionCore, AskedOk
<1>5. c2s = <<>> /\ out = <<>>
  <2>1. CASE SizeIsZero(job)
    BY <1>1, <2>1, AllRead
  <2>2. CASE c2s = <<>> /\ clientEnd = "closed"
    BY <1>1, <2>2, Situation
  <2> QED
    BY <1>1, <2>1, <2>2
<1>6. Decides("write", "CLOSE", Result("CLOSE"), sent)
  <2>1. job'.pc = "write" /\ job'.res = "CLOSE" /\ job'.out = Result("CLOSE")
    BY <1>1, Typed DEF JobT
  <2> QED
    BY <1>1, <1>2, <1>3, <2>1 DEF Decides
<1>7. Asked => Answers("write", "CLOSE", Result("CLOSE"), sent)
  <2>1. Answering(Result("CLOSE"), "result", item, call.op, "CLOSE", sent)
    BY <1>3, AnswerResult
  <2> QED
    BY <1>4, <2>1 DEF Answers
<1> QED
  BY <1>1, <1>3, <1>5, <1>6, <1>7, DecideCore

LEMMA RefuseCore == ASSUME SessionInv, Refuse \/ FailsEmpty PROVE SessionCore'
<1>1. job.pc = "read" /\ job.want = <<>>
  BY DEF Refuse, FailsEmpty
<1>2. job.op \in OpCodes
  BY <1>1, AllRead
<1>3. PICK v \in Verdicts : Answer("write", v, Result(v), {})
  <2>1. CASE Refuse
    <3>1. PICK v \in RefusalsOf(job.op, Last(job.args)) : Answer("write", v, Result(v), {})
      BY <2>1 DEF Refuse
    <3>2. v \in Verdicts
      BY <1>2, RefusalsType
    <3> QED
      BY <3>1, <3>2
  <2>2. CASE FailsEmpty
    BY <2>2, Verdict DEF FailsEmpty
  <2> QED
    BY <2>1, <2>2
<1>4. Result(v) \in Seq(M)
  BY ResultOf
<1>5. Answers("write", v, Result(v), {})
  <2>1. Answering(Result(v), "result", item, call.op, v, {})
    BY AnswerResult
  <2> QED
    BY <2>1 DEF Answers
<1> QED
  BY <1>1, <1>3, <1>4, <1>5, AnswerCore

LEMMA SucceedCore == ASSUME SessionInv, Succeed PROVE SessionCore'
<1>1. job.pc = "read" /\ job.want = <<>>
  BY DEF Succeed
<1>2. Asked => job.op = call.op
  BY <1>1, AllRead
<1>3. "SUCCESS" \in Verdicts /\ Result("SUCCESS") \in Seq(M)
  BY Verdict, ResultOf
<1>4. ASSUME AnswersWithFile(job.op), NEW n \in RemoteSizes,
             Answer("write", "SUCCESS", Result("SUCCESS") \o <<Msg("size", n)>> \o Contents(n)
                                          \o Result("SUCCESS"), {})
      PROVE  SessionCore'
  <2> DEFINE t == Result("SUCCESS") \o <<Msg("size", n)>> \o Contents(n) \o Result("SUCCESS")
  <2>1. n \in Int
    BY SessionAssumption
  <2>2. t \in Seq(M) /\ (Asked => Answering(t, "result", item, call.op, "SUCCESS", {}))
    <3>1. t \in Seq(M) /\ Answering(t, "result", item, job.op, "SUCCESS", {})
      BY <1>4, <2>1, AnswerFile
    <3> QED
      BY <1>2, <3>1
  <2> HIDE DEF t
  <2>3. Asked => Answers("write", "SUCCESS", t, {})
    BY <2>2 DEF Answers
  <2>4. Answer("write", "SUCCESS", t, {})
    BY <1>4 DEF t
  <2> QED
    BY <1>1, <1>3, <2>2, <2>3, <2>4, AnswerCore
<1>5. ASSUME AnswersWithList(job.op), NEW S, Answer("list", "SUCCESS", Result("SUCCESS"), S)
      PROVE  SessionCore'
  <2>1. Asked => Answers("list", "SUCCESS", Result("SUCCESS"), S)
    <3>1. /\ Answering(Result("SUCCESS"), "result", item, job.op, "SUCCESS", S)
          /\ Listing(Result("SUCCESS"), "result", job.op, "SUCCESS")
      BY <1>3, <1>5, AnswerResult
    <3> QED
      BY <1>2, <3>1 DEF Answers
  <2> QED
    BY <1>1, <1>3, <1>5, <2>1, AnswerCore
<1>6. CASE Answer("write", "SUCCESS", Result("SUCCESS"), {})
  <2>1. Answers("write", "SUCCESS", Result("SUCCESS"), {})
    <3>1. Answering(Result("SUCCESS"), "result", item, call.op, "SUCCESS", {})
      BY <1>3, AnswerResult
    <3> QED
      BY <3>1 DEF Answers
  <2> QED
    BY <1>1, <1>3, <1>6, <2>1, AnswerCore
<1> QED
  BY <1>4, <1>5, <1>6 DEF Succeed

\* The worker goes on after its decision, or the main thread closes the connection.
GoesOn ==
    /\ LibraryKept /\ UNCHANGED <<c2s, history>>
    /\ job.pc # "read" /\ job'.pc # "read"
    /\ job'.pc # "idle" => serverEnd' = "open"
    /\ job'.pc \notin {"list", "write"} => job'.out = <<>>
    /\ serverEnd' \in {serverEnd, "closed"}
    /\ Asked => /\ s2c' = <<>> /\ job'.out = <<>> /\ job'.pc \in {"idle", "write"}
                /\ job'.pc = "write" => ~EndsConnection(job'.res)
    /\ Rest => /\ s2c' = <<>> /\ job'.out = <<>> /\ job'.pc # "list"
               /\ job'.pc = "write" => ~EndsConnection(job'.res)
               /\ job'.pc = "close" => clientEnd # "open"
    /\ Answered => /\ Answering(Ahead', pc, item, call.op, served, sent)
                   /\ job'.pc = "list" => Listing(Ahead', pc, call.op, served)
                   /\ job'.pc \in {"list", "write"} => job'.res = served
                   /\ job'.pc = "close" => EndsConnection(served)
    /\ Answered /\ AnswersWithList(call.op) =>
          Carried(Ahead', pc, item, got, saved, Left', sent)

LEMMA GoesOnCore == ASSUME SessionInv, GoesOn PROVE SessionCore'
<1>1. /\ fd_sock' = fd_sock /\ last_op' = last_op /\ pc' = pc /\ call' = call /\ out' = out
      /\ item' = item /\ got' = got /\ saved' = saved /\ ret' = ret /\ clientEnd' = clientEnd
      /\ c2s' = c2s /\ served' = served /\ sent' = sent /\ opened' = opened
      /\ job.pc # "read" /\ job'.pc # "read"
      /\ serverEnd' \in {serverEnd, "closed"}
  BY DEF GoesOn, LibraryKept, history
<1>2. /\ Calling' <=> Calling
      /\ Rest' <=> Rest
      /\ Asked' <=> Asked
      /\ Answered' <=> Answered
  BY <1>1 DEF Calling, Rest, Goes, Asked, Answered
<1>3. Ends'
  BY <1>1, <1>2 DEF GoesOn, SessionInv, SessionCore, Ends
<1>4. Flows'
  BY <1>1, FlowQuiet DEF SessionInv, SessionCore, Flows
<1>5. AskedOk'
  <2> SUFFICES ASSUME Asked PROVE AskedOk'
    BY <1>2 DEF AskedOk
  <2>1. /\ Flow(call, c2s, out, job, opened) /\ UnderWay(c2s, out, job) = Len(Request(call))
        /\ pc \in {"send", "result"} /\ (pc = "send" <=> out # <<>>)
        /\ got = <<>> /\ sent = {}
    BY DEF SessionInv, SessionCore, AskedOk
  <2>2. Flow(call, c2s, out, job', opened) /\ UnderWay(c2s, out, job') = Len(Request(call))
    BY <1>1, <2>1, FlowQuiet
  <2>3. Flow(call', c2s', out', job', opened') /\ UnderWay(c2s', out', job') = Len(Request(call'))
    BY <1>1, <2>2
  <2>4. /\ s2c' = <<>> /\ job'.out = <<>> /\ job'.pc \in {"idle", "write"}
        /\ job'.pc = "write" => ~EndsConnection(job'.res)
    BY DEF GoesOn
  <2> QED
    BY <1>1, <2>1, <2>3, <2>4 DEF AskedOk
<1>6. QuietOk'
  BY <1>1, <1>2 DEF GoesOn, SessionInv, SessionCore, QuietOk
<1>7. AnsweredOk' /\ FilesOk'
  BY <1>1, <1>2 DEF GoesOn, AnsweredOk, FilesOk
<1>8. OpenOk'
  BY <1>1, <1>2 DEF SessionInv, SessionCore, OpenOk
<1>9. OutcomeTold' /\ NothingLost'
  BY <1>1 DEF SessionInv, SessionCore, OutcomeTold, NothingLost
<1> QED
  BY <1>3, <1>4, <1>5, <1>6, <1>7, <1>8, <1>9 DEF SessionCore

LEMMA NothingMore == ASSUME NEW S, NEW s \in Seq(S) PROVE s \o <<>> = s
  OBVIOUS

\* The worker is where it may write the answer.
LEMMA Writing ==
    ASSUME SessionInv
    PROVE  /\ job.pc = "list" => ~Asked /\ ~Rest /\ serverEnd = "open"
           /\ job.out # <<>> => ~Asked /\ ~Rest
           /\ job.pc # "idle" => serverEnd = "open"
           /\ job.pc \notin {"list", "write"} => job.out = <<>>
           /\ Answered => /\ Answering(Ahead, pc, item, call.op, served, sent)
                          /\ job.pc = "list" => Listing(Ahead, pc, call.op, served)
                          /\ job.pc \in {"list", "write"} => job.res = served
                          /\ job.pc = "close" => EndsConnection(served)
           /\ Answered /\ AnswersWithList(call.op) =>
                 Carried(Ahead, pc, item, got, saved, Left, sent)
  BY DEF SessionInv, SessionCore, Ends, AskedOk, QuietOk, AnsweredOk, FilesOk

LEMMA SendFileCore == ASSUME SessionInv, SendFile PROVE SessionCore'
<1>1. PICK f \in job.left, n \in RemoteSizes :
         job' = [job EXCEPT !.out = FileFields(f, n), !.left = @ \ {f}]
  BY DEF SendFile
<1>2. /\ job.pc = "list" /\ job.out = <<>> /\ LibraryKept
      /\ UNCHANGED <<c2s, s2c, serverEnd, history>>
  BY WorkerKeeps DEF SendFile, WorkerStep
<1>3. /\ job'.pc = "list" /\ job'.res = job.res /\ job'.out = FileFields(f, n)
      /\ job'.left = job.left \ {f}
  BY <1>1, <1>2, Typed DEF JobT
<1>4. ~Asked /\ ~Rest /\ serverEnd = "open"
  BY <1>2, Writing
<1>5. f \in Files /\ n \in Int
  BY <1>1, Typed, SessionAssumption
<1> DEFINE t == FileFields(f, n)
<1>6. ASSUME Answered
      PROVE  /\ Answering(Ahead', pc, item, call.op, served, sent)
             /\ Listing(Ahead', pc, call.op, served)
             /\ Carried(Ahead', pc, item, got, saved, Left', sent)
             /\ job.res = served
  <2>1. /\ Answering(Ahead, pc, item, call.op, served, sent)
        /\ Listing(Ahead, pc, call.op, served)
        /\ job.res = served
    BY <1>2, <1>6, Writing
  <2>2. AnswersWithList(call.op) /\ served = "SUCCESS"
    BY <2>1 DEF Listing
  <2>3. Carried(Ahead, pc, item, got, saved, Left, sent) /\ Left = job.left /\ Left' = job.left \ {f}
    BY <1>2, <1>3, <1>6, <2>2, Writing DEF Left
  <2>4. f \in sent
    BY <1>1, <2>3 DEF Carried
  <2>5. /\ t \in Seq(M) /\ Piece(t, call.op, served, sent) /\ t[1] = Msg("path", f)
        /\ \A i \in 1 .. Len(t) : t[i].kind # "res" /\ (t[i].kind = "path" => t[i].value # NULL)
        /\ Closed(t[Len(t)]) /\ Len(t) > 0
    BY <1>5, <2>2, <2>4, FileOf
  <2>6. Ahead = s2c /\ Ahead' = Ahead \o t /\ Ahead \in Seq(M)
    BY <1>2, <1>3, Typed, NothingMore DEF Ahead
  <2> HIDE DEF t
  <2>7. Answering(Ahead \o t, pc, item, call.op, served, sent) /\ Listing(Ahead \o t, pc, call.op, served)
    BY <2>1, <2>5, <2>6, AnswerGrow
  <2>8. Carried(Ahead \o t, pc, item, got, saved, job.left \ {f}, sent)
    <3>1. t[1].kind = "path" /\ t[1].value = f
      BY <2>5, MsgOf
    <3>2. \A g \in job.left \ (job.left \ {f}) : Len(t) > 0 /\ t[1].kind = "path" /\ t[1].value = g
      BY <2>5, <3>1
    <3>3. Carried(Ahead, pc, item, got, saved, job.left, sent)
      BY <2>3
    <3> QED
      BY <2>5, <2>6, <3>2, <3>3, CarryGrow
  <2> QED
    BY <2>1, <2>3, <2>6, <2>7, <2>8
<1> QED
  BY <1>2, <1>3, <1>4, <1>6, GoesOnCore DEF GoesOn

LEMMA EndListCore == ASSUME SessionInv, EndList PROVE SessionCore'
<1> DEFINE t == <<Msg("path", NULL)>> \o Result("SUCCESS")
<1>1. /\ job.pc = "list" /\ job.out = <<>> /\ job.left = {} /\ LibraryKept
      /\ job' = [job EXCEPT !.pc = "write", !.out = t]
      /\ UNCHANGED <<c2s, s2c, serverEnd, history>>
  BY WorkerKeeps DEF EndList, WorkerStep
<1>2. job'.pc = "write" /\ job'.res = job.res /\ job'.out = t
  BY <1>1, Typed DEF JobT
<1>3. ~Asked /\ ~Rest /\ serverEnd = "open"
  BY <1>1, Writing
<1>4. ASSUME Answered
      PROVE  /\ Answering(Ahead', pc, item, call.op, served, sent)
             /\ Carried(Ahead', pc, item, got, saved, Left', sent)
             /\ job.res = served
  <2>1. /\ Answering(Ahead, pc, item, call.op, served, sent)
        /\ Listing(Ahead, pc, call.op, served)
        /\ job.res = served
    BY <1>1, <1>4, Writing
  <2>2. AnswersWithList(call.op) /\ served = "SUCCESS"
    BY <2>1 DEF Listing
  <2>3. Carried(Ahead, pc, item, got, saved, Left, sent) /\ Left = {} /\ Left' = {}
    BY <1>1, <1>2, <1>4, <2>2, Writing DEF Left
  <2>4. t \in Seq(M) /\ Piece(t, call.op, served, sent)
    BY <2>2, EndOf
  <2> HIDE DEF t
  <2>5. Ahead = s2c /\ Ahead' = Ahead \o t /\ Ahead \in Seq(M)
    BY <1>1, <1>2, Typed, NothingMore DEF Ahead
  <2>6. Answering(Ahead \o t, pc, item, call.op, served, sent)
    BY <2>1, <2>4, <2>5, AnswerGrow
  <2>7. Carried(Ahead \o t, pc, item, got, saved, {}, sent)
    BY <2>3, <2>4, <2>5, CarryGrow
  <2> QED
    BY <2>1, <2>3, <2>5, <2>6, <2>7
<1> QED
  BY <1>1, <1>2, <1>3, <1>4, GoesOnCore DEF GoesOn

LEMMA WriteFieldCore == ASSUME SessionInv, WriteField PROVE SessionCore'
<1>1. /\ job.pc \in {"list", "write"} /\ job.out # <<>> /\ LibraryKept
      /\ UNCHANGED <<c2s, serverEnd, history>>
  BY WorkerKeeps DEF WriteField, WorkerStep
<1>2. ~Asked /\ ~Rest /\ serverEnd = "open"
  BY <1>1, Writing
<1>3. CASE s2c' = Append(s2c, Head(job.out)) /\ job' = [job EXCEPT !.out = Tail(@)]
  <2>1. job'.pc = job.pc /\ job'.res = job.res /\ job'.left = job.left /\ job'.out = Tail(job.out)
    BY <1>3, Typed DEF JobT
  <2>2. Ahead' = Ahead
    <3>1. Append(s2c, Head(job.out)) \o Tail(job.out) = s2c \o job.out
      BY <1>1, Typed, SeqMove
    <3> QED
      BY <1>3, <2>1, <3>1 DEF Ahead
  <2>3. Left' = Left
    BY <2>1 DEF Left
  <2>4. /\ Answered => /\ Answering(Ahead', pc, item, call.op, served, sent)
                       /\ job.pc = "list" => Listing(Ahead', pc, call.op, served)
                       /\ job.res = served
        /\ Answered /\ AnswersWithList(call.op) =>
              Carried(Ahead', pc, item, got, saved, Left', sent)
    BY <1>1, <2>2, <2>3, Writing
  <2> QED
    BY <1>1, <1>2, <2>1, <2>4, GoesOnCore DEF GoesOn
<1>4. CASE clientEnd = "closed" /\ job' = [job EXCEPT !.pc = "close", !.out = <<>>, !.left = {}]
  <2>1. job'.pc = "close" /\ job'.out = <<>>
    BY <1>4, Typed DEF JobT
  <2>2. ~Answered
    BY <1>4, Deserted
  <2> QED
    BY <1>1, <1>2, <2>1, <2>2, GoesOnCore DEF GoesOn
<1> QED
  BY <1>3, <1>4 DEF WriteField

\* The worker is done, the main thread closes the connection, the server ends or starts.
LEMMA QuietCore ==
    ASSUME SessionInv, JobDone \/ CloseClient \/ ServerStops \/ ServerStarts
    PROVE  SessionCore'
<1>1. LibraryKept /\ UNCHANGED <<c2s, s2c, history>>
  BY WorkerKeeps DEF JobDone, CloseClient, ServerStops, ServerStarts, WorkerStep
<1>2. NoJob.pc = "idle" /\ NoJob.out = <<>>
  BY DEF NoJob
<1>3. CASE JobDone
  <2>1. /\ job.pc = "write" /\ job.out = <<>> /\ serverEnd' = serverEnd /\ serverEnd = "open"
        /\ job' = IF EndsConnection(job.res) THEN [job EXCEPT !.pc = "close"] ELSE NoJob
    BY <1>3, Writing DEF JobDone
  <2>2. /\ job'.out = <<>>
        /\ EndsConnection(job.res) => job'.pc = "close"
        /\ ~EndsConnection(job.res) => job'.pc = "idle"
    BY <1>2, <2>1, Typed DEF JobT
  <2>3. Ahead' = Ahead /\ Left' = Left
    BY <1>1, <2>1, <2>2 DEF Ahead, Left
  <2>4. /\ Asked \/ Rest => ~EndsConnection(job.res)
        /\ Rest \/ Asked => s2c = <<>>
    BY <2>1 DEF SessionInv, SessionCore, AskedOk, QuietOk
  <2>5. Answered => job.res = served
    BY <2>1, Writing
  <2> QED
    BY <1>1, <2>1, <2>2, <2>3, <2>4, <2>5, Writing, GoesOnCore DEF GoesOn
<1>4. CASE CloseClient
  <2>1. job.pc = "close" /\ job.out = <<>> /\ serverEnd' = "closed" /\ job' = NoJob
    BY <1>4, Writing DEF CloseClient
  <2>2. Ahead' = Ahead /\ Left' = Left
    BY <1>1, <1>2, <2>1 DEF Ahead, Left
  <2>3. ~Asked /\ (Rest => s2c = <<>>)
    BY <2>1 DEF SessionInv, SessionCore, AskedOk, QuietOk
  <2> QED
    BY <1>1, <1>2, <2>1, <2>2, <2>3, Writing, GoesOnCore DEF GoesOn
<1>5. CASE ServerStops
  <2>1. job.pc = "idle" /\ job.out = <<>> /\ serverEnd' \in {serverEnd, "closed"} /\ job' = job
    BY <1>5, Writing DEF ServerStops
  <2>2. Ahead' = Ahead /\ Left' = Left
    BY <1>1, <2>1 DEF Ahead, Left
  <2>3. Asked \/ Rest => s2c = <<>>
    BY DEF SessionInv, SessionCore, AskedOk, QuietOk
  <2> QED
    BY <1>1, <2>1, <2>2, <2>3, Writing, GoesOnCore DEF GoesOn
<1>6. CASE ServerStarts
  <2>1. /\ fd_sock' = fd_sock /\ last_op' = last_op /\ pc' = pc /\ call' = call /\ out' = out
        /\ item' = item /\ got' = got /\ ret' = ret /\ c2s' = c2s /\ s2c' = s2c
        /\ clientEnd' = clientEnd /\ serverEnd' = serverEnd /\ job' = job /\ served' = served
        /\ sent' = sent /\ opened' = opened /\ saved' = saved
    BY <1>1, <1>6 DEF ServerStarts, LibraryKept, history
  <2>2. /\ Calling' <=> Calling
        /\ Asked' <=> Asked
        /\ Answered' <=> Answered
        /\ Rest' <=> Rest
        /\ Ahead' = Ahead /\ Left' = Left
    BY <2>1 DEF Calling, Asked, Answered, Rest, Goes, Ahead, Left
  <2>3. Ends' /\ Flows' /\ QuietOk' /\ OpenOk'
    BY <2>1, <2>2 DEF SessionInv, SessionCore, Ends, Flows, QuietOk, OpenOk
  <2>4. AskedOk'
    BY <2>1, <2>2 DEF SessionInv, SessionCore, AskedOk
  <2>5. AnsweredOk' /\ FilesOk'
    BY <2>1, <2>2 DEF SessionInv, SessionCore, AnsweredOk, FilesOk
  <2>6. OutcomeTold' /\ NothingLost'
    BY <2>1 DEF SessionInv, SessionCore, OutcomeTold, NothingLost
  <2> QED
    BY <2>3, <2>4, <2>5, <2>6 DEF SessionCore
<1> QED
  BY <1>3, <1>4, <1>5, <1>6

-----------------------------------------------------------------------------
(***************************************************************************)
(* The invariant.                                                          *)
(***************************************************************************)
LEMMA SessionInitInv == ASSUME SessionInit PROVE SessionInv
<1>1. /\ fd_sock = FALSE /\ last_op = NoOp /\ pc = "idle" /\ out = <<>> /\ item = NULL
      /\ got = <<>> /\ ret = NoReturn /\ c2s = <<>> /\ s2c = <<>>
      /\ clientEnd = "none" /\ serverEnd = "none" /\ listening \in BOOLEAN /\ job = NoJob
      /\ served = NULL /\ sent = {} /\ opened = NULL
  BY DEF SessionInit
<1>2. /\ job.pc = "idle" /\ job.out = <<>> /\ ret.op = NULL /\ ret.errno = "0"
      /\ NULL \notin OpCodes /\ last_op.is_open = FALSE
  BY <1>1, SessionAssumption DEF NoJob, NoReturn, NoOp
<1>3. SessionTypes
  <2>1. job \in JobT
    BY <1>1 DEF NoJob, JobT
  <2>2. last_op \in [is_open : BOOLEAN, create : BOOLEAN, lock : BOOLEAN, success : BOOLEAN,
                     path : Files \cup {NULL}]
    BY <1>1 DEF NoOp
  <2>3. pc \in Places /\ item \in Values
    BY <1>1 DEF Places, Values
  <2>4. out \in Seq(M) /\ c2s \in Seq(M) /\ s2c \in Seq(M) /\ got \in Seq(Values)
    BY <1>1
  <2> QED
    BY <1>1, <2>1, <2>2, <2>3, <2>4 DEF SessionTypes
<1>4. ~Calling /\ ~Asked /\ ~Answered
  BY <1>1 DEF Calling, Asked, Answered
<1>5. Ends
  BY <1>1, <1>2, <1>4 DEF Ends, Fatal
<1>6. Flows
  <2> DEFINE c == Call("READ_N_FILES", NULL, FALSE, FALSE, 0, NULL)
  <2>1. RequestOk(c)
    BY DEF RequestOk, CallOk, Call, OpCodes
  <2> HIDE DEF c
  <2>2. job.pc # "read"
    BY <1>2
  <2>3. Flow(c, <<>>, <<>>, job, opened)
    BY <2>1, <2>2, FlowNone
  <2> QED
    BY <1>1, <2>3 DEF Flows
<1>7. AskedOk /\ QuietOk /\ AnsweredOk /\ FilesOk
  BY <1>1, <1>2, <1>4 DEF AskedOk, QuietOk, AnsweredOk, FilesOk
<1>8. OpenOk
  BY <1>2, <1>4 DEF OpenOk
<1>9. OutcomeTold /\ NothingLost
  BY <1>2 DEF OutcomeTold, NothingLost
<1> QED
  BY <1>3, <1>5, <1>6, <1>7, <1>8, <1>9 DEF SessionInv, SessionCore

LEMMA SessionStepInv == ASSUME SessionInv, SessionStep PROVE SessionInv'
<1>1. SessionTypes'
  <2>1. CASE LibraryStep \/ (Goes /\ UserCall) \/ Die
    BY <2>1, LibraryTypes DEF UserCall
  <2>2. CASE WorkerStep \/ ServerStops \/ ServerStarts
    BY <2>2, WorkerTypes
  <2>3. CASE Keeps
    <3>1. UNCHANGED sessionButSaved
      BY <2>3 DEF Keeps
    <3> QED
      BY <3>1 DEF sessionButSaved, SessionInv, SessionTypes
  <2>4. CASE UNCHANGED sessionVars
    BY <2>4, LibraryTypes
  <2> QED
    BY <2>1, <2>2, <2>3, <2>4 DEF SessionStep
<1>2. SessionCore'
  <2>1. CASE LibraryStep
    <3>1. ASSUME ReadSize \/ ReadContents \/ ReadListPath \/ ReadListSize \/ ReadListData
          PROVE  SessionCore'
      BY <3>1, ReadingGoesOn, ReadOnwardCore
    <3>2. BrokenPipe => Die
      BY DEF BrokenPipe
    <3> QED
      BY <2>1, <3>1, <3>2, SendFieldCore, ReadResultCore, ReadNoContentsCore, ReadFinalCore,
         ReadEofCore, SaveCore, SaveFileCore, DieCore, UserStepCore DEF LibraryStep
  <2>2. CASE WorkerStep
    BY <2>2, ReadOpCore, HangUpCore, ReadFieldCore, SkipDataCore, FieldMissingCore, RefuseCore,
       SucceedCore, SendFileCore, EndListCore, WriteFieldCore, QuietCore DEF WorkerStep
  <2>3. CASE ServerStops \/ ServerStarts
    BY <2>3, QuietCore
  <2>4. CASE Die
    BY <2>4, DieCore
  <2>5. CASE (Goes /\ UserCall) \/ Keeps \/ UNCHANGED sessionVars
    BY <2>5, UserStepCore
  <2> QED
    BY <2>1, <2>2, <2>3, <2>4, <2>5 DEF SessionStep
<1> QED
  BY <1>1, <1>2 DEF SessionInv

LEMMA SessionInStep == ASSUME SessionInv PROVE InStep
<1>1. PICK c : Flow(c, c2s, out, job, opened)
  BY DEF SessionInv, SessionCore, Flows
<1>2. c2s \in Seq(M) /\ out \in Seq(M) /\ job \in JobT
  BY Typed
<1>3. ASSUME Expected # "none", s2c # <<>> PROVE Head(s2c).kind = Expected
  <2>1. Calling /\ pc # "send"
    BY <1>3 DEF Expected, Calling
  <2>2. Answered
    BY <1>3, <2>1, Situation DEF Answered, Asked
  <2>3. Ahead # <<>> /\ Head(s2c) = Ahead[1]
    BY <1>3, TakeAhead
  <2>4. Ahead[1].kind = Due(pc, item)
    BY <2>2, <2>3, Writing DEF Answering
  <2>5. Due(pc, item) = Expected
    BY <1>3 DEF Expected, Due
  <2> QED
    BY <2>3, <2>4, <2>5
<1>4. ASSUME job.pc = "idle", c2s # <<>> PROVE Head(c2s).kind = "op"
  <2> DEFINE j2 == [NoJob EXCEPT !.pc = "read", !.op = Head(c2s).value,
                                 !.want = Fields(Head(c2s).value)]
  <2>1. TakesOp(c, c2s, out, job, opened, j2)
    BY <1>1, <1>2, <1>4 DEF TakesOp, NoJob
  <2> HIDE DEF j2
  <2> QED
    BY <2>1, FlowOp
<1>5. ASSUME job.pc = "read", job.want # <<>>, c2s # <<>> PROVE Head(c2s).kind = Head(job.want)
  <2> DEFINE j2 == [job EXCEPT !.args = Append(@, Head(c2s).value), !.want = Tail(@)]
  <2>1. TakesField(c, c2s, out, job, opened, j2)
    BY <1>1, <1>2, <1>5 DEF TakesField, JobT
  <2> HIDE DEF j2
  <2> QED
    BY <2>1, FlowField
<1>6. ASSUME pc = "idle", ~Fatal(ret.errno)
      PROVE  c2s = <<>> /\ s2c = <<>> /\ job.out = <<>> /\ job.pc \notin {"read", "list"}
  BY <1>6 DEF SessionInv, SessionCore, QuietOk, Rest, Goes
<1> QED
  BY <1>3, <1>4, <1>5, <1>6 DEF InStep

LEMMA SessionWriteAfterCreate == ASSUME SessionInv PROVE WriteAfterCreate
<1> SUFFICES ASSUME job.pc = "read", job.op = "WRITE_FILE", job.want = <<>>
             PROVE  \/ opened = job.args[1]
                    \/ opened # NULL /\ <<job.args[1], opened>> \in PrefixOf
  BY DEF WriteAfterCreate
<1>1. PICK c : Flow(c, c2s, out, job, opened)
  BY DEF SessionInv, SessionCore, Flows
<1>2. Known(c, job, opened)
  BY <1>1, Typed, FlowRequest
<1>3. job.args[1] = c.path /\ MayWrite(c.path, opened)
  BY <1>2 DEF Known
<1> QED
  BY <1>3 DEF MayWrite

-----------------------------------------------------------------------------
(***************************************************************************)
(* Any program that uses the library.                                      *)
(***************************************************************************)
SessionSpec == SessionInit /\ [][SessionStep]_sessionVars

\* The invariant of a process, its connection and its worker holds whatever the
\* program calls, the handlers decide and the kernel takes away.
THEOREM SessionInvariant == SessionSpec => []SessionInv
<1>1. SessionInv /\ [SessionStep]_sessionVars => SessionInv'
  BY SessionStepInv DEF SessionStep
<1> QED
  BY <1>1, SessionInitInv, PTL DEF SessionSpec

\* The two ends of a connection stay in step (InStep), a function of the library
\* reports what the server did (OutcomeTold), a file that the server gives away is
\* kept (NothingLost), and contents come only from who created the file
\* (WriteAfterCreate): for every program, any number of calls and any files.
THEOREM SessionSound == SessionSpec => [](InStep /\ OutcomeTold /\ NothingLost /\ WriteAfterCreate)
<1>1. SessionInv => InStep /\ OutcomeTold /\ NothingLost /\ WriteAfterCreate
  BY SessionInStep, SessionWriteAfterCreate DEF SessionInv, SessionCore
<1> QED
  BY <1>1, SessionInvariant, PTL

=============================================================================
