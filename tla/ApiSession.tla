----------------------------- MODULE ApiSession -----------------------------
(***************************************************************************)
(* One process that uses the API library, its connection, and the worker   *)
(* that serves it.  The functions of src/src/api build a request, write it *)
(* field by field and read the answer field by field; the handlers of      *)
(* src/src/server read and write the other end.  What the store decides is *)
(* left open here (any result that the handler can give, any files it may  *)
(* send); FileStore models it.                                             *)
(*                                                                         *)
(* Where the process is, pc:                                               *)
(*   "idle"     not in a function of the library                           *)
(*   "connect"  in the loop of openConnection                              *)
(*   "send"     writes the fields in out                                   *)
(*   "result"   reads the (first) result                                   *)
(*   "size", "contents"           reads the file of readFile               *)
(*   "lpath", "lsize", "ldata"    reads a file in                          *)
(*                                write_files_sent_by_server               *)
(*   "final"    reads the result that follows the files                    *)
(*   "save"     in write_list_of_files_into_dir                            *)
(*   "dead"     ended (exit, a signal, a crash)                            *)
(*                                                                         *)
(* Where the worker is, job.pc: "idle" (the connection is watched by the   *)
(* main thread), "read" (reads the fields in want), "list" (in             *)
(* send_list_of_files, with the files of left still to come), "write"      *)
(* (writes the last fields), "close" (MW_CLOSE or MW_FATAL_ERROR was       *)
(* reported; the main thread closes the connection).  Where it writes, out *)
(* are the fields that come next.                                          *)
(***************************************************************************)
EXTENDS Protocol, FiniteSets, SequencesExt

CONSTANTS
    Files,          \* path names
    NULL,           \* no path name, no directory
    LocalSize,      \* size of each file on the disk of the client, -1: unreadable
    RemoteSizes,    \* sizes a file may have in the server
    PrefixOf,       \* <<p, q>>: p is a proper prefix of q
    BaseName,       \* what remove_path_from_name leaves of a path
    Unwritable,     \* base names that cannot be written into a directory
    Stored          \* the files that the server may send

ASSUME SessionAssumption ==
    /\ IsFiniteSet(Files)
    /\ NULL \notin Files \cup OpCodes \cup Verdicts
    /\ LocalSize \in [Files -> Nat \cup {-1}]
    /\ RemoteSizes \subseteq Nat
    /\ PrefixOf \subseteq Files \X Files
    /\ DOMAIN BaseName = Files
    /\ Stored \subseteq Files

VARIABLES
    fd_sock,        \* is the library connected?
    last_op,        \* the last operation, if it was an openFile
    pc, call, out,  \* the function being run, its arguments, what it has to write
    item,           \* the path or size just read
    got,            \* the files read by write_files_sent_by_server
    saved,          \* what the current call has written: base name and file
    ret,            \* what the last function returned
    waiting,        \* seconds left to openConnection
    c2s, s2c,       \* the two directions of the stream
    clientEnd,      \* "none", "open" or "closed"
    serverEnd,      \* likewise
    listening,      \* does the server accept connections?
    job,            \* the worker, see above
    served,         \* history: the result the server chose for the current call
    sent,           \* history: the files it sent for it
    opened          \* history: the file that its last request created and locked

locals == <<call, out, item, got>>
socket == <<fd_sock, clientEnd>>
worker == <<job, serverEnd, listening>>
history == <<served, sent, opened>>
sessionButSaved == <<fd_sock, last_op, pc, call, out, item, got, ret, waiting, c2s, s2c,
                     clientEnd, serverEnd, listening, job, served, sent, opened>>
sessionVars == <<sessionButSaved, saved>>

\* Arguments of a function of the library; those it does not have are fixed.
Call(op, path, create, lock, n, dir) ==
    [op |-> op, path |-> path, create |-> create, lock |-> lock, n |-> n, dir |-> dir]

NoOp == [is_open |-> FALSE, create |-> FALSE, lock |-> FALSE, success |-> FALSE, path |-> NULL]
NoCall == Call(NULL, NULL, FALSE, FALSE, 0, NULL)
NoReturn == [op |-> NULL, ok |-> TRUE, errno |-> "0"]
NoJob == [pc |-> "idle", op |-> NULL, want |-> <<>>, args |-> <<>>, res |-> NULL, out |-> <<>>,
          left |-> {}]

SessionInit == /\ fd_sock = FALSE
               /\ last_op = NoOp
               /\ pc = "idle"
               /\ call = NoCall
               /\ out = <<>> /\ item = NULL /\ got = <<>> /\ saved = {}
               /\ ret = NoReturn
               /\ waiting = 0
               /\ c2s = <<>> /\ s2c = <<>>
               /\ clientEnd = "none" /\ serverEnd = "none"
               /\ listening \in BOOLEAN
               /\ job = NoJob
               /\ served = NULL /\ sent = {} /\ opened = NULL

-----------------------------------------------------------------------------
(***************************************************************************)
(* A function of the library begins.                                       *)
(***************************************************************************)
\* Fault: an openFile that was refused is enough.
GrantedOnTrial(path) == /\ last_op.is_open /\ last_op.create /\ last_op.lock
                        /\ last_op.path = path \/ <<path, last_op.path>> \in PrefixOf

\* writeFile's test of last_op compares only as many characters as its own path has.
Granted(path) == /\ last_op.is_open /\ last_op.create /\ last_op.lock /\ last_op.success
                 /\ last_op.path = path \/ <<path, last_op.path>> \in PrefixOf

\* What the functions refuse without asking the server.
LocalError(c) ==
    CASE c.op \in {"LOCK_FILE", "UNLOCK_FILE"}            -> "ENOSYS"
      [] ~fd_sock                                         -> "ENOTCONN"
      [] c.op # "READ_N_FILES" /\ c.path = NULL           -> "EINVAL"
      [] c.op = "WRITE_FILE" /\ ~Granted(c.path)          -> "ENOTTY"
      [] c.op = "WRITE_FILE" /\ LocalSize[c.path] = -1    -> "EIO"
      [] OTHER                                            -> "0"
LocalErrors == {"ENOSYS", "ENOTCONN", "EINVAL", "ENOTTY", "EIO", "EISCONN", "ETIMEDOUT"}

\* The fields a function writes: openFile, writeFile, appendToFile, readNFiles, and
\* closeFile, readFile and removeFile.
OpenRequest(c) == <<Msg("path", c.path), Msg("flags", [create |-> c.create, lock |-> c.lock])>>
WriteRequest(c) == <<Msg("path", c.path), Msg("size", LocalSize[c.path])>>
                     \o Contents(LocalSize[c.path])
AppendRequest(c) == <<Msg("path", c.path), Msg("size", c.n)>> \o Contents(c.n)
ReadNRequest(c) == <<Msg("n", c.n)>>
PathRequest(c) == <<Msg("path", c.path)>>
Request(c) == <<Msg("op", c.op)>> \o CASE c.op = "OPEN_FILE"      -> OpenRequest(c)
                                      [] c.op = "WRITE_FILE"     -> WriteRequest(c)
                                      [] c.op = "APPEND_TO_FILE" -> AppendRequest(c)
                                      [] c.op = "READ_N_FILES"   -> ReadNRequest(c)
                                      [] OTHER                   -> PathRequest(c)

Reject(c) == /\ pc = "idle"
             /\ LocalError(c) # "0"
             /\ ret' = [op |-> c.op, ok |-> FALSE, errno |-> LocalError(c)]
             /\ last_op' = IF LocalError(c) = "EIO" THEN NoOp ELSE last_op
             /\ UNCHANGED <<pc, locals, saved, waiting, c2s, s2c, socket, worker, history>>

\* openFile forgets the last operation only when it has written its request.
Start(c) == /\ pc = "idle"
            /\ LocalError(c) = "0"
            /\ pc' = "send"
            /\ call' = c
            /\ out' = Request(c)
            /\ item' = NULL /\ got' = <<>> /\ saved' = {}
            /\ served' = NULL /\ sent' = {} /\ UNCHANGED opened
            /\ last_op' = IF c.op = "OPEN_FILE" THEN last_op ELSE NoOp
            /\ UNCHANGED <<ret, waiting, c2s, s2c, socket, worker>>

BeginCall(c) == Reject(c) \/ Start(c)

Return(errno) == /\ pc' = "idle"
                 /\ ret' = [op |-> call.op, ok |-> errno = "0", errno |-> errno]
                 /\ call' = NoCall /\ out' = <<>> /\ item' = NULL /\ got' = <<>>

SendField == /\ pc = "send"
             /\ serverEnd = "open"
             /\ c2s' = Append(c2s, Head(out))
             /\ out' = Tail(out)
             /\ \/ /\ Tail(out) # <<>>
                   /\ UNCHANGED <<pc, last_op>>
                \/ /\ Tail(out) = <<>>
                   /\ pc' = "result"
                   /\ last_op' = IF call.op = "OPEN_FILE"
                                 THEN [is_open |-> TRUE, create |-> call.create,
                                       lock |-> call.lock, success |-> FALSE,
                                       path |-> call.path]
                                 ELSE last_op
             /\ UNCHANGED <<call, item, got, saved, ret, waiting, s2c, socket, worker, history>>

-----------------------------------------------------------------------------
(***************************************************************************)
(* The answer.                                                             *)
(***************************************************************************)
Value == Head(s2c).value
Take == /\ s2c # <<>>
        /\ s2c' = Tail(s2c)
        /\ UNCHANGED <<saved, waiting, c2s, socket, worker, history>>

\* Fault: only the functions that expect files look at the result.
ReadResultUnchecked ==
    /\ pc = "result"
    /\ Take
    /\ \/ /\ Value = "SUCCESS"
          /\ AnswersWithFile(call.op) \/ AnswersWithList(call.op)
          /\ pc' = IF AnswersWithFile(call.op) THEN "size" ELSE "lpath"
          /\ UNCHANGED <<locals, ret>>
       \/ /\ ~(AnswersWithFile(call.op) \/ AnswersWithList(call.op))
          /\ Return("0")
    /\ UNCHANGED last_op

ReadResult ==
    /\ pc = "result"
    /\ Take
    /\ \/ /\ Value = "SUCCESS"
          /\ AnswersWithFile(call.op) \/ AnswersWithList(call.op)
          /\ pc' = IF AnswersWithFile(call.op) THEN "size" ELSE "lpath"
          /\ UNCHANGED <<locals, ret, last_op>>
       \/ /\ Value # "SUCCESS" \/ ~(AnswersWithFile(call.op) \/ AnswersWithList(call.op))
          /\ Return(convert_res_to_errno(Value))
          /\ last_op' = IF call.op = "OPEN_FILE"
                        THEN [last_op EXCEPT !.success = (Value = "SUCCESS")] ELSE last_op

ReadSize == /\ pc = "size"
            /\ Take
            /\ item' = Value
            /\ pc' = "contents"
            /\ UNCHANGED <<call, out, got, ret, last_op>>

ReadContents == /\ pc = "contents"
                /\ item # 0
                /\ Take
                /\ pc' = "final"
                /\ UNCHANGED <<locals, ret, last_op>>

\* readn returns 0 for an empty file, and readFile takes it for the end of the stream.
ReadNoContents == /\ pc = "contents"
                  /\ item = 0
                  /\ Return("EBADE")
                  /\ UNCHANGED <<saved, last_op, waiting, c2s, s2c, socket, worker, history>>

\* The loop of write_files_sent_by_server; a path of length 0 ends the list.
ReadListPath == /\ pc = "lpath"
                /\ Take
                /\ pc' = IF Value = NULL THEN "final" ELSE "lsize"
                /\ item' = Value
                /\ UNCHANGED <<call, out, got, ret, last_op>>
\* Fault: a file without contents is not put in the list.
ReadListSizeDropsEmpty == /\ pc = "lsize"
                          /\ Take
                          /\ pc' = IF Value = 0 THEN "lpath" ELSE "ldata"
                          /\ got' = IF Value = 0 THEN got ELSE Append(got, item)
                          /\ UNCHANGED <<call, out, item, ret, last_op>>
ReadListSize == /\ pc = "lsize"
                /\ Take
                /\ pc' = IF Value = 0 THEN "lpath" ELSE "ldata"
                /\ got' = Append(got, item)
                /\ UNCHANGED <<call, out, item, ret, last_op>>
ReadListData == /\ pc = "ldata"
                /\ Take
                /\ pc' = "lpath"
                /\ UNCHANGED <<locals, ret, last_op>>

ReadFinal ==
    /\ pc = "final"
    /\ Take
    /\ \/ /\ Value = "SUCCESS" /\ AnswersWithList(call.op)
          /\ pc' = "save"
          /\ UNCHANGED <<locals, ret>>
       \/ /\ Value # "SUCCESS" \/ AnswersWithFile(call.op)
          /\ Return(convert_res_to_errno(Value))
    /\ UNCHANGED last_op

\* The server has closed the connection.
Reading == pc \in {"result", "size", "contents", "lpath", "lsize", "ldata", "final"}
\* Fault: the end of the stream is noticed only while the files are read.
ReadEofInFiles == /\ Reading /\ pc # "result"
                  /\ s2c = <<>>
                  /\ serverEnd = "closed"
                  /\ Return("EBADE")
                  /\ UNCHANGED <<saved, last_op, waiting, c2s, s2c, socket, worker, history>>
ReadEof == /\ Reading
           /\ s2c = <<>>
           /\ serverEnd = "closed"
           /\ Return("EBADE")
           /\ UNCHANGED <<saved, last_op, waiting, c2s, s2c, socket, worker, history>>

(***************************************************************************)
(* write_list_of_files_into_dir, and the test of its result.  Without a    *)
(* directory it writes 0 files; a file that cannot be opened or written is *)
(* tried again and again.  The -1 for a directory that cannot be made is   *)
(* compared with an unsigned number and so passes the test: it is returned *)
(* with the errno that mkdir left, written "mkdir" here.                   *)
(***************************************************************************)
SaveNowhere == /\ pc = "save"
               /\ call.dir = NULL
               /\ Return(IF got = <<>> THEN "0" ELSE "ECANCELED")
               /\ UNCHANGED <<saved, last_op, waiting, c2s, s2c, socket, worker, history>>
NoDirectory == /\ pc = "save"
               /\ call.dir # NULL
               /\ saved = {}
               /\ Return("mkdir")
               /\ UNCHANGED <<saved, last_op, waiting, c2s, s2c, socket, worker, history>>
WriteOne(written, f) == {s \in written : s[1] # BaseName[f]} \cup {<<BaseName[f], f>>}
WriteAll(fs) == FoldLeft(WriteOne, {}, fs)

SaveFile == /\ pc = "save"
            /\ call.dir # NULL
            /\ got # <<>>
            /\ BaseName[Head(got)] \notin Unwritable
            /\ saved' = WriteOne(saved, Head(got))
            /\ got' = Tail(got)
            /\ UNCHANGED <<pc, call, out, item, ret, last_op, waiting, c2s, s2c, socket, worker,
                           history>>
Saved == /\ pc = "save"
         /\ call.dir # NULL
         /\ got = <<>>
         /\ Return("0")
         /\ UNCHANGED <<saved, last_op, waiting, c2s, s2c, socket, worker, history>>

-----------------------------------------------------------------------------
(***************************************************************************)
(* Connecting, closing, ending.                                            *)
(***************************************************************************)
\* abstime is sec seconds away.  Bound: a process connects again only when the
\* server has closed its earlier connection.
openConnection(sec) ==
    /\ pc = "idle"
    /\ \/ /\ fd_sock
          /\ ret' = [op |-> "CONNECT", ok |-> FALSE, errno |-> "EISCONN"]
          /\ UNCHANGED <<pc, waiting>>
       \/ /\ ~fd_sock
          /\ serverEnd # "open"
          /\ pc' = "connect"
          /\ waiting' = sec
          /\ UNCHANGED ret
    /\ UNCHANGED <<locals, saved, last_op, c2s, s2c, socket, worker, history>>

\* connect succeeds; the main thread accepts the connection.
Connected == /\ pc = "connect"
             /\ listening
             /\ pc' = "idle"
             /\ ret' = [op |-> "CONNECT", ok |-> TRUE, errno |-> "0"]
             /\ fd_sock' = TRUE
             /\ clientEnd' = "open" /\ serverEnd' = "open"
             /\ c2s' = <<>> /\ s2c' = <<>>
             /\ UNCHANGED <<locals, saved, last_op, waiting, job, listening, history>>

\* connect fails: the loop sleeps and tries again until the second abstime has come.
ConnectFails ==
    /\ pc = "connect"
    /\ ~listening
    /\ \/ /\ waiting > 0
          /\ waiting' = waiting - 1
          /\ UNCHANGED <<pc, ret>>
       \/ /\ waiting = 0
          /\ pc' = "idle"
          /\ ret' = [op |-> "CONNECT", ok |-> FALSE, errno |-> "ETIMEDOUT"]
          /\ UNCHANGED waiting
    /\ UNCHANGED <<locals, saved, last_op, c2s, s2c, socket, worker, history>>

closeConnection == /\ pc = "idle"
                   /\ fd_sock
                   /\ fd_sock' = FALSE
                   /\ clientEnd' = "closed"
                   /\ ret' = [op |-> "DISCONNECT", ok |-> TRUE, errno |-> "0"]
                   /\ UNCHANGED <<pc, locals, saved, last_op, waiting, c2s, s2c, worker, history>>

\* The process ends; the kernel closes its end of the connection and drops what
\* the process has not read.
Die == /\ pc' = "dead"
       /\ fd_sock' = FALSE
       /\ clientEnd' = IF clientEnd = "open" THEN "closed" ELSE clientEnd
       /\ call' = NoCall /\ out' = <<>> /\ item' = NULL /\ got' = <<>>
       /\ ret' = NoReturn /\ last_op' = NoOp
       /\ saved' = {} /\ waiting' = 0
       /\ served' = NULL /\ sent' = {} /\ s2c' = <<>>
       /\ UNCHANGED <<c2s, worker, opened>>

\* closeConnection compares its argument with socket_path, which is NULL.
CloseUnconnected == pc = "idle" /\ ~fd_sock /\ Die

Killed == pc # "dead" /\ Die
\* A write to a closed connection raises SIGPIPE, which the library does not handle.
BrokenPipe == pc = "send" /\ serverEnd = "closed" /\ Die

LibraryStep == \/ SendField \/ ReadResult \/ ReadSize \/ ReadContents \/ ReadNoContents
               \/ ReadListPath \/ ReadListSize \/ ReadListData \/ ReadFinal \/ ReadEof
               \/ SaveNowhere \/ NoDirectory \/ SaveFile \/ Saved
               \/ Connected \/ ConnectFails \/ BrokenPipe

-----------------------------------------------------------------------------
(***************************************************************************)
(* The worker: the switch on the op code, the fields that the handler      *)
(* reads, the answer it writes.  FileStore models what happens in between. *)
(***************************************************************************)
Library == <<locals, saved, socket, last_op, pc, ret, waiting>>
AtEof == c2s = <<>> /\ clientEnd = "closed"

ReadOp == /\ job.pc = "idle"
          /\ serverEnd = "open"
          /\ c2s # <<>>
          /\ job' = [NoJob EXCEPT !.pc = "read", !.op = Head(c2s).value,
                                  !.want = Fields(Head(c2s).value)]
          /\ c2s' = Tail(c2s)
          /\ UNCHANGED <<Library, s2c, serverEnd, listening, history>>

HangUp == /\ job.pc = "idle"
          /\ serverEnd = "open"
          /\ AtEof
          /\ job' = [job EXCEPT !.pc = "close"]
          /\ UNCHANGED <<Library, c2s, s2c, serverEnd, listening, history>>

\* The contents, of the size just read: append_to_file skips them when it is 0.
NoData == Head(job.want) = "data" /\ Last(job.args) = 0

ReadField == /\ job.pc = "read"
             /\ job.want # <<>>
             /\ ~NoData
             /\ c2s # <<>>
             /\ job' = [job EXCEPT !.args = Append(@, Head(c2s).value), !.want = Tail(@)]
             /\ c2s' = Tail(c2s)
             /\ UNCHANGED <<Library, s2c, serverEnd, listening, history>>

SkipData == /\ job.pc = "read"
            /\ job.want # <<>>
            /\ NoData /\ job.op = "APPEND_TO_FILE"
            /\ job' = [job EXCEPT !.want = <<>>]
            /\ UNCHANGED <<Library, c2s, s2c, serverEnd, listening, history>>

Result(res) == <<Msg("res", res)>>

\* readn returns 0: the client is gone, or write_file asked for 0 bytes.
FieldMissing == /\ job.pc = "read"
                /\ job.want # <<>>
                /\ IF NoData THEN job.op = "WRITE_FILE" ELSE AtEof
                /\ job' = [job EXCEPT !.pc = "write", !.res = "CLOSE",
                                      !.out = Result("CLOSE")]
                /\ served' = "CLOSE" /\ opened' = NULL
                /\ UNCHANGED <<Library, c2s, s2c, serverEnd, listening, sent>>

\* The handler has decided: it writes fields, and then the list of these files.
Answer(next, res, fields, files) ==
    /\ job' = [job EXCEPT !.pc = next, !.res = res, !.out = fields, !.left = files]
    /\ served' = res
    /\ sent' = files
    /\ opened' = IF /\ job.op = "OPEN_FILE" /\ res = "SUCCESS"
                    /\ job.args[2].create /\ job.args[2].lock
                 THEN job.args[1] ELSE NULL
    /\ UNCHANGED <<Library, c2s, s2c, serverEnd, listening>>

\* An append of nothing is not looked at.
NoOpAppend == job.op = "APPEND_TO_FILE" /\ Last(job.args) = 0

Refuse == /\ job.pc = "read" /\ job.want = <<>>
          /\ ~NoOpAppend
          /\ \E res \in RefusalsOf(job.op, Last(job.args)) :
                Answer("write", res, Result(res), {})

\* read_n_files of an empty store tests a variable that it has not assigned.
FailsEmpty == /\ job.pc = "read" /\ job.want = <<>>
              /\ job.op = "READ_N_FILES" /\ Last(job.args) <= 0
              /\ Answer("write", "ERROR", Result("ERROR"), {})

\* The sets of files that a handler may send: those expelled to make room, which
\* the written file is not, or the first N of the store.
SendableBy(op, args) ==
    {S \in SUBSET Stored :
        /\ op \in {"WRITE_FILE", "APPEND_TO_FILE"} => args[1] \notin S
        /\ op = "READ_N_FILES" /\ args[1] > 0 => Cardinality(S) <= args[1]}

Succeed ==
    /\ job.pc = "read" /\ job.want = <<>>
    /\ \/ /\ AnswersWithFile(job.op)
          /\ \E n \in RemoteSizes :
                Answer("write", "SUCCESS", Result("SUCCESS") \o <<Msg("size", n)>> \o Contents(n)
                                             \o Result("SUCCESS"), {})
       \/ /\ AnswersWithList(job.op)
          /\ \E S \in IF NoOpAppend THEN {{}} ELSE SendableBy(job.op, job.args) :
                Answer("list", "SUCCESS", Result("SUCCESS"), S)
       \/ /\ ~AnswersWithFile(job.op) /\ ~AnswersWithList(job.op)
          /\ Answer("write", "SUCCESS", Result("SUCCESS"), {})

\* send_list_of_files goes on with send_single_file, or ends with a path of length 0;
\* then only the result is missing.
FileFields(path, n) == <<Msg("path", path), Msg("size", n)>> \o Contents(n)
SendFile == /\ job.pc = "list" /\ job.out = <<>>
            /\ \E f \in job.left, n \in RemoteSizes :
                  job' = [job EXCEPT !.out = FileFields(f, n), !.left = @ \ {f}]
            /\ UNCHANGED <<Library, c2s, s2c, serverEnd, listening, history>>
EndList == /\ job.pc = "list" /\ job.out = <<>>
           /\ job.left = {}
           /\ job' = [job EXCEPT !.pc = "write",
                                 !.out = <<Msg("path", NULL)>> \o Result("SUCCESS")]
           /\ UNCHANGED <<Library, c2s, s2c, serverEnd, listening, history>>

\* A client that is gone makes the write fail (the server ignores SIGPIPE).
WriteField == /\ job.pc \in {"list", "write"}
              /\ job.out # <<>>
              /\ \/ /\ clientEnd = "open"
                    /\ s2c' = Append(s2c, Head(job.out))
                    /\ job' = [job EXCEPT !.out = Tail(@)]
                 \/ /\ clientEnd = "closed"
                    /\ job' = [job EXCEPT !.pc = "close", !.out = <<>>, !.left = {}]
                    /\ UNCHANGED s2c
              /\ UNCHANGED <<Library, c2s, serverEnd, listening, history>>

\* The worker reports to the main thread, which watches the connection again.
JobDone == /\ job.pc = "write"
           /\ job.out = <<>>
           /\ job' = IF EndsConnection(job.res) THEN [job EXCEPT !.pc = "close"] ELSE NoJob
           /\ UNCHANGED <<Library, c2s, s2c, serverEnd, listening, history>>

\* The main thread closes the connection.
CloseClient == /\ job.pc = "close"
               /\ serverEnd' = "closed"
               /\ job' = NoJob
               /\ UNCHANGED <<Library, c2s, s2c, listening, history>>

WorkerStep == \/ ReadOp \/ HangUp \/ ReadField \/ SkipData \/ FieldMissing \/ Refuse \/ FailsEmpty
              \/ Succeed \/ SendFile \/ EndList \/ WriteField \/ JobDone \/ CloseClient

\* The server ends, between two requests; it may be started before or after.
ServerStops == /\ listening
               /\ job.pc = "idle"
               /\ listening' = FALSE
               /\ serverEnd' = IF serverEnd = "open" THEN "closed" ELSE serverEnd
               /\ UNCHANGED <<Library, c2s, s2c, job, history>>
ServerStarts == /\ ~listening
                /\ listening' = TRUE
                /\ UNCHANGED <<Library, c2s, s2c, job, serverEnd, history>>

-----------------------------------------------------------------------------
(***************************************************************************)
(* Properties.                                                             *)
(***************************************************************************)
\* errno after which CHECK_IF_FATAL_ERR gives up the connection.
Fatal(errno) == errno \in {"EBADE", "ENOTRECOVERABLE"}

\* What the library expects to read next, by where it is.
Expected == CASE pc \in {"result", "final"}    -> "res"
              [] pc \in {"size", "lsize"}      -> "size"
              [] pc = "ldata"                  -> "data"
              [] pc = "contents" /\ item # 0   -> "data"
              [] pc = "lpath"                  -> "path"
              [] OTHER                         -> "none"

(***************************************************************************)
(* The two ends of a connection stay in step.  Whatever the functions of   *)
(* src/src/api read next is of the kind that the handlers of               *)
(* src/src/server wrote there, whatever the handlers read next is what the *)
(* library wrote there, and when a function has returned, without one of   *)
(* the errors that end the connection, nothing is left over in either      *)
(* direction that the next call would take for its own answer.             *)
(***************************************************************************)
InStep ==
    /\ Expected # "none" /\ s2c # <<>> => Head(s2c).kind = Expected
    /\ job.pc = "idle" /\ c2s # <<>> => Head(c2s).kind = "op"
    /\ job.pc = "read" /\ job.want # <<>> /\ ~NoData /\ c2s # <<>>
          => Head(c2s).kind = Head(job.want)
    /\ pc = "idle" /\ fd_sock /\ serverEnd = "open" /\ ~Fatal(ret.errno)
          => c2s = <<>> /\ s2c = <<>> /\ job.out = <<>>
                /\ job.pc \notin {"read", "list"}

(***************************************************************************)
(* A function of the library reports what the server did: the errno is the *)
(* translation of the result that the handler chose.  It may say EBADE     *)
(* instead only if the connection is lost or for the empty file that       *)
(* readFile cannot tell from that, and ECANCELED or an errno of mkdir only *)
(* if the server did what it was asked but the files it sent were not      *)
(* saved.                                                                  *)
(***************************************************************************)
OutcomeTold ==
    pc = "idle" /\ ret.op \in OpCodes /\ ret.errno \notin LocalErrors =>
        \/ served # NULL /\ ret.errno = convert_res_to_errno(served)
        \/ ret.errno = "EBADE" /\ (serverEnd = "closed" \/ ret.op = "READ_FILE")
        \/ ret.errno \in {"ECANCELED", "mkdir"} /\ served = "SUCCESS"

(***************************************************************************)
(* A file that the server gives away, because it is expelled or was asked  *)
(* for, is not lost: if the call succeeds then the directory it was given  *)
(* holds every file sent whose base name no other file sent has, and       *)
(* without a directory no file was sent                                    *)
(* (write_files_sent_by_server, write_list_of_files_into_dir).             *)
(***************************************************************************)
NothingLost ==
    pc = "idle" /\ ret.op \in OpCodes /\ ret.errno \notin LocalErrors /\ ret.ok
        /\ AnswersWithList(ret.op) =>
        \A f \in sent : \/ <<BaseName[f], f>> \in saved
                       \/ \E g \in sent \ {f} : BaseName[g] = BaseName[f]

(***************************************************************************)
(* The server gets the contents of a new file only from the client that    *)
(* has just created and locked it: when a handler has read a WRITE_FILE    *)
(* request, the previous request of the process, maybe on an earlier       *)
(* connection, was a successful openFile with O_CREATE and O_LOCK of that  *)
(* path, or of a path that continues it (last_op, RESET_LAST_OP and the    *)
(* test of writeFile).                                                     *)
(***************************************************************************)
WriteAfterCreate ==
    job.pc = "read" /\ job.op = "WRITE_FILE" /\ job.want = <<>> =>
        \/ opened = job.args[1]
        \/ opened # NULL /\ <<job.args[1], opened>> \in PrefixOf
=============================================================================
