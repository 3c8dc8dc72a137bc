---------------------------- MODULE ClientProgram ----------------------------
(***************************************************************************)
(* The programs that use the API library.  The client application          *)
(* (src/src/client) parses its command line into a list of requests,       *)
(* checks it, connects, turns each request into calls of the library and   *)
(* closes the connection.  Any other process may link the library and call *)
(* its functions in any order; which of the two the process is, Init       *)
(* chooses.                                                                *)
(*                                                                         *)
(* An option is a record: its letter, the files of -W -r -l -u -c, the     *)
(* directory of -w -D -d, the number of -w -R -a, and whether its argument *)
(* can be read.  The letter "?" is an option that getopt does not know or  *)
(* that lacks its argument.                                                *)
(*                                                                         *)
(* Where the client application is, prog: "start", "connect",              *)
(* "connecting", "requests" (the loop of execute_requests), "files" (the   *)
(* loop over the files of a request), "scan" (rec_scan_dirs), "readn",     *)
(* "done".  The calls that the current file still needs are in script; the *)
(* first one is running if calling holds.  rec_scan_dirs is recursive:     *)
(* stack has a frame for each invocation, the innermost last.              *)
(***************************************************************************)
EXTENDS ApiSession

CONSTANTS
    CommandLines,   \* what the client application may be started with
    Tree,           \* the entries of each directory: files, directories, and NULL
                    \* where opendir, readdir or stat fails
    DefaultWait,    \* config.waiting_sec
    UserFiles,      \* files named by a user of the library
    UserDirs,       \* directories named by it, or NULL
    MaxCalls        \* bound: requests of a user of the library

\* What an option is, see above.
Dirs == UNION {{args[i].dir : i \in DOMAIN args} : args \in CommandLines}
Options == [opt : STRING, files : Seq(Files), dir : Dirs, n : Int, good : BOOLEAN]

ASSUME ProgramAssumption ==
    /\ DefaultWait \in Nat /\ MaxCalls \in Nat
    /\ UserFiles \subseteq Files
    /\ \A d \in DOMAIN Tree : Tree[d] \in Seq(Files \cup DOMAIN Tree \cup {NULL})
    /\ CommandLines \subseteq Seq(Options)
    /\ \A args \in CommandLines : \A i \in DOMAIN args : args[i].good =>
          /\ args[i].n \in Nat
          /\ args[i].opt \in {"d", "D"} => args[i].dir # NULL
          /\ args[i].opt = "w" => args[i].dir \in DOMAIN Tree

VARIABLES
    user,           \* "client": the client application, "library": any other
    prog, argv,
    request_q,      \* the requests, from the current one on
    files,          \* the files of the current request, from the current one on
    to_write,       \* the files that -r has read, in order
    script, calling,
    stack,          \* the invocations of rec_scan_dirs
    calls           \* calls made by a user of the library

progVars == <<user, prog, argv, request_q, files, to_write, script, calling, stack, calls>>
vars == <<sessionVars, progVars>>

Option(letter, fs, dir, n, good) ==
    [opt |-> letter, files |-> fs, dir |-> dir, n |-> n, good |-> good]

-----------------------------------------------------------------------------
(***************************************************************************)
(* The command line.                                                       *)
(***************************************************************************)
\* The options that may be given once, and what the others need of their argument:
\* numbers that can be read and are not negative, paths that realpath finds.
OnceOnly == {"f", "p", "a"}
BadArgument(o) == o.opt = "?" \/ ~o.good

\* The options at which the loop of parse_options stops early: -h, for which the
\* help is printed, and what is wrong.
StopsAt(args, i) == \/ args[i].opt = "h" \/ BadArgument(args[i])
                    \/ args[i].opt \in OnceOnly /\ \E j \in 1..(i - 1) : args[j].opt = args[i].opt

Given(args, letter) == \E i \in DOMAIN args : args[i].opt = letter

waiting_sec(args) == IF Given(args, "a")
                     THEN (CHOOSE o \in Range(args) : o.opt = "a").n ELSE DefaultWait

\* The other options are requests, or belong to one; their order stays.
RequestsOf(args) == {i \in DOMAIN args : args[i].opt \notin OnceOnly}
Kth(S, k) == CHOOSE i \in S : Cardinality({j \in S : j <= i}) = k
parse_options(args) == [ok       |-> \A i \in DOMAIN args : ~StopsAt(args, i),
                        f_option |-> Given(args, "f"),
                        requests |-> [k \in 1..Cardinality(RequestsOf(args)) |->
                                         args[Kth(RequestsOf(args), k)]]]

\* Which options each of -d and -D must directly follow.
MayPrecede(o) == CASE o = "d" -> {"r", "R"} [] o = "D" -> {"w", "W"}

\* Fault: -d and -D may follow each other's requests.
ValidateLoosely(parsed) ==
    /\ parsed.f_option
    /\ \A i \in DOMAIN parsed.requests :
          parsed.requests[i].opt \in {"d", "D"} =>
              i > 1 /\ parsed.requests[i - 1].opt \in {"r", "R", "w", "W"}

validate_options(parsed) ==
    /\ parsed.f_option
    /\ \A i \in DOMAIN parsed.requests :
          LET o == parsed.requests[i].opt IN
          o \in {"d", "D"} => i > 1 /\ parsed.requests[i - 1].opt \in MayPrecede(o)

-----------------------------------------------------------------------------
(***************************************************************************)
(* Requests.                                                               *)
(***************************************************************************)
Current == Head(request_q)

\* The -D or -d that follows the current request, if one does.
exp_dir == LET letter == IF Current.opt \in {"w", "W"} THEN "D" ELSE "d" IN
           IF Len(request_q) > 1 /\ request_q[2].opt = letter THEN request_q[2].dir ELSE NULL

GO_TO_NEXT == IF Current.opt \in {"w", "W", "r", "R"} /\ exp_dir # NULL
              THEN Tail(Tail(request_q)) ELSE Tail(request_q)

\* The calls that -W (and -w), -r and -c make for one file.
SendScript(f, dir) == <<Call("OPEN_FILE", f, TRUE, TRUE, 0, NULL),
                        Call("WRITE_FILE", f, FALSE, FALSE, 0, dir),
                        Call("CLOSE_FILE", f, FALSE, FALSE, 0, NULL)>>
ReadScript(f) == <<Call("OPEN_FILE", f, FALSE, FALSE, 0, NULL),
                   Call("READ_FILE", f, FALSE, FALSE, 0, NULL),
                   Call("CLOSE_FILE", f, FALSE, FALSE, 0, NULL)>>
RemoveScript(f) == <<Call("OPEN_FILE", f, FALSE, TRUE, 0, NULL),
                     Call("REMOVE_FILE", f, FALSE, FALSE, 0, NULL)>>
Script(letter, f, dir) == CASE letter = "W" -> SendScript(f, dir)
                            [] letter = "r" -> ReadScript(f)
                            [] letter = "c" -> RemoveScript(f)

\* An invocation of rec_scan_dirs; N is -1 when there is no limit.
Frame(entries, N) == [entries |-> entries, N |-> N, n_reads |-> 0]
OrAll(n) == IF n = 0 THEN -1 ELSE n

ProgInit == /\ user \in {"client", "library"}
            /\ prog = "start"
            /\ argv \in IF user = "client" THEN CommandLines ELSE {<<>>}
            /\ request_q = <<>> /\ files = <<>> /\ to_write = <<>>
            /\ script = <<>> /\ calling = FALSE
            /\ stack = <<>>
            /\ calls = 0
Init == SessionInit /\ ProgInit

-----------------------------------------------------------------------------
(***************************************************************************)
(* main                                                                    *)
(***************************************************************************)
IsClient == user = "client" /\ pc = "idle"

\* exit, or the end of main
Exit == Die /\ UNCHANGED progVars

BadCommandLine == /\ IsClient /\ prog = "start"
                  /\ LET parsed == parse_options(argv) IN
                       ~parsed.ok \/ ~validate_options(parsed)
                  /\ Exit

Connect == /\ IsClient /\ prog = "start"
           /\ LET parsed == parse_options(argv) IN
                /\ parsed.ok /\ validate_options(parsed)
                /\ request_q' = parsed.requests
                /\ openConnection(waiting_sec(argv))
           /\ prog' = "connecting"
           /\ UNCHANGED <<user, argv, files, to_write, script, calling, stack, calls>>

NotConnected == IsClient /\ prog = "connecting" /\ ~ret.ok /\ Exit

Begin == /\ IsClient /\ prog = "connecting" /\ ret.ok
         /\ prog' = "requests"
         /\ UNCHANGED <<sessionVars, user, argv, request_q, files, to_write, script, calling, stack, calls>>

Disconnect == /\ IsClient /\ prog = "requests" /\ request_q = <<>>
              /\ closeConnection
              /\ prog' = "done"
              /\ UNCHANGED <<user, argv, request_q, files, to_write, script, calling, stack, calls>>

Finish == IsClient /\ prog = "done" /\ Exit

(***************************************************************************)
(* execute_requests                                                        *)
(***************************************************************************)
AtRequest == IsClient /\ prog = "requests" /\ request_q # <<>>

\* -t, which only sets the pause before each request, and what is not implemented.
PassOver == /\ AtRequest
            /\ Current.opt \notin {"w", "W", "r", "R", "c"}
            /\ request_q' = Tail(request_q)
            /\ UNCHANGED <<sessionVars, user, prog, argv, files, to_write, script, calling, stack, calls>>

BeginFiles == /\ AtRequest
              /\ Current.opt \in {"W", "r", "c"}
              /\ prog' = "files"
              /\ files' = Current.files
              /\ to_write' = <<>>
              /\ UNCHANGED <<sessionVars, user, argv, request_q, script, calling, stack, calls>>

BeginScan == /\ AtRequest
             /\ Current.opt = "w"
             /\ prog' = "scan"
             /\ stack' = <<Frame(Tree[Current.dir], OrAll(Current.n))>>
             /\ UNCHANGED <<sessionVars, user, argv, request_q, files, to_write, script, calling, calls>>

BeginReadN == /\ AtRequest
              /\ Current.opt = "R"
              /\ BeginCall(Call("READ_N_FILES", NULL, FALSE, FALSE, OrAll(Current.n), exp_dir))
              /\ prog' = "readn"
              /\ UNCHANGED <<user, argv, request_q, files, to_write, script, calling, stack, calls>>

\* Fault: EBADE is not taken to be fatal.
OnlyNotRecoverable == ~ret.ok /\ ret.errno = "ENOTRECOVERABLE"

CHECK_IF_FATAL_ERR == ~ret.ok /\ Fatal(ret.errno)

ReadNDone == /\ IsClient /\ prog = "readn"
             /\ ~CHECK_IF_FATAL_ERR
             /\ prog' = "requests"
             /\ request_q' = GO_TO_NEXT
             /\ UNCHANGED <<sessionVars, user, argv, files, to_write, script, calling, stack, calls>>

\* After -r the files read are written into exp_dir, or are not if it cannot be made.
KeepRead ==
    \/ /\ Current.opt # "r" \/ exp_dir = NULL \/ to_write = <<>>
       /\ UNCHANGED saved
    \/ /\ Current.opt = "r" /\ exp_dir # NULL /\ to_write # <<>>
       /\ \A f \in Range(to_write) : BaseName[f] \notin Unwritable
       /\ saved' \in {{}, WriteAll(to_write)}

NextFile == /\ IsClient /\ prog = "files" /\ script = <<>>
            /\ files # <<>>
            /\ script' = Script(Current.opt, Head(files), exp_dir)
            /\ UNCHANGED <<sessionVars, user, prog, argv, request_q, files, to_write, calling, stack, calls>>

FilesDone == /\ IsClient /\ prog = "files" /\ script = <<>>
             /\ files = <<>>
             /\ prog' = "requests"
             /\ request_q' = GO_TO_NEXT
             /\ KeepRead
             /\ UNCHANGED <<sessionButSaved, user, argv, files, to_write, script, calling, stack,
                            calls>>

CallNext == /\ IsClient /\ prog \in {"files", "scan"}
            /\ script # <<>> /\ ~calling
            /\ BeginCall(Head(script))
            /\ calling' = TRUE
            /\ UNCHANGED <<user, prog, argv, request_q, files, to_write, script, stack, calls>>

\* A call that fails ends the work on its file; only a closeFile that succeeds
\* (or removeFile, for -c) completes it, and rec_scan_dirs counts it.
CallReturned ==
    /\ IsClient /\ calling
    /\ ~CHECK_IF_FATAL_ERR
    /\ calling' = FALSE
    /\ script' = IF ret.ok THEN Tail(script) ELSE <<>>
    /\ files' = IF prog = "files" /\ script' = <<>> THEN Tail(files) ELSE files
    /\ stack' = IF prog = "scan" /\ ret.ok /\ Len(script) = 1
                THEN [stack EXCEPT ![Len(stack)].n_reads = @ + 1] ELSE stack
    /\ to_write' = IF ret.op = "READ_FILE" /\ ret.ok THEN Append(to_write, Head(files))
                   ELSE to_write
    /\ UNCHANGED <<sessionVars, user, prog, argv, request_q, calls>>

FatalError == /\ IsClient /\ (calling \/ prog = "readn")
              /\ CHECK_IF_FATAL_ERR
              /\ Exit

(***************************************************************************)
(* rec_scan_dirs                                                           *)
(***************************************************************************)
Top == Last(stack)
Scanning == IsClient /\ prog = "scan" /\ stack # <<>> /\ script = <<>>
MoreEntries == (Top.N = -1 \/ Top.n_reads < Top.N) /\ Top.entries # <<>>
WithoutFirst == [stack EXCEPT ![Len(stack)].entries = Tail(@)]
\* Fault: the files already counted are not subtracted.
SubLimitWhole(frame) == frame.N
SubLimit(frame) == IF frame.N = -1 THEN -1 ELSE frame.N - frame.n_reads

ScanFile == /\ Scanning /\ MoreEntries
            /\ Head(Top.entries) \in Files
            /\ script' = SendScript(Head(Top.entries), exp_dir)
            /\ stack' = WithoutFirst
            /\ UNCHANGED <<sessionVars, user, prog, argv, request_q, files, to_write, calling, calls>>

ScanSubdirectory ==
    /\ Scanning /\ MoreEntries
    /\ Head(Top.entries) \in DOMAIN Tree
    /\ stack' = Append(WithoutFirst, Frame(Tree[Head(Top.entries)], SubLimit(Top)))
    /\ UNCHANGED <<sessionVars, user, prog, argv, request_q, files, to_write, script, calling, calls>>

\* An error is returned in place of the count.
ScanFails == /\ Scanning /\ MoreEntries
             /\ Head(Top.entries) = NULL
             /\ stack' = Front(stack)
             /\ UNCHANGED <<sessionVars, user, prog, argv, request_q, files, to_write, script, calling, calls>>

ScanReturns ==
    /\ Scanning /\ ~MoreEntries
    /\ stack' = IF Len(stack) = 1 THEN <<>>
                ELSE [Front(stack) EXCEPT ![Len(stack) - 1].n_reads = @ + Top.n_reads]
    /\ UNCHANGED <<sessionVars, user, prog, argv, request_q, files, to_write, script, calling, calls>>

ScanDone == /\ IsClient /\ prog = "scan" /\ stack = <<>>
            /\ prog' = "requests"
            /\ request_q' = GO_TO_NEXT
            /\ UNCHANGED <<sessionVars, user, argv, files, to_write, script, calling, stack, calls>>

ProgramStep == \/ BadCommandLine \/ Connect \/ NotConnected \/ Begin \/ Disconnect \/ Finish
               \/ PassOver \/ BeginFiles \/ BeginScan \/ BeginReadN \/ ReadNDone
               \/ NextFile \/ FilesDone \/ CallNext \/ CallReturned \/ FatalError
               \/ ScanFile \/ ScanSubdirectory \/ ScanFails \/ ScanReturns \/ ScanDone

-----------------------------------------------------------------------------
(***************************************************************************)
(* Any other user of the library: the functions in any order, with any     *)
(* arguments, until one reports that the connection cannot be used.        *)
(***************************************************************************)
UserCalls ==
    [op : {"CLOSE_FILE", "READ_FILE", "REMOVE_FILE", "LOCK_FILE", "UNLOCK_FILE"},
     path : UserFiles \cup {NULL}, create : {FALSE}, lock : {FALSE}, n : {0}, dir : {NULL}]
    \cup [op : {"OPEN_FILE"}, path : UserFiles, create : BOOLEAN, lock : BOOLEAN, n : {0},
          dir : {NULL}]
    \cup [op : {"WRITE_FILE"}, path : UserFiles, create : {FALSE}, lock : {FALSE}, n : {0},
          dir : UserDirs]
    \cup [op : {"APPEND_TO_FILE"}, path : UserFiles, create : {FALSE}, lock : {FALSE},
          n : {0, 1}, dir : UserDirs]
    \cup [op : {"READ_N_FILES"}, path : {NULL}, create : {FALSE}, lock : {FALSE}, n : {0},
          dir : UserDirs]

UserStep == /\ user = "library" /\ pc = "idle"
            /\ ~Fatal(ret.errno)
            /\ \/ /\ openConnection(DefaultWait) \/ closeConnection \/ CloseUnconnected
                  /\ UNCHANGED calls
               \/ /\ calls < MaxCalls
                  /\ calls' = calls + 1
                  /\ \E c \in UserCalls : BeginCall(c)
            /\ UNCHANGED <<user, prog, argv, request_q, files, to_write, script, calling, stack>>

-----------------------------------------------------------------------------
Next == \/ LibraryStep /\ UNCHANGED progVars
        \/ WorkerStep /\ UNCHANGED progVars
        \/ ProgramStep
        \/ UserStep
        \/ Killed /\ UNCHANGED progVars
        \/ ServerStops /\ UNCHANGED progVars
        \/ ServerStarts /\ UNCHANGED progVars

\* A running process and a running server make progress; nothing obliges a user
\* to call, a signal to come or the server to be started or stopped.
Fairness == /\ WF_vars(LibraryStep /\ UNCHANGED progVars)
            /\ WF_vars(WorkerStep /\ UNCHANGED progVars)
            /\ WF_vars(ProgramStep)

Spec == Init /\ [][Next]_vars /\ Fairness

-----------------------------------------------------------------------------
(***************************************************************************)
(* Properties.                                                             *)
(***************************************************************************)
\* What the innermost k invocations have counted.
innermost[k \in 0 .. Len(stack)] ==
    IF k = 0 THEN 0 ELSE innermost[k - 1] + stack[(Len(stack) - k) + 1].n_reads
Counted(i) == innermost[(Len(stack) - i) + 1]

(***************************************************************************)
(* The limit of -w holds across the recursion of rec_scan_dirs: what an    *)
(* invocation and those inside it have counted never exceeds its own limit *)
(* N, so the whole directory tree yields at most the files asked for.      *)
(***************************************************************************)
CountedWithinQuota ==
    \A i \in DOMAIN stack : stack[i].N # -1 => Counted(i) <= stack[i].N

(***************************************************************************)
(* parse_options, validate_options and GO_TO_NEXT agree on -D and -d: the  *)
(* loop of execute_requests never meets one as a request of its own, which *)
(* would pass over it and lose the files it was meant to keep.             *)
(***************************************************************************)
OptionsPaired ==
    prog = "requests" /\ request_q # <<>> => Current.opt \notin {"D", "d"}

(***************************************************************************)
(* The client application ends, whatever the server answers, and even if   *)
(* the server is not there, stops in the middle of a call or refuses       *)
(* everything.                                                             *)
(***************************************************************************)
ProgramEnds == user = "client" ~> pc = "dead"
=============================================================================
