------------------------------ MODULE Protocol ------------------------------
(***************************************************************************)
(* What the API library (src/src/api) and the request handlers of the      *)
(* server (src/src/server) say to each other over a connection:            *)
(* server-api-protocol.h and the fields that both sides write and read,    *)
(* in their order.                                                         *)
(*                                                                         *)
(* A message is one field: its kind, which only the position in the stream *)
(* tells the reader, and its value.  The length of a path travels with the *)
(* path; a file without contents has no "data" field at all.               *)
(***************************************************************************)
EXTENDS Integers, Sequences

\* op_code_t.  LOCK_FILE and UNLOCK_FILE exist but are never sent.
OpCodes == {"OPEN_FILE", "CLOSE_FILE", "READ_FILE", "WRITE_FILE", "APPEND_TO_FILE",
            "READ_N_FILES", "REMOVE_FILE"}

\* SA_SUCCESS, SA_ERROR, ... as the worker writes them to the client.
Refusals == {"EXISTS", "NO_FILE", "ALREADY_LOCKED", "NOT_LOCKED", "NOT_EMPTY", "TOO_BIG",
             "NO_OPEN"}
Verdicts == {"SUCCESS", "ERROR", "CLOSE"} \cup Refusals

\* After these the worker reports MW_FATAL_ERROR and the connection is closed.
EndsConnection(res) == res \in {"ERROR", "CLOSE"}

convert_res_to_errno(res) == CASE res = "SUCCESS"        -> "0"
                               [] res = "EXISTS"         -> "EEXIST"
                               [] res = "NO_FILE"        -> "ENOENT"
                               [] res = "ALREADY_LOCKED" -> "EBUSY"
                               [] res = "NOT_LOCKED"     -> "EPERM"
                               [] res = "TOO_BIG"        -> "EFBIG"
                               [] res = "NO_OPEN"        -> "ENOKEY"
                               [] res = "NOT_EMPTY"      -> "EACCES"
                               [] OTHER                  -> "ENOTRECOVERABLE"

-----------------------------------------------------------------------------
Msg(kind, value) == [kind |-> kind, value |-> value]

\* writen of n bytes: nothing reaches the stream when n is 0.
Contents(n) == IF n = 0 THEN <<>> ELSE <<Msg("data", n)>>

\* The fields that the handler of an operation reads after the op code.
Fields(op) == CASE op = "OPEN_FILE"                          -> <<"path", "flags">>
                [] op \in {"WRITE_FILE", "APPEND_TO_FILE"}   -> <<"path", "size", "data">>
                [] op = "READ_N_FILES"                       -> <<"n">>
                [] OTHER                                     -> <<"path">>

\* Operations whose success is announced before, and repeated after, what the
\* server sends: a file, or a list of files.
AnswersWithFile(op) == op = "READ_FILE"
AnswersWithList(op) == op \in {"WRITE_FILE", "APPEND_TO_FILE", "READ_N_FILES"}

\* The results with which a handler may refuse a request it has read;
\* flags are those of OPEN_FILE.  FileStore models when it does.
RefusalsOf(op, flags) ==
    CASE op = "OPEN_FILE" /\ flags.create -> {"EXISTS"}
      [] op = "OPEN_FILE" /\ flags.lock   -> {"NO_FILE", "ALREADY_LOCKED"}
      [] op \in {"OPEN_FILE", "CLOSE_FILE"} -> {"NO_FILE"}
      [] op = "READ_FILE"      -> {"NO_FILE", "NO_OPEN"}
      [] op = "WRITE_FILE"     -> {"NO_FILE", "NO_OPEN", "NOT_LOCKED", "NOT_EMPTY", "TOO_BIG"}
      [] op = "APPEND_TO_FILE" -> {"NO_FILE", "NO_OPEN", "TOO_BIG"}
      [] op = "REMOVE_FILE"    -> {"NO_OPEN", "NOT_LOCKED"}
      [] op = "READ_N_FILES"   -> {}
=============================================================================
