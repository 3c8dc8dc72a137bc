-------------------------- MODULE StoreRefinement ---------------------------
(***************************************************************************)
(* FileStore implements BoundedStore.  A write or append that expels files *)
(* takes effect when the file grows: from then on the files that the loop  *)
(* of expell_multiple_files is going to expel are no longer stored.        *)
(***************************************************************************)
EXTENDS FileStore

SizeOf(S) == Cardinality({b \in S \X (1 .. MaxSpace) : b[2] <= file[b[1]].size})

\* The oldest files, as few as possible, that free the missing bytes.
Frees(E) == /\ \A e \in E, q \in Expellable \ E : <<e, q>> \in PolicyOrder
            /\ SizeOf(E) >= size_to_free - freed
Doomed == IF \E w \in Workers : pc[w] = "expelling"
          THEN CHOOSE E \in SUBSET Expellable :
                 Frees(E) /\ \A F \in SUBSET Expellable : Frees(F) => E \subseteq F
          ELSE {}

StoredNow == files \ Doomed
InfoNow == [p \in Paths |-> IF p \in StoredNow
                            THEN [size |-> file[p].size, locker |-> file[p].fd_lock,
                                  openers |-> file[p].fd_open]
                            ELSE [size |-> 0, locker |-> None, openers |-> {}]]
AgeNow == {e \in PolicyOrder : e[1] \in StoredNow /\ e[2] \in StoredNow}

(***************************************************************************)
(* The handlers, interleaved and with their evictions one file at a time,  *)
(* behave as the atomic requests of BoundedStore: the eviction loop expels *)
(* exactly the shortest run of oldest files that makes room.               *)
(***************************************************************************)
Promise == INSTANCE BoundedStore WITH stored <- StoredNow, info <- InfoNow, age <- AgeNow
Implements == Promise!BSpec
=============================================================================
