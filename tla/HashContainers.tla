--------------------------- MODULE HashContainers ---------------------------
(***************************************************************************)
(* The containers of the server: the hash map (hashmap.c: the stored       *)
(* files), the hash table (hashtable.c: the clients that have a file open  *)
(* or a connection), their iterators (hash.c) and the queue of requests (a *)
(* list).  Init chooses which one a behaviour exercises.                   *)
(*                                                                         *)
(* The callers insert a key only if it is not there, hold files_mtx while  *)
(* they iterate, and stop at the end of the iteration or before it.        *)
(***************************************************************************)
EXTENDS LinkedList

CONSTANTS
    Keys,           \* names of files, or descriptors of clients
    Data,           \* what a key is mapped to
    HashOf,         \* default_hashmap_hash of a name; a descriptor, for the table
    HASH_N_LIST,    \* buckets to start with
    MaxQueue        \* bound: requests in the queue

ASSUME ContainersAssumption == /\ NULL \notin Keys \cup Data
                               /\ HashOf \in [Keys -> Nat]
                               /\ HASH_N_LIST \in Nat \ {0}
                               /\ MaxQueue \in Nat

VARIABLES
    kind,           \* "map", "table" or "queue"
    heap,           \* the nodes
    nlist, nelem,   \* hashmap_t, hashtbl_t
    list,           \* their buckets, 0..nlist-1; the queue is bucket 0
    iter            \* hash_iter_t, and whether it is in use

vars == <<kind, heap, nlist, nelem, list, iter>>

-----------------------------------------------------------------------------
(***************************************************************************)
(* A map as a record, so that an operation can be made of others.          *)
(***************************************************************************)
Map(h, l, n, e) == [heap |-> h, list |-> l, nlist |-> n, nelem |-> e]
Current == Map(heap, list, nlist, nelem)

default_hashtbl_hash(val, n) == val % n

\* Where each function looks for a key.  hashtbl_remove does not reduce the hash
\* again, which default_hashtbl_hash makes up for.
HashmapIndex(k, n) == HashOf[k] % n
HashtblIndex(k, n) == default_hashtbl_hash(HashOf[k], n) % n
HashtblRemoveIndex(k, n) == default_hashtbl_hash(HashOf[k], n)
Index(k, n) == IF kind = "map" THEN HashmapIndex(k, n) ELSE HashtblIndex(k, n)

\* _hashmap_insert, _hashtbl_insert
PutInBucket(m, node) ==
    LET i == Index(node.key, m.nlist)
        r == list_push_back(m.heap, m.list[i], node.key, node.data)
    IN  Map(r.heap, [m.list EXCEPT ![i] = r.list], m.nlist, m.nelem + 1)

EmptyMap(h, n) == Map(h, [i \in 0..(n - 1) |-> empty_list], n, 0)

\* The nodes of a map in the order of the iterators, as addresses.
Nodes(m) == FlattenSeq([i \in 1..m.nlist |-> Walk(m.heap, m.list[i - 1].head)])

\* Fault: the lists of the old map are moved as they are.
ExpandKeepingLists(m) ==
    LET half == [i \in 0..(2 * m.nlist - 1) |->
                    IF i < m.nlist THEN m.list[i] ELSE empty_list]
    IN  Map(m.heap, half, m.nlist * 2, m.nelem)

\* hashmap_expand, hashtbl_expand: a new map with twice the buckets; then the old
\* nodes are freed.
Expand(m) ==
    LET old == Nodes(m)
        moved[j \in 0..Len(old)] ==
            IF j = 0 THEN EmptyMap(m.heap, m.nlist * 2)
            ELSE PutInBucket(moved[j - 1], m.heap[old[j]])
    IN  [moved[Len(old)] EXCEPT !.heap = list_delete(@, Range(old))]

MustExpand(m) == m.nelem + 1 > m.nlist \div 2

\* Where the search of a bucket ends: the first node with the key, or NULL.
Search(m, i, k) ==
    LET w == Walk(m.heap, m.list[i].head)
        hits == {j \in DOMAIN w : m.heap[w[j]].key = k}
    IN  IF hits = {} THEN NULL ELSE w[Min(hits)]

hashmap_contains(k) == Search(Current, HashmapIndex(k, nlist), k) # NULL
hashtbl_contains(k) == Search(Current, HashtblIndex(k, nlist), k) # NULL

\* The data of a key, or NULL for ENOENT.
hashmap_get_by_key(k) == LET a == Search(Current, HashmapIndex(k, nlist), k) IN
                         IF a = NULL THEN NULL ELSE heap[a].data

-----------------------------------------------------------------------------
NoIter == [state |-> "no", current_list |-> -1, current_pos |-> NULL]

Init == /\ kind \in {"map", "table", "queue"}
        /\ heap = [a \in {} |-> NULL]
        /\ nlist = HASH_N_LIST
        /\ nelem = 0
        /\ list = [i \in 0..(HASH_N_LIST - 1) |-> empty_list]
        /\ iter = NoIter

Become(m) == /\ heap' = m.heap
             /\ list' = m.list
             /\ nlist' = m.nlist
             /\ nelem' = m.nelem
             /\ UNCHANGED kind

\* What the insertions of both do once they are called.
Add(k, d) == /\ iter.state = "no"
             /\ LET m == IF MustExpand(Current) THEN Expand(Current) ELSE Current IN
                  Become(PutInBucket(m, create_node(k, d)))
             /\ UNCHANGED iter

hashmap_insert(k, d) == kind = "map" /\ ~hashmap_contains(k) /\ Add(k, d)
\* An item of the table has no data; here it is the key of its node.
hashtbl_insert(k) == kind = "table" /\ ~hashtbl_contains(k) /\ Add(k, NULL)

\* The removals, from bucket i; a key that is not there changes nothing.
RemoveFrom(i, k) ==
    /\ iter.state = "no"
    /\ LET a == Search(Current, i, k) IN
         /\ a # NULL
         /\ LET r == Unlink(heap, list[i], a) IN
              Become(Map(r.heap, [list EXCEPT ![i] = r.list], nlist, nelem - 1))
    /\ UNCHANGED iter

hashmap_remove(k) == kind = "map" /\ RemoveFrom(HashmapIndex(k, nlist), k)
hashtbl_remove(k) == kind = "table" /\ RemoveFrom(HashtblRemoveIndex(k, nlist), k)

hash_iter_init ==
    /\ kind \in {"map", "table"} /\ iter.state = "no"
    /\ iter' = [NoIter EXCEPT !.state = "yes"]
    /\ UNCHANGED <<kind, heap, nlist, nelem, list>>

\* Fault: the next list is passed over.
IterSkipsList ==
    /\ iter.state = "yes"
    /\ LET next  == IF iter.current_pos = NULL THEN NULL ELSE heap[iter.current_pos].next
           later == {i \in (iter.current_list + 2)..(nlist - 1) : list[i].head # NULL}
       IN  iter' = CASE next # NULL  -> [iter EXCEPT !.current_pos = next]
                     [] next = NULL /\ later # {} ->
                          LET i == CHOOSE x \in later : \A y \in later : x <= y IN
                          [iter EXCEPT !.current_list = i, !.current_pos = list[i].head]
                     [] OTHER -> [state |-> "end", current_list |-> -2, current_pos |-> NULL]
    /\ UNCHANGED <<kind, heap, nlist, nelem, list>>

\* hashmap_iter_get_next, hashtbl_iter_get_next
iter_get_next ==
    /\ iter.state = "yes"
    /\ LET next  == IF iter.current_pos = NULL THEN NULL ELSE heap[iter.current_pos].next
           later == {i \in (iter.current_list + 1)..(nlist - 1) : list[i].head # NULL}
       IN  iter' = CASE next # NULL  -> [iter EXCEPT !.current_pos = next]
                     [] next = NULL /\ later # {} ->
                          LET i == CHOOSE x \in later : \A y \in later : x <= y IN
                          [iter EXCEPT !.current_list = i, !.current_pos = list[i].head]
                     [] OTHER -> [state |-> "end", current_list |-> -2, current_pos |-> NULL]
    /\ UNCHANGED <<kind, heap, nlist, nelem, list>>

\* The caller leaves its loop.
IterDone == /\ iter.state # "no"
            /\ iter' = NoIter
            /\ UNCHANGED <<kind, heap, nlist, nelem, list>>

\* The main thread puts a client in request_queue, a worker takes it.
Enqueue(k) == /\ kind = "queue"
              /\ list[0].nelem < MaxQueue
              /\ LET r == list_push_back(heap, list[0], NULL, k) IN
                   heap' = r.heap /\ list' = [list EXCEPT ![0] = r.list]
              /\ UNCHANGED <<kind, nlist, nelem, iter>>
Dequeue == /\ kind = "queue"
           /\ list[0].nelem > 0
           /\ LET r == list_pop_front(heap, list[0]) IN
                heap' = r.heap /\ list' = [list EXCEPT ![0] = r.list]
           /\ UNCHANGED <<kind, nlist, nelem, iter>>

Next == \/ \E k \in Keys, d \in Data : hashmap_insert(k, d)
        \/ \E k \in Keys : \/ hashmap_remove(k)
                           \/ hashtbl_insert(k) \/ hashtbl_remove(k)
                           \/ Enqueue(k)
        \/ hash_iter_init \/ iter_get_next \/ IterDone
        \/ Dequeue

Spec == Init /\ [][Next]_vars

-----------------------------------------------------------------------------
(***************************************************************************)
(* Properties.                                                             *)
(***************************************************************************)
(***************************************************************************)
(* The pointers are sound after any sequence of list_push_back, unlinking, *)
(* list_pop_front and expansions: every bucket can be walked from its head *)
(* to its tail, and back where nodes are unlinked; the nodes in use are    *)
(* those of the buckets, each in one, so nothing freed is reachable and    *)
(* nothing leaks; and the counters are exact.                              *)
(***************************************************************************)
WellLinked ==
    /\ \A i \in DOMAIN list : /\ ForwardLinked(heap, list[i])
                              /\ kind # "queue" => BackwardLinked(heap, list[i])
    /\ IsInjective(Nodes(Current))
    /\ Range(Nodes(Current)) = DOMAIN heap
    /\ kind # "queue" => nelem = Cardinality(DOMAIN heap)

(***************************************************************************)
(* Every key is found where the searches look for it, whatever expansions  *)
(* have moved it, also by hashtbl_remove, which computes the bucket in     *)
(* another way; and there are at most half as many elements as buckets,    *)
(* which keeps a search short.                                             *)
(***************************************************************************)
KeysFindable ==
    /\ \A a \in DOMAIN heap : LET k == heap[a].key IN
          /\ kind # "queue" => Search(Current, Index(k, nlist), k) = a
          /\ kind = "table" => Search(Current, HashtblRemoveIndex(k, nlist), k) = a
    /\ 2 * nelem <= nlist

Found(k) == Search(Current, Index(k, nlist), k)
KeyAt(a) == heap[a].key
LeftToReturn ==
    LET all == Nodes(Current) IN
    CASE iter.state = "yes" /\ iter.current_pos = NULL -> Range(all)
      [] iter.state = "yes" /\ iter.current_pos # NULL ->
            {all[j] : j \in {x \in DOMAIN all : \E y \in 1..(x - 1) : all[y] = iter.current_pos}}
      [] OTHER -> {}

AbsContents == IF kind = "queue" THEN [k \in {} |-> NULL]
               ELSE [k \in {x \in Keys : Found(x) # NULL} |->
                      IF kind = "map" THEN hashmap_get_by_key(k) ELSE NULL]
AbsCurrent == IF iter.current_pos = NULL THEN NULL ELSE KeyAt(iter.current_pos)
AbsLeft == {KeyAt(a) : a \in LeftToReturn}
AbsFifo == IF kind # "queue" THEN <<>>
           ELSE LET w == Walk(heap, list[0].head) IN
                [i \in DOMAIN w |-> IF w[i] \in DOMAIN heap THEN heap[w[i]].data ELSE NULL]

Abstract == INSTANCE AbstractContainers WITH
    Data      <- Data \cup {NULL},
    contents  <- AbsContents,
    iterating <- iter.state,
    current   <- AbsCurrent,
    left      <- AbsLeft,
    fifo      <- AbsFifo

(***************************************************************************)
(* The map or table is a finite map and its iterator returns every element *)
(* once: the contents are what the searches find, and what the iterator    *)
(* has left is what follows its position.  request_queue gives the clients *)
(* back in the order in which they were put in, although list_pop_front    *)
(* leaves the prev of the new head dangling.                               *)
(***************************************************************************)
Implements == Abstract!Spec
=============================================================================
