----------------------------- MODULE LinkedList -----------------------------
(***************************************************************************)
(* The doubly linked lists of src/src/util (node.c, list.c), at the level  *)
(* of pointers.                                                            *)
(*                                                                         *)
(* The heap is a function from the addresses in use to nodes; free takes   *)
(* an address out of its domain.  A list is the record of list_t.  Every   *)
(* operation is an operator that takes and gives a heap and a list.        *)
(* list_push_front and list_pop_back, which nothing calls, are left out.   *)
(***************************************************************************)
EXTENDS Integers, Sequences, FiniteSets, SequencesExt

CONSTANT NULL       \* the null pointer, and a node without a key

\* No node is at the null pointer.
ASSUME NullAssumption == NULL \notin Nat

create_node(key, data) == [key |-> key, data |-> data, prev |-> NULL, next |-> NULL]

empty_list == [head |-> NULL, tail |-> NULL, nelem |-> 0]

\* malloc gives the lowest address that is not in use.
Fresh(heap) == CHOOSE a \in 1..(Cardinality(DOMAIN heap) + 1) :
                  /\ a \notin DOMAIN heap
                  /\ \A b \in 1..(a - 1) : b \in DOMAIN heap
Malloc(heap, node) == [a \in DOMAIN heap \cup {Fresh(heap)} |->
                         IF a = Fresh(heap) THEN node ELSE heap[a]]
Free(heap, a) == Restrict(heap, DOMAIN heap \ {a})

\* The nodes at the given addresses, which are all those of a list, are freed.
list_delete(heap, nodes) == Restrict(heap, DOMAIN heap \ nodes)

list_push_back(heap, list, key, data) ==
    LET n == Fresh(heap)
        h == Malloc(heap, create_node(key, data))
    IN  IF list.nelem = 0
        THEN [heap |-> h, list |-> [head |-> n, tail |-> n, nelem |-> 1]]
        ELSE [heap |-> [h EXCEPT ![n].prev = list.tail, ![list.tail].next = n],
              list |-> [list EXCEPT !.tail = n, !.nelem = @ + 1]]

\* The prev of the new head is left as it was, pointing at the freed node.
list_pop_front(heap, list) ==
    [heap |-> Free(heap, list.head),
     list |-> [head  |-> heap[list.head].next,
               tail  |-> IF list.nelem = 1 THEN NULL ELSE list.tail,
               nelem |-> list.nelem - 1]]

\* Fault: the tail is not moved back when the last node goes.
UnlinkKeepsTail(heap, list, a) ==
    LET prev == heap[a].prev
        next == heap[a].next
        h1 == IF prev # NULL THEN [heap EXCEPT ![prev].next = next] ELSE heap
        h2 == IF next # NULL THEN [h1 EXCEPT ![next].prev = prev] ELSE h1
    IN  [heap |-> Free(h2, a),
         list |-> [head  |-> IF prev = NULL THEN next ELSE list.head,
                   tail  |-> list.tail,
                   nelem |-> list.nelem - 1]]

\* How hashmap_remove and hashtbl_remove take the node at a out of its bucket.
Unlink(heap, list, a) ==
    LET prev == heap[a].prev
        next == heap[a].next
        h1 == IF prev # NULL THEN [heap EXCEPT ![prev].next = next] ELSE heap
        h2 == IF next # NULL THEN [h1 EXCEPT ![next].prev = prev] ELSE h1
    IN  [heap |-> Free(h2, a),
         list |-> [head  |-> IF prev = NULL THEN next ELSE list.head,
                   tail  |-> IF next = NULL THEN prev ELSE list.tail,
                   nelem |-> list.nelem - 1]]

-----------------------------------------------------------------------------
\* The addresses met by following next from a: a node that is not in use ends
\* the walk, and so does the number of nodes.
Walk(heap, a) ==
    LET n == Cardinality(DOMAIN heap) + 1
        at[i \in 1..n] == IF i = 1 THEN a
                          ELSE IF at[i - 1] \in DOMAIN heap THEN heap[at[i - 1]].next ELSE NULL
        met == CHOOSE j \in 0..n : \A i \in 1..n : at[i] # NULL <=> i <= j
    IN  [i \in 1..met |-> at[i]]

\* A list is well linked when following next from its head visits nelem distinct
\* nodes in use and ends at its tail.
ForwardLinked(heap, list) ==
    LET w == Walk(heap, list.head) IN
    /\ Len(w) = list.nelem
    /\ Range(w) \subseteq DOMAIN heap
    /\ IsInjective(w)
    /\ list.tail = IF w = <<>> THEN NULL ELSE Last(w)

\* prev is the inverse of next, and the head has none.
BackwardLinked(heap, list) ==
    LET w == Walk(heap, list.head) IN
    \A i \in DOMAIN w : heap[w[i]].prev = IF i = 1 THEN NULL ELSE w[i - 1]
=============================================================================
