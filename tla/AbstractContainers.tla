------------------------- MODULE AbstractContainers -------------------------
(***************************************************************************)
(* What the containers of the server promise.  The hash map, and the hash  *)
(* table, which is a map whose data do not matter, are a finite map with   *)
(* an iterator that returns every element once and reports the end only    *)
(* after the last.  The queue of requests is first in, first out.          *)
(***************************************************************************)
EXTENDS Naturals, Sequences

CONSTANTS Keys, Data, NULL, MaxQueue

VARIABLES
    contents,       \* the map
    iterating,      \* "no", "yes", or "end" once the iterator has reported it
    current,        \* the key it has returned last
    left,           \* the keys it has still to return
    fifo            \* the queue

vars == <<contents, iterating, current, left, fifo>>

Init == /\ contents = [k \in {} |-> NULL]
        /\ iterating = "no"
        /\ current = NULL
        /\ left = {}
        /\ fifo = <<>>

Insert == /\ iterating = "no"
          /\ \E k \in Keys \ DOMAIN contents, d \in Data :
                contents' = [j \in DOMAIN contents \cup {k} |->
                                IF j = k THEN d ELSE contents[j]]
          /\ UNCHANGED <<iterating, current, left, fifo>>

Delete == /\ iterating = "no"
          /\ \E k \in DOMAIN contents :
                contents' = [j \in DOMAIN contents \ {k} |-> contents[j]]
          /\ UNCHANGED <<iterating, current, left, fifo>>

Begin == /\ iterating = "no"
         /\ iterating' = "yes"
         /\ left' = DOMAIN contents
         /\ UNCHANGED <<contents, current, fifo>>

GetNext == /\ iterating = "yes"
           /\ \E k \in left : current' = k /\ left' = left \ {k}
           /\ UNCHANGED <<contents, iterating, fifo>>

End == /\ iterating = "yes"
       /\ left = {}
       /\ iterating' = "end"
       /\ current' = NULL
       /\ UNCHANGED <<contents, left, fifo>>

\* A caller may stop before the end.
Stop == /\ iterating \in {"yes", "end"}
        /\ iterating' = "no"
        /\ current' = NULL
        /\ left' = {}
        /\ UNCHANGED <<contents, fifo>>

Enqueue == /\ Len(fifo) < MaxQueue
           /\ \E k \in Keys : fifo' = Append(fifo, k)
           /\ UNCHANGED <<contents, iterating, current, left>>

Dequeue == /\ fifo # <<>>
           /\ fifo' = Tail(fifo)
           /\ UNCHANGED <<contents, iterating, current, left>>

Next == Insert \/ Delete \/ Begin \/ GetNext \/ End \/ Stop \/ Enqueue \/ Dequeue
Spec == Init /\ [][Next]_vars
=============================================================================
