-------------------------- MODULE MCHashContainers --------------------------
(***************************************************************************)
(* Four keys that collide more or less: all but k4 in 2 buckets, k1 with   *)
(* k3 in 4, none in 8.                                                     *)
(***************************************************************************)
EXTENDS HashContainers

CONSTANTS k1, k2, k3, k4, d1, d2

MCHashOf == [k \in {k1, k2, k3, k4} |->
               CASE k = k1 -> 0 [] k = k2 -> 2 [] k = k3 -> 4 [] k = k4 -> 5]
=============================================================================
