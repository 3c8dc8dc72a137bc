---------------------------- MODULE BoundedStore ----------------------------
(***************************************************************************)
(* What the file store promises to its clients, with every request a       *)
(* single step: a bounded set of files, each with a size, the clients that *)
(* have it open and the one that locks it.  A request that needs room      *)
(* expels the oldest files, as few as will do and never its own.           *)
(***************************************************************************)
EXTENDS Integers, FiniteSets

CONSTANTS Paths, Clients, None, MaxFiles, MaxSpace, Policy, Sizes

VARIABLES
    stored,     \* the stored paths
    info,       \* info[p]: size, locker and openers
    age         \* <<p, q>>: p is older than q for the replacement policy

bvars == <<stored, info, age>>

File(n, c, S) == [size |-> n, locker |-> c, openers |-> S]
NoInfo == File(0, None, {})

BInit == /\ stored = {}
         /\ info = [p \in Paths |-> NoInfo]
         /\ age = {}

\* The bytes of the files in S, counted as pairs of a path and a position.
Total(S) == Cardinality({b \in S \X (1 .. MaxSpace) : b[2] <= info[b[1]].size})

\* age without the files in E, with p the youngest of those in S.
Without(E) == {e \in age : e[1] \notin E /\ e[2] \notin E}
Youngest(p, E) == Without(E \cup {p}) \cup ((stored \ (E \cup {p})) \X {p})

\* A use of p counts for LRU only.
Used(p, E) == IF Policy = "LRU" THEN Youngest(p, E) ELSE Without(E)

\* E holds the oldest of the files other than p.
OldestFiles(E, p) == \A e \in E, q \in stored \ (E \cup {p}) : <<e, q>> \in age
MakesRoom(E, p, n) == /\ OldestFiles(E, p)
                      /\ Total(stored \ E) + n <= MaxSpace

Expelled(E) == [p \in Paths |-> IF p \in E THEN NoInfo ELSE info[p]]

BCreate(c, p, locks) ==
    /\ p \notin stored
    /\ \E E \in SUBSET stored :
         /\ Cardinality(E) = IF Cardinality(stored) = MaxFiles THEN 1 ELSE 0
         /\ OldestFiles(E, p)
         /\ stored' = (stored \ E) \cup {p}
         /\ info' = [Expelled(E) EXCEPT ![p] = File(0, IF locks THEN c ELSE None, {c})]
         /\ age' = Youngest(p, E)

BOpen(c, p, locks) ==
    /\ p \in stored
    /\ locks => info[p].locker \in {None, c}
    /\ info' = [info EXCEPT ![p] =
                   File(@.size, IF locks THEN c ELSE @.locker, @.openers \cup {c})]
    /\ age' = Used(p, {})
    /\ UNCHANGED stored

BClose(c, S) ==
    /\ S \subseteq stored
    /\ info' = [p \in Paths |->
                  IF p \in S THEN File(info[p].size,
                                       IF info[p].locker = c THEN None ELSE info[p].locker,
                                       info[p].openers \ {c})
                             ELSE info[p]]
    /\ UNCHANGED <<stored, age>>

BRead(c, p) ==
    /\ p \in stored
    /\ c \in info[p].openers
    /\ age' = Used(p, {})
    /\ UNCHANGED <<stored, info>>

\* A write or an append of n bytes to p.
BGrow(c, p, n) ==
    /\ p \in stored
    /\ c \in info[p].openers
    /\ info[p].size + n <= MaxSpace
    /\ \E E \in SUBSET (stored \ {p}) :
         /\ MakesRoom(E, p, n)
         /\ \A F \in SUBSET (stored \ {p}) : MakesRoom(F, p, n) => E \subseteq F
         /\ stored' = stored \ E
         /\ info' = [Expelled(E) EXCEPT ![p] = File(@.size + n, @.locker, @.openers)]
         /\ age' = Used(p, E)

BRemove(c, p) ==
    /\ p \in stored
    /\ info[p].locker = c
    /\ stored' = stored \ {p}
    /\ info' = [info EXCEPT ![p] = NoInfo]
    /\ age' = Without({p})

BNext == \E c \in Clients :
            \/ \E p \in Paths : \/ \E locks \in BOOLEAN : BCreate(c, p, locks) \/ BOpen(c, p, locks)
                                \/ BClose(c, {p})
                                \/ BRead(c, p)
                                \/ \E n \in Sizes : BGrow(c, p, n)
                                \/ BRemove(c, p)
            \/ BClose(c, stored)

BSpec == BInit /\ [][BNext]_bvars
=============================================================================
