---------------------------- MODULE MCFileStore -----------------------------
(* FileStore and its refinement for TLC: paths, clients and workers are    *)
(* interchangeable.                                                        *)
EXTENDS StoreRefinement, TLC

StoreSymmetry == Permutations(Paths) \cup Permutations(Clients) \cup Permutations(Workers)
=============================================================================
