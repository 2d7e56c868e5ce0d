--------------------------- MODULE MCPooledEngine ---------------------------
(* The pooled engine for TLC: callers, connections and hosts are           *)
(* interchangeable.                                                        *)
EXTENDS PooledEngine, TLC

Symmetry == Permutations(Caller) \cup Permutations(Resource) \cup Permutations(Host)
=============================================================================
