-------------------------- MODULE MCConnectionPool --------------------------
(* The pool alone for TLC, under any client of its interface.              *)
EXTENDS ConnectionPool, TLC

Symmetry == Permutations(Caller) \cup Permutations(Resource) \cup Permutations(Host)
=============================================================================
