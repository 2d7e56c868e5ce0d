------------------------- MODULE MCSQLTransactions -------------------------
(* Transactions for TLC: tasks with an id each, as the generator makes     *)
(* them (named after the task), or tasks that pass the same options.name.  *)
EXTENDS SQLTransactions, TLC

OwnIds == [t \in Task |-> t]
SameId == [t \in Task |-> CHOOSE n \in Name : TRUE]

Symmetry == Permutations(Task) \cup Permutations(Conn) \cup Permutations(Slot)
=============================================================================
