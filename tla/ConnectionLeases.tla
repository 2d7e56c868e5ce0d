-------------------------- MODULE ConnectionLeases --------------------------
(***************************************************************************)
(* What a connection pool promises its callers: at most Max connections    *)
(* are open to them, each is lent to one caller at a time, and a           *)
(* connection is never closed under the caller it is lent to.              *)
(***************************************************************************)
EXTENDS Integers, FiniteSets

CONSTANTS Caller, Resource, NoResource, Max

VARIABLES
    live,   \* the open connections at the pool's disposal
    lease   \* the connection lent to each caller

Lent == {lease[c] : c \in Caller} \ {NoResource}

Init == /\ live = {}
        /\ lease = [c \in Caller |-> NoResource]

\* Lend a connection nobody has, an open one or a new one.
Grant(c, r) == /\ lease[c] = NoResource
               /\ r \notin Lent
               /\ lease' = [lease EXCEPT ![c] = r]
               /\ live' = live \cup {r}

\* Take it back, to keep it or to close it.
Return(c) == /\ lease[c] # NoResource
             /\ lease' = [lease EXCEPT ![c] = NoResource]
             /\ live' \in {live, live \ {lease[c]}}

\* Open and close connections that nobody has.
TurnOver == /\ live' \in SUBSET Resource
            /\ Lent \subseteq live'
            /\ UNCHANGED lease

Next == /\ \/ \E c \in Caller, r \in Resource : Grant(c, r)
           \/ \E c \in Caller : Return(c)
           \/ TurnOver
        /\ Cardinality(live') <= Max

Spec == Init /\ [][Next]_<<live, lease>>
=============================================================================
