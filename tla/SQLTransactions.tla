-------------------------- MODULE SQLTransactions --------------------------
(***************************************************************************)
(* Transactions of SQLConnectionEngine (packages/drivers/SQLEngine.ts):    *)
(* the registry, the callback form transaction(fn) with its nested         *)
(* savepoints, statements inside and outside a transaction, the timeout    *)
(* and the roll back of everything on disconnect.                          *)
(*                                                                         *)
(* A task is one call of transaction(fn); its TxRecord carries the task's  *)
(* name, and a task that is over is used again for a later call.  A slot   *)
(* is one asynchronous call on a scope, or one execute outside any.        *)
(* The pool lends a connection that nobody has (ConnectionLeases says so   *)
(* of ConnectionPool), or refuses.                                         *)
(***************************************************************************)
EXTENDS Integers, Sequences, FiniteSets

CONSTANTS
    Task, Slot, Conn, Name,
    None,
    Label,         \* the transaction id each task uses; options.name may repeat
    BeginsRace,    \* whether two tasks begin under one id at the same time
    AutoRollback,  \* the option autoRollbackOnFailure
    Timeouts,      \* transactionTimeout > 0
    Overlaps,      \* whether a callback starts a statement before the last ends
    Disconnects,   \* whether the program calls disconnect
    CommitSticks,  \* whether a failed COMMIT can leave the transaction open
    MaxSavepoints  \* bound: savepoints created in one transaction

ASSUME LabelAssumption == Label \in [Task -> Name]
ASSUME OptionAssumption == /\ {AutoRollback, Timeouts, Overlaps} \subseteq BOOLEAN
                           /\ {Disconnects, CommitSticks, BeginsRace} \subseteq BOOLEAN
                           /\ MaxSavepoints \in Nat
ASSUME NoneAssumption == None \notin Task \cup Slot \cup Conn \cup Name
ASSUME NamesAssumption == Task \cap Slot = {}

VARIABLES
    transactions,  \* _transactions: the record registered under each id
    tx,            \* the TxRecords
    run,           \* where each transaction(fn) is, and the client it awaits
    result,        \* how the last transaction(fn) of the task settled
    job,           \* where each slot's call is
    scope,         \* the record a TransactionScope is pinned to
    alarm,         \* the timeout callbacks that await their ROLLBACK
    closer,        \* disconnect's rollbackAllTransactions
    lent,          \* connections out of the pool
    dead,          \* destroyed connections
    open,          \* the server: connections with a transaction open
    marks          \* the server: their savepoints, oldest first

engine == <<transactions, tx>>
calls  == <<run, result, job, scope, alarm, closer>>
wires  == <<lent, dead, open, marks>>
vars   == <<engine, calls, wires>>

----------------------------------------------------------------------------
(* TxRecord and the suspended calls.                                       *)

Unused == [client |-> None, state |-> "UNUSED", timer |-> FALSE,
           savepoints |-> <<>>, spCounter |-> 0, busy |-> FALSE]

Idle == [at |-> "idle", by |-> None, from |-> None, on |-> None, turn |-> None,
         rec |-> None, sp |-> 0]
Rest == [at |-> "idle", on |-> None, rec |-> None]

Init == /\ transactions = [n \in Name |-> None]
        /\ tx = [t \in Task |-> Unused]
        /\ run = [t \in Task |-> Rest]
        /\ result = [t \in Task |-> "none"]
        /\ job = [s \in Slot |-> Idle]
        /\ scope = [p \in Task \cup Slot |-> None]
        /\ alarm = [t \in Task |-> Rest]
        /\ closer = [at |-> "idle", on |-> None, rec |-> None, left |-> {}]
        /\ lent = {}
        /\ dead = {}
        /\ open = {}
        /\ marks = [c \in Conn |-> <<>>]

Registered(n) == transactions[n] # None
Active(n) == Registered(n) /\ tx[transactions[n]].state = "ACTIVE"

\* The calls made on a scope, a task's or a block's, have all settled.
Settled(p) == \A s \in Slot : job[s].from # p
Free(s) == job[s] = Idle /\ Settled(s)

\* A connection with an unanswered request, and the calls that await it.
Wire == {"BEGIN", "COMMIT", "ROLLBACK", "statement", "SAVEPOINT", "RELEASE",
         "ROLLBACK TO", "unwind", "validate"}
Awaiting(c) == {t \in Task : run[t].at \in Wire /\ run[t].on = c}
               \cup {s \in Slot : job[s].at \in Wire /\ job[s].on = c}
               \cup {<<"alarm", t>> : t \in {u \in Task : alarm[u].at \in Wire /\ alarm[u].on = c}}
               \cup {<<"closer">> : x \in {y \in {closer} : y.at \in Wire /\ y.on = c}}

\* Nothing refers to the task's last record any more.
Forgotten(t) == /\ \A n \in Name : transactions[n] # t
                /\ \A s \in Slot : t \notin {job[s].by, job[s].turn, job[s].rec, scope[s]}
                /\ \A u \in Task \ {t} : t \notin {scope[u], run[u].rec, alarm[u].rec}
                /\ alarm[t] = Rest /\ closer.rec # t /\ ~tx[t].timer

----------------------------------------------------------------------------
(* The database and the pool, as the engine sees them (external).          *)

\* The pool opens a fresh connection under the name of one that is gone.
CanLend(c) == c \notin lent /\ (c \in dead => Awaiting(c) = {})

Lend(c) == /\ CanLend(c)
           /\ lent' = lent \cup {c}
           /\ dead' = dead \ {c}
           /\ open' = IF c \in dead THEN open \ {c} ELSE open
           /\ marks' = IF c \in dead THEN [marks EXCEPT ![c] = <<>>] ELSE marks

Returned(c) == lent' = lent \ {c} /\ UNCHANGED dead
Destroyed(c) == lent' = lent \ {c} /\ dead' = dead \cup {c}

\* The end of a server transaction drops its savepoints.
ServerEnds(c) == open' = open \ {c} /\ marks' = [marks EXCEPT ![c] = <<>>]
ServerKeeps == UNCHANGED <<open, marks>>

IndexOf(stack, name) == CHOOSE i \in DOMAIN stack : stack[i] = name
Holds(stack, name) == \E i \in DOMAIN stack : stack[i] = name
\* What `stack.length = lastIndexOf(name) + extra` leaves.
Trim(stack, name, extra) ==
    IF Holds(stack, name) THEN SubSeq(stack, 1, IndexOf(stack, name) - 1 + extra)
                          ELSE stack

----------------------------------------------------------------------------
(* Helpers of the class.                                                   *)

\* __releaseTransactionClient(id, destroy)
ReleaseClient(n, destroy) ==
    IF ~Registered(n) THEN UNCHANGED <<transactions, lent, dead>>
    ELSE LET c == tx[transactions[n]].client
         IN /\ transactions' = [transactions EXCEPT ![n] = None]
            /\ IF destroy THEN Destroyed(c) ELSE Returned(c)

\* commitTransaction and rollbackTransaction up to their await: the record
\* leaves ACTIVE and its timer is cleared before the request is sent.
Leaving(n, state) == [tx EXCEPT ![transactions[n]].state = state,
                                ![transactions[n]].timer = FALSE]

\* The end of a ROLLBACK or COMMIT on connection c for the record r.
Ended(r, state, failed) ==
    [tx EXCEPT ![r].state = IF failed THEN @ ELSE state]
\* Mutant: a connection whose ROLLBACK failed is recycled.
RollbackSettlesReusing(n, c, failed) ==
    /\ ReleaseClient(n, FALSE)
    /\ IF failed THEN ServerKeeps ELSE ServerEnds(c)

RollbackSettles(n, c, failed) ==
    /\ ReleaseClient(n, failed)
    /\ IF failed THEN ServerKeeps ELSE ServerEnds(c)

\* __claimTxConnection
Claimed(r) == [tx EXCEPT ![r].busy = TRUE]
FreeTurn(f, s) == [f EXCEPT ![job[s].turn].busy = FALSE]

----------------------------------------------------------------------------
(* transaction(fn): __runInTransaction.                                    *)

Begin(t) ==
    /\ run[t].at = "idle"
    /\ Forgotten(t)
    /\ \/ BeginsRace
       \/ \A u \in Task : Label[u] = Label[t] => run[u].at \notin {"acquire", "BEGIN"}
    /\ ~Registered(Label[t])
    /\ run' = [run EXCEPT ![t].at = "acquire"]
    /\ result' = [result EXCEPT ![t] = "none"]
    /\ scope' = [scope EXCEPT ![t] = None]
    /\ tx' = [tx EXCEPT ![t] = Unused]
    /\ UNCHANGED <<transactions, job, alarm, closer, wires>>

BeginAcquired(t) ==
    /\ run[t].at = "acquire"
    /\ \E c \in Conn : /\ Lend(c)
                       /\ run' = [run EXCEPT ![t].at = "BEGIN", ![t].on = c]
    /\ UNCHANGED <<engine, result, job, scope, alarm, closer>>

Reject(t) == /\ run' = [run EXCEPT ![t] = Rest]
             /\ result' = [result EXCEPT ![t] = "rejected"]

BeginAcquireFailed(t) ==
    /\ run[t].at = "acquire"
    /\ Reject(t)
    /\ UNCHANGED <<engine, job, scope, alarm, closer, wires>>

\* Mutant: a failed BEGIN does not give the connection back.
BeginFailedKeepsClient(t) ==
    /\ run[t].at = "BEGIN"
    /\ Reject(t)
    /\ UNCHANGED <<engine, job, scope, alarm, closer, wires>>

BeginFailed(t) ==
    /\ run[t].at = "BEGIN"
    /\ Reject(t)
    /\ Returned(run[t].on)
    /\ UNCHANGED <<engine, job, scope, alarm, closer, open, marks>>

BeginDone(t) ==
    /\ run[t].at = "BEGIN"
    /\ transactions' = [transactions EXCEPT ![Label[t]] = t]
    /\ tx' = [tx EXCEPT ![t] = [Unused EXCEPT !.client = run[t].on, !.state = "ACTIVE",
                                              !.timer = Timeouts]]
    /\ run' = [run EXCEPT ![t].at = "begun", ![t].on = None]
    /\ open' = open \cup {run[t].on}
    /\ marks' = [marks EXCEPT ![run[t].on] = <<>>]
    /\ UNCHANGED <<result, job, scope, alarm, closer, lent, dead>>

\* __scope pins the scope to whatever record the id has when fn is called.
Enter(t) ==
    /\ run[t].at = "begun"
    /\ run' = [run EXCEPT ![t].at = "body"]
    /\ scope' = [scope EXCEPT ![t] = transactions[Label[t]]]
    /\ UNCHANGED <<engine, result, job, alarm, closer, wires>>

\* Mutant: the commit of a transaction that has ended is reported as a success.
ResolveBlindly(t) ==
    /\ run[t].at = "body"
    /\ Overlaps \/ Settled(t)
    /\ \/ /\ Active(Label[t])
          /\ LET r == transactions[Label[t]]
             IN run' = [run EXCEPT ![t] = [at |-> "COMMIT", on |-> tx[r].client, rec |-> r]]
          /\ tx' = Leaving(Label[t], "COMMITTING")
          /\ UNCHANGED result
       \/ /\ ~Active(Label[t])
          /\ run' = [run EXCEPT ![t] = Rest]
          /\ result' = [result EXCEPT ![t] = "resolved"]
          /\ UNCHANGED tx
    /\ UNCHANGED <<transactions, job, scope, alarm, closer, wires>>

\* fn resolved: commit, unless the id has no active transaction any more.  A
\* statement it did not wait for may be in flight.
Resolve(t) ==
    /\ run[t].at = "body"
    /\ Overlaps \/ Settled(t)
    /\ \/ /\ Active(Label[t])
          /\ LET r == transactions[Label[t]]
             IN run' = [run EXCEPT ![t] = [at |-> "COMMIT", on |-> tx[r].client, rec |-> r]]
          /\ tx' = Leaving(Label[t], "COMMITTING")
          /\ UNCHANGED result
       \/ /\ ~Active(Label[t])
          /\ Reject(t)
          /\ UNCHANGED tx
    /\ UNCHANGED <<transactions, job, scope, alarm, closer, wires>>

CommitDone(t) ==
    /\ run[t].at = "COMMIT"
    /\ tx' = Ended(run[t].rec, "COMMITTED", FALSE)
    /\ run' = [run EXCEPT ![t] = Rest]
    /\ result' = [result EXCEPT ![t] = "resolved"]
    /\ ServerEnds(run[t].on)
    /\ ReleaseClient(Label[t], FALSE)
    /\ UNCHANGED <<job, scope, alarm, closer>>

\* Mutant: the release is not in a finally block.
CommitFailedKeepsRecord(t) ==
    /\ run[t].at = "COMMIT"
    /\ Reject(t)
    /\ \/ ServerEnds(run[t].on)
       \/ CommitSticks /\ ServerKeeps
    /\ UNCHANGED <<engine, job, scope, alarm, closer, lent, dead>>

CommitFailed(t) ==
    /\ run[t].at = "COMMIT"
    /\ Reject(t)
    /\ \/ ServerEnds(run[t].on)
       \/ CommitSticks /\ ServerKeeps
    /\ ReleaseClient(Label[t], FALSE)
    /\ UNCHANGED <<tx, job, scope, alarm, closer>>

\* fn threw: roll back.  A Promise.all rejects while a sibling is in flight.
Throw(t) ==
    /\ run[t].at = "body"
    /\ Overlaps \/ Settled(t)
    /\ \/ /\ Active(Label[t])
          /\ LET r == transactions[Label[t]]
             IN run' = [run EXCEPT ![t] = [at |-> "ROLLBACK", on |-> tx[r].client, rec |-> r]]
          /\ tx' = Leaving(Label[t], "ROLLING_BACK")
          /\ UNCHANGED result
       \/ /\ ~Active(Label[t])
          /\ Reject(t)
          /\ UNCHANGED tx
    /\ UNCHANGED <<transactions, job, scope, alarm, closer, wires>>

ThrowRolledBack(t) ==
    /\ run[t].at = "ROLLBACK"
    /\ Reject(t)
    /\ \E failed \in BOOLEAN : /\ tx' = Ended(run[t].rec, "ROLLBACK", failed)
                               /\ RollbackSettles(Label[t], run[t].on, failed)
    /\ UNCHANGED <<job, scope, alarm, closer>>

----------------------------------------------------------------------------
(* The timeout callback and disconnect.                                    *)

\* Mutant: the timeout sends ROLLBACK whatever is in flight.
FireOverStatement(t) ==
    /\ tx[t].timer
    /\ LET r == transactions[Label[t]]
       IN IF Active(Label[t])
          THEN /\ tx' = [tx EXCEPT ![t].timer = FALSE, ![r].state = "TIMEOUT"]
               /\ alarm' = [alarm EXCEPT ![t] = [at |-> "ROLLBACK", on |-> tx[r].client, rec |-> r]]
          ELSE /\ tx' = [tx EXCEPT ![t].timer = FALSE]
               /\ UNCHANGED alarm
    /\ UNCHANGED <<transactions, run, result, job, scope, closer, wires>>

Fire(t) ==
    /\ tx[t].timer
    /\ LET n == Label[t]
           r == transactions[n]
           expired == [tx EXCEPT ![t].timer = FALSE, ![r].state = "TIMEOUT"]
       IN \/ /\ ~Active(n)
             /\ tx' = [tx EXCEPT ![t].timer = FALSE]
             /\ UNCHANGED <<transactions, alarm, lent, dead>>
          \/ /\ Active(n)
             /\ tx[r].busy
             /\ tx' = expired
             /\ ReleaseClient(n, TRUE)
             /\ UNCHANGED alarm
          \/ /\ Active(n)
             /\ ~tx[r].busy
             /\ tx' = expired
             /\ alarm' = [alarm EXCEPT ![t] = [at |-> "ROLLBACK", on |-> tx[r].client, rec |-> r]]
             /\ UNCHANGED <<transactions, lent, dead>>
    /\ UNCHANGED <<run, result, job, scope, closer, open, marks>>

FireRolledBack(t) ==
    /\ alarm[t].at = "ROLLBACK"
    /\ alarm' = [alarm EXCEPT ![t] = Rest]
    /\ \E failed \in BOOLEAN : RollbackSettles(Label[t], alarm[t].on, failed)
    /\ UNCHANGED <<tx, run, result, job, scope, closer>>

\* The keys are read once; each is rolled back in turn.
Disconnect ==
    /\ Disconnects
    /\ closer.at = "idle"
    /\ closer' = [closer EXCEPT !.at = "next", !.left = {n \in Name : Registered(n)}]
    /\ UNCHANGED <<engine, run, result, job, scope, alarm, wires>>

DisconnectNext ==
    /\ closer.at = "next"
    /\ \/ /\ closer.left = {}
          /\ closer' = [closer EXCEPT !.at = "idle"]
          /\ UNCHANGED tx
       \/ \E n \in closer.left :
             \/ /\ Active(n)
                /\ closer' = [at |-> "ROLLBACK", on |-> tx[transactions[n]].client,
                              rec |-> transactions[n], left |-> closer.left \ {n}]
                /\ tx' = Leaving(n, "ROLLING_BACK")
             \/ /\ ~Active(n)
                /\ closer' = [closer EXCEPT !.left = @ \ {n}]
                /\ UNCHANGED tx
    /\ UNCHANGED <<transactions, run, result, job, scope, alarm, wires>>

DisconnectRolledBack ==
    /\ closer.at = "ROLLBACK"
    /\ closer' = [closer EXCEPT !.at = "next", !.on = None, !.rec = None]
    /\ \E failed \in BOOLEAN : /\ tx' = Ended(closer.rec, "ROLLBACK", failed)
                               /\ RollbackSettles(Label[closer.rec], closer.on, failed)
    /\ UNCHANGED <<run, result, job, scope, alarm>>

----------------------------------------------------------------------------
(* Statements of a scope: execute with a transactionId.                    *)

Caller(p) == IF p \in Task THEN p ELSE job[p].by

\* A callback that awaits each call in turn has none in progress.
MayCall(p) == Overlaps \/ Settled(p)

\* assertLive, then an active record whose connection is not claimed.  A
\* refused call changes nothing.
Execute(s, p) ==
    /\ Free(s)
    /\ scope[p] # None
    /\ LET t == Caller(p)
           r == transactions[Label[t]]
       IN /\ MayCall(p)
          /\ r = scope[p]
          /\ Active(Label[t])
          /\ ~tx[r].busy
          /\ tx' = Claimed(r)
          /\ job' = [job EXCEPT ![s] = [Idle EXCEPT !.at = "statement", !.by = t, !.from = p,
                                        !.on = tx[r].client, !.turn = r]]
    /\ UNCHANGED <<transactions, run, result, scope, alarm, closer, wires>>

EndTurn(s) == job' = [job EXCEPT ![s] = Idle] /\ tx' = FreeTurn(tx, s)

InTransaction(s, at) == job[s].by # None /\ job[s].at = at

StatementDone(s) ==
    /\ InTransaction(s, "statement")
    /\ EndTurn(s)
    /\ UNCHANGED <<transactions, run, result, scope, alarm, closer, wires>>

\* rollbackTransaction called from the failure path of execute.
AutoRollbackAll(s) ==
    LET n == Label[job[s].by]
        r == transactions[n]
    IN \/ /\ Active(n)
          /\ tx' = Leaving(n, "ROLLING_BACK")
          /\ job' = [job EXCEPT ![s].at = "ROLLBACK", ![s].on = tx[r].client, ![s].rec = r]
       \/ /\ ~Active(n)
          /\ EndTurn(s)

\* A failed statement is undone to the innermost savepoint of the record the
\* id has now, or with the whole transaction.  A deadlock has already ended
\* the transaction on the server.
StatementFailed(s) ==
    /\ InTransaction(s, "statement")
    /\ ServerKeeps \/ ServerEnds(job[s].on)
    /\ LET n == Label[job[s].by]
           r == transactions[n]
           stack == tx[r].savepoints
       IN \/ /\ ~AutoRollback
             /\ EndTurn(s)
          \/ /\ AutoRollback /\ Active(n) /\ stack # <<>>
             /\ job' = [job EXCEPT ![s].at = "ROLLBACK TO", ![s].on = tx[r].client,
                                   ![s].sp = stack[Len(stack)]]
             /\ UNCHANGED tx
          \/ /\ AutoRollback /\ ~(Active(n) /\ stack # <<>>)
             /\ AutoRollbackAll(s)
    /\ UNCHANGED <<transactions, run, result, scope, alarm, closer, lent, dead>>

\* The server answers a ROLLBACK TO or RELEASE of a savepoint it knows.
ServerUnwinds(c, name, extra) ==
    /\ Holds(marks[c], name)
    /\ marks' = [marks EXCEPT ![c] = Trim(@, name, extra)]
    /\ UNCHANGED open

AutoRollbackToDone(s) ==
    /\ InTransaction(s, "ROLLBACK TO")
    /\ ServerUnwinds(job[s].on, job[s].sp, 1)
    /\ EndTurn(s)
    /\ UNCHANGED <<transactions, run, result, scope, alarm, closer, lent, dead>>

\* Mutant: the transaction is left active when its savepoint is gone.
AutoRollbackToFailedQuietly(s) ==
    /\ InTransaction(s, "ROLLBACK TO")
    /\ EndTurn(s)
    /\ UNCHANGED <<transactions, run, result, scope, alarm, closer, wires>>

AutoRollbackToFailed(s) ==
    /\ InTransaction(s, "ROLLBACK TO")
    /\ AutoRollbackAll(s)
    /\ UNCHANGED <<transactions, run, result, scope, alarm, closer, wires>>

AutoRolledBack(s) ==
    /\ InTransaction(s, "ROLLBACK")
    /\ job' = [job EXCEPT ![s] = Idle]
    /\ \E failed \in BOOLEAN :
          /\ tx' = FreeTurn(Ended(job[s].rec, "ROLLBACK", failed), s)
          /\ RollbackSettles(Label[job[s].by], job[s].on, failed)
    /\ UNCHANGED <<run, result, scope, alarm, closer>>

----------------------------------------------------------------------------
(* Nested scopes: __runInSavepoint.                                        *)

\* Mutant: tx.spCounter++ names the savepoint before it counts.
OpenBlockPostfix(s, p) ==
    /\ Free(s)
    /\ scope[p] # None
    /\ LET t == Caller(p)
           r == transactions[Label[t]]
           counted == [tx EXCEPT ![r].spCounter = @ + 1]
       IN /\ MayCall(p)
          /\ r = scope[p]
          /\ Active(Label[t])
          /\ tx[r].spCounter < MaxSavepoints
          /\ \/ tx[r].busy /\ tx' = counted /\ UNCHANGED job
             \/ /\ ~tx[r].busy
                /\ tx' = [counted EXCEPT ![r].busy = TRUE]
                /\ job' = [job EXCEPT ![s] = [Idle EXCEPT !.at = "SAVEPOINT", !.by = t, !.from = p,
                                              !.on = tx[r].client, !.turn = r,
                                              !.sp = tx[r].spCounter]]
    /\ UNCHANGED <<transactions, run, result, scope, alarm, closer, wires>>

\* createSavepoint counts a name up before it claims the connection.
OpenBlock(s, p) ==
    /\ Free(s)
    /\ scope[p] # None
    /\ LET t == Caller(p)
           r == transactions[Label[t]]
           counted == [tx EXCEPT ![r].spCounter = @ + 1]
       IN /\ MayCall(p)
          /\ r = scope[p]
          /\ Active(Label[t])
          /\ tx[r].spCounter < MaxSavepoints
          /\ \/ tx[r].busy /\ tx' = counted /\ UNCHANGED job
             \/ /\ ~tx[r].busy
                /\ tx' = [counted EXCEPT ![r].busy = TRUE]
                /\ job' = [job EXCEPT ![s] = [Idle EXCEPT !.at = "SAVEPOINT", !.by = t, !.from = p,
                                              !.on = tx[r].client, !.turn = r,
                                              !.sp = tx[r].spCounter + 1]]
    /\ UNCHANGED <<transactions, run, result, scope, alarm, closer, wires>>

OpenBlockDone(s) ==
    /\ job[s].at = "SAVEPOINT"
    /\ job[s].on \in open
    /\ marks' = [marks EXCEPT ![job[s].on] = Append(@, job[s].sp)]
    /\ tx' = [tx EXCEPT ![job[s].turn].busy = FALSE,
                        ![job[s].turn].savepoints = Append(@, job[s].sp)]
    /\ job' = [job EXCEPT ![s].at = "opened"]
    /\ UNCHANGED <<transactions, run, result, scope, alarm, closer, lent, dead, open>>

OpenBlockFailed(s) ==
    /\ job[s].at = "SAVEPOINT"
    /\ EndTurn(s)
    /\ UNCHANGED <<transactions, run, result, scope, alarm, closer, wires>>

EnterBlock(s) ==
    /\ job[s].at = "opened"
    /\ job' = [job EXCEPT ![s].at = "block"]
    /\ scope' = [scope EXCEPT ![s] = transactions[Label[job[s].by]]]
    /\ UNCHANGED <<engine, run, result, alarm, closer, wires>>

Trimmed(f, r, s, extra) ==
    [f EXCEPT ![r].savepoints = Trim(@, job[s].sp, extra)]

\* rollbackToSavepoint and releaseSavepoint look the id up again.  A claimed
\* connection refuses the request, but the stack is trimmed all the same.
Request(s, at, refused, extra) ==
    LET n == Label[job[s].by]
        r == transactions[n]
    IN \/ ~Active(n) /\ job' = [job EXCEPT ![s] = refused] /\ UNCHANGED tx
       \/ /\ Active(n) /\ tx[r].busy
          /\ job' = [job EXCEPT ![s] = refused]
          /\ tx' = Trimmed(tx, r, s, extra)
       \/ /\ Active(n) /\ ~tx[r].busy
          /\ job' = [job EXCEPT ![s].at = at, ![s].on = tx[r].client, ![s].turn = r]
          /\ tx' = Claimed(r)

\* The nested callback threw.
BlockThrows(s) ==
    /\ job[s].at = "block"
    /\ Overlaps \/ Settled(s)
    /\ Request(s, "unwind", [job[s] EXCEPT !.at = "unwound"], 1)
    /\ scope' = [scope EXCEPT ![s] = None]
    /\ UNCHANGED <<transactions, run, result, alarm, closer, wires>>

BlockUnwound(s) ==
    /\ job[s].at = "unwind"
    /\ ServerUnwinds(job[s].on, job[s].sp, 1) \/ ServerKeeps
    /\ tx' = FreeTurn(Trimmed(tx, job[s].turn, s, 1), s)
    /\ job' = [job EXCEPT ![s].at = "unwound"]
    /\ UNCHANGED <<transactions, run, result, scope, alarm, closer, lent, dead>>

\* The nested callback resolved, or its work is undone.
BlockReleases(s) ==
    /\ \/ job[s].at = "block" /\ (Overlaps \/ Settled(s))
       \/ job[s].at = "unwound"
    /\ Request(s, "RELEASE", Idle, 0)
    /\ scope' = [scope EXCEPT ![s] = None]
    /\ UNCHANGED <<transactions, run, result, alarm, closer, wires>>

BlockReleased(s) ==
    /\ job[s].at = "RELEASE"
    /\ ServerUnwinds(job[s].on, job[s].sp, 0) \/ ServerKeeps
    /\ tx' = FreeTurn(Trimmed(tx, job[s].turn, s, 0), s)
    /\ job' = [job EXCEPT ![s] = Idle]
    /\ UNCHANGED <<transactions, run, result, scope, alarm, closer, lent, dead>>

----------------------------------------------------------------------------
(* execute outside a transaction.                                          *)

Alone(s, at) == job[s].by = None /\ job[s].at = at

Query(s) ==
    /\ Free(s)
    /\ job' = [job EXCEPT ![s].at = "acquire"]
    /\ UNCHANGED <<engine, run, result, scope, alarm, closer, wires>>

QueryAcquired(s) ==
    /\ Alone(s, "acquire")
    /\ \E c \in Conn : /\ Lend(c)
                       /\ job' = [job EXCEPT ![s].at = "statement", ![s].on = c]
    /\ UNCHANGED <<engine, run, result, scope, alarm, closer>>

QueryAcquireFailed(s) ==
    /\ Alone(s, "acquire")
    /\ job' = [job EXCEPT ![s] = Idle]
    /\ UNCHANGED <<engine, run, result, scope, alarm, closer, wires>>

QueryDone(s) ==
    /\ Alone(s, "statement")
    /\ job' = [job EXCEPT ![s] = Idle]
    /\ Returned(job[s].on)
    /\ UNCHANGED <<engine, run, result, scope, alarm, closer, open, marks>>

QueryFailed(s) ==
    /\ Alone(s, "statement")
    /\ job' = [job EXCEPT ![s].at = "validate"]
    /\ UNCHANGED <<engine, run, result, scope, alarm, closer, wires>>

QueryValidated(s) ==
    /\ Alone(s, "validate")
    /\ job' = [job EXCEPT ![s] = Idle]
    /\ Returned(job[s].on) \/ Destroyed(job[s].on)
    /\ UNCHANGED <<engine, run, result, scope, alarm, closer, open, marks>>

----------------------------------------------------------------------------
Next ==
    \/ \E t \in Task :
          \/ Begin(t) \/ BeginAcquired(t) \/ BeginAcquireFailed(t)
          \/ BeginFailed(t) \/ BeginDone(t) \/ Enter(t)
          \/ Resolve(t) \/ CommitDone(t) \/ CommitFailed(t)
          \/ Throw(t) \/ ThrowRolledBack(t)
          \/ Fire(t) \/ FireRolledBack(t)
    \/ Disconnect \/ DisconnectNext \/ DisconnectRolledBack
    \/ \E s \in Slot :
          \/ \E p \in Task \cup Slot : Execute(s, p) \/ OpenBlock(s, p)
          \/ StatementDone(s) \/ StatementFailed(s) \/ AutoRollbackToDone(s)
          \/ AutoRollbackToFailed(s) \/ AutoRolledBack(s)
          \/ OpenBlockDone(s) \/ OpenBlockFailed(s) \/ EnterBlock(s)
          \/ BlockThrows(s) \/ BlockUnwound(s) \/ BlockReleases(s) \/ BlockReleased(s)
          \/ Query(s) \/ QueryAcquired(s) \/ QueryAcquireFailed(s)
          \/ QueryDone(s) \/ QueryFailed(s) \/ QueryValidated(s)

Spec == Init /\ [][Next]_vars

(* The driver answers or fails every request, and a timer fires.  Nothing  *)
(* is assumed of the callbacks: they may hang for good.                    *)
FairSpec ==
    /\ Spec
    /\ \A t \in Task : /\ WF_vars(CommitDone(t) \/ CommitFailed(t))
                       /\ WF_vars(ThrowRolledBack(t))
                       /\ WF_vars(Fire(t)) /\ WF_vars(FireRolledBack(t))
    /\ WF_vars(DisconnectRolledBack)
    /\ \A s \in Slot : /\ WF_vars(StatementDone(s) \/ StatementFailed(s))
                       /\ WF_vars(AutoRollbackToDone(s) \/ AutoRollbackToFailed(s))
                       /\ WF_vars(AutoRolledBack(s))

----------------------------------------------------------------------------
(* Properties.                                                             *)

TxState == {"UNUSED", "ACTIVE", "COMMITTING", "COMMITTED", "ROLLING_BACK",
            "ROLLBACK", "TIMEOUT"}
OneOf(S) == S \cup {None}

\* The registry, the records and the suspended calls are well formed.
TxTypeOK ==
    /\ transactions \in [Name -> OneOf(Task)]
    /\ tx \in [Task -> [client : OneOf(Conn), state : TxState, timer : BOOLEAN,
                        savepoints : Seq(1 .. MaxSavepoints),
                        spCounter : 0 .. MaxSavepoints, busy : BOOLEAN]]
    /\ run \in [Task -> [at : {"idle", "acquire", "BEGIN", "begun", "body",
                               "COMMIT", "ROLLBACK"},
                         on : OneOf(Conn), rec : OneOf(Task)]]
    /\ result \in [Task -> {"none", "resolved", "rejected"}]
    /\ job \in [Slot -> [at : {"idle", "acquire", "statement", "validate", "SAVEPOINT",
                               "opened", "block", "unwind", "unwound", "RELEASE",
                               "ROLLBACK TO", "ROLLBACK"},
                         by : OneOf(Task), from : OneOf(Task \cup Slot), on : OneOf(Conn), turn : OneOf(Task),
                         rec : OneOf(Task), sp : 0 .. MaxSavepoints]]
    /\ scope \in [Task \cup Slot -> OneOf(Task)]
    /\ alarm \in [Task -> [at : {"idle", "ROLLBACK"}, on : OneOf(Conn), rec : OneOf(Task)]]
    /\ closer \in [at : {"idle", "next", "ROLLBACK"}, on : OneOf(Conn),
                   rec : OneOf(Task), left : SUBSET Name]
    /\ lent \subseteq Conn /\ dead \subseteq Conn /\ open \subseteq Conn
    /\ marks \in [Conn -> Seq(1 .. MaxSavepoints)]

\* Who has to give connection c back: the record registered for a
\* transaction, a begin under way, an execute outside a transaction.
Holders(c) ==
    {<<"record", n>> : n \in {m \in Name : Registered(m) /\ tx[transactions[m]].client = c}}
    \cup {t \in Task : run[t].at = "BEGIN" /\ run[t].on = c}
    \cup {s \in Slot : (Alone(s, "statement") \/ Alone(s, "validate")) /\ job[s].on = c}

\* "so it can never leak from the pool": every connection out of the pool has
\* exactly one holder that gives it back, and every holder's is out.
NothingLeaks == \A c \in Conn : Cardinality(Holders(c)) = IF c \in lent THEN 1 ELSE 0

\* __claimTxConnection: a connection never carries two requests at once, be
\* it a statement and the roll back of its own transaction.
OneRequestAtATime == \A c \in Conn \ dead : Cardinality(Awaiting(c)) <= 1

\* No connection goes back to the pool with a transaction open on the server.
CleanHandover == \A c \in Conn \ (lent \cup dead) : c \notin open

\* "a resolved transaction(fn) always means the work committed", and a
\* rejected one that it did not.
OutcomeHonest == \A t \in Task : /\ result[t] = "resolved" => tx[t].state = "COMMITTED"
                                 /\ result[t] = "rejected" => tx[t].state # "COMMITTED"

\* Between two requests the engine never believes in a savepoint that the
\* server has dropped: what a failed statement is undone to exists.
SavepointsExist ==
    AutoRollback =>
        \A t \in Task : tx[t].state = "ACTIVE" /\ ~tx[t].busy =>
            \A i \in DOMAIN tx[t].savepoints :
                /\ Holds(marks[tx[t].client], tx[t].savepoints[i])
                /\ \A j \in 1 .. i - 1 :
                      IndexOf(marks[tx[t].client], tx[t].savepoints[j])
                        < IndexOf(marks[tx[t].client], tx[t].savepoints[i])

\* The timeout bounds every transaction, whatever its callback does: it
\* leaves the registry and its connection goes back.
TransactionEnds == \A n \in Name : Registered(n) ~> ~Registered(n)
=============================================================================
