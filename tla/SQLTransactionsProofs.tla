----------------------- MODULE SQLTransactionsProofs -----------------------
(* Transactions: types, the connections out of the pool and who gives them *)
(* back, what a connection goes back with, what a settled transaction(fn)  *)
(* says of its work, who sends on a connection, and which savepoints the   *)
(* server knows.                                                           *)
EXTENDS SQLTransactions, FiniteSetTheorems, SequenceTheorems, TLAPS

-----------------------------------------------------------------------------
(* Records and suspended calls.                                            *)

Stack == Seq(1 .. MaxSavepoints)
Record == [client : OneOf(Conn), state : TxState, timer : BOOLEAN, savepoints : Stack,
           spCounter : 0 .. MaxSavepoints, busy : BOOLEAN]
RunAt == {"idle", "acquire", "BEGIN", "begun", "body", "COMMIT", "ROLLBACK"}
Runner == [at : RunAt, on : OneOf(Conn), rec : OneOf(Task)]
JobAt == {"idle", "acquire", "statement", "validate", "SAVEPOINT", "opened", "block",
          "unwind", "unwound", "RELEASE", "ROLLBACK TO", "ROLLBACK"}
Job == [at : JobAt, by : OneOf(Task), from : OneOf(Task \cup Slot), on : OneOf(Conn),
        turn : OneOf(Task), rec : OneOf(Task), sp : 0 .. MaxSavepoints]
Alarm == [at : {"idle", "ROLLBACK"}, on : OneOf(Conn), rec : OneOf(Task)]
Closer == [at : {"idle", "next", "ROLLBACK"}, on : OneOf(Conn), rec : OneOf(Task),
           left : SUBSET Name]

LEMMA TypeParts ==
    TxTypeOK <=> /\ transactions \in [Name -> OneOf(Task)]
                 /\ tx \in [Task -> Record]
                 /\ run \in [Task -> Runner]
                 /\ result \in [Task -> {"none", "resolved", "rejected"}]
                 /\ job \in [Slot -> Job]
                 /\ scope \in [Task \cup Slot -> OneOf(Task)]
                 /\ alarm \in [Task -> Alarm]
                 /\ closer \in Closer
                 /\ lent \subseteq Conn /\ dead \subseteq Conn /\ open \subseteq Conn
                 /\ marks \in [Conn -> Stack]
BY Zenon DEF TxTypeOK, Record, RunAt, Runner, JobAt, Job, Alarm, Closer, Stack

\* g differs from f in nothing but timers, turns and savepoints.
Quiet(f, g) == /\ g \in [Task -> Record]
               /\ \A t \in Task : g[t].client = f[t].client /\ g[t].state = f[t].state

\* g differs from f in the state of r besides.
Moved(f, g, r, state) ==
    /\ g \in [Task -> Record]
    /\ \A t \in Task : /\ g[t].client = f[t].client
                       /\ g[t].state = IF t = r THEN state ELSE f[t].state

\* e2 is the record e with another timer, turn or savepoints, in a state x.
Variant(e, e2, x) == e2 \in Record /\ e2.client = e.client /\ e2.state = x

LEMMA RecordTypes ==
    ASSUME NEW e \in Record
    PROVE  /\ e.client \in OneOf(Conn) /\ e.state \in TxState /\ e.timer \in BOOLEAN
           /\ e.savepoints \in Stack /\ e.spCounter \in 0 .. MaxSavepoints
           /\ e.busy \in BOOLEAN
           /\ \A b \in BOOLEAN : /\ Variant(e, [e EXCEPT !.busy = b], e.state)
                                 /\ Variant(e, [e EXCEPT !.timer = b], e.state)
           /\ \A x \in TxState : /\ Variant(e, [e EXCEPT !.state = x], x)
                                 /\ Variant(e, [e EXCEPT !.state = x, !.timer = FALSE], x)
                                 /\ Variant(e, [e EXCEPT !.timer = FALSE, !.state = x], x)
           /\ \A k \in Stack : Variant(e, [e EXCEPT !.savepoints = k], e.state)
           /\ \A n \in 0 .. MaxSavepoints : Variant(e, [e EXCEPT !.spCounter = n], e.state)
BY DEF Record, Variant

LEMMA OneVariant ==
    ASSUME NEW f \in [Task -> Record], NEW r, NEW e
    PROVE  /\ (r \in Task => Variant(f[r], e, f[r].state)) => Quiet(f, [f EXCEPT ![r] = e])
           /\ \A x : r \in Task /\ Variant(f[r], e, x) => Moved(f, [f EXCEPT ![r] = e], r, x)
<1>1. ASSUME r \in Task => Variant(f[r], e, f[r].state) PROVE Quiet(f, [f EXCEPT ![r] = e])
  BY <1>1 DEF Quiet, Variant
<1>2. ASSUME NEW x, r \in Task, Variant(f[r], e, x) PROVE Moved(f, [f EXCEPT ![r] = e], r, x)
  BY <1>2 DEF Moved, Variant
<1> QED
  BY <1>1, <1>2

LEMMA QuietUpdates ==
    ASSUME NEW f \in [Task -> Record], NEW r
    PROVE  /\ \A b \in BOOLEAN : /\ Quiet(f, [f EXCEPT ![r].busy = b])
                                 /\ Quiet(f, [f EXCEPT ![r].timer = b])
           /\ \A k : (r \in Task => k \in Stack) => Quiet(f, [f EXCEPT ![r].savepoints = k])
           /\ \A n \in 0 .. MaxSavepoints : Quiet(f, [f EXCEPT ![r].spCounter = n])
<1>0. r \in Task => f[r] \in Record
  OBVIOUS
<1>1. ASSUME NEW b \in BOOLEAN PROVE Quiet(f, [f EXCEPT ![r].busy = b])
  BY <1>0, RecordTypes, OneVariant, Zenon
<1>2. ASSUME NEW b \in BOOLEAN PROVE Quiet(f, [f EXCEPT ![r].timer = b])
  BY <1>0, RecordTypes, OneVariant, Zenon
<1>3. ASSUME NEW k, r \in Task => k \in Stack PROVE Quiet(f, [f EXCEPT ![r].savepoints = k])
  BY <1>0, <1>3, RecordTypes, OneVariant, Zenon
<1>4. ASSUME NEW n \in 0 .. MaxSavepoints PROVE Quiet(f, [f EXCEPT ![r].spCounter = n])
  BY <1>0, RecordTypes, OneVariant, Zenon
<1> QED
  BY <1>1, <1>2, <1>3, <1>4

LEMMA StateUpdates ==
    ASSUME NEW f \in [Task -> Record], NEW r \in Task, NEW x \in TxState
    PROVE  /\ Moved(f, [f EXCEPT ![r].state = x], r, x)
           /\ Moved(f, [f EXCEPT ![r].state = x, ![r].timer = FALSE], r, x)
           /\ \A t \in Task : Moved(f, [f EXCEPT ![t].timer = FALSE, ![r].state = x], r, x)
<1>0. f[r] \in Record
  OBVIOUS
<1>1. Moved(f, [f EXCEPT ![r].state = x], r, x)
  BY <1>0, RecordTypes, OneVariant, Zenon
<1>2. ASSUME NEW g, Moved(f, g, r, x), NEW t \in Task
      PROVE  Moved(f, [g EXCEPT ![t].timer = FALSE], r, x)
  <2>1. Quiet(g, [g EXCEPT ![t].timer = FALSE])
    BY <1>2, QuietUpdates DEF Moved
  <2> QED
    BY <1>2, <2>1 DEF Moved, Quiet
<1>3. Moved(f, [f EXCEPT ![r].state = x, ![r].timer = FALSE], r, x)
  <2> DEFINE g == [f EXCEPT ![r].state = x]
  <2>1. Moved(f, [g EXCEPT ![r].timer = FALSE], r, x)
    BY <1>1, <1>2
  <2> QED
    BY <2>1
<1>4. ASSUME NEW t \in Task PROVE Moved(f, [f EXCEPT ![t].timer = FALSE, ![r].state = x], r, x)
  <2> DEFINE g == [f EXCEPT ![t].timer = FALSE]
  <2>1. Quiet(f, g)
    BY QuietUpdates
  <2>2. g[r] \in Record /\ g \in [Task -> Record]
    BY <2>1 DEF Quiet
  <2> HIDE DEF g
  <2>3. Moved(g, [g EXCEPT ![r].state = x], r, x)
    BY <2>2, RecordTypes, OneVariant, Zenon
  <2>4. Moved(f, [g EXCEPT ![r].state = x], r, x)
    BY <2>1, <2>3 DEF Moved, Quiet
  <2> QED
    BY <2>4 DEF g
<1> QED
  BY <1>1, <1>3, <1>4

\* What a trimmed stack is.
LEMMA TrimTypes ==
    ASSUME NEW k \in Stack, NEW name, NEW extra \in {0, 1}
    PROVE  Trim(k, name, extra) \in Stack
<1>1. CASE Holds(k, name)
  <2>1. IndexOf(k, name) \in DOMAIN k
    BY <1>1 DEF Holds, IndexOf
  <2>2. Len(k) \in Nat /\ DOMAIN k = 1 .. Len(k)
    BY LenProperties DEF Stack
  <2>3. IndexOf(k, name) - 1 + extra \in 0 .. Len(k)
    BY <2>1, <2>2
  <2>4. SubSeq(k, 1, IndexOf(k, name) - 1 + extra) \in Stack
    <3> DEFINE m == IndexOf(k, name) - 1 + extra
    <3>1. m \in 0 .. Len(k)
      BY <2>3
    <3> HIDE DEF m
    <3>2. SubSeq(k, 1, m) \in Seq(1 .. MaxSavepoints)
      <4>0. m \in Int /\ 1 \in Int /\ \A i \in 1 .. m : i \in 1 .. Len(k)
        BY <2>2, <3>1
      <4>1. m \in Int /\ 1 \in Int /\ \A i \in 1 .. m : k[i] \in 1 .. MaxSavepoints
        BY <4>0, ElementOfSeq, Zenon DEF Stack
      <4> QED
        BY <4>1, SubSeqProperties, Zenon
    <3> QED
      BY <3>2 DEF m, Stack
  <2> QED
    BY <1>1, <2>4 DEF Trim
<1>2. CASE ~Holds(k, name)
  BY <1>2 DEF Trim
<1> QED
  BY <1>1, <1>2

LEMMA LastOfStack == ASSUME NEW k \in Stack, k # <<>> PROVE k[Len(k)] \in 1 .. MaxSavepoints
<1>1. Len(k) \in 1 .. Len(k)
  BY LenProperties, EmptySeq DEF Stack
<1> QED
  BY <1>1, ElementOfSeq DEF Stack

\* The calls that are suspended, and how they move.
LEMMA RunnerTypes ==
    ASSUME NEW e \in Runner
    PROVE  /\ e.at \in RunAt /\ e.on \in OneOf(Conn) /\ e.rec \in OneOf(Task)
           /\ \A a \in RunAt : /\ [e EXCEPT !.at = a] \in Runner
                               /\ \A c \in OneOf(Conn) :
                                     /\ [e EXCEPT !.at = a, !.on = c] \in Runner
                                     /\ \A r \in OneOf(Task) :
                                           [at |-> a, on |-> c, rec |-> r] \in Runner
BY DEF Runner

LEMMA JobTypes ==
    ASSUME NEW e \in Job
    PROVE  /\ e.at \in JobAt /\ e.by \in OneOf(Task) /\ e.from \in OneOf(Task \cup Slot)
           /\ e.on \in OneOf(Conn) /\ e.turn \in OneOf(Task) /\ e.rec \in OneOf(Task)
           /\ e.sp \in 0 .. MaxSavepoints
BY DEF Job

\* e with another place, connection, turn, record or savepoint.
SameCall(e, d) == d \in Job /\ d.by = e.by /\ d.from = e.from

LEMMA JobMoves ==
    ASSUME NEW e \in Job, NEW a \in JobAt, NEW c \in OneOf(Conn), NEW r \in OneOf(Task),
           NEW n \in 0 .. MaxSavepoints
    PROVE  /\ SameCall(e, [e EXCEPT !.at = a]) /\ SameCall(e, [e EXCEPT !.at = a, !.on = c])
           /\ SameCall(e, [e EXCEPT !.at = a, !.on = c, !.sp = n])
           /\ SameCall(e, [e EXCEPT !.at = a, !.on = c, !.rec = r])
           /\ SameCall(e, [e EXCEPT !.at = a, !.on = c, !.turn = r])
BY DEF Job, SameCall

LEMMA IdleJob == Idle \in Job /\ Idle.by = None /\ Idle.at = "idle"
BY OptionAssumption DEF Idle, Job, JobAt, OneOf

LEMMA NewJob ==
    ASSUME NEW a \in JobAt, NEW t \in OneOf(Task), NEW p \in Task \cup Slot,
           NEW c \in OneOf(Conn), NEW r \in OneOf(Task), NEW n \in 0 .. MaxSavepoints
    PROVE  /\ [Idle EXCEPT !.at = a, !.by = t, !.from = p, !.on = c, !.turn = r] \in Job
           /\ [Idle EXCEPT !.at = a, !.by = t, !.from = p, !.on = c, !.turn = r, !.sp = n] \in Job
<1>1. ASSUME NEW e \in Job
      PROVE  /\ [e EXCEPT !.at = a, !.by = t, !.from = p, !.on = c, !.turn = r] \in Job
             /\ [e EXCEPT !.at = a, !.by = t, !.from = p, !.on = c, !.turn = r, !.sp = n] \in Job
  <2>1. p \in OneOf(Task \cup Slot)
    BY DEF OneOf
  <2> QED
    BY <2>1 DEF Job
<1> QED
  BY <1>1, IdleJob

-----------------------------------------------------------------------------
(* The type invariant, and the connections that calls and records name.    *)

RegPart == /\ transactions \in [Name -> OneOf(Task)]
           /\ tx \in [Task -> Record]
           /\ \A n \in Name : Registered(n) => tx[transactions[n]].client \in Conn

RunPart == /\ run \in [Task -> Runner]
           /\ result \in [Task -> {"none", "resolved", "rejected"}]
           /\ \A t \in Task : run[t].at = "BEGIN" => run[t].on \in Conn

\* An execute outside a transaction has its connection, and the calls of a
\* nested scope belong to a task.
Nested == {"SAVEPOINT", "opened", "block", "unwind", "unwound", "RELEASE"}
GoodJob(e) == /\ e.by = None /\ e.at \in {"statement", "validate"} => e.on \in Conn
              /\ e.at = "SAVEPOINT" => e.sp \in 1 .. MaxSavepoints
              /\ e.at \in Nested => e.by \in Task

JobPart == /\ job \in [Slot -> Job]
           /\ scope \in [Task \cup Slot -> OneOf(Task)]
           /\ \A s \in Slot : GoodJob(job[s]) /\ (scope[s] # None => job[s].at = "block")

WatchPart == /\ alarm \in [Task -> Alarm] /\ closer \in Closer
             /\ closer.at = "ROLLBACK" => closer.rec \in Task

WirePart == /\ lent \subseteq Conn /\ dead \subseteq Conn /\ open \subseteq Conn
            /\ marks \in [Conn -> Stack]

TxInv == RegPart /\ RunPart /\ JobPart /\ WatchPart /\ WirePart

LEMMA TxInvTypes == TxInv => TxTypeOK
BY TypeParts DEF TxInv, RegPart, RunPart, JobPart, WatchPart, WirePart

\* Registrations end and clients stay.
KeepsClients == /\ tx' \in [Task -> Record]
                /\ \A t \in Task : tx'[t].client = tx[t].client
Shrinks == /\ transactions' \in [Name -> OneOf(Task)]
           /\ \A n \in Name : transactions'[n] \in {transactions[n], None}

LEMMA Effects ==
    /\ Quiet(tx, tx') => KeepsClients
    /\ \A r, x : Moved(tx, tx', r, x) => KeepsClients
    /\ RegPart /\ UNCHANGED tx => KeepsClients
    /\ RegPart /\ UNCHANGED transactions => Shrinks
BY DEF Quiet, Moved, KeepsClients, Shrinks, RegPart

LEMMA RegKept == RegPart /\ KeepsClients /\ Shrinks => RegPart'
BY NoneAssumption DEF RegPart, KeepsClients, Shrinks, Registered, OneOf

LEMMA RunKept ==
    /\ RunPart /\ UNCHANGED <<run, result>> => RunPart'
    /\ JobPart /\ UNCHANGED <<job, scope>> => JobPart'
    /\ WatchPart /\ UNCHANGED <<alarm, closer>> => WatchPart'
    /\ WirePart /\ UNCHANGED <<lent, dead, open, marks>> => WirePart'
BY DEF RunPart, JobPart, WatchPart, WirePart

\* A task's call moves.
LEMMA RunStep ==
    ASSUME RunPart, NEW t \in Task, NEW e \in Runner, run' = [run EXCEPT ![t] = e],
           e.at = "BEGIN" => e.on \in Conn,
           result' \in [Task -> {"none", "resolved", "rejected"}]
    PROVE  RunPart'
BY DEF RunPart

\* A slot's call moves.
LEMMA JobStep ==
    ASSUME JobPart, NEW s \in Slot, NEW e \in Job, job' = [job EXCEPT ![s] = e], GoodJob(e),
           scope' \in [Task \cup Slot -> OneOf(Task)],
           \A p \in Slot \ {s} : scope'[p] = scope[p],
           scope'[s] # None => e.at = "block"
    PROVE  JobPart'
BY DEF JobPart

LEMMA JobEnds ==
    ASSUME JobPart, NEW s \in Slot, job' = [job EXCEPT ![s] = Idle],
           \/ job[s].at # "block" /\ UNCHANGED scope
           \/ scope' = [scope EXCEPT ![s] = None]
    PROVE  JobPart'
<1>1. Idle \in Job /\ GoodJob(Idle)
  BY IdleJob, NoneAssumption DEF GoodJob, Nested
<1>2. /\ scope' \in [Task \cup Slot -> OneOf(Task)]
      /\ \A p \in Slot \ {s} : scope'[p] = scope[p]
      /\ scope'[s] = None
  BY DEF JobPart, OneOf
<1> QED
  BY <1>1, <1>2, JobStep

LEMMA LentStep ==
    ASSUME WirePart, NEW c \in Conn, Lend(c)
    PROVE  WirePart'
<1>1. <<>> \in Stack
  BY DEF Stack
<1> QED
  BY <1>1 DEF WirePart, Lend

LEMMA Releases ==
    ASSUME RegPart, WirePart, NEW n \in Name, NEW b, ReleaseClient(n, b)
    PROVE  Shrinks /\ lent' \subseteq Conn /\ dead' \subseteq Conn
<1>1. CASE ~Registered(n)
  BY <1>1 DEF ReleaseClient, RegPart, WirePart, Shrinks
<1>2. CASE Registered(n)
  <2> DEFINE c == tx[transactions[n]].client
  <2>1. c \in Conn
    BY <1>2 DEF RegPart
  <2>2. transactions' = [transactions EXCEPT ![n] = None] /\ (Returned(c) \/ Destroyed(c))
    BY <1>2 DEF ReleaseClient
  <2> HIDE DEF c
  <2>3. Shrinks
    BY <2>2 DEF RegPart, Shrinks, OneOf
  <2> QED
    BY <2>1, <2>2, <2>3 DEF Returned, Destroyed, WirePart
<1> QED
  BY <1>1, <1>2

-----------------------------------------------------------------------------
(* The calls inside a transaction.                                         *)

\* What a call of slot s inside a transaction does, short of the end of its
\* own ROLLBACK: it sends that ROLLBACK for the record its id has, or it
\* leaves every record's state alone.
TurnStep(s) ==
    /\ UNCHANGED <<transactions, run, result, alarm, closer, lent, dead>>
    /\ open' \subseteq open
    /\ job[s] = Idle \/ job[s].by # None
    /\ \E e \in Job :
          /\ job' = [job EXCEPT ![s] = e] /\ GoodJob(e)
          /\ \/ e = Idle
             \/ e.by \in Task /\ e.by = job[s].by
             \/ e.by \in Task /\ job[s] = Idle /\ Active(Label[e.by])
          /\ \/ Quiet(tx, tx') /\ e.at # "ROLLBACK"
             \/ /\ e.at = "ROLLBACK" /\ e.by = job[s].by /\ e.by \in Task
                /\ Active(Label[e.by]) /\ e.rec = transactions[Label[e.by]]
                /\ e.on = tx[e.rec].client /\ Moved(tx, tx', e.rec, "ROLLING_BACK")

LEMMA ActiveRecord ==
    ASSUME RegPart, NEW t \in Task, Active(Label[t])
    PROVE  /\ Label[t] \in Name /\ transactions[Label[t]] \in Task
           /\ tx[transactions[Label[t]]] \in Record
           /\ tx[transactions[Label[t]]].client \in Conn
           /\ tx[transactions[Label[t]]].state = "ACTIVE"
BY LabelAssumption DEF RegPart, Active, Registered, OneOf

LEMMA ScopeTask ==
    ASSUME JobPart, NEW p \in Task \cup Slot, scope[p] # None
    PROVE  Caller(p) \in Task /\ scope[p] \in Task
BY DEF JobPart, Caller, GoodJob, Nested, OneOf

\* The step of a slot, put together.
LEMMA TurnTypes ==
    ASSUME TxInv, NEW s \in Slot, TurnStep(s), marks' \in [Conn -> Stack],
           scope' \in [Task \cup Slot -> OneOf(Task)],
           \A p \in Slot \ {s} : scope'[p] = scope[p],
           scope'[s] # None => job'[s].at = "block"
    PROVE  TxInv'
<1>1. PICK e \in Job : /\ job' = [job EXCEPT ![s] = e] /\ GoodJob(e)
                       /\ Quiet(tx, tx') \/ Moved(tx, tx', e.rec, "ROLLING_BACK")
  BY DEF TurnStep
<1>2. job'[s] = e
  BY <1>1 DEF TxInv, JobPart
<1>3. JobPart'
  BY <1>1, <1>2, JobStep DEF TxInv
<1>4. KeepsClients /\ Shrinks
  BY <1>1, Effects DEF TurnStep, TxInv
<1>5. RegPart' /\ RunPart' /\ WatchPart'
  BY <1>4, RegKept, RunKept DEF TurnStep, TxInv
<1>6. WirePart'
  BY DEF TurnStep, TxInv, WirePart
<1> QED
  BY <1>3, <1>5, <1>6 DEF TxInv

\* A call begins.
LEMMA ExecuteStep ==
    ASSUME TxInv, NEW s \in Slot, NEW p \in Task \cup Slot, Execute(s, p)
    PROVE  TurnStep(s) /\ TxInv'
<1> DEFINE t == Caller(p)
           r == transactions[Label[t]]
           e == [Idle EXCEPT !.at = "statement", !.by = t, !.from = p,
                             !.on = tx[r].client, !.turn = r]
<1>1. /\ job[s] = Idle /\ t \in Task /\ r \in Task /\ Active(Label[t])
  BY SMTT(30), ScopeTask DEF Execute, Free, TxInv
<1>2. tx[r].client \in OneOf(Conn) /\ tx \in [Task -> Record] /\ r \in OneOf(Task)
  BY <1>1, RecordTypes DEF TxInv, RegPart, OneOf
<1>3. 0 \in 0 .. MaxSavepoints /\ "statement" \in JobAt /\ t \in OneOf(Task)
  BY <1>1, OptionAssumption DEF JobAt, OneOf
<1>4. e \in Job
  BY ZenonT(40), <1>1, <1>2, <1>3, NewJob
<1>5. e.by = t /\ e.at = "statement"
  BY DEF Idle
<1>6. /\ job' = [job EXCEPT ![s] = e] /\ tx' = [tx EXCEPT ![r].busy = TRUE]
      /\ UNCHANGED <<transactions, run, result, scope, alarm, closer, wires>>
  BY DEF Execute, Claimed
<1> HIDE DEF e
<1>7. GoodJob(e)
  BY <1>1, <1>5, NoneAssumption DEF GoodJob, Nested
<1>8. Quiet(tx, tx')
  BY <1>2, <1>6, QuietUpdates, Zenon
<1>9. TurnStep(s)
  BY <1>1, <1>4, <1>5, <1>6, <1>7, <1>8 DEF TurnStep, wires
<1>10. scope[s] = None
  BY <1>1, IdleJob DEF TxInv, JobPart
<1> QED
  BY <1>6, <1>9, <1>10, TurnTypes DEF TxInv, JobPart, WirePart, wires

LEMMA OpenBlockStep ==
    ASSUME TxInv, NEW s \in Slot, NEW p \in Task \cup Slot, OpenBlock(s, p)
    PROVE  TurnStep(s) /\ TxInv'
<1> DEFINE t == Caller(p)
           r == transactions[Label[t]]
           e == [Idle EXCEPT !.at = "SAVEPOINT", !.by = t, !.from = p, !.on = tx[r].client,
                             !.turn = r, !.sp = tx[r].spCounter + 1]
           counted == [tx EXCEPT ![r].spCounter = @ + 1]
<1>1. /\ job[s] = Idle /\ t \in Task /\ r \in Task /\ Active(Label[t])
      /\ tx[r].spCounter < MaxSavepoints
      /\ UNCHANGED <<transactions, run, result, scope, alarm, closer, wires>>
  BY ScopeTask DEF OpenBlock, Free, TxInv
<1>2. /\ tx[r].client \in OneOf(Conn) /\ tx \in [Task -> Record] /\ r \in OneOf(Task)
      /\ tx[r].spCounter \in 0 .. MaxSavepoints
  BY <1>1, RecordTypes DEF TxInv, RegPart, OneOf
<1>3. /\ tx[r].spCounter + 1 \in 1 .. MaxSavepoints /\ tx[r].spCounter + 1 \in 0 .. MaxSavepoints
      /\ "SAVEPOINT" \in JobAt /\ t \in OneOf(Task)
  BY SMTT(30), <1>1, <1>2, OptionAssumption DEF JobAt, OneOf
<1>4. e \in Job
  BY ZenonT(40), <1>1, <1>2, <1>3, NewJob
<1>5. e.by = t /\ e.at = "SAVEPOINT" /\ e.sp = tx[r].spCounter + 1
  BY DEF Idle
<1>6. Quiet(tx, counted)
  BY <1>2, <1>3, QuietUpdates, Zenon
<1>7. Quiet(tx, [counted EXCEPT ![r].busy = TRUE])
  <2>1. counted \in [Task -> Record]
    BY <1>6 DEF Quiet
  <2> HIDE DEF counted
  <2>2. Quiet(counted, [counted EXCEPT ![r].busy = TRUE])
    BY <2>1, QuietUpdates
  <2> QED
    BY <1>6, <2>2 DEF Quiet
<1>8. \/ tx' = counted /\ UNCHANGED job
      \/ tx' = [counted EXCEPT ![r].busy = TRUE] /\ job' = [job EXCEPT ![s] = e]
  BY DEF OpenBlock
<1> HIDE DEF e, counted
<1>9. GoodJob(e) /\ GoodJob(Idle) /\ e.at # "ROLLBACK" /\ Idle.at # "ROLLBACK" /\ Idle \in Job
  BY <1>1, <1>3, <1>5, NoneAssumption, IdleJob DEF GoodJob, Nested
<1>10. Quiet(tx, tx')
  BY <1>6, <1>7, <1>8
<1>11. job' = [job EXCEPT ![s] = Idle] \/ job' = [job EXCEPT ![s] = e]
  BY <1>1, <1>8 DEF TxInv, JobPart
<1>12. TurnStep(s)
  BY <1>1, <1>4, <1>5, <1>9, <1>10, <1>11 DEF TurnStep, wires
<1>13. scope[s] = None
  BY <1>1, IdleJob DEF TxInv, JobPart
<1> QED
  BY <1>1, <1>12, <1>13, TurnTypes DEF TxInv, JobPart, WirePart, wires

\* What every call that goes on or ends leaves alone.
Elsewhere == /\ UNCHANGED <<transactions, run, result, alarm, closer, lent, dead>>
             /\ open' \subseteq open /\ marks' \in [Conn -> Stack]

\* A call goes on at e, with the scope as it was or without its own.
LEMMA CallGoesOn ==
    ASSUME TxInv, NEW s \in Slot, Elsewhere, job[s].by \in Task, NEW e \in Job,
           job' = [job EXCEPT ![s] = e], e.by = job[s].by, e.at # "ROLLBACK", Quiet(tx, tx'),
           e.at = "SAVEPOINT" => e.sp \in 1 .. MaxSavepoints,
           \/ job[s].at # "block" /\ UNCHANGED scope
           \/ scope' = [scope EXCEPT ![s] = None]
           \/ e.at = "block" /\ \E r \in OneOf(Task) : scope' = [scope EXCEPT ![s] = r]
    PROVE  TurnStep(s) /\ TxInv'
<1>1. GoodJob(e)
  BY NoneAssumption DEF GoodJob, Nested
<1>2. TurnStep(s)
  BY <1>1, NoneAssumption DEF TurnStep, Elsewhere
<1>3. job'[s] = e
  BY DEF TxInv, JobPart
<1>4. /\ scope' \in [Task \cup Slot -> OneOf(Task)]
      /\ \A q \in Slot \ {s} : scope'[q] = scope[q]
      /\ scope'[s] # None => e.at = "block"
  BY DEF TxInv, JobPart, OneOf
<1> QED
  BY <1>2, <1>3, <1>4, TurnTypes DEF Elsewhere

\* A call ends.
LEMMA CallEnds ==
    ASSUME TxInv, NEW s \in Slot, Elsewhere, job[s].by \in Task, Quiet(tx, tx'),
           job' = [job EXCEPT ![s] = Idle],
           \/ job[s].at # "block" /\ UNCHANGED scope
           \/ scope' = [scope EXCEPT ![s] = None]
    PROVE  TurnStep(s) /\ TxInv'
<1>1. Idle \in Job /\ GoodJob(Idle) /\ Idle.at = "idle"
  BY IdleJob, NoneAssumption DEF GoodJob, Nested
<1>2. TurnStep(s)
  BY <1>1, NoneAssumption DEF TurnStep, Elsewhere
<1>3. job'[s] = Idle
  BY DEF TxInv, JobPart
<1>4. /\ scope' \in [Task \cup Slot -> OneOf(Task)]
      /\ \A q \in Slot \ {s} : scope'[q] = scope[q]
      /\ scope'[s] = None
  BY DEF TxInv, JobPart, OneOf
<1> QED
  BY <1>2, <1>3, <1>4, TurnTypes DEF Elsewhere

LEMMA TurnFreed ==
    ASSUME TxInv, NEW s, NEW f, Quiet(tx, f)
    PROVE  Quiet(tx, FreeTurn(f, s))
<1>1. f \in [Task -> Record]
  BY DEF Quiet
<1>2. Quiet(f, [f EXCEPT ![job[s].turn].busy = FALSE])
  BY <1>1, QuietUpdates
<1> QED
  BY <1>2 DEF Quiet, FreeTurn

LEMMA QuietTx == TxInv => Quiet(tx, tx)
BY DEF TxInv, RegPart, Quiet

LEMMA EndTurnStep ==
    ASSUME TxInv, NEW s \in Slot, Elsewhere, job[s].by \in Task, job[s].at # "block",
           UNCHANGED scope, EndTurn(s)
    PROVE  TurnStep(s) /\ TxInv'
<1>1. Quiet(tx, tx') /\ job' = [job EXCEPT ![s] = Idle]
  BY QuietTx, TurnFreed DEF EndTurn
<1> QED
  BY <1>1, CallEnds

\* rollbackTransaction from the failure path of execute.
LEMMA AutoRollbackStep ==
    ASSUME TxInv, NEW s \in Slot, Elsewhere, job[s].by \in Task, job[s].at # "block",
           UNCHANGED scope, AutoRollbackAll(s)
    PROVE  TurnStep(s) /\ TxInv'
<1> DEFINE t == job[s].by
           r == transactions[Label[t]]
           e == [job[s] EXCEPT !.at = "ROLLBACK", !.on = tx[r].client, !.rec = r]
<1>1. CASE EndTurn(s)
  BY <1>1, EndTurnStep
<1>2. CASE /\ Active(Label[t]) /\ tx' = Leaving(Label[t], "ROLLING_BACK")
           /\ job' = [job EXCEPT ![s].at = "ROLLBACK", ![s].on = tx[r].client, ![s].rec = r]
  <2>1. /\ r \in Task /\ tx[r].client \in OneOf(Conn) /\ r \in OneOf(Task)
        /\ tx \in [Task -> Record] /\ "ROLLING_BACK" \in TxState /\ "ROLLBACK" \in JobAt
    BY <1>2, ActiveRecord DEF TxInv, RegPart, OneOf, TxState, JobAt
  <2>2. Moved(tx, tx', r, "ROLLING_BACK")
    BY <1>2, <2>1, StateUpdates, Zenon DEF Leaving
  <2>3. job[s] \in Job /\ 0 \in 0 .. MaxSavepoints
    BY SMTT(30), OptionAssumption DEF TxInv, JobPart
  <2>4. e \in Job
    BY <2>1, <2>3, JobMoves DEF SameCall
  <2>5. e.by = t /\ e.at = "ROLLBACK" /\ e.on = tx[r].client /\ e.rec = r
    BY <2>3 DEF Job
  <2>6. job' = [job EXCEPT ![s] = e]
    BY <1>2
  <2> HIDE DEF e
  <2>7. GoodJob(e)
    BY SMTT(30), <2>5, NoneAssumption DEF GoodJob, Nested
  <2>8. TurnStep(s)
    BY <1>2, <2>2, <2>4, <2>5, <2>6, <2>7, NoneAssumption DEF TurnStep, Elsewhere
  <2>9. scope[s] = None
    BY DEF TxInv, JobPart
  <2> QED
    BY <2>8, <2>9, TurnTypes DEF Elsewhere, TxInv, JobPart
<1> QED
  BY <1>1, <1>2 DEF AutoRollbackAll

\* The savepoints of a record are trimmed.
LEMMA TrimmedQuietly ==
    ASSUME TxInv, NEW s, NEW r, NEW extra \in {0, 1}
    PROVE  Quiet(tx, Trimmed(tx, r, s, extra))
<1> DEFINE k == Trim(tx[r].savepoints, job[s].sp, extra)
<1>1. r \in Task => k \in Stack
  BY TrimTypes, RecordTypes DEF TxInv, RegPart
<1> HIDE DEF k
<1>2. Quiet(tx, [tx EXCEPT ![r].savepoints = k])
  BY <1>1, QuietUpdates DEF TxInv, RegPart
<1> QED
  BY SMTT(30), <1>2 DEF Trimmed, k

LEMMA Unwinds ==
    ASSUME TxInv, NEW c, NEW name, NEW extra \in {0, 1}, ServerUnwinds(c, name, extra)
    PROVE  open' = open /\ marks' \in [Conn -> Stack]
<1> DEFINE k == Trim(marks[c], name, extra)
<1>1. c \in Conn => k \in Stack
  BY TrimTypes DEF TxInv, WirePart
<1>2. marks' = [marks EXCEPT ![c] = k] /\ open' = open
  BY DEF ServerUnwinds
<1> HIDE DEF k
<1> QED
  BY <1>1, <1>2 DEF TxInv, WirePart

LEMMA ServerSettles ==
    ASSUME TxInv, NEW c, ServerKeeps \/ ServerEnds(c)
    PROVE  open' \subseteq open /\ marks' \in [Conn -> Stack]
<1>1. <<>> \in Stack
  BY SMTT(30) DEF Stack
<1> QED
  BY <1>1 DEF ServerKeeps, ServerEnds, TxInv, WirePart

\* rollbackToSavepoint and releaseSavepoint up to their request.
LEMMA RequestStep ==
    ASSUME TxInv, NEW s \in Slot, Elsewhere, job[s].by \in Task, NEW at \in {"unwind", "RELEASE"},
           NEW refused \in Job, refused = Idle \/ (refused.by = job[s].by /\ refused.at = "unwound"),
           NEW extra \in {0, 1}, Request(s, at, refused, extra),
           scope' = [scope EXCEPT ![s] = None]
    PROVE  TurnStep(s) /\ TxInv'
<1> DEFINE r == transactions[Label[job[s].by]]
           e == [job[s] EXCEPT !.at = at, !.on = tx[r].client, !.turn = r]
<1>1. ASSUME job' = [job EXCEPT ![s] = refused], Quiet(tx, tx')
      PROVE  TurnStep(s) /\ TxInv'
  BY <1>1, CallEnds, CallGoesOn
<1>2. ASSUME Active(Label[job[s].by]), tx' = Claimed(r),
             job' = [job EXCEPT ![s].at = at, ![s].on = tx[r].client, ![s].turn = r]
      PROVE  TurnStep(s) /\ TxInv'
  <2>1. /\ r \in Task /\ tx[r].client \in OneOf(Conn) /\ r \in OneOf(Task)
        /\ tx \in [Task -> Record] /\ at \in JobAt
    BY <1>2, ActiveRecord DEF TxInv, RegPart, OneOf, JobAt
  <2>2. job[s] \in Job /\ 0 \in 0 .. MaxSavepoints
    BY SMTT(30), OptionAssumption DEF TxInv, JobPart
  <2>3. e \in Job
    BY ZenonT(40), <2>1, <2>2, JobMoves DEF SameCall
  <2>4. e.by = job[s].by /\ e.at = at
    BY <2>2 DEF Job
  <2>5. job' = [job EXCEPT ![s] = e]
    BY <1>2
  <2>6. Quiet(tx, tx')
    BY <1>2, <2>1, QuietUpdates, Zenon DEF Claimed
  <2> HIDE DEF e
  <2> QED
    BY <2>3, <2>4, <2>5, <2>6, CallGoesOn
<1>3. Quiet(tx, tx) /\ Quiet(tx, Trimmed(tx, r, s, extra))
  BY QuietTx, TrimmedQuietly
<1> QED
  BY <1>1, <1>2, <1>3 DEF Request

LEMMA StatementSteps ==
    ASSUME TxInv, NEW s \in Slot,
           \/ StatementDone(s) \/ StatementFailed(s) \/ AutoRollbackToDone(s)
           \/ AutoRollbackToFailed(s)
    PROVE  TurnStep(s) /\ TxInv'
<1>0. job[s].by \in Task /\ job[s].at # "block" /\ UNCHANGED scope
  BY JobTypes DEF StatementDone, StatementFailed, AutoRollbackToDone, AutoRollbackToFailed,
                  InTransaction, TxInv, JobPart, OneOf
<1>1. CASE StatementDone(s)
  <2>1. Elsewhere
    BY SMTT(30), <1>1 DEF StatementDone, Elsewhere, wires, TxInv, WirePart
  <2> QED
    BY <1>0, <1>1, <2>1, EndTurnStep DEF StatementDone
<1>2. CASE StatementFailed(s)
  <2> DEFINE r == transactions[Label[job[s].by]]
             k == tx[r].savepoints
             e == [job[s] EXCEPT !.at = "ROLLBACK TO", !.on = tx[r].client, !.sp = k[Len(k)]]
  <2>1. Elsewhere
    BY <1>2, ServerSettles DEF StatementFailed, Elsewhere
  <2>2. CASE EndTurn(s)
    BY <1>0, <2>1, <2>2, EndTurnStep
  <2>3. CASE AutoRollbackAll(s)
    BY <1>0, <2>1, <2>3, AutoRollbackStep
  <2>4. CASE /\ Active(Label[job[s].by]) /\ k # <<>> /\ UNCHANGED tx
             /\ job' = [job EXCEPT ![s].at = "ROLLBACK TO", ![s].on = tx[r].client,
                                   ![s].sp = k[Len(k)]]
    <3>1. /\ r \in Task /\ tx[r].client \in OneOf(Conn) /\ k \in Stack /\ "ROLLBACK TO" \in JobAt
      BY <1>0, <2>4, ActiveRecord, RecordTypes DEF TxInv, OneOf, JobAt
    <3>2. k # <<>>
      BY <2>4
    <3>3. k[Len(k)] \in 1 .. MaxSavepoints
      BY <3>1, <3>2, LastOfStack
    <3>4. k[Len(k)] \in 0 .. MaxSavepoints /\ job[s] \in Job /\ None \in OneOf(Task)
      BY SMTT(30), <3>3, OptionAssumption DEF TxInv, JobPart, OneOf
    <3>5. e \in Job
      BY ZenonT(40), <3>1, <3>4, JobMoves DEF SameCall
    <3>6. e.by = job[s].by /\ e.at = "ROLLBACK TO"
      BY <3>4 DEF Job
    <3>7. job' = [job EXCEPT ![s] = e] /\ Quiet(tx, tx')
      BY <2>4, QuietTx
    <3> HIDE DEF e
    <3> QED
      BY ZenonT(40), <1>0, <2>1, <3>5, <3>6, <3>7, CallGoesOn
  <2> QED
    BY ZenonT(40), <1>2, <2>2, <2>3, <2>4 DEF StatementFailed
<1>3. CASE AutoRollbackToDone(s)
  <2>1. Elsewhere
    BY <1>3, Unwinds DEF AutoRollbackToDone, Elsewhere
  <2> QED
    BY <1>0, <1>3, <2>1, EndTurnStep DEF AutoRollbackToDone
<1>4. CASE AutoRollbackToFailed(s)
  <2>1. Elsewhere
    BY <1>4 DEF AutoRollbackToFailed, Elsewhere, wires, TxInv, WirePart
  <2> QED
    BY <1>0, <1>4, <2>1, AutoRollbackStep DEF AutoRollbackToFailed
<1> QED
  BY <1>1, <1>2, <1>3, <1>4

LEMMA BlockSteps ==
    ASSUME TxInv, NEW s \in Slot,
           \/ OpenBlockDone(s) \/ OpenBlockFailed(s) \/ EnterBlock(s) \/ BlockThrows(s)
           \/ BlockUnwound(s) \/ BlockReleases(s) \/ BlockReleased(s)
    PROVE  TurnStep(s) /\ TxInv'
<1>0. /\ job[s].by \in Task /\ job[s] \in Job
      /\ job[s].at = "SAVEPOINT" => job[s].sp \in 1 .. MaxSavepoints
  BY DEF OpenBlockDone, OpenBlockFailed, EnterBlock, BlockThrows, BlockUnwound, BlockReleases,
         BlockReleased, TxInv, JobPart, GoodJob, Nested
<1>1. ASSUME NEW a \in {"opened", "block", "unwound"}
      PROVE  /\ [job[s] EXCEPT !.at = a] \in Job
             /\ [job[s] EXCEPT !.at = a].by = job[s].by /\ [job[s] EXCEPT !.at = a].at = a
             /\ [job EXCEPT ![s].at = a] = [job EXCEPT ![s] = [job[s] EXCEPT !.at = a]]
  BY <1>0 DEF Job, JobAt
<1>2. CASE OpenBlockDone(s)
  <2> DEFINE r == job[s].turn
             f == [tx EXCEPT ![r].busy = FALSE]
             k == Append(f[r].savepoints, job[s].sp)
             m == Append(marks[job[s].on], job[s].sp)
  <2>1. job[s].sp \in 1 .. MaxSavepoints
    BY <1>0, <1>2 DEF OpenBlockDone
  <2>2. Quiet(tx, f)
    BY QuietUpdates DEF TxInv, RegPart
  <2>3. f \in [Task -> Record]
    BY <2>2 DEF Quiet
  <2>4. tx' = [f EXCEPT ![r].savepoints = k]
    BY <1>2 DEF OpenBlockDone
  <2> HIDE DEF f
  <2>5. r \in Task => k \in Stack
    <3>1. r \in Task => f[r].savepoints \in Stack
      BY <2>3, RecordTypes
    <3> QED
      BY SMTT(30), <2>1, <3>1 DEF Stack
  <2> HIDE DEF k
  <2>6. Quiet(f, tx')
    BY <2>3, <2>4, <2>5, QuietUpdates
  <2>7. Quiet(tx, tx')
    BY <2>2, <2>6 DEF Quiet
  <2>8. job[s].on \in Conn => m \in Stack
    BY <2>1 DEF TxInv, WirePart, Stack
  <2>9. marks' = [marks EXCEPT ![job[s].on] = m]
    BY <1>2 DEF OpenBlockDone
  <2> HIDE DEF m
  <2>10. marks' \in [Conn -> Stack]
    BY <2>8, <2>9 DEF TxInv, WirePart
  <2>11. Elsewhere /\ UNCHANGED scope /\ job[s].at # "block" /\ job' = [job EXCEPT ![s].at = "opened"]
    BY <1>2, <2>10 DEF OpenBlockDone, Elsewhere
  <2> QED
    BY <1>0, <1>1, <2>7, <2>11, CallGoesOn
<1>3. CASE OpenBlockFailed(s)
  <2>1. Elsewhere
    BY <1>3 DEF OpenBlockFailed, Elsewhere, wires, TxInv, WirePart
  <2> QED
    BY <1>0, <1>3, <2>1, EndTurnStep DEF OpenBlockFailed
<1>4. CASE EnterBlock(s)
  <2>1. Elsewhere /\ Quiet(tx, tx') /\ job' = [job EXCEPT ![s].at = "block"]
    BY <1>4, QuietTx DEF EnterBlock, Elsewhere, wires, engine, TxInv, WirePart
  <2>2. transactions[Label[job[s].by]] \in OneOf(Task)
    BY <1>0, LabelAssumption DEF TxInv, RegPart
  <2> QED
    BY <1>0, <1>1, <1>4, <2>1, <2>2, CallGoesOn DEF EnterBlock
<1>5. CASE BlockThrows(s)
  <2>1. Elsewhere
    BY <1>5 DEF BlockThrows, Elsewhere, wires, TxInv, WirePart
  <2> DEFINE e == [job[s] EXCEPT !.at = "unwound"]
  <2>2. e \in Job /\ e.by = job[s].by /\ e.at = "unwound"
    BY <1>1
  <2>3. Request(s, "unwind", e, 1) /\ scope' = [scope EXCEPT ![s] = None]
    BY <1>5 DEF BlockThrows
  <2> HIDE DEF e
  <2> QED
    BY <1>0, <2>1, <2>2, <2>3, RequestStep
<1>6. CASE BlockUnwound(s)
  <2>1. Elsewhere
    BY <1>6, Unwinds, ServerSettles DEF BlockUnwound, Elsewhere
  <2>2. Quiet(tx, tx')
    BY <1>6, TrimmedQuietly, TurnFreed DEF BlockUnwound
  <2> QED
    BY <1>0, <1>1, <1>6, <2>1, <2>2, CallGoesOn DEF BlockUnwound
<1>7. CASE BlockReleases(s)
  <2>1. Elsewhere
    BY <1>7 DEF BlockReleases, Elsewhere, wires, TxInv, WirePart
  <2>2. ASSUME NEW at \in {"unwind", "RELEASE"}, NEW e \in Job, e = Idle, NEW extra \in {0, 1},
               Request(s, at, e, extra), scope' = [scope EXCEPT ![s] = None]
        PROVE  TurnStep(s) /\ TxInv'
    BY <1>0, <2>1, <2>2, RequestStep
  <2>3. Request(s, "RELEASE", Idle, 0) /\ scope' = [scope EXCEPT ![s] = None]
    BY <1>7 DEF BlockReleases
  <2>4. Idle \in Job
    BY IdleJob
  <2> QED
    BY <2>2, <2>3, <2>4
<1>8. CASE BlockReleased(s)
  <2>1. Elsewhere
    BY <1>8, Unwinds, ServerSettles DEF BlockReleased, Elsewhere
  <2>2. Quiet(tx, tx')
    BY <1>8, TrimmedQuietly, TurnFreed DEF BlockReleased
  <2> QED
    BY <1>0, <1>8, <2>1, <2>2, CallEnds DEF BlockReleased
<1> QED
  BY <1>2, <1>3, <1>4, <1>5, <1>6, <1>7, <1>8

-----------------------------------------------------------------------------
(* The calls outside a transaction.                                        *)

Solo(s) == job[s].by = None /\ job[s].at \in {"statement", "validate"}

\* An execute outside a transaction: the pool lends it a connection, which
\* goes back when the call is over.
QueryStep(s) ==
    /\ UNCHANGED <<transactions, tx, run, result, scope, alarm, closer>>
    /\ \E e \in Job :
          /\ job' = [job EXCEPT ![s] = e] /\ job[s].by = None /\ e.by = None
          /\ \/ /\ ~Solo(s) /\ e.at \in {"idle", "acquire"} /\ UNCHANGED <<lent, dead, open>>
             \/ ~Solo(s) /\ e.at = "statement" /\ e.on \in Conn /\ Lend(e.on)
             \/ Solo(s) /\ e.at = "validate" /\ e.on = job[s].on /\ UNCHANGED <<lent, dead, open>>
             \/ /\ Solo(s) /\ e.at = "idle" /\ UNCHANGED open
                /\ Returned(job[s].on) \/ Destroyed(job[s].on)

LEMMA QueryTypes ==
    ASSUME TxInv, NEW s \in Slot, QueryStep(s), marks' \in [Conn -> Stack], job[s].at # "block"
    PROVE  TxInv'
<1>1. PICK e \in Job :
          /\ job' = [job EXCEPT ![s] = e] /\ job[s].by = None /\ e.by = None
          /\ \/ /\ ~Solo(s) /\ e.at \in {"idle", "acquire"} /\ UNCHANGED <<lent, dead, open>>
             \/ ~Solo(s) /\ e.at = "statement" /\ e.on \in Conn /\ Lend(e.on)
             \/ Solo(s) /\ e.at = "validate" /\ e.on = job[s].on /\ UNCHANGED <<lent, dead, open>>
             \/ /\ Solo(s) /\ e.at = "idle" /\ UNCHANGED open
                /\ Returned(job[s].on) \/ Destroyed(job[s].on)
  BY DEF QueryStep
<1>2. Solo(s) => job[s].on \in Conn
  BY DEF TxInv, JobPart, GoodJob, Solo
<1>3. scope[s] = None
  BY DEF TxInv, JobPart
<1>4. GoodJob(e)
  BY <1>1, <1>2 DEF GoodJob, Nested
<1>5. JobPart'
  BY <1>1, <1>3, <1>4, JobStep DEF QueryStep, TxInv, JobPart
<1>6. KeepsClients /\ Shrinks
  BY Effects DEF QueryStep, TxInv
<1>7. RegPart' /\ RunPart' /\ WatchPart'
  BY <1>6, RegKept, RunKept DEF QueryStep, TxInv
<1>8. WirePart'
  <2>1. ASSUME UNCHANGED <<lent, dead, open>> PROVE WirePart'
    BY <2>1 DEF TxInv, WirePart
  <2>2. ASSUME Lend(e.on), e.on \in Conn PROVE WirePart'
    BY <2>2, LentStep DEF TxInv
  <2>3. ASSUME UNCHANGED open, job[s].on \in Conn, Returned(job[s].on) \/ Destroyed(job[s].on)
        PROVE  WirePart'
    BY <2>3 DEF TxInv, WirePart, Returned, Destroyed
  <2> QED
    BY <1>1, <1>2, <2>1, <2>2, <2>3
<1> QED
  BY <1>5, <1>7, <1>8 DEF TxInv

LEMMA QuerySteps ==
    ASSUME TxInv, NEW s \in Slot,
           \/ Query(s) \/ QueryAcquired(s) \/ QueryAcquireFailed(s) \/ QueryDone(s)
           \/ QueryFailed(s) \/ QueryValidated(s)
    PROVE  QueryStep(s) /\ TxInv'
<1>0. /\ job[s].by = None /\ job[s] \in Job /\ Idle \in Job /\ Idle.by = None /\ Idle.at = "idle"
      /\ job[s].at # "block" /\ UNCHANGED <<transactions, tx, run, result, scope, alarm, closer>>
  BY IdleJob DEF Query, QueryAcquired, QueryAcquireFailed, QueryDone, QueryFailed,
       QueryValidated, Free, Alone, engine, TxInv, JobPart
<1>2. ASSUME NEW e \in Job,
             job' = [job EXCEPT ![s] = e], e.by = None,
             \/ /\ ~Solo(s) /\ e.at \in {"idle", "acquire"} /\ UNCHANGED <<lent, dead, open>>
             \/ ~Solo(s) /\ e.at = "statement" /\ e.on \in Conn /\ Lend(e.on)
             \/ Solo(s) /\ e.at = "validate" /\ e.on = job[s].on /\ UNCHANGED <<lent, dead, open>>
             \/ /\ Solo(s) /\ e.at = "idle" /\ UNCHANGED open
                /\ Returned(job[s].on) \/ Destroyed(job[s].on),
             marks' \in [Conn -> Stack]
      PROVE  QueryStep(s) /\ TxInv'
  <2>1. QueryStep(s)
    BY <1>0, <1>2 DEF QueryStep
  <2> QED
    BY <1>0, <1>2, <2>1, QueryTypes
<1>3. UNCHANGED marks => marks' \in [Conn -> Stack]
  BY DEF TxInv, WirePart
<1>4. CASE Query(s)
  <2>1. /\ job' = [job EXCEPT ![s] = [job[s] EXCEPT !.at = "acquire"]] /\ ~Solo(s)
        /\ UNCHANGED <<lent, dead, open, marks>>
    BY <1>0, <1>4 DEF Query, Free, Solo, wires
  <2> DEFINE e == [job[s] EXCEPT !.at = "acquire"]
  <2>2. e \in Job /\ e.by = None /\ e.at = "acquire"
    BY <1>0 DEF Job, JobAt
  <2> HIDE DEF e
  <2> QED
    BY <1>2, <1>3, <2>1, <2>2 DEF e
<1>5. CASE QueryAcquired(s)
  <2>1. PICK c \in Conn : Lend(c) /\ job' = [job EXCEPT ![s].at = "statement", ![s].on = c]
    BY <1>5 DEF QueryAcquired
  <2> DEFINE e == [job[s] EXCEPT !.at = "statement", !.on = c]
  <2>2. e \in Job /\ e.by = None /\ e.at = "statement" /\ e.on = c
    BY <1>0 DEF Job, JobAt, OneOf
  <2>3. job' = [job EXCEPT ![s] = e] /\ ~Solo(s)
    BY <1>5, <2>1 DEF Solo, QueryAcquired, Alone
  <2>4. marks' \in [Conn -> Stack]
    BY <2>1, LentStep DEF TxInv, WirePart
  <2> HIDE DEF e
  <2> QED
    BY <1>2, <2>1, <2>2, <2>3, <2>4
<1>6. CASE QueryFailed(s)
  <2> DEFINE e == [job[s] EXCEPT !.at = "validate"]
  <2>1. job' = [job EXCEPT ![s] = e] /\ Solo(s) /\ UNCHANGED <<lent, dead, open, marks>>
    BY <1>6 DEF QueryFailed, Alone, Solo, wires
  <2>2. e \in Job /\ e.by = None /\ e.at = "validate" /\ e.on = job[s].on
    BY <1>0 DEF Job, JobAt
  <2> HIDE DEF e
  <2> QED
    BY <1>2, <1>3, <2>1, <2>2
<1>7. CASE QueryAcquireFailed(s)
  <2>1. job' = [job EXCEPT ![s] = Idle] /\ ~Solo(s) /\ UNCHANGED <<lent, dead, open, marks>>
    BY <1>7 DEF QueryAcquireFailed, Alone, Solo, wires
  <2> QED
    BY <1>0, <1>2, <1>3, <2>1
<1>8. CASE QueryDone(s) \/ QueryValidated(s)
  <2>1. /\ job' = [job EXCEPT ![s] = Idle] /\ Solo(s) /\ UNCHANGED <<open, marks>>
        /\ Returned(job[s].on) \/ Destroyed(job[s].on)
    BY <1>8 DEF QueryDone, QueryValidated, Alone, Solo
  <2> QED
    BY <1>0, <1>2, <1>3, <2>1
<1> QED
  BY <1>4, <1>5, <1>6, <1>7, <1>8

-----------------------------------------------------------------------------
(* transaction(fn), the timeouts and disconnect.                           *)

\* The end of a ROLLBACK or COMMIT for a record.
LEMMA EndedMoves ==
    ASSUME TxInv, NEW r, NEW x \in TxState
    PROVE  Moved(tx, Ended(r, x, FALSE), r, x) /\ Quiet(tx, Ended(r, x, TRUE))
<1>0. tx \in [Task -> Record]
  BY DEF TxInv, RegPart
<1>1. ASSUME r \in Task PROVE Moved(tx, Ended(r, x, FALSE), r, x)
  <2>1. Moved(tx, [tx EXCEPT ![r].state = x], r, x)
    BY <1>0, <1>1, StateUpdates
  <2> QED
    BY <2>1 DEF Ended
<1>2. ASSUME r \notin Task PROVE Moved(tx, Ended(r, x, FALSE), r, x)
  BY <1>0, <1>2 DEF Ended, Moved
<1>3. Quiet(tx, Ended(r, x, TRUE))
  BY <1>0, RecordTypes DEF Ended, Quiet, Record
<1> QED
  BY <1>1, <1>2, <1>3

\* A task's call is over.
LEMMA RejectStep ==
    ASSUME TxInv, NEW t \in Task, Reject(t)
    PROVE  RunPart'
<1>1. Rest \in Runner /\ Rest.at = "idle"
  BY DEF Rest, Runner, RunAt, OneOf
<1>2. result' \in [Task -> {"none", "resolved", "rejected"}]
  BY DEF Reject, TxInv, RunPart
<1> QED
  BY <1>1, <1>2, RunStep DEF Reject, TxInv

LEMMA BeginTypes ==
    ASSUME TxInv, NEW t \in Task,
           \/ Begin(t) \/ BeginAcquired(t) \/ BeginAcquireFailed(t) \/ BeginFailed(t)
           \/ BeginDone(t) \/ Enter(t)
    PROVE  TxInv'
<1>0. /\ run[t] \in Runner /\ tx \in [Task -> Record] /\ Label[t] \in Name
      /\ "BEGIN" \in RunAt /\ "acquire" \in RunAt /\ "begun" \in RunAt /\ "body" \in RunAt
      /\ None \in OneOf(Conn) /\ None \in OneOf(Task) /\ <<>> \in Stack
  BY LabelAssumption DEF TxInv, RunPart, RegPart, RunAt, OneOf, Stack
<1>1. Unused \in Record
  BY OptionAssumption DEF Unused, Record, TxState, OneOf, Stack
<1>2. CASE Begin(t)
  <2> DEFINE e == [run[t] EXCEPT !.at = "acquire"]
  <2>1. e \in Runner /\ e.at = "acquire" /\ run' = [run EXCEPT ![t] = e]
    BY <1>0, <1>2, RunnerTypes DEF Begin, Runner
  <2>2. result' \in [Task -> {"none", "resolved", "rejected"}]
    BY <1>2 DEF Begin, TxInv, RunPart
  <2> HIDE DEF e
  <2>3. RunPart'
    BY <2>1, <2>2, RunStep DEF TxInv
  <2>4. /\ tx' = [tx EXCEPT ![t] = Unused] /\ UNCHANGED transactions
        /\ \A n \in Name : transactions[n] # t
    BY <1>2 DEF Begin, Forgotten
  <2>5. RegPart'
    BY <1>1, <2>4 DEF TxInv, RegPart, Registered, OneOf
  <2>6. JobPart'
    BY <1>2, NamesAssumption DEF Begin, TxInv, JobPart, OneOf
  <2>7. WatchPart' /\ WirePart'
    BY <1>2, RunKept DEF Begin, TxInv, wires
  <2> QED
    BY <2>3, <2>5, <2>6, <2>7 DEF TxInv
<1>3. CASE BeginAcquired(t)
  <2>1. PICK c \in Conn : Lend(c) /\ run' = [run EXCEPT ![t].at = "BEGIN", ![t].on = c]
    BY <1>3 DEF BeginAcquired
  <2> DEFINE e == [run[t] EXCEPT !.at = "BEGIN", !.on = c]
  <2>2. e \in Runner /\ e.on = c /\ run' = [run EXCEPT ![t] = e]
    BY <1>0, <2>1 DEF Runner, OneOf
  <2> HIDE DEF e
  <2>3. RunPart'
    BY <1>3, <2>2, RunStep DEF BeginAcquired, TxInv, RunPart
  <2>4. RegPart' /\ JobPart' /\ WatchPart'
    BY <1>3, Effects, RegKept, RunKept DEF BeginAcquired, engine, TxInv
  <2>5. WirePart'
    BY <2>1, LentStep DEF TxInv
  <2> QED
    BY <2>3, <2>4, <2>5 DEF TxInv
<1>4. CASE BeginAcquireFailed(t) \/ BeginFailed(t)
  <2>1. RegPart' /\ JobPart' /\ WatchPart'
    BY <1>4, Effects, RegKept, RunKept DEF BeginAcquireFailed, BeginFailed, engine, TxInv
  <2>2. WirePart'
    BY <1>4 DEF BeginAcquireFailed, BeginFailed, wires, TxInv, WirePart, Returned
  <2> QED
    BY <1>4, <2>1, <2>2, RejectStep DEF BeginAcquireFailed, BeginFailed, TxInv
<1>5. CASE BeginDone(t)
  <2> DEFINE c == run[t].on
             e == [run[t] EXCEPT !.at = "begun", !.on = None]
             u == [Unused EXCEPT !.client = c, !.state = "ACTIVE", !.timer = Timeouts]
  <2>1. c \in Conn
    BY <1>5 DEF BeginDone, TxInv, RunPart
  <2>2. e \in Runner /\ e.at = "begun" /\ run' = [run EXCEPT ![t] = e]
    BY <1>0, <1>5 DEF BeginDone, Runner
  <2>3. u \in Record /\ u.client = c
    <3>1. \A x \in Record : /\ [x EXCEPT !.client = c, !.state = "ACTIVE", !.timer = Timeouts] \in Record
                            /\ [x EXCEPT !.client = c, !.state = "ACTIVE", !.timer = Timeouts].client = c
      BY <2>1, OptionAssumption DEF Record, TxState, OneOf
    <3> QED
      BY <1>1, <3>1
  <2>4. /\ transactions' = [transactions EXCEPT ![Label[t]] = t] /\ tx' = [tx EXCEPT ![t] = u]
        /\ open' = open \cup {c} /\ marks' = [marks EXCEPT ![c] = <<>>]
    BY <1>5 DEF BeginDone
  <2> HIDE DEF c, e, u
  <2>5. RunPart'
    BY <1>5, <2>2, RunStep DEF BeginDone, TxInv, RunPart
  <2>6. RegPart'
    BY <1>0, <2>1, <2>3, <2>4 DEF TxInv, RegPart, Registered, OneOf
  <2>7. JobPart' /\ WatchPart'
    BY <1>5, RunKept DEF BeginDone, TxInv
  <2>8. WirePart'
    BY <1>0, <1>5, <2>1, <2>4 DEF BeginDone, TxInv, WirePart
  <2> QED
    BY <2>5, <2>6, <2>7, <2>8 DEF TxInv
<1>6. CASE Enter(t)
  <2> DEFINE e == [run[t] EXCEPT !.at = "body"]
  <2>1. e \in Runner /\ e.at = "body" /\ run' = [run EXCEPT ![t] = e]
    BY <1>0, <1>6, RunnerTypes DEF Enter, Runner
  <2> HIDE DEF e
  <2>2. RunPart'
    BY <1>6, <2>1, RunStep DEF Enter, TxInv, RunPart
  <2>3. JobPart'
    BY <1>0, <1>6, NamesAssumption DEF Enter, TxInv, JobPart, RegPart
  <2>4. RegPart' /\ WatchPart' /\ WirePart'
    BY <1>6, Effects, RegKept, RunKept DEF Enter, engine, wires, TxInv
  <2> QED
    BY <2>2, <2>3, <2>4 DEF TxInv
<1> QED
  BY <1>2, <1>3, <1>4, <1>5, <1>6

\* A transaction leaves: its client is released, or nothing changes hands.
LEMMA Settling ==
    ASSUME TxInv, KeepsClients, NEW n \in Name, NEW b, NEW c,
           ReleaseClient(n, b) \/ UNCHANGED <<transactions, lent, dead>>,
           ServerKeeps \/ ServerEnds(c)
    PROVE  RegPart' /\ WirePart'
<1>1. open' \subseteq open /\ marks' \in [Conn -> Stack]
  BY ServerSettles
<1>2. Shrinks /\ lent' \subseteq Conn /\ dead' \subseteq Conn
  BY Releases, Effects DEF TxInv, WirePart
<1> QED
  BY <1>1, <1>2, RegKept DEF TxInv, WirePart

\* The record an id has leaves ACTIVE.
LEMMA LeavingMoves ==
    ASSUME TxInv, NEW n \in Name, Active(n), NEW x \in TxState
    PROVE  /\ transactions[n] \in Task /\ tx[transactions[n]].client \in Conn
           /\ Moved(tx, Leaving(n, x), transactions[n], x)
<1>1. transactions[n] \in Task /\ tx[transactions[n]].client \in Conn /\ tx \in [Task -> Record]
  BY DEF Active, Registered, TxInv, RegPart, OneOf
<1> QED
  BY <1>1, StateUpdates, Zenon DEF Leaving

LEMMA EndTypes ==
    ASSUME TxInv, NEW t \in Task,
           \/ Resolve(t) \/ CommitDone(t) \/ CommitFailed(t) \/ Throw(t) \/ ThrowRolledBack(t)
    PROVE  TxInv'
<1>0. /\ Label[t] \in Name /\ Rest \in Runner /\ Rest.at = "idle"
      /\ {"COMMITTING", "COMMITTED", "ROLLING_BACK", "ROLLBACK"} \subseteq TxState
      /\ {"COMMIT", "ROLLBACK"} \subseteq RunAt
  BY LabelAssumption DEF Rest, Runner, RunAt, OneOf, TxState
<1>1. JobPart' /\ WatchPart'
  BY RunKept DEF Resolve, CommitDone, CommitFailed, Throw, ThrowRolledBack, TxInv
<1>2. \A r, x : x \in TxState => /\ Moved(tx, Ended(r, x, FALSE), r, x)
                                 /\ Quiet(tx, Ended(r, x, TRUE))
  BY EndedMoves
<1>3. ASSUME NEW at \in {"COMMIT", "ROLLBACK"}, NEW x \in {"COMMITTING", "ROLLING_BACK"},
             UNCHANGED <<transactions, wires>>,
             \/ /\ Active(Label[t])
                /\ LET r == transactions[Label[t]]
                   IN run' = [run EXCEPT ![t] = [at |-> at, on |-> tx[r].client, rec |-> r]]
                /\ tx' = Leaving(Label[t], x)
                /\ UNCHANGED result
             \/ Reject(t) /\ UNCHANGED tx
      PROVE  TxInv'
  <2>1. RegPart' /\ WirePart'
    <3>1. KeepsClients
      BY <1>0, <1>3, LeavingMoves, Effects DEF TxInv
    <3> QED
      BY <1>3, <3>1, Effects, RegKept, RunKept DEF TxInv, wires
  <2>2. ASSUME Active(Label[t]), UNCHANGED result,
               LET r == transactions[Label[t]]
               IN run' = [run EXCEPT ![t] = [at |-> at, on |-> tx[r].client, rec |-> r]]
        PROVE  RunPart'
    <3> DEFINE r == transactions[Label[t]]
               e == [at |-> at, on |-> tx[r].client, rec |-> r]
    <3>1. r \in Task /\ tx[r].client \in Conn
      BY <1>0, <2>2, LeavingMoves
    <3>2. e \in Runner /\ e.at # "BEGIN"
      BY <1>0, <3>1 DEF Runner, OneOf
    <3>3. run' = [run EXCEPT ![t] = e]
      BY <2>2
    <3> HIDE DEF e
    <3> QED
      BY <2>2, <3>2, <3>3, RunStep DEF TxInv, RunPart
  <2>3. RunPart'
    BY <1>3, <2>2, RejectStep
  <2> QED
    BY <1>1, <2>1, <2>3 DEF TxInv
<1>4. CASE Resolve(t)
  BY <1>3, <1>4 DEF Resolve
<1>5. CASE Throw(t)
  BY <1>3, <1>5 DEF Throw
<1>6. ASSUME NEW b, ReleaseClient(Label[t], b), ServerKeeps \/ ServerEnds(run[t].on), KeepsClients,
             run' = [run EXCEPT ![t] = Rest], result' \in [Task -> {"none", "resolved", "rejected"}]
      PROVE  TxInv'
  <2>1. RegPart' /\ WirePart'
    BY <1>0, <1>6, Settling
  <2>2. RunPart'
    BY <1>0, <1>6, RunStep DEF TxInv
  <2> QED
    BY <1>1, <2>1, <2>2 DEF TxInv
<1>7. result' \in [Task -> {"none", "resolved", "rejected"}]
  BY DEF Resolve, CommitDone, CommitFailed, Throw, ThrowRolledBack, Reject, TxInv, RunPart
<1>8. CASE CommitDone(t)
  <2>1. KeepsClients
    BY <1>0, <1>2, <1>8, Effects DEF CommitDone
  <2> QED
    BY <1>6, <1>7, <1>8, <2>1 DEF CommitDone
<1>9. CASE CommitFailed(t)
  <2>1. KeepsClients
    BY <1>9, Effects DEF CommitFailed, TxInv
  <2> QED
    BY <1>6, <1>7, <1>9, <2>1 DEF CommitFailed, Reject
<1>10. CASE ThrowRolledBack(t)
  <2>1. PICK failed \in BOOLEAN : /\ tx' = Ended(run[t].rec, "ROLLBACK", failed)
                                  /\ RollbackSettles(Label[t], run[t].on, failed)
    BY <1>10 DEF ThrowRolledBack
  <2>2. KeepsClients
    BY <1>0, <1>2, <2>1, Effects
  <2> QED
    BY <1>6, <1>7, <1>10, <2>1, <2>2 DEF ThrowRolledBack, Reject, RollbackSettles
<1> QED
  BY <1>4, <1>5, <1>8, <1>9, <1>10

\* The timeout callback.
LEMMA AlarmTypes ==
    ASSUME TxInv, NEW t \in Task, Fire(t) \/ FireRolledBack(t)
    PROVE  TxInv'
<1>0. /\ Label[t] \in Name /\ "TIMEOUT" \in TxState /\ tx \in [Task -> Record]
      /\ None \in OneOf(Task) /\ None \in OneOf(Conn)
  BY LabelAssumption DEF TxState, TxInv, RegPart, OneOf
<1>1. RunPart' /\ JobPart'
  BY RunKept DEF Fire, FireRolledBack, TxInv
<1>2. CASE Fire(t)
  <2> DEFINE r == transactions[Label[t]]
             expired == [tx EXCEPT ![t].timer = FALSE, ![r].state = "TIMEOUT"]
  <2>1. CASE /\ ~Active(Label[t]) /\ tx' = [tx EXCEPT ![t].timer = FALSE]
             /\ UNCHANGED <<transactions, alarm, lent, dead>>
    <3>1. KeepsClients
      BY <1>0, <2>1, QuietUpdates, Effects
    <3>2. RegPart' /\ WatchPart' /\ WirePart'
      BY <1>2, <2>1, <3>1, Effects, RegKept, RunKept DEF Fire, TxInv, WirePart
    <3> QED
      BY <1>1, <3>2 DEF TxInv
  <2>2. CASE Active(Label[t]) /\ tx' = expired
    <3>1. r \in Task /\ tx[r].client \in Conn
      BY <1>0, <2>2, LeavingMoves
    <3>2. Moved(tx, expired, r, "TIMEOUT")
      BY <1>0, <3>1, StateUpdates
    <3>3. KeepsClients
      BY <2>2, <3>2, Effects
    <3>4. RegPart' /\ WirePart'
      <4>1. ReleaseClient(Label[t], TRUE) \/ UNCHANGED <<transactions, lent, dead>>
        BY <1>2, <2>2 DEF Fire
      <4> QED
        BY <1>0, <1>2, <3>3, <4>1, Settling DEF Fire, ServerKeeps
    <3>5. WatchPart'
      <4> DEFINE e == [at |-> "ROLLBACK", on |-> tx[r].client, rec |-> r]
      <4>1. e \in Alarm
        BY <3>1 DEF Alarm, OneOf
      <4>2. alarm' = [alarm EXCEPT ![t] = e] \/ UNCHANGED alarm
        BY <1>2, <2>2 DEF Fire
      <4> HIDE DEF e
      <4> QED
        BY <1>2, <4>1, <4>2 DEF Fire, TxInv, WatchPart
    <3> QED
      BY <1>1, <3>4, <3>5 DEF TxInv
  <2> QED
    BY <1>2, <2>1, <2>2 DEF Fire
<1>3. CASE FireRolledBack(t)
  <2>1. PICK failed \in BOOLEAN : RollbackSettles(Label[t], alarm[t].on, failed)
    BY <1>3 DEF FireRolledBack
  <2>2. KeepsClients
    BY <1>3, Effects DEF FireRolledBack, TxInv
  <2>3. RegPart' /\ WirePart'
    BY <1>0, <2>1, <2>2, Settling DEF RollbackSettles
  <2>4. Rest \in Alarm
    BY <1>0 DEF Rest, Alarm
  <2>5. WatchPart'
    BY <1>3, <2>4 DEF FireRolledBack, TxInv, WatchPart
  <2> QED
    BY <1>1, <2>3, <2>5 DEF TxInv
<1> QED
  BY <1>2, <1>3

LEMMA DisconnectTypes ==
    ASSUME TxInv, Disconnect \/ DisconnectNext \/ DisconnectRolledBack
    PROVE  TxInv'
<1>0. /\ {"ROLLING_BACK", "ROLLBACK"} \subseteq TxState /\ tx \in [Task -> Record]
      /\ closer \in Closer /\ closer.left \subseteq Name
      /\ closer.at = "ROLLBACK" => closer.rec \in Task
  BY DEF TxState, TxInv, RegPart, WatchPart, Closer
<1>1. RunPart' /\ JobPart'
  BY RunKept DEF Disconnect, DisconnectNext, DisconnectRolledBack, TxInv
<1>2. ASSUME closer' \in Closer, closer'.at = "ROLLBACK" => closer'.rec \in Task,
             UNCHANGED alarm
      PROVE  WatchPart'
  BY <1>2 DEF TxInv, WatchPart
<1>3. ASSUME NEW a \in {"idle", "next", "ROLLBACK"}, NEW k \in SUBSET Name, NEW c \in OneOf(Conn),
             NEW r \in OneOf(Task)
      PROVE  /\ [closer EXCEPT !.left = k] \in Closer /\ [closer EXCEPT !.at = a] \in Closer
             /\ [closer EXCEPT !.at = a, !.left = k] \in Closer
             /\ [closer EXCEPT !.at = a, !.on = c, !.rec = r] \in Closer
             /\ [at |-> a, on |-> c, rec |-> r, left |-> k] \in Closer
  BY <1>0 DEF Closer
<1>4. None \in OneOf(Conn) /\ None \in OneOf(Task)
  BY DEF OneOf
<1>5. CASE Disconnect
  <2> DEFINE k == {n \in Name : Registered(n)}
  <2>1. k \in SUBSET Name /\ closer' = [closer EXCEPT !.at = "next", !.left = k]
    BY <1>5 DEF Disconnect
  <2> HIDE DEF k
  <2>2. closer' \in Closer /\ closer'.at = "next"
    BY <1>0, <1>3, <1>4, <2>1 DEF Closer
  <2>3. RegPart' /\ WirePart'
    BY <1>5, Effects, RegKept, RunKept DEF Disconnect, engine, wires, TxInv
  <2> QED
    BY <1>1, <1>2, <1>5, <2>2, <2>3 DEF Disconnect, TxInv
<1>6. CASE DisconnectNext
  <2>1. ASSUME UNCHANGED tx, closer' \in Closer, closer'.at # "ROLLBACK"
        PROVE  TxInv'
    <3>1. RegPart' /\ WirePart'
      BY <1>6, <2>1, Effects, RegKept, RunKept DEF DisconnectNext, wires, TxInv
    <3> QED
      BY <1>1, <1>2, <1>6, <2>1, <3>1 DEF DisconnectNext, TxInv
  <2>2. CASE closer' = [closer EXCEPT !.at = "idle"] /\ UNCHANGED tx
    <3>1. closer' \in Closer /\ closer'.at # "ROLLBACK"
      BY <1>0, <1>3, <1>4, <2>2 DEF Closer
    <3> QED
      BY <2>1, <2>2, <3>1
  <2>3. ASSUME NEW n \in closer.left, closer' = [closer EXCEPT !.left = @ \ {n}], UNCHANGED tx
        PROVE  TxInv'
    <3>1. closer.left \ {n} \in SUBSET Name
      BY <1>0
    <3>2. closer' \in Closer
      BY <1>3, <1>4, <2>3, <3>1
    <3>3. closer'.at # "ROLLBACK"
      BY <1>0, <1>6, <2>3 DEF DisconnectNext, Closer
    <3> QED
      BY <2>1, <2>3, <3>2, <3>3
  <2>4. ASSUME NEW n \in closer.left, Active(n), tx' = Leaving(n, "ROLLING_BACK"),
               closer' = [at |-> "ROLLBACK", on |-> tx[transactions[n]].client,
                          rec |-> transactions[n], left |-> closer.left \ {n}]
        PROVE  TxInv'
    <3>1. /\ transactions[n] \in Task /\ tx[transactions[n]].client \in Conn
          /\ Moved(tx, tx', transactions[n], "ROLLING_BACK")
      BY <1>0, <2>4, LeavingMoves
    <3>2. RegPart' /\ WirePart'
      <4>1. KeepsClients
        BY <3>1, Effects
      <4> QED
        BY <1>6, <4>1, Effects, RegKept, RunKept DEF DisconnectNext, wires, TxInv
    <3>3. transactions[n] \in OneOf(Task) /\ tx[transactions[n]].client \in OneOf(Conn)
          /\ closer.left \ {n} \in SUBSET Name
      BY <1>0, <3>1 DEF OneOf
    <3>4. closer' \in Closer /\ closer'.rec \in Task
      BY <1>3, <2>4, <3>1, <3>3
    <3> QED
      BY <1>1, <1>2, <1>6, <3>2, <3>4 DEF DisconnectNext, TxInv
  <2> QED
    BY <1>6, <2>2, <2>3, <2>4 DEF DisconnectNext
<1>7. CASE DisconnectRolledBack
  <2>1. PICK failed \in BOOLEAN : /\ tx' = Ended(closer.rec, "ROLLBACK", failed)
                                  /\ RollbackSettles(Label[closer.rec], closer.on, failed)
    BY <1>7 DEF DisconnectRolledBack
  <2>2. KeepsClients
    BY <1>0, <2>1, EndedMoves, Effects
  <2>3. Label[closer.rec] \in Name
    BY <1>0, <1>7, LabelAssumption DEF DisconnectRolledBack
  <2>4. RegPart' /\ WirePart'
    BY <2>1, <2>2, <2>3, Settling DEF RollbackSettles
  <2>5. closer' \in Closer /\ closer'.at = "next"
    BY <1>0, <1>3, <1>4, <1>7 DEF DisconnectRolledBack, Closer
  <2> QED
    BY <1>1, <1>2, <1>7, <2>4, <2>5 DEF DisconnectRolledBack, TxInv
<1> QED
  BY <1>5, <1>6, <1>7

\* The end of the ROLLBACK of a failed statement.
LEMMA AutoRolledBackTypes ==
    ASSUME TxInv, NEW s \in Slot, AutoRolledBack(s)
    PROVE  TxInv'
<1>0. /\ job[s].by \in Task /\ Label[job[s].by] \in Name /\ job[s].at = "ROLLBACK"
      /\ "ROLLBACK" \in TxState /\ tx \in [Task -> Record]
  BY JobTypes, LabelAssumption
     DEF AutoRolledBack, InTransaction, TxInv, JobPart, RegPart, OneOf, TxState
<1>1. PICK failed \in BOOLEAN :
          /\ tx' = FreeTurn(Ended(job[s].rec, "ROLLBACK", failed), s)
          /\ RollbackSettles(Label[job[s].by], job[s].on, failed)
  BY DEF AutoRolledBack
<1>2. KeepsClients
  <2> DEFINE f == Ended(job[s].rec, "ROLLBACK", failed)
  <2>1. f \in [Task -> Record] /\ \A t \in Task : f[t].client = tx[t].client
    <3>1. failed = TRUE \/ failed = FALSE
      OBVIOUS
    <3>2. /\ Moved(tx, Ended(job[s].rec, "ROLLBACK", FALSE), job[s].rec, "ROLLBACK")
          /\ Quiet(tx, Ended(job[s].rec, "ROLLBACK", TRUE))
      BY <1>0, EndedMoves
    <3> QED
      BY <3>1, <3>2 DEF Moved, Quiet
  <2>2. tx' = [f EXCEPT ![job[s].turn].busy = FALSE]
    BY <1>1 DEF FreeTurn
  <2> HIDE DEF f
  <2>3. Quiet(f, tx')
    BY <2>1, <2>2, QuietUpdates
  <2> QED
    BY <2>1, <2>3 DEF Quiet, KeepsClients
<1>3. RegPart' /\ WirePart'
  BY <1>0, <1>1, <1>2, Settling DEF RollbackSettles
<1>4. JobPart'
  BY <1>0, JobEnds DEF AutoRolledBack, TxInv
<1>5. RunPart' /\ WatchPart'
  BY RunKept DEF AutoRolledBack, TxInv
<1> QED
  BY <1>3, <1>4, <1>5 DEF TxInv

-----------------------------------------------------------------------------
LEMMA TxInvInit == Init => TxInv
<1>1. Unused \in Record /\ Rest \in Runner /\ Rest \in Alarm /\ <<>> \in Stack
  BY OptionAssumption
     DEF Unused, Record, TxState, OneOf, Stack, Rest, Runner, RunAt, Alarm
<1>2. GoodJob(Idle)
  BY NoneAssumption, IdleJob DEF GoodJob, Nested
<1>3. ASSUME Init PROVE RegPart /\ RunPart
  BY <1>1, <1>3 DEF Init, RegPart, RunPart, Registered, OneOf, Rest
<1>4. ASSUME Init PROVE JobPart
  BY <1>2, <1>4, IdleJob DEF Init, JobPart, OneOf
<1>5. ASSUME Init PROVE WatchPart /\ WirePart
  BY <1>1, <1>5 DEF Init, WatchPart, Closer, WirePart, OneOf
<1> QED
  BY <1>3, <1>4, <1>5 DEF TxInv

LEMMA TxInvNext == ASSUME TxInv, [Next]_vars PROVE TxInv'
<1>1. CASE UNCHANGED vars
  <2>1. KeepsClients /\ Shrinks
    BY <1>1, Effects DEF vars, engine, TxInv
  <2> QED
    BY <1>1, <2>1, RegKept, RunKept DEF vars, engine, calls, wires, TxInv
<1>2. ASSUME NEW t \in Task,
             \/ Begin(t) \/ BeginAcquired(t) \/ BeginAcquireFailed(t)
             \/ BeginFailed(t) \/ BeginDone(t) \/ Enter(t)
             \/ Resolve(t) \/ CommitDone(t) \/ CommitFailed(t)
             \/ Throw(t) \/ ThrowRolledBack(t)
             \/ Fire(t) \/ FireRolledBack(t)
      PROVE  TxInv'
  BY <1>2, BeginTypes, EndTypes, AlarmTypes
<1>3. CASE Disconnect \/ DisconnectNext \/ DisconnectRolledBack
  BY <1>3, DisconnectTypes
<1>4. ASSUME NEW s \in Slot,
             \/ \E p \in Task \cup Slot : Execute(s, p) \/ OpenBlock(s, p)
             \/ StatementDone(s) \/ StatementFailed(s) \/ AutoRollbackToDone(s)
             \/ AutoRollbackToFailed(s) \/ AutoRolledBack(s)
             \/ OpenBlockDone(s) \/ OpenBlockFailed(s) \/ EnterBlock(s)
             \/ BlockThrows(s) \/ BlockUnwound(s) \/ BlockReleases(s) \/ BlockReleased(s)
             \/ Query(s) \/ QueryAcquired(s) \/ QueryAcquireFailed(s)
             \/ QueryDone(s) \/ QueryFailed(s) \/ QueryValidated(s)
      PROVE  TxInv'
  BY <1>4, ExecuteStep, OpenBlockStep, StatementSteps, AutoRolledBackTypes, BlockSteps, QuerySteps
<1> QED
  BY <1>1, <1>2, <1>3, <1>4 DEF Next

\* Whatever the options, the labels and the way tasks begin: the registry
\* holds tasks, a registered record has a client, and every suspended call
\* is well formed (SQLConnectionEngine's _transactions and TxRecord).
THEOREM TxTypesHold == Spec => []TxTypeOK
<1>1. Spec => []TxInv
  BY TxInvInit, TxInvNext, PTL DEF Spec
<1> QED
  BY <1>1, TxInvTypes, PTL

-----------------------------------------------------------------------------
(* Who holds which connection.                                             *)

\* A place that can hold a connection of the pool: the record of an id, a
\* begin under way, an execute outside a transaction.
Holder == ({"record"} \X Name) \cup ({"begin"} \X Task) \cup ({"query"} \X Slot)

RecHold(n) == IF Registered(n) THEN tx[transactions[n]].client ELSE None
BegHold(t) == IF run[t].at = "BEGIN" THEN run[t].on ELSE None
QueHold(s) == IF Solo(s) THEN job[s].on ELSE None

hold == [h \in Holder |-> IF h[1] = "record" THEN RecHold(h[2])
                          ELSE IF h[1] = "begin" THEN BegHold(h[2]) ELSE QueHold(h[2])]

\* No two hold the same, and what they hold is what is out.
OneHolder(f, L) == /\ \A g, h \in Holder : f[g] # None /\ f[g] = f[h] => g = h
                   /\ \A c : c \in L <=> c # None /\ \E h \in Holder : f[h] = c

LEMMA TakesHold ==
    ASSUME NEW f, NEW L, OneHolder(f, L), f = [h \in Holder |-> f[h]], NEW x \in Holder,
           f[x] = None, NEW c, c \notin L, c # None
    PROVE  OneHolder([f EXCEPT ![x] = c], L \cup {c})
BY DEF OneHolder

LEMMA DropsHold ==
    ASSUME NEW f, NEW L, OneHolder(f, L), f = [h \in Holder |-> f[h]], NEW x \in Holder
    PROVE  OneHolder([f EXCEPT ![x] = None], L \ {f[x]})
BY DEF OneHolder

LEMMA PassesHold ==
    ASSUME NEW f, NEW L, OneHolder(f, L), f = [h \in Holder |-> f[h]],
           NEW x \in Holder, NEW y \in Holder, x # y, f[y] = None
    PROVE  OneHolder([f EXCEPT ![x] = None, ![y] = f[x]], L)
BY DEF OneHolder

LEMMA HoldParts ==
    /\ hold = [h \in Holder |-> hold[h]]
    /\ \A n \in Name : <<"record", n>> \in Holder /\ hold[<<"record", n>>] = RecHold(n)
    /\ \A t \in Task : <<"begin", t>> \in Holder /\ hold[<<"begin", t>>] = BegHold(t)
    /\ \A s \in Slot : <<"query", s>> \in Holder /\ hold[<<"query", s>>] = QueHold(s)
BY DEF hold, Holder

\* The holders after a step, one kind at a time.
LEMMA HoldNext ==
    ASSUME NEW g, g = [h \in Holder |-> g[h]],
           \A n \in Name : RecHold(n)' = g[<<"record", n>>],
           \A t \in Task : BegHold(t)' = g[<<"begin", t>>],
           \A s \in Slot : QueHold(s)' = g[<<"query", s>>]
    PROVE  hold' = g
<1>1. hold' = [h \in Holder |-> IF h[1] = "record" THEN RecHold(h[2])'
                                ELSE IF h[1] = "begin" THEN BegHold(h[2])' ELSE QueHold(h[2])']
  BY DEF hold
<1>2. ASSUME NEW h \in Holder
      PROVE  g[h] = IF h[1] = "record" THEN RecHold(h[2])'
                    ELSE IF h[1] = "begin" THEN BegHold(h[2])' ELSE QueHold(h[2])'
  <2>1. CASE h \in {"record"} \X Name
    BY <2>1
  <2>2. CASE h \in {"begin"} \X Task
    BY <2>2
  <2>3. CASE h \in {"query"} \X Slot
    BY <2>3
  <2> QED
    BY <2>1, <2>2, <2>3 DEF Holder
<1> QED
  BY <1>1, <1>2

HoldInv == OneHolder(hold, lent)

\* Nothing changes hands.
CallsKeepHold == /\ \A t \in Task : BegHold(t)' = BegHold(t)
                 /\ \A s \in Slot : QueHold(s)' = QueHold(s)

LEMMA HoldKept ==
    ASSUME TxInv, HoldInv, UNCHANGED <<transactions, lent>>, CallsKeepHold,
           \A n \in Name : Registered(n) => tx'[transactions[n]].client = tx[transactions[n]].client
    PROVE  HoldInv'
<1>1. \A n \in Name : RecHold(n)' = RecHold(n)
  BY DEF RecHold, Registered
<1>2. hold' = hold
  BY <1>1, HoldParts, HoldNext DEF CallsKeepHold
<1> QED
  BY <1>2 DEF HoldInv, OneHolder

\* __releaseTransactionClient.
LEMMA HoldReleased ==
    ASSUME TxInv, HoldInv, KeepsClients, CallsKeepHold, NEW n \in Name, NEW b, ReleaseClient(n, b)
    PROVE  HoldInv'
<1> DEFINE x == <<"record", n>>
           g == [hold EXCEPT ![x] = None]
<1>0. \A m \in Name : Registered(m) => transactions[m] \in Task /\ tx[transactions[m]].client \in Conn
  BY DEF TxInv, RegPart, Registered, OneOf
<1>1. CASE ~Registered(n)
  BY <1>0, <1>1, HoldKept DEF ReleaseClient, KeepsClients
<1>2. CASE Registered(n)
  <2>1. /\ transactions' = [transactions EXCEPT ![n] = None]
        /\ lent' = lent \ {tx[transactions[n]].client}
    BY <1>2 DEF ReleaseClient, Returned, Destroyed
  <2>2. \A m \in Name : RecHold(m)' = IF m = n THEN None ELSE RecHold(m)
    BY <1>0, <2>1 DEF RecHold, Registered, KeepsClients, TxInv, RegPart
  <2>3. /\ g = [h \in Holder |-> g[h]]
        /\ \A m \in Name : g[<<"record", m>>] = IF m = n THEN None ELSE RecHold(m)
        /\ \A t \in Task : g[<<"begin", t>>] = BegHold(t)
        /\ \A s \in Slot : g[<<"query", s>>] = QueHold(s)
    BY HoldParts
  <2> HIDE DEF g
  <2>4. hold' = g
    BY <2>2, <2>3, HoldNext DEF CallsKeepHold
  <2>5. lent' = lent \ {hold[x]} /\ x \in Holder
    BY <1>2, <2>1, HoldParts DEF RecHold
  <2> QED
    BY <2>4, <2>5, HoldParts, DropsHold DEF HoldInv, g
<1> QED
  BY <1>1, <1>2

\* The pool lends to a begin or to an execute; they give back.
LEMMA HoldTaken ==
    ASSUME TxInv, HoldInv, UNCHANGED <<transactions, tx>>, NEW x \in Holder, NEW c \in Conn,
           hold' = [hold EXCEPT ![x] = c], hold[x] = None, Lend(c)
    PROVE  HoldInv'
<1>1. c # None /\ c \notin lent /\ lent' = lent \cup {c}
  BY NoneAssumption DEF Lend, CanLend
<1> QED
  BY <1>1, HoldParts, TakesHold DEF HoldInv

LEMMA HoldDropped ==
    ASSUME TxInv, HoldInv, NEW x \in Holder,
           hold' = [hold EXCEPT ![x] = None], Returned(hold[x]) \/ Destroyed(hold[x])
    PROVE  HoldInv'
<1>1. lent' = lent \ {hold[x]}
  BY DEF Returned, Destroyed
<1> QED
  BY <1>1, HoldParts, DropsHold DEF HoldInv

\* The step of one task's call, and of one slot's.
LEMMA BegHolds ==
    ASSUME TxInv, NEW t \in Task, NEW e, run' = [run EXCEPT ![t] = e], UNCHANGED job
    PROVE  /\ run[t].at # "BEGIN" /\ e.at # "BEGIN" => CallsKeepHold
           /\ (\A n \in Name : RecHold(n)' = RecHold(n))
              => hold' = [hold EXCEPT ![<<"begin", t>>] = IF e.at = "BEGIN" THEN e.on ELSE None]
<1>0. \A u \in Task : run'[u] = IF u = t THEN e ELSE run[u]
  BY DEF TxInv, RunPart
<1>1. \A s \in Slot : QueHold(s)' = QueHold(s)
  BY DEF QueHold, Solo
<1>2. \A u \in Task : BegHold(u)' = IF u = t THEN IF e.at = "BEGIN" THEN e.on ELSE None
                                             ELSE BegHold(u)
  BY <1>0 DEF BegHold
<1>3. ASSUME run[t].at # "BEGIN", e.at # "BEGIN" PROVE CallsKeepHold
  BY <1>1, <1>2, <1>3 DEF CallsKeepHold, BegHold
<1>4. ASSUME \A n \in Name : RecHold(n)' = RecHold(n)
      PROVE  hold' = [hold EXCEPT ![<<"begin", t>>] = IF e.at = "BEGIN" THEN e.on ELSE None]
  <2> DEFINE c == IF e.at = "BEGIN" THEN e.on ELSE None
             g == [hold EXCEPT ![<<"begin", t>>] = c]
  <2>1. /\ g = [h \in Holder |-> g[h]]
        /\ \A m \in Name : g[<<"record", m>>] = RecHold(m)
        /\ \A u \in Task : g[<<"begin", u>>] = IF u = t THEN c ELSE BegHold(u)
        /\ \A s \in Slot : g[<<"query", s>>] = QueHold(s)
    BY HoldParts
  <2> HIDE DEF g
  <2>2. hold' = g
    BY <1>1, <1>2, <1>4, <2>1, HoldNext
  <2> QED
    BY <2>2 DEF g
<1> QED
  BY <1>3, <1>4

LEMMA QueHolds ==
    ASSUME TxInv, NEW s \in Slot, NEW e, job' = [job EXCEPT ![s] = e], UNCHANGED run
    PROVE  /\ /\ ~Solo(s)
              /\ e.by # None \/ e.at \notin {"statement", "validate"}
              => CallsKeepHold
           /\ Solo(s) /\ e.by = None /\ e.at = "validate" /\ e.on = job[s].on => CallsKeepHold
           /\ (\A n \in Name : RecHold(n)' = RecHold(n))
              => hold' = [hold EXCEPT ![<<"query", s>>] =
                             IF e.by = None /\ e.at \in {"statement", "validate"} THEN e.on ELSE None]
<1>0. \A q \in Slot : job'[q] = IF q = s THEN e ELSE job[q]
  BY DEF TxInv, JobPart
<1>1. \A u \in Task : BegHold(u)' = BegHold(u)
  BY DEF BegHold
<1>2. \A q \in Slot : QueHold(q)' = IF q = s THEN IF e.by = None /\ e.at \in {"statement", "validate"}
                                                  THEN e.on ELSE None
                                             ELSE QueHold(q)
  BY <1>0 DEF QueHold, Solo
<1>3. ASSUME ~Solo(s), e.by # None \/ e.at \notin {"statement", "validate"} PROVE CallsKeepHold
  BY <1>1, <1>2, <1>3 DEF CallsKeepHold, QueHold
<1>4. ASSUME Solo(s), e.by = None, e.at = "validate", e.on = job[s].on PROVE CallsKeepHold
  BY <1>1, <1>2, <1>4 DEF CallsKeepHold, QueHold
<1>5. ASSUME \A n \in Name : RecHold(n)' = RecHold(n)
      PROVE  hold' = [hold EXCEPT ![<<"query", s>>] =
                         IF e.by = None /\ e.at \in {"statement", "validate"} THEN e.on ELSE None]
  <2> DEFINE c == IF e.by = None /\ e.at \in {"statement", "validate"} THEN e.on ELSE None
             g == [hold EXCEPT ![<<"query", s>>] = c]
  <2>1. /\ g = [h \in Holder |-> g[h]]
        /\ \A m \in Name : g[<<"record", m>>] = RecHold(m)
        /\ \A u \in Task : g[<<"begin", u>>] = BegHold(u)
        /\ \A q \in Slot : g[<<"query", q>>] = IF q = s THEN c ELSE QueHold(q)
    BY HoldParts
  <2> HIDE DEF g
  <2>2. hold' = g
    BY <1>1, <1>2, <1>5, <2>1, HoldNext
  <2> QED
    BY <2>2 DEF g
<1> QED
  BY <1>3, <1>4, <1>5

\* An id that is being begun has no record, and its task no registration:
\* so it is when two tasks never begin under one id at the same time.
Beginning(t) == run[t].at \in {"acquire", "BEGIN"}
BeginPart ==
    \A t \in Task : Beginning(t) =>
        /\ ~Registered(Label[t])
        /\ \A n \in Name : transactions[n] # t
        /\ \A u \in Task : Beginning(u) /\ Label[u] = Label[t] => u = t

LabelsApart == \A t, u \in Task : Label[t] = Label[u] => t = u

\* Every step but Begin, BeginDone.
LEMMA BeginKept ==
    ASSUME TxInv, BeginPart, Shrinks, \A t \in Task : Beginning(t)' => Beginning(t)
    PROVE  BeginPart'
<1> SUFFICES ASSUME NEW t \in Task, Beginning(t)'
             PROVE  /\ ~Registered(Label[t])'
                    /\ \A n \in Name : transactions'[n] # t
                    /\ \A u \in Task : Beginning(u)' /\ Label[u] = Label[t] => u = t
  BY DEF BeginPart
<1>1. Label[t] \in Name /\ t # None
  BY LabelAssumption, NoneAssumption
<1> QED
  BY <1>1 DEF BeginPart, Shrinks, Registered

LEMMA BeginSteps ==
    ASSUME TxInv, BeginPart, ~BeginsRace \/ LabelsApart, NEW t \in Task, Begin(t) \/ BeginDone(t)
    PROVE  BeginPart'
<1>0. Label[t] \in Name /\ t # None /\ run \in [Task -> Runner]
      /\ transactions \in [Name -> OneOf(Task)]
  BY LabelAssumption, NoneAssumption DEF TxInv, RunPart, RegPart
<1>1. CASE Begin(t)
  <2>1. /\ \A u \in Task : Beginning(u)' <=> (u = t \/ Beginning(u))
        /\ UNCHANGED transactions /\ ~Registered(Label[t]) /\ \A n \in Name : transactions[n] # t
        /\ \A u \in Task : Label[u] = Label[t] /\ u # t => ~Beginning(u)
    BY <1>0, <1>1 DEF Begin, Beginning, Forgotten, LabelsApart, Runner
  <2> QED
    BY <2>1 DEF BeginPart, Registered
<1>2. CASE BeginDone(t)
  <2>1. /\ \A u \in Task : Beginning(u)' <=> (u # t /\ Beginning(u))
        /\ transactions' = [transactions EXCEPT ![Label[t]] = t] /\ Beginning(t)
    BY <1>0, <1>2 DEF BeginDone, Beginning, Runner
  <2>2. \A u \in Task : Beginning(u)' => Label[u] # Label[t] /\ Label[u] \in Name
    BY <2>1, LabelAssumption DEF BeginPart
  <2> QED
    BY <1>0, <2>1, <2>2 DEF BeginPart, Registered
<1> QED
  BY <1>1, <1>2

\* The part of transaction(fn) up to its body.
LEMMA BeginHolds ==
    ASSUME TxInv, HoldInv, BeginPart, NEW t \in Task,
           \/ Begin(t) \/ BeginAcquired(t) \/ BeginAcquireFailed(t) \/ BeginFailed(t)
           \/ BeginDone(t) \/ Enter(t)
    PROVE  HoldInv'
<1>0. run[t] \in Runner /\ Label[t] \in Name /\ Rest.at = "idle"
  BY LabelAssumption DEF TxInv, RunPart, Rest
<1>1. ASSUME NEW e, run' = [run EXCEPT ![t] = e], run[t].at # "BEGIN", e.at # "BEGIN",
             UNCHANGED <<transactions, lent, job>>,
             \A n \in Name : Registered(n) => tx'[transactions[n]].client = tx[transactions[n]].client
      PROVE  HoldInv'
  <2>1. CallsKeepHold
    BY <1>1, BegHolds
  <2> QED
    BY <1>1, <2>1, HoldKept
<1>2. CASE Begin(t)
  <2> DEFINE e == [run[t] EXCEPT !.at = "acquire"]
  <2>1. e.at = "acquire" /\ run' = [run EXCEPT ![t] = e] /\ run[t].at # "BEGIN"
    BY <1>0, <1>2 DEF Begin, Runner
  <2> HIDE DEF e
  <2>2. \A n \in Name : Registered(n) => tx'[transactions[n]].client = tx[transactions[n]].client
    <3>1. \A n \in Name : transactions[n] # t /\ (Registered(n) => transactions[n] \in Task)
      BY <1>2 DEF Begin, Forgotten, TxInv, RegPart, Registered, OneOf
    <3> QED
      BY <1>2, <3>1 DEF Begin, TxInv, RegPart
  <2> QED
    BY <1>1, <1>2, <2>1, <2>2 DEF Begin, wires
<1>3. CASE Enter(t)
  <2> DEFINE e == [run[t] EXCEPT !.at = "body"]
  <2>1. e.at = "body" /\ run' = [run EXCEPT ![t] = e] /\ run[t].at # "BEGIN"
    BY <1>0, <1>3 DEF Enter, Runner
  <2> HIDE DEF e
  <2> QED
    BY <1>1, <1>3, <2>1 DEF Enter, engine, wires
<1>4. CASE BeginAcquireFailed(t)
  BY <1>0, <1>1, <1>4 DEF BeginAcquireFailed, Reject, engine, wires
<1>5. ASSUME UNCHANGED <<transactions, tx>> PROVE \A n \in Name : RecHold(n)' = RecHold(n)
  BY <1>5 DEF RecHold, Registered
<1>6. CASE BeginAcquired(t)
  <2>1. PICK c \in Conn : Lend(c) /\ run' = [run EXCEPT ![t].at = "BEGIN", ![t].on = c]
    BY <1>6 DEF BeginAcquired
  <2> DEFINE e == [run[t] EXCEPT !.at = "BEGIN", !.on = c]
  <2>2. run' = [run EXCEPT ![t] = e] /\ e.at = "BEGIN" /\ e.on = c
    BY <1>0, <2>1 DEF Runner
  <2> HIDE DEF e
  <2>3. hold' = [hold EXCEPT ![<<"begin", t>>] = c]
    BY <1>5, <1>6, <2>2, BegHolds DEF BeginAcquired, engine
  <2>4. hold[<<"begin", t>>] = None /\ <<"begin", t>> \in Holder
    BY <1>6, HoldParts DEF BeginAcquired, BegHold
  <2> QED
    BY <1>6, <2>1, <2>3, <2>4, HoldTaken DEF BeginAcquired, engine
<1>7. CASE BeginFailed(t)
  <2>1. hold' = [hold EXCEPT ![<<"begin", t>>] = None]
    BY <1>0, <1>5, <1>7, BegHolds DEF BeginFailed, Reject, engine
  <2>2. hold[<<"begin", t>>] = run[t].on /\ <<"begin", t>> \in Holder
    BY <1>7, HoldParts DEF BeginFailed, BegHold
  <2> QED
    BY <1>7, <2>1, <2>2, HoldDropped DEF BeginFailed
<1>8. CASE BeginDone(t)
  <2> DEFINE x == <<"begin", t>>
             y == <<"record", Label[t]>>
             c == run[t].on
             g == [hold EXCEPT ![x] = None, ![y] = c]
  <2>0. \A n \in Name : Registered(n) => transactions[n] \in Task /\ transactions[n] # t
    BY <1>8 DEF BeginDone, BeginPart, Beginning, TxInv, RegPart, Registered, OneOf
  <2>1. \A n \in Name : RecHold(n)' = IF n = Label[t] THEN c ELSE RecHold(n)
    <3>1. /\ transactions' = [transactions EXCEPT ![Label[t]] = t]
          /\ \A u \in Task \ {t} : tx'[u] = tx[u]
          /\ tx'[t].client = c /\ t # None
      BY <1>8, NoneAssumption DEF BeginDone, TxInv, RegPart, Unused
    <3> QED
      BY <1>0, <2>0, <3>1 DEF RecHold, Registered, TxInv, RegPart
  <2>2. \A u \in Task : BegHold(u)' = IF u = t THEN None ELSE BegHold(u)
    BY <1>0, <1>8 DEF BeginDone, BegHold, TxInv, RunPart, Runner
  <2>3. \A s \in Slot : QueHold(s)' = QueHold(s)
    BY <1>8 DEF BeginDone, QueHold, Solo
  <2>4. /\ g = [h \in Holder |-> g[h]]
        /\ \A n \in Name : g[<<"record", n>>] = IF n = Label[t] THEN c ELSE RecHold(n)
        /\ \A u \in Task : g[<<"begin", u>>] = IF u = t THEN None ELSE BegHold(u)
        /\ \A s \in Slot : g[<<"query", s>>] = QueHold(s)
    BY <1>0, HoldParts
  <2> HIDE DEF g
  <2>5. hold' = g
    BY <2>1, <2>2, <2>3, <2>4, HoldNext
  <2>6. hold[x] = c /\ hold[y] = None /\ x # y /\ x \in Holder /\ y \in Holder
    BY <1>0, <1>8, HoldParts DEF BeginDone, BegHold, RecHold, BeginPart, Beginning
  <2> HIDE DEF x, y
  <2>7. OneHolder(g, lent)
    BY <2>6, HoldParts, PassesHold DEF HoldInv, g
  <2> QED
    BY <1>8, <2>5, <2>7 DEF BeginDone, HoldInv
<1> QED
  BY <1>2, <1>3, <1>4, <1>6, <1>7, <1>8

\* The steps that end a transaction, or that find it has ended.
TaskLeaves(t) == \/ Resolve(t) \/ CommitDone(t) \/ CommitFailed(t) \/ Throw(t) \/ ThrowRolledBack(t)
                 \/ Fire(t) \/ FireRolledBack(t)
CloserStep == Disconnect \/ DisconnectNext \/ DisconnectRolledBack

LEMMA LeavingTypes ==
    ASSUME TxInv, \/ \E t \in Task : TaskLeaves(t)
                  \/ CloserStep
                  \/ \E s \in Slot : AutoRolledBack(s)
    PROVE  TxInv'
BY EndTypes, AlarmTypes, DisconnectTypes, AutoRolledBackTypes DEF TaskLeaves, CloserStep

LEMMA ClientsStay ==
    ASSUME TxInv, \/ \E t \in Task : TaskLeaves(t)
                  \/ CloserStep
                  \/ \E s \in Slot : AutoRolledBack(s)
    PROVE  KeepsClients
<1>0. tx \in [Task -> Record]
  BY DEF TxInv, RegPart
<1>1. tx' \in [Task -> Record]
  BY LeavingTypes DEF TxInv, RegPart
<1>2. \A r, x, b : \A u \in Task : Ended(r, x, b)[u].client = tx[u].client
  BY <1>0 DEF Ended, Record
<1>3. \A n, x : \A u \in Task : Leaving(n, x)[u].client = tx[u].client
  BY <1>0 DEF Leaving, Record
<1>4. ASSUME NEW t \in Task, Resolve(t) \/ CommitDone(t) \/ CommitFailed(t) \/ Throw(t) \/ ThrowRolledBack(t)
      PROVE  KeepsClients
  <2>1. UNCHANGED tx \/ (\E r, x, b : tx' = Ended(r, x, b)) \/ (\E n, x : tx' = Leaving(n, x))
    BY <1>4 DEF Resolve, CommitDone, CommitFailed, Throw, ThrowRolledBack
  <2> QED
    BY <1>1, <1>2, <1>3, <2>1 DEF KeepsClients
<1>5. ASSUME NEW t \in Task, Fire(t) \/ FireRolledBack(t) PROVE KeepsClients
  <2>1. \/ UNCHANGED tx
        \/ tx' = [tx EXCEPT ![t].timer = FALSE]
        \/ tx' = [tx EXCEPT ![t].timer = FALSE, ![transactions[Label[t]]].state = "TIMEOUT"]
    BY <1>5 DEF Fire, FireRolledBack
  <2>2. \A u \in Task : tx'[u].client = tx[u].client
    BY <1>0, <2>1 DEF Record
  <2> QED
    BY <1>1, <2>2 DEF KeepsClients
<1>6. CASE CloserStep
  BY <1>1, <1>2, <1>3, <1>6
     DEF KeepsClients, CloserStep, Disconnect, DisconnectNext, DisconnectRolledBack, engine
<1>7. ASSUME NEW s \in Slot, AutoRolledBack(s) PROVE KeepsClients
  <2>1. PICK b \in BOOLEAN : tx' = FreeTurn(Ended(job[s].rec, "ROLLBACK", b), s)
    BY <1>7 DEF AutoRolledBack
  <2>2. \A u \in Task : tx'[u].client = tx[u].client
    BY <1>0, <2>1 DEF FreeTurn, Ended, Record
  <2> QED
    BY <1>1, <2>2 DEF KeepsClients
<1> QED
  BY <1>4, <1>5, <1>6, <1>7 DEF TaskLeaves

\* Their calls hold no connection of their own.
LEMMA LeaversHoldNothing ==
    ASSUME TxInv, \/ \E t \in Task : TaskLeaves(t)
                  \/ CloserStep
                  \/ \E s \in Slot : AutoRolledBack(s)
    PROVE  CallsKeepHold /\ \A u \in Task : Beginning(u)' => Beginning(u)
<1>1. ASSUME UNCHANGED <<run, job>>
      PROVE  CallsKeepHold /\ \A u \in Task : Beginning(u)' => Beginning(u)
  BY <1>1 DEF CallsKeepHold, BegHold, QueHold, Solo, Beginning
<1>2. ASSUME NEW t \in Task, NEW e, run' = [run EXCEPT ![t] = e], UNCHANGED job,
             run[t].at # "BEGIN", e.at \notin {"acquire", "BEGIN"}
      PROVE  CallsKeepHold /\ \A u \in Task : Beginning(u)' => Beginning(u)
  BY <1>2, BegHolds DEF Beginning, TxInv, RunPart
<1>3. ASSUME NEW t \in Task, Resolve(t) \/ CommitDone(t) \/ CommitFailed(t) \/ Throw(t) \/ ThrowRolledBack(t)
      PROVE  CallsKeepHold /\ \A u \in Task : Beginning(u)' => Beginning(u)
  <2>1. /\ run[t].at # "BEGIN" /\ UNCHANGED job
        /\ \/ run' = [run EXCEPT ![t] = Rest]
           \/ \E a \in {"COMMIT", "ROLLBACK"} : \E c, r :
                 run' = [run EXCEPT ![t] = [at |-> a, on |-> c, rec |-> r]]
    BY <1>3 DEF Resolve, CommitDone, CommitFailed, Throw, ThrowRolledBack, Reject
  <2>2. Rest.at = "idle" /\ \A a, c, r : [at |-> a, on |-> c, rec |-> r].at = a
    BY DEF Rest
  <2> QED
    BY <1>2, <2>1, <2>2
<1>4. ASSUME NEW s \in Slot, AutoRolledBack(s)
      PROVE  CallsKeepHold /\ \A u \in Task : Beginning(u)' => Beginning(u)
  <2>1. /\ ~Solo(s) /\ job' = [job EXCEPT ![s] = Idle] /\ UNCHANGED run
        /\ Idle.at \notin {"statement", "validate"}
    BY <1>4, IdleJob DEF AutoRolledBack, InTransaction, Solo
  <2> QED
    BY <2>1, QueHolds DEF Beginning
<1>5. CASE CloserStep
  BY <1>1, <1>5 DEF CloserStep, Disconnect, DisconnectNext, DisconnectRolledBack
<1>6. ASSUME NEW t \in Task, Fire(t) \/ FireRolledBack(t)
      PROVE  CallsKeepHold /\ \A u \in Task : Beginning(u)' => Beginning(u)
  BY <1>1, <1>6 DEF Fire, FireRolledBack
<1> QED
  BY <1>3, <1>4, <1>5, <1>6 DEF TaskLeaves

\* What they do to the registry and the pool.
LEMMA LeaversRelease ==
    ASSUME TxInv, \/ \E t \in Task : TaskLeaves(t)
                  \/ CloserStep
                  \/ \E s \in Slot : AutoRolledBack(s)
    PROVE  \/ UNCHANGED <<transactions, lent, dead>>
           \/ \E n \in Name, b \in BOOLEAN : ReleaseClient(n, b)
<1>0. /\ \A t \in Task : Label[t] \in Name
      /\ closer.at = "ROLLBACK" => closer.rec \in Task
      /\ \A s \in Slot : job[s].by # None => job[s].by \in Task
  BY LabelAssumption DEF TxInv, JobPart, WatchPart, Job, OneOf
<1>1. ASSUME NEW t \in Task, Resolve(t) \/ CommitDone(t) \/ CommitFailed(t) \/ Throw(t) \/ ThrowRolledBack(t)
      PROVE  \/ UNCHANGED <<transactions, lent, dead>>
             \/ \E n \in Name, b \in BOOLEAN : ReleaseClient(n, b)
  BY <1>0, <1>1
     DEF Resolve, CommitDone, CommitFailed, Throw, ThrowRolledBack, RollbackSettles, wires
<1>2. ASSUME NEW t \in Task, Fire(t) \/ FireRolledBack(t)
      PROVE  \/ UNCHANGED <<transactions, lent, dead>>
             \/ \E n \in Name, b \in BOOLEAN : ReleaseClient(n, b)
  BY <1>0, <1>2 DEF Fire, FireRolledBack, RollbackSettles
<1>3. CASE CloserStep
  BY <1>0, <1>3
     DEF CloserStep, Disconnect, DisconnectNext, DisconnectRolledBack, RollbackSettles, engine, wires
<1>4. ASSUME NEW s \in Slot, AutoRolledBack(s)
      PROVE  \E n \in Name, b \in BOOLEAN : ReleaseClient(n, b)
  BY <1>0, <1>4 DEF AutoRolledBack, InTransaction, RollbackSettles
<1> QED
  BY <1>1, <1>2, <1>3, <1>4 DEF TaskLeaves

LEMMA LeavingHolds ==
    ASSUME TxInv, HoldInv, BeginPart,
           \/ \E t \in Task : TaskLeaves(t)
           \/ CloserStep
           \/ \E s \in Slot : AutoRolledBack(s)
    PROVE  HoldInv' /\ BeginPart'
<1>1. KeepsClients /\ CallsKeepHold /\ \A u \in Task : Beginning(u)' => Beginning(u)
  BY ClientsStay, LeaversHoldNothing
<1>2. \A n \in Name : Registered(n) => transactions[n] \in Task
  BY DEF TxInv, RegPart, Registered, OneOf
<1>3. CASE UNCHANGED <<transactions, lent, dead>>
  BY <1>1, <1>2, <1>3, HoldKept, BeginKept, Effects DEF KeepsClients, TxInv
<1>4. ASSUME NEW n \in Name, NEW b \in BOOLEAN, ReleaseClient(n, b) PROVE HoldInv' /\ BeginPart'
  BY <1>1, <1>4, HoldReleased, Releases, BeginKept DEF TxInv
<1> QED
  BY <1>3, <1>4, LeaversRelease

LEMMA TurnHolds ==
    ASSUME TxInv, HoldInv, BeginPart, NEW s \in Slot, TurnStep(s)
    PROVE  HoldInv' /\ BeginPart'
<1>1. PICK e \in Job :
          /\ job' = [job EXCEPT ![s] = e]
          /\ e = Idle \/ e.by \in Task
          /\ Quiet(tx, tx') \/ Moved(tx, tx', e.rec, "ROLLING_BACK")
  BY DEF TurnStep
<1>2. ~Solo(s) /\ (e.by # None \/ e.at \notin {"statement", "validate"})
  BY <1>1, IdleJob, NoneAssumption DEF TurnStep, Solo
<1>3. CallsKeepHold
  BY <1>1, <1>2, QueHolds DEF TurnStep
<1>4. KeepsClients /\ Shrinks
  BY <1>1, Effects DEF TurnStep, TxInv
<1>5. \A n \in Name : Registered(n) => transactions[n] \in Task
  BY DEF TxInv, RegPart, Registered, OneOf
<1> QED
  BY <1>3, <1>4, <1>5, HoldKept, BeginKept DEF TurnStep, KeepsClients, Beginning

LEMMA QueryHolds ==
    ASSUME TxInv, HoldInv, BeginPart, NEW s \in Slot, QueryStep(s)
    PROVE  HoldInv' /\ BeginPart'
<1>1. PICK e \in Job :
          /\ job' = [job EXCEPT ![s] = e] /\ job[s].by = None /\ e.by = None
          /\ \/ /\ ~Solo(s) /\ e.at \in {"idle", "acquire"} /\ UNCHANGED <<lent, dead, open>>
             \/ ~Solo(s) /\ e.at = "statement" /\ e.on \in Conn /\ Lend(e.on)
             \/ Solo(s) /\ e.at = "validate" /\ e.on = job[s].on /\ UNCHANGED <<lent, dead, open>>
             \/ /\ Solo(s) /\ e.at = "idle" /\ UNCHANGED open
                /\ Returned(job[s].on) \/ Destroyed(job[s].on)
  BY DEF QueryStep
<1>2. BeginPart'
  BY BeginKept, Effects DEF QueryStep, Beginning, TxInv
<1>3. UNCHANGED <<transactions, tx, run>> /\ \A n \in Name : RecHold(n)' = RecHold(n)
  BY DEF QueryStep, RecHold, Registered
<1>4. hold[<<"query", s>>] = QueHold(s) /\ <<"query", s>> \in Holder
  BY HoldParts
<1>5. CASE \/ ~Solo(s) /\ e.at \in {"idle", "acquire"} /\ UNCHANGED <<lent, dead, open>>
           \/ Solo(s) /\ e.at = "validate" /\ e.on = job[s].on /\ UNCHANGED <<lent, dead, open>>
  <2>1. CallsKeepHold
    BY <1>1, <1>3, <1>5, QueHolds
  <2> QED
    BY <1>2, <1>3, <1>5, <2>1, HoldKept
<1>6. CASE ~Solo(s) /\ e.at = "statement" /\ e.on \in Conn /\ Lend(e.on)
  <2>1. hold' = [hold EXCEPT ![<<"query", s>>] = e.on]
    BY <1>1, <1>3, <1>6, QueHolds
  <2>2. hold[<<"query", s>>] = None
    BY <1>4, <1>6 DEF QueHold
  <2> QED
    BY <1>2, <1>3, <1>4, <1>6, <2>1, <2>2, HoldTaken
<1>7. CASE Solo(s) /\ e.at = "idle" /\ (Returned(job[s].on) \/ Destroyed(job[s].on))
  <2>1. Solo(s) /\ e.at = "idle"
    BY <1>7
  <2>2. hold' = [hold EXCEPT ![<<"query", s>>] = None]
    BY <1>1, <1>3, <2>1, QueHolds
  <2>3. hold[<<"query", s>>] = job[s].on
    BY <1>4, <2>1 DEF QueHold
  <2> QED
    BY <1>2, <1>4, <1>7, <2>2, <2>3, HoldDropped
<1> QED
  BY <1>1, <1>5, <1>6, <1>7

LEMMA HoldersOfOne ==
    ASSUME HoldInv, NEW c \in Conn
    PROVE  Cardinality(Holders(c)) = IF c \in lent THEN 1 ELSE 0
<1>0. c # None
  BY NoneAssumption
<1>1. Holders(c) = {<<"record", n>> : n \in {m \in Name : RecHold(m) = c}}
                   \cup {t \in Task : BegHold(t) = c} \cup {s \in Slot : QueHold(s) = c}
  <2>1. /\ \A n \in Name : RecHold(n) = c <=> Registered(n) /\ tx[transactions[n]].client = c
        /\ \A t \in Task : BegHold(t) = c <=> run[t].at = "BEGIN" /\ run[t].on = c
        /\ \A s \in Slot : QueHold(s) = c
              <=> (Alone(s, "statement") \/ Alone(s, "validate")) /\ job[s].on = c
    BY <1>0 DEF RecHold, BegHold, QueHold, Solo, Alone
  <2> QED
    BY <2>1 DEF Holders
<1>2. CASE c \notin lent
  <2>1. \A h \in Holder : hold[h] # c
    BY <1>0, <1>2 DEF HoldInv, OneHolder
  <2>2. Holders(c) = {}
    BY <1>1, <2>1, HoldParts
  <2> QED
    BY <1>2, <2>2, FS_EmptySet
<1>3. CASE c \in lent
  <2>1. PICK h \in Holder : hold[h] = c
    BY <1>3 DEF HoldInv, OneHolder
  <2>2. \A g \in Holder : hold[g] = c => g = h
    BY <1>0, <2>1 DEF HoldInv, OneHolder
  <2>3. /\ \A n \in Name : RecHold(n) = c => <<"record", n>> = h
        /\ \A t \in Task : BegHold(t) = c => <<"begin", t>> = h
        /\ \A s \in Slot : QueHold(s) = c => <<"query", s>> = h
    BY <2>2, HoldParts
  <2>4. \E x : Holders(c) = {x}
    <3>1. CASE h \in {"record"} \X Name
      <4>1. PICK n \in Name : h = <<"record", n>>
        BY <3>1
      <4>2. RecHold(n) = c /\ \A m \in Name : RecHold(m) = c => m = n
        BY <2>1, <2>3, <4>1, HoldParts
      <4>3. /\ \A t \in Task : BegHold(t) # c
            /\ \A s \in Slot : QueHold(s) # c
        BY <2>3, <4>1
      <4>4. Holders(c) = {<<"record", n>>}
        BY <1>1, <4>2, <4>3
      <4> QED
        BY <4>4
    <3>2. CASE h \in {"begin"} \X Task
      <4>1. PICK t \in Task : h = <<"begin", t>>
        BY <3>2
      <4>2. BegHold(t) = c /\ \A u \in Task : BegHold(u) = c => u = t
        BY <2>1, <2>3, <4>1, HoldParts
      <4>3. /\ \A n \in Name : RecHold(n) # c
            /\ \A s \in Slot : QueHold(s) # c
        BY <2>3, <4>1
      <4>4. Holders(c) = {t}
        BY <1>1, <4>2, <4>3
      <4> QED
        BY <4>4
    <3>3. CASE h \in {"query"} \X Slot
      <4>1. PICK s \in Slot : h = <<"query", s>>
        BY <3>3
      <4>2. QueHold(s) = c /\ \A q \in Slot : QueHold(q) = c => q = s
        BY <2>1, <2>3, <4>1, HoldParts
      <4>3. /\ \A n \in Name : RecHold(n) # c
            /\ \A t \in Task : BegHold(t) # c
        BY <2>3, <4>1
      <4>4. Holders(c) = {s}
        BY <1>1, <4>2, <4>3
      <4> QED
        BY <4>4
    <3> QED
      BY <3>1, <3>2, <3>3 DEF Holder
  <2> QED
    BY <1>3, <2>4, FS_Singleton
<1> QED
  BY <1>2, <1>3

LEMMA HoldInit == Init => HoldInv /\ BeginPart
<1> SUFFICES ASSUME Init PROVE HoldInv /\ BeginPart
  OBVIOUS
<1>1. \A h \in Holder : hold[h] = None
  BY IdleJob DEF Init, hold, RecHold, BegHold, QueHold, Holder, Registered, Solo, Rest
<1> QED
  BY <1>1 DEF Init, HoldInv, OneHolder, BeginPart, Beginning, Rest

LEMMA HoldStep ==
    ASSUME TxInv, HoldInv, BeginPart, ~BeginsRace \/ LabelsApart, [Next]_vars
    PROVE  HoldInv' /\ BeginPart'
<1>1. CASE UNCHANGED vars
  <2>1. \A n \in Name : Registered(n) => tx'[transactions[n]].client = tx[transactions[n]].client
    BY <1>1 DEF vars, engine
  <2>2. CallsKeepHold /\ \A t \in Task : Beginning(t)' => Beginning(t)
    BY <1>1 DEF vars, calls, CallsKeepHold, BegHold, QueHold, Solo, Beginning
  <2> QED
    BY <1>1, <2>1, <2>2, HoldKept, BeginKept, Effects DEF vars, engine, wires, TxInv
<1>2. ASSUME NEW t \in Task,
             \/ Begin(t) \/ BeginAcquired(t) \/ BeginAcquireFailed(t)
             \/ BeginFailed(t) \/ BeginDone(t) \/ Enter(t)
      PROVE  HoldInv' /\ BeginPart'
  <2>1. HoldInv'
    BY <1>2, BeginHolds
  <2>2. CASE Begin(t) \/ BeginDone(t)
    BY <2>1, <2>2, BeginSteps
  <2>3. CASE BeginAcquired(t) \/ BeginAcquireFailed(t) \/ BeginFailed(t) \/ Enter(t)
    <3>1. \A u \in Task : Beginning(u)' => Beginning(u)
      BY <2>3 DEF BeginAcquired, BeginAcquireFailed, BeginFailed, Enter, Reject, Rest, Beginning,
                  TxInv, RunPart, Runner
    <3> QED
      BY <2>1, <2>3, <3>1, BeginKept, Effects
         DEF BeginAcquired, BeginAcquireFailed, BeginFailed, Enter, engine, TxInv
  <2> QED
    BY <1>2, <2>2, <2>3
<1>3. ASSUME \/ \E t \in Task : TaskLeaves(t)
             \/ CloserStep
             \/ \E s \in Slot : AutoRolledBack(s)
      PROVE  HoldInv' /\ BeginPart'
  BY <1>3, LeavingHolds
<1>4. ASSUME NEW s \in Slot,
             \/ \E p \in Task \cup Slot : Execute(s, p) \/ OpenBlock(s, p)
             \/ StatementDone(s) \/ StatementFailed(s) \/ AutoRollbackToDone(s)
             \/ AutoRollbackToFailed(s)
             \/ OpenBlockDone(s) \/ OpenBlockFailed(s) \/ EnterBlock(s)
             \/ BlockThrows(s) \/ BlockUnwound(s) \/ BlockReleases(s) \/ BlockReleased(s)
      PROVE  HoldInv' /\ BeginPart'
  BY <1>4, ExecuteStep, OpenBlockStep, StatementSteps, BlockSteps, TurnHolds
<1>5. ASSUME NEW s \in Slot,
             \/ Query(s) \/ QueryAcquired(s) \/ QueryAcquireFailed(s)
             \/ QueryDone(s) \/ QueryFailed(s) \/ QueryValidated(s)
      PROVE  HoldInv' /\ BeginPart'
  BY <1>5, QuerySteps, QueryHolds
<1> QED
  BY <1>1, <1>2, <1>3, <1>4, <1>5 DEF Next, TaskLeaves, CloserStep

TxProof == TxInv /\ HoldInv /\ BeginPart

LEMMA TxProofHolds == ASSUME ~BeginsRace \/ LabelsApart PROVE Spec => []TxProof
<1>1. Init => TxProof
  BY TxInvInit, HoldInit DEF TxProof
<1>2. TxProof /\ [Next]_vars => TxProof'
  BY TxInvNext, HoldStep DEF TxProof
<1> QED
  BY <1>1, <1>2, PTL DEF Spec

\* "so it can never leak from the pool": whatever fails, times out, overlaps
\* or is rolled back by disconnect, every connection out of the pool has
\* exactly one holder that gives it back, and every holder's is out, unless
\* two transaction(fn) begin under one id at the same time.
THEOREM NothingLeaksHolds ==
    ASSUME ~BeginsRace \/ LabelsApart
    PROVE  Spec => []NothingLeaks
<1>1. TxProof => NothingLeaks
  BY HoldersOfOne DEF TxProof, NothingLeaks
<1> QED
  BY <1>1, TxProofHolds, PTL

-----------------------------------------------------------------------------
(* Tasks with ids of their own: who is ending which transaction.           *)

RegLabels == \A n \in Name : Registered(n) => Label[transactions[n]] = n

Undone == {"ROLLING_BACK", "ROLLBACK"}
RunLeaves(t) ==
    /\ run[t].at = "COMMIT" => /\ run[t].rec = t /\ run[t].on = tx[t].client
                               /\ tx[t].state = "COMMITTING"
    /\ run[t].at = "ROLLBACK" => /\ run[t].rec = t /\ run[t].on = tx[t].client
                                 /\ tx[t].state \in Undone
AlarmLeaves(t) == alarm[t].at = "ROLLBACK" => alarm[t].rec = t /\ alarm[t].on = tx[t].client
CloserLeaves ==
    closer.at = "ROLLBACK" => closer.on = tx[closer.rec].client /\ tx[closer.rec].state \in Undone
JobLeaves(s) ==
    job[s].at = "ROLLBACK" => /\ job[s].by \in Task /\ job[s].rec = job[s].by
                              /\ job[s].on = tx[job[s].by].client
                              /\ tx[job[s].by].state \in Undone

\* Nobody is ending t from outside its transaction(fn).
Leaverless(t) == /\ alarm[t].at # "ROLLBACK"
                 /\ ~(closer.at = "ROLLBACK" /\ closer.rec = t)
                 /\ \A s \in Slot : ~(job[s].at = "ROLLBACK" /\ job[s].rec = t)

\* What a settled transaction(fn) said is what became of its record.
OutPart == \A t \in Task : /\ result[t] = "resolved" <=> tx[t].state = "COMMITTED"
                           /\ run[t].at # "idle" => result[t] = "none"

LeaveInv == /\ RegLabels
            /\ \A t \in Task : /\ RunLeaves(t) /\ AlarmLeaves(t)
                               /\ Beginning(t) => Leaverless(t)
            /\ CloserLeaves
            /\ \A s \in Slot : JobLeaves(s)
            /\ OutPart

\* What every step does to the records, but Begin, BeginDone and CommitDone:
\* an active one starts to end, one being rolled back is rolled back.
Soft == /\ KeepsClients
        /\ \A t \in Task : \/ tx'[t].state = tx[t].state
                           \/ /\ tx[t].state = "ACTIVE"
                              /\ tx'[t].state \in {"COMMITTING", "ROLLING_BACK", "TIMEOUT"}
                           \/ tx[t].state \in Undone /\ tx'[t].state = "ROLLBACK"

LEMMA SoftSteps ==
    ASSUME TxInv
    PROVE  /\ Quiet(tx, tx') => Soft
           /\ UNCHANGED tx => Soft
           /\ \A r : \A x \in {"COMMITTING", "ROLLING_BACK", "TIMEOUT"} :
                 r \in Task /\ tx[r].state = "ACTIVE" /\ Moved(tx, tx', r, x) => Soft
           /\ \A r : r \in Task /\ tx[r].state \in Undone /\ Moved(tx, tx', r, "ROLLBACK") => Soft
<1>1. tx \in [Task -> Record]
  BY DEF TxInv, RegPart
<1> QED
  BY <1>1 DEF Soft, Quiet, Moved, KeepsClients

LEMMA SoftKeeps ==
    ASSUME TxInv, LeaveInv, Soft
    PROVE  /\ \A t \in Task : run'[t] = run[t] => RunLeaves(t)'
           /\ \A t \in Task : alarm'[t] = alarm[t] => AlarmLeaves(t)'
           /\ closer' = closer => CloserLeaves'
           /\ \A s \in Slot : job'[s] = job[s] => JobLeaves(s)'
           /\ \A t \in Task : tx'[t].state = "COMMITTED" <=> tx[t].state = "COMMITTED"
<1>1. \A t \in Task : /\ tx'[t].client = tx[t].client
                      /\ tx[t].state = "COMMITTING" => tx'[t].state = "COMMITTING"
                      /\ tx[t].state \in Undone => tx'[t].state \in Undone
                      /\ tx'[t].state = "COMMITTED" <=> tx[t].state = "COMMITTED"
  BY DEF Soft, KeepsClients, Undone
<1>2. closer.at = "ROLLBACK" => closer.rec \in Task
  BY DEF TxInv, WatchPart
<1>3. \A t \in Task : run'[t] = run[t] => RunLeaves(t)'
  BY <1>1 DEF LeaveInv, RunLeaves
<1>4. \A t \in Task : alarm'[t] = alarm[t] => AlarmLeaves(t)'
  BY <1>1 DEF LeaveInv, AlarmLeaves
<1>5. closer' = closer => CloserLeaves'
  BY <1>1, <1>2 DEF LeaveInv, CloserLeaves
<1>6. \A s \in Slot : job'[s] = job[s] => JobLeaves(s)'
  BY <1>1 DEF LeaveInv, JobLeaves
<1> QED
  BY <1>1, <1>3, <1>4, <1>5, <1>6

\* The record an id has is that of the one task with this id, which is not
\* beginning.
LEMMA OwnRecord ==
    ASSUME TxInv, BeginPart, RegLabels, LabelsApart, NEW n \in Name, Registered(n)
    PROVE  /\ transactions[n] \in Task /\ ~Beginning(transactions[n])
           /\ \A t \in Task : Label[t] = n => transactions[n] = t
<1>1. transactions[n] \in Task /\ Label[transactions[n]] = n
  BY DEF TxInv, RegPart, Registered, OneOf, RegLabels
<1> QED
  BY <1>1 DEF BeginPart, LabelsApart

LEMMA LabelsKept == RegLabels /\ Shrinks => RegLabels'
BY NoneAssumption DEF RegLabels, Shrinks, Registered

\* The calls of slots.
LEMMA TurnLeaves ==
    ASSUME TxInv, BeginPart, LeaveInv, LabelsApart, NEW s \in Slot, TurnStep(s)
    PROVE  LeaveInv'
<1>1. PICK e \in Job :
          /\ job' = [job EXCEPT ![s] = e]
          /\ \/ Quiet(tx, tx') /\ e.at # "ROLLBACK"
             \/ /\ e.at = "ROLLBACK" /\ e.by \in Task
                /\ Active(Label[e.by]) /\ e.rec = transactions[Label[e.by]]
                /\ e.on = tx[e.rec].client /\ Moved(tx, tx', e.rec, "ROLLING_BACK")
  BY DEF TurnStep
<1>2. \A q \in Slot : job'[q] = IF q = s THEN e ELSE job[q]
  BY <1>1 DEF TxInv, JobPart
<1>3. ASSUME e.at = "ROLLBACK"
      PROVE  /\ e.by \in Task /\ e.rec = e.by /\ ~Beginning(e.by) /\ tx[e.by].state = "ACTIVE"
             /\ e.on = tx[e.by].client /\ Moved(tx, tx', e.by, "ROLLING_BACK")
  BY <1>1, <1>3, ActiveRecord, OwnRecord DEF Active, TxInv, LeaveInv
<1>4. Soft
  BY <1>1, <1>3, SoftSteps
<1>5. JobLeaves(s)'
  BY <1>2, <1>3 DEF JobLeaves, Moved, Undone
<1>6. \A q \in Slot : JobLeaves(q)'
  BY <1>2, <1>4, <1>5, SoftKeeps
<1>7. RegLabels'
  BY LabelsKept, Effects DEF TurnStep, LeaveInv, TxInv
<1>8. \A t \in Task : Beginning(t)' => Leaverless(t)'
  BY <1>2, <1>3 DEF TurnStep, LeaveInv, Leaverless, Beginning
<1>9. CloserLeaves' /\ \A t \in Task : RunLeaves(t)' /\ AlarmLeaves(t)'
  BY <1>4, SoftKeeps DEF TurnStep
<1>10. OutPart'
  BY <1>4, SoftKeeps DEF TurnStep, LeaveInv, OutPart
<1> QED
  BY <1>6, <1>7, <1>8, <1>9, <1>10 DEF LeaveInv

LEMMA QueryLeaves ==
    ASSUME TxInv, LeaveInv, NEW s \in Slot, QueryStep(s)
    PROVE  LeaveInv'
<1>1. PICK e \in Job : job' = [job EXCEPT ![s] = e] /\ e.at # "ROLLBACK"
  BY DEF QueryStep
<1>2. \A q \in Slot : job'[q] = IF q = s THEN e ELSE job[q]
  BY <1>1 DEF TxInv, JobPart
<1>3. Soft
  BY SoftSteps DEF QueryStep
<1>4. \A q \in Slot : JobLeaves(q)'
  <2>1. JobLeaves(s)'
    BY <1>1, <1>2 DEF JobLeaves
  <2> QED
    BY <1>2, <1>3, <2>1, SoftKeeps
<1>5. RegLabels'
  BY LabelsKept, Effects DEF QueryStep, LeaveInv, TxInv
<1>6. \A t \in Task : Beginning(t)' => Leaverless(t)'
  BY <1>1, <1>2 DEF QueryStep, LeaveInv, Leaverless, Beginning
<1>7. CloserLeaves' /\ \A t \in Task : RunLeaves(t)' /\ AlarmLeaves(t)'
  BY <1>3, SoftKeeps DEF QueryStep
<1>8. OutPart'
  BY DEF QueryStep, LeaveInv, OutPart
<1> QED
  BY <1>4, <1>5, <1>6, <1>7, <1>8 DEF LeaveInv

\* transaction(fn) up to its body.
LEMMA BeginLeaves ==
    ASSUME TxInv, BeginPart, LeaveInv, LabelsApart, NEW t \in Task,
           \/ Begin(t) \/ BeginAcquired(t) \/ BeginAcquireFailed(t) \/ BeginFailed(t)
           \/ BeginDone(t) \/ Enter(t)
    PROVE  LeaveInv'
<1>0. /\ run \in [Task -> Runner] /\ tx \in [Task -> Record] /\ Label[t] \in Name /\ t # None
      /\ transactions \in [Name -> OneOf(Task)] /\ Rest.at = "idle" /\ Unused.state = "UNUSED"
      /\ result \in [Task -> {"none", "resolved", "rejected"}]
  BY LabelAssumption, NoneAssumption DEF TxInv, RunPart, RegPart, Rest, Unused
<1>1. /\ UNCHANGED <<job, alarm, closer>>
      /\ \A u \in Task \ {t} : run'[u] = run[u] /\ result'[u] = result[u]
      /\ run[t].at \in {"idle", "acquire", "BEGIN", "begun"}
      /\ run'[t].at \in {"idle", "acquire", "BEGIN", "begun", "body"}
  BY <1>0 DEF Begin, BeginAcquired, BeginAcquireFailed, BeginFailed, BeginDone, Enter, Reject, Runner
<1>2. CASE BeginAcquired(t) \/ BeginAcquireFailed(t) \/ BeginFailed(t) \/ Enter(t)
  <2>1. UNCHANGED engine /\ \A u \in Task : Beginning(u)' => Beginning(u)
    BY <1>0, <1>2 DEF BeginAcquired, BeginAcquireFailed, BeginFailed, Enter, Reject, Beginning, Runner
  <2>2. Soft
    BY <2>1, SoftSteps DEF engine
  <2>3. CloserLeaves' /\ (\A s \in Slot : JobLeaves(s)') /\ \A u \in Task : AlarmLeaves(u)'
    BY <1>1, <2>2, SoftKeeps
  <2>4. \A u \in Task : RunLeaves(u)'
    <3>1. RunLeaves(t)'
      BY <1>1 DEF RunLeaves
    <3> QED
      BY <1>1, <2>2, <3>1, SoftKeeps
  <2>5. \A u \in Task : Beginning(u)' => Leaverless(u)'
    BY <1>1, <2>1 DEF LeaveInv, Leaverless
  <2>6. RegLabels'
    BY <2>1 DEF LeaveInv, RegLabels, Registered, engine
  <2>7. OutPart'
    <3>1. run[t].at # "idle" /\ (result'[t] = result[t] \/ (result'[t] = "rejected" /\ run'[t].at = "idle"))
      BY <1>0, <1>2 DEF BeginAcquired, BeginAcquireFailed, BeginFailed, Enter, Reject
    <3> QED
      BY <1>1, <2>1, <3>1 DEF LeaveInv, OutPart, engine
  <2> QED
    BY <2>3, <2>4, <2>5, <2>6, <2>7 DEF LeaveInv
<1>3. ASSUME Leaverless(t), \A u \in Task \ {t} : tx'[u] = tx[u], RegLabels',
             \A u \in Task : Beginning(u)' => u = t \/ Beginning(u),
             tx'[t].state # "COMMITTED", result'[t] = "none"
      PROVE  LeaveInv'
  <2>1. \A u \in Task : RunLeaves(u)' /\ AlarmLeaves(u)'
    BY <1>1, <1>3 DEF LeaveInv, RunLeaves, AlarmLeaves, Leaverless
  <2>2. CloserLeaves'
    <3>1. closer.at = "ROLLBACK" => closer.rec \in Task \ {t}
      BY <1>3 DEF TxInv, WatchPart, Leaverless
    <3> QED
      BY <1>1, <1>3, <3>1 DEF LeaveInv, CloserLeaves
  <2>3. \A s \in Slot : JobLeaves(s)'
    BY <1>1, <1>3 DEF LeaveInv, JobLeaves, Leaverless
  <2>4. \A u \in Task : Beginning(u)' => Leaverless(u)'
    BY <1>1, <1>3 DEF LeaveInv, Leaverless
  <2>5. OutPart'
    BY <1>1, <1>3 DEF LeaveInv, OutPart
  <2> QED
    BY <1>3, <2>1, <2>2, <2>3, <2>4, <2>5 DEF LeaveInv
<1>4. CASE Begin(t)
  <2>1. Leaverless(t)
    BY <1>4 DEF Begin, Forgotten, Leaverless, Rest
  <2>2. RegLabels'
    BY <1>4 DEF Begin, LeaveInv, RegLabels, Registered
  <2>3. tx' = [tx EXCEPT ![t] = Unused] /\ result' = [result EXCEPT ![t] = "none"]
    BY <1>4 DEF Begin
  <2> QED
    BY <1>0, <1>1, <1>3, <2>1, <2>2, <2>3 DEF Beginning
<1>5. CASE BeginDone(t)
  <2>1. Leaverless(t)
    BY <1>5 DEF BeginDone, Beginning, LeaveInv
  <2>2. RegLabels'
    <3>1. transactions' = [transactions EXCEPT ![Label[t]] = t]
      BY <1>5 DEF BeginDone
    <3> QED
      BY <1>0, <3>1 DEF LeaveInv, RegLabels, Registered
  <2>3. /\ \A u \in Task \ {t} : tx'[u] = tx[u]
        /\ tx'[t].state = "ACTIVE"
    BY <1>0, <1>5 DEF BeginDone, Unused
  <2>4. result'[t] = "none"
    BY <1>5 DEF BeginDone, LeaveInv, OutPart
  <2>5. \A u \in Task : Beginning(u)' => u = t \/ Beginning(u)
    BY <1>1 DEF Beginning
  <2> QED
    BY <1>3, <2>1, <2>2, <2>3, <2>4, <2>5
<1> QED
  BY <1>2, <1>4, <1>5

\* The record a task's own id has is the task's, when it is active.
LEMMA OwnActive ==
    ASSUME TxInv, BeginPart, LeaveInv, LabelsApart, NEW t \in Task, Active(Label[t])
    PROVE  transactions[Label[t]] = t /\ ~Beginning(t) /\ tx[t].state = "ACTIVE" /\ Label[t] \in Name
BY OwnRecord, LabelAssumption DEF Active, LeaveInv

\* transaction(fn) after its body.
LEMMA EndLeaves ==
    ASSUME TxInv, BeginPart, LeaveInv, LabelsApart, NEW t \in Task,
           \/ Resolve(t) \/ CommitDone(t) \/ CommitFailed(t) \/ Throw(t) \/ ThrowRolledBack(t)
    PROVE  LeaveInv'
<1>0. /\ run \in [Task -> Runner] /\ tx \in [Task -> Record] /\ Rest.at = "idle"
      /\ result \in [Task -> {"none", "resolved", "rejected"}]
      /\ {"COMMITTING", "COMMITTED", "ROLLING_BACK", "ROLLBACK"} \subseteq TxState
      /\ Label[t] \in Name
  BY LabelAssumption DEF TxInv, RunPart, RegPart, Rest, TxState
<1>1. /\ UNCHANGED <<job, alarm, closer>>
      /\ \A u \in Task \ {t} : run'[u] = run[u] /\ result'[u] = result[u]
      /\ run[t].at \in {"body", "COMMIT", "ROLLBACK"}
  BY <1>0 DEF Resolve, CommitDone, CommitFailed, Throw, ThrowRolledBack, Reject, Runner
<1>2. RegLabels'
  <2>1. TaskLeaves(t)
    BY DEF TaskLeaves
  <2>2. \/ UNCHANGED <<transactions, lent, dead>>
        \/ \E n \in Name, b \in BOOLEAN : ReleaseClient(n, b)
    BY <2>1, LeaversRelease
  <2>3. Shrinks
    BY <2>2, Releases, Effects DEF TxInv
  <2> QED
    BY <2>3, LabelsKept DEF LeaveInv
<1>3. \A u \in Task : Beginning(u)' => Leaverless(u)'
  <2>1. TaskLeaves(t)
    BY DEF TaskLeaves
  <2>2. \A u \in Task : Beginning(u)' => Beginning(u)
    BY <2>1, LeaversHoldNothing
  <2> QED
    BY <1>1, <2>2 DEF LeaveInv, Leaverless
<1>4. ASSUME Soft, RunLeaves(t)',
             result'[t] = result[t] \/ (result'[t] = "rejected" /\ run'[t].at = "idle")
      PROVE  LeaveInv'
  <2>1. /\ CloserLeaves' /\ \A s \in Slot : JobLeaves(s)'
        /\ \A u \in Task : RunLeaves(u)' /\ AlarmLeaves(u)'
    BY <1>1, <1>4, SoftKeeps
  <2>2. OutPart'
    BY <1>1, <1>4, SoftKeeps DEF LeaveInv, OutPart
  <2> QED
    BY <1>2, <1>3, <2>1, <2>2 DEF LeaveInv
<1>5. ASSUME Soft, Reject(t) PROVE LeaveInv'
  <2>1. run'[t].at = "idle" /\ result'[t] = "rejected"
    BY <1>0, <1>5 DEF Reject
  <2>2. RunLeaves(t)'
    BY <2>1 DEF RunLeaves
  <2> QED
    BY <1>4, <1>5, <2>1, <2>2
<1>6. ASSUME NEW a \in {"COMMIT", "ROLLBACK"}, NEW x \in {"COMMITTING", "ROLLING_BACK"},
             (a = "COMMIT") <=> (x = "COMMITTING"),
             Active(Label[t]), tx' = Leaving(Label[t], x), UNCHANGED result,
             LET r == transactions[Label[t]]
             IN run' = [run EXCEPT ![t] = [at |-> a, on |-> tx[r].client, rec |-> r]]
      PROVE  LeaveInv'
  <2>1. Moved(tx, tx', t, x) /\ tx[t].state = "ACTIVE"
        /\ run' = [run EXCEPT ![t] = [at |-> a, on |-> tx[t].client, rec |-> t]]
    BY <1>0, <1>6, OwnActive, LeavingMoves
  <2>2. Soft
    BY <2>1, SoftSteps
  <2>3. RunLeaves(t)'
    BY <1>0, <1>6, <2>1 DEF RunLeaves, Moved, Undone
  <2> QED
    BY <1>4, <1>6, <2>2, <2>3
<1>7. UNCHANGED tx => Soft
  BY SoftSteps
<1>8. CASE Resolve(t)
  BY <1>5, <1>6, <1>7, <1>8 DEF Resolve
<1>9. CASE Throw(t)
  BY <1>5, <1>6, <1>7, <1>9 DEF Throw
<1>10. CASE CommitFailed(t)
  BY <1>5, <1>7, <1>10 DEF CommitFailed
<1>11. CASE ThrowRolledBack(t)
  <2>1. PICK failed \in BOOLEAN : tx' = Ended(run[t].rec, "ROLLBACK", failed)
    BY <1>11 DEF ThrowRolledBack
  <2>2. run[t].rec = t /\ tx[t].state \in Undone
    BY <1>11 DEF ThrowRolledBack, LeaveInv, RunLeaves
  <2>3. Quiet(tx, tx') \/ Moved(tx, tx', t, "ROLLBACK")
    BY <1>0, <2>1, <2>2, EndedMoves
  <2>4. Soft
    BY <2>2, <2>3, SoftSteps
  <2> QED
    BY <1>5, <1>11, <2>4 DEF ThrowRolledBack
<1>12. CASE CommitDone(t)
  <2>1. run[t].rec = t /\ tx[t].state = "COMMITTING"
    BY <1>12 DEF CommitDone, LeaveInv, RunLeaves
  <2>2. Moved(tx, tx', t, "COMMITTED")
    BY <1>0, <1>12, <2>1, EndedMoves DEF CommitDone
  <2>3. /\ \A u \in Task : tx'[u].client = tx[u].client
        /\ \A u \in Task \ {t} : tx'[u].state = tx[u].state
        /\ tx'[t].state = "COMMITTED" /\ run'[t].at = "idle" /\ result'[t] = "resolved"
    BY <1>0, <1>12, <2>2 DEF Moved, CommitDone
  <2>4. \A u \in Task : RunLeaves(u)' /\ AlarmLeaves(u)'
    BY <1>1, <2>3 DEF LeaveInv, RunLeaves, AlarmLeaves
  <2>5. CloserLeaves'
    BY <1>1, <2>1, <2>3 DEF LeaveInv, CloserLeaves, TxInv, WatchPart, Undone
  <2>6. \A s \in Slot : JobLeaves(s)'
    BY <1>1, <2>1, <2>3 DEF LeaveInv, JobLeaves, Undone
  <2>7. OutPart'
    BY <1>1, <2>3 DEF LeaveInv, OutPart
  <2> QED
    BY <1>2, <1>3, <2>4, <2>5, <2>6, <2>7 DEF LeaveInv
<1> QED
  BY <1>8, <1>9, <1>10, <1>11, <1>12

\* A step of none of the transaction(fn) calls.
LEMMA Bystanders ==
    ASSUME TxInv, LeaveInv, Soft, UNCHANGED <<run, result>>, RegLabels',
           \A t \in Task : AlarmLeaves(t)', CloserLeaves', \A s \in Slot : JobLeaves(s)',
           \A t \in Task : Beginning(t) => Leaverless(t)'
    PROVE  LeaveInv'
<1>1. \A t \in Task : RunLeaves(t)'
  BY SoftKeeps
<1>2. OutPart'
  BY SoftKeeps DEF LeaveInv, OutPart
<1> QED
  BY <1>1, <1>2 DEF LeaveInv, Beginning

LEMMA AlarmSteps ==
    ASSUME TxInv, BeginPart, LeaveInv, LabelsApart, NEW t \in Task, Fire(t) \/ FireRolledBack(t)
    PROVE  LeaveInv'
<1>0. /\ tx \in [Task -> Record] /\ "TIMEOUT" \in TxState /\ alarm \in [Task -> Alarm]
      /\ Rest.at = "idle"
  BY DEF TxInv, RegPart, WatchPart, TxState, Rest
<1>1. UNCHANGED <<run, result, job, closer>>
  BY DEF Fire, FireRolledBack
<1>2. RegLabels'
  <2>1. Shrinks
    BY LeaversRelease, Releases, Effects DEF TaskLeaves, TxInv
  <2> QED
    BY <2>1, LabelsKept DEF LeaveInv
<1>3. ASSUME Soft, AlarmLeaves(t)', \A u \in Task \ {t} : alarm'[u] = alarm[u],
             alarm'[t].at = "ROLLBACK" => ~Beginning(t) \/ alarm'[t] = alarm[t]
      PROVE  LeaveInv'
  <2>1. \A u \in Task : AlarmLeaves(u)'
    BY <1>3, SoftKeeps
  <2>2. CloserLeaves' /\ \A s \in Slot : JobLeaves(s)'
    BY <1>1, <1>3, SoftKeeps
  <2>3. \A u \in Task : Beginning(u) => Leaverless(u)'
    BY <1>1, <1>3 DEF LeaveInv, Leaverless
  <2> QED
    BY <1>1, <1>2, <1>3, <2>1, <2>2, <2>3, Bystanders
<1>4. CASE Fire(t)
  <2>1. CASE tx' = [tx EXCEPT ![t].timer = FALSE] /\ UNCHANGED alarm
    <3>1. Soft
      BY <1>0, <2>1, QuietUpdates, SoftSteps
    <3>2. AlarmLeaves(t)'
      BY <2>1, <3>1, SoftKeeps
    <3> QED
      BY <1>3, <2>1, <3>1, <3>2
  <2>2. CASE /\ Active(Label[t])
             /\ tx' = [tx EXCEPT ![t].timer = FALSE, ![transactions[Label[t]]].state = "TIMEOUT"]
             /\ \/ UNCHANGED alarm
                \/ alarm' = [alarm EXCEPT ![t] = [at |-> "ROLLBACK",
                                                  on |-> tx[transactions[Label[t]]].client,
                                                  rec |-> transactions[Label[t]]]]
    <3>1. transactions[Label[t]] = t /\ ~Beginning(t) /\ tx[t].state = "ACTIVE"
      BY <2>2, OwnActive
    <3>2. Moved(tx, tx', t, "TIMEOUT")
      BY <1>0, <2>2, <3>1, StateUpdates
    <3>3. Soft
      BY <3>1, <3>2, SoftSteps
    <3>4. AlarmLeaves(t)'
      <4>1. CASE UNCHANGED alarm
        BY <3>3, <4>1, SoftKeeps
      <4>2. CASE alarm' = [alarm EXCEPT ![t] = [at |-> "ROLLBACK", on |-> tx[t].client, rec |-> t]]
        BY <1>0, <3>2, <4>2 DEF AlarmLeaves, Moved
      <4> QED
        BY <2>2, <3>1, <4>1, <4>2
    <3> QED
      BY <1>0, <1>3, <2>2, <3>1, <3>3, <3>4
  <2> QED
    BY <1>4, <2>1, <2>2 DEF Fire
<1>5. CASE FireRolledBack(t)
  <2>1. UNCHANGED tx /\ alarm' = [alarm EXCEPT ![t] = Rest]
    BY <1>5 DEF FireRolledBack
  <2>2. AlarmLeaves(t)' /\ alarm'[t].at = "idle"
    BY <1>0, <2>1 DEF AlarmLeaves
  <2> QED
    BY <1>0, <1>3, <2>1, <2>2, SoftSteps
<1> QED
  BY <1>4, <1>5

LEMMA CloserSteps ==
    ASSUME TxInv, BeginPart, LeaveInv, LabelsApart, CloserStep
    PROVE  LeaveInv'
<1>0. /\ tx \in [Task -> Record] /\ {"ROLLING_BACK", "ROLLBACK"} \subseteq TxState
      /\ closer \in Closer /\ closer.left \subseteq Name
  BY DEF TxInv, RegPart, WatchPart, TxState, Closer
<1>1. UNCHANGED <<run, result, job, alarm>>
  BY DEF CloserStep, Disconnect, DisconnectNext, DisconnectRolledBack
<1>2. RegLabels'
  <2>1. Shrinks
    BY LeaversRelease, Releases, Effects DEF TxInv
  <2> QED
    BY <2>1, LabelsKept DEF LeaveInv
<1>3. ASSUME Soft, CloserLeaves', closer'.at = "ROLLBACK" => ~Beginning(closer'.rec)
      PROVE  LeaveInv'
  <2>1. (\A u \in Task : AlarmLeaves(u)') /\ \A s \in Slot : JobLeaves(s)'
    BY <1>1, <1>3, SoftKeeps
  <2>2. \A u \in Task : Beginning(u) => Leaverless(u)'
    BY <1>1, <1>3 DEF LeaveInv, Leaverless
  <2> QED
    BY <1>1, <1>2, <1>3, <2>1, <2>2, Bystanders
<1>4. ASSUME Soft, closer'.at # "ROLLBACK" PROVE LeaveInv'
  BY <1>3, <1>4 DEF CloserLeaves
<1>5. CASE Disconnect
  BY <1>0, <1>4, <1>5, SoftSteps DEF Disconnect, engine, Closer
<1>6. CASE DisconnectNext
  <2>1. CASE UNCHANGED tx /\ closer'.at # "ROLLBACK"
    BY <1>4, <2>1, SoftSteps
  <2>2. ASSUME NEW n \in closer.left, Active(n), tx' = Leaving(n, "ROLLING_BACK"),
               closer' = [at |-> "ROLLBACK", on |-> tx[transactions[n]].client,
                          rec |-> transactions[n], left |-> closer.left \ {n}]
        PROVE  LeaveInv'
    <3>1. /\ transactions[n] \in Task /\ ~Beginning(transactions[n])
          /\ tx[transactions[n]].state = "ACTIVE"
      BY <1>0, <2>2, OwnRecord DEF Active, LeaveInv
    <3>2. Moved(tx, tx', transactions[n], "ROLLING_BACK")
      BY <1>0, <2>2, LeavingMoves
    <3>3. Soft
      BY <3>1, <3>2, SoftSteps
    <3>4. CloserLeaves' /\ ~Beginning(closer'.rec)
      BY <2>2, <3>1, <3>2 DEF CloserLeaves, Moved, Undone
    <3> QED
      BY <1>3, <3>3, <3>4
  <2>3. \/ UNCHANGED tx /\ closer'.at # "ROLLBACK"
        \/ \E n \in closer.left :
              /\ Active(n) /\ tx' = Leaving(n, "ROLLING_BACK")
              /\ closer' = [at |-> "ROLLBACK", on |-> tx[transactions[n]].client,
                            rec |-> transactions[n], left |-> closer.left \ {n}]
    BY <1>0, <1>6 DEF DisconnectNext, Closer
  <2> QED
    BY <2>1, <2>2, <2>3
<1>7. CASE DisconnectRolledBack
  <2>1. PICK failed \in BOOLEAN : tx' = Ended(closer.rec, "ROLLBACK", failed)
    BY <1>7 DEF DisconnectRolledBack
  <2>2. closer.rec \in Task /\ tx[closer.rec].state \in Undone
    BY <1>7 DEF DisconnectRolledBack, TxInv, WatchPart, LeaveInv, CloserLeaves
  <2>3. Quiet(tx, tx') \/ Moved(tx, tx', closer.rec, "ROLLBACK")
    BY <1>0, <2>1, EndedMoves
  <2>4. Soft
    BY <2>2, <2>3, SoftSteps
  <2>5. closer'.at = "next"
    BY <1>0, <1>7 DEF DisconnectRolledBack, Closer
  <2> QED
    BY <1>4, <2>4, <2>5
<1> QED
  BY <1>5, <1>6, <1>7 DEF CloserStep

LEMMA AutoRolledBackLeaves ==
    ASSUME TxInv, LeaveInv, NEW s \in Slot, AutoRolledBack(s)
    PROVE  LeaveInv'
<1>0. /\ tx \in [Task -> Record] /\ {"ROLLING_BACK", "ROLLBACK"} \subseteq TxState
      /\ Idle.at = "idle" /\ UNCHANGED <<run, result, alarm, closer>>
      /\ \A q \in Slot : job'[q] = IF q = s THEN Idle ELSE job[q]
  BY IdleJob DEF AutoRolledBack, TxInv, RegPart, JobPart, TxState
<1>1. RegLabels'
  <2>1. Shrinks
    BY LeaversRelease, Releases, Effects DEF TxInv
  <2> QED
    BY <2>1, LabelsKept DEF LeaveInv
<1>2. PICK failed \in BOOLEAN : tx' = FreeTurn(Ended(job[s].rec, "ROLLBACK", failed), s)
  BY DEF AutoRolledBack
<1>3. job[s].rec \in Task /\ tx[job[s].rec].state \in Undone
  BY DEF AutoRolledBack, InTransaction, LeaveInv, JobLeaves
<1>4. Soft
  <2> DEFINE f == Ended(job[s].rec, "ROLLBACK", failed)
  <2>1. Quiet(tx, f) \/ Moved(tx, f, job[s].rec, "ROLLBACK")
    BY <1>0, EndedMoves
  <2>2. tx' = [f EXCEPT ![job[s].turn].busy = FALSE]
    BY <1>2 DEF FreeTurn
  <2> HIDE DEF f
  <2>3. Quiet(f, tx')
    <3>1. f \in [Task -> Record]
      BY <2>1 DEF Quiet, Moved
    <3> QED
      BY <2>2, <3>1, QuietUpdates
  <2>4. Quiet(tx, tx') \/ Moved(tx, tx', job[s].rec, "ROLLBACK")
    BY <2>1, <2>3 DEF Quiet, Moved
  <2> QED
    BY <1>3, <2>4, SoftSteps
<1>5. \A q \in Slot : JobLeaves(q)'
  <2>1. JobLeaves(s)'
    BY <1>0 DEF JobLeaves
  <2> QED
    BY <1>0, <1>4, <2>1, SoftKeeps
<1>6. CloserLeaves' /\ \A t \in Task : AlarmLeaves(t)'
  BY <1>0, <1>4, SoftKeeps
<1>7. \A t \in Task : Beginning(t) => Leaverless(t)'
  BY <1>0 DEF LeaveInv, Leaverless
<1> QED
  BY <1>0, <1>1, <1>4, <1>5, <1>6, <1>7, Bystanders

LEMMA LeaveInit == Init => LeaveInv
BY IdleJob DEF Init, LeaveInv, RegLabels, Registered, RunLeaves, AlarmLeaves, Beginning, CloserLeaves,
               JobLeaves, OutPart, Rest, Unused

LEMMA LeaveStep ==
    ASSUME TxInv, BeginPart, LeaveInv, LabelsApart, [Next]_vars
    PROVE  LeaveInv'
<1>1. CASE UNCHANGED vars
  <2>1. UNCHANGED <<transactions, tx, run, result, job, alarm, closer>>
    BY <1>1 DEF vars, engine, calls
  <2>2. Soft
    BY <2>1, SoftSteps
  <2>3. RegLabels' /\ \A t \in Task : Beginning(t) => Leaverless(t)'
    BY <2>1 DEF LeaveInv, RegLabels, Registered, Leaverless
  <2>4. CloserLeaves' /\ (\A t \in Task : AlarmLeaves(t)') /\ \A s \in Slot : JobLeaves(s)'
    BY <2>1, <2>2, SoftKeeps
  <2> QED
    BY <2>1, <2>2, <2>3, <2>4, Bystanders
<1>2. ASSUME NEW t \in Task,
             \/ Begin(t) \/ BeginAcquired(t) \/ BeginAcquireFailed(t)
             \/ BeginFailed(t) \/ BeginDone(t) \/ Enter(t)
             \/ Resolve(t) \/ CommitDone(t) \/ CommitFailed(t)
             \/ Throw(t) \/ ThrowRolledBack(t)
             \/ Fire(t) \/ FireRolledBack(t)
      PROVE  LeaveInv'
  BY <1>2, BeginLeaves, EndLeaves, AlarmSteps
<1>3. CASE Disconnect \/ DisconnectNext \/ DisconnectRolledBack
  BY <1>3, CloserSteps DEF CloserStep
<1>4. ASSUME NEW s \in Slot,
             \/ \E p \in Task \cup Slot : Execute(s, p) \/ OpenBlock(s, p)
             \/ StatementDone(s) \/ StatementFailed(s) \/ AutoRollbackToDone(s)
             \/ AutoRollbackToFailed(s)
             \/ OpenBlockDone(s) \/ OpenBlockFailed(s) \/ EnterBlock(s)
             \/ BlockThrows(s) \/ BlockUnwound(s) \/ BlockReleases(s) \/ BlockReleased(s)
      PROVE  LeaveInv'
  BY <1>4, ExecuteStep, OpenBlockStep, StatementSteps, BlockSteps, TurnLeaves
<1>5. ASSUME NEW s \in Slot,
             \/ AutoRolledBack(s) \/ Query(s) \/ QueryAcquired(s) \/ QueryAcquireFailed(s)
             \/ QueryDone(s) \/ QueryFailed(s) \/ QueryValidated(s)
      PROVE  LeaveInv'
  BY <1>5, QuerySteps, QueryLeaves, AutoRolledBackLeaves
<1> QED
  BY <1>1, <1>2, <1>3, <1>4, <1>5 DEF Next

\* "a resolved transaction(fn) always means the work committed", and a
\* rejected one that it did not, when every task has an id of its own: the
\* timeout, disconnect and a statement's automatic roll back end only the
\* transaction they started to end.
THEOREM OutcomeHonestHolds ==
    ASSUME LabelsApart
    PROVE  Spec => []OutcomeHonest
<1>1. Init => LeaveInv
  BY LeaveInit
<1>2. TxProof /\ LeaveInv /\ [Next]_vars => LeaveInv'
  BY LeaveStep DEF TxProof
<1>3. LeaveInv => OutcomeHonest
  BY DEF LeaveInv, OutPart, OutcomeHonest
<1>4. Spec => []TxProof
  BY TxProofHolds
<1> QED
  BY <1>1, <1>2, <1>3, <1>4, PTL DEF Spec

-----------------------------------------------------------------------------
(* What a connection goes back with.                                       *)

\* A transaction open on the server is that of a registered record, or its
\* connection is destroyed.
OpenInv == \A c \in open : c \in dead \/ \E n \in Name : RecHold(n) = c

LEMMA OpenKept ==
    ASSUME TxInv, OpenInv, UNCHANGED transactions, open' \subseteq open,
           \A c \in open' : c \in dead => c \in dead',
           \A n \in Name : Registered(n) => tx'[transactions[n]].client = tx[transactions[n]].client
    PROVE  OpenInv'
<1>1. \A n \in Name : RecHold(n)' = RecHold(n)
  BY DEF RecHold, Registered
<1> QED
  BY <1>1 DEF OpenInv

LEMMA OpenReleased ==
    ASSUME TxInv, OpenInv, KeepsClients, NEW n \in Name, NEW b, ReleaseClient(n, b),
           open' \subseteq open,
           b \/ ~Registered(n) \/ tx[transactions[n]].client \notin open'
    PROVE  OpenInv'
<1>0. /\ \A m \in Name : Registered(m) => transactions[m] \in Task
      /\ \A c \in open : c # None
  BY NoneAssumption DEF TxInv, RegPart, WirePart, Registered, OneOf
<1>1. CASE ~Registered(n)
  BY <1>0, <1>1, OpenKept DEF ReleaseClient, KeepsClients
<1>2. CASE Registered(n)
  <2> DEFINE c == tx[transactions[n]].client
  <2>1. /\ transactions' = [transactions EXCEPT ![n] = None]
        /\ dead \subseteq dead' /\ (b => c \in dead')
    BY <1>2 DEF ReleaseClient, Returned, Destroyed
  <2>2. \A m \in Name \ {n} : RecHold(m)' = RecHold(m)
    BY <1>0, <2>1 DEF RecHold, Registered, KeepsClients, TxInv, RegPart
  <2>3. RecHold(n) = c
    BY <1>2 DEF RecHold
  <2> HIDE DEF c
  <2>4. ASSUME NEW d \in open' PROVE d \in dead' \/ \E m \in Name : RecHold(m)' = d
    <3>1. CASE d \in dead
      BY <2>1, <3>1
    <3>2. CASE d \notin dead
      <4>1. PICK m \in Name : RecHold(m) = d
        BY <2>4, <3>2 DEF OpenInv
      <4>2. CASE m = n
        BY <1>2, <2>1, <2>3, <4>1, <4>2 DEF c
      <4>3. CASE m # n
        BY <2>2, <4>1, <4>3
      <4> QED
        BY <4>2, <4>3
    <3> QED
      BY <3>1, <3>2
  <2> QED
    BY <2>4 DEF OpenInv
<1> QED
  BY <1>1, <1>2

\* A ROLLBACK that settles for the record its id has.
LEMMA OpenSettles ==
    ASSUME TxInv, OpenInv, KeepsClients, NEW n \in Name, NEW c, NEW failed \in BOOLEAN,
           RollbackSettles(n, c, failed), Registered(n) => tx[transactions[n]].client = c
    PROVE  OpenInv'
<1>1. ReleaseClient(n, failed) /\ open' \subseteq open /\ (failed \/ c \notin open')
  BY DEF RollbackSettles, ServerKeeps, ServerEnds
<1> QED
  BY <1>1, OpenReleased

LEMMA OpenBegin ==
    ASSUME TxInv, OpenInv, BeginPart, NEW t \in Task,
           \/ Begin(t) \/ BeginAcquired(t) \/ BeginAcquireFailed(t) \/ BeginFailed(t)
           \/ BeginDone(t) \/ Enter(t)
    PROVE  OpenInv'
<1>1. ASSUME UNCHANGED <<transactions, tx>>, open' \subseteq open,
             \A c \in open' : c \in dead => c \in dead'
      PROVE  OpenInv'
  BY <1>1, OpenKept
<1>2. CASE Begin(t)
  <2>1. \A n \in Name : transactions[n] # t /\ (Registered(n) => transactions[n] \in Task)
    BY <1>2 DEF Begin, Forgotten, TxInv, RegPart, Registered, OneOf
  <2>2. \A n \in Name : Registered(n) => tx'[transactions[n]].client = tx[transactions[n]].client
    BY <1>2, <2>1 DEF Begin, TxInv, RegPart
  <2> QED
    BY <1>2, <2>2, OpenKept DEF Begin, wires
<1>3. CASE BeginAcquired(t)
  <2>1. PICK c \in Conn : Lend(c)
    BY <1>3 DEF BeginAcquired
  <2>2. open' \subseteq open /\ \A d \in open' : d \in dead => d \in dead'
    BY <2>1 DEF Lend
  <2> QED
    BY <1>1, <1>3, <2>2 DEF BeginAcquired, engine
<1>4. CASE BeginFailed(t)
  BY <1>1, <1>4 DEF BeginFailed, Returned, engine
<1>5. CASE BeginAcquireFailed(t) \/ Enter(t)
  BY <1>1, <1>5 DEF BeginAcquireFailed, Enter, engine, wires
<1>6. CASE BeginDone(t)
  <2>1. /\ transactions' = [transactions EXCEPT ![Label[t]] = t] /\ Label[t] \in Name
        /\ \A u \in Task \ {t} : tx'[u] = tx[u]
        /\ tx'[t].client = run[t].on /\ t # None
        /\ open' = open \cup {run[t].on} /\ UNCHANGED dead
    BY <1>6, NoneAssumption, LabelAssumption DEF BeginDone, TxInv, RegPart, Unused
  <2>2. /\ ~Registered(Label[t])
        /\ \A n \in Name : Registered(n) => transactions[n] \in Task /\ transactions[n] # t
    BY <1>6 DEF BeginDone, BeginPart, Beginning, TxInv, RegPart, Registered, OneOf
  <2>3. \A n \in Name \ {Label[t]} : RecHold(n)' = RecHold(n)
    BY <2>1, <2>2 DEF RecHold, Registered, TxInv, RegPart
  <2>4. RecHold(Label[t]) = None /\ RecHold(Label[t])' = run[t].on
    BY <2>1, <2>2 DEF RecHold, Registered, TxInv, RegPart
  <2>5. \A c \in open : c # None
    BY NoneAssumption DEF TxInv, WirePart
  <2> QED
    BY <2>1, <2>3, <2>4, <2>5 DEF OpenInv
<1> QED
  BY <1>2, <1>3, <1>4, <1>5, <1>6

LEMMA OpenLeaving ==
    ASSUME TxInv, OpenInv, BeginPart, LeaveInv, LabelsApart, ~CommitSticks,
           \/ \E t \in Task : TaskLeaves(t)
           \/ CloserStep
           \/ \E s \in Slot : AutoRolledBack(s)
    PROVE  OpenInv'
<1>0. /\ KeepsClients
      /\ \A t \in Task : /\ Label[t] \in Name
                         /\ Registered(Label[t]) => transactions[Label[t]] = t
  BY ClientsStay, OwnRecord, LabelAssumption DEF LeaveInv
<1>1. ASSUME UNCHANGED <<transactions, dead, open>> PROVE OpenInv'
  <2>1. \A n \in Name : Registered(n) => transactions[n] \in Task
    BY DEF TxInv, RegPart, Registered, OneOf
  <2> QED
    BY <1>0, <1>1, <2>1, OpenKept DEF KeepsClients
<1>2. ASSUME NEW t \in Task, Resolve(t) \/ Throw(t) PROVE OpenInv'
  BY <1>1, <1>2 DEF Resolve, Throw, wires
<1>3. ASSUME NEW t \in Task, CommitDone(t) \/ CommitFailed(t) PROVE OpenInv'
  <2>1. run[t].at = "COMMIT" /\ run[t].on = tx[t].client
    BY <1>3 DEF CommitDone, CommitFailed, LeaveInv, RunLeaves
  <2>2. ReleaseClient(Label[t], FALSE) /\ open' = open \ {run[t].on}
    BY <1>3 DEF CommitDone, CommitFailed, ServerEnds
  <2> QED
    BY <1>0, <2>1, <2>2, OpenReleased
<1>4. ASSUME NEW t \in Task, ThrowRolledBack(t) PROVE OpenInv'
  <2>1. run[t].on = tx[t].client
    BY <1>4 DEF ThrowRolledBack, LeaveInv, RunLeaves
  <2> QED
    BY <1>0, <1>4, <2>1, OpenSettles DEF ThrowRolledBack
<1>5. ASSUME NEW t \in Task, Fire(t) PROVE OpenInv'
  BY <1>0, <1>1, <1>5, OpenReleased DEF Fire
<1>6. ASSUME NEW t \in Task, FireRolledBack(t) PROVE OpenInv'
  <2>1. alarm[t].on = tx[t].client
    BY <1>6 DEF FireRolledBack, LeaveInv, AlarmLeaves
  <2> QED
    BY <1>0, <1>6, <2>1, OpenSettles DEF FireRolledBack
<1>7. CASE Disconnect \/ DisconnectNext
  BY <1>1, <1>7 DEF Disconnect, DisconnectNext, engine, wires
<1>8. CASE DisconnectRolledBack
  <2>1. closer.on = tx[closer.rec].client /\ closer.rec \in Task
    BY <1>8 DEF DisconnectRolledBack, LeaveInv, CloserLeaves, TxInv, WatchPart
  <2> QED
    BY <1>0, <1>8, <2>1, OpenSettles DEF DisconnectRolledBack
<1>9. ASSUME NEW s \in Slot, AutoRolledBack(s) PROVE OpenInv'
  <2>1. job[s].by \in Task /\ job[s].on = tx[job[s].by].client
    BY <1>9 DEF AutoRolledBack, InTransaction, LeaveInv, JobLeaves
  <2> QED
    BY <1>0, <1>9, <2>1, OpenSettles DEF AutoRolledBack
<1> QED
  BY <1>2, <1>3, <1>4, <1>5, <1>6, <1>7, <1>8, <1>9 DEF TaskLeaves, CloserStep

LEMMA OpenTurn == ASSUME TxInv, OpenInv, NEW s \in Slot, TurnStep(s) PROVE OpenInv'
<1>1. KeepsClients
  BY Effects DEF TurnStep, TxInv
<1>2. \A n \in Name : Registered(n) => transactions[n] \in Task
  BY DEF TxInv, RegPart, Registered, OneOf
<1> QED
  BY <1>1, <1>2, OpenKept DEF TurnStep, KeepsClients

LEMMA OpenQuery == ASSUME TxInv, OpenInv, NEW s \in Slot, QueryStep(s) PROVE OpenInv'
<1>1. PICK e \in Job :
          \/ UNCHANGED <<lent, dead, open>>
          \/ Lend(e.on)
          \/ UNCHANGED open /\ (Returned(job[s].on) \/ Destroyed(job[s].on))
  BY DEF QueryStep
<1>2. open' \subseteq open /\ \A c \in open' : c \in dead => c \in dead'
  BY <1>1 DEF Lend, Returned, Destroyed
<1> QED
  BY <1>2, OpenKept DEF QueryStep

LEMMA OpenStep ==
    ASSUME TxInv, OpenInv, BeginPart, LeaveInv, LabelsApart, ~CommitSticks, [Next]_vars
    PROVE  OpenInv'
<1>1. CASE UNCHANGED vars
  BY <1>1, OpenKept DEF vars, engine, wires
<1>2. ASSUME NEW t \in Task,
             \/ Begin(t) \/ BeginAcquired(t) \/ BeginAcquireFailed(t)
             \/ BeginFailed(t) \/ BeginDone(t) \/ Enter(t)
      PROVE  OpenInv'
  BY <1>2, OpenBegin
<1>3. ASSUME \/ \E t \in Task : TaskLeaves(t)
             \/ CloserStep
             \/ \E s \in Slot : AutoRolledBack(s)
      PROVE  OpenInv'
  BY <1>3, OpenLeaving
<1>4. ASSUME NEW s \in Slot,
             \/ \E p \in Task \cup Slot : Execute(s, p) \/ OpenBlock(s, p)
             \/ StatementDone(s) \/ StatementFailed(s) \/ AutoRollbackToDone(s)
             \/ AutoRollbackToFailed(s)
             \/ OpenBlockDone(s) \/ OpenBlockFailed(s) \/ EnterBlock(s)
             \/ BlockThrows(s) \/ BlockUnwound(s) \/ BlockReleases(s) \/ BlockReleased(s)
      PROVE  OpenInv'
  BY <1>4, ExecuteStep, OpenBlockStep, StatementSteps, BlockSteps, OpenTurn
<1>5. ASSUME NEW s \in Slot,
             \/ Query(s) \/ QueryAcquired(s) \/ QueryAcquireFailed(s)
             \/ QueryDone(s) \/ QueryFailed(s) \/ QueryValidated(s)
      PROVE  OpenInv'
  BY <1>5, QuerySteps, OpenQuery
<1> QED
  BY <1>1, <1>2, <1>3, <1>4, <1>5 DEF Next, TaskLeaves, CloserStep

\* No connection goes back to the pool with a transaction open on the
\* server, when every task has an id of its own and a failed COMMIT ends the
\* transaction: whoever ends a transaction ends it on the connection of the
\* record it then releases, and one whose ROLLBACK failed is destroyed.
THEOREM CleanHandoverHolds ==
    ASSUME LabelsApart, ~CommitSticks
    PROVE  Spec => []CleanHandover
<1>1. Init => LeaveInv /\ OpenInv
  BY LeaveInit DEF Init, OpenInv
<1>2. TxProof /\ LeaveInv /\ OpenInv /\ [Next]_vars => (LeaveInv /\ OpenInv)'
  BY LeaveStep, OpenStep DEF TxProof
<1>3. TxProof /\ OpenInv => CleanHandover
  <2> SUFFICES ASSUME HoldInv, OpenInv, NEW c \in Conn \ (lent \cup dead), c \in open
               PROVE  FALSE
    BY DEF TxProof, CleanHandover
  <2>1. PICK n \in Name : RecHold(n) = c
    BY DEF OpenInv
  <2>2. c # None /\ <<"record", n>> \in Holder /\ hold[<<"record", n>>] = c
    BY <2>1, HoldParts, NoneAssumption
  <2> QED
    BY <2>2 DEF HoldInv, OneHolder
<1>4. Spec => []TxProof
  BY TxProofHolds
<1> QED
  BY <1>1, <1>2, <1>3, <1>4, PTL DEF Spec

-----------------------------------------------------------------------------
(* One request at a time.                                                  *)

\* The calls under way in t's transaction are nested: q[1] was made by its
\* callback, each other one by the callback of the block before it.
Stacked(t, n, q) ==
    /\ \A i, j \in 1 .. n : q[i] = q[j] => i = j
    /\ \A s \in Slot : job[s].by = t <=> \E i \in 1 .. n : q[i] = s
    /\ \A i \in 1 .. n : job[q[i]].from = IF i = 1 THEN t ELSE q[i - 1]
    /\ \A i \in 1 .. n : i < n => job[q[i]].at = "block"

StackPart == \A t \in Task : \E n \in Nat : \E q \in [1 .. n -> Slot] : Stacked(t, n, q)

Callless(t) == \A s \in Slot : job[s].by # t
Working(s) == job[s].at \in Wire /\ job[s].by \in Task

\* Who has sent a request of a transaction that has not been answered: a call
\* in it, which holds the turn; its transaction(fn), with no call left; or its
\* timeout, with none at work.  The record is still registered, or its
\* connection is destroyed.
JobSends(s) ==
    /\ Working(s) =>
          /\ job[s].turn = job[s].by /\ tx[job[s].by].busy /\ job[s].on = tx[job[s].by].client
          /\ transactions[Label[job[s].by]] = job[s].by \/ job[s].on \in dead
    /\ job[s].at \in Wire => job[s].by \in Task \/ job[s].at \in {"statement", "validate"}
RunSends(t) ==
    run[t].at \in {"COMMIT", "ROLLBACK"} => Callless(t) /\ transactions[Label[t]] = t
AlarmSends(t) ==
    alarm[t].at = "ROLLBACK" => /\ tx[t].state = "TIMEOUT" /\ transactions[Label[t]] = t
                                /\ \A s \in Slot : Working(s) => job[s].by # t

SendInv == /\ StackPart
           /\ \A s \in Slot : JobSends(s)
           /\ \A t \in Task : RunSends(t) /\ AlarmSends(t) /\ (Beginning(t) => Callless(t))
           /\ closer.at = "idle"

\* A callback that has no call of its own in progress has none nested in it.
LEMMA SettledIsCallless ==
    ASSUME StackPart, NEW t \in Task, Settled(t)
    PROVE  Callless(t)
<1>1. PICK n \in Nat : \E q \in [1 .. n -> Slot] : Stacked(t, n, q)
  BY DEF StackPart
<1>2. PICK q \in [1 .. n -> Slot] : Stacked(t, n, q)
  BY <1>1
<1>3. n = 0
  <2> SUFFICES ASSUME n # 0 PROVE FALSE
    OBVIOUS
  <2>1. 1 \in 1 .. n
    OBVIOUS
  <2>2. job[q[1]].from = t /\ q[1] \in Slot
    BY <1>2, <2>1 DEF Stacked
  <2> QED
    BY <2>2 DEF Settled
<1> QED
  BY <1>2, <1>3 DEF Stacked, Callless

\* The step of slot s that begins, goes on with or ends a call in t's
\* transaction: only the innermost call moves.
Nests(s, t, e) ==
    \/ /\ job[s] = Idle /\ e.by = t /\ Settled(e.from)
       /\ \/ e.from = t
          \/ e.from \in Slot /\ job[e.from].by = t /\ job[e.from].at = "block"
    \/ /\ job[s].by = t
       /\ job[s].at # "block" \/ Settled(s)
       /\ e = Idle \/ (e.by = t /\ e.from = job[s].from)

\* Every other call in t's transaction awaits the calls of its block.
LEMMA OthersInBlocks ==
    ASSUME TxInv, StackPart, NEW s \in Slot, NEW t \in Task, NEW e, Nests(s, t, e),
           NEW x \in Slot, x # s, job[x].by = t
    PROVE  job[x].at = "block"
<1>1. PICK n \in Nat : \E q \in [1 .. n -> Slot] : Stacked(t, n, q)
  BY DEF StackPart
<1>2. PICK q \in [1 .. n -> Slot] : Stacked(t, n, q)
  BY <1>1
<1>3. PICK i \in 1 .. n : q[i] = x
  BY <1>2 DEF Stacked
<1>4. i < n => job[x].at = "block"
  BY <1>2, <1>3 DEF Stacked
<1>5. n >= 1 /\ 1 \in 1 .. n /\ q[1] \in Slot /\ job[q[1]].from = t
  BY <1>2 DEF Stacked
<1>6. \A p \in Slot : job[p].by = t /\ (job[p].at # "block" \/ Settled(p)) => q[n] = p
  <2> SUFFICES ASSUME NEW p \in Slot, job[p].by = t, job[p].at # "block" \/ Settled(p) PROVE q[n] = p
    OBVIOUS
  <2>1. PICK j \in 1 .. n : q[j] = p
    BY <1>2 DEF Stacked
  <2>2. ASSUME j < n PROVE FALSE
    <3>1. job[p].at = "block" /\ j + 1 \in 1 .. n /\ j + 1 # 1 /\ j + 1 - 1 = j
      BY <1>2, <2>1, <2>2 DEF Stacked
    <3>2. q[j + 1] \in Slot /\ job[q[j + 1]].from = p
      BY <1>2, <2>1, <3>1 DEF Stacked
    <3> QED
      BY <3>1, <3>2 DEF Settled
  <2> QED
    BY <2>1, <2>2
<1>7. CASE /\ job[s] = Idle /\ Settled(e.from)
           /\ \/ e.from = t
              \/ e.from \in Slot /\ job[e.from].by = t /\ job[e.from].at = "block"
  <2>1. e.from # t
    BY <1>5, <1>7 DEF Settled
  <2>2. e.from \in Slot /\ q[n] = e.from /\ job[e.from].at = "block"
    BY <1>6, <1>7, <2>1
  <2> QED
    BY <1>3, <1>4, <2>2
<1>8. CASE job[s].by = t /\ (job[s].at # "block" \/ Settled(s))
  BY <1>3, <1>4, <1>6, <1>8
<1> QED
  BY <1>7, <1>8 DEF Nests

LEMMA StackStep ==
    ASSUME TxInv, StackPart, NEW s \in Slot, NEW t \in Task, NEW e, Nests(s, t, e),
           job' = [job EXCEPT ![s] = e]
    PROVE  StackPart'
<1>0. /\ \A x \in Slot : job'[x] = IF x = s THEN e ELSE job[x]
      /\ Idle.by = None /\ \A u \in Task : u # None
  BY IdleJob, NoneAssumption DEF TxInv, JobPart
<1>1. ASSUME NEW u \in Task, u # t PROVE \E n \in Nat : \E q \in [1 .. n -> Slot] : Stacked(u, n, q)'
  <2>1. PICK n \in Nat : \E q \in [1 .. n -> Slot] : Stacked(u, n, q)
    BY DEF StackPart
  <2>2. PICK q \in [1 .. n -> Slot] : Stacked(u, n, q)
    BY <2>1
  <2>3. job[s].by # u /\ e.by # u
    BY <1>0, <1>1 DEF Nests
  <2>4. \A i \in 1 .. n : q[i] # s /\ q[i] \in Slot
    BY <2>2, <2>3 DEF Stacked
  <2>5. Stacked(u, n, q)'
    BY <1>0, <2>2, <2>3, <2>4 DEF Stacked
  <2> QED
    BY <2>5
<1>2. PICK n \in Nat : \E q \in [1 .. n -> Slot] : Stacked(t, n, q)
  BY DEF StackPart
<1>3. PICK q \in [1 .. n -> Slot] : Stacked(t, n, q)
  BY <1>2
<1>4. \A i \in 1 .. n : q[i] \in Slot /\ (q[i] # s => job[q[i]].at = "block")
  BY <1>3, OthersInBlocks DEF Stacked
<1>5. ASSUME job[s] = Idle, e.by = t, Settled(e.from),
             \/ e.from = t
             \/ e.from \in Slot /\ job[e.from].by = t /\ job[e.from].at = "block"
      PROVE  \E j \in Nat : \E r \in [1 .. j -> Slot] : Stacked(t, j, r)'
  <2> DEFINE m == n + 1
             r == [i \in 1 .. m |-> IF i = m THEN s ELSE q[i]]
  <2>1. \A i \in 1 .. n : q[i] # s
    BY <1>0, <1>3, <1>5 DEF Stacked
  <2>2. \A i \in 1 .. m : (i = m /\ r[i] = s) \/ (i \in 1 .. n /\ i # m /\ r[i] = q[i])
    OBVIOUS
  <2>3. r \in [1 .. m -> Slot] /\ m \in Nat
    BY <1>4
  <2>4. e.from = IF m = 1 THEN t ELSE r[m - 1]
    <3>1. CASE e.from = t
      <4>1. n = 0
        <5> SUFFICES ASSUME n # 0 PROVE FALSE
          OBVIOUS
        <5>1. 1 \in 1 .. n /\ q[1] \in Slot /\ job[q[1]].from = t
          BY <1>3 DEF Stacked
        <5> QED
          BY <1>5, <3>1, <5>1 DEF Settled
      <4> QED
        BY <3>1, <4>1
    <3>2. CASE e.from \in Slot /\ job[e.from].by = t
      <4>1. PICK i \in 1 .. n : q[i] = e.from
        BY <1>3, <3>2 DEF Stacked
      <4>2. ASSUME i < n PROVE FALSE
        <5>1. i + 1 \in 1 .. n /\ i + 1 # 1 /\ i + 1 - 1 = i
          BY <4>2
        <5>2. q[i + 1] \in Slot /\ job[q[i + 1]].from = e.from
          BY <1>3, <4>1, <5>1 DEF Stacked
        <5> QED
          BY <1>5, <5>2 DEF Settled
      <4>3. i = n /\ m # 1 /\ m - 1 = n
        BY <4>2
      <4> QED
        BY <2>2, <4>1, <4>3
    <3> QED
      BY <1>5, <3>1, <3>2
  <2> HIDE DEF r
  <2>5. Stacked(t, m, r)'
    <3>1. \A i, j \in 1 .. m : r[i] = r[j] => i = j
      BY <1>3, <2>1, <2>2 DEF Stacked
    <3>2. \A x \in Slot : job'[x].by = t <=> \E i \in 1 .. m : r[i] = x
      <4>1. \A x \in Slot : x # s => ((\E i \in 1 .. n : q[i] = x) <=> \E i \in 1 .. m : r[i] = x)
        BY <2>2
      <4>2. m \in 1 .. m /\ r[m] = s
        BY <2>2
      <4>3. job'[s].by = t /\ \E i \in 1 .. m : r[i] = s
        BY <1>0, <1>5, <4>2, Zenon
      <4>4. \A x \in Slot : x # s => (job'[x].by = t <=> \E i \in 1 .. n : q[i] = x)
        BY <1>0, <1>3 DEF Stacked
      <4> QED
        BY <4>1, <4>3, <4>4, Zenon
    <3>3. ASSUME NEW i \in 1 .. m PROVE job'[r[i]].from = IF i = 1 THEN t ELSE r[i - 1]
      <4>1. CASE i = m
        BY <1>0, <2>2, <2>4, <4>1
      <4>2. CASE i # m
        <5>1. i \in 1 .. n /\ r[i] = q[i] /\ (i # 1 => i - 1 \in 1 .. n /\ r[i - 1] = q[i - 1])
          BY <2>2, <4>2
        <5>2. job'[r[i]] = job[q[i]]
          BY <1>0, <1>4, <2>1, <5>1
        <5> QED
          BY <1>3, <5>1, <5>2 DEF Stacked
      <4> QED
        BY <4>1, <4>2
    <3>4. ASSUME NEW i \in 1 .. m, i < m PROVE job'[r[i]].at = "block"
      BY <1>0, <1>4, <2>1, <2>2, <3>4
    <3> QED
      BY <3>1, <3>2, <3>3, <3>4 DEF Stacked
  <2> QED
    BY <2>3, <2>5
<1>6. ASSUME job[s].by = t, job[s].at # "block" \/ Settled(s),
             e = Idle \/ (e.by = t /\ e.from = job[s].from)
      PROVE  \E j \in Nat : \E r \in [1 .. j -> Slot] : Stacked(t, j, r)'
  <2>1. PICK k \in 1 .. n : q[k] = s
    BY <1>3, <1>6 DEF Stacked
  <2>2. ASSUME k < n PROVE FALSE
    <3>1. job[s].at = "block" /\ k + 1 \in 1 .. n /\ k + 1 # 1 /\ k + 1 - 1 = k
      BY <1>3, <2>1, <2>2 DEF Stacked
    <3>2. q[k + 1] \in Slot /\ job[q[k + 1]].from = s
      BY <1>3, <2>1, <3>1 DEF Stacked
    <3> QED
      BY <1>6, <3>1, <3>2 DEF Settled
  <2>3. q[n] = s /\ \A i \in 1 .. n : q[i] = s => i = n
    BY <1>3, <2>1, <2>2 DEF Stacked
  <2>4. CASE e.by = t /\ e.from = job[s].from
    <3>1. Stacked(t, n, q)'
      BY <1>0, <1>3, <1>4, <2>1, <2>3, <2>4 DEF Stacked
    <3> QED
      BY <3>1
  <2>5. CASE e = Idle
    <3> DEFINE m == n - 1
               r == [i \in 1 .. m |-> q[i]]
    <3>1. m \in Nat /\ r \in [1 .. m -> Slot]
      BY <1>4, <2>1
    <3>2. \A i \in 1 .. m : i \in 1 .. n /\ i < n /\ r[i] = q[i] /\ r[i] # s /\ r[i] \in Slot
      BY <1>4, <2>3
    <3>3. \A i \in 1 .. n : i \in 1 .. m \/ q[i] = s
      BY <2>3
    <3> HIDE DEF r
    <3>4. \A i, j \in 1 .. m : r[i] = r[j] => i = j
      BY <1>3, <3>2 DEF Stacked
    <3>5. \A x \in Slot : job'[x].by = t <=> \E i \in 1 .. m : r[i] = x
      <4>1. \A x \in Slot : x # s => ((\E i \in 1 .. n : q[i] = x) <=> \E i \in 1 .. m : r[i] = x)
        BY <3>2, <3>3
      <4> QED
        BY <1>0, <1>3, <2>5, <3>2, <4>1 DEF Stacked
    <3>6. ASSUME NEW i \in 1 .. m
          PROVE  job'[r[i]].from = (IF i = 1 THEN t ELSE r[i - 1]) /\ (i < m => job'[r[i]].at = "block")
      <4>1. i \in 1 .. n /\ i < n /\ job'[r[i]] = job[q[i]] /\ (i # 1 => r[i - 1] = q[i - 1])
        BY <1>0, <3>2
      <4> QED
        BY <1>3, <4>1 DEF Stacked
    <3>7. Stacked(t, m, r)'
      BY <3>4, <3>5, <3>6 DEF Stacked
    <3> QED
      BY <3>1, <3>7
  <2> QED
    BY <1>6, <2>4, <2>5
<1>7. \E j \in Nat : \E r \in [1 .. j -> Slot] : Stacked(t, j, r)'
  BY <1>5, <1>6 DEF Nests
<1> QED
  BY <1>1, <1>7 DEF StackPart

\* Nobody's calls in a transaction move.
LEMMA StackKept ==
    ASSUME StackPart, NEW s \in Slot, \A x \in Slot \ {s} : job'[x] = job[x],
           job'[s] = job[s] \/ (job[s].by = None /\ job'[s].by = None)
    PROVE  StackPart'
<1> SUFFICES ASSUME NEW t \in Task
             PROVE  \E n \in Nat : \E q \in [1 .. n -> Slot] : Stacked(t, n, q)'
  BY DEF StackPart
<1>1. PICK n \in Nat : \E q \in [1 .. n -> Slot] : Stacked(t, n, q)
  BY DEF StackPart
<1>2. PICK q \in [1 .. n -> Slot] : Stacked(t, n, q)
  BY <1>1
<1>3. \A i \in 1 .. n : q[i] \in Slot /\ job[q[i]].by = t
  BY <1>2 DEF Stacked
<1>4. \A x \in Slot : job'[x] = job[x] \/ (job[x].by # t /\ job'[x].by # t)
  BY NoneAssumption
<1>5. \A i \in 1 .. n : job'[q[i]] = job[q[i]]
  BY <1>3, <1>4
<1>6. \A x \in Slot : job'[x].by = t <=> job[x].by = t
  BY <1>4
<1>7. Stacked(t, n, q)'
  BY <1>2, <1>5, <1>6 DEF Stacked
<1> QED
  BY <1>7

\* The step of slot s in t's transaction: what it sends, it sends for an
\* active record and with its turn; it disturbs no other record.
Posts(s, t, e) ==
    /\ job' = [job EXCEPT ![s] = e]
    /\ Nests(s, t, e)
    /\ job[s] = Idle => e.at \in Wire
    /\ \A u \in Task \ {t} : tx'[u].busy = tx[u].busy
    /\ e.at \in Wire => /\ Active(Label[t]) /\ e.by = t /\ e.turn = t
                        /\ tx'[t].busy /\ e.on = tx[t].client

SendStep(s) == \/ UNCHANGED job /\ \A u \in Task : tx'[u].busy = tx[u].busy
               \/ \E t \in Task : \E e : Posts(s, t, e)

LEMMA TurnEffects ==
    ASSUME TxInv, NEW s \in Slot, TurnStep(s)
    PROVE  /\ UNCHANGED <<transactions, run, alarm, closer, dead>>
           /\ \A u \in Task : /\ tx'[u].client = tx[u].client
                              /\ tx'[u].state = tx[u].state \/ tx[u].state = "ACTIVE"
<1>1. PICK e \in Job :
          \/ Quiet(tx, tx')
          \/ /\ e.by \in Task /\ Active(Label[e.by]) /\ e.rec = transactions[Label[e.by]]
             /\ Moved(tx, tx', e.rec, "ROLLING_BACK")
  BY DEF TurnStep
<1>2. CASE Quiet(tx, tx')
  BY <1>2 DEF Quiet, TurnStep
<1>3. CASE /\ e.by \in Task /\ Active(Label[e.by]) /\ e.rec = transactions[Label[e.by]]
           /\ Moved(tx, tx', e.rec, "ROLLING_BACK")
  BY <1>3 DEF Moved, TurnStep, Active
<1> QED
  BY <1>1, <1>2, <1>3

LEMMA TurnSends ==
    ASSUME TxInv, BeginPart, LeaveInv, LabelsApart, SendInv, NEW s \in Slot, TurnStep(s), SendStep(s)
    PROVE  SendInv'
<1>0. /\ UNCHANGED <<transactions, run, alarm, closer, dead>>
      /\ \A u \in Task : /\ tx'[u].client = tx[u].client
                         /\ tx'[u].state = tx[u].state \/ tx[u].state = "ACTIVE"
  BY TurnEffects
<1>1. CASE UNCHANGED job /\ \A u \in Task : tx'[u].busy = tx[u].busy
  <2>1. StackPart'
    BY <1>1, StackKept DEF SendInv
  <2>2. \A x \in Slot : JobSends(x)'
    BY <1>0, <1>1 DEF SendInv, JobSends, Working
  <2>3. \A u \in Task : RunSends(u)' /\ AlarmSends(u)' /\ (Beginning(u)' => Callless(u)')
    BY <1>0, <1>1 DEF SendInv, RunSends, AlarmSends, Beginning, Callless, Working
  <2> QED
    BY <1>0, <2>1, <2>2, <2>3 DEF SendInv
<1>2. ASSUME NEW t \in Task, NEW e, Posts(s, t, e) PROVE SendInv'
  <2>0. /\ \A x \in Slot : job'[x] = IF x = s THEN e ELSE job[x]
        /\ Idle.by = None /\ Idle.at = "idle" /\ t # None
    BY <1>2, IdleJob, NoneAssumption DEF Posts, TxInv, JobPart
  <2>1. StackPart'
    BY <1>2, StackStep DEF SendInv, Posts
  <2>2. \A x \in Slot \ {s} : job[x].by = t => job[x].at = "block"
    BY <1>2, OthersInBlocks DEF SendInv, Posts
  <2>3. Active(Label[t]) => transactions[Label[t]] = t /\ ~Beginning(t) /\ tx[t].state = "ACTIVE"
    BY OwnActive
  <2>4. e.by = t \/ e = Idle
    BY <1>2 DEF Posts, Nests
  <2>5. ASSUME NEW x \in Slot PROVE JobSends(x)'
    <3>1. CASE x = s
      BY <1>0, <1>2, <2>0, <2>3, <2>4, <3>1 DEF JobSends, Working, Posts
    <3>2. CASE x # s
      <4>1. job'[x] = job[x] /\ (Working(x) => job[x].by # t)
        BY <2>0, <2>2, <3>2 DEF Working, Wire
      <4>2. Working(x) => tx'[job[x].by].busy = tx[job[x].by].busy
        BY <1>2, <4>1 DEF Posts, Working
      <4> QED
        BY <1>0, <4>1, <4>2 DEF SendInv, JobSends, Working
    <3> QED
      BY <3>1, <3>2
  <2>6. \A u \in Task : Callless(u) => Callless(u)' \/ (u = t /\ Active(Label[t]))
    <3>1. ASSUME NEW u \in Task, Callless(u), ~(u = t /\ Active(Label[t])) PROVE Callless(u)'
      <4>1. job'[s].by # u
        BY <1>2, <2>0, <2>4, <3>1, NoneAssumption DEF Posts, Nests, Callless
      <4> QED
        BY <2>0, <3>1, <4>1 DEF Callless
    <3> QED
      BY <3>1
  <2>7. ASSUME NEW u \in Task
        PROVE  RunSends(u)' /\ AlarmSends(u)' /\ (Beginning(u)' => Callless(u)')
    <3>1. RunSends(u)'
      BY <1>0, <2>3, <2>6 DEF SendInv, RunSends, LeaveInv, RunLeaves, Undone
    <3>2. AlarmSends(u)'
      <4>1. alarm[u].at = "ROLLBACK" => tx'[u].state = "TIMEOUT" /\ tx[u].state = "TIMEOUT"
        BY <1>0 DEF SendInv, AlarmSends
      <4>2. ASSUME alarm[u].at = "ROLLBACK", NEW x \in Slot, Working(x)' PROVE job'[x].by # u
        <5>1. CASE x = s
          BY <1>2, <2>0, <2>3, <4>1, <4>2, <5>1 DEF Posts, Working
        <5>2. CASE x # s
          BY <2>0, <4>2, <5>2 DEF SendInv, AlarmSends, Working
        <5> QED
          BY <5>1, <5>2
      <4> QED
        BY <1>0, <4>1, <4>2 DEF SendInv, AlarmSends
    <3>3. Beginning(u)' => Callless(u)'
      BY <1>0, <2>3, <2>6 DEF SendInv, Beginning
    <3> QED
      BY <3>1, <3>2, <3>3
  <2> QED
    BY <1>0, <2>1, <2>5, <2>7 DEF SendInv
<1> QED
  BY <1>1, <1>2 DEF SendStep

\* The turns after a step.
LEMMA TurnUpdates ==
    ASSUME TxInv, NEW u \in Task
    PROVE  /\ \A r : Claimed(r)[u].busy = IF u = r THEN TRUE ELSE tx[u].busy
           /\ \A f \in [Task -> Record] : \A q : u # job[q].turn => FreeTurn(f, q)[u].busy = f[u].busy
BY DEF TxInv, RegPart, Claimed, FreeTurn, Record

LEMMA LeavingTurns ==
    ASSUME TxInv, NEW n, NEW x
    PROVE  \A u \in Task : Leaving(n, x)[u].busy = tx[u].busy
BY DEF TxInv, RegPart, Leaving, Record

LEMMA TrimmedTurns ==
    ASSUME TxInv, NEW r, NEW s, NEW extra
    PROVE  \A u \in Task : Trimmed(tx, r, s, extra)[u].busy = tx[u].busy
<1> DEFINE k == Trim(tx[r].savepoints, job[s].sp, extra)
<1>1. Trimmed(tx, r, s, extra) = [tx EXCEPT ![r].savepoints = k] /\ tx \in [Task -> Record]
  BY DEF Trimmed, TxInv, RegPart
<1> HIDE DEF k
<1> QED
  BY <1>1 DEF Record

\* A call in t's transaction goes on at e, or ends.
LEMMA CallPosts ==
    ASSUME TxInv, NEW s \in Slot, NEW t \in Task, job[s].by = t, job[s].at # "block" \/ Settled(s),
           NEW e, job' = [job EXCEPT ![s] = e], e = Idle \/ (e.by = t /\ e.from = job[s].from),
           \A u \in Task \ {t} : tx'[u].busy = tx[u].busy,
           e.at \in Wire => Active(Label[t]) /\ e.turn = t /\ tx'[t].busy /\ e.on = tx[t].client
    PROVE  SendStep(s)
<1>1. job[s] # Idle /\ Idle.at \notin Wire
  BY IdleJob, NoneAssumption DEF Wire
<1>2. Posts(s, t, e)
  BY <1>1 DEF Posts, Nests
<1> QED
  BY <1>2 DEF SendStep

LEMMA EndPosts ==
    ASSUME TxInv, SendInv, NEW s \in Slot, Working(s), NEW f \in [Task -> Record],
           \A u \in Task : f[u].busy = tx[u].busy, tx' = FreeTurn(f, s),
           NEW e, job' = [job EXCEPT ![s] = e], e.at \notin Wire,
           e = Idle \/ (e.by = job[s].by /\ e.from = job[s].from)
    PROVE  SendStep(s)
<1>1. job[s].turn = job[s].by /\ job[s].by \in Task /\ job[s].at # "block"
  BY DEF SendInv, JobSends, Working, Wire
<1>2. \A u \in Task \ {job[s].by} : tx'[u].busy = tx[u].busy
  BY <1>1, TurnUpdates
<1> QED
  BY <1>1, <1>2, CallPosts

LEMMA BeginPosts ==
    ASSUME TxInv, BeginPart, LeaveInv, LabelsApart, ~Overlaps, NEW s \in Slot,
           NEW p \in Task \cup Slot, Execute(s, p) \/ OpenBlock(s, p)
    PROVE  SendStep(s)
<1> DEFINE t == Caller(p)
<1>1. /\ job[s] = Idle /\ scope[p] # None /\ t \in Task /\ Settled(p) /\ Active(Label[t])
      /\ tx \in [Task -> Record]
  BY ScopeTask DEF Execute, OpenBlock, Free, MayCall, TxInv, RegPart
<1>2. transactions[Label[t]] = t
  BY <1>1, OwnActive
<1>3. p = t \/ (p \in Slot /\ job[p].by = t /\ job[p].at = "block")
  BY <1>1 DEF Caller, TxInv, JobPart
<1>4. ASSUME NEW e, job' = [job EXCEPT ![s] = e], e.by = t, e.from = p, e.at \in Wire, e.turn = t,
             e.on = tx[t].client, tx'[t].busy, \A u \in Task \ {t} : tx'[u].busy = tx[u].busy
      PROVE  SendStep(s)
  <2>1. Posts(s, t, e)
    BY <1>1, <1>3, <1>4 DEF Posts, Nests
  <2> QED
    BY <1>1, <2>1 DEF SendStep
<1>5. CASE Execute(s, p)
  <2> DEFINE e == [Idle EXCEPT !.at = "statement", !.by = t, !.from = p,
                               !.on = tx[t].client, !.turn = t]
  <2>1. job' = [job EXCEPT ![s] = e] /\ tx' = Claimed(t)
    BY <1>2, <1>5 DEF Execute
  <2>2. /\ e.by = t /\ e.from = p /\ e.at \in Wire /\ e.turn = t /\ e.on = tx[t].client
    BY DEF Idle, Wire
  <2>3. tx'[t].busy /\ \A u \in Task \ {t} : tx'[u].busy = tx[u].busy
    BY <1>1, <2>1, TurnUpdates
  <2> HIDE DEF e, t
  <2> QED
    BY <1>4, <2>1, <2>2, <2>3
<1>6. CASE OpenBlock(s, p)
  <2> DEFINE counted == [tx EXCEPT ![t].spCounter = @ + 1]
             e == [Idle EXCEPT !.at = "SAVEPOINT", !.by = t, !.from = p, !.on = tx[t].client,
                               !.turn = t, !.sp = tx[t].spCounter + 1]
  <2>1. \/ tx' = counted /\ UNCHANGED job
        \/ tx' = [counted EXCEPT ![t].busy = TRUE] /\ job' = [job EXCEPT ![s] = e]
    BY <1>2, <1>6 DEF OpenBlock
  <2>2. /\ e.by = t /\ e.from = p /\ e.at \in Wire /\ e.turn = t /\ e.on = tx[t].client
    BY DEF Idle, Wire
  <2>3. /\ \A u \in Task : counted[u].busy = tx[u].busy
        /\ [counted EXCEPT ![t].busy = TRUE][t].busy
        /\ \A u \in Task \ {t} : [counted EXCEPT ![t].busy = TRUE][u].busy = tx[u].busy
    <3>1. counted \in [Task -> [client : OneOf(Conn), state : TxState, timer : BOOLEAN,
                                savepoints : Stack, spCounter : Int, busy : BOOLEAN]]
      BY <1>1 DEF Record
    <3>2. \A u \in Task : counted[u].busy = tx[u].busy
      BY <1>1 DEF Record
    <3> HIDE DEF counted
    <3> QED
      BY <1>1, <3>1, <3>2
  <2> HIDE DEF e, counted, t
  <2> QED
    BY ZenonT(40), <1>4, <2>1, <2>2, <2>3 DEF SendStep
<1> QED
  BY <1>5, <1>6

LEMMA AutoRollbackPosts ==
    ASSUME TxInv, BeginPart, LeaveInv, SendInv, LabelsApart, NEW s \in Slot, Working(s),
           AutoRollbackAll(s)
    PROVE  SendStep(s)
<1> DEFINE t == job[s].by
           e == [job[s] EXCEPT !.at = "ROLLBACK", !.on = tx[t].client, !.rec = t]
<1>0. /\ t \in Task /\ job[s].turn = t /\ tx[t].busy /\ job[s] \in Job /\ tx \in [Task -> Record]
      /\ job[s].at # "block" /\ Idle.at \notin Wire
  BY IdleJob DEF SendInv, JobSends, Working, Wire, TxInv, JobPart, RegPart
<1>1. CASE EndTurn(s)
  BY <1>0, <1>1, EndPosts DEF EndTurn
<1>2. CASE ~EndTurn(s)
  <2>1. /\ Active(Label[t]) /\ transactions[Label[t]] = t /\ tx' = Leaving(Label[t], "ROLLING_BACK")
        /\ job' = [job EXCEPT ![s] = e]
    BY <1>0, <1>2, OwnActive DEF AutoRollbackAll
  <2>2. \A u \in Task : tx'[u].busy = tx[u].busy
    BY <2>1, LeavingTurns
  <2>3. e.by = t /\ e.from = job[s].from /\ e.turn = t /\ e.on = tx[t].client /\ e.at \in Wire
    BY <1>0 DEF Job, Wire
  <2> HIDE DEF e
  <2> QED
    BY <1>0, <2>1, <2>2, <2>3, CallPosts
<1> QED
  BY <1>1, <1>2

LEMMA StatementPosts ==
    ASSUME TxInv, BeginPart, LeaveInv, SendInv, LabelsApart, NEW s \in Slot,
           \/ StatementDone(s) \/ StatementFailed(s) \/ AutoRollbackToDone(s)
           \/ AutoRollbackToFailed(s)
    PROVE  SendStep(s)
<1>0. Working(s)
  BY JobTypes DEF StatementDone, StatementFailed, AutoRollbackToDone, AutoRollbackToFailed,
                  InTransaction, Working, Wire, TxInv, JobPart, OneOf
<1>1. CASE EndTurn(s)
  BY <1>0, <1>1, EndPosts, IdleJob DEF EndTurn, TxInv, RegPart, Wire
<1>2. CASE AutoRollbackAll(s)
  BY <1>0, <1>2, AutoRollbackPosts
<1>3. ASSUME StatementFailed(s), ~EndTurn(s), ~AutoRollbackAll(s) PROVE SendStep(s)
  <2> DEFINE t == job[s].by
             k == tx[t].savepoints
             e == [job[s] EXCEPT !.at = "ROLLBACK TO", !.on = tx[t].client, !.sp = k[Len(k)]]
  <2>1. /\ t \in Task /\ job[s].turn = t /\ tx[t].busy /\ job[s] \in Job /\ job[s].at # "block"
    BY <1>0 DEF SendInv, JobSends, Working, Wire, TxInv, JobPart
  <2>2. Active(Label[t]) /\ UNCHANGED tx /\ job' = [job EXCEPT ![s] = e]
    BY <1>3, <2>1, OwnActive DEF StatementFailed
  <2>3. e.by = t /\ e.from = job[s].from /\ e.turn = t /\ e.on = tx[t].client /\ e.at \in Wire
    BY <2>1 DEF Job, Wire
  <2> HIDE DEF e
  <2> QED
    BY <2>1, <2>2, <2>3, CallPosts
<1> QED
  BY <1>1, <1>2, <1>3 DEF StatementDone, AutoRollbackToDone, AutoRollbackToFailed

LEMMA RequestPosts ==
    ASSUME TxInv, BeginPart, LeaveInv, LabelsApart, NEW s \in Slot, job[s].by \in Task,
           job[s].at # "block" \/ Settled(s), NEW at \in {"unwind", "RELEASE"}, NEW refused,
           refused = Idle \/ (refused.by = job[s].by /\ refused.from = job[s].from),
           refused.at \notin Wire, NEW extra, Request(s, at, refused, extra)
    PROVE  SendStep(s)
<1> DEFINE t == job[s].by
           e == [job[s] EXCEPT !.at = at, !.on = tx[t].client, !.turn = t]
<1>0. job[s] \in Job /\ at \in Wire
  BY DEF TxInv, JobPart, Wire
<1>1. CASE job' = [job EXCEPT ![s] = refused] /\ \A u \in Task : tx'[u].busy = tx[u].busy
  BY <1>1, CallPosts
<1>2. ASSUME Active(Label[t]), tx' = Claimed(transactions[Label[t]]),
             job' = [job EXCEPT ![s].at = at, ![s].on = tx[transactions[Label[t]]].client,
                                ![s].turn = transactions[Label[t]]]
      PROVE  SendStep(s)
  <2>1. transactions[Label[t]] = t
    BY <1>2, OwnActive
  <2>2. job' = [job EXCEPT ![s] = e] /\ tx' = Claimed(t)
    BY <1>2, <2>1
  <2>3. tx'[t].busy /\ \A u \in Task \ {t} : tx'[u].busy = tx[u].busy
    BY <2>2, TurnUpdates
  <2>4. e.by = t /\ e.from = job[s].from /\ e.turn = t /\ e.on = tx[t].client /\ e.at = at
    BY <1>0 DEF Job
  <2> HIDE DEF e
  <2> QED
    BY <1>0, <1>2, <2>2, <2>3, <2>4, CallPosts
<1>3. \A r : \A u \in Task : Trimmed(tx, r, s, extra)[u].busy = tx[u].busy
  BY TrimmedTurns
<1>4. CASE job' = [job EXCEPT ![s] = refused] /\ UNCHANGED tx
  BY <1>1, <1>4
<1>5. CASE /\ job' = [job EXCEPT ![s] = refused]
           /\ tx' = Trimmed(tx, transactions[Label[t]], s, extra)
  BY <1>1, <1>3, <1>5
<1> QED
  BY <1>2, <1>4, <1>5 DEF Request

LEMMA BlockPosts ==
    ASSUME TxInv, BeginPart, LeaveInv, SendInv, LabelsApart, ~Overlaps, NEW s \in Slot,
           \/ OpenBlockDone(s) \/ OpenBlockFailed(s) \/ EnterBlock(s) \/ BlockThrows(s)
           \/ BlockUnwound(s) \/ BlockReleases(s) \/ BlockReleased(s)
    PROVE  SendStep(s)
<1>0. /\ job[s].by \in Task /\ job[s] \in Job /\ tx \in [Task -> Record]
      /\ Idle.at \notin Wire
  BY IdleJob DEF OpenBlockDone, OpenBlockFailed, EnterBlock, BlockThrows, BlockUnwound,
         BlockReleases, BlockReleased, TxInv, JobPart, RegPart, GoodJob, Nested, Wire
<1>1. ASSUME NEW a \in {"opened", "block", "unwound"}
      PROVE  /\ [job[s] EXCEPT !.at = a].by = job[s].by /\ [job[s] EXCEPT !.at = a].from = job[s].from
             /\ [job[s] EXCEPT !.at = a].at \notin Wire
             /\ [job EXCEPT ![s].at = a] = [job EXCEPT ![s] = [job[s] EXCEPT !.at = a]]
  BY <1>0 DEF Job, Wire
<1>2. job[s].at \in {"SAVEPOINT", "unwind", "RELEASE"} => Working(s)
  BY <1>0 DEF Working, Wire
<1>3. CASE OpenBlockDone(s)
  <2>1. job[s].turn = job[s].by /\ job[s].at # "block"
    BY <1>2, <1>3 DEF OpenBlockDone, SendInv, JobSends
  <2>2. \A u \in Task \ {job[s].turn} : tx'[u].busy = tx[u].busy
    BY <1>0, <1>3 DEF OpenBlockDone
  <2>3. job' = [job EXCEPT ![s] = [job[s] EXCEPT !.at = "opened"]]
    BY <1>3 DEF OpenBlockDone
  <2> QED
    BY <1>0, <1>1, <2>1, <2>2, <2>3, CallPosts
<1>4. CASE OpenBlockFailed(s)
  BY <1>0, <1>2, <1>4, EndPosts DEF OpenBlockFailed, EndTurn
<1>5. CASE EnterBlock(s)
  <2>1. job' = [job EXCEPT ![s] = [job[s] EXCEPT !.at = "block"]] /\ UNCHANGED tx /\ job[s].at # "block"
    BY <1>5 DEF EnterBlock, engine
  <2> QED
    BY <1>0, <1>1, <2>1, CallPosts
<1>6. CASE BlockThrows(s)
  <2> DEFINE e == [job[s] EXCEPT !.at = "unwound"]
  <2>1. e.by = job[s].by /\ e.from = job[s].from /\ e.at \notin Wire
    BY <1>1
  <2>2. Request(s, "unwind", e, 1) /\ Settled(s)
    BY <1>6 DEF BlockThrows
  <2> HIDE DEF e
  <2> QED
    BY <1>0, <2>1, <2>2, RequestPosts
<1>7. CASE BlockUnwound(s)
  <2> DEFINE f == Trimmed(tx, job[s].turn, s, 1)
  <2>1. f \in [Task -> Record] /\ \A u \in Task : f[u].busy = tx[u].busy
    BY TrimmedQuietly, TrimmedTurns DEF Quiet
  <2>2. tx' = FreeTurn(f, s) /\ job' = [job EXCEPT ![s] = [job[s] EXCEPT !.at = "unwound"]]
    BY <1>7 DEF BlockUnwound
  <2> HIDE DEF f
  <2> QED
    BY <1>0, <1>1, <1>2, <1>7, <2>1, <2>2, EndPosts DEF BlockUnwound
<1>8. CASE BlockReleases(s)
  <2>1. Request(s, "RELEASE", Idle, 0) /\ (job[s].at # "block" \/ Settled(s))
    BY <1>8 DEF BlockReleases
  <2> QED
    BY <1>0, <2>1, RequestPosts
<1>9. CASE BlockReleased(s)
  <2> DEFINE f == Trimmed(tx, job[s].turn, s, 0)
  <2>1. f \in [Task -> Record] /\ \A u \in Task : f[u].busy = tx[u].busy
    BY TrimmedQuietly, TrimmedTurns DEF Quiet
  <2>2. tx' = FreeTurn(f, s) /\ job' = [job EXCEPT ![s] = Idle]
    BY <1>9 DEF BlockReleased
  <2> HIDE DEF f
  <2> QED
    BY <1>0, <1>2, <1>9, <2>1, <2>2, EndPosts DEF BlockReleased
<1> QED
  BY <1>3, <1>4, <1>5, <1>6, <1>7, <1>8, <1>9

LEMMA CallSends ==
    ASSUME TxInv, BeginPart, LeaveInv, SendInv, LabelsApart, ~Overlaps, NEW s \in Slot,
           \/ \E p \in Task \cup Slot : Execute(s, p) \/ OpenBlock(s, p)
           \/ StatementDone(s) \/ StatementFailed(s) \/ AutoRollbackToDone(s)
           \/ AutoRollbackToFailed(s)
           \/ OpenBlockDone(s) \/ OpenBlockFailed(s) \/ EnterBlock(s)
           \/ BlockThrows(s) \/ BlockUnwound(s) \/ BlockReleases(s) \/ BlockReleased(s)
    PROVE  SendInv'
<1>1. CASE \E p \in Task \cup Slot : Execute(s, p) \/ OpenBlock(s, p)
  <2>1. TurnStep(s) /\ SendStep(s)
    BY <1>1, ExecuteStep, OpenBlockStep, BeginPosts
  <2> QED
    BY <2>1, TurnSends
<1>2. CASE \/ StatementDone(s) \/ StatementFailed(s) \/ AutoRollbackToDone(s)
           \/ AutoRollbackToFailed(s)
  <2>1. TurnStep(s) /\ SendStep(s)
    BY <1>2, StatementSteps, StatementPosts
  <2> QED
    BY <2>1, TurnSends
<1>3. CASE \/ OpenBlockDone(s) \/ OpenBlockFailed(s) \/ EnterBlock(s)
           \/ BlockThrows(s) \/ BlockUnwound(s) \/ BlockReleases(s) \/ BlockReleased(s)
  <2>1. TurnStep(s) /\ SendStep(s)
    BY <1>3, BlockSteps, BlockPosts
  <2> QED
    BY <2>1, TurnSends
<1> QED
  BY <1>1, <1>2, <1>3

\* A destroyed connection that a call awaits stays destroyed.
DeadAwaited == \A s \in Slot : job[s].at \in Wire /\ job[s].on \in dead => job[s].on \in dead'

LEMMA DeadStays ==
    /\ \A c : Lend(c) => DeadAwaited
    /\ dead \subseteq dead' => DeadAwaited
    /\ \A c : Returned(c) \/ Destroyed(c) => DeadAwaited
    /\ \A n, b : ReleaseClient(n, b) => DeadAwaited
<1>1. ASSUME NEW c, Lend(c) PROVE DeadAwaited
  BY <1>1 DEF Lend, CanLend, Awaiting, DeadAwaited
<1>2. ASSUME dead \subseteq dead' PROVE DeadAwaited
  BY <1>2 DEF DeadAwaited
<1>3. \A c : Returned(c) \/ Destroyed(c) => dead \subseteq dead'
  BY DEF Returned, Destroyed
<1>4. \A n, b : ReleaseClient(n, b) => dead \subseteq dead'
  BY <1>3 DEF ReleaseClient
<1> QED
  BY <1>1, <1>2, <1>3, <1>4

\* A step of task t, which no slot takes.
TaskStep(t) ==
    /\ UNCHANGED <<job, closer>> /\ DeadAwaited
    /\ \A u \in Task \ {t} : /\ tx'[u].busy = tx[u].busy /\ tx'[u].client = tx[u].client
                             /\ tx'[u].state = tx[u].state
                             /\ run'[u] = run[u] /\ alarm'[u] = alarm[u]
                             /\ transactions'[Label[u]] = transactions[Label[u]]

LEMMA TaskSends ==
    ASSUME SendInv, NEW t \in Task, TaskStep(t),
           \A s \in Slot : Working(s) /\ job[s].by = t => JobSends(s)',
           RunSends(t)', AlarmSends(t)', Beginning(t)' => Callless(t)
    PROVE  SendInv'
<1>1. StackPart'
  <2>1. StackPart /\ job' = job
    BY DEF TaskStep, SendInv
  <2>2. ASSUME NEW u, NEW n, NEW q PROVE Stacked(u, n, q)' <=> Stacked(u, n, q)
    BY ONLY <2>1 DEF Stacked
  <2> QED
    BY ONLY <2>1, <2>2 DEF StackPart
<1>2. ASSUME NEW s \in Slot PROVE JobSends(s)'
  <2>1. CASE Working(s) /\ job[s].by = t
    BY <2>1
  <2>2. CASE ~(Working(s) /\ job[s].by = t)
    BY <2>2 DEF TaskStep, SendInv, JobSends, Working, DeadAwaited
  <2> QED
    BY <2>1, <2>2
<1>3. ASSUME NEW u \in Task
      PROVE  RunSends(u)' /\ AlarmSends(u)' /\ (Beginning(u)' => Callless(u)')
  <2>1. CASE u = t
    BY <2>1 DEF TaskStep, Callless
  <2>2. CASE u # t
    BY <2>2 DEF TaskStep, SendInv, RunSends, AlarmSends, Beginning, Callless, Working
  <2> QED
    BY <2>1, <2>2
<1> QED
  BY <1>1, <1>2, <1>3 DEF SendInv, TaskStep

\* What a step for the record of t's id does to the ids of the others.
LEMMA OtherIds ==
    ASSUME TxInv, LabelsApart, NEW t \in Task, NEW r,
           \/ transactions' = [transactions EXCEPT ![Label[t]] = r]
           \/ \E b : ReleaseClient(Label[t], b)
    PROVE  \A u \in Task \ {t} : transactions'[Label[u]] = transactions[Label[u]]
<1>1. \A u \in Task \ {t} : Label[u] # Label[t]
  BY DEF LabelsApart
<1> QED
  BY <1>1, LabelAssumption DEF ReleaseClient, TxInv, RegPart

LEMMA BeginSends ==
    ASSUME TxInv, BeginPart, LeaveInv, SendInv, LabelsApart, NEW t \in Task,
           \/ Begin(t) \/ BeginAcquired(t) \/ BeginAcquireFailed(t) \/ BeginFailed(t)
           \/ BeginDone(t) \/ Enter(t)
    PROVE  SendInv'
<1>0. /\ run \in [Task -> Runner] /\ tx \in [Task -> Record] /\ Label[t] \in Name
  BY LabelAssumption DEF TxInv, RunPart, RegPart, Runner
<1>1. DeadAwaited
  BY DeadStays DEF Begin, BeginAcquired, BeginAcquireFailed, BeginFailed, BeginDone, Enter, wires
<1>2. \A u \in Task \ {t} : transactions'[Label[u]] = transactions[Label[u]]
  BY OtherIds DEF Begin, BeginAcquired, BeginAcquireFailed, BeginFailed, BeginDone, Enter, engine
<1>3. /\ UNCHANGED <<job, closer, alarm>>
      /\ \A u \in Task \ {t} : tx'[u] = tx[u] /\ run'[u] = run[u]
      /\ run'[t].at \notin {"COMMIT", "ROLLBACK"}
  BY <1>0 DEF Begin, BeginAcquired, BeginAcquireFailed, BeginFailed, BeginDone, Enter, Reject, Rest,
              engine, Runner
<1>4. TaskStep(t)
  BY <1>1, <1>2, <1>3 DEF TaskStep
<1>5. RunSends(t)'
  BY <1>3 DEF RunSends
<1>6. CASE Enter(t)
  <2>1. UNCHANGED <<transactions, tx, dead>> /\ ~Beginning(t)'
    BY <1>0, <1>6 DEF Enter, engine, wires, Beginning, Runner
  <2>2. \A s \in Slot : JobSends(s)'
    BY <1>3, <2>1 DEF SendInv, JobSends, Working
  <2>3. AlarmSends(t)'
    BY <1>3, <2>1 DEF SendInv, AlarmSends, Working
  <2> QED
    BY <1>4, <1>5, <2>1, <2>2, <2>3, TaskSends
<1>7. CASE ~Enter(t)
  <2>1. Callless(t) /\ alarm[t].at # "ROLLBACK"
    <3>1. CASE Begin(t)
      BY <3>1 DEF Begin, Forgotten, Callless, Rest
    <3>2. CASE ~Begin(t)
      <4>1. Beginning(t)
        BY <1>7, <3>2 DEF BeginAcquired, BeginAcquireFailed, BeginFailed, BeginDone, Beginning
      <4> QED
        BY <4>1 DEF SendInv, LeaveInv, Leaverless
    <3> QED
      BY <3>1, <3>2
  <2>2. AlarmSends(t)'
    BY <1>3, <2>1 DEF AlarmSends
  <2> QED
    BY <1>4, <1>5, <2>1, <2>2, TaskSends DEF Callless
<1> QED
  BY <1>6, <1>7

\* A step that leaves t's turn and client alone, its connection with it.
LEMMA OwnCalls ==
    ASSUME SendInv, NEW t \in Task, TaskStep(t), UNCHANGED transactions,
           tx'[t].busy = tx[t].busy, tx'[t].client = tx[t].client
    PROVE  \A s \in Slot : Working(s) /\ job[s].by = t => JobSends(s)'
BY DEF TaskStep, SendInv, JobSends, Working, DeadAwaited

LEMMA EndSends ==
    ASSUME TxInv, BeginPart, LeaveInv, SendInv, LabelsApart, ~Overlaps, NEW t \in Task,
           \/ Resolve(t) \/ CommitDone(t) \/ CommitFailed(t) \/ Throw(t) \/ ThrowRolledBack(t)
    PROVE  SendInv'
<1>0. /\ run \in [Task -> Runner] /\ tx \in [Task -> Record] /\ Label[t] \in Name
      /\ {"COMMITTING", "COMMITTED", "ROLLING_BACK", "ROLLBACK"} \subseteq TxState
      /\ Rest.at = "idle"
  BY LabelAssumption DEF TxInv, RunPart, RegPart, Rest, TxState
<1>1. UNCHANGED <<job, closer, alarm>> /\ \A u \in Task \ {t} : run'[u] = run[u]
  BY <1>0 DEF Resolve, CommitDone, CommitFailed, Throw, ThrowRolledBack, Reject
<1>2. ASSUME Reject(t), UNCHANGED <<transactions, tx, dead>> PROVE SendInv'
  <2>1. TaskStep(t)
    BY <1>1, <1>2, DeadStays DEF TaskStep
  <2>2. RunSends(t)' /\ ~Beginning(t)'
    BY <1>0, <1>2 DEF Reject, RunSends, Beginning
  <2>3. AlarmSends(t)'
    BY <1>1, <1>2 DEF SendInv, AlarmSends, Working
  <2> QED
    BY <1>2, <2>1, <2>2, <2>3, OwnCalls, TaskSends
<1>3. ASSUME NEW a \in {"COMMIT", "ROLLBACK"}, NEW x \in {"COMMITTING", "ROLLING_BACK"},
             Settled(t), Active(Label[t]), tx' = Leaving(Label[t], x),
             UNCHANGED <<transactions, dead>>,
             \E c, r : run' = [run EXCEPT ![t] = [at |-> a, on |-> c, rec |-> r]]
      PROVE  SendInv'
  <2>1. transactions[Label[t]] = t /\ tx[t].state = "ACTIVE" /\ Callless(t)
    BY <1>3, OwnActive, SettledIsCallless DEF SendInv
  <2>2. Moved(tx, tx', t, x)
    BY <1>0, <1>3, <2>1, LeavingMoves
  <2>3. \A u \in Task \ {t} : tx'[u].busy = tx[u].busy
    BY <1>3, LeavingTurns
  <2>4. TaskStep(t)
    BY <1>1, <1>3, <2>2, <2>3, DeadStays DEF TaskStep, Moved
  <2>5. RunSends(t)' /\ ~Beginning(t)'
    BY <1>0, <1>1, <1>3, <2>1 DEF RunSends, Callless, Beginning
  <2>6. AlarmSends(t)'
    BY <1>1, <2>1 DEF SendInv, AlarmSends
  <2> QED
    BY <2>1, <2>4, <2>5, <2>6, TaskSends DEF Callless
<1>4. CASE Resolve(t)
  BY <1>2, <1>3, <1>4 DEF Resolve, wires
<1>5. CASE Throw(t)
  BY <1>2, <1>3, <1>5 DEF Throw, wires
<1>6. ASSUME run[t].at \in {"COMMIT", "ROLLBACK"}, run' = [run EXCEPT ![t] = Rest],
             NEW b, ReleaseClient(Label[t], b), NEW x \in TxState,
             UNCHANGED tx \/ Quiet(tx, tx') \/ Moved(tx, tx', t, x),
             \A u \in Task : tx'[u].busy = tx[u].busy
      PROVE  SendInv'
  <2>1. Callless(t) /\ alarm[t].at # "ROLLBACK"
    BY <1>6 DEF SendInv, RunSends, AlarmSends, LeaveInv, RunLeaves, Undone
  <2>2. TaskStep(t)
    BY <1>1, <1>6, DeadStays, OtherIds DEF TaskStep, Moved, Quiet
  <2>3. RunSends(t)' /\ AlarmSends(t)' /\ ~Beginning(t)'
    BY <1>0, <1>1, <1>6, <2>1 DEF RunSends, AlarmSends, Beginning
  <2> QED
    BY <2>1, <2>2, <2>3, TaskSends DEF Callless
<1>7. \A r, x : \A b \in BOOLEAN : \A u \in Task : Ended(r, x, b)[u].busy = tx[u].busy
  BY <1>0 DEF Ended, Record
<1>8. CASE CommitFailed(t)
  BY <1>0, <1>6, <1>8 DEF CommitFailed, Reject
<1>9. CASE CommitDone(t)
  <2>1. run[t].rec = t
    BY <1>9 DEF CommitDone, LeaveInv, RunLeaves
  <2>2. Moved(tx, tx', t, "COMMITTED")
    BY <1>0, <1>9, <2>1, EndedMoves DEF CommitDone
  <2>3. /\ run[t].at = "COMMIT" /\ run' = [run EXCEPT ![t] = Rest] /\ ReleaseClient(Label[t], FALSE)
        /\ tx' = Ended(run[t].rec, "COMMITTED", FALSE)
    BY <1>9 DEF CommitDone
  <2>4. \A u \in Task : tx'[u].busy = tx[u].busy
    BY <1>0, <2>3 DEF Ended, Record
  <2>5. /\ run[t].at \in {"COMMIT", "ROLLBACK"} /\ "COMMITTED" \in TxState
        /\ UNCHANGED tx \/ Quiet(tx, tx') \/ Moved(tx, tx', t, "COMMITTED")
    BY <1>0, <2>2, <2>3
  <2> QED
    BY <1>6, <2>3, <2>4, <2>5, Zenon
<1>10. CASE ThrowRolledBack(t)
  <2>1. PICK failed \in BOOLEAN : /\ tx' = Ended(run[t].rec, "ROLLBACK", failed)
                                  /\ ReleaseClient(Label[t], failed)
    BY <1>10 DEF ThrowRolledBack, RollbackSettles
  <2>2. run[t].rec = t
    BY <1>10 DEF ThrowRolledBack, LeaveInv, RunLeaves
  <2>3. Quiet(tx, tx') \/ Moved(tx, tx', t, "ROLLBACK")
    BY <1>0, <2>1, <2>2, EndedMoves
  <2> QED
    BY <1>0, <1>6, <1>7, <1>10, <2>1, <2>3 DEF ThrowRolledBack, Reject
<1> QED
  BY <1>4, <1>5, <1>8, <1>9, <1>10

LEMMA TimeoutSends ==
    ASSUME TxInv, BeginPart, LeaveInv, SendInv, LabelsApart, NEW t \in Task,
           Fire(t) \/ FireRolledBack(t)
    PROVE  SendInv'
<1>0. /\ tx \in [Task -> Record] /\ "TIMEOUT" \in TxState /\ alarm \in [Task -> Alarm]
      /\ Rest.at = "idle" /\ Label[t] \in Name
  BY LabelAssumption DEF TxInv, RegPart, WatchPart, TxState, Rest
<1>1. UNCHANGED <<run, job, closer>> /\ \A u \in Task \ {t} : alarm'[u] = alarm[u]
  BY <1>0 DEF Fire, FireRolledBack
<1>2. Beginning(t)' => Callless(t)
  BY <1>1 DEF SendInv, Beginning
<1>3. CASE Fire(t) /\ ~Active(Label[t])
  <2>1. tx' = [tx EXCEPT ![t].timer = FALSE] /\ UNCHANGED <<transactions, alarm, dead>>
    BY <1>3 DEF Fire
  <2>2. \A u \in Task : /\ tx'[u].busy = tx[u].busy /\ tx'[u].client = tx[u].client
                        /\ tx'[u].state = tx[u].state
    BY <1>0, <2>1 DEF Record
  <2>3. TaskStep(t)
    BY <1>1, <2>1, <2>2, DeadStays DEF TaskStep
  <2>4. RunSends(t)' /\ AlarmSends(t)'
    BY <1>1, <2>1, <2>2 DEF SendInv, RunSends, AlarmSends, Callless, Working
  <2> QED
    BY <1>2, <2>1, <2>2, <2>3, <2>4, OwnCalls, TaskSends
<1>4. CASE Fire(t) /\ Active(Label[t])
  <2>1. transactions[Label[t]] = t /\ tx[t].state = "ACTIVE" /\ t # None
    BY <1>4, OwnActive, NoneAssumption
  <2>2. /\ tx' = [tx EXCEPT ![t].timer = FALSE, ![t].state = "TIMEOUT"]
        /\ \/ tx[t].busy /\ ReleaseClient(Label[t], TRUE) /\ UNCHANGED alarm
           \/ /\ ~tx[t].busy /\ UNCHANGED <<transactions, dead>>
              /\ alarm' = [alarm EXCEPT ![t] = [at |-> "ROLLBACK", on |-> tx[t].client, rec |-> t]]
    BY <1>4, <2>1 DEF Fire
  <2>3. \A u \in Task : /\ tx'[u].busy = tx[u].busy /\ tx'[u].client = tx[u].client
                        /\ tx'[u].state = IF u = t THEN "TIMEOUT" ELSE tx[u].state
    BY <1>0, <2>2 DEF Record
  <2>4. TaskStep(t)
    <3>1. DeadAwaited
      BY <2>2, DeadStays
    <3>2. \A u \in Task \ {t} : transactions'[Label[u]] = transactions[Label[u]]
      BY <2>2, OtherIds
    <3> QED
      BY <1>1, <2>3, <3>1, <3>2 DEF TaskStep
  <2>5. run[t].at \notin {"COMMIT", "ROLLBACK"} /\ alarm[t].at # "ROLLBACK"
    BY <2>1 DEF LeaveInv, RunLeaves, Undone, SendInv, AlarmSends
  <2>6. RunSends(t)'
    BY <1>1, <2>5 DEF RunSends
  <2>7. CASE tx[t].busy
    <3>1. tx[t].client \in dead' /\ UNCHANGED alarm
      BY <2>1, <2>2, <2>7 DEF ReleaseClient, Destroyed, Registered
    <3>2. \A s \in Slot : Working(s) /\ job[s].by = t => JobSends(s)'
      BY <1>1, <2>3, <2>7, <3>1 DEF SendInv, JobSends, Working
    <3>3. AlarmSends(t)'
      BY <2>5, <3>1 DEF AlarmSends
    <3> QED
      BY <1>2, <2>4, <2>6, <3>2, <3>3, TaskSends
  <2>8. CASE ~tx[t].busy
    <3>1. \A s \in Slot : Working(s) => job[s].by # t
      BY <2>8 DEF SendInv, JobSends
    <3>2. AlarmSends(t)'
      BY <1>1, <2>1, <2>2, <2>3, <2>8, <3>1 DEF AlarmSends, Working
    <3> QED
      BY <1>2, <2>4, <2>6, <3>1, <3>2, TaskSends
  <2> QED
    BY <2>7, <2>8
<1>5. CASE FireRolledBack(t)
  <2>1. /\ UNCHANGED tx /\ alarm[t].at = "ROLLBACK" /\ alarm' = [alarm EXCEPT ![t] = Rest]
        /\ \E b \in BOOLEAN : ReleaseClient(Label[t], b)
    BY <1>5 DEF FireRolledBack, RollbackSettles
  <2>2. TaskStep(t)
    BY <1>1, <2>1, DeadStays, OtherIds DEF TaskStep
  <2>3. /\ \A s \in Slot : Working(s) => job[s].by # t
        /\ run[t].at \notin {"COMMIT", "ROLLBACK"}
    BY <2>1 DEF LeaveInv, RunLeaves, Undone, SendInv, AlarmSends
  <2>4. RunSends(t)' /\ AlarmSends(t)'
    BY <1>0, <1>1, <2>1, <2>3 DEF RunSends, AlarmSends
  <2> QED
    BY <1>2, <2>2, <2>3, <2>4, TaskSends
<1> QED
  BY <1>3, <1>4, <1>5

LEMMA AutoRolledBackSends ==
    ASSUME TxInv, BeginPart, LeaveInv, SendInv, LabelsApart, NEW s \in Slot, AutoRolledBack(s)
    PROVE  SendInv'
<1> DEFINE t == job[s].by
<1>0. /\ tx \in [Task -> Record] /\ t \in Task /\ job[s].at = "ROLLBACK" /\ Working(s)
      /\ job[s].turn = t /\ job[s].rec = t /\ "ROLLBACK" \in TxState
  BY DEF TxInv, RegPart, AutoRolledBack, InTransaction, LeaveInv, JobLeaves, SendInv, JobSends,
         Working, Wire, TxState
<1>1. PICK failed \in BOOLEAN : /\ tx' = FreeTurn(Ended(t, "ROLLBACK", failed), s)
                                /\ ReleaseClient(Label[t], failed)
  BY <1>0 DEF AutoRolledBack, RollbackSettles
<1>2. /\ UNCHANGED <<run, alarm, closer>> /\ job' = [job EXCEPT ![s] = Idle]
      /\ \A x \in Slot : job'[x] = IF x = s THEN Idle ELSE job[x]
      /\ Idle.by = None /\ Idle.at = "idle" /\ t # None
  BY <1>0, IdleJob, NoneAssumption DEF AutoRolledBack, TxInv, JobPart
<1>3. \A u \in Task \ {t} : tx'[u] = tx[u] /\ transactions'[Label[u]] = transactions[Label[u]]
  <2>1. \A u \in Task \ {t} : tx'[u] = tx[u]
    BY <1>0, <1>1 DEF FreeTurn, Ended
  <2> QED
    BY <1>0, <1>1, <2>1, OtherIds
<1>4. DeadAwaited
  BY <1>1, DeadStays
<1>5. Nests(s, t, Idle)
  BY <1>0 DEF Nests
<1>6. StackPart'
  BY <1>0, <1>2, <1>5, StackStep DEF SendInv
<1>7. \A x \in Slot \ {s} : Working(x) => job[x].by # t
  BY <1>0, <1>5, OthersInBlocks DEF SendInv, Working, Wire
<1>8. ASSUME NEW x \in Slot PROVE JobSends(x)'
  <2>1. CASE x = s
    BY <1>2, <2>1 DEF JobSends, Working, Wire
  <2>2. CASE x # s
    BY <1>2, <1>3, <1>4, <1>7, <2>2 DEF SendInv, JobSends, Working, DeadAwaited
  <2> QED
    BY <2>1, <2>2
<1>9. ASSUME NEW u \in Task
      PROVE  RunSends(u)' /\ AlarmSends(u)' /\ (Beginning(u)' => Callless(u)')
  <2>1. CASE u = t
    <3>1. /\ run[t].at \notin {"COMMIT", "ROLLBACK"} /\ alarm[t].at # "ROLLBACK" /\ ~Beginning(t)
      BY <1>0 DEF SendInv, RunSends, AlarmSends, Callless
    <3> QED
      BY <1>2, <2>1, <3>1 DEF RunSends, AlarmSends, Beginning
  <2>2. CASE u # t
    BY <1>2, <1>3, <2>2, NoneAssumption
       DEF SendInv, RunSends, AlarmSends, Beginning, Callless, Working
  <2> QED
    BY <2>1, <2>2
<1> QED
  BY <1>2, <1>6, <1>8, <1>9 DEF SendInv

LEMMA QuerySends ==
    ASSUME TxInv, SendInv, NEW s \in Slot, QueryStep(s)
    PROVE  SendInv'
<1>1. PICK e \in Job : /\ job' = [job EXCEPT ![s] = e] /\ job[s].by = None /\ e.by = None
                       /\ e.at \in {"idle", "acquire", "statement", "validate"}
  BY DEF QueryStep
<1>2. \A x \in Slot : job'[x] = IF x = s THEN e ELSE job[x]
  BY <1>1 DEF TxInv, JobPart
<1>3. UNCHANGED <<transactions, tx, run, alarm, closer>>
  BY DEF QueryStep
<1>4. DeadAwaited
  BY DeadStays DEF QueryStep
<1>5. StackPart'
  BY <1>1, <1>2, StackKept DEF SendInv
<1>6. ASSUME NEW x \in Slot PROVE JobSends(x)'
  <2>1. CASE x = s
    BY <1>1, <1>2, <2>1, NoneAssumption DEF JobSends, Working, Wire
  <2>2. CASE x # s
    BY <1>2, <1>3, <1>4, <2>2 DEF SendInv, JobSends, Working, DeadAwaited
  <2> QED
    BY <2>1, <2>2
<1>7. \A u \in Task : RunSends(u)' /\ AlarmSends(u)' /\ (Beginning(u)' => Callless(u)')
  BY <1>1, <1>2, <1>3, NoneAssumption
     DEF SendInv, RunSends, AlarmSends, Beginning, Callless, Working
<1> QED
  BY <1>3, <1>5, <1>6, <1>7 DEF SendInv

LEMMA SendInit == Init => SendInv
<1> SUFFICES ASSUME Init PROVE SendInv
  OBVIOUS
<1>1. /\ \A s \in Slot : job[s] = Idle
      /\ Idle.by = None /\ Idle.at = "idle" /\ \A t \in Task : t # None
  BY IdleJob, NoneAssumption DEF Init
<1>2. StackPart
  <2> SUFFICES ASSUME NEW t \in Task PROVE \E n \in Nat : \E q \in [1 .. n -> Slot] : Stacked(t, n, q)
    BY DEF StackPart
  <2> DEFINE q == [i \in 1 .. 0 |-> CHOOSE s \in Slot : TRUE]
  <2>1. q \in [1 .. 0 -> Slot] /\ 0 \in Nat /\ \A i : i \notin 1 .. 0
    OBVIOUS
  <2> HIDE DEF q
  <2>2. Stacked(t, 0, q)
    BY <1>1, <2>1 DEF Stacked
  <2> QED
    BY <2>1, <2>2
<1>3. \A s \in Slot : JobSends(s)
  BY <1>1 DEF JobSends, Working, Wire
<1>4. \A t \in Task : RunSends(t) /\ AlarmSends(t) /\ (Beginning(t) => Callless(t))
  BY <1>1 DEF Init, Rest, RunSends, AlarmSends, Beginning, Callless
<1> QED
  BY <1>2, <1>3, <1>4 DEF Init, SendInv

LEMMA SendNext ==
    ASSUME TxInv, BeginPart, LeaveInv, SendInv, LabelsApart, ~Overlaps, ~Disconnects, [Next]_vars
    PROVE  SendInv'
<1>1. CASE UNCHANGED vars
  <2>1. UNCHANGED <<transactions, tx, run, job, alarm, closer, dead>>
    BY <1>1 DEF vars, engine, calls, wires
  <2> QED
    BY <2>1 DEF SendInv, StackPart, Stacked, JobSends, RunSends, AlarmSends, Working, Beginning,
                Callless
<1>2. ASSUME NEW t \in Task,
             \/ Begin(t) \/ BeginAcquired(t) \/ BeginAcquireFailed(t)
             \/ BeginFailed(t) \/ BeginDone(t) \/ Enter(t)
             \/ Resolve(t) \/ CommitDone(t) \/ CommitFailed(t)
             \/ Throw(t) \/ ThrowRolledBack(t)
             \/ Fire(t) \/ FireRolledBack(t)
      PROVE  SendInv'
  BY <1>2, BeginSends, EndSends, TimeoutSends
<1>3. CASE Disconnect \/ DisconnectNext \/ DisconnectRolledBack
  BY <1>3 DEF Disconnect, DisconnectNext, DisconnectRolledBack, SendInv
<1>4. ASSUME NEW s \in Slot,
             \/ \E p \in Task \cup Slot : Execute(s, p) \/ OpenBlock(s, p)
             \/ StatementDone(s) \/ StatementFailed(s) \/ AutoRollbackToDone(s)
             \/ AutoRollbackToFailed(s)
             \/ OpenBlockDone(s) \/ OpenBlockFailed(s) \/ EnterBlock(s)
             \/ BlockThrows(s) \/ BlockUnwound(s) \/ BlockReleases(s) \/ BlockReleased(s)
      PROVE  SendInv'
  BY <1>4, CallSends
<1>5. ASSUME NEW s \in Slot,
             \/ Query(s) \/ QueryAcquired(s) \/ QueryAcquireFailed(s)
             \/ QueryDone(s) \/ QueryFailed(s) \/ QueryValidated(s)
      PROVE  SendInv'
  BY <1>5, QuerySteps, QuerySends
<1>6. ASSUME NEW s \in Slot, AutoRolledBack(s) PROVE SendInv'
  BY <1>6, AutoRolledBackSends
<1> QED
  BY <1>1, <1>2, <1>3, <1>4, <1>5, <1>6 DEF Next

\* Who sends in t's transaction.
Sends(x, t) == \/ x = t /\ run[t].at \in {"COMMIT", "ROLLBACK"}
               \/ x \in Slot /\ Working(x) /\ job[x].by = t
               \/ x = <<"alarm", t>> /\ alarm[t].at = "ROLLBACK"

LEMMA OneSender ==
    ASSUME LeaveInv, SendInv, NEW t \in Task, NEW x, NEW y, Sends(x, t), Sends(y, t)
    PROVE  x = y
<1>1. ASSUME x \in Slot, y \in Slot, Working(x), Working(y), job[x].by = t, job[y].by = t
      PROVE  x = y
  <2>1. PICK n \in Nat : \E q \in [1 .. n -> Slot] : Stacked(t, n, q)
    BY DEF SendInv, StackPart
  <2>2. PICK q \in [1 .. n -> Slot] : Stacked(t, n, q)
    BY <2>1
  <2>3. \A z \in Slot : job[z].by = t /\ Working(z) => z = q[n]
    <3> SUFFICES ASSUME NEW z \in Slot, job[z].by = t, Working(z) PROVE z = q[n]
      OBVIOUS
    <3>1. PICK i \in 1 .. n : q[i] = z
      BY <2>2 DEF Stacked
    <3>2. ~(i < n)
      BY <2>2, <3>1 DEF Stacked, Working, Wire
    <3> QED
      BY <3>1, <3>2
  <2> QED
    BY <1>1, <2>3
<1>2. run[t].at \in {"COMMIT", "ROLLBACK"} => Callless(t) /\ alarm[t].at # "ROLLBACK"
  BY DEF SendInv, RunSends, AlarmSends, LeaveInv, RunLeaves, Undone
<1>3. alarm[t].at = "ROLLBACK" => \A s \in Slot : Working(s) => job[s].by # t
  BY DEF SendInv, AlarmSends
<1> QED
  BY <1>1, <1>2, <1>3 DEF Sends, Callless

\* The sender of a request on a connection that is not destroyed, and the
\* holder of this connection for which it sends.
SendsFor(x, h) == \/ \E t \in Task : x = t /\ h = <<"begin", t>>
                  \/ \E s \in Slot : x = s /\ h = <<"query", s>>
                  \/ \E t \in Task : h = <<"record", Label[t]>> /\ Sends(x, t)

LEMMA SendersHold ==
    ASSUME TxInv, LeaveInv, SendInv, NEW c \in Conn \ dead, NEW x \in Awaiting(c)
    PROVE  \E h \in Holder : hold[h] = c /\ SendsFor(x, h)
<1>0. \A t \in Task : /\ Label[t] \in Name /\ t # None
                      /\ run[t].at \in RunAt /\ alarm[t].at \in {"idle", "ROLLBACK"}
  BY LabelAssumption, NoneAssumption DEF TxInv, RunPart, WatchPart, Runner, Alarm
<1>1. ASSUME NEW t \in Task, transactions[Label[t]] = t, tx[t].client = c, Sends(x, t)
      PROVE  \E h \in Holder : hold[h] = c /\ SendsFor(x, h)
  <2>1. RecHold(Label[t]) = c
    BY <1>0, <1>1 DEF RecHold, Registered
  <2>2. <<"record", Label[t]>> \in Holder /\ hold[<<"record", Label[t]>>] = c
    BY <1>0, <2>1, HoldParts
  <2> QED
    BY <1>1, <2>2 DEF SendsFor
<1>2. ASSUME NEW t \in Task, x = t, run[t].at \in Wire, run[t].on = c
      PROVE  \E h \in Holder : hold[h] = c /\ SendsFor(x, h)
  <2>1. CASE run[t].at = "BEGIN"
    BY <1>2, <2>1, HoldParts DEF BegHold, SendsFor
  <2>2. CASE run[t].at # "BEGIN"
    <3>1. run[t].at \in {"COMMIT", "ROLLBACK"}
      BY <1>0, <1>2, <2>2 DEF RunAt, Wire
    <3> QED
      BY <1>1, <1>2, <3>1 DEF Sends, SendInv, RunSends, LeaveInv, RunLeaves
  <2> QED
    BY <2>1, <2>2
<1>3. ASSUME NEW s \in Slot, x = s, job[s].at \in Wire, job[s].on = c
      PROVE  \E h \in Holder : hold[h] = c /\ SendsFor(x, h)
  <2>1. CASE job[s].by \in Task
    <3>1. Working(s)
      BY <1>3, <2>1 DEF Working
    <3> QED
      BY <1>1, <1>3, <2>1, <3>1 DEF Sends, SendInv, JobSends
  <2>2. CASE job[s].by \notin Task
    <3>1. Solo(s)
      BY <1>3, <2>2, JobTypes DEF Solo, SendInv, JobSends, TxInv, JobPart, OneOf
    <3> QED
      BY <1>3, <3>1, HoldParts DEF QueHold, SendsFor
  <2> QED
    BY <2>1, <2>2
<1>4. ASSUME NEW t \in Task, x = <<"alarm", t>>, alarm[t].at \in Wire, alarm[t].on = c
      PROVE  \E h \in Holder : hold[h] = c /\ SendsFor(x, h)
  <2>1. alarm[t].at = "ROLLBACK"
    BY <1>0, <1>4 DEF Wire
  <2> QED
    BY <1>1, <1>4, <2>1 DEF Sends, SendInv, AlarmSends, LeaveInv, AlarmLeaves
<1>5. closer.at \notin Wire
  BY DEF SendInv, Wire
<1> QED
  BY <1>2, <1>3, <1>4, <1>5 DEF Awaiting

LEMMA OneAwaits ==
    ASSUME TxInv, HoldInv, LeaveInv, SendInv, LabelsApart
    PROVE  OneRequestAtATime
<1> SUFFICES ASSUME NEW c \in Conn \ dead PROVE Cardinality(Awaiting(c)) <= 1
  BY DEF OneRequestAtATime
<1>1. ASSUME NEW x \in Awaiting(c), NEW y \in Awaiting(c) PROVE x = y
  <2>1. PICK g \in Holder : hold[g] = c /\ SendsFor(x, g)
    BY SendersHold
  <2>2. PICK h \in Holder : hold[h] = c /\ SendsFor(y, h)
    BY SendersHold
  <2>3. g = h
    BY <2>1, <2>2, NoneAssumption DEF HoldInv, OneHolder
  <2>4. \A t, u \in Task : <<"record", Label[t]>> = <<"record", Label[u]>> => t = u
    BY DEF LabelsApart
  <2> QED
    BY <2>1, <2>2, <2>3, <2>4, OneSender DEF SendsFor
<1>2. CASE Awaiting(c) = {}
  BY <1>2, FS_EmptySet
<1>3. CASE Awaiting(c) # {}
  <2>1. PICK x : x \in Awaiting(c)
    BY <1>3
  <2>2. Awaiting(c) = {x}
    BY <1>1, <2>1
  <2>3. Cardinality({x}) = 1
    BY FS_Singleton
  <2> QED
    BY <2>2, <2>3
<1> QED
  BY <1>2, <1>3

\* "A transaction is bound to one connection that cannot multiplex, so an
\* overlapping op is refused": statements, the savepoints of nested scopes, the
\* roll back of a failed statement, of a callback that threw or of the timeout,
\* and the commit: no two of them, and nothing of another user of the pool, are
\* under way on one live connection, when every task has an id of its own,
\* callbacks await each call before the next and nobody disconnects.
THEOREM OneRequestAtATimeHolds ==
    ASSUME LabelsApart, ~Overlaps, ~Disconnects
    PROVE  Spec => []OneRequestAtATime
<1> DEFINE I == TxProof /\ LeaveInv /\ SendInv
<1>1. Init => I
  BY TxInvInit, HoldInit, LeaveInit, SendInit DEF TxProof
<1>2. I /\ [Next]_vars => I'
  BY TxInvNext, HoldStep, LeaveStep, SendNext DEF TxProof
<1>3. I => OneRequestAtATime
  BY OneAwaits DEF TxProof
<1> HIDE DEF I
<1> QED
  BY <1>1, <1>2, <1>3, PTL DEF Spec

-----------------------------------------------------------------------------
(* Savepoints: what the engine believes in and what the server knows.      *)

Points == 1 .. MaxSavepoints
Rising(k) == \A i, j \in DOMAIN k : i < j => k[i] < k[j]
Within(k, m) == \A x \in Points : Holds(k, x) => Holds(m, x)

LEMMA PointsOf ==
    ASSUME NEW k \in Stack
    PROVE  /\ Len(k) \in Nat /\ DOMAIN k = 1 .. Len(k)
           /\ \A i \in 1 .. Len(k) : k[i] \in Points /\ k[i] \in Int
           /\ \A x : Holds(k, x) <=> \E i \in 1 .. Len(k) : k[i] = x
           /\ \A x : Holds(k, x) => x \in Points
<1>1. Len(k) \in Nat /\ DOMAIN k = 1 .. Len(k)
  BY LenProperties DEF Stack
<1>2. \A i \in 1 .. Len(k) : k[i] \in Points
  BY ElementOfSeq, Zenon DEF Stack, Points
<1>3. \A i \in 1 .. Len(k) : k[i] \in Int
  BY <1>2, OptionAssumption DEF Points
<1> QED
  BY <1>1, <1>2, <1>3, Zenon DEF Holds

LEMMA RisingStack ==
    ASSUME NEW k \in Stack
    PROVE  Rising(k) <=> \A i, j \in 1 .. Len(k) : i < j => k[i] < k[j]
BY PointsOf DEF Rising

LEMMA NoPoints == <<>> \in Stack /\ Rising(<<>>) /\ \A x : ~Holds(<<>>, x)
<1>1. <<>> \in Stack
  BY DEF Stack
<1>2. DOMAIN <<>> = {}
  OBVIOUS
<1> QED
  BY <1>1, <1>2 DEF Rising, Holds

LEMMA FirstOfStack ==
    ASSUME NEW k \in Stack, NEW m \in 0 .. Len(k)
    PROVE  Len(SubSeq(k, 1, m)) = m /\ \A i \in 1 .. m : SubSeq(k, 1, m)[i] = k[i]
<1>1. Len(k) \in Nat
  BY PointsOf
<1> QED
  BY <1>1 DEF Stack

\* Of increasing savepoints, a roll back leaves those up to the one named, a
\* release those before it.
LEMMA TrimRises ==
    ASSUME NEW k \in Stack, Rising(k), NEW name \in Int, NEW extra \in {0, 1}
    PROVE  /\ Trim(k, name, extra) \in Stack /\ Rising(Trim(k, name, extra))
           /\ \A x \in Points :
                 Holds(Trim(k, name, extra), x)
                    <=> /\ Holds(k, x)
                        /\ Holds(k, name) => x < name \/ (x = name /\ extra = 1)
<1>0. Trim(k, name, extra) \in Stack
  BY TrimTypes
<1>1. CASE ~Holds(k, name)
  BY <1>0, <1>1 DEF Trim
<1>2. CASE Holds(k, name)
  <2> DEFINE i == IndexOf(k, name)
             m == i - 1 + extra
             r == SubSeq(k, 1, m)
  <2>1. i \in 1 .. Len(k) /\ k[i] = name
    <3>1. IndexOf(k, name) \in DOMAIN k /\ k[IndexOf(k, name)] = name
      BY <1>2 DEF Holds, IndexOf
    <3> QED
      BY <3>1, PointsOf
  <2>2. Trim(k, name, extra) = r
    BY <1>2 DEF Trim
  <2> HIDE DEF i
  <2>3. m \in 0 .. Len(k) /\ m \in Int /\ Len(k) \in Nat
    BY <2>1, PointsOf
  <2> HIDE DEF m
  <2>4. Len(r) = m /\ \A j \in 1 .. m : r[j] = k[j]
    BY <2>3, FirstOfStack
  <2> HIDE DEF r
  <2>5. \A j, l \in 1 .. Len(k) : j < l => k[j] < k[l]
    BY RisingStack
  <2>6. Rising(r)
    <3>1. \A j, l \in 1 .. Len(r) : j < l => r[j] < r[l]
      BY <2>3, <2>4, <2>5
    <3> QED
      BY <1>0, <2>2, <3>1, RisingStack
  <2>7. ASSUME NEW x \in Points
        PROVE  Holds(r, x) <=> Holds(k, x) /\ (x < name \/ (x = name /\ extra = 1))
    <3>1. ASSUME Holds(r, x) PROVE Holds(k, x) /\ (x < name \/ (x = name /\ extra = 1))
      <4>1. PICK j \in 1 .. Len(r) : r[j] = x
        BY <1>0, <2>2, <3>1, PointsOf
      <4>2. j \in 1 .. Len(k) /\ k[j] = x /\ j <= m
        BY <2>3, <2>4, <4>1
      <4>3. j < i => x < name
        BY <2>1, <2>5, <4>2
      <4>4. j >= i => j = i /\ extra = 1
        BY <2>1, <4>2 DEF m
      <4> QED
        BY <2>1, <4>2, <4>3, <4>4, PointsOf
    <3>2. ASSUME Holds(k, x), x < name \/ (x = name /\ extra = 1) PROVE Holds(r, x)
      <4>1. PICK j \in 1 .. Len(k) : k[j] = x
        BY <3>2, PointsOf
      <4>2. x \in Int
        BY OptionAssumption DEF Points
      <4>3. j <= i
        <5>1. i < j => name < x
          BY <2>1, <2>5, <4>1
        <5> QED
          BY <2>1, <3>2, <4>1, <4>2, <5>1
      <4>4. j = i => extra = 1
        BY <2>1, <3>2, <4>1, <4>2
      <4>5. j \in 1 .. m
        BY <2>1, <4>1, <4>3, <4>4 DEF m
      <4>6. j \in 1 .. Len(r) /\ r[j] = x
        BY <2>4, <4>1, <4>5
      <4> QED
        BY <1>0, <2>2, <4>6, PointsOf
    <3> QED
      BY <3>1, <3>2
  <2> QED
    BY <1>0, <1>2, <2>2, <2>6, <2>7
<1> QED
  BY <1>1, <1>2

\* A new savepoint comes last.
LEMMA AppendRises ==
    ASSUME NEW k \in Stack, Rising(k), NEW name \in Points, \A x \in Points : Holds(k, x) => x < name
    PROVE  /\ Append(k, name) \in Stack /\ Rising(Append(k, name))
           /\ \A x \in Points : Holds(Append(k, name), x) <=> Holds(k, x) \/ x = name
<1> DEFINE r == Append(k, name)
<1>1. /\ r \in Stack /\ Len(r) = Len(k) + 1 /\ r[Len(k) + 1] = name
      /\ \A i \in 1 .. Len(k) : r[i] = k[i]
  BY DEF Stack, Points
<1> HIDE DEF r
<1>2. Len(k) \in Nat /\ \A i \in 1 .. Len(k) : k[i] < name /\ k[i] \in Points
  BY PointsOf
<1>3. \A i, j \in 1 .. Len(r) : i < j => r[i] < r[j]
  <2> SUFFICES ASSUME NEW i \in 1 .. Len(r), NEW j \in 1 .. Len(r), i < j PROVE r[i] < r[j]
    OBVIOUS
  <2>1. i \in 1 .. Len(k) /\ (j \in 1 .. Len(k) \/ j = Len(k) + 1)
    BY <1>1, <1>2
  <2> QED
    BY <1>1, <1>2, <2>1, RisingStack
<1>4. ASSUME NEW x \in Points PROVE Holds(r, x) <=> Holds(k, x) \/ x = name
  <2>1. Holds(r, x) <=> \E i \in 1 .. Len(k) + 1 : r[i] = x
    BY <1>1, PointsOf
  <2>2. (\E i \in 1 .. Len(k) + 1 : r[i] = x) <=> (\E i \in 1 .. Len(k) : k[i] = x) \/ name = x
    <3>1. \A i \in 1 .. Len(k) + 1 : i \in 1 .. Len(k) \/ i = Len(k) + 1
      BY <1>2
    <3>2. \A i \in 1 .. Len(k) : i \in 1 .. Len(k) + 1
      BY <1>2
    <3>3. Len(k) + 1 \in 1 .. Len(k) + 1
      BY <1>2
    <3> QED
      BY <1>1, <3>1, <3>2, <3>3, Zenon
  <2> QED
    BY <2>1, <2>2, PointsOf
<1>5. Rising(r)
  BY <1>1, <1>3, RisingStack
<1> QED
  BY <1>1, <1>4, <1>5 DEF r

\* What a failed statement is undone to is the newest savepoint.
LEMMA LastRises ==
    ASSUME NEW k \in Stack, Rising(k), k # <<>>
    PROVE  /\ k[Len(k)] \in Points /\ Holds(k, k[Len(k)])
           /\ \A x \in Points : Holds(k, x) => x <= k[Len(k)]
<1>1. Len(k) \in 1 .. Len(k) /\ Len(k) \in Nat
  <2>1. Len(k) \in Nat \ {0}
    BY EmptySeq, Zenon DEF Stack
  <2> QED
    BY <2>1
<1>2. \A i \in 1 .. Len(k) : k[i] <= k[Len(k)]
  <2> SUFFICES ASSUME NEW i \in 1 .. Len(k) PROVE k[i] <= k[Len(k)]
    OBVIOUS
  <2>1. i < Len(k) => k[i] < k[Len(k)]
    BY <1>1, RisingStack
  <2>2. k[i] \in Int /\ k[Len(k)] \in Int /\ (i < Len(k) \/ i = Len(k))
    BY <1>1, PointsOf
  <2> QED
    BY <2>1, <2>2
<1> QED
  BY <1>1, <1>2, PointsOf

LEMMA WithinOrder ==
    ASSUME NEW k \in Stack, NEW m \in Stack, Rising(k), Rising(m), Within(k, m), NEW i \in DOMAIN k
    PROVE  /\ Holds(m, k[i])
           /\ \A j \in 1 .. i - 1 : IndexOf(m, k[j]) < IndexOf(m, k[i])
<1>1. /\ i \in 1 .. Len(k) /\ Len(k) \in Nat
      /\ \A j \in 1 .. i - 1 : j \in 1 .. Len(k) /\ j < i
  BY PointsOf
<1>2. \A j \in 1 .. Len(k) : Holds(m, k[j]) /\ k[j] \in Int
  BY PointsOf DEF Within
<1>3. \A x : Holds(m, x) => IndexOf(m, x) \in 1 .. Len(m) /\ m[IndexOf(m, x)] = x
  <2> SUFFICES ASSUME NEW x, Holds(m, x) PROVE IndexOf(m, x) \in DOMAIN m /\ m[IndexOf(m, x)] = x
    BY PointsOf
  <2> QED
    BY DEF Holds, IndexOf
<1>4. ASSUME NEW j \in 1 .. i - 1 PROVE IndexOf(m, k[j]) < IndexOf(m, k[i])
  <2> DEFINE a == IndexOf(m, k[j])
             b == IndexOf(m, k[i])
  <2>1. a \in 1 .. Len(m) /\ b \in 1 .. Len(m) /\ m[a] = k[j] /\ m[b] = k[i] /\ Len(m) \in Nat
    BY <1>1, <1>2, <1>3, PointsOf
  <2>2. k[j] < k[i]
    BY <1>1, RisingStack
  <2> HIDE DEF a, b
  <2>3. b < a => m[b] < m[a]
    BY <2>1, RisingStack
  <2>4. a < b
    BY SMTT(30), <1>1, <1>2, <2>1, <2>2, <2>3
  <2> QED
    BY <2>4 DEF a, b
<1> QED
  BY <1>1, <1>2, <1>4

\* Calls whose savepoint exists, and calls that undo a failed statement.
Opened == Nested \ {"SAVEPOINT"}
Opens(s, t, x) == job[s].by = t /\ job[s].at \in Opened /\ job[s].sp = x
Undoing(t) == \E s \in Slot : job[s].by = t /\ job[s].at = "ROLLBACK TO"

\* A block's savepoint is newer than that of the block around it, the one under
\* way is newer than all, and a failed statement is undone to the newest.
SavedCall(s, t, k, m) ==
    /\ job[s].at \in Nested =>
          /\ job[s].sp <= tx[t].spCounter
          /\ \A p \in Slot : job[s].from = p /\ job[p].by = t => job[p].sp < job[s].sp
    /\ job[s].at = "SAVEPOINT" => \A x \in Points : Holds(m, x) => x < job[s].sp
    /\ job[s].at = "ROLLBACK TO" => /\ Holds(k, job[s].sp)
                                    /\ \A x \in Points : Holds(k, x) => x <= job[s].sp

\* k is what the engine believes in, m what the server knows.
Saved(t, k, m) ==
    /\ Rising(k) /\ Rising(m)
    /\ Within(k, m) \/ (m = <<>> /\ Undoing(t))
    /\ \A x \in Points : /\ Holds(m, x) => x <= tx[t].spCounter
                         /\ Holds(k, x) => \E s \in Slot : Opens(s, t, x)
    /\ \A s \in Slot : job[s].by = t => SavedCall(s, t, k, m)

Believed(t) == tx[t].savepoints
Known(t) == marks[tx[t].client]
SavedTask(t) == tx[t].state = "ACTIVE" => /\ transactions[Label[t]] = t
                                          /\ Saved(t, Believed(t), Known(t))
SaveInv == /\ lent \cap dead = {}
           /\ \A t \in Task : SavedTask(t)

\* What the invariants say of an active record.
LEMMA ActiveTask ==
    ASSUME TxInv, SaveInv, NEW t \in Task, tx[t].state = "ACTIVE"
    PROVE  /\ transactions[Label[t]] = t /\ Label[t] \in Name /\ Registered(Label[t])
           /\ tx[t].client \in Conn /\ RecHold(Label[t]) = tx[t].client
           /\ Believed(t) \in Stack /\ Known(t) \in Stack /\ tx[t].spCounter \in 0 .. MaxSavepoints
           /\ Saved(t, Believed(t), Known(t))
<1>1. transactions[Label[t]] = t /\ Saved(t, Believed(t), Known(t))
  BY DEF SaveInv, SavedTask
<1>2. Label[t] \in Name /\ Registered(Label[t])
  BY <1>1, LabelAssumption, NoneAssumption DEF Registered
<1>3. tx[t].client \in Conn
  BY <1>1, <1>2 DEF TxInv, RegPart
<1>4. tx[t] \in Record
  BY DEF TxInv, RegPart
<1> QED
  BY <1>1, <1>2, <1>3, <1>4, RecordTypes DEF RecHold, Believed, Known, TxInv, WirePart

\* Registered records have connections of their own, which are alive.
LEMMA OwnConnection ==
    ASSUME TxInv, HoldInv, LabelsApart, lent \cap dead = {},
           NEW t \in Task, transactions[Label[t]] = t
    PROVE  /\ tx[t].client \in lent /\ tx[t].client \notin dead
           /\ \A u \in Task \ {t} : transactions[Label[u]] = u => tx[u].client # tx[t].client
           /\ \A u \in Task : run[u].at = "BEGIN" => run[u].on # tx[t].client
           /\ \A s \in Slot : Solo(s) => job[s].on # tx[t].client
<1>1. ASSUME NEW u \in Task, transactions[Label[u]] = u
      PROVE  /\ <<"record", Label[u]>> \in Holder /\ hold[<<"record", Label[u]>>] = tx[u].client
             /\ tx[u].client # None
  <2>1. Label[u] \in Name /\ Registered(Label[u])
    BY <1>1, LabelAssumption, NoneAssumption DEF Registered
  <2>2. tx[u].client \in Conn
    BY <1>1, <2>1 DEF TxInv, RegPart
  <2> QED
    BY <1>1, <2>1, <2>2, HoldParts, NoneAssumption DEF RecHold
<1>2. \A g, h \in Holder : hold[g] # None /\ hold[g] = hold[h] => g = h
  BY DEF HoldInv, OneHolder
<1>3. \A h \in Holder : hold[h] # None => hold[h] \in lent
  BY DEF HoldInv, OneHolder
<1> DEFINE c == tx[t].client
           g == <<"record", Label[t]>>
<1>4. g \in Holder /\ hold[g] = c /\ c # None
  BY <1>1
<1>5. \A h \in Holder : h # g => hold[h] # c
  BY <1>2, <1>4
<1>6. ASSUME NEW u \in Task \ {t}, transactions[Label[u]] = u PROVE tx[u].client # c
  <2>1. <<"record", Label[u]>> # g
    BY DEF LabelsApart
  <2> QED
    BY <1>1, <1>5, <1>6, <2>1
<1>7. ASSUME NEW u \in Task, run[u].at = "BEGIN" PROVE run[u].on # c
  <2>1. <<"begin", u>> \in Holder /\ hold[<<"begin", u>>] = run[u].on /\ <<"begin", u>> # g
    BY <1>7, HoldParts DEF BegHold
  <2> QED
    BY <1>5, <2>1
<1>8. ASSUME NEW s \in Slot, Solo(s) PROVE job[s].on # c
  <2>1. <<"query", s>> \in Holder /\ hold[<<"query", s>>] = job[s].on /\ <<"query", s>> # g
    BY <1>8, HoldParts DEF QueHold
  <2> QED
    BY <1>5, <2>1
<1>9. c \in lent
  BY <1>3, <1>4
<1> QED
  BY <1>6, <1>7, <1>8, <1>9

\* A step that leaves a transaction's savepoints and calls alone.
Spares(u) ==
    /\ tx'[u].client = tx[u].client /\ tx'[u].savepoints = tx[u].savepoints
    /\ tx'[u].spCounter = tx[u].spCounter
    /\ tx'[u].state = "ACTIVE" => /\ tx[u].state = "ACTIVE"
                                  /\ transactions'[Label[u]] = transactions[Label[u]]
                                  /\ marks'[tx[u].client] = marks[tx[u].client]

LEMMA SaveFrame ==
    ASSUME NEW u \in Task, SavedTask(u), Spares(u),
           \A s \in Slot : job[s].by = u \/ job'[s].by = u => job'[s] = job[s]
    PROVE  SavedTask(u)'
<1> SUFFICES ASSUME tx'[u].state = "ACTIVE"
             PROVE  transactions'[Label[u]] = u /\ Saved(u, Believed(u), Known(u))'
  BY DEF SavedTask
<1>1. transactions'[Label[u]] = u /\ Saved(u, Believed(u), Known(u))
  BY DEF SavedTask, Spares
<1>0. PICK k, m : k = Believed(u) /\ m = Known(u)
  OBVIOUS
<1>2. Believed(u)' = k /\ Known(u)' = m /\ tx'[u].spCounter = tx[u].spCounter
  BY <1>0 DEF Spares, Believed, Known
<1>3. Rising(k) /\ Rising(m) /\ (Within(k, m) \/ (m = <<>> /\ Undoing(u)))
  BY <1>0, <1>1 DEF Saved
<1>4. Undoing(u) => Undoing(u)'
  BY DEF Undoing
<1>5. ASSUME NEW x \in Points
      PROVE  /\ Holds(m, x) => x <= tx'[u].spCounter
             /\ Holds(k, x) => \E s \in Slot : Opens(s, u, x)'
  BY <1>0, <1>1, <1>2 DEF Saved, Opens
<1>6. ASSUME NEW s \in Slot, job'[s].by = u PROVE SavedCall(s, u, k, m)'
  <2>1. job'[s] = job[s] /\ SavedCall(s, u, k, m)
    BY <1>0, <1>1, <1>6 DEF Saved
  <2>2. \A p \in Slot : job'[p].by = u => job'[p] = job[p]
    OBVIOUS
  <2> QED
    BY <1>2, <2>1, <2>2 DEF SavedCall
<1> QED
  BY <1>1, <1>2, <1>3, <1>4, <1>5, <1>6 DEF Saved

LEMMA LeastOf ==
    ASSUME NEW S \in SUBSET Nat, S # {}
    PROVE  \E x \in S : \A y \in S : x <= y
<1>1. PICK x \in S : \A y \in S : ~(<<y, x>> \in OpToRel(<, Nat))
  BY NatLessThanWellFounded, WFMin, Zenon
<1>2. \A y \in S : y < x => <<y, x>> \in OpToRel(<, Nat)
  <2> SUFFICES ASSUME NEW y \in S, y < x PROVE <<y, x>> \in {z \in Nat \X Nat : z[1] < z[2]}
    BY Zenon DEF OpToRel
  <2> QED
    OBVIOUS
<1>3. \A y \in S : ~(y < x)
  BY <1>1, <1>2, Zenon
<1> QED
  BY <1>3

\* The innermost call is the last of the stack.
LEMMA Innermost ==
    ASSUME NEW t \in Task, NEW s \in Slot, job[s].by = t, job[s].at # "block" \/ Settled(s),
           NEW n \in Nat, NEW q \in [1 .. n -> Slot], Stacked(t, n, q)
    PROVE  n \in 1 .. n /\ q[n] = s
<1>1. PICK j \in 1 .. n : q[j] = s
  BY DEF Stacked
<1>2. ASSUME j < n PROVE FALSE
  <2>1. job[s].at = "block" /\ j + 1 \in 1 .. n /\ j + 1 # 1 /\ j + 1 - 1 = j
    BY <1>1, <1>2 DEF Stacked
  <2>2. q[j + 1] \in Slot /\ job[q[j + 1]].from = s
    BY <1>1, <2>1 DEF Stacked
  <2> QED
    BY <2>1, <2>2 DEF Settled
<1> QED
  BY <1>1, <1>2

\* Its savepoint is the newest of all those of t's blocks.
LEMMA NewestCall ==
    ASSUME TxInv, StackPart, NEW t \in Task, NEW k, NEW m, Saved(t, k, m),
           NEW s \in Slot, job[s].by = t, job[s].at # "block" \/ Settled(s), job[s].at \in Nested
    PROVE  \A z \in Slot : job[z].by = t => job[z].sp <= job[s].sp
<1> SUFFICES ASSUME NEW z \in Slot, job[z].by = t, ~(job[z].sp <= job[s].sp) PROVE FALSE
  OBVIOUS
<1>1. PICK n \in Nat : \E q \in [1 .. n -> Slot] : Stacked(t, n, q)
  BY DEF StackPart
<1>2. PICK q \in [1 .. n -> Slot] : Stacked(t, n, q)
  BY <1>1
<1>3. n \in 1 .. n /\ q[n] = s
  BY <1>2, Innermost
<1>4. \A x \in Slot : job[x].sp \in Int
  BY OptionAssumption DEF TxInv, JobPart, Job
<1>5. \A i \in 1 .. n : q[i] \in Slot /\ job[q[i]].by = t
  BY <1>2 DEF Stacked
<1> DEFINE S == {d \in Nat : d < n /\ job[s].sp < job[q[n - d]].sp}
<1>6. S \in SUBSET Nat /\ S # {}
  <2>1. PICK i \in 1 .. n : q[i] = z
    BY <1>2 DEF Stacked
  <2>2. n - i \in Nat /\ n - i < n /\ n - (n - i) = i
    OBVIOUS
  <2>3. n - i \in S
    BY <1>4, <2>1, <2>2
  <2> QED
    BY <2>3
<1>7. PICK d \in S : \A y \in S : d <= y
  BY <1>6, LeastOf
<1>8. d # 0 /\ d \in Nat /\ d < n
  BY <1>3, <1>4, <1>7
<1>9. /\ n - d \in 1 .. n /\ n - d + 1 \in 1 .. n /\ n - d + 1 # 1 /\ n - d + 1 - 1 = n - d
      /\ d - 1 \in Nat /\ d - 1 < n /\ n - (d - 1) = n - d + 1 /\ ~(d <= d - 1)
  BY <1>8
<1> DEFINE x == q[n - d + 1]
           p == q[n - d]
<1>10. x \in Slot /\ p \in Slot /\ job[x].by = t /\ job[p].by = t /\ job[x].from = p
  BY <1>2, <1>5, <1>9 DEF Stacked
<1>11. job[x].sp <= job[s].sp
  <2>1. d - 1 \notin S
    BY <1>7, <1>9
  <2> QED
    BY <1>4, <1>9, <1>10, <2>1
<1>12. job[x].at \in Nested
  <2>1. n - d + 1 < n => job[x].at = "block"
    BY <1>2, <1>9 DEF Stacked
  <2> QED
    BY <1>3, <1>9, <2>1 DEF Nested
<1>13. job[p].sp < job[x].sp
  <2> HIDE DEF x, p
  <2> QED
    BY <1>10, <1>12 DEF Saved, SavedCall
<1> QED
  BY <1>4, <1>7, <1>10, <1>11, <1>13

\* Nobody waits in a call that moves.
LEMMA Childless ==
    ASSUME TxInv, StackPart, NEW s \in Slot, NEW t \in Task, NEW e, Nests(s, t, e),
           NEW z \in Slot, job[z].by = t
    PROVE  job[z].from # s
<1> SUFFICES ASSUME job[z].from = s PROVE FALSE
  OBVIOUS
<1>1. PICK n \in Nat : \E q \in [1 .. n -> Slot] : Stacked(t, n, q)
  BY DEF StackPart
<1>2. PICK q \in [1 .. n -> Slot] : Stacked(t, n, q)
  BY <1>1
<1>3. PICK i \in 1 .. n : q[i] = z
  BY <1>2 DEF Stacked
<1>4. t # s
  BY NamesAssumption
<1>5. i # 1 /\ i - 1 \in 1 .. n /\ i - 1 < n /\ q[i - 1] = s
  BY <1>2, <1>3, <1>4 DEF Stacked
<1>6. job[s].by = t /\ job[s].at = "block" /\ ~Settled(s)
  BY <1>2, <1>5 DEF Stacked, Settled
<1> QED
  BY <1>6, IdleJob, NoneAssumption DEF Nests

\* Unless the call that moves undoes a failed statement, what the engine
\* believes in exists.
LEMMA StillWithin ==
    ASSUME TxInv, StackPart, NEW s \in Slot, NEW t \in Task, NEW e, Nests(s, t, e),
           job[s].by = t => job[s].at # "ROLLBACK TO", NEW k, NEW m, Saved(t, k, m)
    PROVE  Within(k, m)
<1>1. \A z \in Slot : job[z].by = t => job[z].at # "ROLLBACK TO"
  BY OthersInBlocks
<1> QED
  BY <1>1 DEF Saved, Undoing

\* The step of slot s as a call e in t's transaction, which is the only one it
\* touches, at the engine and at the server.
RecordsOf(t) ==
    /\ \A u \in Task : tx'[u].client = tx[u].client
    /\ \A u \in Task \ {t} : /\ tx'[u].savepoints = tx[u].savepoints
                             /\ tx'[u].spCounter = tx[u].spCounter /\ tx'[u].state = tx[u].state
    /\ tx'[t].state = "ACTIVE" => tx[t].state = "ACTIVE"
MarksOf(t) == \A c \in Conn : \/ marks'[c] = marks[c] \/ c \in dead
                              \/ c = tx[t].client /\ transactions[Label[t]] = t
Acts(s, t, e) == /\ job' = [job EXCEPT ![s] = e] /\ Nests(s, t, e)
                 /\ UNCHANGED <<transactions, lent, dead>> /\ RecordsOf(t) /\ MarksOf(t)

LEMMA ActsSpare ==
    ASSUME TxInv, HoldInv, LabelsApart, SaveInv, NEW s \in Slot, NEW t \in Task, NEW e, Acts(s, t, e),
           SavedTask(t)'
    PROVE  SaveInv'
<1>1. ASSUME NEW u \in Task, u # t PROVE SavedTask(u)'
  <2>1. \A x \in Slot : job[x].by = u \/ job'[x].by = u => job'[x] = job[x]
    <3>1. \A x \in Slot : job'[x] = IF x = s THEN e ELSE job[x]
      BY DEF Acts, TxInv, JobPart
    <3>2. job[s].by # u /\ e.by # u
      BY <1>1, IdleJob, NoneAssumption DEF Acts, Nests
    <3> QED
      BY <3>1, <3>2
  <2>2. SavedTask(u) /\ lent \cap dead = {}
    BY DEF SaveInv
  <2>3. Spares(u)
    <3>1. ASSUME tx[u].state = "ACTIVE" PROVE marks'[tx[u].client] = marks[tx[u].client]
      <4>1. transactions[Label[u]] = u /\ tx[u].client \in Conn
        BY <3>1, ActiveTask
      <4>2. /\ tx[u].client \notin dead
            /\ transactions[Label[t]] = t => tx[t].client # tx[u].client
        BY <1>1, <2>2, <4>1, OwnConnection
      <4> QED
        BY <4>1, <4>2 DEF Acts, MarksOf
    <3> QED
      BY <1>1, <3>1 DEF Acts, RecordsOf, Spares
  <2> QED
    BY <2>1, <2>2, <2>3, SaveFrame
<1> QED
  BY <1>1 DEF SaveInv, Acts

LEMMA CallPoints == TxInv => \A x \in Slot : job[x].sp \in 0 .. MaxSavepoints /\ job[x].sp \in Int
BY OptionAssumption DEF TxInv, JobPart, Job

LEMMA Counted ==
    TxInv => \A t \in Task : /\ tx[t].spCounter \in 0 .. MaxSavepoints /\ tx[t].spCounter \in Int
                             /\ tx[t].spCounter <= tx[t].spCounter
<1>1. TxInv => \A t \in Task : tx[t] \in Record
  BY DEF TxInv, RegPart
<1>2. \A n \in 0 .. MaxSavepoints : n \in Int /\ n <= n
  BY OptionAssumption
<1> QED
  BY <1>1, <1>2, RecordTypes, Zenon

LEMMA FromAnother ==
    ASSUME TxInv, StackPart, NEW s \in Slot, NEW t \in Task, NEW e, Nests(s, t, e)
    PROVE  e.from # s
<1>1. CASE job[s] = Idle
  BY <1>1, NamesAssumption, NoneAssumption DEF Nests, Idle
<1>2. CASE job[s].by = t
  <2>1. job[s].from # s
    BY <1>2, Childless
  <2> QED
    BY <1>2, <2>1, NoneAssumption DEF Nests, Idle
<1> QED
  BY <1>1, <1>2 DEF Nests

\* The savepoints of the call's own transaction: the engine believed in those
\* of k; after the step it believes in k2 and the server knows m2.
Leaves(s, t, e, k, k2, m2) ==
    /\ Rising(k2) /\ Rising(m2)
    /\ Within(k2, m2) \/ (m2 = <<>> /\ e.by = t /\ e.at = "ROLLBACK TO")
    /\ tx'[t].spCounter \in Int /\ tx[t].spCounter <= tx'[t].spCounter
    /\ \A x \in Points : /\ Holds(m2, x) => x <= tx'[t].spCounter
                         /\ Holds(k2, x) => \/ Holds(k, x) /\ ~Opens(s, t, x)
                                            \/ e.by = t /\ e.at \in Opened /\ e.sp = x
    /\ e.by = t =>
          /\ e.at \in Nested =>
                /\ e.sp <= tx'[t].spCounter
                /\ \A p \in Slot : e.from = p /\ job[p].by = t => job[p].sp < e.sp
          /\ e.at = "SAVEPOINT" => \A x \in Points : Holds(m2, x) => x < e.sp
          /\ e.at = "ROLLBACK TO" => /\ Holds(k2, e.sp)
                                     /\ \A x \in Points : Holds(k2, x) => x <= e.sp

LEMMA OwnStep ==
    ASSUME TxInv, StackPart, NEW s \in Slot, NEW t \in Task, NEW e, Acts(s, t, e),
           NEW k, NEW m, Saved(t, k, m), transactions[Label[t]] = t,
           NEW k2, NEW m2, k2 = Believed(t)', m2 = Known(t)', Leaves(s, t, e, k, k2, m2)
    PROVE  SavedTask(t)'
<1>0. \A x \in Slot : job'[x] = IF x = s THEN e ELSE job[x]
  BY DEF Acts, TxInv, JobPart
<1>1. Nests(s, t, e)
  BY DEF Acts
<1>2. \A x \in Slot \ {s} : job[x].by = t => job[x].at = "block" /\ job[x].from # s
  BY <1>1, OthersInBlocks, Childless
<1>3. Within(k2, m2) \/ (m2 = <<>> /\ Undoing(t)')
  BY <1>0 DEF Undoing, Leaves
<1>4. ASSUME NEW x \in Points, Holds(k2, x) PROVE \E z \in Slot : Opens(z, t, x)'
  <2>1. CASE Holds(k, x) /\ ~Opens(s, t, x)
    <3>1. PICK z \in Slot : Opens(z, t, x)
      BY <2>1 DEF Saved
    <3> QED
      BY <1>0, <2>1, <3>1 DEF Opens
  <2>2. CASE e.by = t /\ e.at \in Opened /\ e.sp = x
    BY <1>0, <2>2 DEF Opens
  <2> QED
    BY <1>4, <2>1, <2>2 DEF Leaves
<1>5. e.from # s
  BY <1>1, FromAnother
<1>6. ASSUME NEW z \in Slot, job'[z].by = t PROVE SavedCall(z, t, k2, m2)'
  <2>1. CASE z = s
    <3>1. \A p \in Slot : e.from = p /\ job'[p].by = t => job'[p] = job[p]
      BY <1>0, <1>5
    <3> QED
      BY <1>0, <1>6, <2>1, <3>1 DEF SavedCall, Leaves
  <2>2. CASE z # s
    <3>1. job'[z] = job[z] /\ job[z].by = t /\ job[z].at = "block" /\ job[z].from # s
      BY <1>0, <1>2, <1>6, <2>2
    <3>2. SavedCall(z, t, k, m)
      BY <3>1 DEF Saved
    <3>3. /\ job[z].sp <= tx[t].spCounter
          /\ \A p \in Slot : job[z].from = p /\ job[p].by = t => job[p].sp < job[z].sp
      BY <3>1, <3>2 DEF SavedCall, Nested
    <3>4. \A p \in Slot : job[z].from = p => job'[p] = job[p]
      BY <1>0, <3>1
    <3>5. job[z].sp <= tx'[t].spCounter
      <4>1. job[z].sp \in Int /\ tx[t].spCounter \in Int
        BY CallPoints, Counted
      <4>2. tx'[t].spCounter \in Int /\ tx[t].spCounter <= tx'[t].spCounter
        BY DEF Leaves
      <4>3. \A a, b, c \in Int : a <= b /\ b <= c => a <= c
        OBVIOUS
      <4> QED
        BY <3>3, <4>1, <4>2, <4>3, Zenon
    <3> QED
      BY <3>1, <3>3, <3>4, <3>5 DEF SavedCall
  <2> QED
    BY <2>1, <2>2
<1>7. Saved(t, k2, m2)'
  BY <1>3, <1>4, <1>6 DEF Saved, Leaves
<1>8. transactions'[Label[t]] = t
  BY DEF Acts
<1> QED
  BY <1>7, <1>8 DEF SavedTask

\* How the step of a call keeps the savepoints.
LEMMA ActsSave ==
    ASSUME TxInv, HoldInv, LabelsApart, SendInv, SaveInv, NEW s \in Slot, NEW t \in Task, NEW e,
           Acts(s, t, e),
           tx'[t].state = "ACTIVE" => Leaves(s, t, e, Believed(t), Believed(t)', Known(t)')
    PROVE  SaveInv'
<1>1. SavedTask(t)'
  <2>1. CASE tx'[t].state # "ACTIVE"
    BY <2>1 DEF SavedTask
  <2>2. CASE tx'[t].state = "ACTIVE"
    <3>1. tx[t].state = "ACTIVE"
      BY <2>2 DEF Acts, RecordsOf
    <3>2. PICK k, m, k2, m2 : /\ k = Believed(t) /\ m = Known(t)
                              /\ k2 = Believed(t)' /\ m2 = Known(t)'
      OBVIOUS
    <3>3. Saved(t, k, m) /\ transactions[Label[t]] = t /\ StackPart
      BY <3>1, <3>2, ActiveTask DEF SendInv
    <3>4. Leaves(s, t, e, k, k2, m2)
      BY <2>2, <3>2
    <3> QED
      BY <3>2, <3>3, <3>4, OwnStep
  <2> QED
    BY <2>1, <2>2
<1> QED
  BY <1>1, ActsSpare

\* The savepoints stay as they are, and so does the block that moves.
LEMMA LeavesSame ==
    ASSUME TxInv, NEW s \in Slot, NEW t \in Task, NEW e, NEW k, NEW m, Saved(t, k, m), Within(k, m),
           tx'[t].spCounter = tx[t].spCounter,
           \/ /\ e.by # t \/ e.at \notin Nested \cup {"ROLLBACK TO"}
              /\ job[s].by # t \/ job[s].at \notin Opened
           \/ /\ job[s].by = t /\ job[s].at \in Opened
              /\ e.by = t /\ e.at \in Opened /\ e.sp = job[s].sp /\ e.from = job[s].from
    PROVE  Leaves(s, t, e, k, k, m)
<1>1. /\ tx'[t].spCounter \in Int /\ tx[t].spCounter <= tx'[t].spCounter
      /\ \A x \in Points : Holds(m, x) => x <= tx'[t].spCounter
  <2>1. tx[t].spCounter \in Int /\ tx[t].spCounter <= tx[t].spCounter
    BY Counted
  <2>2. \A x \in Points : Holds(m, x) => x <= tx[t].spCounter
    BY DEF Saved
  <2> QED
    BY <2>1, <2>2, Zenon
<1>2. Rising(k) /\ Rising(m)
  BY DEF Saved
<1>3. job[s].by = t => SavedCall(s, t, k, m)
  BY DEF Saved
<1>4. ASSUME NEW x \in Points, Holds(k, x)
      PROVE  \/ Holds(k, x) /\ ~Opens(s, t, x)
             \/ e.by = t /\ e.at \in Opened /\ e.sp = x
  BY <1>4 DEF Opens
<1>5. ASSUME e.by = t
      PROVE  /\ e.at \in Nested =>
                   /\ e.sp <= tx'[t].spCounter
                   /\ \A p \in Slot : e.from = p /\ job[p].by = t => job[p].sp < e.sp
             /\ e.at \notin {"SAVEPOINT", "ROLLBACK TO"}
  BY <1>3, <1>5 DEF SavedCall, Opened, Nested
<1> QED
  BY <1>1, <1>2, <1>4, <1>5 DEF Leaves

\* The stack is trimmed at the savepoint of the block that moves, whether or
\* not the server trims its own.
LEMMA LeavesTrimmed ==
    ASSUME TxInv, StackPart, NEW s \in Slot, NEW t \in Task, NEW e, Nests(s, t, e), job[s].by = t,
           job[s].at \in Opened, NEW k \in Stack, NEW m \in Stack, Saved(t, k, m),
           tx'[t].spCounter = tx[t].spCounter, NEW extra \in {0, 1},
           NEW k2, k2 = Trim(k, job[s].sp, extra),
           NEW m2, m2 = m \/ m2 = Trim(m, job[s].sp, extra),
           extra = 1 => /\ e.by = t /\ e.at \in Opened
                        /\ e.sp = job[s].sp /\ e.from = job[s].from,
           extra = 0 => e.by # t
    PROVE  Leaves(s, t, e, k, k2, m2)
<1> DEFINE name == job[s].sp
<1>0. name \in Int /\ tx[t].spCounter \in Int
  BY CallPoints, Counted
<1>1. Within(k, m) /\ Rising(k) /\ Rising(m)
  <2>1. job[s].at # "ROLLBACK TO"
    BY DEF Opened, Nested
  <2> QED
    BY <2>1, StillWithin DEF Saved
<1>2. \A x \in Points : Holds(k, x) => x <= name
  <2>1. \A z \in Slot : job[z].by = t => job[z].sp <= name
    <3>1. job[s] # Idle /\ job[s].at \in Nested
      BY NoneAssumption DEF Idle, Opened
    <3>2. job[s].at # "block" \/ Settled(s)
      BY <3>1 DEF Nests
    <3> QED
      BY <3>1, <3>2, NewestCall
  <2> QED
    BY <2>1 DEF Saved, Opens
<1>3. /\ Rising(k2)
      /\ \A x \in Points : Holds(k2, x) <=> /\ Holds(k, x)
                                            /\ Holds(k, name) => x < name \/ (x = name /\ extra = 1)
  BY <1>0, <1>1, TrimRises
<1>4. /\ Rising(m2)
      /\ \A x \in Points : Holds(m2, x) => Holds(m, x)
      /\ \A x \in Points : Holds(m, x) /\ (x < name \/ (x = name /\ extra = 1)) => Holds(m2, x)
  <2>1. CASE m2 = m
    BY <1>1, <2>1
  <2>2. CASE m2 = Trim(m, name, extra)
    BY <1>0, <1>1, <2>2, TrimRises
  <2> QED
    BY <2>1, <2>2
<1>5. \A x \in Points : Holds(k2, x) => /\ Holds(k, x)
                                        /\ x < name \/ (x = name /\ extra = 1)
  <2> SUFFICES ASSUME NEW x \in Points, Holds(k2, x)
               PROVE  Holds(k, x) /\ (x < name \/ (x = name /\ extra = 1))
    OBVIOUS
  <2>1. Holds(k, x) /\ x <= name /\ x \in Int
    BY <1>2, <1>3, OptionAssumption DEF Points
  <2>2. x < name \/ x = name
    BY <1>0, <2>1
  <2> QED
    BY <1>3, <2>1, <2>2
<1> HIDE DEF name
<1>6. Within(k2, m2)
  BY <1>1, <1>4, <1>5 DEF Within
<1>7. \A x \in Points : Holds(m2, x) => x <= tx[t].spCounter
  BY <1>4 DEF Saved
<1>8. tx'[t].spCounter \in Int /\ tx[t].spCounter <= tx'[t].spCounter
  BY <1>0
<1>9. ASSUME NEW x \in Points, Holds(k2, x)
      PROVE  \/ Holds(k, x) /\ ~Opens(s, t, x)
             \/ e.by = t /\ e.at \in Opened /\ e.sp = x
  BY <1>0, <1>5, <1>9 DEF Opens, name
<1>10. SavedCall(s, t, k, m)
  BY DEF Saved
<1>11. ASSUME e.by = t
       PROVE  /\ e.at \in Nested =>
                    /\ e.sp <= tx'[t].spCounter
                    /\ \A p \in Slot : e.from = p /\ job[p].by = t => job[p].sp < e.sp
              /\ e.at \notin {"SAVEPOINT", "ROLLBACK TO"}
  BY <1>10, <1>11 DEF SavedCall, Opened, Nested
<1> QED
  BY <1>3, <1>4, <1>6, <1>7, <1>8, <1>9, <1>11 DEF Leaves

\* What the updates of a record leave of it.
Alike(a, b) == /\ a.client = b.client /\ a.state = b.state
               /\ a.savepoints = b.savepoints /\ a.spCounter = b.spCounter

LEMMA RecordUpdates ==
    ASSUME NEW f \in [Task -> Record], NEW r, NEW u \in Task
    PROVE  /\ \A b : Alike([f EXCEPT ![r].busy = b][u], f[u])
           /\ \A k : /\ [f EXCEPT ![r].savepoints = k][u].client = f[u].client
                     /\ [f EXCEPT ![r].savepoints = k][u].state = f[u].state
                     /\ [f EXCEPT ![r].savepoints = k][u].spCounter = f[u].spCounter
                     /\ [f EXCEPT ![r].savepoints = k][u].savepoints
                            = IF u = r THEN k ELSE f[u].savepoints
           /\ \A x : /\ [f EXCEPT ![r].state = x, ![r].timer = FALSE][u].client = f[u].client
                     /\ [f EXCEPT ![r].state = x, ![r].timer = FALSE][u].state
                            = IF u = r THEN x ELSE f[u].state
                     /\ [f EXCEPT ![r].state = x, ![r].timer = FALSE][u].spCounter = f[u].spCounter
                     /\ [f EXCEPT ![r].state = x, ![r].timer = FALSE][u].savepoints
                            = f[u].savepoints
<1>1. \A b : Alike([f EXCEPT ![r].busy = b][u], f[u])
  BY DEF Alike, Record
<1>2. ASSUME NEW k
      PROVE  /\ [f EXCEPT ![r].savepoints = k][u].client = f[u].client
             /\ [f EXCEPT ![r].savepoints = k][u].state = f[u].state
             /\ [f EXCEPT ![r].savepoints = k][u].spCounter = f[u].spCounter
             /\ [f EXCEPT ![r].savepoints = k][u].savepoints
                    = IF u = r THEN k ELSE f[u].savepoints
  BY DEF Record
<1>3. ASSUME NEW x
      PROVE  /\ [f EXCEPT ![r].state = x, ![r].timer = FALSE][u].client = f[u].client
             /\ [f EXCEPT ![r].state = x, ![r].timer = FALSE][u].state
                    = IF u = r THEN x ELSE f[u].state
             /\ [f EXCEPT ![r].state = x, ![r].timer = FALSE][u].spCounter = f[u].spCounter
             /\ [f EXCEPT ![r].state = x, ![r].timer = FALSE][u].savepoints = f[u].savepoints
  BY DEF Record
<1> QED
  BY <1>1, <1>2, <1>3

\* A turn that is taken or given back; a transaction that starts to end.
LEMMA TurnRecords ==
    ASSUME TxInv, NEW t \in Task, \A u \in Task : Alike(tx'[u], tx[u])
    PROVE  RecordsOf(t) /\ tx'[t].spCounter = tx[t].spCounter /\ Believed(t)' = Believed(t)
BY DEF RecordsOf, Alike, Believed

LEMMA TurnsAlike ==
    ASSUME TxInv
    PROVE  /\ \A r : \A u \in Task : Alike(Claimed(r)[u], tx[u])
           /\ \A f \in [Task -> Record] : \A q : \A u \in Task : Alike(FreeTurn(f, q)[u], f[u])
BY RecordUpdates DEF Claimed, FreeTurn, TxInv, RegPart

LEMMA LeavingRecords ==
    ASSUME TxInv, NEW t \in Task, transactions[Label[t]] = t, NEW x, x # "ACTIVE",
           tx' = Leaving(Label[t], x)
    PROVE  RecordsOf(t) /\ tx'[t].state # "ACTIVE"
<1>1. tx' = [tx EXCEPT ![t].state = x, ![t].timer = FALSE] /\ tx \in [Task -> Record]
  BY DEF Leaving, TxInv, RegPart
<1> QED
  BY <1>1, RecordUpdates DEF RecordsOf

\* The call of slot s awaits an answer on the connection of its transaction.
LEMMA TurnOf ==
    ASSUME TxInv, SendInv, NEW s \in Slot, job[s].at \in Wire, job[s].by # None
    PROVE  /\ job[s].by \in Task /\ Working(s) /\ job[s].at # "block"
           /\ job[s].turn = job[s].by /\ job[s].on = tx[job[s].by].client
           /\ \/ transactions[Label[job[s].by]] = job[s].by
              \/ job[s].on \in dead
           /\ job[s] \in Job
<1>1. job[s].by \in Task /\ Working(s) /\ job[s] \in Job
  BY JobTypes DEF Working, TxInv, JobPart, OneOf
<1> QED
  BY <1>1 DEF SendInv, JobSends, Wire

LEMMA MarksStay ==
    ASSUME TxInv, NEW t \in Task
    PROVE  /\ UNCHANGED marks => MarksOf(t)
           /\ \A c, v : /\ marks' = [marks EXCEPT ![c] = v] /\ c = tx[t].client
                        /\ transactions[Label[t]] = t \/ c \in dead
                        => /\ MarksOf(t)
                           /\ tx[t].client \in Conn => marks'[tx[t].client] = v
BY DEF MarksOf, TxInv, WirePart

\* An active record is the one its id has.
LEMMA ActiveOwn ==
    ASSUME TxInv, BeginPart, LeaveInv, LabelsApart, SaveInv, NEW t \in Task
    PROVE  Active(Label[t]) <=> tx[t].state = "ACTIVE"
<1>1. ASSUME tx[t].state = "ACTIVE" PROVE Active(Label[t])
  BY <1>1, ActiveTask DEF Active
<1> QED
  BY <1>1, OwnActive

\* A call that touches no savepoints.
LEMMA QuietCall ==
    ASSUME TxInv, HoldInv, LabelsApart, SendInv, SaveInv, NEW s \in Slot, NEW t \in Task, NEW e,
           job' = [job EXCEPT ![s] = e], Nests(s, t, e),
           UNCHANGED <<transactions, lent, dead, marks>>, \A u \in Task : Alike(tx'[u], tx[u]),
           job[s].by = t => job[s].at # "ROLLBACK TO",
           \/ /\ e.by # t \/ e.at \notin Nested \cup {"ROLLBACK TO"}
              /\ job[s].by # t \/ job[s].at \notin Opened
           \/ /\ job[s].by = t /\ job[s].at \in Opened
              /\ e.by = t /\ e.at \in Opened /\ e.sp = job[s].sp /\ e.from = job[s].from
    PROVE  SaveInv'
<1>1. RecordsOf(t) /\ tx'[t].spCounter = tx[t].spCounter /\ Believed(t)' = Believed(t)
  BY TurnRecords
<1>2. Acts(s, t, e)
  BY <1>1, MarksStay DEF Acts
<1>3. ASSUME tx'[t].state = "ACTIVE"
      PROVE  Leaves(s, t, e, Believed(t), Believed(t)', Known(t)')
  <2>1. tx[t].state = "ACTIVE"
    BY <1>1, <1>3 DEF RecordsOf
  <2>2. PICK k, m : k = Believed(t) /\ m = Known(t)
    OBVIOUS
  <2>3. Saved(t, k, m) /\ StackPart
    BY <2>1, <2>2, ActiveTask DEF SendInv
  <2>4. Within(k, m)
    BY <2>3, StillWithin
  <2>5. Known(t)' = m
    BY <1>1, <2>2 DEF Known, RecordsOf
  <2>6. Leaves(s, t, e, k, k, m)
    BY <1>1, <2>3, <2>4, LeavesSame
  <2> QED
    BY <1>1, <2>2, <2>5, <2>6
<1> QED
  BY <1>2, <1>3, ActsSave

\* A call of a transaction that is not, or not any more, active.
LEMMA GoneCall ==
    ASSUME TxInv, HoldInv, LabelsApart, SendInv, SaveInv, NEW s \in Slot, NEW t \in Task, NEW e,
           Acts(s, t, e), tx'[t].state # "ACTIVE"
    PROVE  SaveInv'
BY ActsSave

LEMMA QuietEnds ==
    ASSUME TxInv, HoldInv, LabelsApart, SendInv, SaveInv, NEW s \in Slot, EndTurn(s), UNCHANGED marks,
           UNCHANGED <<transactions, lent, dead>>, job[s].by # None,
           job[s].at \in {"statement", "SAVEPOINT"}
    PROVE  SaveInv'
<1> DEFINE t == job[s].by
<1>1. t \in Task /\ job[s].at # "block" /\ tx \in [Task -> Record]
  BY TurnOf DEF Wire, TxInv, RegPart
<1>2. Nests(s, t, Idle) /\ job' = [job EXCEPT ![s] = Idle] /\ Idle.by # t
  BY <1>1, IdleJob, NoneAssumption DEF EndTurn, Nests
<1>3. \A u \in Task : Alike(tx'[u], tx[u])
  BY <1>1, TurnsAlike DEF EndTurn
<1>4. job[s].at \notin Opened /\ job[s].at # "ROLLBACK TO"
  BY DEF Opened, Nested
<1> HIDE DEF t
<1> QED
  BY <1>1, <1>2, <1>3, <1>4, QuietCall

\* A statement, or the savepoint of a block, begins.
LEMMA Begins ==
    ASSUME TxInv, BeginPart, LeaveInv, LabelsApart, ~Overlaps, NEW s \in Slot,
           NEW p \in Task \cup Slot, Execute(s, p) \/ OpenBlock(s, p),
           NEW t, t = Caller(p)
    PROVE  /\ t \in Task /\ job[s] = Idle /\ job[s].by # t /\ transactions[Label[t]] = t
           /\ tx[t].state = "ACTIVE"
           /\ \A e : e.by = t /\ e.from = p => Nests(s, t, e)
           /\ \A z \in Slot : p = z /\ job[z].by = t => job[z].at = "block"
<1>1. /\ job[s] = Idle /\ scope[p] # None /\ t \in Task /\ Settled(p) /\ Active(Label[t])
  BY ScopeTask DEF Execute, OpenBlock, Free, MayCall, TxInv
<1>2. transactions[Label[t]] = t /\ tx[t].state = "ACTIVE"
  BY <1>1, OwnActive
<1>3. p = t \/ (p \in Slot /\ job[p].by = t /\ job[p].at = "block")
  BY <1>1 DEF Caller, TxInv, JobPart
<1>4. job[s].by # t
  BY <1>1, IdleJob, NoneAssumption
<1>5. \A e : e.by = t /\ e.from = p => Nests(s, t, e)
  BY <1>1, <1>3 DEF Nests
<1>6. \A z \in Slot : p = z /\ job[z].by = t => job[z].at = "block"
  BY <1>1, <1>3, NamesAssumption
<1> QED
  BY <1>1, <1>2, <1>4, <1>5, <1>6

LEMMA ExecuteSaves ==
    ASSUME TxInv, BeginPart, HoldInv, LeaveInv, SendInv, SaveInv, LabelsApart, ~Overlaps,
           NEW s \in Slot, NEW p \in Task \cup Slot, Execute(s, p)
    PROVE  SaveInv'
<1>0. PICK t : t = Caller(p)
  OBVIOUS
<1> DEFINE e == [Idle EXCEPT !.at = "statement", !.by = t, !.from = p,
                             !.on = tx[t].client, !.turn = t]
<1>1. /\ t \in Task /\ job[s] = Idle /\ job[s].by # t /\ transactions[Label[t]] = t
      /\ \A d : d.by = t /\ d.from = p => Nests(s, t, d)
  BY <1>0, Begins
<1>2. job' = [job EXCEPT ![s] = e] /\ tx' = Claimed(t) /\ UNCHANGED <<transactions, lent, dead, marks>>
  BY <1>0, <1>1 DEF Execute, wires
<1>3. e.by = t /\ e.from = p /\ e.at = "statement"
  BY DEF Idle
<1> HIDE DEF e
<1>4. e.at \notin Nested \cup {"ROLLBACK TO"} /\ Nests(s, t, e)
  BY <1>1, <1>3 DEF Nested
<1>5. \A u \in Task : Alike(tx'[u], tx[u])
  BY <1>2, TurnsAlike
<1> QED
  BY <1>1, <1>2, <1>4, <1>5, QuietCall

LEMMA CountUpdates ==
    ASSUME TxInv, NEW t \in Task, tx[t].spCounter + 1 \in 0 .. MaxSavepoints
    PROVE  LET counted == [tx EXCEPT ![t].spCounter = @ + 1]
           IN  /\ counted \in [Task -> Record]
               /\ \A u \in Task : /\ counted[u].client = tx[u].client
                                  /\ counted[u].state = tx[u].state
                                  /\ counted[u].savepoints = tx[u].savepoints
                                  /\ counted[u].spCounter
                                        = IF u = t THEN tx[t].spCounter + 1 ELSE tx[u].spCounter
<1> DEFINE n == tx[t].spCounter + 1
           counted == [tx EXCEPT ![t].spCounter = n]
<1>1. counted \in [Task -> Record]
  BY QuietUpdates DEF TxInv, RegPart, Quiet
<1>2. tx \in [Task -> Record]
  BY DEF TxInv, RegPart
<1>3. \A u \in Task : /\ counted[u].client = tx[u].client
                      /\ counted[u].state = tx[u].state
                      /\ counted[u].savepoints = tx[u].savepoints
                      /\ counted[u].spCounter = IF u = t THEN n ELSE tx[u].spCounter
  <2> HIDE DEF n
  <2> QED
    BY <1>2 DEF Record
<1> QED
  BY <1>1, <1>3

\* A savepoint is counted that no call creates.
LEMMA CountSaves ==
    ASSUME TxInv, SaveInv, UNCHANGED <<job, transactions, lent, dead, marks>>,
           \A u \in Task : /\ tx'[u].client = tx[u].client /\ tx'[u].state = tx[u].state
                           /\ tx'[u].savepoints = tx[u].savepoints
                           /\ tx'[u].spCounter \in Int /\ tx[u].spCounter <= tx'[u].spCounter
    PROVE  SaveInv'
<1>1. ASSUME NEW u \in Task, tx[u].state = "ACTIVE" PROVE Saved(u, Believed(u), Known(u))'
  <2>1. PICK k, m, a, b : k = Believed(u) /\ m = Known(u) /\ a = tx[u].spCounter /\ b = tx'[u].spCounter
    OBVIOUS
  <2>2. Believed(u)' = k /\ Known(u)' = m /\ Saved(u, k, m) /\ a \in Int /\ b \in Int /\ a <= b
    BY <1>1, <2>1, ActiveTask, Counted DEF Believed, Known
  <2>3. \A c \in Int : c <= a => c <= b
    BY <2>2
  <2>4. \A x \in Points : x \in Int
    BY OptionAssumption DEF Points
  <2>5. \A x \in Points : /\ Holds(m, x) => x <= b
                          /\ Holds(k, x) => \E z \in Slot : Opens(z, u, x)'
    <3>1. \A x \in Points : /\ Holds(m, x) => x <= a
                            /\ Holds(k, x) => \E z \in Slot : Opens(z, u, x)
      BY <2>1, <2>2, Zenon DEF Saved
    <3>2. \A z, x : Opens(z, u, x)' <=> Opens(z, u, x)
      BY Zenon DEF Opens
    <3> QED
      BY <2>3, <2>4, <3>1, <3>2, Zenon
  <2>6. ASSUME NEW z \in Slot, job'[z].by = u PROVE SavedCall(z, u, k, m)'
    <3>1. SavedCall(z, u, k, m)
      BY <2>2, <2>6, Zenon DEF Saved
    <3>2. job[z].sp \in Int
      BY CallPoints
    <3>3. job[z].at \in Nested => job[z].sp <= b
      BY <2>1, <2>3, <3>1, <3>2, Zenon DEF SavedCall
    <3> QED
      BY <2>1, <3>1, <3>3, Zenon DEF SavedCall
  <2>7. Rising(k) /\ Rising(m) /\ (Within(k, m) \/ (m = <<>> /\ Undoing(u)'))
    BY <2>2, Zenon DEF Saved, Undoing
  <2>8. Saved(u, k, m)'
    BY <2>1, <2>5, <2>6, <2>7, Zenon DEF Saved
  <2> QED
    BY <2>2, <2>8
<1>2. ASSUME NEW u \in Task PROVE SavedTask(u)'
  BY <1>1, ActiveTask DEF SavedTask
<1> QED
  BY <1>2 DEF SaveInv

\* A block's savepoint is newer than all that the server knows and than that of
\* the block around it.
LEMMA LeavesOpening ==
    ASSUME TxInv, NEW s \in Slot, NEW t \in Task, NEW e, NEW k, NEW m, Saved(t, k, m), Within(k, m),
           tx'[t].spCounter = tx[t].spCounter + 1, job[s].by # t,
           e.by = t, e.at = "SAVEPOINT", e.sp = tx[t].spCounter + 1,
           \A z \in Slot : e.from = z /\ job[z].by = t => job[z].at = "block"
    PROVE  Leaves(s, t, e, k, k, m)
<1>1. PICK a, n : a = tx[t].spCounter /\ n = tx[t].spCounter + 1
  OBVIOUS
<1>2. a \in Int /\ n \in Int /\ a <= n /\ n <= n /\ \A c \in Int : c <= a => c <= n /\ c < n
  BY <1>1, Counted
<1>3. \A x \in Points : Holds(m, x) => x <= n /\ x < n
  <2>1. \A x \in Points : Holds(m, x) => x <= a
    BY <1>1, Zenon DEF Saved
  <2>2. \A x \in Points : x \in Int
    BY OptionAssumption DEF Points
  <2> QED
    BY <1>2, <2>1, <2>2, Zenon
<1>4. ASSUME NEW z \in Slot, e.from = z, job[z].by = t PROVE job[z].sp < n
  <2>1. SavedCall(z, t, k, m)
    BY <1>4, Zenon DEF Saved
  <2>2. job[z].sp <= a
    BY <1>1, <1>4, <2>1 DEF SavedCall, Nested
  <2>3. job[z].sp \in Int
    BY CallPoints
  <2> QED
    BY <1>2, <2>2, <2>3, Zenon
<1>5. tx[t].spCounter = a /\ tx'[t].spCounter = n /\ e.sp = n
  BY <1>1
<1>6. Rising(k) /\ Rising(m)
  BY DEF Saved
<1>7. ASSUME NEW x \in Points, Holds(k, x) PROVE Holds(k, x) /\ ~Opens(s, t, x)
  BY <1>7 DEF Opens
<1>8. e.at # "ROLLBACK TO"
  OBVIOUS
<1> QED
  BY <1>2, <1>3, <1>4, <1>5, <1>6, <1>7, <1>8, Zenon DEF Leaves

LEMMA OpenBlockSaves ==
    ASSUME TxInv, BeginPart, HoldInv, LeaveInv, SendInv, SaveInv, LabelsApart, ~Overlaps,
           NEW s \in Slot, NEW p \in Task \cup Slot, OpenBlock(s, p)
    PROVE  SaveInv'
<1>0. PICK t, n : t = Caller(p) /\ n = tx[Caller(p)].spCounter + 1
  OBVIOUS
<1> DEFINE counted == [tx EXCEPT ![t].spCounter = @ + 1]
           e == [Idle EXCEPT !.at = "SAVEPOINT", !.by = t, !.from = p, !.on = tx[t].client,
                             !.turn = t, !.sp = n]
<1>1. /\ t \in Task /\ job[s] = Idle /\ job[s].by # t /\ transactions[Label[t]] = t
      /\ tx[t].state = "ACTIVE"
      /\ \A d : d.by = t /\ d.from = p => Nests(s, t, d)
      /\ \A z \in Slot : p = z /\ job[z].by = t => job[z].at = "block"
  BY <1>0, Begins
<1>2. /\ tx[t].spCounter < MaxSavepoints
      /\ \/ tx' = counted /\ UNCHANGED job
         \/ tx' = [counted EXCEPT ![t].busy = TRUE] /\ job' = [job EXCEPT ![s] = e]
      /\ UNCHANGED <<transactions, lent, dead, marks>>
  BY <1>0, <1>1 DEF OpenBlock, wires
<1>3. e.by = t /\ e.from = p /\ e.at = "SAVEPOINT" /\ e.sp = n
  BY DEF Idle
<1>4. n = tx[t].spCounter + 1 /\ n \in 0 .. MaxSavepoints /\ n \in Int /\ tx[t].spCounter <= n
  BY <1>0, <1>1, <1>2, Counted, OptionAssumption
<1>5. /\ counted \in [Task -> Record]
      /\ \A u \in Task : /\ counted[u].client = tx[u].client
                         /\ counted[u].state = tx[u].state
                         /\ counted[u].savepoints = tx[u].savepoints
                         /\ counted[u].spCounter = IF u = t THEN n ELSE tx[u].spCounter
  BY <1>1, <1>4, CountUpdates
<1> HIDE DEF e, counted
<1>6. \A u \in Task : /\ tx'[u].client = tx[u].client /\ tx'[u].state = tx[u].state
                      /\ tx'[u].savepoints = tx[u].savepoints
                      /\ tx'[u].spCounter = IF u = t THEN n ELSE tx[u].spCounter
  <2>1. CASE tx' = counted
    BY <1>5, <2>1
  <2>2. CASE tx' = [counted EXCEPT ![t].busy = TRUE]
    <3>1. \A u \in Task : Alike(tx'[u], counted[u])
      BY <1>5, <2>2, RecordUpdates
    <3> QED
      BY <1>5, <3>1 DEF Alike
  <2> QED
    BY <1>2, <2>1, <2>2
<1>7. CASE UNCHANGED job
  <2>1. \A u \in Task : tx'[u].spCounter \in Int /\ tx[u].spCounter <= tx'[u].spCounter
    BY <1>4, <1>6, Counted
  <2> QED
    BY <1>2, <1>6, <1>7, <2>1, CountSaves
<1>8. CASE job' = [job EXCEPT ![s] = e]
  <2>1. Nests(s, t, e)
    BY <1>1, <1>3
  <2>2. RecordsOf(t)
    BY <1>1, <1>6 DEF RecordsOf
  <2>3. Acts(s, t, e)
    BY <1>1, <1>2, <1>8, <2>1, <2>2, MarksStay DEF Acts
  <2>4. PICK k, m : k = Believed(t) /\ m = Known(t)
    OBVIOUS
  <2>5. Saved(t, k, m) /\ StackPart
    BY <1>1, <2>4, ActiveTask DEF SendInv
  <2>6. tx'[t].client = tx[t].client /\ tx'[t].savepoints = tx[t].savepoints /\ tx'[t].spCounter = n
    BY <1>1, <1>6
  <2>7. Believed(t)' = k /\ Known(t)' = m
    BY <1>2, <2>4, <2>6 DEF Believed, Known
  <2>8. Within(k, m)
    BY <1>1, <2>1, <2>5, StillWithin
  <2>9. Leaves(s, t, e, k, k, m)
    BY <1>1, <1>3, <1>4, <2>5, <2>6, <2>8, LeavesOpening
  <2> QED
    BY <1>1, <2>3, <2>4, <2>7, <2>9, ActsSave
<1> QED
  BY <1>2, <1>7, <1>8

LEMMA QuietSaves ==
    ASSUME TxInv, HoldInv, LabelsApart, SendInv, SaveInv, NEW s \in Slot,
           StatementDone(s) \/ OpenBlockFailed(s) \/ EnterBlock(s)
    PROVE  SaveInv'
<1>1. job[s] \in Job /\ GoodJob(job[s])
  BY DEF TxInv, JobPart
<1>2. CASE StatementDone(s)
  BY <1>2, QuietEnds DEF StatementDone, InTransaction, wires
<1>3. CASE OpenBlockFailed(s)
  <2>1. job[s].by # None
    BY <1>1, <1>3, NoneAssumption DEF OpenBlockFailed, GoodJob, Nested
  <2> QED
    BY <1>3, <2>1, QuietEnds DEF OpenBlockFailed, wires
<1>4. CASE EnterBlock(s)
  <2>1. PICK t, e : t = job[s].by /\ e = [job[s] EXCEPT !.at = "block"]
    OBVIOUS
  <2>2. t \in Task /\ job[s].at = "opened"
    BY <1>1, <1>4, <2>1 DEF EnterBlock, GoodJob, Nested
  <2>3. e.by = t /\ e.from = job[s].from /\ e.sp = job[s].sp /\ e.at = "block"
    BY <1>1, <2>1 DEF Job
  <2>4. job' = [job EXCEPT ![s] = e]
    BY <1>4, <2>1 DEF EnterBlock
  <2>5. UNCHANGED <<transactions, tx, lent, dead, marks>>
    BY <1>4 DEF EnterBlock, engine, wires
  <2>6. Nests(s, t, e)
    BY <2>1, <2>2, <2>3 DEF Nests
  <2>7. \A u \in Task : Alike(tx'[u], tx[u])
    BY <2>5 DEF Alike
  <2>8. /\ job[s].by = t /\ job[s].at \in Opened /\ job[s].at # "ROLLBACK TO"
        /\ e.at \in Opened
    BY <2>1, <2>2, <2>3 DEF Opened, Nested
  <2> QED
    BY <2>2, <2>3, <2>4, <2>5, <2>6, <2>7, <2>8, QuietCall
<1> QED
  BY <1>2, <1>3, <1>4

\* What the server answers on the connection of the call's own transaction.
LEMMA AnswerMarks ==
    ASSUME TxInv, SendInv, NEW s \in Slot, job[s].at \in Wire, job[s].by # None, NEW v,
           UNCHANGED marks \/ marks' = [marks EXCEPT ![job[s].on] = v]
    PROVE  /\ MarksOf(job[s].by)
           /\ \/ UNCHANGED marks
              \/ tx[job[s].by].client \in Conn => marks'[tx[job[s].by].client] = v
<1>1. job[s].by \in Task
  BY TurnOf
<1>2. CASE UNCHANGED marks
  BY <1>1, <1>2, MarksStay
<1>3. CASE marks' = [marks EXCEPT ![job[s].on] = v]
  BY ZenonT(40), <1>1, <1>3, TurnOf, MarksStay
<1> QED
  BY <1>2, <1>3

\* The whole transaction is rolled back, or has ended already.
LEMMA AutoRollbackSaves ==
    ASSUME TxInv, BeginPart, HoldInv, LeaveInv, SendInv, SaveInv, LabelsApart, NEW s \in Slot,
           job[s].by # None, job[s].at \in {"statement", "ROLLBACK TO"}, AutoRollbackAll(s),
           UNCHANGED <<transactions, lent, dead>>, UNCHANGED marks \/ ServerEnds(job[s].on)
    PROVE  SaveInv'
<1>1. PICK t, e : t = job[s].by /\ e = [job[s] EXCEPT !.at = "ROLLBACK", !.on = tx[job[s].by].client,
                                                       !.rec = job[s].by]
  OBVIOUS
<1>2. t \in Task /\ job[s].at # "block" /\ job[s] \in Job /\ MarksOf(t) /\ job[s] # Idle
  BY <1>1, TurnOf, AnswerMarks, IdleJob, NoneAssumption DEF Wire, ServerEnds
<1>3. CASE Active(Label[t]) /\ tx' = Leaving(Label[t], "ROLLING_BACK")
           /\ job' = [job EXCEPT ![s].at = "ROLLBACK", ![s].on = tx[transactions[Label[t]]].client,
                                 ![s].rec = transactions[Label[t]]]
  <2>1. transactions[Label[t]] = t
    BY <1>2, <1>3, OwnActive
  <2>2. job' = [job EXCEPT ![s] = e]
    BY <1>1, <1>3, <2>1
  <2>3. RecordsOf(t) /\ tx'[t].state # "ACTIVE"
    BY <1>2, <1>3, <2>1, LeavingRecords
  <2>4. e.by = t /\ e.from = job[s].from
    BY <1>1, <1>2 DEF Job
  <2>5. Nests(s, t, e)
    BY <1>1, <1>2, <2>4 DEF Nests
  <2>6. Acts(s, t, e)
    BY <1>2, <2>2, <2>3, <2>5 DEF Acts
  <2> QED
    BY <1>2, <2>3, <2>6, GoneCall
<1>4. CASE ~Active(Label[t]) /\ EndTurn(s)
  <2>1. tx[t].state # "ACTIVE"
    BY <1>2, <1>4, ActiveOwn
  <2>2. \A u \in Task : Alike(tx'[u], tx[u])
    BY <1>4, TurnsAlike DEF EndTurn, TxInv, RegPart
  <2>3. RecordsOf(t) /\ tx'[t].state # "ACTIVE"
    BY <1>2, <2>1, <2>2, TurnRecords DEF Alike
  <2>4. Nests(s, t, Idle) /\ job' = [job EXCEPT ![s] = Idle]
    BY <1>1, <1>2, <1>4 DEF Nests, EndTurn
  <2>5. Acts(s, t, Idle)
    BY <1>2, <2>3, <2>4 DEF Acts
  <2> QED
    BY <1>2, <2>3, <2>5, GoneCall
<1> QED
  BY <1>1, <1>3, <1>4 DEF AutoRollbackAll

\* The failed statement is undone to the newest savepoint, which a deadlock may
\* have taken away.
LEMMA LeavesUndoing ==
    ASSUME TxInv, NEW s \in Slot, NEW t \in Task, NEW e, NEW k \in Stack, NEW m, Saved(t, k, m),
           Within(k, m), NEW m2, m2 = m \/ m2 = <<>>, tx'[t].spCounter = tx[t].spCounter,
           job[s].at = "statement", e.by = t, e.at = "ROLLBACK TO", k # <<>>, e.sp = k[Len(k)]
    PROVE  Leaves(s, t, e, k, k, m2)
<1>1. Rising(k) /\ Rising(m2) /\ \A x \in Points : Holds(m2, x) => x <= tx[t].spCounter
  BY NoPoints DEF Saved
<1>2. Within(k, m2) \/ m2 = <<>>
  OBVIOUS
<1>3. tx[t].spCounter \in Int /\ tx[t].spCounter <= tx[t].spCounter
  BY Counted
<1>4. \A x \in Points : ~Opens(s, t, x)
  BY DEF Opens, Opened, Nested
<1>5. Holds(k, e.sp) /\ \A x \in Points : Holds(k, x) => x <= e.sp
  BY <1>1, LastRises
<1>6. e.at \notin Nested /\ e.at # "SAVEPOINT"
  BY DEF Nested
<1> QED
  BY <1>1, <1>2, <1>3, <1>4, <1>5, <1>6, Zenon DEF Leaves

LEMMA StatementFailedSaves ==
    ASSUME TxInv, BeginPart, HoldInv, LeaveInv, SendInv, SaveInv, LabelsApart, AutoRollback = TRUE,
           NEW s \in Slot, StatementFailed(s)
    PROVE  SaveInv'
<1>0. /\ job[s].by # None /\ job[s].at = "statement" /\ UNCHANGED <<transactions, lent, dead>>
      /\ UNCHANGED marks \/ ServerEnds(job[s].on)
  BY DEF StatementFailed, InTransaction, ServerKeeps
<1>1. CASE AutoRollbackAll(s)
  BY <1>0, <1>1, AutoRollbackSaves
<1>2. CASE ~AutoRollbackAll(s)
  <2>1. PICK t, k, m, c : t = job[s].by /\ k = Believed(t) /\ m = Known(t) /\ c = tx[t].client
    OBVIOUS
  <2>2. PICK e : e = [job[s] EXCEPT !.at = "ROLLBACK TO", !.on = c, !.sp = k[Len(k)]]
    OBVIOUS
  <2>3. t \in Task /\ job[s].at # "block" /\ job[s] \in Job /\ job[s] # Idle
    BY ZenonT(40), <1>0, <2>1, TurnOf, IdleJob, NoneAssumption DEF Wire
  <2>4. Active(Label[t]) /\ transactions[Label[t]] = t /\ tx[t].state = "ACTIVE"
    BY <1>2, <2>1, <2>3, OwnActive DEF StatementFailed
  <2>5. UNCHANGED tx /\ job' = [job EXCEPT ![s] = e] /\ k # <<>>
    BY <1>2, <2>1, <2>2, <2>4 DEF StatementFailed, Believed
  <2>6. e.by = t /\ e.from = job[s].from /\ e.at = "ROLLBACK TO" /\ e.sp = k[Len(k)]
    BY <2>1, <2>2, <2>3 DEF Job
  <2>7. Nests(s, t, e)
    BY <2>1, <2>3, <2>6 DEF Nests
  <2>8. RecordsOf(t) /\ tx'[t].spCounter = tx[t].spCounter /\ Believed(t)' = k
    BY <2>1, <2>3, <2>5 DEF RecordsOf, Believed
  <2>9. c \in Conn /\ k \in Stack /\ Saved(t, k, m) /\ StackPart
    BY <2>1, <2>3, <2>4, ActiveTask DEF SendInv
  <2>10. MarksOf(t) /\ (UNCHANGED marks \/ marks'[c] = <<>>)
    BY <1>0, <2>1, <2>9, AnswerMarks DEF Wire, ServerEnds
  <2>11. PICK m2 : m2 = Known(t)'
    OBVIOUS
  <2>12. m2 = m \/ m2 = <<>>
    BY <2>1, <2>5, <2>10, <2>11 DEF Known
  <2>13. Within(k, m)
    BY <1>0, <2>3, <2>7, <2>9, StillWithin
  <2>14. Leaves(s, t, e, k, k, m2)
    BY <1>0, <2>3, <2>5, <2>6, <2>8, <2>9, <2>12, <2>13, LeavesUndoing
  <2>15. Acts(s, t, e)
    BY <1>0, <2>5, <2>7, <2>8, <2>10 DEF Acts
  <2> QED
    BY <2>1, <2>3, <2>8, <2>11, <2>14, <2>15, ActsSave
<1> QED
  BY SMTT(30), <1>1, <1>2

LEMMA AutoRollbackToFailedSaves ==
    ASSUME TxInv, BeginPart, HoldInv, LeaveInv, SendInv, SaveInv, LabelsApart, NEW s \in Slot,
           AutoRollbackToFailed(s)
    PROVE  SaveInv'
BY AutoRollbackSaves DEF AutoRollbackToFailed, InTransaction, wires

LEMMA PointOrder == /\ \A x \in Points : x \in Int
                    /\ \A x, y \in Int : x <= y => x < y \/ x = y
BY OptionAssumption DEF Points

\* The failed statement is undone: what the server forgets, the engine did not
\* believe in.
LEMMA LeavesUndone ==
    ASSUME TxInv, NEW s \in Slot, NEW t \in Task, NEW k, NEW m \in Stack, Saved(t, k, m),
           tx'[t].spCounter = tx[t].spCounter, job[s].by = t, job[s].at = "ROLLBACK TO",
           Holds(m, job[s].sp), NEW m2, m2 = Trim(m, job[s].sp, 1)
    PROVE  Leaves(s, t, Idle, k, k, m2)
<1>1. PICK name, a : name = job[s].sp /\ a = tx[t].spCounter
  OBVIOUS
<1>2. name \in Int /\ a \in Int /\ a <= a
  BY <1>1, CallPoints, Counted
<1>3. Rising(k) /\ Rising(m) /\ Within(k, m)
  <2>1. m # <<>>
    BY NoPoints, Zenon
  <2> QED
    BY <2>1, Zenon DEF Saved
<1>4. /\ Rising(m2)
      /\ \A x \in Points : Holds(m2, x) <=> Holds(m, x) /\ (x < name \/ x = name)
  <2>1. /\ Rising(Trim(m, name, 1))
        /\ \A x \in Points :
              Holds(Trim(m, name, 1), x)
                 <=> Holds(m, x) /\ (Holds(m, name) => x < name \/ (x = name /\ 1 = 1))
    BY <1>2, <1>3, TrimRises
  <2> QED
    BY <1>1, <2>1, Zenon
<1>5. \A x \in Points : Holds(k, x) => Holds(m, x) /\ x <= name
  BY <1>1, <1>3 DEF Saved, SavedCall, Within
<1>8. Within(k, m2)
  BY <1>2, <1>4, <1>5, PointOrder, Zenon DEF Within
<1>9. \A x \in Points : Holds(m2, x) => x <= a
  BY <1>1, <1>4, Zenon DEF Saved
<1>10. \A x \in Points : ~Opens(s, t, x)
  BY DEF Opens, Opened, Nested
<1>11. Idle.by # t
  BY IdleJob, NoneAssumption
<1> QED
  BY <1>1, <1>2, <1>3, <1>4, <1>8, <1>9, <1>10, <1>11, Zenon DEF Leaves

LEMMA AutoRollbackToDoneSaves ==
    ASSUME TxInv, BeginPart, HoldInv, LeaveInv, SendInv, SaveInv, LabelsApart, NEW s \in Slot,
           AutoRollbackToDone(s)
    PROVE  SaveInv'
<1>0. PICK t, c, m2 : t = job[s].by /\ c = tx[t].client /\ m2 = Trim(marks[job[s].on], job[s].sp, 1)
  OBVIOUS
<1>1. /\ job[s].by # None /\ job[s].at = "ROLLBACK TO" /\ UNCHANGED <<transactions, lent, dead>>
      /\ Holds(marks[job[s].on], job[s].sp) /\ marks' = [marks EXCEPT ![job[s].on] = m2]
      /\ EndTurn(s)
  BY <1>0 DEF AutoRollbackToDone, InTransaction, ServerUnwinds
<1>2. t \in Task /\ job[s].at # "block" /\ job[s].on = c
  BY ZenonT(40), <1>0, <1>1, TurnOf DEF Wire
<1>3. MarksOf(t) /\ (c \in Conn => marks'[c] = m2)
  BY <1>0, <1>1, <1>2, MarksStay, TurnOf DEF Wire
<1>4. \A u \in Task : Alike(tx'[u], tx[u])
  BY <1>1, TurnsAlike DEF EndTurn, TxInv, RegPart
<1>5. RecordsOf(t) /\ tx'[t].spCounter = tx[t].spCounter /\ Believed(t)' = Believed(t)
  BY <1>2, <1>4, TurnRecords
<1>6. Nests(s, t, Idle) /\ job' = [job EXCEPT ![s] = Idle]
  BY <1>0, <1>1, <1>2 DEF Nests, EndTurn
<1>7. Acts(s, t, Idle)
  BY <1>1, <1>3, <1>5, <1>6 DEF Acts
<1>8. ASSUME tx'[t].state = "ACTIVE"
      PROVE  Leaves(s, t, Idle, Believed(t), Believed(t)', Known(t)')
  <2>1. PICK k, m : k = Believed(t) /\ m = Known(t)
    OBVIOUS
  <2>2. tx[t].state = "ACTIVE"
    BY <1>5, <1>8 DEF RecordsOf
  <2>3. c \in Conn /\ m \in Stack /\ Saved(t, k, m)
    BY <1>0, <1>2, <2>1, <2>2, ActiveTask
  <2>4. m2 = Trim(m, job[s].sp, 1) /\ Holds(m, job[s].sp)
    BY <1>0, <1>1, <1>2, <2>1 DEF Known
  <2>5. Leaves(s, t, Idle, k, k, m2)
    BY <1>0, <1>1, <1>2, <1>5, <2>3, <2>4, LeavesUndone
  <2>6. tx'[t].client = c
    BY <1>0, <1>2, <1>5 DEF RecordsOf
  <2>7. Known(t)' = m2
    BY <1>3, <2>3, <2>6 DEF Known
  <2> QED
    BY <1>5, <2>1, <2>5, <2>7
<1> QED
  BY <1>2, <1>7, <1>8, ActsSave

\* The server knows the new savepoint before the engine believes in it.
LEMMA LeavesOpened ==
    ASSUME TxInv, StackPart, NEW s \in Slot, NEW t \in Task, NEW e, Nests(s, t, e),
           NEW k \in Stack, NEW m \in Stack, Saved(t, k, m),
           tx'[t].spCounter = tx[t].spCounter, job[s].by = t, job[s].at = "SAVEPOINT",
           e.by = t, e.from = job[s].from, e.sp = job[s].sp, e.at = "opened"
    PROVE  Leaves(s, t, e, k, Append(k, job[s].sp), Append(m, job[s].sp))
<1>1. PICK name, a, k2, m2 : /\ name = job[s].sp /\ a = tx[t].spCounter
                             /\ k2 = Append(k, name) /\ m2 = Append(m, name)
  OBVIOUS
<1>2. name \in Points /\ a \in Int /\ a <= a
  BY <1>1, Counted DEF TxInv, JobPart, GoodJob, Points
<1>3. Rising(k) /\ Rising(m) /\ Within(k, m)
  BY StillWithin DEF Saved
<1>4. SavedCall(s, t, k, m)
  BY DEF Saved
<1>5. \A x \in Points : Holds(m, x) => x < name
  BY <1>1, <1>4 DEF SavedCall
<1>6. Rising(m2) /\ \A x \in Points : Holds(m2, x) <=> Holds(m, x) \/ x = name
  BY <1>1, <1>2, <1>3, <1>5, AppendRises
<1>7. \A x \in Points : Holds(k, x) => x < name
  BY <1>3, <1>5 DEF Within
<1>8. Rising(k2) /\ \A x \in Points : Holds(k2, x) <=> Holds(k, x) \/ x = name
  BY <1>1, <1>2, <1>3, <1>7, AppendRises
<1>9. Within(k2, m2)
  BY <1>3, <1>6, <1>8 DEF Within
<1>10. /\ name <= a
       /\ \A p \in Slot : job[s].from = p /\ job[p].by = t => job[p].sp < name
  BY <1>1, <1>4 DEF SavedCall, Nested
<1>11. \A x \in Points : Holds(m2, x) => x <= a
  BY <1>1, <1>6, <1>10 DEF Saved
<1>12. \A x \in Points : ~Opens(s, t, x)
  BY DEF Opens, Opened
<1>13. e.at \in Opened /\ e.at \notin {"SAVEPOINT", "ROLLBACK TO"} /\ e.sp = name
  BY <1>1 DEF Opened, Nested
<1>14. Leaves(s, t, e, k, k2, m2)
  BY <1>1, <1>2, <1>6, <1>8, <1>9, <1>10, <1>11, <1>12, <1>13, Zenon DEF Leaves
<1> QED
  BY <1>1, <1>14

\* The savepoints of one record change.
LEMMA StackRecords ==
    ASSUME TxInv, NEW t \in Task, NEW f \in [Task -> Record], \A u \in Task : Alike(f[u], tx[u]),
           NEW k, NEW g, g = [f EXCEPT ![t].savepoints = k], \A u \in Task : Alike(tx'[u], g[u])
    PROVE  RecordsOf(t) /\ tx'[t].spCounter = tx[t].spCounter /\ Believed(t)' = k
<1>1. \A u \in Task : /\ g[u].client = f[u].client /\ g[u].state = f[u].state
                      /\ g[u].spCounter = f[u].spCounter
                      /\ g[u].savepoints = IF u = t THEN k ELSE f[u].savepoints
  BY RecordUpdates
<1> QED
  BY <1>1 DEF RecordsOf, Alike, Believed

LEMMA OpenBlockDoneSaves ==
    ASSUME TxInv, BeginPart, HoldInv, LeaveInv, SendInv, SaveInv, LabelsApart, NEW s \in Slot,
           OpenBlockDone(s)
    PROVE  SaveInv'
<1>0. PICK t, c, e, m2 : /\ t = job[s].by /\ c = tx[t].client /\ e = [job[s] EXCEPT !.at = "opened"]
                         /\ m2 = Append(marks[job[s].on], job[s].sp)
  OBVIOUS
<1> DEFINE f == [tx EXCEPT ![t].busy = FALSE]
           k2 == Append(f[t].savepoints, job[s].sp)
<1>1. job[s].at = "SAVEPOINT" /\ UNCHANGED <<transactions, lent, dead>>
      /\ marks' = [marks EXCEPT ![job[s].on] = m2] /\ job' = [job EXCEPT ![s] = e]
  BY <1>0 DEF OpenBlockDone
<1>2. t \in Task /\ job[s].turn = t /\ job[s].on = c /\ job[s].at # "block" /\ job[s] # Idle
      /\ job[s] \in Job /\ job[s].by # None
  <2>1. job[s].by # None
    BY <1>1, NoneAssumption DEF TxInv, JobPart, GoodJob, Nested
  <2> QED
    BY <1>0, <1>1, <2>1, TurnOf, IdleJob, NoneAssumption DEF Wire
<1>3. MarksOf(t) /\ (c \in Conn => marks'[c] = m2)
  <2>1. /\ marks' = [marks EXCEPT ![c] = m2] /\ c = tx[t].client
        /\ transactions[Label[t]] = t \/ c \in dead
    BY <1>0, <1>1, <1>2, TurnOf, Zenon DEF Wire
  <2> QED
    BY <1>2, <2>1, MarksStay, Zenon
<1>4. e.by = t /\ e.from = job[s].from /\ e.sp = job[s].sp /\ e.at = "opened"
  BY SMTT(30), <1>0, <1>2 DEF Job
<1>5. Nests(s, t, e)
  BY <1>0, <1>2, <1>4 DEF Nests
<1>6. tx' = [f EXCEPT ![t].savepoints = k2]
  BY <1>2 DEF OpenBlockDone
<1>7. f \in [Task -> Record] /\ \A u \in Task : Alike(f[u], tx[u])
  BY QuietUpdates, RecordUpdates DEF TxInv, RegPart, Quiet
<1>8. f[t].savepoints = Believed(t)
  BY <1>2, <1>7 DEF Alike, Believed
<1> HIDE DEF f
<1>9. k2 = Append(Believed(t), job[s].sp)
  BY <1>8
<1> HIDE DEF k2
<1>10. RecordsOf(t) /\ tx'[t].spCounter = tx[t].spCounter /\ Believed(t)' = k2
  <2>1. \A u \in Task : Alike(tx'[u], tx'[u])
    BY DEF Alike
  <2>2. PICK g : g = tx'
    OBVIOUS
  <2>3. g = [f EXCEPT ![t].savepoints = k2] /\ \A u \in Task : Alike(tx'[u], g[u])
    BY <1>6, <2>1, <2>2
  <2> QED
    BY <1>2, <1>7, <2>3, StackRecords
<1>11. Acts(s, t, e)
  BY <1>1, <1>3, <1>5, <1>10 DEF Acts
<1>12. ASSUME tx'[t].state = "ACTIVE"
       PROVE  Leaves(s, t, e, Believed(t), Believed(t)', Known(t)')
  <2>1. PICK k, m : k = Believed(t) /\ m = Known(t)
    OBVIOUS
  <2>2. tx[t].state = "ACTIVE"
    BY SMTT(30), <1>10, <1>12 DEF RecordsOf
  <2>3. c \in Conn /\ k \in Stack /\ m \in Stack /\ Saved(t, k, m) /\ StackPart
    BY SMTT(30), <1>0, <1>2, <2>1, <2>2, ActiveTask DEF SendInv
  <2>4. m2 = Append(m, job[s].sp) /\ k2 = Append(k, job[s].sp)
    BY <1>0, <1>2, <1>9, <2>1 DEF Known
  <2>5. Leaves(s, t, e, k, k2, m2)
    <3>1. job[s].by = t
      BY <1>0
    <3>2. Leaves(s, t, e, k, Append(k, job[s].sp), Append(m, job[s].sp))
      BY SMTT(30), <1>1, <1>2, <1>4, <1>5, <1>10, <2>3, <3>1, LeavesOpened
    <3> QED
      BY <2>4, <3>2
  <2>6. tx'[t].client = c
    BY <1>0, <1>2, <1>10 DEF RecordsOf
  <2>7. Known(t)' = m2
    BY <1>3, <2>3, <2>6 DEF Known
  <2> QED
    BY <1>10, <2>1, <2>5, <2>7
<1> QED
  BY <1>2, <1>11, <1>12, ActsSave

\* A stack that is trimmed, whatever becomes of the turn.
LEMMA TrimmedRecords ==
    ASSUME TxInv, NEW s \in Slot, NEW t \in Task, NEW extra \in {0, 1},
           tx' = Trimmed(tx, t, s, extra) \/ tx' = FreeTurn(Trimmed(tx, t, s, extra), s)
    PROVE  /\ RecordsOf(t) /\ tx'[t].spCounter = tx[t].spCounter
           /\ Believed(t)' = Trim(Believed(t), job[s].sp, extra)
<1>1. PICK k, g : /\ k = Trim(Believed(t), job[s].sp, extra)
                  /\ g = Trimmed(tx, t, s, extra)
  OBVIOUS
<1>2. g \in [Task -> Record] /\ tx \in [Task -> Record]
  BY <1>1, TrimmedQuietly DEF Quiet, TxInv, RegPart
<1>3. g = [tx EXCEPT ![t].savepoints = k]
  BY <1>1, <1>2 DEF Trimmed, Believed
<1>4. \A u \in Task : Alike(tx'[u], g[u]) /\ Alike(tx[u], tx[u])
  <2>1. tx' = g \/ tx' = FreeTurn(g, s)
    BY <1>1
  <2>2. CASE tx' = g
    BY <2>2 DEF Alike
  <2>3. CASE tx' = FreeTurn(g, s)
    BY <1>2, <2>3, TurnsAlike DEF Alike
  <2> QED
    BY <2>1, <2>2, <2>3
<1>5. RecordsOf(t) /\ tx'[t].spCounter = tx[t].spCounter /\ Believed(t)' = k
  BY <1>2, <1>3, <1>4, StackRecords, Zenon
<1> QED
  BY <1>1, <1>5

\* The call of a block trims the stack, and the server may.
Trims(s, t, e, extra) ==
    /\ job' = [job EXCEPT ![s] = e] /\ Nests(s, t, e) /\ UNCHANGED <<transactions, lent, dead>>
    /\ job[s].by = t /\ job[s].at \in Opened
    /\ tx' = Trimmed(tx, t, s, extra) \/ tx' = FreeTurn(Trimmed(tx, t, s, extra), s)
    /\ MarksOf(t)
    /\ \/ UNCHANGED marks
       \/ tx[t].client \in Conn => marks'[tx[t].client] = Trim(Known(t), job[s].sp, extra)
    /\ extra = 1 => e.by = t /\ e.at \in Opened /\ e.sp = job[s].sp /\ e.from = job[s].from
    /\ extra = 0 => e.by # t

LEMMA TrimSaves ==
    ASSUME TxInv, HoldInv, LabelsApart, SendInv, SaveInv, NEW s \in Slot, NEW t \in Task, NEW e,
           NEW extra \in {0, 1}, Trims(s, t, e, extra)
    PROVE  SaveInv'
<1>0. /\ job' = [job EXCEPT ![s] = e] /\ Nests(s, t, e) /\ UNCHANGED <<transactions, lent, dead>>
      /\ job[s].by = t /\ job[s].at \in Opened /\ MarksOf(t)
      /\ tx' = Trimmed(tx, t, s, extra) \/ tx' = FreeTurn(Trimmed(tx, t, s, extra), s)
      /\ extra = 1 => e.by = t /\ e.at \in Opened /\ e.sp = job[s].sp /\ e.from = job[s].from
      /\ extra = 0 => e.by # t
  BY Zenon DEF Trims
<1>1. /\ RecordsOf(t) /\ tx'[t].spCounter = tx[t].spCounter
      /\ Believed(t)' = Trim(Believed(t), job[s].sp, extra)
  BY <1>0, TrimmedRecords
<1>2. Acts(s, t, e)
  BY <1>0, <1>1 DEF Acts
<1>3. ASSUME tx'[t].state = "ACTIVE"
      PROVE  Leaves(s, t, e, Believed(t), Believed(t)', Known(t)')
  <2>1. PICK k, m, k2, m2 : k = Believed(t) /\ m = Known(t) /\ k2 = Believed(t)' /\ m2 = Known(t)'
    OBVIOUS
  <2>2. tx[t].state = "ACTIVE" /\ tx'[t].client = tx[t].client
    BY <1>1, <1>3 DEF RecordsOf
  <2>3. tx[t].client \in Conn /\ k \in Stack /\ m \in Stack /\ Saved(t, k, m) /\ StackPart
    BY <2>1, <2>2, ActiveTask DEF SendInv
  <2>4. k2 = Trim(k, job[s].sp, extra)
    BY <1>1, <2>1
  <2>5. m2 = m \/ m2 = Trim(m, job[s].sp, extra)
    <3>1. CASE UNCHANGED marks
      BY <2>1, <2>2, <3>1 DEF Known
    <3>2. CASE marks'[tx[t].client] = Trim(Known(t), job[s].sp, extra)
      <4>1. m2 = marks'[tx[t].client]
        BY <2>1, <2>2 DEF Known
      <4> QED
        BY <2>1, <3>2, <4>1
    <3> QED
      BY <2>3, <3>1, <3>2 DEF Trims
  <2>6. Leaves(s, t, e, k, k2, m2)
    BY <1>0, <1>1, <2>3, <2>4, <2>5, LeavesTrimmed
  <2> QED
    BY <2>1, <2>6
<1> QED
  BY <1>2, <1>3, ActsSave

LEMMA RequestSaves ==
    ASSUME TxInv, BeginPart, HoldInv, LeaveInv, SendInv, SaveInv, LabelsApart, NEW s \in Slot,
           NEW t \in Task, job[s].by = t, job[s].at \in {"block", "unwound"},
           job[s].at # "block" \/ Settled(s), NEW at \in {"unwind", "RELEASE"}, NEW extra \in {0, 1},
           NEW e, extra = 1 => /\ e.by = t /\ e.at \in Opened
                               /\ e.sp = job[s].sp /\ e.from = job[s].from,
           extra = 0 => e = Idle,
           Request(s, at, e, extra), UNCHANGED <<transactions, lent, dead, marks>>
    PROVE  SaveInv'
<1>1. /\ Nests(s, t, e) /\ MarksOf(t) /\ job[s].at \in Opened /\ job[s].at # "ROLLBACK TO"
      /\ job[s] \in Job
  BY MarksStay DEF Nests, Opened, Nested, TxInv, JobPart
<1>2. CASE ~Active(Label[t]) /\ job' = [job EXCEPT ![s] = e] /\ UNCHANGED tx
  <2>1. RecordsOf(t)
    BY <1>2 DEF RecordsOf
  <2>2. tx'[t].state # "ACTIVE"
    BY <1>2, ActiveOwn
  <2>3. Acts(s, t, e)
    BY <1>1, <1>2, <2>1 DEF Acts
  <2> QED
    BY <2>2, <2>3, GoneCall
<1>3. CASE /\ Active(Label[t]) /\ job' = [job EXCEPT ![s] = e]
           /\ tx' = Trimmed(tx, transactions[Label[t]], s, extra)
  <2>1. tx' = Trimmed(tx, t, s, extra)
    BY <1>3, OwnActive
  <2>2. extra = 0 => e.by # t
    BY IdleJob, NoneAssumption
  <2>3. Trims(s, t, e, extra)
    BY <1>1, <1>3, <2>1, <2>2 DEF Trims
  <2> QED
    BY <2>3, TrimSaves
<1>4. CASE /\ Active(Label[t]) /\ tx' = Claimed(transactions[Label[t]])
           /\ job' = [job EXCEPT ![s].at = at, ![s].on = tx[transactions[Label[t]]].client,
                                 ![s].turn = transactions[Label[t]]]
  <2>1. PICK d : d = [job[s] EXCEPT !.at = at, !.on = tx[t].client, !.turn = t]
    OBVIOUS
  <2>2. job' = [job EXCEPT ![s] = d] /\ tx' = Claimed(t)
    BY <1>4, <2>1, OwnActive
  <2>3. d.by = t /\ d.from = job[s].from /\ d.at = at /\ d.sp = job[s].sp
    BY <1>1, <2>1 DEF Job
  <2>4. Nests(s, t, d) /\ d.at \in Opened
    BY <1>1, <2>3 DEF Nests, Opened, Nested
  <2>5. \A u \in Task : Alike(tx'[u], tx[u])
    BY <2>2, TurnsAlike
  <2> QED
    BY <1>1, <2>2, <2>3, <2>4, <2>5, QuietCall
<1> QED
  BY <1>2, <1>3, <1>4 DEF Request

\* The ROLLBACK TO or RELEASE of a block is answered.
LEMMA AnsweredSaves ==
    ASSUME TxInv, HoldInv, LabelsApart, SendInv, SaveInv, NEW s \in Slot,
           job[s].at \in {"unwind", "RELEASE"}, NEW extra \in {0, 1}, NEW e,
           extra = 1 => e = [job[s] EXCEPT !.at = "unwound"], extra = 0 => e = Idle,
           ServerUnwinds(job[s].on, job[s].sp, extra) \/ ServerKeeps,
           tx' = FreeTurn(Trimmed(tx, job[s].turn, s, extra), s), job' = [job EXCEPT ![s] = e],
           UNCHANGED <<transactions, lent, dead>>
    PROVE  SaveInv'
<1>1. PICK t, v : t = job[s].by /\ v = Trim(marks[job[s].on], job[s].sp, extra)
  OBVIOUS
<1>2. job[s].by # None
  BY NoneAssumption DEF TxInv, JobPart, GoodJob, Nested
<1>3. t \in Task /\ job[s].turn = t /\ job[s].on = tx[t].client /\ job[s] \in Job /\ job[s] # Idle
  BY <1>1, <1>2, TurnOf, IdleJob, NoneAssumption DEF Wire
<1>4. job[s].at \in Opened /\ job[s].at # "block"
  BY DEF Opened, Nested
<1>5. extra = 1 => e.by = t /\ e.at \in Opened /\ e.sp = job[s].sp /\ e.from = job[s].from
  BY <1>1, <1>3 DEF Job, Opened, Nested
<1>6. extra = 0 => e.by # t
  BY <1>3, IdleJob, NoneAssumption
<1>7. Nests(s, t, e)
  BY <1>1, <1>4, <1>5 DEF Nests
<1>8. UNCHANGED marks \/ marks' = [marks EXCEPT ![job[s].on] = v]
  BY <1>1 DEF ServerUnwinds, ServerKeeps
<1>9. MarksOf(t) /\ (UNCHANGED marks \/ (tx[t].client \in Conn => marks'[tx[t].client] = v))
  BY <1>1, <1>2, <1>8, AnswerMarks DEF Wire
<1>10. v = Trim(Known(t), job[s].sp, extra)
  BY <1>1, <1>3 DEF Known
<1>11. tx' = FreeTurn(Trimmed(tx, t, s, extra), s)
  BY <1>3
<1>12. /\ job[s].by = t
       /\ \/ UNCHANGED marks
          \/ tx[t].client \in Conn => marks'[tx[t].client] = Trim(Known(t), job[s].sp, extra)
  BY <1>1, <1>9, <1>10, Zenon
<1>13. Trims(s, t, e, extra)
  BY <1>4, <1>5, <1>6, <1>7, <1>9, <1>11, <1>12, Zenon DEF Trims
<1> QED
  BY <1>3, <1>13, TrimSaves

LEMMA BlockSaves ==
    ASSUME TxInv, BeginPart, HoldInv, LeaveInv, SendInv, SaveInv, LabelsApart, ~Overlaps, NEW s \in Slot,
           BlockThrows(s) \/ BlockUnwound(s) \/ BlockReleases(s) \/ BlockReleased(s)
    PROVE  SaveInv'
<1>1. PICK t : t = job[s].by
  OBVIOUS
<1>2. t \in Task /\ job[s] \in Job
  BY <1>1 DEF BlockThrows, BlockUnwound, BlockReleases, BlockReleased, TxInv, JobPart, GoodJob, Nested
<1>3. PICK e : e = [job[s] EXCEPT !.at = "unwound"]
  OBVIOUS
<1>4. e.by = t /\ e.at \in Opened /\ e.sp = job[s].sp /\ e.from = job[s].from
  BY <1>1, <1>2, <1>3 DEF Job, Opened, Nested
<1>5. CASE BlockThrows(s)
  <2>1. job[s].at = "block" /\ Settled(s) /\ Request(s, "unwind", e, 1)
        /\ UNCHANGED <<transactions, lent, dead, marks>>
    BY <1>3, <1>5 DEF BlockThrows, wires
  <2> QED
    BY <1>1, <1>2, <1>4, <2>1, RequestSaves
<1>6. CASE BlockReleases(s)
  <2>1. job[s].at \in {"block", "unwound"} /\ (job[s].at # "block" \/ Settled(s))
        /\ Request(s, "RELEASE", Idle, 0) /\ UNCHANGED <<transactions, lent, dead, marks>>
    BY <1>6 DEF BlockReleases, wires
  <2> QED
    BY <1>1, <1>2, <2>1, RequestSaves
<1>7. CASE BlockUnwound(s)
  <2>1. /\ job[s].at = "unwind" /\ job' = [job EXCEPT ![s] = e]
        /\ ServerUnwinds(job[s].on, job[s].sp, 1) \/ ServerKeeps
        /\ tx' = FreeTurn(Trimmed(tx, job[s].turn, s, 1), s)
        /\ UNCHANGED <<transactions, lent, dead>>
    BY <1>3, <1>7 DEF BlockUnwound
  <2>2. (1 = 0 => e = Idle) /\ 1 \in {0, 1}
    OBVIOUS
  <2> QED
    BY <1>3, <2>1, <2>2, AnsweredSaves, Zenon
<1>8. CASE BlockReleased(s)
  <2>1. /\ job[s].at = "RELEASE" /\ job' = [job EXCEPT ![s] = Idle]
        /\ ServerUnwinds(job[s].on, job[s].sp, 0) \/ ServerKeeps
        /\ tx' = FreeTurn(Trimmed(tx, job[s].turn, s, 0), s)
        /\ UNCHANGED <<transactions, lent, dead>>
    BY <1>8 DEF BlockReleased
  <2>2. (0 = 1 => Idle = [job[s] EXCEPT !.at = "unwound"]) /\ 0 \in {0, 1}
    OBVIOUS
  <2>3. job[s].at \in {"unwind", "RELEASE"}
    BY <2>1
  <2> QED
    BY <2>1, <2>2, <2>3, AnsweredSaves, Zenon
<1> QED
  BY <1>5, <1>6, <1>7, <1>8

\* A connection is never lent and destroyed at once.
LEMMA WiresApart ==
    ASSUME lent \cap dead = {}
    PROVE  /\ UNCHANGED <<lent, dead>> => (lent \cap dead = {})'
           /\ \A c : Lend(c) \/ Returned(c) \/ Destroyed(c) => (lent \cap dead = {})'
           /\ \A n, b : ReleaseClient(n, b) => (lent \cap dead = {})'
<1>1. UNCHANGED <<lent, dead>> => (lent \cap dead = {})'
  OBVIOUS
<1>2. \A c : Lend(c) \/ Returned(c) \/ Destroyed(c) => (lent \cap dead = {})'
  BY DEF Lend, Returned, Destroyed
<1>3. \A n, b : ReleaseClient(n, b) => (lent \cap dead = {})'
  BY <1>1, <1>2 DEF ReleaseClient
<1> QED
  BY <1>1, <1>2, <1>3

\* A step that touches the savepoints and calls of the transactions T only.
Touches(T) ==
    \A u \in Task \ T :
       /\ Alike(tx'[u], tx[u]) /\ transactions'[Label[u]] = transactions[Label[u]]
       /\ tx[u].state = "ACTIVE" => marks'[tx[u].client] = marks[tx[u].client]
       /\ \A s \in Slot : job[s].by = u \/ job'[s].by = u => job'[s] = job[s]

LEMMA TouchedSaves ==
    ASSUME SaveInv, NEW T, Touches(T), \A t \in T : SavedTask(t)', (lent \cap dead = {})'
    PROVE  SaveInv'
<1>1. ASSUME NEW u \in Task, u \notin T PROVE SavedTask(u)'
  <2>1. SavedTask(u)
    BY DEF SaveInv
  <2>2. Spares(u)
    BY <1>1 DEF Touches, Alike, Spares
  <2>3. \A s \in Slot : job[s].by = u \/ job'[s].by = u => job'[s] = job[s]
    BY <1>1 DEF Touches
  <2> QED
    BY <2>1, <2>2, <2>3, SaveFrame
<1> QED
  BY <1>1 DEF SaveInv

\* The connection of an active transaction is not the one a step is about.
LEMMA MarksApart ==
    ASSUME TxInv, HoldInv, LabelsApart, SaveInv, NEW u \in Task, tx[u].state = "ACTIVE"
    PROVE  /\ \A t \in Task \ {u} : MarksOf(t) => marks'[tx[u].client] = marks[tx[u].client]
           /\ \A c : Lend(c) => marks'[tx[u].client] = marks[tx[u].client]
<1>1. transactions[Label[u]] = u /\ tx[u].client \in Conn /\ lent \cap dead = {}
  BY ActiveTask DEF SaveInv
<1>2. /\ tx[u].client \notin dead
      /\ \A t \in Task \ {u} : transactions[Label[t]] = t => tx[t].client # tx[u].client
  BY <1>1, OwnConnection
<1>3. ASSUME NEW t \in Task \ {u}, MarksOf(t) PROVE marks'[tx[u].client] = marks[tx[u].client]
  BY <1>1, <1>2, <1>3 DEF MarksOf
<1>4. ASSUME NEW c, Lend(c) PROVE marks'[tx[u].client] = marks[tx[u].client]
  <2>1. c # tx[u].client \/ UNCHANGED marks
    BY <1>2, <1>4 DEF Lend
  <2>2. marks \in [Conn -> Stack]
    BY DEF TxInv, WirePart
  <2> QED
    BY <1>1, <1>4, <2>1, <2>2 DEF Lend
<1> QED
  BY <1>3, <1>4

\* No transaction is touched.
LEMMA KeptSaves ==
    ASSUME TxInv, HoldInv, LabelsApart, SaveInv, UNCHANGED transactions,
           \A u \in Task : Alike(tx'[u], tx[u]),
           \A s \in Slot : job'[s] = job[s] \/ (job[s].by = None /\ job'[s].by = None),
           UNCHANGED marks \/ \E c : Lend(c), (lent \cap dead = {})'
    PROVE  SaveInv'
<1>1. ASSUME NEW u \in Task, tx[u].state = "ACTIVE" PROVE marks'[tx[u].client] = marks[tx[u].client]
  BY <1>1, MarksApart
<1>2. Touches({})
  BY <1>1, NoneAssumption DEF Touches
<1> QED
  BY <1>2, TouchedSaves

\* The record of t is not, or not any more, active.
LEMMA EndedSaves ==
    ASSUME TxInv, HoldInv, LabelsApart, SaveInv, NEW t \in Task, tx'[t].state # "ACTIVE", MarksOf(t),
           \A u \in Task \ {t} : /\ Alike(tx'[u], tx[u])
                                 /\ transactions'[Label[u]] = transactions[Label[u]],
           \A s \in Slot : job'[s] = job[s] \/ (job[s].by = t /\ job'[s] = Idle), (lent \cap dead = {})'
    PROVE  SaveInv'
<1>1. ASSUME NEW u \in Task \ {t}, tx[u].state = "ACTIVE"
      PROVE  marks'[tx[u].client] = marks[tx[u].client]
  BY <1>1, MarksApart
<1>2. ASSUME NEW u \in Task \ {t}, NEW s \in Slot, job[s].by = u \/ job'[s].by = u PROVE job'[s] = job[s]
  BY <1>2, IdleJob, NoneAssumption
<1>3. Touches({t})
  BY <1>1, <1>2 DEF Touches
<1>4. SavedTask(t)'
  BY DEF SavedTask
<1> QED
  BY <1>3, <1>4, TouchedSaves

LEMMA QuerySaves ==
    ASSUME TxInv, HoldInv, LabelsApart, SaveInv, NEW s \in Slot,
           \/ Query(s) \/ QueryAcquired(s) \/ QueryAcquireFailed(s) \/ QueryDone(s)
           \/ QueryFailed(s) \/ QueryValidated(s)
    PROVE  SaveInv'
<1>1. QueryStep(s)
  BY QuerySteps
<1>2. PICK e \in Job : job' = [job EXCEPT ![s] = e] /\ job[s].by = None /\ e.by = None
  BY <1>1 DEF QueryStep
<1>3. \A x \in Slot : job'[x] = job[x] \/ (job[x].by = None /\ job'[x].by = None)
  BY <1>2 DEF TxInv, JobPart
<1>4. UNCHANGED transactions /\ \A u \in Task : Alike(tx'[u], tx[u])
  BY <1>1 DEF QueryStep, Alike
<1>5. UNCHANGED marks \/ \E c : Lend(c)
  BY DEF Query, QueryAcquired, QueryAcquireFailed, QueryDone, QueryFailed, QueryValidated, wires
<1>6. UNCHANGED <<lent, dead>> \/ \E c : Lend(c) \/ Returned(c) \/ Destroyed(c)
  BY DEF Query, QueryAcquired, QueryAcquireFailed, QueryDone, QueryFailed, QueryValidated, wires
<1>7. (lent \cap dead = {})'
  BY <1>6, WiresApart DEF SaveInv
<1> QED
  BY <1>3, <1>4, <1>5, <1>7, KeptSaves

\* BEGIN is answered: nothing is saved, no call is under way.
LEMMA BeginDoneSaves ==
    ASSUME TxInv, HoldInv, LabelsApart, SendInv, SaveInv, NEW t \in Task, BeginDone(t)
    PROVE  SaveInv'
<1>0. /\ run[t].at = "BEGIN" /\ run[t].on \in Conn /\ UNCHANGED <<job, lent, dead>>
      /\ transactions' = [transactions EXCEPT ![Label[t]] = t]
      /\ marks' = [marks EXCEPT ![run[t].on] = <<>>] /\ Label[t] \in Name
  BY LabelAssumption DEF BeginDone, TxInv, RunPart
<1>1. PICK r : r = [Unused EXCEPT !.client = run[t].on, !.state = "ACTIVE", !.timer = Timeouts]
  OBVIOUS
<1>2. tx' = [tx EXCEPT ![t] = r] /\ r.client = run[t].on /\ r.savepoints = <<>>
  BY <1>1 DEF BeginDone, Unused
<1>3. \A u \in Task \ {t} : /\ Alike(tx'[u], tx[u])
                            /\ transactions'[Label[u]] = transactions[Label[u]]
  <2>1. \A u \in Task \ {t} : tx'[u] = tx[u]
    BY <1>2 DEF TxInv, RegPart
  <2>2. \A u \in Task \ {t} : transactions'[Label[u]] = transactions[Label[u]]
    BY <1>0, OtherIds
  <2> QED
    BY <2>1, <2>2 DEF Alike
<1>4. ASSUME NEW u \in Task \ {t}, tx[u].state = "ACTIVE"
      PROVE  marks'[tx[u].client] = marks[tx[u].client]
  <2>1. transactions[Label[u]] = u /\ tx[u].client \in Conn /\ lent \cap dead = {}
    BY <1>4, ActiveTask DEF SaveInv
  <2>2. run[t].on # tx[u].client
    BY <1>0, <2>1, OwnConnection
  <2> QED
    BY <1>0, <2>1, <2>2 DEF TxInv, WirePart
<1>5. Touches({t})
  BY <1>0, <1>3, <1>4 DEF Touches
<1>6. SavedTask(t)'
  <2>1. Callless(t)
    BY <1>0 DEF SendInv, Beginning
  <2>2. transactions'[Label[t]] = t
    BY <1>0 DEF TxInv, RegPart
  <2>3. PICK k, m : k = <<>> /\ m = <<>>
    OBVIOUS
  <2>4. tx'[t] = r
    BY <1>2 DEF TxInv, RegPart
  <2>5. Believed(t)' = k /\ Known(t)' = m
    BY <1>0, <1>2, <2>3, <2>4 DEF Believed, Known, TxInv, WirePart
  <2>6. Rising(k) /\ Rising(m) /\ Within(k, m) /\ \A x : ~Holds(k, x) /\ ~Holds(m, x)
    BY <2>3, NoPoints DEF Within
  <2>7. \A s \in Slot : job'[s].by # t
    BY <1>0, <2>1 DEF Callless
  <2>8. Saved(t, k, m)'
    BY <2>6, <2>7, Zenon DEF Saved
  <2> QED
    BY <2>2, <2>5, <2>8 DEF SavedTask
<1>7. (lent \cap dead = {})'
  BY <1>0 DEF SaveInv
<1> QED
  BY <1>5, <1>6, <1>7, TouchedSaves

LEMMA BeginSaves ==
    ASSUME TxInv, HoldInv, LabelsApart, SaveInv, NEW t \in Task,
           \/ Begin(t) \/ BeginAcquired(t) \/ BeginAcquireFailed(t) \/ BeginFailed(t) \/ Enter(t)
    PROVE  SaveInv'
<1>1. CASE Begin(t)
  <2>1. /\ tx' = [tx EXCEPT ![t] = Unused] /\ UNCHANGED <<transactions, job, lent, dead, marks>>
        /\ tx \in [Task -> Record] /\ Unused.state # "ACTIVE"
    BY <1>1 DEF Begin, wires, TxInv, RegPart, Unused
  <2>2. tx'[t].state # "ACTIVE" /\ \A u \in Task \ {t} : Alike(tx'[u], tx[u])
    BY <2>1 DEF Alike
  <2>3. (lent \cap dead = {})' /\ MarksOf(t)
    BY <2>1, MarksStay DEF SaveInv
  <2> QED
    BY <2>1, <2>2, <2>3, EndedSaves
<1>2. CASE ~Begin(t)
  <2>1. UNCHANGED <<transactions, tx, job>>
    BY <1>2 DEF BeginAcquired, BeginAcquireFailed, BeginFailed, Enter, engine
  <2>2. UNCHANGED marks \/ \E c : Lend(c)
    BY <1>2 DEF BeginAcquired, BeginAcquireFailed, BeginFailed, Enter, wires
  <2>3. UNCHANGED <<lent, dead>> \/ \E c : Lend(c) \/ Returned(c) \/ Destroyed(c)
    BY <1>2 DEF BeginAcquired, BeginAcquireFailed, BeginFailed, Enter, wires
  <2>4. (lent \cap dead = {})'
    BY <2>3, WiresApart DEF SaveInv
  <2>5. \A u \in Task : Alike(tx'[u], tx[u])
    BY <2>1 DEF Alike
  <2> QED
    BY <2>1, <2>2, <2>4, <2>5, KeptSaves
<1> QED
  BY <1>1, <1>2

\* The answer to the COMMIT or ROLLBACK that ends t.
LEMMA AnswersEnd ==
    ASSUME TxInv, HoldInv, LabelsApart, SaveInv, NEW t \in Task, NEW c, c = tx[t].client,
           transactions[Label[t]] = t \/ c \in dead, NEW b, ReleaseClient(Label[t], b),
           ServerEnds(c) \/ ServerKeeps, tx'[t].state # "ACTIVE",
           \A u \in Task \ {t} : Alike(tx'[u], tx[u]),
           \A s \in Slot : job'[s] = job[s] \/ (job[s].by = t /\ job'[s] = Idle)
    PROVE  SaveInv'
<1>1. MarksOf(t)
  <2>1. CASE ServerEnds(c)
    BY <2>1, MarksStay DEF ServerEnds
  <2>2. CASE ServerKeeps
    BY <2>2, MarksStay DEF ServerKeeps
  <2> QED
    BY <2>1, <2>2
<1>2. \A u \in Task \ {t} : transactions'[Label[u]] = transactions[Label[u]]
  BY OtherIds
<1>3. (lent \cap dead = {})'
  BY WiresApart DEF SaveInv
<1> QED
  BY <1>1, <1>2, <1>3, EndedSaves

\* What the end of a request makes of the records.
LEMMA EndedRecords ==
    ASSUME TxInv, NEW r \in Task, NEW x \in {"COMMITTED", "ROLLBACK"}, NEW b \in BOOLEAN,
           tx[r].state # "ACTIVE"
    PROVE  /\ Ended(r, x, b) \in [Task -> Record] /\ Ended(r, x, b)[r].state # "ACTIVE"
           /\ \A u \in Task \ {r} : Alike(Ended(r, x, b)[u], tx[u])
<1>1. tx \in [Task -> Record] /\ x \in TxState
  BY DEF TxInv, RegPart, TxState
<1>2. Ended(r, x, b) \in [Task -> Record]
  BY <1>1, EndedMoves DEF Moved, Quiet
<1> QED
  BY <1>1, <1>2 DEF Ended, Record, Alike

LEMMA EndSaves ==
    ASSUME TxInv, BeginPart, HoldInv, LeaveInv, SendInv, SaveInv, LabelsApart, NEW t \in Task,
           \/ Resolve(t) \/ CommitDone(t) \/ CommitFailed(t) \/ Throw(t) \/ ThrowRolledBack(t)
    PROVE  SaveInv'
<1>1. CASE Resolve(t) \/ Throw(t)
  <2>1. /\ UNCHANGED <<transactions, job, lent, dead, marks>>
        /\ \/ UNCHANGED tx
           \/ \E x \in {"COMMITTING", "ROLLING_BACK"} : Active(Label[t]) /\ tx' = Leaving(Label[t], x)
    BY <1>1 DEF Resolve, Throw, wires
  <2>2. (lent \cap dead = {})' /\ MarksOf(t)
    BY <2>1, MarksStay DEF SaveInv
  <2>3. CASE UNCHANGED tx
    <3>1. \A u \in Task : Alike(tx'[u], tx[u])
      BY <2>3 DEF Alike
    <3> QED
      BY <2>1, <2>2, <3>1, KeptSaves
  <2>4. ASSUME NEW x \in {"COMMITTING", "ROLLING_BACK"}, Active(Label[t]), tx' = Leaving(Label[t], x)
        PROVE  SaveInv'
    <3>1. transactions[Label[t]] = t
      BY <2>4, OwnActive
    <3>2. RecordsOf(t) /\ tx'[t].state # "ACTIVE"
      BY <2>4, <3>1, LeavingRecords
    <3>3. \A u \in Task \ {t} : Alike(tx'[u], tx[u])
      BY <3>2 DEF RecordsOf, Alike
    <3> QED
      BY <2>1, <2>2, <3>2, <3>3, EndedSaves
  <2> QED
    BY <2>1, <2>3, <2>4
<1>2. CASE CommitDone(t) \/ CommitFailed(t) \/ ThrowRolledBack(t)
  <2>1. /\ run[t].rec = t /\ run[t].on = tx[t].client /\ tx[t].state # "ACTIVE"
        /\ transactions[Label[t]] = t
    BY <1>2 DEF CommitDone, CommitFailed, ThrowRolledBack, LeaveInv, RunLeaves, Undone, SendInv, RunSends
  <2>2. /\ UNCHANGED job /\ (ServerEnds(run[t].on) \/ ServerKeeps)
        /\ \E b \in BOOLEAN : ReleaseClient(Label[t], b)
        /\ UNCHANGED tx \/ \E x \in {"COMMITTED", "ROLLBACK"}, b \in BOOLEAN : tx' = Ended(t, x, b)
    BY <1>2, <2>1 DEF CommitDone, CommitFailed, ThrowRolledBack, RollbackSettles
  <2>3. tx'[t].state # "ACTIVE" /\ \A u \in Task \ {t} : Alike(tx'[u], tx[u])
    <3>1. CASE UNCHANGED tx
      BY <2>1, <3>1 DEF Alike
    <3>2. ASSUME NEW x \in {"COMMITTED", "ROLLBACK"}, NEW b \in BOOLEAN, tx' = Ended(t, x, b)
          PROVE  tx'[t].state # "ACTIVE" /\ \A u \in Task \ {t} : Alike(tx'[u], tx[u])
      BY <2>1, <3>2, EndedRecords
    <3> QED
      BY <2>2, <3>1, <3>2
  <2>4. PICK b : ReleaseClient(Label[t], b)
    BY <2>2
  <2>5. PICK c : c = tx[t].client
    OBVIOUS
  <2>6. /\ ServerEnds(c) \/ ServerKeeps
        /\ \A s \in Slot : job'[s] = job[s]
    BY <2>1, <2>2, <2>5
  <2> QED
    BY <2>1, <2>3, <2>4, <2>5, <2>6, AnswersEnd
<1> QED
  BY <1>1, <1>2

LEMMA TimeoutSaves ==
    ASSUME TxInv, BeginPart, HoldInv, LeaveInv, SendInv, SaveInv, LabelsApart, NEW t \in Task,
           Fire(t) \/ FireRolledBack(t)
    PROVE  SaveInv'
<1>0. tx \in [Task -> Record] /\ UNCHANGED job
  BY DEF Fire, FireRolledBack, TxInv, RegPart
<1>1. CASE Fire(t) /\ ~Active(Label[t])
  <2>1. tx' = [tx EXCEPT ![t].timer = FALSE] /\ UNCHANGED <<transactions, lent, dead, marks>>
    BY <1>1 DEF Fire
  <2>2. \A u \in Task : Alike(tx'[u], tx[u])
    BY <1>0, <2>1 DEF Record, Alike
  <2>3. (lent \cap dead = {})'
    BY <2>1 DEF SaveInv
  <2> QED
    BY <1>0, <2>1, <2>2, <2>3, KeptSaves
<1>2. CASE Fire(t) /\ Active(Label[t])
  <2>1. transactions[Label[t]] = t
    BY <1>2, OwnActive
  <2>2. /\ tx' = [tx EXCEPT ![t].timer = FALSE, ![t].state = "TIMEOUT"] /\ UNCHANGED marks
        /\ ReleaseClient(Label[t], TRUE) \/ UNCHANGED <<transactions, lent, dead>>
    BY <1>2, <2>1 DEF Fire
  <2>3. tx'[t].state # "ACTIVE" /\ \A u \in Task \ {t} : Alike(tx'[u], tx[u])
    BY <1>0, <2>2 DEF Record, Alike
  <2>4. \A u \in Task \ {t} : transactions'[Label[u]] = transactions[Label[u]]
    BY <2>2, OtherIds
  <2>5. (lent \cap dead = {})'
    BY <2>2, WiresApart DEF SaveInv
  <2>6. MarksOf(t)
    BY <2>2, MarksStay
  <2> QED
    BY <1>0, <2>3, <2>4, <2>5, <2>6, EndedSaves
<1>3. CASE FireRolledBack(t)
  <2>1. PICK b \in BOOLEAN : RollbackSettles(Label[t], alarm[t].on, b)
    BY <1>3 DEF FireRolledBack
  <2>2. UNCHANGED tx /\ alarm[t].at = "ROLLBACK"
    BY <1>3 DEF FireRolledBack
  <2>3. tx[t].state = "TIMEOUT" /\ transactions[Label[t]] = t /\ alarm[t].on = tx[t].client
    BY <2>2 DEF SendInv, AlarmSends, LeaveInv, AlarmLeaves
  <2>4. PICK c : c = tx[t].client
    OBVIOUS
  <2>5. ReleaseClient(Label[t], b) /\ (ServerEnds(c) \/ ServerKeeps)
    BY <2>1, <2>3, <2>4 DEF RollbackSettles
  <2>6. tx'[t].state # "ACTIVE" /\ \A u \in Task \ {t} : Alike(tx'[u], tx[u])
    BY <2>2, <2>3 DEF Alike
  <2> QED
    BY <1>0, <2>3, <2>4, <2>5, <2>6, AnswersEnd
<1> QED
  BY <1>1, <1>2, <1>3

LEMMA AutoRolledBackSaves ==
    ASSUME TxInv, BeginPart, HoldInv, LeaveInv, SendInv, SaveInv, LabelsApart, NEW s \in Slot,
           AutoRolledBack(s)
    PROVE  SaveInv'
<1>1. PICK t, c : t = job[s].by /\ c = tx[t].client
  OBVIOUS
<1>2. job[s].by # None /\ job[s].at = "ROLLBACK" /\ job' = [job EXCEPT ![s] = Idle]
  BY DEF AutoRolledBack, InTransaction
<1>3. /\ t \in Task /\ job[s].on = c /\ (transactions[Label[t]] = t \/ c \in dead)
      /\ job[s].rec = t /\ tx[t].state # "ACTIVE"
  BY <1>1, <1>2, TurnOf DEF Wire, LeaveInv, JobLeaves, Undone
<1>4. PICK b \in BOOLEAN : /\ tx' = FreeTurn(Ended(t, "ROLLBACK", b), s)
                           /\ RollbackSettles(Label[t], c, b)
  BY <1>1, <1>3 DEF AutoRolledBack
<1>5. PICK g : g = Ended(t, "ROLLBACK", b)
  OBVIOUS
<1>6. /\ g \in [Task -> Record] /\ g[t].state # "ACTIVE"
      /\ \A u \in Task \ {t} : Alike(g[u], tx[u])
  BY <1>3, <1>5, EndedRecords
<1>7. \A u \in Task : Alike(tx'[u], g[u])
  BY <1>4, <1>5, <1>6, TurnsAlike
<1>8. tx'[t].state # "ACTIVE" /\ \A u \in Task \ {t} : Alike(tx'[u], tx[u])
  BY <1>3, <1>6, <1>7 DEF Alike
<1>9. ReleaseClient(Label[t], b) /\ (ServerEnds(c) \/ ServerKeeps)
  BY <1>4 DEF RollbackSettles
<1>10. \A x \in Slot : job'[x] = job[x] \/ (job[x].by = t /\ job'[x] = Idle)
  BY <1>1, <1>2 DEF TxInv, JobPart
<1> QED
  BY <1>1, <1>3, <1>8, <1>9, <1>10, AnswersEnd

LEMMA SaveInit == Init => SaveInv
BY DEF Init, Unused, SaveInv, SavedTask

LEMMA SaveNext ==
    ASSUME TxInv, BeginPart, HoldInv, LeaveInv, SendInv, SaveInv, LabelsApart, ~Overlaps,
           ~Disconnects, AutoRollback = TRUE, [Next]_vars
    PROVE  SaveInv'
<1>1. CASE UNCHANGED vars
  <2>1. UNCHANGED <<transactions, tx, job, lent, dead, marks>>
    BY <1>1 DEF vars, engine, calls, wires
  <2>2. (lent \cap dead = {})' /\ \A u \in Task : Alike(tx'[u], tx[u])
    BY <2>1 DEF SaveInv, Alike
  <2> QED
    BY <2>1, <2>2, KeptSaves
<1>2. ASSUME NEW t \in Task,
             \/ Begin(t) \/ BeginAcquired(t) \/ BeginAcquireFailed(t)
             \/ BeginFailed(t) \/ BeginDone(t) \/ Enter(t)
             \/ Resolve(t) \/ CommitDone(t) \/ CommitFailed(t)
             \/ Throw(t) \/ ThrowRolledBack(t)
             \/ Fire(t) \/ FireRolledBack(t)
      PROVE  SaveInv'
  BY <1>2, BeginSaves, BeginDoneSaves, EndSaves, TimeoutSaves
<1>3. CASE Disconnect \/ DisconnectNext \/ DisconnectRolledBack
  BY <1>3 DEF Disconnect, DisconnectNext, DisconnectRolledBack, SendInv
<1>4. ASSUME NEW s \in Slot,
             \/ \E p \in Task \cup Slot : Execute(s, p) \/ OpenBlock(s, p)
             \/ StatementDone(s) \/ StatementFailed(s) \/ AutoRollbackToDone(s)
             \/ AutoRollbackToFailed(s)
             \/ OpenBlockDone(s) \/ OpenBlockFailed(s) \/ EnterBlock(s)
             \/ BlockThrows(s) \/ BlockUnwound(s) \/ BlockReleases(s) \/ BlockReleased(s)
      PROVE  SaveInv'
  <2>1. CASE \E p \in Task \cup Slot : Execute(s, p) \/ OpenBlock(s, p)
    BY <2>1, ExecuteSaves, OpenBlockSaves
  <2>2. CASE StatementDone(s) \/ OpenBlockFailed(s) \/ EnterBlock(s)
    BY <2>2, QuietSaves
  <2>3. CASE StatementFailed(s) \/ AutoRollbackToDone(s) \/ AutoRollbackToFailed(s) \/ OpenBlockDone(s)
    BY <2>3, StatementFailedSaves, AutoRollbackToDoneSaves, AutoRollbackToFailedSaves,
       OpenBlockDoneSaves
  <2>4. CASE BlockThrows(s) \/ BlockUnwound(s) \/ BlockReleases(s) \/ BlockReleased(s)
    BY <2>4, BlockSaves
  <2> QED
    BY <1>4, <2>1, <2>2, <2>3, <2>4
<1>5. ASSUME NEW s \in Slot,
             \/ Query(s) \/ QueryAcquired(s) \/ QueryAcquireFailed(s)
             \/ QueryDone(s) \/ QueryFailed(s) \/ QueryValidated(s)
      PROVE  SaveInv'
  BY <1>5, QuerySaves
<1>6. ASSUME NEW s \in Slot, AutoRolledBack(s) PROVE SaveInv'
  BY <1>6, AutoRolledBackSaves
<1> QED
  BY <1>1, <1>2, <1>3, <1>4, <1>5, <1>6 DEF Next

\* Between two requests nothing is being undone.
LEMMA SavesExist ==
    ASSUME TxInv, SendInv, SaveInv
    PROVE  SavepointsExist
<1>1. ASSUME NEW t \in Task, tx[t].state = "ACTIVE", ~tx[t].busy, NEW i \in DOMAIN tx[t].savepoints
      PROVE  /\ Holds(marks[tx[t].client], tx[t].savepoints[i])
             /\ \A j \in 1 .. i - 1 :
                   IndexOf(marks[tx[t].client], tx[t].savepoints[j])
                     < IndexOf(marks[tx[t].client], tx[t].savepoints[i])
  <2>1. PICK k, m : k = Believed(t) /\ m = Known(t)
    OBVIOUS
  <2>2. k \in Stack /\ m \in Stack /\ Saved(t, k, m)
    BY <1>1, <2>1, ActiveTask
  <2>3. ~Undoing(t)
    <3> SUFFICES ASSUME NEW s \in Slot, job[s].by = t, job[s].at = "ROLLBACK TO" PROVE FALSE
      BY DEF Undoing
    <3>1. Working(s)
      BY DEF Working, Wire
    <3> QED
      BY <1>1, <3>1 DEF SendInv, JobSends
  <2>4. Rising(k) /\ Rising(m) /\ Within(k, m) /\ i \in DOMAIN k
    BY <1>1, <2>1, <2>2, <2>3 DEF Saved, Believed
  <2>5. /\ Holds(m, k[i])
        /\ \A j \in 1 .. i - 1 : IndexOf(m, k[j]) < IndexOf(m, k[i])
    BY <2>2, <2>4, WithinOrder
  <2> QED
    BY <2>1, <2>5 DEF Believed, Known
<1> QED
  BY <1>1 DEF SavepointsExist

\* "Inside a savepoint: undo only to it" needs the savepoint to be there, and
\* "the in-memory stack must not keep claiming a savepoint the DB may have
\* already discarded": between two requests every savepoint on the engine's stack
\* exists on the server, in the same order, whatever nested scopes throw, resolve
\* or are refused, statements fail, deadlocks end the server's transaction and
\* timers fire, when every task has an id of its own, callbacks await each call
\* before the next and nobody disconnects.
THEOREM SavepointsExistHolds ==
    ASSUME LabelsApart, ~Overlaps, ~Disconnects
    PROVE  Spec => []SavepointsExist
<1>1. CASE AutoRollback # TRUE
  <2>1. ~AutoRollback
    BY <1>1, OptionAssumption
  <2>2. SavepointsExist
    BY <2>1 DEF SavepointsExist
  <2> QED
    BY <2>2, PTL
<1>2. CASE AutoRollback = TRUE
  <2> DEFINE I == TxProof /\ LeaveInv /\ SendInv /\ SaveInv
  <2>1. Init => I
    BY TxInvInit, HoldInit, LeaveInit, SendInit, SaveInit DEF TxProof
  <2>2. I /\ [Next]_vars => I'
    BY <1>2, TxInvNext, HoldStep, LeaveStep, SendNext, SaveNext DEF TxProof
  <2>3. I => SavepointsExist
    BY SavesExist DEF TxProof
  <2> HIDE DEF I
  <2> QED
    BY <2>1, <2>2, <2>3, PTL DEF Spec
<1> QED
  BY <1>1, <1>2
=============================================================================
