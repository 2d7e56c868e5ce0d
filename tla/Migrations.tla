---------------------------- MODULE Migrations ----------------------------
(***************************************************************************)
(* Processes that migrate one database with norm's Migrator: apply() and   *)
(* rollback() (packages/norm/migrations/Migrator.ts) under the lock file   *)
(* of their host (FileLock.ts) and, where the dialect has one, the         *)
(* server's advisory lock (norm/executor.ts).  Every step of a call ends   *)
(* at an await; a process may be killed at each of them.                   *)
(*                                                                         *)
(* A version's plan is a sequence of objects to create; the reverse diff   *)
(* drops them in the opposite order.  An object lives On a table: a        *)
(* table is created IF NOT EXISTS and dropped IF EXISTS, with everything   *)
(* on it; a column is added and dropped without such a clause, so that     *)
(* its statement fails when the schema already is where it should lead.    *)
(***************************************************************************)
EXTENDS Naturals, Sequences, FiniteSets, FiniteSetsExt, SequencesExt

CONSTANTS Process, Host,
          NoProcess,       \* no lock file; the advisory lock is free
          Orphan,          \* a lock file whose writer is dead
          Dialects,        \* what the executor can do, and lockStaleMs counted in
                           \* the statements it outlasts
          fsVersion,       \* the last snapshot on disk
          Plan,            \* the objects each version creates, in order
          On,              \* the table an object belongs to
          SettleSuffices,  \* no file operation outlasts another's SETTLE_MS
          RollbackAlone,   \* a rollback runs beside no other call
          WholeVersions    \* a rollback starts when no version is half applied

Versions == 1..fsVersion
Object == UNION {ToSet(Plan[v]) : v \in Versions}

ASSUME MigrationsAssumption ==
    /\ fsVersion \in Nat /\ DOMAIN Plan = Versions
    /\ \A v \in Versions : Plan[v] \in Seq(Object)
    /\ On \in [Object -> Object] /\ \A o \in Object : On[On[o]] = On[o]
    /\ Dialects \subseteq [ddl : BOOLEAN, advisory : BOOLEAN, staleMs : Nat \ {0}]
    /\ {NoProcess, Orphan} \cap Process = {} /\ NoProcess # Orphan
    /\ {SettleSuffices, RollbackAlone, WholeVersions} \subseteq BOOLEAN

\* A version creates objects no other one creates, tables before what is on
\* them, parents first (diff.ts, orderForCreate).
ASSUME PlanAssumption ==
    \A v, w \in Versions : \A i \in DOMAIN Plan[v], j \in DOMAIN Plan[w] :
        /\ Plan[v][i] = Plan[w][j] => v = w /\ i = j
        /\ On[Plan[v][i]] = Plan[w][j] => w < v \/ (w = v /\ j <= i)

VARIABLES dialect,   \* the executor's capabilities
          home,      \* the host of each process
          file,      \* host -> whose token migrator.lock carries
          age,       \* host -> statements finished since that file was stamped
          advisory,  \* holder of the server's lock
          history,   \* versions with a row in _norm_migrations
          schema,    \* objects in the database
          progress,  \* rows of _norm_migration_progress
          call       \* the call each process is in

fileVars == <<file, age>>
dbVars   == <<history, schema, progress>>
fixed    == <<dialect, home>>
migVars  == <<fixed, fileVars, advisory, dbVars, call>>

NoRow == [hash |-> "none", completed |-> 0]
AtRest == [pc |-> "idle", op |-> "none", ver |-> 0, to |-> 0, done |-> 0]

Critical == {"plan", "step", "tx", "ddl", "checkpoint", "touch", "record", "clear", "restamp"}

MigInit ==
    /\ dialect \in Dialects
    /\ home \in [Process -> Host]
    /\ dialect.advisory \/ \A p, q \in Process : home[p] = home[q]
    /\ file = [h \in Host |-> NoProcess]
    /\ age = [h \in Host |-> 0]
    /\ advisory = NoProcess
    /\ history = {} /\ schema = {}
    /\ progress = [v \in Versions |-> NoRow]
    /\ call = [p \in Process |-> AtRest]

---------------------------------------------------------------------------
(* What the statements of a plan do.                                       *)

IsTable(o) == On[o] = o
Objects(v) == ToSet(Plan[v])
DbHead == Max(history \cup {0})

Creates(o, s) == IsTable(o) \/ (o \notin s /\ On[o] \in s)
Drops(o, s)   == IsTable(o) \/ o \in s
Without(s, o) == {x \in s : x # o /\ On[x] # o}

\* the plan of a call's current step and its fingerprint (actionsHash)
Applies(p) == call[p].op = "apply"
Actions(p) == IF Applies(p) THEN Plan[call[p].ver] ELSE Reverse(Plan[call[p].ver])
actionsHash(p) == call[p].op

Goto(p, label) == call' = [call EXCEPT ![p].pc = label]

---------------------------------------------------------------------------
(* The two entry points.  rollback reads the head version before it takes  *)
(* a lock; apply reads it under both.                                      *)

Apply(p) ==
    /\ call[p].pc = "idle"
    /\ call' = [call EXCEPT ![p] = [AtRest EXCEPT !.pc = "probe", !.op = "apply"]]
    /\ UNCHANGED <<fixed, fileVars, advisory, dbVars>>

\* Mutant: the loop starts at the target and not at the head.
RollbackFromTarget(p, to) ==
    /\ call[p].pc = "idle"
    /\ to < DbHead
    /\ call' = [call EXCEPT ![p] = [pc |-> "probe", op |-> "rollback",
                                    ver |-> to + 1, to |-> to, done |-> 0]]
    /\ UNCHANGED <<fixed, fileVars, advisory, dbVars>>

Rollback(p, to) ==
    /\ call[p].pc = "idle"
    /\ to < DbHead
    /\ call' = [call EXCEPT ![p] = [pc |-> "probe", op |-> "rollback",
                                    ver |-> DbHead, to |-> to, done |-> 0]]
    /\ UNCHANGED <<fixed, fileVars, advisory, dbVars>>

---------------------------------------------------------------------------
(* FileLock.acquire: look for the file, write it, let 15 ms pass and read  *)
(* it back; or judge the file that is there by its stamp and delete it.    *)

Probe(p) ==
    /\ call[p].pc = "probe"
    /\ Goto(p, IF file[home[p]] = NoProcess THEN "create" ELSE "judge")
    /\ UNCHANGED <<fixed, fileVars, advisory, dbVars>>

Create(p) ==
    /\ call[p].pc = "create"
    /\ file' = [file EXCEPT ![home[p]] = p]
    /\ age' = [age EXCEPT ![home[p]] = 0]
    /\ Goto(p, "settle")
    /\ UNCHANGED <<fixed, advisory, dbVars>>

\* What SETTLE_MS is there for: no file operation another contender began
\* before this write is still under way when they have passed.
Settled(p) ==
    SettleSuffices => \A q \in Process \ {p} :
        home[q] = home[p] => call[q].pc \notin {"create", "reclaim"}

\* where the loop goes when the lock was not won: round again or LOCK_TIMEOUT
Again == {"probe", "idle"}

ReadBack(p) ==
    /\ call[p].pc = "settle" /\ Settled(p)
    /\ \E next \in IF file[home[p]] = p THEN {"advisory"} ELSE Again :
           IF next = "idle" THEN call' = [call EXCEPT ![p] = AtRest]
                            ELSE Goto(p, next)
    /\ UNCHANGED <<fixed, fileVars, advisory, dbVars>>

Stale(h) == age[h] > dialect.staleMs

\* a statement has run since the file was stamped
Older(h) == age' = [age EXCEPT ![h] = IF Stale(h) THEN @ ELSE @ + 1]

\* Mutant: a lock file is never too old.
JudgeWaits(p) ==
    /\ call[p].pc = "judge"
    /\ \E next \in Again : IF next = "idle" THEN call' = [call EXCEPT ![p] = AtRest]
                                              ELSE Goto(p, next)
    /\ UNCHANGED <<fixed, fileVars, advisory, dbVars>>

Judge(p) ==
    LET h == home[p] IN
    /\ call[p].pc = "judge"
    /\ \E next \in CASE file[h] = NoProcess -> {"probe"}
                     [] file[h] # NoProcess /\ Stale(h) -> {"reclaim"}
                     [] OTHER -> Again :
           IF next = "idle" THEN call' = [call EXCEPT ![p] = AtRest]
                            ELSE Goto(p, next)
    /\ UNCHANGED <<fixed, fileVars, advisory, dbVars>>

Reclaim(p) ==
    /\ call[p].pc = "reclaim"
    /\ file' = [file EXCEPT ![home[p]] = NoProcess]
    /\ Goto(p, "probe")
    /\ UNCHANGED <<fixed, age, advisory, dbVars>>

\* time passes over a lock file nobody stamps any more
Expire(h) ==
    /\ file[h] = Orphan /\ ~Stale(h)
    /\ age' = [age EXCEPT ![h] = dialect.staleMs + 1]
    /\ UNCHANGED <<fixed, file, advisory, dbVars, call>>

---------------------------------------------------------------------------
(* __withAdvisoryLock, and the plan made inside both locks.                *)

WithAdvisoryLock(p) ==
    /\ call[p].pc = "advisory"
    /\ dialect.advisory => advisory = NoProcess
    /\ advisory' = IF dialect.advisory THEN p ELSE advisory
    /\ Goto(p, "plan")
    /\ UNCHANGED <<fixed, fileVars, dbVars>>

AdvisoryTimeout(p) ==
    /\ call[p].pc = "advisory" /\ dialect.advisory /\ advisory # NoProcess
    /\ Goto(p, "release")
    /\ UNCHANGED <<fixed, fileVars, advisory, dbVars>>

MakePlan(p) ==
    /\ call[p].pc = "plan" /\ Applies(p)
    /\ call' = [call EXCEPT ![p].pc = IF DbHead < fsVersion THEN "step" ELSE "unlock",
                            ![p].ver = DbHead + 1, ![p].to = fsVersion]
    /\ UNCHANGED <<fixed, fileVars, advisory, dbVars>>

RollbackPlan(p) ==
    /\ call[p].pc = "plan" /\ ~Applies(p)
    /\ Goto(p, "step")
    /\ UNCHANGED <<fixed, fileVars, advisory, dbVars>>

\* DRIFT, BLOCKED_DROPS, MISSING_SNAPSHOT, PLAN_HASH_MISMATCH
Refuse(p) ==
    /\ call[p].pc = "plan" /\ Applies(p)
    /\ Goto(p, "unlock")
    /\ UNCHANGED <<fixed, fileVars, advisory, dbVars>>

---------------------------------------------------------------------------
(* One version on an engine with transactional DDL: the statements and the *)
(* history row commit together or not at all; the lock file is not stamped *)
(* until then.                                                             *)

Begin(p) ==
    /\ call[p].pc = "step" /\ dialect.ddl
    /\ call' = [call EXCEPT ![p].pc = "tx", ![p].done = 0]
    /\ UNCHANGED <<fixed, fileVars, advisory, dbVars>>

TxStatement(p) ==
    /\ call[p].pc = "tx" /\ call[p].done < Len(Actions(p))
    /\ Older(home[p])
    /\ call' = [call EXCEPT ![p].done = @ + 1]
    /\ UNCHANGED <<fixed, file, advisory, dbVars>>

TxRuns(p) ==
    LET os == ToSet(Actions(p)) IN
    IF Applies(p) THEN /\ \A o \in os : \/ IsTable(o)
                                        \/ o \notin schema /\ On[o] \in schema \cup os
                       /\ call[p].ver \notin history
                  ELSE \A o \in os : Drops(o, schema)

Transaction(p) ==
    LET os == ToSet(Actions(p)) IN
    /\ call[p].pc = "tx" /\ call[p].done = Len(Actions(p)) /\ TxRuns(p)
    /\ schema' = IF Applies(p) THEN schema \cup os
                 ELSE {x \in schema : x \notin os /\ On[x] \notin os}
    /\ history' = IF Applies(p) THEN history \cup {call[p].ver}
                                ELSE history \ {call[p].ver}
    /\ Goto(p, "restamp")
    /\ UNCHANGED <<fixed, fileVars, advisory, progress>>

---------------------------------------------------------------------------
(* One version elsewhere: a checkpoint after every statement.              *)

\* Mutant: the fingerprint of the checkpointed plan is not compared.
ReadProgressOfAnyPlan(p) ==
    LET row == progress[call[p].ver] IN
    /\ call[p].pc = "step" /\ ~dialect.ddl
    /\ call' = [call EXCEPT ![p].done = row.completed,
                            ![p].pc = IF row.completed < Len(Actions(p))
                                      THEN "ddl" ELSE "record"]
    /\ UNCHANGED <<fixed, fileVars, advisory, dbVars>>

\* Mutant: a retry begins one statement too late.
ReadProgressPast(p) ==
    LET row == progress[call[p].ver]
        next == IF row = NoRow THEN 0 ELSE row.completed + 1
    IN  /\ call[p].pc = "step" /\ ~dialect.ddl
        /\ row.hash \in {"none", actionsHash(p)}
        /\ call' = [call EXCEPT ![p].done = next,
                                ![p].pc = IF next < Len(Actions(p)) THEN "ddl" ELSE "record"]
        /\ UNCHANGED <<fixed, fileVars, advisory, dbVars>>

ReadProgress(p) ==
    LET row == progress[call[p].ver] IN
    /\ call[p].pc = "step" /\ ~dialect.ddl
    /\ row.hash \in {"none", actionsHash(p)}
    /\ call' = [call EXCEPT ![p].done = row.completed,
                            ![p].pc = IF row.completed < Len(Actions(p))
                                      THEN "ddl" ELSE "record"]
    /\ UNCHANGED <<fixed, fileVars, advisory, dbVars>>

PlanChanged(p) ==
    /\ call[p].pc = "step" /\ ~dialect.ddl
    /\ progress[call[p].ver].hash \notin {"none", actionsHash(p)}
    /\ Goto(p, "unlock")
    /\ UNCHANGED <<fixed, fileVars, advisory, dbVars>>

Ddl(p) ==
    LET o == Actions(p)[call[p].done + 1] IN
    /\ call[p].pc = "ddl"
    /\ IF Applies(p) THEN Creates(o, schema) /\ schema' = schema \cup {o}
                     ELSE Drops(o, schema) /\ schema' = Without(schema, o)
    /\ Older(home[p])
    /\ Goto(p, "checkpoint")
    /\ UNCHANGED <<fixed, file, advisory, history, progress>>

\* the row is inserted after the first statement and updated after the others
WriteProgress(p) ==
    LET v == call[p].ver
        n == call[p].done + 1
    IN  /\ call[p].pc = "checkpoint"
        /\ call[p].done = 0 => progress[v] = NoRow
        /\ progress' = [progress EXCEPT ![v] =
               IF call[p].done = 0 THEN [hash |-> actionsHash(p), completed |-> n]
               ELSE IF @ = NoRow THEN @
               ELSE [@ EXCEPT !.completed = n]]
        /\ call' = [call EXCEPT ![p].pc = "touch", ![p].done = n]
        /\ UNCHANGED <<fixed, fileVars, advisory, history, schema>>

\* FileLock.touch re-stamps the file only while it carries our token.
Stamped(p) == age' = IF file[home[p]] = p THEN [age EXCEPT ![home[p]] = 0] ELSE age

\* Mutant: the lock is stamped between versions only.
TouchLockNot(p) ==
    /\ call[p].pc = "touch"
    /\ Goto(p, IF call[p].done < Len(Actions(p)) THEN "ddl" ELSE "record")
    /\ UNCHANGED <<fixed, fileVars, advisory, dbVars>>

TouchLock(p) ==
    /\ call[p].pc = "touch"
    /\ Stamped(p)
    /\ Goto(p, IF call[p].done < Len(Actions(p)) THEN "ddl" ELSE "record")
    /\ UNCHANGED <<fixed, file, advisory, dbVars>>

\* the history row: inserted under its primary key, or deleted
Record(p) ==
    /\ call[p].pc = "record"
    /\ Applies(p) => call[p].ver \notin history
    /\ history' = IF Applies(p) THEN history \cup {call[p].ver}
                                ELSE history \ {call[p].ver}
    /\ Goto(p, "clear")
    /\ UNCHANGED <<fixed, fileVars, advisory, schema, progress>>

ClearProgress(p) ==
    /\ call[p].pc = "clear"
    /\ progress' = [progress EXCEPT ![call[p].ver] = NoRow]
    /\ Goto(p, "restamp")
    /\ UNCHANGED <<fixed, fileVars, advisory, history, schema>>

\* a statement the database refuses, for its own reasons or for ours
Fail(p) ==
    /\ call[p].pc \in {"step", "tx", "ddl", "checkpoint", "record", "clear"}
    /\ Goto(p, "unlock")
    /\ UNCHANGED <<fixed, fileVars, advisory, dbVars>>

---------------------------------------------------------------------------
(* Between versions, and the way out.                                      *)

NextVersion(p) ==
    LET v == call[p].ver
        more == IF Applies(p) THEN v < call[p].to ELSE v - 1 > call[p].to
    IN  /\ call[p].pc = "restamp"
        /\ Stamped(p)
        /\ call' = [call EXCEPT ![p].pc = IF more THEN "step" ELSE "unlock",
                                ![p].done = 0,
                                ![p].ver = CASE ~more -> v
                                             [] more /\ Applies(p) -> v + 1
                                             [] OTHER -> v - 1]
        /\ UNCHANGED <<fixed, file, advisory, dbVars>>

Unlock(p) ==
    /\ call[p].pc = "unlock"
    /\ advisory' = IF dialect.advisory THEN NoProcess ELSE advisory
    /\ Goto(p, "release")
    /\ UNCHANGED <<fixed, fileVars, dbVars>>

Release(p) ==
    LET h == home[p] IN
    /\ call[p].pc = "release"
    /\ file' = IF file[h] = p THEN [file EXCEPT ![h] = NoProcess] ELSE file
    /\ call' = [call EXCEPT ![p] = AtRest]
    /\ UNCHANGED <<fixed, age, advisory, dbVars>>

\* The process is killed: its connection goes, and with it the advisory
\* lock and an open transaction; its lock file stays.
Crash(p) ==
    LET h == home[p] IN
    /\ call[p].pc # "idle"
    /\ file' = IF file[h] = p THEN [file EXCEPT ![h] = Orphan] ELSE file
    /\ advisory' = IF advisory = p THEN NoProcess ELSE advisory
    /\ call' = [call EXCEPT ![p] = AtRest]
    /\ UNCHANGED <<fixed, age, dbVars>>

Step(p) ==
    \/ Probe(p) \/ Create(p) \/ ReadBack(p) \/ Judge(p) \/ Reclaim(p)
    \/ WithAdvisoryLock(p) \/ AdvisoryTimeout(p)
    \/ MakePlan(p) \/ RollbackPlan(p) \/ Refuse(p)
    \/ Begin(p) \/ TxStatement(p) \/ Transaction(p) \/ ReadProgress(p) \/ PlanChanged(p) \/ Ddl(p)
    \/ WriteProgress(p) \/ TouchLock(p) \/ Record(p) \/ ClearProgress(p) \/ Fail(p)
    \/ NextVersion(p) \/ Unlock(p) \/ Release(p)

\* What those who deploy keep to and the code does not see to: RollbackAlone,
\* WholeVersions.
Alone(p) == \A q \in Process \ {p} : call[q].pc = "idle"
NobodyReverts(p) == \A q \in Process \ {p} : call[q].op # "rollback"
NoneHalfApplied == \A v \in Versions : v > DbHead => Objects(v) \cap schema = {}

MigNext ==
    \/ \E p \in Process : Step(p) \/ Crash(p)
    \/ \E p \in Process : (RollbackAlone => NobodyReverts(p)) /\ Apply(p)
    \/ \E p \in Process, to \in 0..fsVersion :
           /\ RollbackAlone => Alone(p)
           /\ WholeVersions => NoneHalfApplied
           /\ Rollback(p, to)
    \/ \E h \in Host : Expire(h)

\* A call that is under way goes on, and a file nobody stamps gets old.
MigFairness ==
    /\ \A p \in Process : WF_migVars(Step(p))
    /\ \A h \in Host : WF_migVars(Expire(h))

MigSpec == MigInit /\ [][MigNext]_migVars /\ MigFairness
---------------------------------------------------------------------------
(* Properties.                                                             *)

\* Every variable keeps its type: a row of _norm_migration_progress never
\* counts more statements than its version has, and a call never runs past
\* the plan it executes.
MigTypeOK ==
    /\ dialect \in Dialects /\ home \in [Process -> Host]
    /\ file \in [Host -> Process \cup {NoProcess, Orphan}]
    /\ age \in [Host -> 0..dialect.staleMs + 1]
    /\ advisory \in Process \cup {NoProcess}
    /\ history \subseteq Versions /\ schema \subseteq Object
    /\ progress \in [Versions -> [hash : {"none", "apply", "rollback"}, completed : Nat]]
    /\ \A v \in Versions : progress[v].completed <= Len(Plan[v])
    /\ \A p \in Process :
           /\ call[p].pc \in Critical \cup {"idle", "probe", "create", "settle", "judge",
                                           "reclaim", "advisory", "unlock", "release"}
           /\ call[p].op \in {"none", "apply", "rollback"}
           /\ call[p].to \in 0..fsVersion /\ call[p].ver \in 0..fsVersion + 1
           /\ call[p].pc \in {"ddl", "checkpoint"} => call[p].done < Len(Actions(p))
           /\ call[p].pc = "tx" => call[p].done <= Len(Actions(p))

\* No two processes are between the locks and the release of the locks
\* (Migrator.apply and rollback), whatever the order of their lock file
\* operations, reclaims of a dead process's file and crashes.
OneMigrator ==
    Cardinality({p \in Process : call[p].pc \in Critical}) <= 1

\* What that takes where the lock file is all there is: SETTLE_MS suffice, and
\* lockStaleMs outlasts a whole version where one is a transaction.
LocksWork ==
    \A d \in Dialects :
        \/ d.advisory
        \/ SettleSuffices /\ (d.ddl => \A v \in Versions : Len(Plan[v]) <= d.staleMs)

\* What _norm_migrations and the checkpoints say of a version, and the object
\* of the statement that may have run and not been written down: the one a
\* retry begins with.
Accounted(v) ==
    LET n == progress[v].completed IN
    CASE progress[v].hash = "apply" /\ v \notin history -> ToSet(SubSeq(Plan[v], 1, n))
      [] progress[v].hash = "rollback" /\ v \in history ->
             ToSet(SubSeq(Plan[v], 1, Len(Plan[v]) - n))
      [] OTHER -> IF v \in history THEN Objects(v) ELSE {}

Due(v) ==
    LET n == progress[v].completed
        i == IF v \in history THEN Len(Plan[v]) - n ELSE n + 1
    IN  IF progress[v].hash # (IF v \in history THEN "apply" ELSE "rollback")
        THEN {Plan[v][k] : k \in DOMAIN Plan[v] \cap {i}} ELSE {}

\* The database's own books are right (__applyStep, __revertStep): of every
\* version the schema holds exactly what the history and the checkpoints
\* account for where a version is one transaction; elsewhere an apply may
\* be one statement ahead of them, and so may a rollback, through failures
\* and crashes at every statement.  (Two versions may be off at a time: one
\* whose rollback was killed stays in the history, and the next one is
\* applied over it.)
SchemaAccountedFor ==
    \A v \in Versions :
        LET there == Objects(v) \cap schema IN
        CASE dialect.ddl -> there = Accounted(v)
          [] ~dialect.ddl /\ v \notin history ->
                 Accounted(v) \subseteq there /\ there \subseteq Accounted(v) \cup Due(v)
          [] OTHER ->
                 Accounted(v) \ Due(v) \subseteq there /\ there \subseteq Accounted(v)

\* What the checkpoints are for (__applyStep): a version that was just
\* recorded, after however many retries, has everything it creates.
AppliedInFull ==
    \A p \in Process :
        call[p].pc = "clear" /\ Applies(p) => Objects(call[p].ver) \subseteq schema

\* The applied versions are the first ones (plan, rollback): no call leaves
\* a version out below the head, where no later apply would look for it.
HistoryHasNoHole == history = 1..DbHead

\* The lock file of a killed process does not stop the next migration
\* (FileLock.__reclaimIfStale): while a process tries to get the lock, the
\* file is taken away, by it or by another, unless it gives up or dies.
Trying(p) == call[p].pc \in {"probe", "judge", "reclaim"}
OrphanReclaimed ==
    \A p \in Process :
        Trying(p) /\ file[home[p]] = Orphan ~> file[home[p]] # Orphan \/ ~Trying(p)
=============================================================================
