-------------------------- MODULE MigrationsProofs --------------------------
(* Proofs about the migrations: the lock file and the advisory lock let one *)
(* process in, the history of migrations has no hole, and history and       *)
(* checkpoints tell the schema.                                             *)
EXTENDS Migrations, FiniteSetTheorems, SequenceTheorems, WellFoundedInduction, TLAPS

Labels == Critical \cup {"idle", "probe", "create", "settle", "judge",
                         "reclaim", "advisory", "unlock", "release"}

\* from the moment the lock file is won to its release
Holding == Critical \cup {"advisory", "unlock", "release"}

\* where the stamp of the lock file is fresh: no statement has run since
Fresh == {"advisory", "plan", "step", "ddl", "record", "clear"}

CallRecord == [pc : Labels, op : {"none", "apply", "rollback"},
               ver : Nat, to : 0..fsVersion, done : Nat]

MigTypes ==
    /\ dialect \in [ddl : BOOLEAN, advisory : BOOLEAN, staleMs : Nat \ {0}]
    /\ home \in [Process -> Host]
    /\ file \in [Host -> Process \cup {NoProcess, Orphan}]
    /\ age \in [Host -> Nat]
    /\ call \in [Process -> CallRecord]

\* while a version is at work, it is one of those on disk
Working == Critical \ {"plan"}
VersionInv ==
    /\ history \subseteq Versions
    /\ progress \in [Versions -> [hash : {"none", "apply", "rollback"}, completed : Nat]]
    /\ \A p \in Process :
          /\ call[p].pc \in Working \/ call[p].op = "rollback" => call[p].ver \in Versions
          /\ (call[p].op = "none") <=> (call[p].pc = "idle")

\* Who is past the server's lock is its holder.
Owned == Critical \cup {"unlock"}
ServerInv == \A p \in Process : call[p].pc \in Owned => advisory = p

\* Who holds the lock file is named in it; its stamp has the age of the
\* statements that have run since, which is too young to be reclaimed, and
\* nobody of that host is about to write or to delete it.
Holds(p) ==
    /\ call[p].pc \in Holding => file[home[p]] = p /\ age[home[p]] <= dialect.staleMs
    /\ call[p].pc \in Fresh => age[home[p]] = 0
    /\ call[p].pc = "tx" => dialect.ddl /\ age[home[p]] <= call[p].done
    /\ call[p].pc = "settle" /\ file[home[p]] = p => age[home[p]] = 0

FileInv ==
    /\ \A p \in Process : Holds(p)
    /\ \A p, q \in Process :
          p # q /\ home[p] = home[q] /\ call[p].pc \in Holding =>
              call[q].pc \notin {"create", "reclaim"}

\* LocksWork, for the dialect of this database, and one host without a server.
FileSuffices ==
    /\ SettleSuffices /\ \A p, q \in Process : home[p] = home[q]
    /\ dialect.ddl => \A v \in Versions : Len(Plan[v]) <= dialect.staleMs

LockInv ==
    /\ MigTypes
    /\ dialect.advisory => ServerInv
    /\ ~dialect.advisory => FileSuffices /\ FileInv

-----------------------------------------------------------------------------
(* Plans, heads of the history, and the types of a call.                   *)

Size(v) == Len(Plan[v])

LEMMA MinExists ==
    ASSUME NEW S \in SUBSET Nat, S # {}
    PROVE  \E x \in S : \A y \in S : x <= y
<1>1. PICK x \in S : \A y \in S : ~(<<y, x>> \in OpToRel(<, Nat))
  BY NatLessThanWellFounded, WFMin, Zenon
<1>2. \A y \in S : y < x => <<y, x>> \in OpToRel(<, Nat)
  <2> SUFFICES ASSUME NEW y \in S, y < x PROVE <<y, x>> \in {z \in Nat \X Nat : z[1] < z[2]}
    BY Zenon DEF OpToRel
  <2> QED
    OBVIOUS
<1>3. \A y \in S : ~(y < x)
  BY <1>1, <1>2, Zenon
<1> QED
  BY <1>3

LEMMA MaxExists ==
    ASSUME NEW n \in Nat, NEW S \in SUBSET (0..n), S # {}
    PROVE  Max(S) \in S /\ \A y \in S : y <= Max(S)
<1> DEFINE T == {n - x : x \in S}
<1>1. T \in SUBSET Nat /\ T # {}
  <2>1. PICK y \in S : TRUE
    OBVIOUS
  <2>2. n - y \in T
    BY <2>1
  <2>3. \A z \in S : n - z \in Nat
    OBVIOUS
  <2> QED
    BY <2>2, <2>3, Zenon
<1>2. PICK m \in T : \A y \in T : m <= y
  BY <1>1, MinExists
<1>3. PICK x \in S : m = n - x
  BY <1>2
<1>4. \A y \in S : x >= y
  BY <1>2, <1>3
<1>5. Max(S) \in S /\ \A y \in S : Max(S) >= y
  BY <1>3, <1>4, Zenon DEF Max
<1> QED
  BY <1>5

LEMMA PlanSeq ==
    /\ fsVersion \in Nat /\ Versions = 1..fsVersion
    /\ \A v \in Versions :
          /\ Plan[v] \in Seq(Object) /\ Size(v) \in Nat /\ DOMAIN Plan[v] = 1..Size(v)
          /\ \A i \in 1..Size(v) : Plan[v][i] \in Object
          /\ Objects(v) = {Plan[v][i] : i \in 1..Size(v)}
<1>1. fsVersion \in Nat /\ Versions = 1..fsVersion
  BY MigrationsAssumption DEF Versions
<1>2. ASSUME NEW v \in Versions
      PROVE  /\ Plan[v] \in Seq(Object) /\ Size(v) \in Nat /\ DOMAIN Plan[v] = 1..Size(v)
             /\ \A i \in 1..Size(v) : Plan[v][i] \in Object
             /\ Objects(v) = {Plan[v][i] : i \in 1..Size(v)}
  <2>1. Plan[v] \in Seq(Object)
    BY MigrationsAssumption
  <2>2. Size(v) \in Nat /\ DOMAIN Plan[v] = 1..Size(v)
    BY <2>1 DEF Size
  <2>3. \A i \in 1..Size(v) : Plan[v][i] \in Object
    BY <2>1, <2>2
  <2> QED
    BY <2>1, <2>2, <2>3 DEF Objects, ToSet
<1> QED
  BY <1>1, <1>2

LEMMA PlanOrder ==
    ASSUME NEW v \in Versions, NEW w \in Versions,
           NEW i \in 1..Size(v), NEW j \in 1..Size(w)
    PROVE  /\ Plan[v][i] = Plan[w][j] => v = w /\ i = j
           /\ On[Plan[v][i]] = Plan[w][j] => w < v \/ (w = v /\ j <= i)
BY PlanAssumption, PlanSeq

\* The statements of a call's version: forwards, or backwards.
LEMMA ActionsOf ==
    ASSUME NEW p \in Process, call[p].ver \in Versions
    PROVE  /\ Len(Actions(p)) = Size(call[p].ver)
           /\ ToSet(Actions(p)) = Objects(call[p].ver)
           /\ \A d \in Nat : d < Size(call[p].ver) =>
                 Actions(p)[d + 1] = Plan[call[p].ver][IF call[p].op = "apply" THEN d + 1
                                                       ELSE Size(call[p].ver) - d]
<1> DEFINE v == call[p].ver
           n == Size(v)
           s == Plan[v]
           r == [i \in 1..n |-> s[(n - i) + 1]]
<1>1. n \in Nat /\ DOMAIN s = 1..n /\ Len(s) = n
  BY PlanSeq DEF Size
<1>2. Actions(p) = IF call[p].op = "apply" THEN s ELSE r
  BY DEF Actions, Applies, Reverse, Size
<1> HIDE DEF n, s
<1>3. DOMAIN r = 1..n /\ Len(r) = n /\ \A i \in 1..n : r[i] = s[(n - i) + 1]
  <2>1. r \in Seq({s[i] : i \in 1..n})
    <3>1. \A i \in 1..n : (n - i) + 1 \in 1..n
      BY <1>1
    <3> QED
      BY <1>1, <3>1
  <2> QED
    BY <1>1, <2>1
<1>4. {r[i] : i \in 1..n} = {s[i] : i \in 1..n}
  <2>1. \A i \in 1..n : (n - i) + 1 \in 1..n /\ (n - ((n - i) + 1)) + 1 = i
    BY <1>1
  <2>2. \A i \in 1..n : \E j \in 1..n : r[j] = s[i]
    BY <1>3, <2>1
  <2>3. \A i \in 1..n : \E j \in 1..n : s[j] = r[i]
    BY <1>3, <2>1
  <2> QED
    BY <2>2, <2>3
<1>5. ToSet(s) = {s[i] : i \in 1..n} /\ ToSet(r) = {r[i] : i \in 1..n}
  BY <1>1, <1>3 DEF ToSet
<1>6. ASSUME NEW d \in Nat, d < n
      PROVE  Actions(p)[d + 1] = s[IF call[p].op = "apply" THEN d + 1 ELSE n - d]
  <2>1. d + 1 \in 1..n /\ (n - (d + 1)) + 1 = n - d
    BY <1>1, <1>6
  <2>2. r[d + 1] = s[n - d]
    BY <1>3, <2>1
  <2> HIDE DEF r
  <2> QED
    BY <1>2, <2>2
<1>7. Objects(v) = ToSet(s)
  BY DEF Objects, s
<1> HIDE DEF r
<1> QED
  BY <1>1, <1>2, <1>3, <1>4, <1>5, <1>6, <1>7 DEF n, s

LEMMA HeadIsVersion ==
    ASSUME VersionInv
    PROVE  /\ DbHead \in 0..fsVersion /\ (DbHead # 0 => DbHead \in history)
           /\ \A v \in history : v <= DbHead
<1>1. history \cup {0} \in SUBSET (0..fsVersion) /\ fsVersion \in Nat
  BY MigrationsAssumption DEF VersionInv, Versions
<1> QED
  BY <1>1, MaxExists DEF DbHead

-----------------------------------------------------------------------------
(* What every step leaves of the types.                                    *)

\* What a step to label l leaves of a call.
LEMMA GotoStep ==
    ASSUME MigTypes, NEW p \in Process, NEW l \in Labels, Goto(p, l)
    PROVE  /\ call' \in [Process -> CallRecord]
           /\ call'[p].pc = l /\ call'[p].op = call[p].op /\ call'[p].done = call[p].done
           /\ call'[p].ver = call[p].ver /\ call'[p].to = call[p].to
           /\ \A q \in Process \ {p} : call'[q] = call[q]
BY DEF MigTypes, Goto, CallRecord

LEMMA AtRestStep ==
    ASSUME MigTypes, NEW p \in Process, call' = [call EXCEPT ![p] = AtRest]
    PROVE  /\ call' \in [Process -> CallRecord] /\ call'[p] = AtRest
           /\ call'[p].pc = "idle" /\ call'[p].op = "none"
           /\ \A q \in Process \ {p} : call'[q] = call[q]
<1>1. AtRest \in CallRecord
  BY MigrationsAssumption DEF AtRest, CallRecord, Labels
<1> QED
  BY <1>1 DEF MigTypes, AtRest

LEMMA BeginStep ==
    ASSUME MigTypes, NEW p \in Process,
           Apply(p) \/ \E to \in 0..fsVersion : Rollback(p, to) /\ DbHead \in Nat
    PROVE  /\ call' \in [Process -> CallRecord] /\ call'[p].pc = "probe"
           /\ \A q \in Process \ {p} : call'[q] = call[q]
<1>1. CASE Apply(p)
  <2>1. AtRest \in CallRecord
    BY MigrationsAssumption DEF AtRest, CallRecord, Labels
  <2>2. /\ [AtRest EXCEPT !.pc = "probe", !.op = "apply"] \in CallRecord
        /\ [AtRest EXCEPT !.pc = "probe", !.op = "apply"].pc = "probe"
    BY <2>1 DEF CallRecord, Labels
  <2> QED
    BY <1>1, <2>1, <2>2 DEF Apply, MigTypes
<1>2. ASSUME NEW to \in 0..fsVersion, Rollback(p, to), DbHead \in Nat
      PROVE  /\ call' \in [Process -> CallRecord] /\ call'[p].pc = "probe"
             /\ \A q \in Process \ {p} : call'[q] = call[q]
  <2>1. [pc |-> "probe", op |-> "rollback", ver |-> DbHead, to |-> to, done |-> 0] \in CallRecord
    BY <1>2, MigrationsAssumption DEF CallRecord, Labels
  <2> QED
    BY <1>2, <2>1 DEF Rollback, MigTypes
<1> QED
  BY <1>1, <1>2

LEMMA Neighbours ==
    ASSUME NEW n \in Nat, NEW v \in 1..n, NEW t \in 0..n
    PROVE  (v < t => v + 1 \in 1..n) /\ (v - 1 > t => v - 1 \in 1..n)
OBVIOUS

\* The steps that change more of a call than its label.
LEMMA CallTypes ==
    ASSUME MigTypes, VersionInv, NEW p \in Process,
           \/ MakePlan(p) \/ Begin(p) \/ ReadProgress(p) \/ WriteProgress(p)
           \/ TxStatement(p) \/ NextVersion(p)
    PROVE  call' \in [Process -> CallRecord] /\ \A q \in Process \ {p} : call'[q] = call[q]
<1>0. /\ call \in [Process -> CallRecord] /\ call[p] \in CallRecord /\ fsVersion \in Nat
      /\ \A l \in Critical \cup {"unlock"} : l \in Labels
  BY MigrationsAssumption DEF MigTypes, Labels
<1>1. ASSUME NEW r \in CallRecord, call' = [call EXCEPT ![p] = r]
      PROVE  call' \in [Process -> CallRecord] /\ \A q \in Process \ {p} : call'[q] = call[q]
  BY <1>0, <1>1
<1>2. ASSUME NEW l \in Critical \cup {"unlock"}, NEW n \in Nat, NEW w \in Nat, NEW t \in 0..fsVersion
      PROVE  [call[p] EXCEPT !.pc = l, !.done = n, !.ver = w, !.to = t] \in CallRecord
  BY <1>0 DEF CallRecord
<1>3. CASE MakePlan(p)
  <2> DEFINE l == IF DbHead < fsVersion THEN "step" ELSE "unlock"
  <2>1. l \in Critical \cup {"unlock"} /\ DbHead + 1 \in Nat /\ fsVersion \in 0..fsVersion
    BY <1>0, HeadIsVersion DEF Critical
  <2>2. call' = [call EXCEPT ![p] = [call[p] EXCEPT !.pc = l, !.done = call[p].done,
                                         !.ver = DbHead + 1, !.to = fsVersion]]
    BY <1>0, <1>3 DEF MakePlan, CallRecord
  <2>3. call[p].done \in Nat
    BY <1>0 DEF CallRecord
  <2> HIDE DEF l
  <2> QED
    BY <1>1, <1>2, <2>1, <2>2, <2>3
<1>4. CASE ReadProgress(p)
  <2> DEFINE n == progress[call[p].ver].completed
             l == IF n < Len(Actions(p)) THEN "ddl" ELSE "record"
  <2>1. l \in Critical \cup {"unlock"} /\ n \in Nat
    BY <1>4 DEF ReadProgress, VersionInv, Working, Critical
  <2>2. call' = [call EXCEPT ![p] = [call[p] EXCEPT !.pc = l, !.done = n,
                                         !.ver = call[p].ver, !.to = call[p].to]]
    BY <1>0, <1>4 DEF ReadProgress, CallRecord
  <2>3. call[p].ver \in Nat /\ call[p].to \in 0..fsVersion
    BY <1>0 DEF CallRecord
  <2> HIDE DEF l, n
  <2> QED
    BY <1>1, <1>2, <2>1, <2>2, <2>3
<1>5. CASE WriteProgress(p) \/ TxStatement(p)
  <2> DEFINE l == IF call[p].pc = "tx" THEN "tx" ELSE "touch"
             n == call[p].done + 1
  <2>1. l \in Critical \cup {"unlock"} /\ n \in Nat
    BY <1>0 DEF Critical, CallRecord
  <2>2. call' = [call EXCEPT ![p] = [call[p] EXCEPT !.pc = l, !.done = n,
                                         !.ver = call[p].ver, !.to = call[p].to]]
    BY <1>0, <1>5 DEF WriteProgress, TxStatement, CallRecord
  <2>3. call[p].ver \in Nat /\ call[p].to \in 0..fsVersion
    BY <1>0 DEF CallRecord
  <2> HIDE DEF l, n
  <2> QED
    BY <1>1, <1>2, <2>1, <2>2, <2>3
<1>7. CASE Begin(p)
  <2>1. call' = [call EXCEPT ![p] = [call[p] EXCEPT !.pc = "tx", !.done = 0,
                                         !.ver = call[p].ver, !.to = call[p].to]]
    BY <1>0, <1>7 DEF Begin, CallRecord
  <2>2. call[p].ver \in Nat /\ call[p].to \in 0..fsVersion /\ "tx" \in Critical
    BY <1>0 DEF CallRecord, Critical
  <2> QED
    BY <1>1, <1>2, <2>1, <2>2
<1>6. CASE NextVersion(p)
  <2> DEFINE v == call[p].ver
             more == IF Applies(p) THEN v < call[p].to ELSE v - 1 > call[p].to
             w == CASE ~more -> v [] more /\ Applies(p) -> v + 1 [] OTHER -> v - 1
             l == IF more THEN "step" ELSE "unlock"
  <2>1. v \in Nat /\ call[p].to \in Nat /\ call[p].to \in 0..fsVersion
    BY <1>0 DEF CallRecord
  <2>2. w \in Nat /\ l \in Critical \cup {"unlock"}
    BY <2>1 DEF Critical
  <2>3. call' = [call EXCEPT ![p] = [call[p] EXCEPT !.pc = l, !.done = 0, !.ver = w,
                                         !.to = call[p].to]]
    BY <1>0, <1>6 DEF NextVersion, CallRecord
  <2> HIDE DEF w, l
  <2> QED
    BY <1>1, <1>2, <2>1, <2>2, <2>3
<1> QED
  BY <1>3, <1>4, <1>5, <1>6, <1>7

\* A statement makes the stamp older, until it is too old.
LEMMA OlderAge ==
    ASSUME NEW s \in Nat, NEW a, NEW b, NEW h \in Host,
           b = [a EXCEPT ![h] = IF a[h] > s THEN @ ELSE @ + 1]
    PROVE  /\ a \in [Host -> Nat] => b \in [Host -> Nat]
           /\ a \in [Host -> 0..s + 1] => b \in [Host -> 0..s + 1]
<1> DEFINE n == IF a[h] > s THEN a[h] ELSE a[h] + 1
<1>1. b = [a EXCEPT ![h] = n]
  OBVIOUS
<1>2. a[h] \in Nat => n \in Nat
  OBVIOUS
<1>3. a[h] \in 0..s + 1 => n \in 0..s + 1
  OBVIOUS
<1> HIDE DEF n
<1>4. CASE a \in [Host -> Nat]
  BY <1>1, <1>2, <1>4
<1>5. CASE a \in [Host -> 0..s + 1]
  BY <1>1, <1>3, <1>5
<1> QED
  BY <1>4, <1>5

LEMMA StepTypes ==
    ASSUME MigTypes, VersionInv, NEW p \in Process, Step(p) \/ Crash(p)
    PROVE  /\ MigTypes' /\ UNCHANGED <<dialect, home>>
           /\ \A q \in Process \ {p} : call'[q] = call[q]
<1>1. UNCHANGED <<dialect, home>>
  BY DEF Step, Crash, fixed, Probe, Create, ReadBack, Judge, Reclaim, WithAdvisoryLock,
         AdvisoryTimeout, MakePlan, RollbackPlan, Refuse, Begin, TxStatement, Transaction,
         ReadProgress, PlanChanged, Ddl, WriteProgress, TouchLock, Record, ClearProgress, Fail,
         NextVersion, Unlock, Release
<1>2. call' \in [Process -> CallRecord] /\ \A q \in Process \ {p} : call'[q] = call[q]
  <2>1. ASSUME NEW l \in Labels, Goto(p, l)
        PROVE  call' \in [Process -> CallRecord] /\ \A q \in Process \ {p} : call'[q] = call[q]
    BY <2>1, GotoStep
  <2>2. CASE \/ Probe(p) \/ Create(p) \/ Reclaim(p) \/ WithAdvisoryLock(p) \/ AdvisoryTimeout(p)
             \/ RollbackPlan(p) \/ Refuse(p) \/ Transaction(p) \/ PlanChanged(p)
             \/ Ddl(p) \/ TouchLock(p) \/ Record(p) \/ ClearProgress(p) \/ Fail(p) \/ Unlock(p)
    <3>1. \E l \in Labels : Goto(p, l)
      BY <2>2
         DEF Labels, Critical, Probe, Create, Reclaim, WithAdvisoryLock, AdvisoryTimeout,
             RollbackPlan, Refuse, Transaction, PlanChanged, Ddl, TouchLock, Record,
             ClearProgress, Fail, Unlock
    <3> QED
      BY <2>1, <3>1
  <2>3. CASE ReadBack(p) \/ Judge(p) \/ Release(p) \/ Crash(p)
    <3>1. call' = [call EXCEPT ![p] = AtRest] \/ \E l \in Labels : Goto(p, l)
      BY <2>3 DEF ReadBack, Judge, Release, Crash, Again, Labels
    <3> QED
      BY <2>1, <3>1, AtRestStep
  <2> QED
    BY <2>2, <2>3, CallTypes DEF Step
<1>3. file' \in [Host -> Process \cup {NoProcess, Orphan}]
  <2>1. CASE Create(p) \/ Reclaim(p) \/ Release(p) \/ Crash(p)
    <3>1. \E f \in Process \cup {NoProcess, Orphan} :
              file' = [file EXCEPT ![home[p]] = f] \/ file' = file
      BY <2>1 DEF Create, Reclaim, Release, Crash
    <3> QED
      BY <3>1 DEF MigTypes
  <2>2. CASE ~(Create(p) \/ Reclaim(p) \/ Release(p) \/ Crash(p))
    <3>1. UNCHANGED file
      BY <2>2
         DEF Step, Crash, fileVars, Probe, ReadBack, Judge, WithAdvisoryLock,
             AdvisoryTimeout, MakePlan, RollbackPlan, Refuse, Begin, TxStatement, Transaction,
             ReadProgress, PlanChanged, Ddl, WriteProgress, TouchLock, Record, ClearProgress,
             Fail, NextVersion, Unlock
    <3> QED
      BY <3>1 DEF MigTypes
  <2> QED
    BY <2>1, <2>2
<1>4. age' \in [Host -> Nat]
  <2>1. CASE TxStatement(p) \/ Ddl(p)
    <3> DEFINE s == dialect.staleMs
               g == home[p]
    <3>1. /\ age' = [age EXCEPT ![g] = IF age[g] > s THEN @ ELSE @ + 1]
          /\ g \in Host /\ s \in Nat /\ age \in [Host -> Nat]
      BY <2>1 DEF TxStatement, Ddl, MigTypes, Older, Stale
    <3> HIDE DEF s, g
    <3> QED
      BY <3>1, OlderAge
  <2>2. CASE Create(p) \/ TouchLock(p) \/ NextVersion(p)
    <3>1. age' = [age EXCEPT ![home[p]] = 0] \/ age' = age
      BY <2>2 DEF Create, TouchLock, NextVersion, Stamped
    <3> QED
      BY <3>1 DEF MigTypes
  <2>3. CASE ~(TxStatement(p) \/ Ddl(p) \/ Create(p) \/ TouchLock(p) \/ NextVersion(p))
    <3>1. UNCHANGED age
      BY <2>3
         DEF Step, Crash, fileVars, Probe, ReadBack, Judge, Reclaim, WithAdvisoryLock,
             AdvisoryTimeout, MakePlan, RollbackPlan, Refuse, Begin, Transaction, ReadProgress,
             PlanChanged, WriteProgress, Record, ClearProgress, Fail, Unlock, Release
    <3> QED
      BY <3>1 DEF MigTypes
  <2> QED
    BY <2>1, <2>2, <2>3
<1> QED
  BY <1>1, <1>2, <1>3, <1>4 DEF MigTypes

-----------------------------------------------------------------------------
(* The lock file, where it is the only lock.                               *)

\* a step of p that keeps to the types
Moves(p) ==
    /\ MigTypes /\ MigTypes' /\ UNCHANGED <<dialect, home>>
    /\ \A q \in Process \ {p} : call'[q] = call[q]

\* the process that steps keeps the lock or gives nothing away
Lawful(p) ==
    /\ call'[p].pc \in Holding => call[p].pc \in Holding
    /\ call'[p].pc \in Fresh => call[p].pc \in Fresh
    /\ call'[p].pc \notin {"settle", "tx"}

\* A step that does not touch the lock file.
LEMMA QuietStep ==
    ASSUME FileInv, NEW p \in Process, Moves(p), Lawful(p), UNCHANGED fileVars,
           call'[p].pc \in {"create", "reclaim"} =>
              \A q \in Process \ {p} : home[q] = home[p] => call[q].pc \notin Holding
    PROVE  FileInv'
<1>1. UNCHANGED <<dialect, home, file, age>>
  BY DEF Moves, fileVars
<1>2. \A q \in Process :
          /\ call'[q].pc \in Holding => call[q].pc \in Holding
          /\ call'[q].pc \in Fresh => call[q].pc \in Fresh
          /\ call'[q].pc \in {"settle", "tx"} => call'[q] = call[q]
  BY DEF Lawful, Moves
<1>3. ASSUME NEW x \in Process PROVE Holds(x)'
  BY <1>1, <1>2 DEF FileInv, Holds
<1>4. ASSUME NEW x \in Process, NEW y \in Process,
             x # y, home[x] = home[y], call'[x].pc \in Holding
      PROVE  call'[y].pc \notin {"create", "reclaim"}
  <2>1. call[x].pc \in Holding
    BY <1>2, <1>4
  <2>2. CASE y = p
    BY <1>4, <2>1, <2>2
  <2>3. CASE y # p
    BY <1>4, <2>1, <2>3 DEF FileInv, Moves
  <2> QED
    BY <2>2, <2>3
<1> QED
  BY <1>1, <1>3, <1>4 DEF FileInv

LEMMA LookStep ==
    ASSUME FileInv, NEW p \in Process, Moves(p), Probe(p) \/ Judge(p)
    PROVE  FileInv'
<1>1. MigTypes /\ UNCHANGED fileVars
  BY DEF Probe, Judge, Moves
<1>2. /\ call'[p].pc \in {"create", "judge", "reclaim", "probe", "idle"}
      /\ call'[p].pc = "create" => file[home[p]] = NoProcess
      /\ call'[p].pc = "reclaim" => Stale(home[p])
  BY <1>1 DEF Probe, Judge, Goto, Again, AtRest, MigTypes, CallRecord
<1>3. Lawful(p)
  BY <1>2 DEF Lawful, Holding, Fresh, Critical
<1>4. ASSUME call'[p].pc \in {"create", "reclaim"}, NEW q \in Process, home[q] = home[p]
      PROVE  call[q].pc \notin Holding
  <2>1. file[home[q]] # q \/ age[home[q]] > dialect.staleMs
    BY <1>2, <1>4, MigrationsAssumption DEF Stale
  <2>2. age[home[q]] \in Nat /\ dialect.staleMs \in Nat
    BY <1>1 DEF MigTypes
  <2> QED
    BY <2>1, <2>2 DEF FileInv, Holds
<1> QED
  BY <1>1, <1>3, <1>4, QuietStep

\* The steps inside the locks that leave them as they are.
LEMMA InsideStep ==
    ASSUME FileInv, NEW p \in Process, Moves(p),
           \/ AdvisoryTimeout(p) \/ WithAdvisoryLock(p) \/ Unlock(p) \/ MakePlan(p)
           \/ RollbackPlan(p) \/ Refuse(p) \/ Transaction(p) \/ ReadProgress(p)
           \/ PlanChanged(p) \/ WriteProgress(p) \/ Record(p) \/ ClearProgress(p) \/ Fail(p)
    PROVE  FileInv'
<1>1. MigTypes /\ UNCHANGED fileVars
  BY DEF AdvisoryTimeout, WithAdvisoryLock, Unlock, MakePlan, RollbackPlan, Refuse, Transaction,
         ReadProgress, PlanChanged, WriteProgress, Record, ClearProgress, Fail, Moves
<1>2. /\ call[p].pc \in Holding /\ call'[p].pc \notin {"create", "reclaim", "settle", "tx"}
      /\ call'[p].pc \in Fresh => call[p].pc \in Fresh
  <2>1. CASE AdvisoryTimeout(p) \/ WithAdvisoryLock(p) \/ Unlock(p) \/ MakePlan(p)
    BY <1>1, <2>1
       DEF AdvisoryTimeout, WithAdvisoryLock, Unlock, MakePlan, Goto, MigTypes, CallRecord,
           Holding, Fresh, Critical
  <2>2. CASE RollbackPlan(p) \/ Refuse(p) \/ Transaction(p) \/ ReadProgress(p) \/ PlanChanged(p)
    BY <1>1, <2>2
       DEF RollbackPlan, Refuse, Transaction, ReadProgress, PlanChanged, Goto, MigTypes,
           CallRecord, Holding, Fresh, Critical
  <2>3. CASE WriteProgress(p) \/ Record(p) \/ ClearProgress(p) \/ Fail(p)
    BY <1>1, <2>3
       DEF WriteProgress, Record, ClearProgress, Fail, Goto, MigTypes,
           CallRecord, Holding, Fresh, Critical
  <2> QED
    BY <2>1, <2>2, <2>3
<1>3. Lawful(p)
  BY <1>2 DEF Lawful
<1> QED
  BY <1>1, <1>2, <1>3, QuietStep

\* A step of p that changes the file of its host is nobody else's business:
\* the others do not hold it, or it stays theirs.
LEMMA OwnStep ==
    ASSUME FileInv, NEW p \in Process, Moves(p),
           \A h \in Host \ {home[p]} : file'[h] = file[h] /\ age'[h] = age[h],
           \/ file'[home[p]] = file[home[p]] /\ age'[home[p]] = age[home[p]]
           \/ \A q \in Process \ {p} : home[q] = home[p] =>
                  call[q].pc \notin Holding /\ file'[home[p]] # q,
           Holds(p)',
           call'[p].pc \notin {"create", "reclaim"},
           call'[p].pc \in Holding =>
              \A q \in Process \ {p} :
                  home[q] = home[p] => call[q].pc \notin {"create", "reclaim"}
    PROVE  FileInv'
<1>0. /\ \A x \in Process : home[x] \in Host
      /\ UNCHANGED <<dialect, home>> /\ \A q \in Process \ {p} : call'[q] = call[q]
  BY DEF Moves, MigTypes
<1>1. ASSUME NEW x \in Process PROVE Holds(x)'
  <2>1. CASE x = p
    BY <2>1
  <2>2. CASE x # p
    <3>1. call'[x] = call[x] /\ Holds(x)
      BY <1>0, <2>2 DEF FileInv
    <3>2. CASE file'[home[x]] = file[home[x]] /\ age'[home[x]] = age[home[x]]
      BY <1>0, <3>1, <3>2 DEF Holds
    <3>3. CASE home[x] = home[p] /\ call[x].pc \notin Holding /\ file'[home[p]] # x
      <4>1. call[x].pc \notin Fresh /\ call[x].pc # "tx"
        BY <3>3 DEF Fresh, Holding, Critical
      <4> QED
        BY <1>0, <3>1, <3>3, <4>1 DEF Holds
    <3> QED
      BY <1>0, <2>2, <3>2, <3>3
  <2> QED
    BY <2>1, <2>2
<1>2. ASSUME NEW x \in Process, NEW y \in Process,
             x # y, home[x] = home[y], call'[x].pc \in Holding
      PROVE  call'[y].pc \notin {"create", "reclaim"}
  BY <1>0, <1>2 DEF FileInv
<1> QED
  BY <1>0, <1>1, <1>2 DEF FileInv

\* the file of the own host, written with a stamp of a given age
LEMMA FileStep ==
    ASSUME MigTypes, NEW p \in Process, NEW f \in Process \cup {NoProcess, Orphan}, NEW n \in Nat,
           file' = [file EXCEPT ![home[p]] = f], age' = [age EXCEPT ![home[p]] = n]
    PROVE  /\ file' \in [Host -> Process \cup {NoProcess, Orphan}] /\ age' \in [Host -> Nat]
           /\ home[p] \in Host /\ file'[home[p]] = f /\ age'[home[p]] = n
           /\ \A h \in Host \ {home[p]} : file'[h] = file[h] /\ age'[h] = age[h]
BY DEF MigTypes

LEMMA SameFile ==
    ASSUME MigTypes, NEW p \in Process
    PROVE  /\ UNCHANGED file => file' = [file EXCEPT ![home[p]] = file[home[p]]]
           /\ UNCHANGED age => age' = [age EXCEPT ![home[p]] = age[home[p]]]
           /\ file[home[p]] \in Process \cup {NoProcess, Orphan} /\ age[home[p]] \in Nat
           /\ home[p] \in Host
BY DEF MigTypes

LEMMA CreateStep ==
    ASSUME FileInv, NEW p \in Process, Moves(p), Create(p)
    PROVE  FileInv'
<1>1. MigTypes /\ call[p].pc = "create" /\ call'[p].pc = "settle" /\ home' = home
  BY DEF Create, Moves, Goto, MigTypes, CallRecord
<1>2. /\ file'[home[p]] = p /\ age'[home[p]] = 0
      /\ \A h \in Host \ {home[p]} : file'[h] = file[h] /\ age'[h] = age[h]
  BY <1>1, FileStep DEF Create
<1>3. \A q \in Process \ {p} : home[q] = home[p] => call[q].pc \notin Holding
  BY <1>1 DEF FileInv
<1>4. Holds(p)' /\ call'[p].pc \notin Holding
  BY <1>1, <1>2 DEF Holds, Holding, Critical, Fresh
<1> QED
  BY <1>1, <1>2, <1>3, <1>4, OwnStep

LEMMA ReclaimStep ==
    ASSUME FileInv, NEW p \in Process, Moves(p), Reclaim(p)
    PROVE  FileInv'
<1>1. MigTypes /\ call[p].pc = "reclaim" /\ call'[p].pc = "probe" /\ UNCHANGED age
  BY DEF Reclaim, Moves, Goto, MigTypes, CallRecord
<1>2. /\ file'[home[p]] = NoProcess
      /\ \A h \in Host \ {home[p]} : file'[h] = file[h] /\ age'[h] = age[h]
  BY ZenonT(40), <1>1, FileStep, SameFile DEF Reclaim
<1>3. \A q \in Process \ {p} : home[q] = home[p] => call[q].pc \notin Holding /\ q # NoProcess
  BY <1>1, MigrationsAssumption DEF FileInv
<1>4. Holds(p)' /\ call'[p].pc \notin Holding
  BY <1>1 DEF Holds, Holding, Critical, Fresh
<1> QED
  BY <1>1, <1>2, <1>3, <1>4, OwnStep

LEMMA ReadBackStep ==
    ASSUME SettleSuffices, FileInv, NEW p \in Process, Moves(p), ReadBack(p)
    PROVE  FileInv'
<1>1. MigTypes /\ call[p].pc = "settle" /\ UNCHANGED <<dialect, home, file, age, fileVars>>
  BY DEF ReadBack, Moves, fileVars
<1>2. CASE call'[p].pc \in {"idle", "probe"}
  <2>1. Lawful(p)
    BY <1>2 DEF Lawful, Holding, Fresh, Critical
  <2> QED
    BY <1>1, <1>2, <2>1, QuietStep
<1>3. CASE call'[p].pc = "advisory" /\ file[home[p]] = p
  <2>1. age[home[p]] = 0 /\ dialect.staleMs \in Nat
    BY <1>1, <1>3 DEF FileInv, Holds, MigTypes
  <2>2. Holds(p)'
    BY <1>1, <1>3, <2>1 DEF Holds
  <2>3. \A q \in Process \ {p} : home[q] = home[p] => call[q].pc \notin {"create", "reclaim"}
    BY DEF ReadBack, Settled
  <2> QED
    BY <1>1, <1>3, <2>2, <2>3, OwnStep
<1> QED
  BY <1>1, <1>2, <1>3 DEF ReadBack, Again, Goto, AtRest, MigTypes, CallRecord

\* A step of the process that holds the lock.
LEMMA HolderStep ==
    ASSUME FileInv, NEW p \in Process, Moves(p), call[p].pc \in Holding,
           call'[p].pc \notin {"create", "reclaim"},
           \A h \in Host \ {home[p]} : file'[h] = file[h] /\ age'[h] = age[h],
           file'[home[p]] \in {p, NoProcess}, Holds(p)'
    PROVE  FileInv'
<1>1. \A q \in Process \ {p} : home[q] = home[p] =>
          /\ call[q].pc \notin Holding /\ file'[home[p]] # q
          /\ call[q].pc \notin {"create", "reclaim"}
  <2> SUFFICES ASSUME NEW q \in Process \ {p}, home[q] = home[p]
               PROVE  /\ call[q].pc \notin Holding /\ file'[home[p]] # q
                      /\ call[q].pc \notin {"create", "reclaim"}
    OBVIOUS
  <2>1. call[q].pc \notin Holding
    BY DEF FileInv, Holds
  <2>2. file'[home[p]] # q
    BY MigrationsAssumption
  <2>3. call[q].pc \notin {"create", "reclaim"}
    BY DEF FileInv
  <2> QED
    BY <2>1, <2>2, <2>3
<1> QED
  BY <1>1, OwnStep

\* A statement has run: the stamp is older by one, and not yet too old.
LEMMA StatementStep ==
    ASSUME FileSuffices, VersionInv, FileInv, NEW p \in Process, Moves(p),
           TxStatement(p) \/ Ddl(p)
    PROVE  FileInv'
<1> DEFINE h == home[p]
           n == age[h]
<1>1. /\ MigTypes /\ UNCHANGED <<dialect, home, file>> /\ Older(h) /\ h \in Host
      /\ call[p].pc \in Holding /\ file[h] = p /\ n \in Nat
      /\ dialect.staleMs \in Nat \ {0} /\ call[p].done \in Nat
  BY DEF TxStatement, Ddl, Moves, FileInv, Holds, Holding, Critical, MigTypes, CallRecord
<1>2. /\ call'[p].pc \in {"tx", "checkpoint"}
      /\ call'[p].pc = "tx" => call'[p].done = call[p].done + 1 /\ n <= call[p].done
      /\ call'[p].pc = "tx" => dialect.ddl
      /\ n < dialect.staleMs
  <2>1. CASE TxStatement(p)
    <3>1. call[p].ver \in Versions /\ dialect.ddl
      BY <2>1 DEF TxStatement, VersionInv, Working, Critical, FileInv, Holds
    <3>2. Len(Actions(p)) <= dialect.staleMs /\ Len(Actions(p)) \in Nat
      BY <3>1, ActionsOf, PlanSeq DEF FileSuffices, Size
    <3>3. n <= call[p].done /\ call[p].done < Len(Actions(p))
      BY <2>1 DEF TxStatement, FileInv, Holds
    <3>4. call'[p].pc = "tx" /\ call'[p].done = call[p].done + 1
      BY <1>1, <2>1 DEF TxStatement, MigTypes, CallRecord
    <3>5. n < dialect.staleMs
      <4> DEFINE s == dialect.staleMs
                 d == call[p].done
                 l == Len(Actions(p))
      <4>1. n \in Nat /\ s \in Nat /\ d \in Nat /\ l \in Nat /\ n <= d /\ d < l /\ l <= s
        BY <1>1, <3>2, <3>3
      <4> HIDE DEF n, s, d, l
      <4>2. n < s
        BY <4>1
      <4> QED
        BY <4>2 DEF s
    <3> QED
      BY <3>1, <3>3, <3>4, <3>5
  <2>2. CASE Ddl(p)
    <3>1. n = 0
      BY <2>2 DEF Ddl, FileInv, Holds, Fresh
    <3>2. call'[p].pc = "checkpoint"
      BY <1>1, <2>2 DEF Ddl, Goto, MigTypes, CallRecord
    <3> QED
      BY <1>1, <3>1, <3>2
  <2> QED
    BY <2>1, <2>2
<1>3. age' = [age EXCEPT ![h] = n + 1]
  <2>1. ~Stale(h)
    BY <1>1, <1>2 DEF Stale
  <2> QED
    BY <1>1, <2>1 DEF Older, MigTypes
<1>4. /\ file'[h] = p /\ age'[h] = n + 1
      /\ \A g \in Host \ {h} : file'[g] = file[g] /\ age'[g] = age[g]
  BY <1>1, <1>3 DEF MigTypes
<1>5. Holds(p)'
  BY <1>1, <1>2, <1>4 DEF Holds, Fresh
<1> QED
  BY <1>1, <1>2, <1>4, <1>5, HolderStep

LEMMA BeginTxStep ==
    ASSUME FileInv, NEW p \in Process, Moves(p), Begin(p)
    PROVE  FileInv'
<1>1. /\ MigTypes /\ UNCHANGED <<dialect, home, file, age>> /\ call[p].pc = "step"
      /\ call'[p].pc = "tx" /\ call'[p].done = 0 /\ dialect.ddl
  BY DEF Begin, Moves, fileVars, MigTypes, CallRecord
<1>2. call[p].pc \in Holding /\ file[home[p]] = p /\ age[home[p]] = 0
  BY <1>1 DEF FileInv, Holds, Holding, Critical, Fresh
<1>3. Holds(p)'
  BY <1>1, <1>2 DEF Holds, Fresh, FileInv
<1> QED
  BY <1>1, <1>2, <1>3, HolderStep

LEMMA RestampStep ==
    ASSUME FileInv, NEW p \in Process, Moves(p), TouchLock(p) \/ NextVersion(p)
    PROVE  FileInv'
<1>1. /\ MigTypes /\ UNCHANGED <<dialect, home, file>> /\ Stamped(p)
      /\ call[p].pc \in {"touch", "restamp"}
      /\ call'[p].pc \in {"ddl", "record", "step", "unlock"}
  BY DEF TouchLock, NextVersion, Goto, Moves, MigTypes, CallRecord
<1>2. call[p].pc \in Holding /\ file[home[p]] = p
  BY <1>1 DEF FileInv, Holds, Holding, Critical
<1>3. /\ file'[home[p]] = p /\ age'[home[p]] = 0 /\ dialect.staleMs \in Nat
      /\ \A h \in Host \ {home[p]} : file'[h] = file[h] /\ age'[h] = age[h]
  BY <1>1, <1>2 DEF Stamped, MigTypes
<1>4. Holds(p)'
  BY <1>1, <1>3 DEF Holds
<1> QED
  BY <1>1, <1>2, <1>3, <1>4, HolderStep

LEMMA ReleaseStep ==
    ASSUME FileInv, NEW p \in Process, Moves(p), Release(p)
    PROVE  FileInv'
<1>1. MigTypes /\ UNCHANGED age /\ call[p].pc = "release" /\ call'[p].pc = "idle"
  BY AtRestStep DEF Release, Moves
<1>2. call[p].pc \in Holding /\ file[home[p]] = p
  BY <1>1 DEF Holding, FileInv, Holds
<1>3. /\ file'[home[p]] = NoProcess
      /\ \A h \in Host \ {home[p]} : file'[h] = file[h] /\ age'[h] = age[h]
  BY <1>1, <1>2, FileStep, SameFile DEF Release
<1>4. Holds(p)'
  BY <1>1 DEF Holds, Holding, Critical, Fresh
<1> QED
  BY <1>1, <1>2, <1>3, <1>4, HolderStep

LEMMA CrashStep ==
    ASSUME FileInv, NEW p \in Process, Moves(p), Crash(p)
    PROVE  FileInv'
<1>1. MigTypes /\ UNCHANGED age /\ call'[p].pc = "idle"
  BY AtRestStep DEF Crash, Moves
<1>2. Holds(p)' /\ call'[p].pc \notin Holding
  BY <1>1 DEF Holds, Holding, Critical, Fresh
<1>3. CASE file[home[p]] = p
  <2>1. /\ file'[home[p]] = Orphan
        /\ \A h \in Host \ {home[p]} : file'[h] = file[h] /\ age'[h] = age[h]
    BY <1>1, <1>3, FileStep, SameFile DEF Crash
  <2>2. \A q \in Process \ {p} : home[q] = home[p] => call[q].pc \notin Holding /\ q # Orphan
    BY <1>3, MigrationsAssumption DEF FileInv, Holds
  <2> QED
    BY <1>1, <1>2, <2>1, <2>2, OwnStep
<1>4. CASE file[home[p]] # p
  BY <1>1, <1>2, <1>4, OwnStep DEF Crash
<1> QED
  BY <1>3, <1>4

LEMMA ExpireStep ==
    ASSUME MigTypes, FileInv, NEW h \in Host, Expire(h)
    PROVE  FileInv'
<1>1. /\ UNCHANGED <<dialect, home, file, call>>
      /\ file[h] = Orphan /\ \A g \in Host \ {h} : age'[g] = age[g]
  BY DEF Expire, fixed, MigTypes
<1>2. ASSUME NEW x \in Process PROVE Holds(x)'
  <2>1. Holds(x) /\ home[x] \in Host
    BY DEF FileInv, MigTypes
  <2>2. CASE home[x] = h
    <3>1. call[x].pc \notin Holding /\ file[home[x]] # x
      BY <1>1, <2>1, <2>2, MigrationsAssumption DEF Holds
    <3>2. call[x].pc \notin Fresh /\ call[x].pc # "tx"
      BY <3>1 DEF Fresh, Holding, Critical
    <3> QED
      BY <1>1, <2>1, <3>1, <3>2 DEF Holds
  <2>3. CASE home[x] # h
    BY <1>1, <2>1, <2>3 DEF Holds
  <2> QED
    BY <2>2, <2>3
<1> QED
  BY <1>1, <1>2 DEF FileInv

LEMMA FileStepAll ==
    ASSUME FileSuffices, VersionInv, FileInv, NEW p \in Process, Moves(p), Step(p) \/ Crash(p)
    PROVE  FileInv'
BY LookStep, InsideStep, CreateStep, ReclaimStep, ReadBackStep, StatementStep, BeginTxStep,
   RestampStep, ReleaseStep, CrashStep DEF Step, FileSuffices

-----------------------------------------------------------------------------
(* The versions a call works on, and what it does to the history.          *)

\* the labels before and after the row of the version is written or deleted
After == {"clear", "restamp"}
Before == Working \ After
Leaving == {"unlock", "release"}

\* All that a step of p may do to its call and to the history: end it, go on
\* in the same version, plan, record the version, or enter the next one.
Ends(p) == call'[p].op = "none" /\ call'[p].pc = "idle" /\ UNCHANGED history

Keeps(p) ==
    /\ call'[p].op = call[p].op /\ call'[p].ver = call[p].ver /\ call'[p].to = call[p].to
    /\ UNCHANGED history
    /\ call'[p].pc \in Before =>
          call[p].pc \in Before \/ (call[p].pc = "plan" /\ call[p].op # "apply")
    /\ call'[p].pc \in After => call[p].pc \in After
    /\ call[p].pc \in After => call'[p].pc \in After \cup Leaving
    /\ call[p].pc \in Leaving => call'[p].pc \in Leaving
    /\ call'[p].pc # "idle"

Plans(p) ==
    /\ call[p].pc = "plan" /\ call[p].op = "apply" /\ call'[p].op = "apply"
    /\ call'[p].ver = DbHead + 1 /\ call'[p].to = fsVersion
    /\ call'[p].pc = IF DbHead < fsVersion THEN "step" ELSE "unlock"
    /\ UNCHANGED history

Records(p) ==
    /\ call[p].pc \in {"tx", "record"} /\ call'[p].pc \in After
    /\ call'[p].op = call[p].op /\ call'[p].ver = call[p].ver /\ call'[p].to = call[p].to
    /\ history' = IF call[p].op = "apply" THEN history \cup {call[p].ver}
                                          ELSE history \ {call[p].ver}

Continues(p) ==
    /\ call[p].pc = "restamp" /\ call'[p].pc = "step"
    /\ call'[p].op = call[p].op /\ call'[p].to = call[p].to
    /\ \/ call[p].op = "apply" /\ call[p].ver < call[p].to /\ call'[p].ver = call[p].ver + 1
       \/ call[p].op # "apply" /\ call[p].ver - 1 > call[p].to /\ call'[p].ver = call[p].ver - 1
    /\ UNCHANGED history

LEMMA CallStep ==
    ASSUME MigTypes, NEW p \in Process, Step(p) \/ Crash(p)
    PROVE  /\ call[p].pc # "idle"
           /\ \A q \in Process \ {p} : call'[q] = call[q]
           /\ Ends(p) \/ Keeps(p) \/ Plans(p) \/ Records(p) \/ Continues(p)
<1> DEFINE Goal == /\ call[p].pc # "idle"
                   /\ \A q \in Process \ {p} : call'[q] = call[q]
                   /\ Ends(p) \/ Keeps(p) \/ Plans(p) \/ Records(p) \/ Continues(p)
<1> USE DEF Before, After, Leaving, Working, Critical
<1>1. ASSUME NEW l \in Labels, Goto(p, l), UNCHANGED history, call[p].pc # "idle",
             l \in Before => call[p].pc \in Before \/ (call[p].pc = "plan" /\ call[p].op # "apply"),
             l \in After => call[p].pc \in After,
             call[p].pc \in After => l \in After \cup Leaving,
             call[p].pc \in Leaving => l \in Leaving,
             l # "idle"
      PROVE  Goal
  <2> HIDE DEF Before, After, Leaving, Working, Critical
  <2> QED
    BY <1>1, GotoStep DEF Keeps
<1>2. ASSUME call' = [call EXCEPT ![p] = AtRest], UNCHANGED history, call[p].pc # "idle"
      PROVE  Goal
  BY <1>2, AtRestStep DEF Ends
<1>3. CASE Probe(p) \/ Create(p) \/ ReadBack(p) \/ Judge(p) \/ Reclaim(p)
  BY <1>1, <1>2, <1>3 DEF Probe, Create, ReadBack, Judge, Reclaim, dbVars, Again, Labels
<1>4. CASE WithAdvisoryLock(p) \/ AdvisoryTimeout(p) \/ Unlock(p)
  BY <1>1, <1>4 DEF WithAdvisoryLock, AdvisoryTimeout, Unlock, dbVars, Labels
<1>5. CASE Release(p) \/ Crash(p)
  BY <1>2, <1>5 DEF Release, Crash, dbVars
<1>6. CASE RollbackPlan(p) \/ Refuse(p) \/ PlanChanged(p)
  BY <1>1, <1>6 DEF RollbackPlan, Refuse, PlanChanged, dbVars, Labels, Applies
<1>7. CASE Ddl(p) \/ TouchLock(p) \/ ClearProgress(p) \/ Fail(p)
  BY <1>1, <1>7 DEF Ddl, TouchLock, ClearProgress, Fail, dbVars, Labels
<1>8. CASE MakePlan(p)
  BY <1>8 DEF MakePlan, Plans, Applies, dbVars, MigTypes, CallRecord
<1>9. CASE ReadProgress(p) \/ WriteProgress(p) \/ Begin(p) \/ TxStatement(p)
  BY <1>9
     DEF ReadProgress, WriteProgress, Begin, TxStatement, Keeps, dbVars, MigTypes, CallRecord
<1>10. CASE Transaction(p) \/ Record(p)
  <2>1. Goto(p, "restamp") \/ Goto(p, "clear")
    BY <1>10 DEF Transaction, Record
  <2>2. /\ call'[p].pc \in After /\ call'[p].op = call[p].op
        /\ call'[p].ver = call[p].ver /\ call'[p].to = call[p].to
        /\ \A q \in Process \ {p} : call'[q] = call[q]
    BY <2>1, GotoStep DEF Labels
  <2> QED
    BY <1>10, <2>2 DEF Transaction, Record, Records, Applies
<1>11. CASE NextVersion(p)
  BY <1>11 DEF NextVersion, Continues, Keeps, Applies, dbVars, MigTypes, CallRecord
<1> QED
  BY <1>3, <1>4, <1>5, <1>6, <1>7, <1>8, <1>9, <1>10, <1>11 DEF Step

LEMMA ProgressStep ==
    ASSUME LockInv, VersionInv, NEW p \in Process, Step(p) \/ Crash(p)
    PROVE  progress' \in [Versions -> [hash : {"none", "apply", "rollback"}, completed : Nat]]
<1> DEFINE Row == [hash : {"none", "apply", "rollback"}, completed : Nat]
<1>0. progress \in [Versions -> Row] /\ NoRow \in Row
  BY DEF VersionInv, NoRow
<1>1. CASE UNCHANGED progress
  BY <1>0, <1>1
<1>2. CASE WriteProgress(p)
  <2> DEFINE v == call[p].ver
             n == call[p].done + 1
             r == IF call[p].done = 0 THEN [hash |-> actionsHash(p), completed |-> n]
                  ELSE IF progress[v] = NoRow THEN progress[v]
                  ELSE [progress[v] EXCEPT !.completed = n]
  <2>1. v \in Versions
    BY <1>2 DEF WriteProgress, VersionInv, Working, Critical
  <2>2. n \in Nat /\ actionsHash(p) \in {"none", "apply", "rollback"}
    BY DEF LockInv, MigTypes, CallRecord, actionsHash
  <2>3. progress[v] \in Row
    BY <1>0, <2>1
  <2> HIDE DEF n
  <2>4. r \in Row
    BY <2>2, <2>3
  <2>5. progress' = [progress EXCEPT ![v] = r]
    BY <1>0, <1>2, <2>1 DEF WriteProgress, n
  <2> HIDE DEF r, v
  <2> QED
    BY <1>0, <2>1, <2>4, <2>5
<1>3. CASE ClearProgress(p)
  BY <1>0, <1>3 DEF ClearProgress
<1> QED
  BY <1>1, <1>2, <1>3
     DEF Step, Crash, dbVars, Probe, Create, ReadBack, Judge, Reclaim, WithAdvisoryLock,
         AdvisoryTimeout, MakePlan, RollbackPlan, Refuse, Begin, TxStatement, Transaction,
         ReadProgress,
         PlanChanged, Ddl, TouchLock, Record, Fail, NextVersion, Unlock, Release

\* How a call begins.
LEMMA BeginCall ==
    ASSUME MigTypes, VersionInv, NEW p \in Process, NEW to \in 0..fsVersion,
           Apply(p) \/ Rollback(p, to)
    PROVE  /\ call[p].pc = "idle" /\ call' \in [Process -> CallRecord] /\ call'[p].pc = "probe"
           /\ \A q \in Process \ {p} : call'[q] = call[q]
           /\ \/ Apply(p) /\ call'[p].op = "apply"
              \/ /\ Rollback(p, to) /\ call'[p].op = "rollback"
                 /\ call'[p].ver = DbHead /\ call'[p].to = to /\ DbHead \in Versions
           /\ UNCHANGED <<dialect, home, file, age, advisory, history, progress>>
<1>1. DbHead \in Nat /\ (to < DbHead => DbHead \in Versions)
  BY HeadIsVersion, MigrationsAssumption DEF Versions
<1>2. /\ call' \in [Process -> CallRecord] /\ call'[p].pc = "probe"
      /\ \A q \in Process \ {p} : call'[q] = call[q]
  BY <1>1, BeginStep
<1>3. CASE Apply(p)
  BY <1>2, <1>3 DEF Apply, MigTypes, AtRest, fixed, fileVars, dbVars
<1>4. CASE Rollback(p, to)
  BY <1>1, <1>2, <1>4 DEF Rollback, MigTypes, fixed, fileVars, dbVars
<1> QED
  BY <1>3, <1>4

\* On a dialect with a lock on the server that one is enough.
LEMMA ServerStep ==
    ASSUME MigTypes, dialect.advisory, ServerInv, NEW p \in Process, Step(p) \/ Crash(p)
    PROVE  ServerInv'
<1>1. \A q \in Process \ {p} : call'[q] = call[q]
  BY CallStep
<1>2. ASSUME call'[p].pc \in Owned => call[p].pc \in Owned, UNCHANGED advisory
      PROVE  ServerInv'
  BY <1>1, <1>2 DEF ServerInv
<1>3. ASSUME advisory' = NoProcess, advisory = p, call'[p].pc \notin Owned
      PROVE  ServerInv'
  BY <1>1, <1>3 DEF ServerInv
<1>4. CASE Probe(p) \/ Create(p) \/ ReadBack(p) \/ Judge(p) \/ Reclaim(p)
  BY <1>2, <1>4
     DEF Probe, Create, ReadBack, Judge, Reclaim, Again, Goto, AtRest, MigTypes, CallRecord,
         Owned, Critical
<1>5. CASE WithAdvisoryLock(p)
  <2>1. advisory = NoProcess /\ advisory' = p
    BY <1>5 DEF WithAdvisoryLock
  <2>2. \A q \in Process \ {p} : call'[q].pc \notin Owned
    BY <1>1, <2>1, MigrationsAssumption DEF ServerInv
  <2> QED
    BY <2>1, <2>2 DEF ServerInv
<1>6. CASE AdvisoryTimeout(p) \/ Release(p)
  BY <1>2, <1>6
     DEF AdvisoryTimeout, Release, Goto, AtRest, MigTypes, CallRecord, Owned, Critical
<1>7. CASE MakePlan(p) \/ RollbackPlan(p) \/ Refuse(p) \/ Begin(p) \/ TxStatement(p)
           \/ Transaction(p) \/ ReadProgress(p) \/ PlanChanged(p) \/ Ddl(p)
           \/ WriteProgress(p) \/ TouchLock(p) \/ Record(p) \/ ClearProgress(p) \/ Fail(p)
           \/ NextVersion(p)
  <2>1. call[p].pc \in Owned /\ UNCHANGED advisory
    BY <1>7
       DEF MakePlan, RollbackPlan, Refuse, Begin, TxStatement, Transaction, ReadProgress,
           PlanChanged, Ddl, WriteProgress, TouchLock, Record, ClearProgress, Fail, NextVersion,
           Owned, Critical
  <2> QED
    BY <1>2, <2>1
<1>8. CASE Unlock(p)
  <2>1. advisory' = NoProcess /\ call[p].pc = "unlock" /\ call'[p].pc = "release"
    BY <1>8 DEF Unlock, Goto, MigTypes, CallRecord
  <2>2. advisory = p /\ call'[p].pc \notin Owned
    BY <2>1 DEF ServerInv, Owned, Critical
  <2> QED
    BY <1>3, <2>1, <2>2
<1>9. CASE Crash(p)
  <2>1. call'[p].pc \notin Owned
    BY <1>9, AtRestStep DEF Crash, Owned, Critical
  <2>2. advisory' = IF advisory = p THEN NoProcess ELSE advisory
    BY <1>9 DEF Crash
  <2> QED
    BY <1>1, <1>2, <1>3, <2>1, <2>2
<1> QED
  BY <1>4, <1>5, <1>6, <1>7, <1>8, <1>9 DEF Step

LEMMA LockStep ==
    ASSUME LockInv, VersionInv, [MigNext]_migVars
    PROVE  LockInv'
<1>0. MigTypes
  BY DEF LockInv
<1>1. ASSUME NEW p \in Process, Step(p) \/ Crash(p) PROVE LockInv'
  <2>1. Moves(p)
    BY <1>0, <1>1, StepTypes DEF Moves
  <2>2. dialect.advisory => ServerInv'
    BY <1>0, <1>1, ServerStep DEF LockInv
  <2>3. ~dialect.advisory => FileSuffices' /\ FileInv'
    <3>1. FileSuffices => FileSuffices'
      BY <2>1 DEF FileSuffices, Moves
    <3> QED
      BY <1>1, <2>1, <3>1, FileStepAll DEF LockInv
  <2> QED
    BY <2>1, <2>2, <2>3 DEF LockInv, Moves
<1>2. ASSUME NEW p \in Process, NEW to \in 0..fsVersion, Apply(p) \/ Rollback(p, to)
      PROVE  LockInv'
  <2>1. /\ call' \in [Process -> CallRecord] /\ call'[p].pc = "probe"
        /\ \A q \in Process \ {p} : call'[q] = call[q]
        /\ UNCHANGED <<dialect, home, file, age, advisory>>
    BY <1>0, <1>2, BeginCall
  <2>2. MigTypes' /\ Moves(p)
    BY <1>0, <2>1 DEF MigTypes, Moves
  <2>3. dialect.advisory => ServerInv'
    BY <2>1 DEF LockInv, ServerInv, Owned, Critical
  <2>4. Lawful(p) /\ UNCHANGED fileVars
    BY <2>1 DEF Lawful, Holding, Fresh, Critical, fileVars
  <2>5. ~dialect.advisory => FileSuffices' /\ FileInv'
    <3>1. FileSuffices => FileSuffices'
      BY <2>1 DEF FileSuffices
    <3> QED
      BY <2>1, <2>2, <2>4, <3>1, QuietStep DEF LockInv
  <2> QED
    BY <2>1, <2>2, <2>3, <2>5 DEF LockInv
<1>3. CASE UNCHANGED migVars
  <2>1. UNCHANGED <<dialect, home, file, age, advisory, call>>
    BY <1>3 DEF migVars, fixed, fileVars
  <2> QED
    BY <2>1 DEF LockInv, MigTypes, ServerInv, FileSuffices, FileInv, Holds
<1>4. ASSUME NEW h \in Host, Expire(h) PROVE LockInv'
  <2>1. /\ UNCHANGED <<dialect, home, file, advisory, call>>
        /\ age' = [age EXCEPT ![h] = dialect.staleMs + 1]
    BY <1>4 DEF Expire, fixed
  <2>2. MigTypes'
    BY <1>0, <2>1 DEF MigTypes
  <2> QED
    BY <1>0, <1>4, <2>1, <2>2, ExpireStep DEF LockInv, ServerInv, FileSuffices
<1>5. 0 \in 0..fsVersion
  BY MigrationsAssumption
<1> QED
  BY <1>1, <1>2, <1>3, <1>4, <1>5 DEF MigNext

LEMMA VersionStep ==
    ASSUME LockInv, VersionInv, [MigNext]_migVars
    PROVE  VersionInv'
<1>0. /\ MigTypes /\ fsVersion \in Nat /\ Versions = 1..fsVersion
      /\ \A x \in Process : call[x].ver \in Nat /\ call[x].to \in 0..fsVersion
  BY MigrationsAssumption DEF LockInv, MigTypes, CallRecord, Versions
<1>1. ASSUME NEW p \in Process, Step(p) \/ Crash(p) PROVE VersionInv'
  <2>1. /\ call[p].pc # "idle" /\ \A q \in Process \ {p} : call'[q] = call[q]
        /\ Ends(p) \/ Keeps(p) \/ Plans(p) \/ Records(p) \/ Continues(p)
    BY <1>0, <1>1, CallStep
  <2>2. history' \subseteq Versions
    <3>1. Records(p) => call[p].ver \in Versions
      BY DEF Records, VersionInv, Working, Critical
    <3> QED
      BY <2>1, <3>1 DEF Ends, Keeps, Plans, Records, Continues, VersionInv
  <2>3. (call'[p].op = "none") <=> (call'[p].pc = "idle")
    BY <2>1 DEF Ends, Keeps, Plans, Records, Continues, VersionInv, After
  <2>4. call'[p].pc \in Working \/ call'[p].op = "rollback" => call'[p].ver \in Versions
    <3>1. CASE Ends(p)
      BY <3>1 DEF Ends, Working, Critical
    <3>2. CASE Keeps(p)
      <4>1. call[p].op \in {"none", "apply", "rollback"} /\ call[p].op # "none"
        BY <1>0, <2>1 DEF MigTypes, CallRecord, VersionInv
      <4> QED
        BY <3>2, <4>1 DEF Keeps, VersionInv, Working, Before, After, Critical
    <3>3. CASE Plans(p)
      BY <1>0, <3>3, HeadIsVersion DEF Plans, Working, Critical
    <3>4. CASE Records(p)
      BY <3>4 DEF Records, VersionInv, Working, Critical
    <3>5. CASE Continues(p)
      <4>1. call[p].ver \in Versions
        BY <3>5 DEF Continues, VersionInv, Working, Critical
      <4>2. \A v \in 1..fsVersion, t \in 0..fsVersion :
               (v < t => v + 1 \in 1..fsVersion) /\ (v - 1 > t => v - 1 \in 1..fsVersion)
        BY <1>0, Neighbours
      <4>3. call[p].ver \in 1..fsVersion /\ call[p].to \in 0..fsVersion
        BY <1>0, <4>1
      <4>4. call'[p].ver \in 1..fsVersion
        BY <3>5, <4>2, <4>3, Zenon DEF Continues
      <4> QED
        BY <1>0, <4>4
    <3> QED
      BY <2>1, <3>1, <3>2, <3>3, <3>4, <3>5
  <2>5. progress' \in [Versions -> [hash : {"none", "apply", "rollback"}, completed : Nat]]
    BY <1>1, ProgressStep
  <2> QED
    BY <2>1, <2>2, <2>3, <2>4, <2>5 DEF VersionInv
<1>2. ASSUME NEW p \in Process, NEW to \in 0..fsVersion, Apply(p) \/ Rollback(p, to)
      PROVE  VersionInv'
  <2>1. /\ call[p].pc = "idle" /\ call'[p].pc = "probe"
        /\ \A q \in Process \ {p} : call'[q] = call[q]
        /\ call'[p].op = "apply" \/ (call'[p].op = "rollback" /\ call'[p].ver \in Versions)
        /\ UNCHANGED <<history, progress>>
    BY <1>0, <1>2, BeginCall
  <2>2. "probe" \notin Working
    BY DEF Working, Critical
  <2> QED
    BY <2>1, <2>2 DEF VersionInv
<1>3. CASE UNCHANGED <<history, progress, call>>
  BY <1>3 DEF VersionInv
<1>4. 0 \in 0..fsVersion
  BY MigrationsAssumption
<1> QED
  BY <1>1, <1>2, <1>3, <1>4 DEF MigNext, Expire, migVars, dbVars

LEMMA MigInitInv ==
    ASSUME LocksWork
    PROVE  MigInit => LockInv /\ VersionInv
<1> SUFFICES ASSUME MigInit PROVE LockInv /\ VersionInv
  OBVIOUS
<1>1. AtRest \in CallRecord /\ AtRest.pc = "idle" /\ AtRest.op = "none"
  BY MigrationsAssumption DEF AtRest, CallRecord, Labels
<1>2. \A p \in Process : call[p] = AtRest
  BY DEF MigInit
<1>3. MigTypes
  BY <1>1, MigrationsAssumption DEF MigInit, MigTypes
<1>4. VersionInv
  BY <1>1, <1>2 DEF MigInit, VersionInv, Working, Critical, NoRow
<1>5. ServerInv /\ FileInv
  BY <1>1, <1>2 DEF ServerInv, Owned, FileInv, Holds, Holding, Fresh, Critical
<1>6. ~dialect.advisory => FileSuffices
  BY DEF MigInit, FileSuffices, LocksWork
<1> QED
  BY <1>3, <1>4, <1>5, <1>6 DEF LockInv

LEMMA OneCritical ==
    ASSUME LockInv, NEW p \in Process, NEW q \in Process,
           call[p].pc \in Critical, call[q].pc \in Critical
    PROVE  p = q
<1>1. CASE dialect.advisory
  BY <1>1 DEF LockInv, ServerInv, Owned
<1>2. CASE ~dialect.advisory
  <2>1. home[p] = home[q] /\ call[p].pc \in Holding /\ call[q].pc \in Holding
    BY <1>2 DEF LockInv, FileSuffices, Holding
  <2> QED
    BY <1>2, <2>1 DEF LockInv, FileInv, Holds
<1> QED
  BY <1>1, <1>2

\* At most one process is between the locks and their release, through
\* failures and crashes: on every dialect with an advisory lock and, on one
\* without, where the lock file of the one host can do it (FileLock.acquire,
\* touch and release, Migrator.__withAdvisoryLock): SETTLE_MS suffice, and
\* lockStaleMs outlasts every statement and, where a version is a
\* transaction, every version.
THEOREM OneMigratorHolds ==
    ASSUME LocksWork
    PROVE  MigSpec => []OneMigrator
<1>1. LockInv => OneMigrator
  <2> SUFFICES ASSUME LockInv PROVE OneMigrator
    OBVIOUS
  <2> DEFINE C == {p \in Process : call[p].pc \in Critical}
  <2>1. CASE C = {}
    BY <2>1, FS_EmptySet DEF OneMigrator
  <2>2. ASSUME NEW p \in C PROVE Cardinality(C) <= 1
    <3>1. C = {p}
      BY OneCritical
    <3> QED
      BY <3>1, FS_Singleton
  <2> QED
    BY <2>1, <2>2 DEF OneMigrator
<1>2. LockInv /\ VersionInv /\ [MigNext]_migVars => (LockInv /\ VersionInv)'
  BY LockStep, VersionStep
<1> QED
  BY <1>1, <1>2, MigInitInv, PTL DEF MigSpec

-----------------------------------------------------------------------------
(* The history.                                                            *)

\* The history is a prefix of the versions, and a call knows which: before
\* it writes the row of its version and after.  A rollback, which took the
\* head before it took a lock, is alone.
HistoryInv ==
    /\ HistoryHasNoHole
    /\ \A p \in Process :
          /\ call[p].op = "apply" /\ call[p].pc \in Before => history = 1..(call[p].ver - 1)
          /\ call[p].op = "apply" /\ call[p].pc \in After => history = 1..call[p].ver
          /\ call[p].op = "rollback" =>
                /\ call[p].to < call[p].ver
                /\ call[p].pc \notin After \cup Leaving => history = 1..call[p].ver
                /\ call[p].pc \in After => history = 1..(call[p].ver - 1)
                /\ \A q \in Process \ {p} : call[q].pc = "idle"

LEMMA MaxOfPrefix == ASSUME NEW n \in Nat PROVE Max((1..n) \cup {0}) = n
<1> DEFINE S == (1..n) \cup {0}
<1>1. S \in SUBSET (0..n) /\ S # {} /\ n \in S
  OBVIOUS
<1>2. Max(S) \in S /\ \A y \in S : y <= Max(S)
  BY <1>1, MaxExists
<1>3. Max(S) \in 0..n /\ n <= Max(S)
  BY <1>1, <1>2, Zenon
<1> HIDE DEF S
<1>4. Max(S) = n
  BY <1>3
<1> QED
  BY <1>4 DEF S

LEMMA PrefixGrows ==
    ASSUME NEW n \in Nat \ {0}
    PROVE  (1..(n - 1)) \cup {n} = 1..n /\ (1..n) \ {n} = 1..(n - 1)
OBVIOUS

LEMMA HistoryStep ==
    ASSUME RollbackAlone, LockInv, VersionInv, HistoryInv, [MigNext]_migVars
    PROVE  HistoryInv'
<1>0. /\ MigTypes /\ fsVersion \in Nat /\ Versions = 1..fsVersion
      /\ \A x \in Process : call[x].ver \in Nat /\ call[x].to \in Nat
      /\ DbHead \in Nat /\ history = 1..DbHead
  BY MigrationsAssumption, HeadIsVersion
     DEF LockInv, MigTypes, CallRecord, Versions, HistoryInv, HistoryHasNoHole
<1>1. ASSUME NEW p \in Process, Step(p) \/ Crash(p) PROVE HistoryInv'
  <2>1. /\ call[p].pc # "idle" /\ \A q \in Process \ {p} : call'[q] = call[q]
        /\ Ends(p) \/ Keeps(p) \/ Plans(p) \/ Records(p) \/ Continues(p)
    BY <1>0, <1>1, CallStep
  <2>2. \A q \in Process \ {p} : call[q].op # "rollback"
    BY <2>1 DEF HistoryInv
  <2>3. /\ call[p].op = "apply" \/ call[p].op = "rollback"
        /\ call[p].op = "rollback" => \A q \in Process \ {p} : call[q].pc = "idle"
    BY <1>0, <2>1 DEF MigTypes, CallRecord, VersionInv, HistoryInv
  <2>4. call[p].pc \in Working => call[p].ver \in Nat \ {0}
    BY <1>0 DEF VersionInv
  \* it is enough that p keeps its own part and disturbs no other
  <2>5. ASSUME HistoryHasNoHole',
               \A q \in Process \ {p} : call[q].pc \in Working => UNCHANGED history,
               call'[p].op = "apply" /\ call'[p].pc \in Before => history' = 1..(call'[p].ver - 1),
               call'[p].op = "apply" /\ call'[p].pc \in After => history' = 1..call'[p].ver,
               call'[p].op = "rollback" =>
                  /\ call[p].op = "rollback" /\ call'[p].to < call'[p].ver
                  /\ call'[p].pc \notin After \cup Leaving => history' = 1..call'[p].ver
                  /\ call'[p].pc \in After => history' = 1..(call'[p].ver - 1)
        PROVE  HistoryInv'
    <3>1. ASSUME NEW q \in Process \ {p}
          PROVE  /\ call'[q].op = "apply" /\ call'[q].pc \in Before => history' = 1..(call'[q].ver - 1)
                 /\ call'[q].op = "apply" /\ call'[q].pc \in After => history' = 1..call'[q].ver
                 /\ call'[q].op # "rollback"
      <4>1. call[q].pc \in Before \cup After => UNCHANGED history
        BY <2>5, <3>1 DEF Before, After, Working, Critical
      <4> QED
        BY <2>1, <2>2, <4>1 DEF HistoryInv
    <3>2. call'[p].op = "rollback" => \A q \in Process \ {p} : call'[q].pc = "idle"
      BY <2>1, <2>3, <2>5
    <3> QED
      BY <2>5, <3>1, <3>2 DEF HistoryInv
  <2>6. HistoryHasNoHole' /\ (UNCHANGED history \/ Records(p))
    <3>1. CASE UNCHANGED history
      BY <3>1 DEF HistoryInv, HistoryHasNoHole, DbHead
    <3>2. CASE Records(p)
      <4>1. call[p].pc \in Before
        BY <3>2 DEF Records, Before, After, Working, Critical
      <4>2. history' = 1..call[p].ver \/ history' = 1..(call[p].ver - 1)
        <5>1. call[p].pc \notin After \cup Leaving /\ call[p].ver \in Nat \ {0}
          BY <2>4, <4>1 DEF Before, After, Leaving, Working, Critical
        <5>2. CASE call[p].op = "apply"
          BY <3>2, <4>1, <5>1, <5>2, PrefixGrows DEF Records, HistoryInv
        <5>3. CASE call[p].op = "rollback"
          BY <3>2, <5>1, <5>3, PrefixGrows DEF Records, HistoryInv
        <5> QED
          BY <2>3, <5>2, <5>3
      <4>3. call[p].ver \in Nat /\ call[p].ver - 1 \in Nat
        BY <2>4, <4>1 DEF Before
      <4> QED
        BY <3>2, <4>2, <4>3, MaxOfPrefix DEF HistoryHasNoHole, DbHead
    <3> QED
      BY <2>1, <3>1, <3>2 DEF Ends, Keeps, Plans, Continues
  <2>7. ASSUME NEW q \in Process \ {p}, call[q].pc \in Working PROVE UNCHANGED history
    <3>1. Records(p) => call[p].pc \in Critical
      BY DEF Records, Critical
    <3>2. call[q].pc \in Critical
      BY <2>7 DEF Working
    <3> QED
      BY <2>6, <2>7, <3>1, <3>2, OneCritical
  <2>8. CASE Ends(p)
    BY <2>5, <2>6, <2>7, <2>8 DEF Ends, HistoryInv
  <2>9. CASE Keeps(p)
    <3>1. call'[p].op = "rollback" =>
             /\ call'[p].to < call'[p].ver
             /\ call'[p].pc \notin After \cup Leaving => history' = 1..call'[p].ver
             /\ call'[p].pc \in After => history' = 1..(call'[p].ver - 1)
      BY <2>9 DEF Keeps, HistoryInv
    <3>2. call'[p].op = "apply" =>
             /\ call'[p].pc \in Before => history' = 1..(call'[p].ver - 1)
             /\ call'[p].pc \in After => history' = 1..call'[p].ver
      BY <2>9 DEF Keeps, HistoryInv
    <3> QED
      BY <2>5, <2>6, <2>7, <2>9, <3>1, <3>2 DEF Keeps
  <2>10. CASE Plans(p)
    <3>1. /\ history' = 1..(call'[p].ver - 1) /\ call'[p].op = "apply"
          /\ call'[p].pc \notin After
      BY <1>0, <2>10 DEF Plans, After
    <3> QED
      BY <2>5, <2>6, <2>7, <3>1
  <2>11. CASE Records(p)
    <3>1. /\ call[p].pc \in Before /\ call[p].pc \notin After \cup Leaving
          /\ call[p].ver \in Nat \ {0}
      BY <2>4, <2>11 DEF Records, Before, After, Leaving, Working, Critical
    <3>2. call'[p].pc \in After /\ call'[p].pc \notin Before
      BY <2>11 DEF Records, Before
    <3>3. CASE call[p].op = "apply"
      BY <2>5, <2>6, <2>7, <2>11, <3>1, <3>2, <3>3, PrefixGrows DEF Records, HistoryInv
    <3>4. CASE call[p].op = "rollback"
      BY <2>5, <2>6, <2>7, <2>11, <3>1, <3>2, <3>4, PrefixGrows DEF Records, HistoryInv
    <3> QED
      BY <2>3, <3>3, <3>4
  <2>12. CASE Continues(p)
    <3>1. /\ call[p].pc \in After /\ call'[p].pc \notin After /\ UNCHANGED history
          /\ call[p].ver \in Nat \ {0}
      BY <2>4, <2>12 DEF Continues, After, Working, Critical
    <3>2. CASE call[p].op = "apply"
      <4>1. history' = 1..(call'[p].ver - 1)
        BY <2>12, <3>1, <3>2 DEF Continues, HistoryInv
      <4> QED
        BY <2>5, <2>6, <2>7, <2>12, <3>1, <3>2, <4>1 DEF Continues
    <3>3. CASE call[p].op = "rollback"
      <4>1. history' = 1..call'[p].ver /\ call'[p].to < call'[p].ver /\ call'[p].op = "rollback"
        BY <1>0, <2>12, <3>1, <3>3 DEF Continues, HistoryInv
      <4> QED
        BY <2>5, <2>6, <2>7, <3>1, <3>3, <4>1
    <3> QED
      BY <2>3, <3>2, <3>3
  <2> QED
    BY <2>1, <2>8, <2>9, <2>10, <2>11, <2>12
<1>2. ASSUME NEW p \in Process, NEW to \in 0..fsVersion,
             (Apply(p) /\ NobodyReverts(p)) \/ (Rollback(p, to) /\ Alone(p))
      PROVE  HistoryInv'
  <2>1. /\ call[p].pc = "idle" /\ call'[p].pc = "probe"
        /\ \A q \in Process \ {p} : call'[q] = call[q]
        /\ UNCHANGED history
    BY <1>0, <1>2, BeginCall
  <2>2. "probe" \notin Before /\ "probe" \notin After /\ HistoryHasNoHole'
    BY <2>1 DEF Before, After, Working, Critical, HistoryInv, HistoryHasNoHole, DbHead
  <2>3. \A q \in Process \ {p} : call[q].op # "rollback"
    BY <1>2, <2>1 DEF NobodyReverts, Alone, VersionInv
  <2>4. CASE call'[p].op = "apply"
    BY <2>1, <2>2, <2>3, <2>4 DEF HistoryInv
  <2>5. CASE /\ Rollback(p, to) /\ Alone(p) /\ call'[p].op = "rollback"
             /\ call'[p].ver = DbHead /\ call'[p].to = to
    <3>1. \A q \in Process \ {p} : call'[q].pc = "idle"
      BY <2>1, <2>5 DEF Alone
    <3>2. call'[p].to < call'[p].ver /\ history' = 1..call'[p].ver
      BY <1>0, <2>1, <2>5 DEF Rollback
    <3> QED
      BY <2>1, <2>2, <2>3, <2>5, <3>1, <3>2 DEF HistoryInv
  <2>6. CASE Apply(p)
    <3>1. call'[p].op = "apply"
      BY <1>0, <2>6 DEF Apply, MigTypes, AtRest
    <3> QED
      BY <2>4, <3>1
  <2>7. CASE Rollback(p, to) /\ Alone(p)
    <3>1. call'[p].op = "rollback" /\ call'[p].ver = DbHead /\ call'[p].to = to
      BY <1>0, <2>7 DEF Rollback, MigTypes
    <3> QED
      BY <2>5, <2>7, <3>1
  <2> QED
    BY <1>2, <2>6, <2>7
<1>3. CASE UNCHANGED <<history, call>>
  BY <1>3 DEF HistoryInv, HistoryHasNoHole, DbHead
<1>4. 0 \in 0..fsVersion
  BY MigrationsAssumption
<1> QED
  BY <1>1, <1>2, <1>3, <1>4 DEF MigNext, Expire, migVars, dbVars

LEMMA MigInitHistory == MigInit => HistoryInv
<1> SUFFICES ASSUME MigInit PROVE HistoryInv
  OBVIOUS
<1>1. history = 1..0
  BY DEF MigInit
<1>2. HistoryHasNoHole
  BY <1>1, MaxOfPrefix DEF HistoryHasNoHole, DbHead
<1>3. \A p \in Process : call[p].op = "none"
  BY DEF MigInit, AtRest
<1> QED
  BY <1>2, <1>3 DEF HistoryInv

\* The applied versions are always the first ones, through failures and
\* crashes, where the locks work and as long as a rollback runs beside no
\* other call (Migrator.apply, rollback, __applyStep and __revertStep).
THEOREM HistoryHasNoHoleHolds ==
    ASSUME LocksWork, RollbackAlone
    PROVE  MigSpec => []HistoryHasNoHole
<1> DEFINE I == LockInv /\ VersionInv /\ HistoryInv
<1>1. MigInit => I
  BY MigInitInv, MigInitHistory
<1>2. I /\ [MigNext]_migVars => I'
  BY LockStep, VersionStep, HistoryStep
<1>3. I => HistoryHasNoHole
  BY DEF HistoryInv
<1> QED
  BY <1>1, <1>2, <1>3, PTL DEF MigSpec

-----------------------------------------------------------------------------
(* The books: what the history and the checkpoints say of the schema.      *)

\* of version v, the schema s holds the first k objects
Part(v, k, s) == \A i \in 1..Size(v) : Plan[v][i] \in s <=> i <= k

\* how many objects of version v the books account for, and how many there
\* may be: a statement may have run since, unless all have
Booked(v) ==
    LET n == progress[v].completed IN
    IF v \in history THEN IF progress[v].hash = "rollback" THEN Size(v) - n ELSE Size(v)
                     ELSE IF progress[v].hash = "apply" THEN n ELSE 0
Through(v) == progress[v].hash = IF v \in history THEN "apply" ELSE "rollback"
Slack(v) ==
    IF dialect.ddl \/ Through(v) THEN {Booked(v)}
    ELSE IF v \in history THEN {Booked(v) - 1, Booked(v)}
    ELSE {Booked(v), Booked(v) + 1}

Kept(v) == \E k \in 0..Size(v) : k \in Slack(v) /\ Part(v, k, schema)

\* a row of _norm_migration_progress of n statements
Row(op, n) == IF n = 0 THEN NoRow ELSE [hash |-> op, completed |-> n]
RowKept(v) ==
    \/ progress[v] = NoRow
    \/ /\ progress[v].hash # "none" /\ ~dialect.ddl
       /\ progress[v].completed \in 1..Size(v)

\* What a call knows of its version: from the first statement to the last
\* checkpoint the row says what it has done, and between a statement and its
\* checkpoint the schema is one statement ahead.  Above the version that a
\* rollback works on, nothing is left.
Stating == {"ddl", "checkpoint", "touch", "record", "clear"}
CallBooks(p) ==
    /\ call[p].pc \in Stating =>
          ~dialect.ddl /\ progress[call[p].ver] = Row(call[p].op, call[p].done)
    /\ call[p].pc \in {"ddl", "checkpoint"} => call[p].done < Size(call[p].ver)
    /\ call[p].pc \in {"touch", "tx"} => call[p].done <= Size(call[p].ver)
    /\ call[p].pc = "tx" => dialect.ddl
    /\ call[p].pc \in {"record", "clear"} => call[p].done = Size(call[p].ver)
    /\ call[p].pc = "checkpoint" =>
          Part(call[p].ver, IF call[p].op = "apply" THEN call[p].done + 1
                            ELSE Size(call[p].ver) - call[p].done - 1, schema)
    /\ call[p].op = "rollback" =>
          \A w \in Versions :
              w > call[p].ver \/ (w = call[p].ver /\ call[p].pc \in After) => Part(w, 0, schema)

BooksInv ==
    /\ \A v \in Versions : RowKept(v) /\ Kept(v)
    /\ \A p \in Process : CallBooks(p)

\* What the books say of the version a call is at.
LEMMA BookedAt ==
    ASSUME LockInv, VersionInv, HistoryInv, BooksInv, NEW p \in Process,
           call[p].pc \in Stating \ {"clear"}
    PROVE  /\ call[p].ver \in Versions /\ call[p].done \in 0..Size(call[p].ver)
           /\ call[p].op \in {"apply", "rollback"}
           /\ call[p].ver \in history <=> call[p].op = "rollback"
           /\ Booked(call[p].ver) = IF call[p].op = "apply" THEN call[p].done
                                    ELSE Size(call[p].ver) - call[p].done
<1> DEFINE v == call[p].ver
<1>1. /\ call[p].pc \in Before /\ call[p].pc \in Working /\ call[p].pc \notin After \cup Leaving
      /\ call[p].pc # "idle"
  BY DEF Stating, Before, Working, Critical, After, Leaving
<1>2. v \in Versions /\ call[p].op \in {"apply", "rollback"} /\ call[p].done \in Nat /\ v \in Nat \ {0}
  BY <1>1, PlanSeq DEF VersionInv, LockInv, MigTypes, CallRecord
<1>3. v \in history <=> call[p].op = "rollback"
  <2>1. call[p].op = "apply" => history = 1..(v - 1)
    BY <1>1 DEF HistoryInv
  <2>2. call[p].op = "rollback" => history = 1..v
    BY <1>1 DEF HistoryInv
  <2> QED
    BY <1>2, <2>1, <2>2
<1>4. CallBooks(p) /\ Size(v) \in Nat
  BY <1>2, PlanSeq DEF BooksInv
<1>5. call[p].done \in 0..Size(v)
  BY <1>2, <1>4 DEF CallBooks, Stating
<1>6. progress[v] = Row(call[p].op, call[p].done)
  BY <1>4 DEF CallBooks
<1> HIDE DEF v
<1>7. /\ progress[v].completed = call[p].done
      /\ progress[v].hash = IF call[p].done = 0 THEN "none" ELSE call[p].op
  BY <1>6 DEF Row, NoRow
<1>8. Booked(v) = IF call[p].op = "apply" THEN call[p].done ELSE Size(v) - call[p].done
  BY <1>2, <1>3, <1>4, <1>5, <1>7 DEF Booked
<1> QED
  BY <1>2, <1>3, <1>5, <1>8 DEF v

LEMMA OthersIdle ==
    ASSUME LockInv, VersionInv, HistoryInv, NEW p \in Process, call[p].pc \in Critical,
           NEW q \in Process \ {p}, call'[q] = call[q]
    PROVE  CallBooks(q)'
<1>1. call[q].pc \notin Critical
  BY OneCritical
<1>2. call[q].op # "rollback"
  BY DEF HistoryInv, Critical
<1>3. call[q].pc \notin Stating /\ call[q].pc # "tx"
  BY <1>1 DEF Stating, Critical
<1> QED
  BY <1>2, <1>3 DEF CallBooks, Stating

\* A version keeps its place when neither its books nor its objects change.
LEMMA KeptFrame ==
    ASSUME NEW v \in Versions, RowKept(v), Kept(v), UNCHANGED dialect,
           progress'[v] = progress[v], v \in history' <=> v \in history,
           \A i \in 1..Size(v) : Plan[v][i] \in schema' <=> Plan[v][i] \in schema
    PROVE  RowKept(v)' /\ Kept(v)'
<1>1. RowKept(v)'
  BY DEF RowKept
<1>2. Slack(v)' = Slack(v)
  BY DEF Slack, Through, Booked
<1>3. PICK k \in 0..Size(v) : k \in Slack(v) /\ Part(v, k, schema)
  BY DEF Kept
<1>4. Part(v, k, schema')
  BY <1>3 DEF Part
<1> QED
  BY <1>1, <1>2, <1>3, <1>4 DEF Kept

\* A step that leaves the database alone.
LEMMA SameDb ==
    ASSUME BooksInv, NEW p \in Process, UNCHANGED <<dialect, history, progress, schema>>,
           \A q \in Process \ {p} : call'[q] = call[q], CallBooks(p)'
    PROVE  BooksInv'
<1>1. \A v \in Versions : RowKept(v)' /\ Kept(v)'
  BY KeptFrame DEF BooksInv
<1>2. \A q \in Process \ {p} : CallBooks(q)'
  BY DEF BooksInv, CallBooks
<1> QED
  BY <1>1, <1>2 DEF BooksInv

\* One that does not bring its call to a statement, nor another version to
\* a rollback, keeps the books.
LEMMA QuietBooks ==
    ASSUME BooksInv, NEW p \in Process, UNCHANGED <<dialect, history, progress, schema>>,
           \A q \in Process \ {p} : call'[q] = call[q],
           call'[p].pc \notin Stating \cup {"restamp", "tx"},
           call'[p].op = "rollback" => call[p].op = "rollback" /\ call'[p].ver = call[p].ver
    PROVE  BooksInv'
<1>1. CallBooks(p) /\ call'[p].pc \notin After
  BY DEF BooksInv, After, Stating
<1>2. CallBooks(p)'
  BY <1>1 DEF CallBooks, Stating
<1> QED
  BY <1>2, SameDb

LEMMA WaitingBooks ==
    ASSUME LockInv, BooksInv, NEW p \in Process,
           \/ Probe(p) \/ Create(p) \/ ReadBack(p) \/ Judge(p) \/ Reclaim(p)
           \/ WithAdvisoryLock(p) \/ AdvisoryTimeout(p) \/ MakePlan(p) \/ RollbackPlan(p)
           \/ Refuse(p) \/ PlanChanged(p) \/ Fail(p) \/ Unlock(p) \/ Release(p) \/ Crash(p)
    PROVE  BooksInv'
<1> DEFINE Quiet == {"probe", "create", "judge", "settle", "reclaim", "advisory", "plan",
                     "release", "step", "unlock"}
<1>0. MigTypes /\ UNCHANGED <<dialect, history, progress, schema>>
  BY DEF LockInv, Probe, Create, ReadBack, Judge, Reclaim, WithAdvisoryLock, AdvisoryTimeout,
         MakePlan, RollbackPlan, Refuse, PlanChanged, Fail, Unlock, Release, Crash, dbVars, fixed
<1>1. ASSUME NEW l \in Quiet, Goto(p, l) PROVE BooksInv'
  <2>1. l \in Labels /\ l \notin Stating \cup {"restamp", "tx"}
    BY DEF Labels, Critical, Stating
  <2> QED
    BY <1>0, <1>1, <2>1, GotoStep, QuietBooks
<1>2. CASE call' = [call EXCEPT ![p] = AtRest]
  BY <1>0, <1>2, AtRestStep, QuietBooks DEF Stating
<1>3. CASE MakePlan(p)
  <2>1. /\ call'[p].pc \in {"step", "unlock"} /\ call'[p].op = "apply"
        /\ \A q \in Process \ {p} : call'[q] = call[q]
    BY <1>0, <1>3 DEF MakePlan, Applies, MigTypes, CallRecord
  <2> QED
    BY <1>0, <2>1, QuietBooks DEF Stating
<1>4. CASE Probe(p) \/ Create(p) \/ ReadBack(p) \/ Judge(p) \/ Reclaim(p)
  BY <1>1, <1>2, <1>4 DEF Probe, Create, ReadBack, Judge, Reclaim, Again
<1>5. CASE WithAdvisoryLock(p) \/ AdvisoryTimeout(p) \/ RollbackPlan(p) \/ Refuse(p)
           \/ PlanChanged(p) \/ Fail(p) \/ Unlock(p)
  BY <1>1, <1>5 DEF WithAdvisoryLock, AdvisoryTimeout, RollbackPlan, Refuse, PlanChanged, Fail, Unlock
<1>6. CASE Release(p) \/ Crash(p)
  BY <1>2, <1>6 DEF Release, Crash
<1> QED
  BY <1>3, <1>4, <1>5, <1>6

\* To a statement, to the row of the history, and to the next version.
LEMMA ForwardBooks ==
    ASSUME LockInv, VersionInv, HistoryInv, BooksInv, NEW p \in Process,
           ReadProgress(p) \/ TouchLock(p) \/ NextVersion(p) \/ Begin(p) \/ TxStatement(p)
    PROVE  BooksInv'
<1> DEFINE v == call[p].ver
<1>1. /\ MigTypes /\ UNCHANGED <<dialect, history, progress, schema>> /\ CallBooks(p)
      /\ call[p].pc \in {"step", "tx", "touch", "restamp"} /\ call[p].pc \in Critical
      /\ \A q \in Process \ {p} : call'[q] = call[q]
  BY DEF ReadProgress, TouchLock, NextVersion, Begin, TxStatement, LockInv, BooksInv, dbVars, fixed, Critical,
         Goto, MigTypes
<1>2. v \in Versions /\ Size(v) \in Nat /\ Len(Actions(p)) = Size(v)
  BY <1>1, ActionsOf, PlanSeq DEF VersionInv, Working
<1>3. /\ call[p] \in CallRecord /\ call[p].op \in {"apply", "rollback"}
      /\ call[p].op = "rollback" => \A w \in Versions : w > v => Part(w, 0, schema)
  BY <1>1 DEF MigTypes, CallRecord, VersionInv, CallBooks, Critical
<1>4. CASE ReadProgress(p)
  <2> DEFINE n == progress[v].completed
  <2>1. /\ call'[p].op = call[p].op /\ call'[p].ver = v /\ call'[p].done = n
        /\ call'[p].pc = IF n < Size(v) THEN "ddl" ELSE "record"
        /\ ~dialect.ddl /\ progress[v].hash \in {"none", call[p].op}
    BY <1>1, <1>2, <1>4 DEF ReadProgress, MigTypes, CallRecord, actionsHash
  <2>2. progress[v] \in [hash : {"none", "apply", "rollback"}, completed : Nat] /\ RowKept(v)
    BY <1>2 DEF VersionInv, BooksInv
  <2>3. progress[v] = Row(call[p].op, n) /\ n \in 0..Size(v)
    <3>1. CASE progress[v] = NoRow
      BY <1>2, <3>1 DEF NoRow, Row
    <3>2. CASE progress[v] # NoRow
      BY <1>2, <2>1, <2>2, <3>2 DEF RowKept, Row
    <3> QED
      BY <3>1, <3>2
  <2> HIDE DEF n, v
  <2>4. CallBooks(p)'
    BY <1>1, <1>2, <1>3, <2>1, <2>3 DEF CallBooks, Stating, After
  <2> QED
    BY <1>1, <2>4, SameDb
<1>5. CASE TouchLock(p)
  <2> DEFINE l == IF call[p].done < Size(v) THEN "ddl" ELSE "record"
  <2>1. Goto(p, l) /\ l \in Labels /\ call[p].pc = "touch"
    BY <1>2, <1>5 DEF TouchLock, Labels, Critical
  <2>2. /\ call'[p].pc = l /\ call'[p].op = call[p].op /\ call'[p].ver = v
        /\ call'[p].done = call[p].done
    BY <1>1, <2>1 DEF Goto, MigTypes, CallRecord
  <2>3. call[p].done \in 0..Size(v)
    BY <2>1, BookedAt DEF Stating
  <2>4. CallBooks(p)'
    BY <1>1, <1>2, <1>3, <2>1, <2>2, <2>3 DEF CallBooks, Stating, After
  <2> QED
    BY <1>1, <2>4, SameDb
<1>6. CASE NextVersion(p)
  <2>1. /\ call'[p].pc \in {"step", "unlock"} /\ call'[p].op = call[p].op
        /\ call[p].op = "rollback" => call'[p].ver = v \/ call'[p].ver = v - 1
        /\ call[p].pc = "restamp"
    BY <1>1, <1>6 DEF NextVersion, MigTypes, CallRecord, Applies
  <2>2. call[p].op = "rollback" => \A w \in Versions : w > v - 1 => Part(w, 0, schema)
    <3>1. \A w \in Versions : w > v - 1 => w > v \/ w = v
      BY <1>2, PlanSeq
    <3> QED
      BY <1>1, <2>1, <3>1 DEF CallBooks, After
  <2>3. CallBooks(p)'
    BY <1>1, <1>3, <2>1, <2>2 DEF CallBooks, Stating, After
  <2> QED
    BY <1>1, <2>3, SameDb
<1>7. CASE Begin(p) \/ TxStatement(p)
  <2>1. /\ call'[p].pc = "tx" /\ call'[p].op = call[p].op /\ call'[p].ver = v /\ dialect.ddl
        /\ call'[p].done <= Size(v)
    BY <1>1, <1>2, <1>7 DEF Begin, TxStatement, MigTypes, CallRecord, CallBooks
  <2>2. CallBooks(p)'
    BY <1>1, <1>3, <2>1 DEF CallBooks, Stating, After
  <2> QED
    BY <1>1, <2>2, SameDb
<1> QED
  BY <1>4, <1>5, <1>6, <1>7

\* A step inside the locks that moves the books of its own version only.
LEMMA OwnVersion ==
    ASSUME LockInv, VersionInv, HistoryInv, BooksInv, NEW p \in Process,
           NEW v \in Versions, v = call[p].ver,
           call[p].pc \in Working, UNCHANGED dialect,
           \A q \in Process \ {p} : call'[q] = call[q],
           \A w \in Versions \ {v} :
              /\ progress'[w] = progress[w]
              /\ w \in history' <=> w \in history
              /\ \A i \in 1..Size(w) : Plan[w][i] \in schema' <=> Plan[w][i] \in schema,
           RowKept(v)', Kept(v)', CallBooks(p)'
    PROVE  BooksInv'
<1>1. ASSUME NEW w \in Versions \ {v} PROVE RowKept(w)' /\ Kept(w)'
  BY KeptFrame DEF BooksInv
<1>2. \A q \in Process \ {p} : CallBooks(q)'
  BY OthersIdle DEF Working
<1> QED
  BY <1>1, <1>2 DEF BooksInv

\* What is left of a schema when object m of version v is dropped.
LEMMA DropOne ==
    ASSUME NEW v \in Versions, NEW m \in 1..Size(v), NEW s, NEW k \in {m - 1, m}, Part(v, k, s),
           \A w \in Versions : w > v => Part(w, 0, s)
    PROVE  /\ Part(v, m - 1, Without(s, Plan[v][m]))
           /\ \A w \in Versions \ {v} : \A i \in 1..Size(w) :
                 Plan[w][i] \in Without(s, Plan[v][m]) <=> Plan[w][i] \in s
<1>0. Size(v) \in Nat /\ Versions \subseteq Nat
  BY PlanSeq
<1>1. ASSUME NEW i \in 1..Size(v)
      PROVE  Plan[v][i] \in Without(s, Plan[v][m]) <=> i <= m - 1
  <2>1. Plan[v][i] \in s <=> i <= k
    BY DEF Part
  <2>2. /\ Plan[v][i] = Plan[v][m] <=> i = m
        /\ On[Plan[v][i]] = Plan[v][m] => m <= i
    BY <1>0, PlanOrder
  <2> QED
    BY <1>0, <2>1, <2>2 DEF Without
<1>2. ASSUME NEW w \in Versions \ {v}, NEW i \in 1..Size(w)
      PROVE  Plan[w][i] \in Without(s, Plan[v][m]) <=> Plan[w][i] \in s
  <2>1. Plan[w][i] # Plan[v][m] /\ (On[Plan[w][i]] = Plan[v][m] => v < w)
    BY PlanOrder
  <2>2. w > v => Plan[w][i] \notin s
    BY <1>0, PlanSeq DEF Part
  <2> QED
    BY <1>0, <2>1, <2>2 DEF Without
<1> QED
  BY <1>1, <1>2 DEF Part

LEMMA AddOne ==
    ASSUME NEW v \in Versions, NEW m \in 1..Size(v), NEW s, NEW k \in {m - 1, m}, Part(v, k, s)
    PROVE  /\ Part(v, m, s \cup {Plan[v][m]})
           /\ \A w \in Versions \ {v} : \A i \in 1..Size(w) :
                 Plan[w][i] \in s \cup {Plan[v][m]} <=> Plan[w][i] \in s
<1>1. \A w \in Versions : \A i \in 1..Size(w) : Plan[w][i] = Plan[v][m] => w = v /\ i = m
  BY PlanOrder
<1>2. Size(v) \in Nat
  BY PlanSeq
<1> QED
  BY <1>1, <1>2 DEF Part

LEMMA DdlBooks ==
    ASSUME LockInv, VersionInv, HistoryInv, BooksInv, NEW p \in Process, Ddl(p)
    PROVE  BooksInv'
<1>0. PICK v \in Versions, d \in Nat : v = call[p].ver /\ d = call[p].done
  BY BookedAt DEF Ddl, Stating, VersionInv, LockInv, MigTypes, CallRecord
<1> DEFINE n == Size(v)
           o == Actions(p)[d + 1]
<1>1. /\ MigTypes /\ call[p].pc = "ddl" /\ call[p].pc \in Working
      /\ UNCHANGED <<dialect, history, progress>> /\ CallBooks(p)
      /\ "checkpoint" \in Labels /\ Goto(p, "checkpoint")
  BY DEF Ddl, LockInv, BooksInv, fixed, Working, Critical, Labels
<1>2. /\ call'[p].pc = "checkpoint" /\ call'[p].op = call[p].op /\ call'[p].ver = v
      /\ call'[p].done = d /\ \A q \in Process \ {p} : call'[q] = call[q]
  BY <1>0, <1>1 DEF Goto, MigTypes, CallRecord
<1>3. /\ v \in Versions /\ d \in Nat /\ d < n /\ n \in Nat /\ call[p].op \in {"apply", "rollback"}
      /\ v \in history <=> call[p].op = "rollback"
      /\ Booked(v) = IF call[p].op = "apply" THEN d ELSE n - d
      /\ ~dialect.ddl /\ progress[v] = Row(call[p].op, d) /\ ~Through(v)
  BY <1>0, <1>1, BookedAt, PlanSeq DEF Stating, CallBooks, Row, NoRow, Through
<1>4. PICK k \in 0..n : k \in Slack(v) /\ Part(v, k, schema)
  BY <1>3 DEF BooksInv, Kept
<1>5. RowKept(v) /\ RowKept(v)' /\ Slack(v)' = Slack(v)
  BY <1>1, <1>3 DEF BooksInv, RowKept, Slack, Through, Booked
<1>6. o = Plan[v][IF call[p].op = "apply" THEN d + 1 ELSE n - d]
  BY <1>0, <1>3, ActionsOf
<1> HIDE DEF n, o
<1>7. CASE call[p].op = "apply"
  <2>1. schema' = schema \cup {Plan[v][d + 1]}
    BY <1>0, <1>6, <1>7 DEF Ddl, Applies, o
  <2>2. d + 1 \in 1..n /\ k \in {(d + 1) - 1, d + 1} /\ n = Size(v)
    BY <1>3, <1>4, <1>7 DEF Slack, n
  <2>3. /\ Part(v, d + 1, schema')
        /\ \A w \in Versions \ {v} : \A i \in 1..Size(w) :
              Plan[w][i] \in schema' <=> Plan[w][i] \in schema
    BY <1>3, <1>4, <2>1, <2>2, AddOne
  <2>4. d + 1 \in 0..n /\ d + 1 \in Slack(v)
    BY <1>3, <1>7, <2>2 DEF Slack
  <2>5. Kept(v)'
    BY <1>5, <2>2, <2>3, <2>4 DEF Kept
  <2>6. CallBooks(p)'
    BY <1>1, <1>2, <1>3, <1>7, <2>2, <2>3 DEF CallBooks, Stating
  <2> QED
    BY <1>0, <1>1, <1>2, <1>5, <2>3, <2>5, <2>6, OwnVersion
<1>8. CASE call[p].op = "rollback"
  <2>1. schema' = Without(schema, Plan[v][n - d])
    BY <1>0, <1>6, <1>8 DEF Ddl, Applies, o
  <2>2. n - d \in 1..n /\ k \in {(n - d) - 1, n - d} /\ n = Size(v)
    BY <1>3, <1>4, <1>8 DEF Slack, n
  <2>3. \A w \in Versions : w > v => Part(w, 0, schema)
    BY <1>0, <1>1, <1>8 DEF CallBooks
  <2>4. /\ Part(v, (n - d) - 1, schema')
        /\ \A w \in Versions \ {v} : \A i \in 1..Size(w) :
              Plan[w][i] \in schema' <=> Plan[w][i] \in schema
    BY <1>3, <1>4, <2>1, <2>2, <2>3, DropOne
  <2>5. (n - d) - 1 \in 0..n /\ (n - d) - 1 \in Slack(v)
    BY <1>3, <1>8, <2>2 DEF Slack
  <2>6. Kept(v)'
    <3> DEFINE m == (n - d) - 1
    <3>1. m \in 0..Size(v) /\ m \in Slack(v)' /\ Part(v, m, schema')
      BY <1>5, <2>2, <2>4, <2>5
    <3> HIDE DEF m
    <3> QED
      BY <3>1 DEF Kept
  <2>7. ASSUME NEW w \in Versions, w > v PROVE Part(w, 0, schema')
    <3>1. w \in Versions \ {v} /\ Part(w, 0, schema)
      BY <1>3, <2>3, <2>7, PlanSeq
    <3>2. \A i \in 1..Size(w) : Plan[w][i] \in schema' <=> Plan[w][i] \in schema
      BY <2>4, <3>1
    <3> QED
      BY <3>1, <3>2 DEF Part
  <2>8. CallBooks(p)'
    BY <1>1, <1>2, <1>3, <1>8, <2>2, <2>4, <2>7 DEF CallBooks, Stating, After
  <2> QED
    BY <1>0, <1>1, <1>2, <1>5, <2>4, <2>6, <2>8, OwnVersion
<1> QED
  BY <1>3, <1>7, <1>8

LEMMA CheckpointBooks ==
    ASSUME LockInv, VersionInv, HistoryInv, BooksInv, NEW p \in Process, WriteProgress(p)
    PROVE  BooksInv'
<1>0. PICK v \in Versions, d \in Nat : v = call[p].ver /\ d = call[p].done
  BY BookedAt DEF WriteProgress, Stating, VersionInv, LockInv, MigTypes, CallRecord
<1> DEFINE n == Size(v)
           op == call[p].op
<1>1. /\ MigTypes /\ call[p].pc = "checkpoint" /\ call[p].pc \in Working
      /\ UNCHANGED <<dialect, history, schema>> /\ CallBooks(p)
  BY DEF WriteProgress, LockInv, BooksInv, fixed, Working, Critical
<1>2. /\ call'[p].pc = "touch" /\ call'[p].op = op /\ call'[p].ver = v
      /\ call'[p].done = d + 1 /\ \A q \in Process \ {p} : call'[q] = call[q]
  BY <1>0, <1>1 DEF WriteProgress, MigTypes, CallRecord
<1>3. /\ d < n /\ n \in Nat /\ op \in {"apply", "rollback"}
      /\ v \in history <=> op = "rollback"
      /\ ~dialect.ddl /\ progress[v] = Row(op, d)
      /\ Part(v, IF op = "apply" THEN d + 1 ELSE n - d - 1, schema)
  BY <1>0, <1>1, BookedAt, PlanSeq DEF Stating, CallBooks
<1>4. /\ progress'[v] = [hash |-> op, completed |-> d + 1]
      /\ \A w \in Versions \ {v} : progress'[w] = progress[w]
  <2>1. progress \in [Versions -> [hash : {"none", "apply", "rollback"}, completed : Nat]]
    BY DEF VersionInv
  <2>2. d # 0 => progress[v] = [hash |-> op, completed |-> d] /\ progress[v] # NoRow
    BY <1>3 DEF Row, NoRow
  <2>3. progress' = [progress EXCEPT ![v] =
               IF d = 0 THEN [hash |-> op, completed |-> d + 1]
               ELSE IF progress[v] = NoRow THEN progress[v]
               ELSE [progress[v] EXCEPT !.completed = d + 1]]
    BY <1>0, <2>1 DEF WriteProgress, actionsHash
  <2>4. d # 0 => [progress[v] EXCEPT !.completed = d + 1] = [hash |-> op, completed |-> d + 1]
    BY <2>2
  <2> QED
    BY <2>1, <2>2, <2>3, <2>4
<1> HIDE DEF n, op
<1>5. d + 1 \in 1..n /\ n = Size(v)
  BY <1>3 DEF n
<1>6. RowKept(v)'
  BY <1>1, <1>3, <1>4, <1>5 DEF RowKept
<1>7. Kept(v)'
  <2> DEFINE k == IF op = "apply" THEN d + 1 ELSE n - d - 1
  <2>1. k \in 0..Size(v) /\ Part(v, k, schema')
    BY <1>1, <1>3, <1>5
  <2>2. Booked(v)' = k
    BY <1>1, <1>3, <1>4, <1>5 DEF Booked
  <2>3. k \in Slack(v)'
    BY <1>1, <1>3, <2>2 DEF Slack
  <2> HIDE DEF k
  <2> QED
    BY <2>1, <2>3 DEF Kept
<1>8. CallBooks(p)'
  <2>1. progress'[v] = Row(op, d + 1)
    BY <1>4 DEF Row
  <2>2. op = "rollback" => \A w \in Versions : w > v => Part(w, 0, schema')
    BY <1>0, <1>1 DEF CallBooks, op
  <2> QED
    BY <1>1, <1>2, <1>3, <1>5, <2>1, <2>2 DEF CallBooks, Stating, After
<1> QED
  BY <1>0, <1>1, <1>2, <1>4, <1>6, <1>7, <1>8, OwnVersion

LEMMA RecordBooks ==
    ASSUME LockInv, VersionInv, HistoryInv, BooksInv, NEW p \in Process, Record(p)
    PROVE  BooksInv'
<1>0. PICK v \in Versions : v = call[p].ver
  BY BookedAt DEF Record, Stating
<1> DEFINE n == Size(v)
           op == call[p].op
<1>1. /\ MigTypes /\ call[p].pc = "record" /\ call[p].pc \in Working
      /\ UNCHANGED <<dialect, progress, schema>> /\ CallBooks(p)
      /\ "clear" \in Labels /\ Goto(p, "clear")
      /\ history' = IF op = "apply" THEN history \cup {v} ELSE history \ {v}
  BY <1>0 DEF Record, LockInv, BooksInv, fixed, Working, Critical, Labels, Applies
<1>2. /\ call'[p].pc = "clear" /\ call'[p].op = op /\ call'[p].ver = v
      /\ call'[p].done = call[p].done /\ \A q \in Process \ {p} : call'[q] = call[q]
  BY <1>0, <1>1 DEF Goto, MigTypes, CallRecord
<1>3. /\ call[p].done = n /\ n \in Nat /\ op \in {"apply", "rollback"}
      /\ v \in history <=> op = "rollback"
      /\ Booked(v) = IF op = "apply" THEN n ELSE 0
      /\ ~dialect.ddl /\ progress[v] = Row(op, n)
  BY <1>0, <1>1, BookedAt, PlanSeq DEF Stating, CallBooks
<1>4. /\ v \in history' <=> op = "apply"
      /\ \A w \in Versions \ {v} : w \in history' <=> w \in history
  BY <1>1, <1>3
<1>5. PICK k \in 0..n : k \in Slack(v) /\ Part(v, k, schema)
  BY DEF BooksInv, Kept
<1> HIDE DEF n, op
<1>6. k = IF op = "apply" THEN n ELSE 0
  BY <1>3, <1>5 DEF Slack
<1>7. RowKept(v)'
  BY <1>1 DEF BooksInv, RowKept
<1>8. Kept(v)'
  <2>1. progress[v].hash = IF n = 0 THEN "none" ELSE op
    BY <1>3 DEF Row, NoRow
  <2>2. Booked(v)' = k
    BY <1>1, <1>3, <1>4, <1>6, <2>1 DEF Booked, n
  <2>3. k \in 0..Size(v) /\ k \in Slack(v)' /\ Part(v, k, schema')
    BY <1>1, <1>5, <2>2 DEF Slack, n
  <2> QED
    BY <2>3 DEF Kept
<1>9. CallBooks(p)'
  <2>1. op = "rollback" => Part(v, 0, schema)
    BY <1>5, <1>6
  <2>2. op = "rollback" => \A w \in Versions : w > v => Part(w, 0, schema)
    BY <1>0, <1>1 DEF CallBooks, op
  <2>3. call'[p].done = Size(v) /\ progress'[v] = Row(call'[p].op, call'[p].done) /\ ~dialect'.ddl
    BY <1>1, <1>2, <1>3 DEF n
  <2>4. \A w \in Versions : w > v \/ w = v => (op = "rollback" => Part(w, 0, schema'))
    BY <1>1, <2>1, <2>2
  <2> QED
    BY <1>2, <2>3, <2>4 DEF CallBooks
<1> QED
  BY <1>0, <1>1, <1>2, <1>4, <1>7, <1>8, <1>9, OwnVersion

LEMMA ClearBooks ==
    ASSUME LockInv, VersionInv, HistoryInv, BooksInv, NEW p \in Process, ClearProgress(p)
    PROVE  BooksInv'
<1>1. /\ MigTypes /\ call[p].pc = "clear" /\ call[p].pc \in Working /\ call[p].pc \in After
      /\ UNCHANGED <<dialect, history, schema>> /\ CallBooks(p)
      /\ "restamp" \in Labels /\ Goto(p, "restamp")
  BY DEF ClearProgress, LockInv, BooksInv, fixed, Working, Critical, Labels, After
<1>0. PICK v \in Versions : v = call[p].ver
  BY <1>1 DEF VersionInv
<1> DEFINE n == Size(v)
           op == call[p].op
<1>2. /\ call'[p].pc = "restamp" /\ call'[p].op = op /\ call'[p].ver = v
      /\ \A q \in Process \ {p} : call'[q] = call[q]
  BY <1>0, <1>1 DEF Goto, MigTypes, CallRecord
<1>3. progress'[v] = NoRow /\ \A w \in Versions \ {v} : progress'[w] = progress[w]
  BY <1>0 DEF ClearProgress, VersionInv
<1>4. /\ n \in Nat /\ op \in {"apply", "rollback"} /\ ~dialect.ddl /\ progress[v] = Row(op, n)
  BY <1>0, <1>1, PlanSeq DEF CallBooks, Stating, MigTypes, CallRecord, VersionInv
<1>5. v \in history <=> op = "apply"
  <2>1. v \in Nat \ {0}
    BY PlanSeq
  <2>2. op = "apply" => history = 1..v
    BY <1>0, <1>1 DEF HistoryInv
  <2>3. op = "rollback" => history = 1..(v - 1)
    BY <1>0, <1>1 DEF HistoryInv
  <2> QED
    BY <1>4, <2>1, <2>2, <2>3
<1>6. RowKept(v)'
  BY <1>3 DEF RowKept
<1>7. Slack(v) \subseteq Slack(v)'
  <2>1. /\ progress[v].hash = IF n = 0 THEN "none" ELSE op
        /\ progress'[v].hash = "none"
    BY <1>3, <1>4 DEF Row, NoRow
  <2> HIDE DEF n, op
  <2>2. Booked(v)' = Booked(v)
    BY <1>1, <1>4, <1>5, <2>1 DEF Booked, n
  <2>3. ~Through(v)'
    BY <2>1 DEF Through
  <2> QED
    BY <1>1, <2>2, <2>3 DEF Slack
<1>8. Kept(v)'
  BY <1>1, <1>7 DEF BooksInv, Kept
<1>9. CallBooks(p)'
  BY <1>0, <1>1, <1>2 DEF CallBooks, Stating, After
<1> QED
  BY <1>0, <1>1, <1>2, <1>3, <1>6, <1>8, <1>9, OwnVersion

LEMMA TransactionBooks ==
    ASSUME LockInv, VersionInv, HistoryInv, BooksInv, NEW p \in Process, Transaction(p)
    PROVE  BooksInv'
<1>1. /\ MigTypes /\ call[p].pc = "tx" /\ call[p].pc \in Working /\ call[p].pc \in Before
      /\ call[p].pc \notin After \cup Leaving
      /\ UNCHANGED <<dialect, progress>> /\ dialect.ddl /\ CallBooks(p)
      /\ "restamp" \in Labels /\ Goto(p, "restamp")
  BY DEF Transaction, LockInv, BooksInv, fixed, Working, Critical, Labels, Before, After, Leaving,
         CallBooks
<1>0. PICK v \in Versions : v = call[p].ver
  BY <1>1 DEF VersionInv
<1> DEFINE op == call[p].op
           os == {Plan[v][i] : i \in 1..Size(v)}
<1>2. /\ call'[p].pc = "restamp" /\ call'[p].op = op /\ call'[p].ver = v
      /\ \A q \in Process \ {p} : call'[q] = call[q]
  BY <1>0, <1>1 DEF Goto, MigTypes, CallRecord
<1>3. /\ op \in {"apply", "rollback"} /\ Size(v) \in Nat /\ v \in Nat /\ Versions \subseteq Nat
      /\ ToSet(Actions(p)) = os
  <2>1. op \in {"apply", "rollback"}
    BY <1>1 DEF MigTypes, CallRecord, VersionInv
  <2>2. Size(v) \in Nat /\ v \in Nat /\ Versions \subseteq Nat /\ Objects(v) = os
    BY PlanSeq
  <2>3. ToSet(Actions(p)) = Objects(v)
    BY <1>0, ActionsOf
  <2> QED
    BY <2>1, <2>2, <2>3
<1>4. /\ history' = IF op = "apply" THEN history \cup {v} ELSE history \ {v}
      /\ schema' = IF op = "apply" THEN schema \cup os
                   ELSE {x \in schema : x \notin os /\ On[x] \notin os}
  BY <1>0, <1>3 DEF Transaction, Applies
<1>5. \A w \in Versions : progress[w] = NoRow
  BY <1>1 DEF BooksInv, RowKept
<1>6. op = "rollback" => \A w \in Versions : w > v => Part(w, 0, schema)
  BY <1>0, <1>1 DEF CallBooks
<1>7. ASSUME NEW w \in Versions \ {v}, NEW i \in 1..Size(w)
      PROVE  Plan[w][i] \in schema' <=> Plan[w][i] \in schema
  <2>1. Plan[w][i] \notin os /\ (On[Plan[w][i]] \in os => w > v)
    BY <1>3, PlanOrder
  <2>2. op = "rollback" /\ w > v => Plan[w][i] \notin schema
    BY <1>3, <1>6, PlanSeq DEF Part
  <2> HIDE DEF os, op
  <2> QED
    BY <1>3, <1>4, <2>1, <2>2
<1>8. Part(v, IF op = "apply" THEN Size(v) ELSE 0, schema')
  <2>1. \A i \in 1..Size(v) : Plan[v][i] \in os /\ i <= Size(v) /\ ~(i <= 0)
    BY <1>3
  <2> HIDE DEF os, op
  <2> QED
    BY <1>3, <1>4, <2>1 DEF Part
<1>9. Kept(v)'
  <2> DEFINE k == IF op = "apply" THEN Size(v) ELSE 0
  <2>1. k \in 0..Size(v) /\ progress'[v].hash = "none"
    BY <1>1, <1>3, <1>5 DEF NoRow
  <2>2. Booked(v)' = k
    BY <1>3, <1>4, <2>1 DEF Booked
  <2>3. k \in Slack(v)'
    BY <1>1, <2>2 DEF Slack
  <2> HIDE DEF k
  <2> QED
    BY <1>8, <2>1, <2>3 DEF Kept, k
<1>10. RowKept(v)'
  BY <1>1, <1>5 DEF RowKept
<1>11. \A w \in Versions \ {v} : w \in history' <=> w \in history
  BY <1>4
<1>12. CallBooks(p)'
  <2>1. ASSUME op = "rollback", NEW w \in Versions, w > v \/ w = v PROVE Part(w, 0, schema')
    <3>1. CASE w = v
      BY <1>8, <2>1, <3>1
    <3>2. CASE w # v
      BY <1>6, <1>7, <2>1, <3>2 DEF Part
    <3> QED
      BY <3>1, <3>2
  <2> HIDE DEF op
  <2> QED
    BY <1>2, <2>1 DEF CallBooks, Stating, op
<1> QED
  BY <1>0, <1>1, <1>2, <1>7, <1>9, <1>10, <1>11, <1>12, OwnVersion

LEMMA BooksStep ==
    ASSUME WholeVersions, LockInv, VersionInv, HistoryInv, BooksInv, [MigNext]_migVars
    PROVE  BooksInv'
<1>1. ASSUME NEW p \in Process, Step(p) \/ Crash(p) PROVE BooksInv'
  BY <1>1, WaitingBooks, ForwardBooks, DdlBooks, CheckpointBooks, RecordBooks, ClearBooks,
     TransactionBooks DEF Step
<1>2. ASSUME NEW p \in Process, NEW to \in 0..fsVersion,
             Apply(p) \/ (Rollback(p, to) /\ NoneHalfApplied)
      PROVE  BooksInv'
  <2>1. /\ call'[p].pc = "probe" /\ \A q \in Process \ {p} : call'[q] = call[q]
        /\ \/ call'[p].op = "apply"
           \/ NoneHalfApplied /\ call'[p].op = "rollback" /\ call'[p].ver = DbHead
        /\ UNCHANGED <<dialect, history, progress, schema>>
    <3>1. CASE Apply(p)
      BY <3>1, BeginCall DEF LockInv, MigTypes, Apply, AtRest, dbVars
    <3>2. CASE Rollback(p, to) /\ NoneHalfApplied
      BY <3>2, BeginCall DEF LockInv, MigTypes, Rollback, dbVars
    <3> QED
      BY <1>2, <3>1, <3>2
  <2>2. ASSUME call'[p].op = "rollback", NEW w \in Versions, w > call'[p].ver
        PROVE  Part(w, 0, schema')
    <3>1. Objects(w) \cap schema = {} /\ Size(w) \in Nat
      BY <2>1, <2>2, PlanSeq DEF NoneHalfApplied
    <3> QED
      BY <2>1, <3>1, PlanSeq DEF Part
  <2>3. CallBooks(p)'
    BY <2>1, <2>2 DEF CallBooks, Stating, After
  <2> QED
    BY <2>1, <2>3, SameDb
<1>3. CASE UNCHANGED <<dialect, history, progress, schema, call>>
  <2>1. \A v \in Versions : RowKept(v)' /\ Kept(v)'
    BY <1>3, KeptFrame DEF BooksInv
  <2> QED
    BY <1>3, <2>1 DEF BooksInv, CallBooks
<1>4. 0 \in 0..fsVersion
  BY MigrationsAssumption
<1> QED
  BY <1>1, <1>2, <1>3, <1>4 DEF MigNext, Expire, migVars, dbVars, fixed

LEMMA BooksTell ==
    ASSUME VersionInv, NEW v \in Versions, RowKept(v), Kept(v)
    PROVE  LET there == Objects(v) \cap schema IN
           /\ dialect.ddl => there = Accounted(v)
           /\ ~dialect.ddl /\ v \notin history =>
                  Accounted(v) \subseteq there /\ there \subseteq Accounted(v) \cup Due(v)
           /\ ~dialect.ddl /\ v \in history =>
                  Accounted(v) \ Due(v) \subseteq there /\ there \subseteq Accounted(v)
<1> DEFINE n == Size(v)
           b == Booked(v)
           there == Objects(v) \cap schema
<1>1. /\ Plan[v] \in Seq(Object) /\ n \in Nat /\ Len(Plan[v]) = n /\ DOMAIN Plan[v] = 1..n
      /\ Objects(v) = {Plan[v][i] : i \in 1..n}
  BY PlanSeq DEF Size
<1>2. b \in 0..n /\ progress[v].completed \in 0..n
  BY <1>1 DEF RowKept, Booked, NoRow
<1>3. ASSUME NEW m \in 0..n PROVE ToSet(SubSeq(Plan[v], 1, m)) = {Plan[v][i] : i \in 1..m}
  <2>1. Len(SubSeq(Plan[v], 1, m)) = m /\ \A i \in 1..m : SubSeq(Plan[v], 1, m)[i] = Plan[v][i]
    BY <1>1, SubSeqProperties
  <2>2. DOMAIN SubSeq(Plan[v], 1, m) = 1..m
    BY <1>1, <2>1, SubSeqProperties
  <2> HIDE DEF n
  <2> QED
    BY <2>1, <2>2 DEF ToSet
<1>4. Accounted(v) = {Plan[v][i] : i \in 1..b}
  <2> DEFINE c == progress[v].completed
  <2>1. CASE progress[v].hash = "apply" /\ v \notin history
    <3>1. Accounted(v) = ToSet(SubSeq(Plan[v], 1, c)) /\ b = c
      BY <2>1 DEF Accounted, Booked
    <3> QED
      BY <1>2, <1>3, <3>1
  <2>2. CASE progress[v].hash = "rollback" /\ v \in history
    <3>1. Accounted(v) = ToSet(SubSeq(Plan[v], 1, n - c)) /\ b = n - c /\ n - c \in 0..n
      BY <1>1, <1>2, <2>2 DEF Accounted, Booked, Size
    <3> QED
      BY <1>3, <3>1
  <2>3. CASE /\ ~(progress[v].hash = "apply" /\ v \notin history)
             /\ ~(progress[v].hash = "rollback" /\ v \in history)
    <3>1. /\ Accounted(v) = IF v \in history THEN Objects(v) ELSE {}
          /\ b = IF v \in history THEN n ELSE 0
      BY <2>3 DEF Accounted, Booked
    <3> QED
      BY <1>1, <3>1
  <2> QED
    BY <2>1, <2>2, <2>3
<1>5. PICK k \in 0..n : k \in Slack(v) /\ Part(v, k, schema)
  BY DEF Kept
<1> HIDE DEF n, b
<1>6. there = {Plan[v][i] : i \in 1..k}
  BY <1>1, <1>5 DEF Part, n
<1>7. CASE k = b
  BY <1>4, <1>6, <1>7
<1>8. CASE k # b
  <2>1. ~dialect.ddl /\ ~Through(v) /\ k = IF v \in history THEN b - 1 ELSE b + 1
    BY <1>2, <1>5, <1>8 DEF Slack, b
  <2>2. progress[v].hash = "none" => progress[v].completed = 0
    BY DEF RowKept, NoRow
  <2>3. CASE v \notin history
    <3>1. progress[v].hash \in {"none", "apply"} /\ b = progress[v].completed
      BY <2>1, <2>2, <2>3 DEF Through, Booked, VersionInv, b
    <3>2. k \in 1..n /\ k = progress[v].completed + 1
      BY <1>2, <2>1, <2>3, <3>1
    <3>3. Plan[v][k] \in Due(v)
      BY <1>1, <2>3, <3>1, <3>2 DEF Due
    <3>4. \A i \in 1..k : i \in 1..b \/ i = k
      BY <1>2, <2>1, <2>3
    <3>5. \A i \in 1..b : i \in 1..k
      BY <1>2, <2>1, <2>3
    <3>6. Accounted(v) \subseteq there
      BY <1>4, <1>6, <3>5, Zenon
    <3>7. there \subseteq Accounted(v) \cup Due(v)
      BY <1>4, <1>6, <3>3, <3>4, Zenon
    <3> QED
      BY <2>1, <2>3, <3>6, <3>7
  <2>4. CASE v \in history
    <3>1. progress[v].hash \in {"none", "rollback"} /\ b = n - progress[v].completed
      BY <1>1, <1>2, <2>1, <2>2, <2>4 DEF Through, Booked, VersionInv, b, n
    <3>2. b \in 1..n /\ b = Len(Plan[v]) - progress[v].completed
      BY <1>1, <1>2, <1>5, <2>1, <2>4, <3>1
    <3>3. Plan[v][b] \in Due(v)
      BY <1>1, <2>4, <3>1, <3>2 DEF Due
    <3>4. \A i \in 1..b : i \in 1..k \/ i = b
      BY <1>2, <1>5, <2>1, <2>4
    <3>5. \A i \in 1..k : i \in 1..b
      BY <1>2, <1>5, <2>1, <2>4
    <3>6. Accounted(v) \ Due(v) \subseteq there
      BY <1>4, <1>6, <3>3, <3>4, Zenon
    <3>7. there \subseteq Accounted(v)
      BY <1>4, <1>6, <3>5, Zenon
    <3> QED
      BY <2>1, <2>4, <3>6, <3>7
  <2> QED
    BY <2>3, <2>4
<1> QED
  BY <1>7, <1>8

LEMMA MigInitBooks == MigInit => BooksInv
<1> SUFFICES ASSUME MigInit PROVE BooksInv
  OBVIOUS
<1>1. \A v \in Versions : progress[v] = NoRow /\ v \notin history /\ schema = {}
  BY DEF MigInit
<1>2. ASSUME NEW v \in Versions PROVE RowKept(v) /\ Kept(v)
  <2>1. Size(v) \in Nat /\ 0 \in 0..Size(v)
    BY PlanSeq
  <2>2. Booked(v) = 0 /\ 0 \in Slack(v)
    BY <1>1 DEF Booked, Slack, NoRow
  <2>3. Part(v, 0, schema)
    BY <1>1, <2>1 DEF Part
  <2> QED
    BY <1>1, <2>1, <2>2, <2>3 DEF RowKept, Kept
<1>3. \A p \in Process : call[p].op = "none" /\ call[p].pc = "idle"
  BY DEF MigInit, AtRest
<1>4. \A p \in Process : CallBooks(p)
  BY <1>3 DEF CallBooks, Stating
<1> QED
  BY <1>2, <1>4 DEF BooksInv

\* Of every version the schema holds what the history and the checkpoints
\* say, exactly, or but for the statement a retry begins with, whatever fails
\* and whoever is killed (Migrator.__applyStep, __revertStep, progress.ts),
\* where the locks work and as long as a rollback runs beside no other call
\* and not while a version is half applied.
THEOREM SchemaAccountedForHolds ==
    ASSUME LocksWork, RollbackAlone, WholeVersions
    PROVE  MigSpec => []SchemaAccountedFor
<1> DEFINE I == LockInv /\ VersionInv /\ HistoryInv /\ BooksInv
<1>1. MigInit => I
  BY MigInitInv, MigInitHistory, MigInitBooks
<1>2. I /\ [MigNext]_migVars => I'
  BY LockStep, VersionStep, HistoryStep, BooksStep
<1>3. I => SchemaAccountedFor
  <2> SUFFICES ASSUME I, NEW v \in Versions
               PROVE  LET there == Objects(v) \cap schema IN
                      CASE dialect.ddl -> there = Accounted(v)
                        [] ~dialect.ddl /\ v \notin history ->
                               /\ Accounted(v) \subseteq there
                               /\ there \subseteq Accounted(v) \cup Due(v)
                        [] OTHER ->
                               /\ Accounted(v) \ Due(v) \subseteq there
                               /\ there \subseteq Accounted(v)
    BY DEF SchemaAccountedFor
  <2> QED
    BY BooksTell DEF BooksInv
<1> QED
  BY <1>1, <1>2, <1>3, PTL DEF MigSpec

\* An apply writes the row of a version only when everything the version
\* creates is there, however often it was retried (Migrator.__applyStep), on
\* the same conditions.
THEOREM AppliedInFullHolds ==
    ASSUME LocksWork, RollbackAlone, WholeVersions
    PROVE  MigSpec => []AppliedInFull
<1> DEFINE I == LockInv /\ VersionInv /\ HistoryInv /\ BooksInv
<1>1. MigInit => I
  BY MigInitInv, MigInitHistory, MigInitBooks
<1>2. I /\ [MigNext]_migVars => I'
  BY LockStep, VersionStep, HistoryStep, BooksStep
<1>3. I => AppliedInFull
  <2> SUFFICES ASSUME I, NEW p \in Process, call[p].pc = "clear", call[p].op = "apply"
               PROVE  Objects(call[p].ver) \subseteq schema
    BY DEF AppliedInFull, Applies
  <2> DEFINE v == call[p].ver
  <2>1. v \in Versions
    BY DEF VersionInv, Working, Critical
  <2>2. v \in history
    BY <2>1, PlanSeq DEF HistoryInv, After
  <2>3. progress[v] = Row("apply", Size(v))
    BY DEF BooksInv, CallBooks, Stating
  <2>4. Size(v) # 0 => Through(v)
    BY <2>2, <2>3 DEF Through, Row
  <2>5. Booked(v) = Size(v)
    BY <2>2, <2>3 DEF Booked, Row, NoRow
  <2>6. PICK k \in 0..Size(v) : k \in Slack(v) /\ Part(v, k, schema)
    BY <2>1 DEF BooksInv, Kept
  <2>7. Size(v) \in Nat /\ (Size(v) # 0 => k = Size(v))
    BY <2>1, <2>4, <2>5, <2>6, PlanSeq DEF Slack
  <2>8. \A i \in 1..Size(v) : Plan[v][i] \in schema
    BY <2>6, <2>7 DEF Part
  <2> QED
    BY <2>1, <2>8, PlanSeq
<1> QED
  BY <1>1, <1>2, <1>3, PTL DEF MigSpec

-----------------------------------------------------------------------------
(* Types.                                                                  *)

Bounds ==
    /\ dialect \in Dialects /\ age \in [Host -> 0..dialect.staleMs + 1]
    /\ advisory \in Process \cup {NoProcess} /\ schema \subseteq Object
    /\ \A p \in Process : call[p].ver <= fsVersion + 1

\* A call that ends leaves nothing of itself.
LEMMA EndsAtRest ==
    ASSUME MigTypes, NEW p \in Process, Step(p) \/ Crash(p), Ends(p),
           call[p].op # "none"
    PROVE  call'[p].ver = 0
<1>1. call' = [call EXCEPT ![p] = AtRest] \/ call'[p].op = call[p].op
  BY DEF Step, Crash, Goto, MigTypes, CallRecord, Probe, Create, ReadBack, Judge, Reclaim,
         WithAdvisoryLock, AdvisoryTimeout, MakePlan, RollbackPlan, Refuse, Begin, TxStatement, Transaction,
         ReadProgress, PlanChanged, Ddl, WriteProgress, TouchLock, Record, ClearProgress,
         Fail, NextVersion, Unlock, Release
<1> QED
  BY <1>1 DEF Ends, MigTypes, AtRest

LEMMA BoundsStep ==
    ASSUME LockInv, VersionInv, HistoryInv, BooksInv, Bounds, [MigNext]_migVars
    PROVE  Bounds'
<1>0. MigTypes /\ fsVersion \in Nat /\ Versions = 1..fsVersion /\ DbHead \in 0..fsVersion
  BY PlanSeq, HeadIsVersion DEF LockInv
<1>1. ASSUME NEW p \in Process, Step(p) \/ Crash(p) PROVE Bounds'
  <2>1. UNCHANGED dialect /\ home[p] \in Host
    BY <1>0, <1>1
       DEF MigTypes, Step, Crash, fixed, Probe, Create, ReadBack, Judge, Reclaim,
           WithAdvisoryLock, AdvisoryTimeout, MakePlan, RollbackPlan, Refuse, Begin, TxStatement, Transaction,
           ReadProgress, PlanChanged, Ddl, WriteProgress, TouchLock, Record, ClearProgress,
           Fail, NextVersion, Unlock, Release
  <2>2. age' \in [Host -> 0..dialect.staleMs + 1]
    <3> DEFINE s == dialect.staleMs
               g == home[p]
    <3>0. age \in [Host -> 0..s + 1] /\ s \in Nat /\ g \in Host
      BY <1>0, <2>1 DEF Bounds, MigTypes
    <3>1. CASE UNCHANGED age
      BY <3>0, <3>1
    <3>7. ASSUME NEW m \in 0..s + 1, age' = [age EXCEPT ![g] = m]
          PROVE  age' \in [Host -> 0..s + 1]
      <4> HIDE DEF s, g
      <4> QED
        BY <3>0, <3>7
    <3>2. CASE age' = [age EXCEPT ![home[p]] = 0]
      <4>1. 0 \in 0..s + 1
        <5> HIDE DEF s
        <5> QED
          BY <3>0
      <4> QED
        BY <3>2, <3>7, <4>1
    <3>3. CASE Older(home[p])
      <4>1. age' = [age EXCEPT ![g] = IF age[g] > s THEN @ ELSE @ + 1]
        BY <3>3 DEF Older, Stale
      <4> HIDE DEF s, g
      <4>3. age' \in [Host -> 0..s + 1]
        BY <3>0, <4>1, OlderAge
      <4> QED
        BY <4>3 DEF s
    <3>4. CASE TxStatement(p) \/ Ddl(p)
      BY <3>3, <3>4 DEF TxStatement, Ddl
    <3>5. CASE Create(p) \/ TouchLock(p) \/ NextVersion(p)
      BY <3>1, <3>2, <3>5 DEF Create, TouchLock, NextVersion, Stamped
    <3>6. CASE ~(TxStatement(p) \/ Ddl(p) \/ Create(p) \/ TouchLock(p) \/ NextVersion(p))
      BY <1>1, <3>1, <3>6
         DEF Step, Crash, fileVars, Probe, ReadBack, Judge, Reclaim, WithAdvisoryLock,
             AdvisoryTimeout, MakePlan, RollbackPlan, Refuse, Begin, Transaction, ReadProgress,
             PlanChanged, WriteProgress, Record, ClearProgress, Fail, Unlock, Release
    <3> QED
      BY <3>4, <3>5, <3>6
  <2>3. advisory' \in Process \cup {NoProcess}
    <3>1. advisory' \in {advisory, p, NoProcess}
      BY <1>1
         DEF Step, Crash, Probe, Create, ReadBack, Judge, Reclaim,
             WithAdvisoryLock, AdvisoryTimeout, MakePlan, RollbackPlan, Refuse, Begin, TxStatement, Transaction,
             ReadProgress, PlanChanged, Ddl, WriteProgress, TouchLock, Record, ClearProgress,
             Fail, NextVersion, Unlock, Release
    <3> QED
      BY SMTT(30), <3>1 DEF Bounds
  <2>4. schema' \subseteq Object
    <3>1. CASE UNCHANGED schema
      BY <3>1 DEF Bounds
    <3>2. CASE Transaction(p)
      <4>1. call[p].ver \in Versions
        BY <3>2 DEF Transaction, VersionInv, Working, Critical
      <4>2. ToSet(Actions(p)) \subseteq Object
        BY <4>1, ActionsOf, PlanSeq
      <4> QED
        BY <3>2, <4>2 DEF Transaction, Bounds
    <3>3. CASE Ddl(p)
      <4>1. call[p].pc = "ddl" /\ CallBooks(p)
        BY <3>3 DEF Ddl, BooksInv
      <4>2. /\ call[p].ver \in Versions /\ call[p].done \in Nat /\ Size(call[p].ver) \in Nat
            /\ call[p].done < Size(call[p].ver)
        BY <4>1, BookedAt, PlanSeq DEF Stating, CallBooks
      <4>3. Actions(p)[call[p].done + 1] \in Object
        <5> DEFINE i == IF call[p].op = "apply" THEN call[p].done + 1
                        ELSE Size(call[p].ver) - call[p].done
        <5>1. i \in 1..Size(call[p].ver)
          BY <4>2
        <5>2. Actions(p)[call[p].done + 1] = Plan[call[p].ver][i]
          BY <4>2, ActionsOf
        <5> HIDE DEF i
        <5> QED
          BY <4>2, <5>1, <5>2, PlanSeq
      <4>4. schema' \subseteq schema \cup {Actions(p)[call[p].done + 1]}
        BY <3>3 DEF Ddl, Without
      <4> QED
        BY <4>3, <4>4 DEF Bounds
    <3> QED
      BY <1>1, <3>1, <3>2, <3>3
         DEF Step, Crash, dbVars, Probe, Create, ReadBack, Judge, Reclaim,
             WithAdvisoryLock, AdvisoryTimeout, MakePlan, RollbackPlan, Refuse,
             Begin, TxStatement, ReadProgress, PlanChanged, WriteProgress, TouchLock, Record, ClearProgress,
             Fail, NextVersion, Unlock, Release
  <2>5. call'[p].ver <= fsVersion + 1
    <3>1. /\ call[p].ver \in Nat /\ call[p].ver <= fsVersion + 1
          /\ call[p].to \in 0..fsVersion
      BY <1>0 DEF MigTypes, CallRecord, Bounds
    <3>2. CASE Ends(p)
      BY <1>0, <1>1, <3>1, <3>2, EndsAtRest, CallStep DEF VersionInv
    <3> QED
      BY <1>0, <1>1, <3>1, <3>2, CallStep DEF Keeps, Plans, Records, Continues
  <2> QED
    BY <1>0, <1>1, <2>1, <2>2, <2>3, <2>4, <2>5, CallStep DEF Bounds
<1>2. ASSUME NEW p \in Process, NEW to \in 0..fsVersion, Apply(p) \/ Rollback(p, to)
      PROVE  Bounds'
  <2>1. /\ UNCHANGED <<dialect, age, advisory, schema>> /\ call'[p].ver <= fsVersion + 1
        /\ \A q \in Process \ {p} : call'[q] = call[q]
    <3>1. CASE Apply(p)
      BY <1>0, <3>1 DEF Apply, fixed, fileVars, dbVars, AtRest, MigTypes
    <3>2. CASE Rollback(p, to)
      <4>1. DbHead <= fsVersion + 1
        BY <1>0
      <4> QED
        BY <1>0, <3>2, <4>1 DEF Rollback, fixed, fileVars, dbVars, MigTypes
    <3> QED
      BY <1>2, <3>1, <3>2
  <2> QED
    BY <2>1 DEF Bounds
<1>3. ASSUME NEW h \in Host, Expire(h) PROVE Bounds'
  <2>1. /\ UNCHANGED <<dialect, advisory, schema, call>>
        /\ age' = [age EXCEPT ![h] = dialect.staleMs + 1]
    BY <1>3 DEF Expire, fixed, dbVars
  <2>2. dialect.staleMs + 1 \in 0..dialect.staleMs + 1
    BY <1>0 DEF MigTypes
  <2> QED
    BY <2>1, <2>2 DEF Bounds
<1>4. CASE UNCHANGED migVars
  BY <1>4 DEF migVars, fixed, fileVars, dbVars, Bounds
<1>5. 0 \in 0..fsVersion
  BY <1>0
<1> QED
  BY <1>1, <1>2, <1>3, <1>4, <1>5 DEF MigNext

\* Every variable keeps its type; in particular a progress row never counts
\* more statements than its version has, and a call never asks for one past
\* the end of its plan (Migrator.__applyStep, __revertStep), under the
\* conditions of the theorem before.
THEOREM MigTypeOKHolds ==
    ASSUME LocksWork, RollbackAlone, WholeVersions
    PROVE  MigSpec => []MigTypeOK
<1> DEFINE I == LockInv /\ VersionInv /\ HistoryInv /\ BooksInv /\ Bounds
<1>1. MigInit => I
  <2> SUFFICES ASSUME MigInit PROVE Bounds
    BY MigInitInv, MigInitHistory, MigInitBooks
  <2> QED
    BY PlanSeq, MigrationsAssumption DEF MigInit, Bounds, AtRest
<1>2. I /\ [MigNext]_migVars => I'
  BY LockStep, VersionStep, HistoryStep, BooksStep, BoundsStep
<1>3. I => MigTypeOK
  <2> SUFFICES ASSUME I PROVE MigTypeOK
    OBVIOUS
  <2>1. MigTypes /\ fsVersion \in Nat
    BY PlanSeq DEF LockInv
  <2>2. ASSUME NEW v \in Versions PROVE progress[v].completed <= Len(Plan[v])
    BY PlanSeq DEF BooksInv, RowKept, NoRow, Size
  <2>3. ASSUME NEW p \in Process
        PROVE  /\ call[p].pc \in Labels /\ call[p].op \in {"none", "apply", "rollback"}
               /\ call[p].to \in 0..fsVersion /\ call[p].ver \in 0..fsVersion + 1
               /\ call[p].pc \in {"ddl", "checkpoint"} => call[p].done < Len(Actions(p))
               /\ call[p].pc = "tx" => call[p].done <= Len(Actions(p))
    <3>1. call[p] \in CallRecord /\ call[p].ver <= fsVersion + 1
      BY <2>1 DEF MigTypes, Bounds
    <3>2. ASSUME call[p].pc \in {"ddl", "checkpoint", "tx"}
          PROVE  /\ call[p].pc # "tx" => call[p].done < Len(Actions(p))
                 /\ call[p].done <= Len(Actions(p))
      <4>1. call[p].ver \in Versions
        BY <3>2 DEF VersionInv, Working, Critical
      <4> QED
        BY <2>1, <3>2, <4>1, ActionsOf, PlanSeq DEF BooksInv, CallBooks, MigTypes, CallRecord
    <3> QED
      BY <2>1, <3>1, <3>2 DEF CallRecord
  <2> QED
    BY <2>1, <2>2, <2>3 DEF MigTypeOK, MigTypes, Bounds, VersionInv, Labels
<1> QED
  BY <1>1, <1>2, <1>3, PTL DEF MigSpec
=============================================================================
