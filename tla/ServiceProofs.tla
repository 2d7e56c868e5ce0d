---------------------------- MODULE ServiceProofs ----------------------------
(* Proofs about the four components of MCServices: the scheduler, the      *)
(* connection of an rpc client, the span processor and the log handler,    *)
(* each by itself and for every value of its constants.                    *)
EXTENDS RPCConnection, SpanBatches, LogBatches, Cronus, FiniteSetTheorems,
        SequenceTheorems, TLAPS

-----------------------------------------------------------------------------
(* The scheduler.                                                          *)

\* The first name of CronusInit belongs to the type, in case there is none.
CronusTypes ==
    /\ jobs \in [Name -> Job \cup {NoJob}]
    /\ kept = jobs
    /\ name \in [Job -> Name \cup {CHOOSE n \in Name : TRUE}]
    /\ once \in [Job -> BOOLEAN] /\ enabled \in [Job -> BOOLEAN]
    /\ running \in [Job -> BOOLEAN]
    /\ flights \in [Job -> Nat] /\ runs \in [Job -> Nat]
    /\ todo \subseteq Job

\* A registered job knows its own name; the running flag counts the runs
\* under way; a one-shot job in the registry has not run, or runs now.
JobsInv ==
    /\ CronusTypes
    /\ \A n \in Name : jobs[n] # NoJob => name[jobs[n]] = n
    /\ \A j \in Job :
          /\ flights[j] = IF running[j] THEN 1 ELSE 0
          /\ runs[j] <= IF once[j] THEN 1 ELSE 0
    /\ \A n \in Name : jobs[n] # NoJob =>
          running[jobs[n]] \/ runs[jobs[n]] = 0

TickerInv ==
    /\ active \in BOOLEAN /\ timers \in Nat
    /\ ticking \in {"none", "current", "stale"}
    /\ OneTicker

\* Start, stop, the timer and the end of a tick keep one chain going.
LEMMA TickerStep == TickerInv /\ [CronusNext]_cronusVars => TickerInv'
<1> SUFFICES ASSUME TickerInv, [CronusNext]_cronusVars PROVE TickerInv'
  OBVIOUS
<1> USE DEF TickerInv, OneTicker
<1>1. CASE UNCHANGED <<active, timers, ticking>>
  BY <1>1
<1>2. CASE Start
  BY <1>2 DEF Start
<1>3. CASE Stop
  <2>1. ~active' /\ active' \in BOOLEAN
    BY <1>3, Zenon DEF Stop
  <2>2. timers' = 0 /\ ticking' \in {"none", "stale"}
    BY <1>3 DEF Stop
  <2> QED
    BY <2>1, <2>2
<1>4. CASE Tick
  BY <1>4 DEF Tick
<1>5. CASE Rearm
  BY <1>5 DEF Rearm
<1> QED
  BY <1>1, <1>2, <1>3, <1>4, <1>5
     DEF CronusNext, cronusVars, Add, Remove, Trigger, SetEnabled, Visit, Finish

\* One chain of ticks, whatever stops and starts the scheduler inside one
\* (Cronus.start, stop, _tick and __scheduleTick).
THEOREM OneTickerHolds == CronusSpec => []OneTicker
<1>1. CronusInit => TickerInv
  <2>1. CronusInit => ~active /\ active \in BOOLEAN
    BY Zenon DEF CronusInit
  <2> QED
    BY <2>1 DEF CronusInit, TickerInv, OneTicker
<1>2. TickerInv => OneTicker
  BY DEF TickerInv
<1> QED
  BY <1>1, <1>2, TickerStep, PTL DEF CronusSpec

\* What __run does to the flags of a job that is registered and not running.
LEMMA RunStep ==
    ASSUME JobsInv, NEW n \in Name, jobs[n] # NoJob, ~running[jobs[n]],
           Run(jobs[n]), UNCHANGED <<jobs, name, once, enabled, kept>>,
           todo' \subseteq Job
    PROVE  JobsInv'
<1> DEFINE j == jobs[n]
<1>1. j \in Job /\ name[j] = n /\ flights[j] = 0 /\ runs[j] = 0
  BY CronusAssumption DEF JobsInv, CronusTypes
<1>2. /\ running' \in [Job -> BOOLEAN] /\ flights' \in [Job -> Nat]
      /\ runs' \in [Job -> Nat]
      /\ running'[j] = TRUE /\ flights'[j] = 1
      /\ runs'[j] <= IF once[j] THEN 1 ELSE 0
      /\ \A k \in Job \ {j} : /\ running'[k] = running[k]
                              /\ flights'[k] = flights[k] /\ runs'[k] = runs[k]
  BY <1>1 DEF Run, JobsInv, CronusTypes
<1> HIDE DEF j
<1> QED
  BY <1>1, <1>2, CronusAssumption DEF JobsInv, CronusTypes

LEMMA JobsStep == JobsInv /\ [CronusNext]_cronusVars => JobsInv'
<1> SUFFICES ASSUME JobsInv, [CronusNext]_cronusVars PROVE JobsInv'
  OBVIOUS
<1>1. ASSUME NEW n \in Name, NEW j \in Job, NEW o \in BOOLEAN, NEW e \in BOOLEAN,
             Add(n, j, o, e)
      PROVE  JobsInv'
  <2>1. \A m \in Name : jobs[m] # j
    BY <1>1, CronusAssumption DEF Add, Registered
  <2>2. CronusTypes'
    BY <1>1 DEF Add, JobsInv, CronusTypes
  <2>3. /\ name'[j] = n /\ running'[j] = FALSE /\ runs'[j] = 0 /\ flights'[j] = 0
        /\ \A k \in Job \ {j} : /\ name'[k] = name[k] /\ running'[k] = running[k]
                                /\ once'[k] = once[k]
                                /\ flights'[k] = flights[k] /\ runs'[k] = runs[k]
    BY <1>1 DEF Add, JobsInv, CronusTypes
  <2>4. \A k \in Job : /\ flights'[k] = IF running'[k] THEN 1 ELSE 0
                      /\ runs'[k] <= IF once'[k] THEN 1 ELSE 0
    BY <2>3 DEF JobsInv, CronusTypes
  <2>5. jobs'[n] = j /\ \A m \in Name \ {n} : jobs'[m] = jobs[m]
    BY <1>1 DEF Add, JobsInv, CronusTypes
  <2> QED
    BY <2>1, <2>2, <2>3, <2>4, <2>5, CronusAssumption DEF JobsInv, CronusTypes
<1>2. ASSUME NEW n \in Name, Remove(n) PROVE JobsInv'
  BY <1>2, CronusAssumption DEF Remove, JobsInv, CronusTypes
<1>3. ASSUME NEW n \in Name, Trigger(n) PROVE JobsInv'
  BY <1>3, RunStep DEF Trigger, JobsInv, CronusTypes
<1>4. ASSUME NEW n \in Name, NEW e \in BOOLEAN, SetEnabled(n, e) PROVE JobsInv'
  BY <1>4, CronusAssumption DEF SetEnabled, JobsInv, CronusTypes
<1>5. ASSUME NEW j \in Job, Visit(j) PROVE JobsInv'
  <2>1. CASE UNCHANGED <<running, flights, runs>>
    BY <1>5, <2>1 DEF Visit, JobsInv, CronusTypes
  <2>2. CASE j \in Registered /\ ~running[j] /\ Run(j)
    <3>1. PICK n \in Name : jobs[n] = j /\ j # NoJob
      BY <2>2 DEF Registered
    <3> QED
      BY <1>5, <2>2, <3>1, RunStep DEF Visit, JobsInv, CronusTypes
  <2> QED
    BY <1>5, <2>1, <2>2 DEF Visit
<1>6. ASSUME NEW j \in Job, Finish(j) PROVE JobsInv'
  <2>1. /\ running[j] /\ flights[j] = 1
        /\ running'[j] = FALSE /\ flights'[j] = 0
        /\ \A k \in Job \ {j} : running'[k] = running[k] /\ flights'[k] = flights[k]
        /\ running' \in [Job -> BOOLEAN] /\ flights' \in [Job -> Nat]
        /\ UNCHANGED <<name, once, enabled, runs, todo>>
    BY <1>6 DEF Finish, JobsInv, CronusTypes
  <2>2. jobs' \in [Name -> Job \cup {NoJob}]
    BY <1>6 DEF Finish, JobsInv, CronusTypes
  <2>3. \A m \in Name : jobs'[m] = IF once[j] /\ jobs[m] = j THEN NoJob ELSE jobs[m]
    BY <1>6, CronusAssumption DEF Finish, JobsInv, CronusTypes
  <2>4. kept' = [m \in Name |-> IF once[j] /\ jobs[m] = j THEN NoJob ELSE jobs[m]]
    BY <1>6 DEF Finish, JobsInv, CronusTypes
  <2>5. kept' = jobs'
    BY <2>2, <2>3, <2>4
  <2>6. ~once[j] => runs[j] = 0
    BY DEF JobsInv, CronusTypes
  <2> QED
    BY <2>1, <2>2, <2>3, <2>5, <2>6, CronusAssumption DEF JobsInv, CronusTypes
<1>7. CASE UNCHANGED jobVars /\ todo' \subseteq Job
  BY <1>7 DEF jobVars, JobsInv, CronusTypes
<1> QED
  BY <1>1, <1>2, <1>3, <1>4, <1>5, <1>6, <1>7, CronusAssumption
     DEF CronusNext, cronusVars, Start, Stop, Tick, Rearm, Registered, JobsInv, CronusTypes

\* A job never runs beside itself, a one-shot job never runs twice and a name
\* keeps its job, whatever late runs finish (Cronus.add, remove, trigger,
\* _tick and __run).
THEOREM JobsKeptHolds == CronusSpec => []JobsKept
<1>1. CronusInit => JobsInv
  BY CronusAssumption DEF CronusInit, JobsInv, CronusTypes
<1>2. JobsInv => JobsKept
  BY DEF JobsInv, CronusTypes, JobsKept
<1> QED
  BY <1>1, <1>2, JobsStep, PTL DEF CronusSpec

-----------------------------------------------------------------------------
(* The connection of an rpc client.                                        *)

ConnTypes ==
    /\ state \in {"DISCONNECTED", "CONNECTING", "CONNECTED", "CLOSING"}
    /\ sock \in [Socket -> {"unused", "connecting", "open", "closing", "aborting"}]
    /\ opener \in [Socket -> {"connect", "superseding", "chain"}]
    /\ closeRequested \in BOOLEAN
    /\ parked \in Nat /\ woken \in Nat

\* The client's state and socket say what the only socket does; a backoff is
\* parked only while there is none, and one that was woken will see that it
\* is not wanted: it was close() or a new _openSocket that woke it.
ConnInv ==
    /\ ConnTypes
    /\ \A s \in Socket :
          /\ sock[s] # "unused" => ws = s
          /\ sock[s] = "connecting" => state = "CONNECTING"
          /\ sock[s] = "open" => state = "CONNECTED"
          /\ sock[s] \in {"closing", "aborting"} => state = "CLOSING"
    /\ state # "DISCONNECTED" =>
          ws \in Socket /\ sock[ws] # "unused" /\ parked = 0
    /\ state \in {"CONNECTING", "CONNECTED"} => ~closeRequested
    /\ state = "CLOSING" => closeRequested
    /\ parked <= 1 /\ woken <= 1 /\ (parked = 0 \/ woken = 0)
    /\ woken > 0 => closeRequested \/ state = "CONNECTING"

LEMMA ScheduleStep ==
    ASSUME NEW owes, parked = 0, ScheduleReconnect(owes) \/ NoReconnect
    PROVE  parked' \in Nat /\ parked' <= 1
BY DEF ScheduleReconnect, NoReconnect

LEMMA ConnStep ==
    ASSUME AwaitsClose, ConnInv, [ConnNext]_connVars
    PROVE  ConnInv'
<1>1. CASE Connect
  <2>1. \A s \in Socket : sock[s] = "unused"
    BY <1>1 DEF Connect, Closing, ConnInv, ConnTypes
  <2>2. PICK s \in Socket : /\ sock' = [sock EXCEPT ![s] = "connecting"]
                            /\ ws' = s /\ state' = "CONNECTING"
    BY <1>1 DEF Connect, OpenSocket
  <2>3. parked' = 0 /\ woken' \in Nat /\ woken' <= 1
    BY <1>1 DEF Connect, ClearReconnectTimer, ConnInv, ConnTypes
  <2>4. ~closeRequested' /\ closeRequested' \in BOOLEAN
    BY <1>1, Zenon DEF Connect
  <2>5. opener' \in [Socket -> {"connect", "superseding", "chain"}]
    BY <1>1 DEF Connect, OpenSocket, ConnInv, ConnTypes
  <2>6. ConnTypes'
    BY <2>2, <2>3, <2>4, <2>5 DEF ConnInv, ConnTypes
  <2>7. \A x \in Socket : sock'[x] = IF x = s THEN "connecting" ELSE "unused"
    BY <2>1, <2>2 DEF ConnInv, ConnTypes
  <2>8. \A x \in Socket :
          /\ sock'[x] # "unused" => ws' = x
          /\ sock'[x] = "connecting" => state' = "CONNECTING"
          /\ sock'[x] = "open" => state' = "CONNECTED"
          /\ sock'[x] \in {"closing", "aborting"} => state' = "CLOSING"
    BY <2>2, <2>7
  <2> QED
    BY <2>2, <2>3, <2>4, <2>6, <2>7, <2>8 DEF ConnInv
<1>2. CASE Close
  <2>1. closeRequested' /\ closeRequested' \in BOOLEAN
    BY <1>2, Zenon DEF Close
  <2>2. parked' = 0 /\ woken' \in Nat /\ woken' <= 1
    BY <1>2 DEF Close, ClearReconnectTimer, ConnInv, ConnTypes
  <2>3. CASE state = "DISCONNECTED"
    BY <1>2, <2>1, <2>2, <2>3 DEF Close, ConnInv, ConnTypes
  <2>4. CASE state # "DISCONNECTED"
    <3>1. ws \in Socket /\ sock[ws] \in {"connecting", "open"}
      BY <1>2, <2>4 DEF Close, ConnInv, ConnTypes
    <3>2. /\ state' = "CLOSING" /\ ws' = ws /\ opener' = opener
          /\ sock' = [sock EXCEPT ![ws] = IF @ = "open" THEN "closing" ELSE "aborting"]
      BY <1>2, <2>4 DEF Close
    <3> QED
      BY <2>1, <2>2, <3>1, <3>2 DEF ConnInv, ConnTypes
  <2> QED
    BY <2>3, <2>4
<1>3. ASSUME NEW s \in Socket, Opened(s) PROVE ConnInv'
  BY <1>3 DEF Opened, ConnInv, ConnTypes
<1>4. ASSUME NEW s \in Socket,
             \/ OpenFailed(s) \/ Aborted(s)
             \/ HandleClose(s)
      PROVE  ConnInv'
  <2>1. /\ sock[s] # "unused" /\ parked = 0 /\ woken = 0
        /\ sock' = [sock EXCEPT ![s] = "unused"] /\ state' = "DISCONNECTED"
        /\ UNCHANGED <<opener, closeRequested, woken>>
    BY <1>4 DEF OpenFailed, Aborted, HandleClose, ConnInv, ConnTypes
  <2>2. parked' \in Nat /\ parked' <= 1
    BY <1>4, <2>1, ScheduleStep DEF OpenFailed, Aborted, HandleClose, Caught
  <2> QED
    BY <2>1, <2>2 DEF ConnInv, ConnTypes
<1>5. ASSUME GoOn, UNCHANGED closeRequested, parked' = 0, woken' = 0
      PROVE  ConnInv'
  <2>1. CASE UNCHANGED <<state, ws, sock, opener>>
    BY <1>5, <2>1 DEF ConnInv, ConnTypes
  <2>2. CASE ~closeRequested /\ state \notin {"CONNECTED", "CONNECTING"} /\ OpenSocket("chain")
    BY <1>5, <2>2 DEF OpenSocket, ConnInv, ConnTypes
  <2> QED
    BY <1>5, <2>1, <2>2 DEF GoOn
<1>6. CASE TimerFires
  BY <1>5, <1>6 DEF TimerFires, ConnInv, ConnTypes
<1>7. CASE Woken
  BY <1>5, <1>7 DEF Woken, ConnInv, ConnTypes
<1>8. CASE UNCHANGED connVars
  BY <1>8 DEF connVars, ConnInv, ConnTypes
<1> QED
  BY <1>1, <1>2, <1>3, <1>4, <1>6, <1>7, <1>8 DEF ConnNext

\* One socket, whatever connects, closes, breaks and backs off, when nobody
\* calls connect() before close() resolved (Client.connect, close,
\* _openSocket, _handleClose and _scheduleReconnect).
THEOREM OneSocketHolds ==
    ASSUME AwaitsClose
    PROVE  ConnSpec => []OneSocket
<1>1. ConnInit => ConnInv
  <2>1. ConnInit => ~closeRequested /\ closeRequested \in BOOLEAN
    BY Zenon DEF ConnInit
  <2> QED
    BY <2>1 DEF ConnInit, ConnInv, ConnTypes
<1>2. ConnInv => OneSocket
  BY DEF ConnInv, ConnTypes, OneSocket
<1>3. ConnInv /\ [ConnNext]_connVars => ConnInv'
  BY ConnStep
<1> QED
  BY <1>1, <1>2, <1>3, PTL DEF ConnSpec

-----------------------------------------------------------------------------
(* The span processor.                                                     *)

\* The queue stays below a batch, so a flush empties it; after shutdown()
\* nothing is left to flush and what is in flight is awaited.
SpanInv ==
    /\ size \in Sizes
    /\ queue \in Seq(Span) /\ Len(queue) < batchSize
    /\ timer \in BOOLEAN /\ shuttingDown \in BOOLEAN /\ exporterDown \in BOOLEAN
    /\ inFlight \in [Flight -> SUBSET Span]
    /\ shuttingDown => queue = <<>> /\ ~timer /\ InFlight \subseteq awaited
    /\ exporterDown => shuttingDown /\ awaited = {}

LEMMA SizesAreNat ==
    ASSUME size \in Sizes
    PROVE  maxQueue \in Nat \ {0} /\ batchSize \in Nat \ {0}
BY SizesAssumption DEF maxQueue, batchSize

\* A flush of at most a batch leaves nothing behind and disarms the timer.
LEMMA FlushStep ==
    ASSUME size \in Sizes, NEW q \in Seq(Span), Len(q) <= batchSize, NEW armed,
           inFlight \in [Flight -> SUBSET Span], Flush(q, armed)
    PROVE  /\ queue' = <<>> /\ timer' = FALSE
           /\ inFlight' \in [Flight -> SUBSET Span]
<1>1. SmallerOf(batchSize, Len(q)) = Len(q)
  BY SizesAreNat DEF SmallerOf
<1>2. queue' = SubSeq(q, Len(q) + 1, Len(q)) /\ timer' = (armed /\ Len(q) < Len(q))
  BY <1>1 DEF Flush
<1>3. queue' = <<>>
  BY <1>2
<1>4. timer' = FALSE
  <2>1. ~(Len(q) < Len(q))
    BY LenProperties
  <2> QED
    BY <1>2, <2>1, Zenon
<1>5. {q[i] : i \in 1..Len(q)} \in SUBSET Span
  OBVIOUS
<1>6. inFlight' \in [Flight -> SUBSET Span]
  BY <1>1, <1>5 DEF Flush
<1> QED
  BY <1>3, <1>4, <1>6

LEMMA BoundedStep ==
    ASSUME size \in Sizes, queue \in Seq(Span), NEW s \in Span
    PROVE  /\ Bounded(Append(queue, s)) \in Seq(Span)
           /\ Len(Bounded(Append(queue, s))) <= Len(queue) + 1
<1>1. Append(queue, s) \in Seq(Span) /\ Len(Append(queue, s)) = Len(queue) + 1
  OBVIOUS
<1>2. maxQueue \in Nat \ {0}
  BY SizesAreNat
<1> DEFINE q == Append(queue, s)
           m == IF Len(q) > maxQueue THEN Len(q) - maxQueue + 1 ELSE 1
<1>3. m \in 1..Len(q)
  BY <1>1, <1>2
<1>4. SubSeq(q, m, Len(q)) \in Seq(Span) /\ Len(SubSeq(q, m, Len(q))) = Len(q) - m + 1
  BY <1>1, <1>3, SubSeqProperties
<1> QED
  BY <1>1, <1>3, <1>4 DEF Bounded

LEMMA SpanStep == SpanInv /\ [SpanNext]_spanVars => SpanInv'
<1> SUFFICES ASSUME SpanInv, [SpanNext]_spanVars PROVE SpanInv'
  OBVIOUS
<1>0. batchSize \in Nat \ {0} /\ Len(queue) \in Nat
  BY SizesAreNat DEF SpanInv
<1>e. ASSUME size' = size, queue' = <<>> PROVE queue' \in Seq(Span) /\ Len(queue)' < batchSize'
  BY <1>0, <1>e DEF batchSize
<1>1. ASSUME NEW s \in Span, Export(s) PROVE SpanInv'
  <2> DEFINE q == Bounded(Append(queue, s))
  <2>1. q \in Seq(Span) /\ Len(q) <= Len(queue) + 1 /\ Len(q) <= batchSize
    BY <1>0, BoundedStep DEF SpanInv
  <2>2. ~shuttingDown /\ UNCHANGED <<size, shuttingDown, awaited, exporterDown>>
    BY <1>1 DEF Export
  <2>3. CASE Flush(q, timer)
    <3>1. /\ queue' = <<>> /\ timer' = FALSE
          /\ inFlight' \in [Flight -> SUBSET Span]
      BY <2>1, <2>3, FlushStep DEF SpanInv
    <3> QED
      BY <1>e, <2>2, <3>1 DEF SpanInv
  <2>4. CASE Len(q) < batchSize /\ queue' = q /\ timer' = TRUE /\ UNCHANGED inFlight
    <3>1. timer' \in BOOLEAN
      BY <2>4, Zenon
    <3>2. queue' \in Seq(Span) /\ Len(queue)' < batchSize'
      BY <2>1, <2>2, <2>4 DEF batchSize
    <3> QED
      BY <2>2, <2>4, <3>1, <3>2 DEF SpanInv
  <2> QED
    BY <1>1, <2>3, <2>4 DEF Export
<1>2. ASSUME TimerCallback \/ ForceFlush PROVE SpanInv'
  <2>1. ~shuttingDown /\ UNCHANGED <<size, shuttingDown, awaited, exporterDown>>
    BY <1>2 DEF TimerCallback, ForceFlush, SpanInv
  <2>2. /\ queue' = <<>> /\ timer' = FALSE
        /\ inFlight' \in [Flight -> SUBSET Span]
    <3>1. queue \in Seq(Span) /\ Len(queue) <= batchSize
      BY <1>0 DEF SpanInv
    <3>2. Flush(queue, FALSE) \/ Flush(queue, timer)
      BY <1>2 DEF TimerCallback, ForceFlush
    <3> QED
      BY <3>1, <3>2, FlushStep, Zenon DEF SpanInv
  <2> QED
    BY <1>e, <2>1, <2>2 DEF SpanInv
<1>3. CASE Shutdown
  <2>1. /\ queue' = <<>> /\ timer' = FALSE
        /\ inFlight' \in [Flight -> SUBSET Span]
    <3>1. queue \in Seq(Span) /\ Len(queue) <= batchSize
      BY <1>0 DEF SpanInv
    <3>2. CASE Flush(queue, FALSE)
      BY <3>1, <3>2, FlushStep, Zenon DEF SpanInv
    <3>3. CASE queue = <<>> /\ timer' = FALSE /\ UNCHANGED <<queue, inFlight>>
      BY <3>3 DEF SpanInv
    <3> QED
      BY <1>3, <3>2, <3>3 DEF Shutdown
  <2>2. shuttingDown' /\ shuttingDown' \in BOOLEAN /\ ~timer' /\ timer' \in BOOLEAN
    BY <1>3, <2>1, Zenon DEF Shutdown
  <2>3. UNCHANGED <<size, exporterDown>>
    BY <1>3 DEF Shutdown
  <2>4. awaited' = InFlight'
    BY <1>3 DEF Shutdown, InFlight
  <2>5. exporterDown => awaited' = {}
    <3>1. exporterDown => queue = <<>> /\ InFlight = {}
      BY DEF SpanInv
    <3>2. queue = <<>> => UNCHANGED inFlight
      BY <1>3 DEF Shutdown
    <3> QED
      BY <2>4, <3>1, <3>2 DEF InFlight
  <2> QED
    BY <1>e, <2>1, <2>2, <2>3, <2>4, <2>5 DEF SpanInv
<1>4. CASE ShutdownExporter
  <2>1. exporterDown' /\ exporterDown' \in BOOLEAN
    BY <1>4, Zenon DEF ShutdownExporter
  <2> QED
    BY <1>4, <2>1 DEF ShutdownExporter, SpanInv, InFlight, batchSize
<1>5. ASSUME NEW f \in Flight, Settle(f) PROVE SpanInv'
  <2>1. /\ inFlight' \in [Flight -> SUBSET Span] /\ inFlight'[f] = {}
        /\ \A g \in Flight \ {f} : inFlight'[g] = inFlight[g]
    BY <1>5 DEF Settle, SpanInv
  <2>2. InFlight' = InFlight \ {f}
    BY <2>1 DEF InFlight
  <2> QED
    BY <1>5, <2>1, <2>2 DEF Settle, SpanInv, batchSize
<1>6. CASE UNCHANGED spanVars
  BY <1>6 DEF spanVars, SpanInv, InFlight, batchSize
<1> QED
  BY <1>1, <1>2, <1>3, <1>4, <1>5, <1>6 DEF SpanNext

\* The wrapped exporter is shut down over an empty queue and with nothing in
\* flight (BatchSpanProcessor.export, forceFlush, __flush and shutdown).
THEOREM ExporterOutlivesExportsHolds == SpanSpec => []ExporterOutlivesExports
<1>1. SpanInit => SpanInv
  <2> SUFFICES ASSUME SpanInit PROVE SpanInv
    OBVIOUS
  <2>1. /\ ~shuttingDown /\ ~exporterDown
        /\ timer \in BOOLEAN /\ shuttingDown \in BOOLEAN /\ exporterDown \in BOOLEAN
    BY Zenon DEF SpanInit
  <2>2. queue \in Seq(Span) /\ Len(queue) < batchSize
    BY SizesAreNat DEF SpanInit
  <2> QED
    BY <2>1, <2>2 DEF SpanInit, SpanInv
<1>2. SpanInv => ExporterOutlivesExports
  BY DEF SpanInv, ExporterOutlivesExports
<1> QED
  BY <1>1, <1>2, SpanStep, PTL DEF SpanSpec

-----------------------------------------------------------------------------
(* The log handler.                                                        *)

Sorted(q) == \A i, j \in 1..Len(q) : i < j => q[i] < q[j]
Below(q, r) == \A i \in 1..Len(q), j \in 1..Len(r) : q[i] < r[j]
Above(q, n) == \A i \in 1..Len(q) : q[i] > n
UpTo(q, n) == \A i \in 1..Len(q) : q[i] <= n

\* What is delivered, under way and buffered was logged in this order.
OrderInv ==
    /\ logged \in Nat /\ dropped \in Nat
    /\ delivered \in Seq(Nat) /\ sending \in Seq(Nat) /\ logs \in Seq(Nat)
    /\ Sorted(delivered) /\ Sorted(sending) /\ Sorted(logs)
    /\ Below(delivered, sending) /\ Below(delivered, logs) /\ Below(sending, logs)
    /\ UpTo(delivered, logged) /\ UpTo(sending, logged) /\ UpTo(logs, logged)
    /\ headersOk => Len(delivered) + Len(sending) + Len(logs) + dropped = logged

\* Each record of r has come, with those of q, or is newer than all of them.
NewOrSeen(r, q) ==
    \A j \in 1..Len(r) : \/ \E k \in 1..Len(q) : q[k] = r[j]
                        \/ \A i \in 1..Len(q) : q[i] < r[j]

\* What the endpoint has received, and what it is still to receive.
TakenInv ==
    /\ taken \in Seq(Nat) /\ UpTo(taken, logged) /\ FirstsInOrder(taken)
    /\ NewOrSeen(sending, taken) /\ NewOrSeen(logs, taken)

\* One finalize() waits at a time.  A request that is sent for it took the
\* whole buffer, so what is in the buffer now was logged after the call.
FinalizeInv ==
    /\ chain \in Seq({"handle", "finalize"})
    /\ finalize \in {"none", "waiting", "resolved", "rejected"}
    /\ before \in Nat /\ before <= logged
    /\ sending # <<>> => chain # <<>>
    /\ \A i \in 1..Len(chain) : chain[i] = "finalize" =>
          finalize = "waiting" /\ \A j \in 1..Len(chain) : chain[j] = "finalize" => j = i
    /\ sending # <<>> /\ chain[1] = "finalize" => Above(logs, before)
    /\ finalize = "resolved" => Above(sending, before) /\ Above(logs, before)

LEMMA ConcatAt ==
    ASSUME NEW q \in Seq(Nat), NEW r \in Seq(Nat)
    PROVE  /\ q \o r \in Seq(Nat) /\ Len(q \o r) = Len(q) + Len(r)
           /\ \A i \in 1..Len(q \o r) :
                 \/ i \in 1..Len(q) /\ (q \o r)[i] = q[i]
                 \/ i - Len(q) \in 1..Len(r) /\ (q \o r)[i] = r[i - Len(q)]
BY ConcatProperties, LenProperties

LEMMA SuffixAt ==
    ASSUME NEW q \in Seq(Nat), NEW n \in 0..Len(q)
    PROVE  LET r == SubSeq(q, n + 1, Len(q)) IN
           /\ r \in Seq(Nat) /\ Len(r) = Len(q) - n
           /\ \A i \in 1..Len(r) : i + n \in 1..Len(q) /\ r[i] = q[i + n]
<1>1. n + 1 \in 1..Len(q) + 1 /\ Len(q) \in Nat /\ n \in Nat
  BY LenProperties
<1>2. SubSeq(q, n + 1, Len(q)) \in Seq(Nat)
  BY <1>1, SubSeqProperties, ElementOfSeq
<1> QED
  BY <1>1, <1>2, SubSeqProperties, ElementOfSeq

LEMMA ConcatOrder ==
    ASSUME NEW q \in Seq(Nat), NEW r \in Seq(Nat)
    PROVE  /\ Sorted(q) /\ Sorted(r) /\ Below(q, r) => Sorted(q \o r)
           /\ \A s \in Seq(Nat) : Below(q, s) /\ Below(r, s) => Below(q \o r, s)
           /\ \A s \in Seq(Nat) : Below(s, q) /\ Below(s, r) => Below(s, q \o r)
           /\ \A n \in Nat : UpTo(q, n) /\ UpTo(r, n) => UpTo(q \o r, n)
           /\ \A n \in Nat : Above(q, n) /\ Above(r, n) => Above(q \o r, n)
<1> DEFINE c == q \o r
<1>1. /\ c \in Seq(Nat) /\ Len(c) = Len(q) + Len(r) /\ Len(q) \in Nat /\ Len(r) \in Nat
      /\ \A i \in 1..Len(c) : \/ i \in 1..Len(q) /\ c[i] = q[i]
                              \/ i - Len(q) \in 1..Len(r) /\ c[i] = r[i - Len(q)]
  BY ConcatAt, LenProperties
<1> HIDE DEF c
<1>2. ASSUME Sorted(q), Sorted(r), Below(q, r) PROVE Sorted(c)
  <2> SUFFICES ASSUME NEW i \in 1..Len(c), NEW j \in 1..Len(c), i < j PROVE c[i] < c[j]
    BY DEF Sorted
  <2>1. CASE i \in 1..Len(q) /\ c[i] = q[i] /\ j \in 1..Len(q) /\ c[j] = q[j]
    BY <1>2, <2>1 DEF Sorted
  <2>2. CASE /\ i \in 1..Len(q) /\ c[i] = q[i]
             /\ j - Len(q) \in 1..Len(r) /\ c[j] = r[j - Len(q)]
    BY <1>2, <2>2 DEF Below
  <2>3. CASE /\ i - Len(q) \in 1..Len(r) /\ c[i] = r[i - Len(q)]
             /\ j - Len(q) \in 1..Len(r) /\ c[j] = r[j - Len(q)]
    <3>1. i - Len(q) < j - Len(q)
      BY <1>1
    <3> QED
      BY <1>2, <2>3, <3>1 DEF Sorted
  <2>4. ~(i - Len(q) \in 1..Len(r) /\ j \in 1..Len(q))
    BY <1>1
  <2> QED
    BY <1>1, <2>1, <2>2, <2>3, <2>4, Zenon
<1>3. ASSUME NEW s \in Seq(Nat)
      PROVE  /\ Below(q, s) /\ Below(r, s) => Below(c, s)
             /\ Below(s, q) /\ Below(s, r) => Below(s, c)
  BY <1>1, Zenon DEF Below
<1>4. ASSUME NEW n \in Nat
      PROVE  /\ UpTo(q, n) /\ UpTo(r, n) => UpTo(c, n)
             /\ Above(q, n) /\ Above(r, n) => Above(c, n)
  BY <1>1, Zenon DEF UpTo, Above
<1> QED
  BY <1>2, <1>3, <1>4 DEF c

LEMMA SuffixOrder ==
    ASSUME NEW q \in Seq(Nat), NEW n \in 0..Len(q)
    PROVE  LET r == SubSeq(q, n + 1, Len(q)) IN
           /\ Sorted(q) => Sorted(r)
           /\ \A s \in Seq(Nat) : Below(s, q) => Below(s, r)
           /\ \A k \in Nat : UpTo(q, k) => UpTo(r, k)
           /\ \A k \in Nat : Above(q, k) => Above(r, k)
<1> DEFINE r == SubSeq(q, n + 1, Len(q))
<1>1. /\ r \in Seq(Nat) /\ Len(r) = Len(q) - n
      /\ \A i \in 1..Len(r) : i + n \in 1..Len(q) /\ r[i] = q[i + n]
  BY SuffixAt
<1> HIDE DEF r
<1>2. ASSUME Sorted(q) PROVE Sorted(r)
  <2> SUFFICES ASSUME NEW i \in 1..Len(r), NEW j \in 1..Len(r), i < j PROVE r[i] < r[j]
    BY DEF Sorted
  <2>1. /\ i + n \in 1..Len(q) /\ r[i] = q[i + n]
        /\ j + n \in 1..Len(q) /\ r[j] = q[j + n] /\ i + n < j + n
    BY <1>1
  <2> QED
    BY <1>2, <2>1 DEF Sorted
<1>3. /\ \A s \in Seq(Nat) : Below(s, q) => Below(s, r)
      /\ \A k \in Nat : UpTo(q, k) => UpTo(r, k)
      /\ \A k \in Nat : Above(q, k) => Above(r, k)
  BY <1>1, Zenon DEF Below, UpTo, Above
<1> QED
  BY <1>2, <1>3 DEF r

\* __enforceBufferCap keeps a suffix and counts the rest.
LEMMA CapStep ==
    ASSUME NEW q \in Seq(Nat), dropped \in Nat, EnforceBufferCap(q)
    PROVE  \E n \in 0..Len(q) : /\ logs' = SubSeq(q, n + 1, Len(q))
                                /\ dropped' = dropped + n
<1> DEFINE n == IF Len(q) > MaxBuffer THEN Len(q) - MaxBuffer ELSE 0
<1>1. n \in 0..Len(q)
  BY BufferAssumption, LenProperties
<1>2. logs' = SubSeq(q, n + 1, Len(q)) /\ dropped' = dropped + n
  BY DEF EnforceBufferCap
<1> QED
  BY <1>1, <1>2

LEMMA SortedIncreasing == ASSUME NEW q \in Seq(Nat), Sorted(q) PROVE Increasing(q)
BY LenProperties DEF Sorted, Increasing

LEMMA UpToMore ==
    ASSUME NEW q \in Seq(Nat), NEW m \in Nat, NEW n \in Nat, m <= n, UpTo(q, m)
    PROVE  UpTo(q, n)
<1> SUFFICES ASSUME NEW i \in 1..Len(q) PROVE q[i] <= n
  BY DEF UpTo
<1>1. q[i] \in Nat /\ q[i] <= m
  BY ElementOfSeq DEF UpTo
<1> QED
  BY <1>1

\* Dropping n records moves n from one count to the other.
LEMMA CountsMove ==
    ASSUME NEW a \in Nat, NEW b \in Nat, NEW c \in Nat, NEW d \in Nat, NEW n \in 0..c
    PROVE  d + n \in Nat /\ a + b + (c - n) + (d + n) = a + b + c + d
OBVIOUS

\* The buffer after the cap, when q is what it was or what was put back in
\* front of it.
LEMMA CapKeepsOrder ==
    ASSUME NEW q \in Seq(Nat), EnforceBufferCap(q), UNCHANGED delivered,
           OrderInv, logged' \in Nat, logged' >= logged, sending' = <<>> \/ sending' = sending,
           Sorted(q), Below(delivered, q), Below(sending', q), UpTo(q, logged'),
           headersOk => Len(delivered) + Len(sending') + Len(q) + dropped = logged',
           UNCHANGED headersOk
    PROVE  /\ OrderInv'
           /\ \A n \in Nat : Above(q, n) => Above(logs', n)
<1>1. PICK n \in 0..Len(q) : logs' = SubSeq(q, n + 1, Len(q)) /\ dropped' = dropped + n
  BY CapStep DEF OrderInv
<1>2. logs' \in Seq(Nat) /\ Len(logs') = Len(q) - n
  BY <1>1, SuffixAt
<1>3. sending' \in Seq(Nat) /\ Sorted(sending') /\ Below(delivered, sending') /\ UpTo(sending', logged)
  <2>1. CASE sending' = <<>>
    BY <2>1 DEF Sorted, Below, UpTo
  <2>2. CASE sending' = sending
    BY <2>2 DEF OrderInv
  <2> QED
    BY <2>1, <2>2
<1>4. Sorted(logs') /\ Below(delivered, logs') /\ Below(sending', logs') /\ UpTo(logs', logged')
  BY <1>1, <1>3, SuffixOrder DEF OrderInv
<1>5. \A k \in Nat : Above(q, k) => Above(logs', k)
  BY <1>1, SuffixOrder
<1>6. UpTo(delivered, logged') /\ UpTo(sending', logged')
  <2>1. logged \in Nat /\ delivered \in Seq(Nat) /\ UpTo(delivered, logged)
    BY DEF OrderInv
  <2> QED
    BY <1>3, <2>1, UpToMore
<1>7. Len(delivered) \in Nat /\ Len(sending') \in Nat /\ Len(q) \in Nat /\ dropped \in Nat
  BY <1>3, LenProperties DEF OrderInv
<1>8. /\ dropped' \in Nat
      /\ headersOk => Len(delivered) + Len(sending') + Len(logs') + dropped' = logged'
  <2>1. /\ dropped + n \in Nat
        /\ Len(delivered) + Len(sending') + (Len(q) - n) + (dropped + n)
             = Len(delivered) + Len(sending') + Len(q) + dropped
    BY <1>7, CountsMove
  <2> QED
    BY <1>1, <1>2, <2>1, Zenon
<1>9. OrderInv'
  BY <1>2, <1>3, <1>4, <1>6, <1>8 DEF OrderInv
<1> QED
  BY <1>5, <1>9

LEMMA HandleOrder ==
    ASSUME OrderInv, Handle
    PROVE  /\ OrderInv'
           /\ \A n \in Nat : n <= logged /\ Above(logs, n) => Above(logs', n)
<1> DEFINE q == Append(logs, logged')
<1>1. /\ logged \in Nat /\ logged' \in Nat /\ logged' = logged + 1
      /\ UNCHANGED <<headersOk, sending, delivered>>
  BY DEF Handle, OrderInv
<1>2. /\ q \in Seq(Nat) /\ Len(q) = Len(logs) + 1 /\ q[Len(logs) + 1] = logged + 1
      /\ \A i \in 1..Len(logs) : q[i] = logs[i]
      /\ Len(logs) \in Nat /\ logs \in Seq(Nat)
  BY <1>1, AppendProperties, LenProperties DEF OrderInv
<1>3. EnforceBufferCap(q)
  BY DEF Handle
<1> HIDE DEF q
<1>4. \A i \in 1..Len(q) :
         \/ i \in 1..Len(logs) /\ q[i] = logs[i]
         \/ i = Len(logs) + 1 /\ q[i] = logged + 1
  <2>1. \A i \in 1..Len(q) : i \in 1..Len(logs) \/ i = Len(logs) + 1
    BY <1>2
  <2>2. \A i : i = Len(logs) + 1 => q[i] = logged + 1
    BY <1>2, Zenon
  <2>3. \A i \in 1..Len(logs) : q[i] = logs[i]
    BY <1>2
  <2> QED
    BY <2>1, <2>2, <2>3, Zenon
<1>5. /\ \A i \in 1..Len(logs) : logs[i] \in Nat /\ logs[i] < logged + 1
      /\ \A i \in 1..Len(sending) : sending[i] \in Nat /\ sending[i] < logged + 1
      /\ \A i \in 1..Len(delivered) : delivered[i] \in Nat /\ delivered[i] < logged + 1
  BY SMTT(30), ElementOfSeq DEF OrderInv, UpTo
<1>6. Sorted(q)
  <2> SUFFICES ASSUME NEW i \in 1..Len(q), NEW j \in 1..Len(q), i < j PROVE q[i] < q[j]
    BY DEF Sorted
  <2>1. i \in 1..Len(logs) /\ q[i] = logs[i]
    BY <1>2, <1>4
  <2>2. CASE j \in 1..Len(logs) /\ q[j] = logs[j]
    BY <2>1, <2>2 DEF OrderInv, Sorted
  <2>3. CASE q[j] = logged + 1
    BY <1>5, <2>1, <2>3
  <2> QED
    BY <1>4, <2>2, <2>3
<1>7. Below(delivered, q) /\ Below(sending, q)
  <2>1. Below(delivered, logs) /\ Below(sending, logs)
    BY DEF OrderInv
  <2> QED
    BY <1>4, <1>5, <2>1, Zenon DEF Below
<1>8. UpTo(q, logged')
  BY <1>1, <1>4, <1>5 DEF UpTo
<1>9. headersOk => Len(delivered) + Len(sending') + Len(q) + dropped = logged'
  BY <1>1, <1>2, LenProperties DEF OrderInv
<1>10. \A n \in Nat : n <= logged /\ Above(logs, n) => Above(q, n)
  BY <1>1, <1>4 DEF Above
<1>11. /\ OrderInv'
       /\ \A n \in Nat : Above(q, n) => Above(logs', n)
  <2>1. logged' >= logged /\ sending' = sending /\ delivered' = delivered
    BY <1>1
  <2>2. Below(sending', q)
    BY <1>7, <2>1, Zenon
  <2> QED
    BY <1>1, <1>2, <1>3, <1>6, <1>7, <1>8, <1>9, <2>1, <2>2, CapKeepsOrder, Zenon
<1> QED
  BY <1>10, <1>11

LEMMA RestoredOrder ==
    ASSUME OrderInv, Restored, UNCHANGED <<headersOk, logged, delivered>>
    PROVE  /\ OrderInv'
           /\ \A n \in Nat : Above(sending, n) /\ Above(logs, n) => Above(logs', n)
<1> DEFINE q == sending \o logs
<1>1. /\ EnforceBufferCap(q) /\ UNCHANGED <<headersOk, logged, delivered>> /\ sending' = <<>>
  BY DEF Restored
<1>2. /\ q \in Seq(Nat) /\ Len(q) = Len(sending) + Len(logs)
      /\ Sorted(q) /\ Below(delivered, q) /\ UpTo(q, logged)
      /\ \A n \in Nat : Above(sending, n) /\ Above(logs, n) => Above(q, n)
  BY ConcatAt, ConcatOrder DEF OrderInv
<1> HIDE DEF q
<1>3. Below(sending', q) /\ Len(sending') = 0
  BY <1>1 DEF Below
<1>4. headersOk => Len(delivered) + Len(sending') + Len(q) + dropped = logged'
  BY <1>1, <1>2, <1>3, LenProperties DEF OrderInv
<1>5. /\ logged' \in Nat /\ logged' >= logged /\ UpTo(q, logged') /\ UNCHANGED delivered
      /\ sending' = <<>> \/ sending' = sending
  BY <1>1, <1>2 DEF OrderInv
<1>6. /\ OrderInv'
      /\ \A n \in Nat : Above(q, n) => Above(logs', n)
  BY <1>1, <1>2, <1>3, <1>4, <1>5, CapKeepsOrder, Zenon
<1> QED
  BY <1>2, <1>6

LEMMA SendLogsOrder == ASSUME OrderInv, SendLogs PROVE OrderInv'
<1>1. CASE UNCHANGED <<logs, sending>>
  BY <1>1 DEF SendLogs, OrderInv
<1>2. CASE sending = <<>> /\ sending' = logs /\ logs' = <<>>
  <2>1. Sorted(logs') /\ Below(delivered, logs') /\ Below(sending', logs') /\ UpTo(logs', logged)
    BY <1>2 DEF Sorted, Below, UpTo
  <2>2. headersOk => Len(delivered) + Len(sending') + Len(logs') + dropped = logged
    <3>1. Len(logs') = 0 /\ Len(sending) = 0 /\ Len(sending') = Len(logs)
      BY <1>2
    <3> QED
      BY <3>1, LenProperties DEF OrderInv
  <2> QED
    BY <1>2, <2>1, <2>2 DEF SendLogs, OrderInv
<1>3. CASE ~headersOk /\ UNCHANGED sending /\ logs' = <<>>
  <2>1. Sorted(logs') /\ Below(delivered, logs') /\ Below(sending, logs') /\ UpTo(logs', logged)
    BY <1>3 DEF Sorted, Below, UpTo
  <2> QED
    BY <1>3, <2>1 DEF SendLogs, OrderInv
<1> QED
  BY <1>1, <1>2, <1>3 DEF SendLogs

LEMMA DeliveredOrder == ASSUME OrderInv, Delivered PROVE OrderInv'
<1> DEFINE d == delivered \o sending
<1>1. /\ delivered' = d /\ sending' = <<>> /\ UNCHANGED <<headersOk, logged, logs, dropped>>
  BY DEF Delivered
<1>2. /\ d \in Seq(Nat) /\ Len(d) = Len(delivered) + Len(sending)
      /\ Sorted(d) /\ Below(d, logs) /\ UpTo(d, logged)
  BY ConcatAt, ConcatOrder DEF OrderInv
<1> HIDE DEF d
<1>3. /\ sending' \in Seq(Nat) /\ Len(sending') = 0
      /\ Sorted(sending') /\ Below(d, sending') /\ Below(sending', logs) /\ UpTo(sending', logged)
  BY <1>1 DEF Sorted, Below, UpTo
<1>4. headersOk => Len(d) + Len(sending') + Len(logs) + dropped = logged
  BY <1>2, <1>3, LenProperties DEF OrderInv
<1> QED
  BY <1>1, <1>2, <1>3, <1>4 DEF OrderInv

\* Advance takes the head of the chain and with it the only "finalize".
LEMMA AdvanceStep ==
    ASSUME FinalizeInv, chain # <<>>, NEW outcome \in {"resolved", "rejected"}, Advance(outcome)
    PROVE  /\ chain' \in Seq({"handle", "finalize"})
           /\ \/ chain[1] = "finalize" /\ finalize' = outcome
              \/ chain[1] # "finalize" /\ finalize' = finalize
           /\ \A i \in 1..Len(chain') : chain'[i] = "finalize" =>
                 /\ finalize' = "waiting"
                 /\ \A j \in 1..Len(chain') : chain'[j] = "finalize" => j = i
<1> DEFINE n == Len(chain)
<1>1. /\ chain \in Seq({"handle", "finalize"}) /\ chain' = Tail(chain)
      /\ n \in Nat \ {0} /\ Head(chain) = chain[1]
  BY EmptySeq DEF FinalizeInv, Advance
<1>2. /\ chain' \in Seq({"handle", "finalize"}) /\ Len(chain') = n - 1
      /\ \A i \in 1..Len(chain') : chain'[i] = chain[i + 1]
  BY <1>1, HeadTailProperties
<1>3. \/ chain[1] = "finalize" /\ finalize' = outcome
      \/ chain[1] # "finalize" /\ finalize' = finalize
  BY <1>1 DEF Advance
<1>4. ASSUME NEW i \in 1..Len(chain'), chain'[i] = "finalize"
      PROVE  finalize' = "waiting" /\ \A j \in 1..Len(chain') : chain'[j] = "finalize" => j = i
  <2>1. i + 1 \in 1..n /\ 1 \in 1..n /\ chain[i + 1] = "finalize" /\ i + 1 # 1
    BY <1>1, <1>2, <1>4
  <2>2. finalize = "waiting" /\ \A j \in 1..n : chain[j] = "finalize" => j = i + 1
    BY <2>1 DEF FinalizeInv
  <2>3. chain[1] # "finalize"
    BY <2>1, <2>2, Zenon
  <2>4. ASSUME NEW j \in 1..Len(chain'), chain'[j] = "finalize" PROVE j = i
    <3>1. j + 1 \in 1..n /\ chain[j + 1] = "finalize"
      BY <1>1, <1>2, <2>4
    <3>2. j + 1 = i + 1
      BY <2>2, <3>1, Zenon
    <3> QED
      BY <1>1, <1>2, <3>2
  <2> QED
    BY <1>3, <2>2, <2>3, <2>4
<1> QED
  BY <1>2, <1>3, <1>4

LEMMA FinalizeInvStep ==
    ASSUME OrderInv, FinalizeInv, [LogNext]_logVars
    PROVE  FinalizeInv'
<1>0. /\ chain \in Seq({"handle", "finalize"}) /\ Len(chain) \in Nat
      /\ logged \in Nat /\ before \in Nat /\ before <= logged
      /\ chain # <<>> => Len(chain) \in Nat \ {0}
      /\ chain = <<>> => Len(chain) = 0
  BY EmptySeq, LenProperties DEF FinalizeInv, OrderInv
<1>1. ASSUME NEW e \in {"handle", "finalize"}, chain' = Append(chain, e)
      PROVE  /\ chain' \in Seq({"handle", "finalize"}) /\ chain' # <<>>
             /\ Len(chain') = Len(chain) + 1
             /\ \A i \in 1..Len(chain) : chain'[i] = chain[i]
             /\ chain'[Len(chain) + 1] = e
             /\ \A i \in 1..Len(chain') : \/ i \in 1..Len(chain) /\ chain'[i] = chain[i]
                                          \/ i = Len(chain) + 1 /\ chain'[i] = e
  BY <1>0, <1>1, AppendProperties
<1>2. CASE Handle
  <2>1. UNCHANGED <<sending, finalize, before>> /\ logged' = logged + 1
    BY <1>2 DEF Handle
  <2>2. \A n \in Nat : n <= logged /\ Above(logs, n) => Above(logs', n)
    BY <1>2, HandleOrder
  <2>3. CASE chain' = chain
    BY <1>0, <2>1, <2>2, <2>3 DEF FinalizeInv
  <2>4. CASE chain' = Append(chain, "handle")
    <3>1. /\ chain' \in Seq({"handle", "finalize"}) /\ chain' # <<>>
          /\ \A i \in 1..Len(chain') : chain'[i] = "finalize" =>
                i \in 1..Len(chain) /\ chain[i] = "finalize"
      BY <1>1, <2>4
    <3>2. sending # <<>> => chain'[1] = chain[1]
      BY <1>0, <1>1, <2>4 DEF FinalizeInv
    <3>3. \A i \in 1..Len(chain') : chain'[i] = "finalize" =>
             /\ finalize = "waiting"
             /\ \A j \in 1..Len(chain') : chain'[j] = "finalize" => j = i
      BY <3>1, Zenon DEF FinalizeInv
    <3>4. before <= logged' /\ (finalize = "resolved" => Above(sending, before) /\ Above(logs', before))
      BY <1>0, <2>1, <2>2 DEF FinalizeInv
    <3>5. sending # <<>> /\ chain'[1] = "finalize" => Above(logs', before)
      BY <1>0, <2>2, <3>2 DEF FinalizeInv
    <3> QED
      BY <2>1, <3>1, <3>3, <3>4, <3>5 DEF FinalizeInv
  <2> QED
    BY <1>2, <2>3, <2>4 DEF Handle
<1>3. CASE Finalize
  <2>1. /\ finalize \in {"none", "rejected"} /\ finalize' = "waiting" /\ before' = logged
        /\ chain' = Append(chain, "finalize") /\ UNCHANGED <<logged, logs, sending>>
    BY <1>3 DEF Finalize
  <2>2. \A i \in 1..Len(chain) : chain[i] # "finalize"
    BY <2>1 DEF FinalizeInv
  <2>3. \A i \in 1..Len(chain') : chain'[i] = "finalize" => i = Len(chain) + 1
    BY <1>1, <2>1, <2>2
  <2>4. sending # <<>> => chain'[1] # "finalize"
    BY <1>0, <1>1, <2>1, <2>2 DEF FinalizeInv
  <2>5. chain' \in Seq({"handle", "finalize"}) /\ chain' # <<>>
    BY <1>1, <2>1
  <2>6. \A i \in 1..Len(chain') : chain'[i] = "finalize" =>
             \A j \in 1..Len(chain') : chain'[j] = "finalize" => j = i
    BY <2>3, Zenon
  <2> QED
    BY <1>0, <2>1, <2>4, <2>5, <2>6 DEF FinalizeInv
<1>4. CASE SendLogs
  <2>1. chain # <<>> /\ sending = <<>> /\ UNCHANGED <<logged, before>>
    BY <1>4 DEF SendLogs
  <2>2. CASE logs = <<>> /\ Advance("resolved") /\ UNCHANGED <<logs, sending>>
    <3>1. Above(sending', before) /\ Above(logs', before)
      BY <2>1, <2>2 DEF Above
    <3>2. /\ chain' \in Seq({"handle", "finalize"})
          /\ finalize' \in {"none", "waiting", "resolved", "rejected"}
          /\ \A i \in 1..Len(chain') : chain'[i] = "finalize" =>
                /\ finalize' = "waiting"
                /\ \A j \in 1..Len(chain') : chain'[j] = "finalize" => j = i
      BY <2>1, <2>2, AdvanceStep DEF FinalizeInv
    <3> QED
      BY <1>0, <2>1, <2>2, <3>1, <3>2 DEF FinalizeInv
  <2>3. CASE sending' = logs /\ logs' = <<>> /\ UNCHANGED <<chain, finalize>>
    <3>1. Above(logs', before)
      BY <2>3 DEF Above
    <3> QED
      BY <1>0, <2>1, <2>3, <3>1 DEF FinalizeInv
  <2>4. CASE logs' = <<>> /\ Advance("rejected") /\ UNCHANGED sending
    <3>1. Above(sending', before) /\ Above(logs', before)
      BY <2>1, <2>4 DEF Above
    <3>2. /\ chain' \in Seq({"handle", "finalize"})
          /\ finalize' \in {"none", "waiting", "resolved", "rejected"}
          /\ \A i \in 1..Len(chain') : chain'[i] = "finalize" =>
                /\ finalize' = "waiting"
                /\ \A j \in 1..Len(chain') : chain'[j] = "finalize" => j = i
      BY <2>1, <2>4, AdvanceStep DEF FinalizeInv
    <3> QED
      BY <1>0, <2>1, <2>4, <3>1, <3>2 DEF FinalizeInv
  <2> QED
    BY <1>4, <2>2, <2>3, <2>4 DEF SendLogs
<1>5. ASSUME NEW outcome \in {"resolved", "rejected"}, sending # <<>>, Advance(outcome),
             sending' = <<>>, UNCHANGED <<logged, before>>,
             \/ chain[1] = "finalize" /\ outcome = "rejected"
             \/ (chain[1] = "finalize" \/ finalize = "resolved") => Above(logs', before)
      PROVE  FinalizeInv'
  <2>1. chain # <<>>
    BY <1>5 DEF FinalizeInv
  <2>2. /\ chain' \in Seq({"handle", "finalize"})
        /\ \/ chain[1] = "finalize" /\ finalize' = outcome
           \/ chain[1] # "finalize" /\ finalize' = finalize
        /\ \A i \in 1..Len(chain') : chain'[i] = "finalize" =>
              /\ finalize' = "waiting"
              /\ \A j \in 1..Len(chain') : chain'[j] = "finalize" => j = i
    BY <1>5, <2>1, AdvanceStep
  <2>3. Above(sending', before)
    BY <1>5 DEF Above
  <2>4. finalize' \in {"none", "waiting", "resolved", "rejected"}
    BY <2>2 DEF FinalizeInv
  <2>5. finalize' = "resolved" => Above(logs', before)
    BY <1>5, <2>2
  <2> QED
    BY <1>0, <1>5, <2>2, <2>3, <2>4, <2>5 DEF FinalizeInv
<1>6. CASE Delivered
  BY <1>5, <1>6 DEF Delivered, FinalizeInv
<1>7. CASE Failed \/ Unheard
  <2>1. /\ Restored /\ sending # <<>> /\ UNCHANGED <<headersOk, logged, delivered, before>>
    BY <1>7 DEF Failed, Unheard
  <2>2. finalize = "resolved" => Above(logs', before)
    BY <2>1, RestoredOrder DEF FinalizeInv
  <2> QED
    BY <1>5, <2>1, <2>2 DEF Restored
<1>8. CASE UNCHANGED logVars
  BY <1>8 DEF logVars, FinalizeInv
<1> QED
  BY <1>2, <1>3, <1>4, <1>6, <1>7, <1>8 DEF LogNext

LEMMA ConcatFirsts ==
    ASSUME NEW q \in Seq(Nat), NEW r \in Seq(Nat),
           FirstsInOrder(q), NewOrSeen(r, q), Sorted(r)
    PROVE  FirstsInOrder(q \o r)
<1> DEFINE c == q \o r
           n == Len(q)
<1>1. /\ c \in Seq(Nat) /\ Len(c) = n + Len(r) /\ n \in Nat /\ Len(r) \in Nat
      /\ DOMAIN c = 1..Len(c) /\ DOMAIN q = 1..n
      /\ \A i \in 1..n : c[i] = q[i]
      /\ \A i \in 1..Len(c) : i \in 1..n \/ (i - n \in 1..Len(r) /\ c[i] = r[i - n])
  BY ConcatAt, LenProperties, ConcatProperties
<1> HIDE DEF c, n
<1> SUFFICES ASSUME NEW j \in 1..Len(c), NEW i \in 1..(j - 1)
             PROVE  c[i] < c[j] \/ \E k \in 1..(j - 1) : c[k] = c[j]
  BY <1>1 DEF FirstsInOrder, c
<1>2. i \in 1..Len(c) /\ i < j /\ Len(c) \in Nat
  BY <1>1
<1>3. CASE j \in 1..n
  <2>1. \A k \in 1..(j - 1) : k \in 1..n
    BY <1>1, <1>3
  <2>2. q[i] < q[j] \/ \E k \in 1..(j - 1) : q[k] = q[j]
    BY <1>1, <1>3 DEF FirstsInOrder
  <2> QED
    BY <1>1, <1>3, <2>1, <2>2
<1>4. CASE j - n \in 1..Len(r) /\ c[j] = r[j - n] /\ j \notin 1..n
  <2>1. \A k \in 1..n : k \in 1..(j - 1)
    BY <1>1, <1>4
  <2>2. CASE \E k \in 1..n : q[k] = r[j - n]
    BY <1>1, <1>4, <2>1, <2>2
  <2>3. CASE \A k \in 1..n : q[k] < r[j - n]
    <3>1. CASE i \in 1..n
      BY <1>1, <1>4, <2>3, <3>1
    <3>2. CASE i - n \in 1..Len(r) /\ c[i] = r[i - n]
      <4>1. i - n < j - n
        BY <1>1, <1>2
      <4> QED
        BY <1>4, <3>2, <4>1 DEF Sorted
    <3> QED
      BY <1>1, <1>2, <3>1, <3>2
  <2> QED
    BY <1>4, <2>2, <2>3 DEF NewOrSeen, n
<1> QED
  BY <1>1, <1>3, <1>4

LEMMA ConcatSeen ==
    ASSUME NEW q \in Seq(Nat), NEW r \in Seq(Nat)
    PROVE  /\ NewOrSeen(r, q \o r)
           /\ \A s \in Seq(Nat) : NewOrSeen(s, q) /\ Below(r, s) => NewOrSeen(s, q \o r)
           /\ \A s \in Seq(Nat) : NewOrSeen(q, s) /\ NewOrSeen(r, s) => NewOrSeen(q \o r, s)
<1> DEFINE c == q \o r
           n == Len(q)
<1>1. /\ c \in Seq(Nat) /\ Len(c) = n + Len(r) /\ n \in Nat /\ Len(r) \in Nat
      /\ \A i \in 1..n : c[i] = q[i] /\ i \in 1..Len(c)
      /\ \A i \in 1..Len(c) : \/ i \in 1..n /\ c[i] = q[i]
                              \/ i - n \in 1..Len(r) /\ c[i] = r[i - n]
  BY ConcatAt, LenProperties, ConcatProperties
<1>2. \A j \in 1..Len(r) : n + j \in 1..Len(c) /\ c[n + j] = r[j]
  BY <1>1, ConcatProperties
<1> HIDE DEF c, n
<1>3. NewOrSeen(r, c)
  BY <1>2 DEF NewOrSeen
<1>4. ASSUME NEW s \in Seq(Nat), NewOrSeen(s, q), Below(r, s), NEW j \in 1..Len(s)
      PROVE  (\E k \in 1..Len(c) : c[k] = s[j]) \/ (\A i \in 1..Len(c) : c[i] < s[j])
  <2>1. CASE \E k \in 1..n : q[k] = s[j]
    BY <1>1, <2>1
  <2>2. CASE \A i \in 1..n : q[i] < s[j]
    BY <1>1, <1>4, <2>2, Zenon DEF Below
  <2> QED
    BY <1>4, <2>1, <2>2 DEF NewOrSeen, n
<1>5. ASSUME NEW s \in Seq(Nat), NewOrSeen(q, s), NewOrSeen(r, s) PROVE NewOrSeen(c, s)
  BY <1>1, <1>5, Zenon DEF NewOrSeen, n
<1> QED
  BY <1>3, <1>4, <1>5 DEF NewOrSeen, c

\* __enforceBufferCap keeps records that were there.
LEMMA CapSeen ==
    ASSUME OrderInv, NEW q \in Seq(Nat), NEW s \in Seq(Nat), NewOrSeen(q, s), EnforceBufferCap(q)
    PROVE  NewOrSeen(logs', s)
<1>1. PICK n \in 0..Len(q) : logs' = SubSeq(q, n + 1, Len(q))
  BY CapStep DEF OrderInv
<1>2. \A i \in 1..Len(logs') : i + n \in 1..Len(q) /\ logs'[i] = q[i + n]
  BY <1>1, SuffixAt
<1> QED
  BY <1>2, Zenon DEF NewOrSeen

LEMMA EmptySeen == ASSUME NEW q, NEW r, q = <<>> PROVE NewOrSeen(q, r)
BY DEF NewOrSeen

LEMMA TakenStep ==
    ASSUME OrderInv, TakenInv, [LogNext]_logVars
    PROVE  TakenInv'
<1>0. /\ taken \in Seq(Nat) /\ sending \in Seq(Nat) /\ logs \in Seq(Nat) /\ logged \in Nat
      /\ taken \o sending \in Seq(Nat) /\ <<>> \in Seq(Nat)
  BY ConcatAt DEF OrderInv, TakenInv
<1>1. CASE Handle
  <2> DEFINE q == Append(logs, logged + 1)
  <2>1. /\ EnforceBufferCap(q) /\ UNCHANGED <<sending, taken>> /\ logged' = logged + 1
        /\ q \in Seq(Nat)
    BY <1>0, <1>1, AppendProperties DEF Handle
  <2>2. UpTo(taken, logged')
    BY <1>0, <2>1, UpToMore DEF TakenInv
  <2>3. NewOrSeen(q, taken)
    <3>1. \A j \in 1..Len(q) : \/ j \in 1..Len(logs) /\ q[j] = logs[j]
                              \/ q[j] = logged + 1
      <4>1. /\ Len(q) = Len(logs) + 1 /\ q[Len(logs) + 1] = logged + 1
            /\ \A j \in 1..Len(logs) : q[j] = logs[j]
            /\ Len(logs) \in Nat
        BY <1>0, AppendProperties, LenProperties
      <4>2. \A j \in 1..Len(q) : j \in 1..Len(logs) \/ j = Len(logs) + 1
        BY <4>1
      <4> HIDE DEF q
      <4> QED
        BY <4>1, <4>2, Zenon
    <3>2. \A i \in 1..Len(taken) : taken[i] < logged + 1
      <4> SUFFICES ASSUME NEW i \in 1..Len(taken) PROVE taken[i] < logged + 1
        OBVIOUS
      <4>1. taken[i] \in Nat /\ taken[i] <= logged
        BY <1>0, ElementOfSeq DEF TakenInv, UpTo
      <4> QED
        BY <1>0, <4>1
    <3> HIDE DEF q
    <3> QED
      BY <3>1, <3>2, Zenon DEF TakenInv, NewOrSeen
  <2> HIDE DEF q
  <2>4. NewOrSeen(logs', taken)
    BY <1>0, <2>1, <2>3, CapSeen
  <2> QED
    BY <2>1, <2>2, <2>4 DEF TakenInv
<1>2. CASE Finalize
  BY <1>2 DEF Finalize, TakenInv
<1>3. CASE SendLogs
  <2>1. /\ UNCHANGED <<taken, logged>>
        /\ \/ UNCHANGED <<logs, sending>>
           \/ sending' = logs /\ logs' = <<>>
           \/ sending' = sending /\ logs' = <<>>
    BY <1>3 DEF SendLogs
  <2>2. NewOrSeen(<<>>, taken)
    BY EmptySeen
  <2> QED
    BY <2>1, <2>2 DEF TakenInv
<1>4. ASSUME taken' = taken \o sending, UNCHANGED logged
      PROVE  /\ taken' \in Seq(Nat) /\ UpTo(taken', logged') /\ FirstsInOrder(taken')
             /\ NewOrSeen(logs, taken') /\ NewOrSeen(sending, taken')
  BY <1>0, <1>4, ConcatFirsts, ConcatSeen, ConcatOrder DEF TakenInv, OrderInv
<1>5. CASE Delivered
  <2>1. taken' = taken \o sending /\ sending' = <<>> /\ UNCHANGED <<logged, logs>>
    BY <1>5 DEF Delivered
  <2> QED
    BY <1>4, <2>1, EmptySeen DEF TakenInv
<1>6. ASSUME Restored, UNCHANGED logged, taken' \in Seq(Nat), UpTo(taken', logged'),
             FirstsInOrder(taken'), NewOrSeen(logs, taken'), NewOrSeen(sending, taken')
      PROVE  TakenInv'
  <2> DEFINE q == sending \o logs
  <2>1. q \in Seq(Nat) /\ NewOrSeen(q, taken')
    BY <1>0, <1>6, ConcatAt, ConcatSeen
  <2>2. EnforceBufferCap(q) /\ sending' = <<>>
    BY <1>6 DEF Restored
  <2> HIDE DEF q
  <2>3. NewOrSeen(logs', taken')
    BY <1>6, <2>1, <2>2, CapSeen
  <2>4. NewOrSeen(sending', taken')
    BY <2>2, EmptySeen
  <2> QED
    BY <1>6, <2>3, <2>4 DEF TakenInv
<1>7. CASE Failed
  BY <1>0, <1>6, <1>7 DEF Failed, TakenInv
<1>8. CASE Unheard
  BY <1>4, <1>6, <1>8 DEF Unheard
<1>9. CASE UNCHANGED logVars
  BY <1>9 DEF logVars, TakenInv
<1> QED
  BY <1>1, <1>2, <1>3, <1>5, <1>7, <1>8, <1>9 DEF LogNext

\* However many batches fail and are put back, whether or not the endpoint had
\* them: it sees each record first in the order of logging and acknowledges
\* it at most once; while the headers can be built none is lost uncounted;
\* and a finalize() that resolves has left nothing of what was logged before
\* it (HTTPHandler._handle, _sendLogs, __enforceBufferCap and finalize).
THEOREM LogsDeliveredHolds == LogSpec => []LogsDelivered
<1> DEFINE LogInv == OrderInv /\ TakenInv /\ FinalizeInv
<1>1. LogInit => LogInv
  <2> SUFFICES ASSUME LogInit PROVE LogInv
    OBVIOUS
  <2>1. OrderInv /\ FinalizeInv
    BY DEF LogInit, OrderInv, FinalizeInv, Sorted, Below, UpTo, Above
  <2>2. TakenInv
    BY DEF LogInit, TakenInv, UpTo, FirstsInOrder, NewOrSeen
  <2> QED
    BY <2>1, <2>2
<1>2. LogInv /\ [LogNext]_logVars => LogInv'
  <2> SUFFICES ASSUME LogInv, [LogNext]_logVars PROVE LogInv'
    OBVIOUS
  <2>1. ASSUME Finalize \/ UNCHANGED logVars PROVE OrderInv'
    <3>1. UNCHANGED <<headersOk, logged, logs, sending, delivered, dropped>>
      BY <2>1 DEF Finalize, logVars
    <3> QED
      BY <3>1, Zenon DEF OrderInv, Sorted, Below, UpTo
  <2>2. ASSUME Failed \/ Unheard PROVE OrderInv'
    BY <2>2, RestoredOrder DEF Failed, Unheard
  <2>3. OrderInv'
    BY <2>1, <2>2, HandleOrder, SendLogsOrder, DeliveredOrder DEF LogNext
  <2> QED
    BY <2>3, TakenStep, FinalizeInvStep
<1>3. LogInv => LogsDelivered
  <2> SUFFICES ASSUME LogInv PROVE LogsDelivered
    OBVIOUS
  <2> DEFINE d == delivered \o sending
             r == sending \o logs
  <2>1. d \in Seq(Nat) /\ Sorted(d) /\ Below(d, logs)
    BY ConcatAt, ConcatOrder DEF OrderInv
  <2>2. d \o logs \in Seq(Nat) /\ Sorted(d \o logs)
    BY <2>1, ConcatAt, ConcatOrder DEF OrderInv
  <2>3. Increasing(d \o logs)
    BY <2>2, SortedIncreasing
  <2>4. finalize = "resolved" => Above(r, before)
    BY ConcatOrder DEF OrderInv, FinalizeInv
  <2> QED
    BY <2>3, <2>4 DEF OrderInv, TakenInv, LogsDelivered, NothingLost, Above
<1> QED
  BY <1>1, <1>2, <1>3, PTL DEF LogSpec
=============================================================================
