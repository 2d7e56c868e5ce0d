---------------------------- MODULE SpanBatches ----------------------------
(***************************************************************************)
(* The batching span exporter (packages/tracer/BatchSpanProcessor.ts) as   *)
(* the tracer uses it: one finished span per export().  A span name or an  *)
(* export name that is not in use stands for a new one.                    *)
(***************************************************************************)
EXTENDS Integers, Sequences, FiniteSets

CONSTANTS Span,
          Flight,     \* names of exports in flight
          Sizes       \* pairs of maxQueueSize and maxExportBatchSize

ASSUME SizesAssumption == Sizes \subseteq (Nat \ {0}) \X (Nat \ {0})

VARIABLES size,         \* the options of this processor
          queue,        \* __queue
          timer,        \* __timer is armed
          inFlight,     \* __inFlight, with the spans of each
          shuttingDown, \* __shuttingDown
          awaited,      \* the exports shutdown() waits for
          exporterDown  \* exporter.shutdown() was called

spanVars == <<size, queue, timer, inFlight, shuttingDown, awaited, exporterDown>>

maxQueue == size[1]
batchSize == size[2]

SpanInit ==
    /\ size \in Sizes
    /\ queue = <<>> /\ timer = FALSE
    /\ inFlight = [f \in Flight |-> {}]
    /\ shuttingDown = FALSE /\ awaited = {} /\ exporterDown = FALSE

---------------------------------------------------------------------------
InUse == {queue[i] : i \in 1..Len(queue)} \cup UNION {inFlight[f] : f \in Flight}

SmallerOf(a, b) == IF a < b THEN a ELSE b

\* __flush of queue q while the timer is armed or not: a batch goes to the
\* exporter, which may throw, and an empty queue needs no timer.
Flush(q, armed) ==
    LET n == SmallerOf(batchSize, Len(q))
        batch == {q[i] : i \in 1..n}
    IN  /\ queue' = SubSeq(q, n + 1, Len(q))
        /\ timer' = (armed /\ n < Len(q))
        /\ \E f \in Flight : /\ inFlight[f] = {}
                             /\ \/ inFlight' = [inFlight EXCEPT ![f] = batch]
                                \/ UNCHANGED inFlight

\* what export() keeps of a queue: the newest up to the limit
Bounded(q) == SubSeq(q, IF Len(q) > maxQueue THEN Len(q) - maxQueue + 1 ELSE 1, Len(q))

\* mutant: the timer is not armed
ExportUnscheduled(s) ==
    LET q == Bounded(Append(queue, s)) IN
    /\ ~shuttingDown /\ s \notin InUse
    /\ \/ /\ Len(q) >= batchSize
          /\ Flush(q, timer)
       \/ /\ Len(q) < batchSize
          /\ queue' = q
          /\ UNCHANGED <<timer, inFlight>>
    /\ UNCHANGED <<size, shuttingDown, awaited, exporterDown>>

Export(s) ==
    LET q == Bounded(Append(queue, s)) IN
    /\ ~shuttingDown /\ s \notin InUse
    /\ \/ /\ Len(q) >= batchSize
          /\ Flush(q, timer)
       \/ /\ Len(q) < batchSize
          /\ queue' = q /\ timer' = TRUE
          /\ UNCHANGED inFlight
    /\ UNCHANGED <<size, shuttingDown, awaited, exporterDown>>

\* the callback of __scheduleFlush; the timer goes whenever the queue does
TimerCallback ==
    /\ timer
    /\ Flush(queue, FALSE)
    /\ UNCHANGED <<size, shuttingDown, awaited, exporterDown>>

\* forceFlush(): its loop flushes once, as the queue never exceeds a batch
ForceFlush ==
    /\ queue # <<>>
    /\ Flush(queue, timer)
    /\ UNCHANGED <<size, shuttingDown, awaited, exporterDown>>

\* an export settles, either way
Settle(f) ==
    /\ inFlight[f] # {}
    /\ inFlight' = [inFlight EXCEPT ![f] = {}]
    /\ awaited' = awaited \ {f}
    /\ UNCHANGED <<size, queue, timer, shuttingDown, exporterDown>>

InFlight == {f \in Flight : inFlight[f] # {}}

\* mutant: shutdown() leaves the timer and the last spans to each other
ShutdownUnflushed ==
    /\ shuttingDown' = TRUE
    /\ awaited' = InFlight
    /\ UNCHANGED <<size, queue, timer, inFlight, exporterDown>>

\* shutdown() up to its first await; a second one waits for what is left of
\* the first one's exports and calls exporter.shutdown() again
Shutdown ==
    /\ shuttingDown' = TRUE
    /\ \/ queue # <<>> /\ Flush(queue, FALSE)
       \/ queue = <<>> /\ timer' = FALSE /\ UNCHANGED <<queue, inFlight>>
    /\ awaited' = {f \in Flight : inFlight'[f] # {}}
    /\ UNCHANGED <<size, exporterDown>>

ShutdownExporter ==
    /\ shuttingDown /\ awaited = {}
    /\ exporterDown' = TRUE
    /\ UNCHANGED <<size, queue, timer, inFlight, shuttingDown, awaited>>

---------------------------------------------------------------------------
SpanNext ==
    \/ \E s \in Span : Export(s)
    \/ TimerCallback \/ ForceFlush \/ Shutdown \/ ShutdownExporter
    \/ \E f \in Flight : Settle(f)

\* The timer fires and the exporter settles what it is given.
SpanFairness == WF_spanVars(TimerCallback) /\ \A f \in Flight : WF_spanVars(Settle(f))

SpanSpec == SpanInit /\ [][SpanNext]_spanVars /\ SpanFairness

---------------------------------------------------------------------------
(* Properties.                                                             *)

Queued(s) == \E i \in 1..Len(queue) : queue[i] = s

\* A span does not stay in the queue (export(): "on a full batch or on the
\* timer"): it reaches the exporter or makes room for newer ones, though
\* no other span ever ends.
SpansLeave == \A s \in Span : Queued(s) ~> ~Queued(s)

\* The wrapped exporter is not shut down under an export or over a queue
\* (shutdown()): what it waits for is a copy of __inFlight, and nothing
\* that still runs may add to it.
ExporterOutlivesExports == exporterDown => queue = <<>> /\ InFlight = {}
=============================================================================
