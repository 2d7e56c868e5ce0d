----------------------------- MODULE MCServices -----------------------------
(* Four components that share nothing, checked in one run: a behaviour     *)
(* follows one of them and leaves the others in their initial state, where *)
(* none of the actions their fairness is about is enabled.                 *)
EXTENDS RPCConnection, SpanBatches, LogBatches, Cronus, TLC

VARIABLE part

\* maxQueueSize and maxExportBatchSize: a batch fits the queue, or never fills
SizesToCheck == {<<3, 2>>, <<2, 3>>}

Init ==
    /\ ConnInit /\ SpanInit /\ LogInit /\ CronusInit
    /\ part \in {"connection", "spans", "logs", "cron"}
    /\ part # "logs" => headersOk

Next ==
    /\ UNCHANGED part
    /\ \/ part = "connection" /\ ConnNext /\ UNCHANGED <<spanVars, logVars, cronusVars>>
       \/ part = "spans" /\ SpanNext /\ UNCHANGED <<connVars, logVars, cronusVars>>
       \/ part = "logs" /\ LogNext /\ UNCHANGED <<connVars, spanVars, cronusVars>>
       \/ part = "cron" /\ CronusNext /\ UNCHANGED <<connVars, spanVars, logVars>>

Spec ==
    /\ Init
    /\ [][Next]_<<part, connVars, spanVars, logVars, cronusVars>>
    /\ ConnFairness /\ SpanFairness
=============================================================================
