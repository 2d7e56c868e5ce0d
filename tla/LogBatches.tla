----------------------------- MODULE LogBatches -----------------------------
(***************************************************************************)
(* The HTTP log handler (packages/slogger/handlers/handler/HTTPHandler.ts):*)
(* records are buffered, sent in batches one request after another, put    *)
(* back when a request fails, and dropped from the old end at the cap.     *)
(* A request that fails may have reached the endpoint all the same, which  *)
(* then gets its records again.  Records are numbered in the order in      *)
(* which they were logged.                                                 *)
(***************************************************************************)
EXTENDS Integers, Sequences

CONSTANTS BatchSize, MaxBuffer,    \* the options, MaxBuffer >= BatchSize
          MaxLogs,                 \* records of a run
          MaxTaken,                \* records the endpoint may hold when a reply is lost
          MaxTasks                 \* requests that wait for their turn

ASSUME BufferAssumption ==
    /\ BatchSize \in Nat \ {0} /\ MaxBuffer \in Nat /\ MaxBuffer >= BatchSize
    /\ {MaxLogs, MaxTasks, MaxTaken} \subseteq Nat

VARIABLES headersOk,   \* Headers accepts every configured name and value
          logged,      \* records handled so far
          logs,        \* _logs
          sending,     \* the batch of the request under way, <<>> for none
          chain,       \* the tasks of __sendChain, by the call that waits
          taken,       \* records the endpoint received, in that order
          delivered,   \* records of the requests that succeeded
          dropped,     \* __droppedLogCount
          finalize,    \* the latest finalize(): none, waiting, resolved, rejected
          before       \* records handled before it was called

logVars == <<headersOk, logged, logs, sending, chain, taken, delivered, dropped,
             finalize, before>>

LogInit ==
    /\ headersOk \in BOOLEAN
    /\ logged = 0 /\ logs = <<>> /\ sending = <<>> /\ chain = <<>>
    /\ taken = <<>> /\ delivered = <<>> /\ dropped = 0
    /\ finalize = "none" /\ before = 0

---------------------------------------------------------------------------
\* __enforceBufferCap
EnforceBufferCap(q) ==
    LET overflow == IF Len(q) > MaxBuffer THEN Len(q) - MaxBuffer ELSE 0 IN
    /\ logs' = SubSeq(q, overflow + 1, Len(q))
    /\ dropped' = dropped + overflow

\* _handle
Handle ==
    /\ logged < MaxLogs /\ Len(chain) < MaxTasks
    /\ logged' = logged + 1
    /\ EnforceBufferCap(Append(logs, logged'))
    /\ chain' = IF Len(logs') >= BatchSize THEN Append(chain, "handle") ELSE chain
    /\ UNCHANGED <<headersOk, sending, taken, delivered, finalize, before>>

Finalize ==
    /\ finalize \in {"none", "rejected"} /\ Len(chain) < MaxTasks
    /\ finalize' = "waiting" /\ before' = logged
    /\ chain' = Append(chain, "finalize")
    /\ UNCHANGED <<headersOk, logged, logs, sending, taken, delivered, dropped>>

\* The task whose turn it is settles and the chain goes on.
Advance(outcome) ==
    /\ chain' = Tail(chain)
    /\ finalize' = IF Head(chain) = "finalize" THEN outcome ELSE finalize

\* _sendLogs: nothing to send; or the whole buffer goes into a request; or
\* headers.set throws, outside the try that would put the batch back
SendLogs ==
    /\ chain # <<>> /\ sending = <<>>
    /\ \/ /\ logs = <<>>
          /\ Advance("resolved")
          /\ UNCHANGED <<logs, sending>>
       \/ /\ logs # <<>> /\ headersOk
          /\ sending' = logs /\ logs' = <<>>
          /\ UNCHANGED <<chain, finalize>>
       \/ /\ logs # <<>> /\ ~headersOk
          /\ logs' = <<>>
          /\ Advance("rejected")
          /\ UNCHANGED sending
    /\ UNCHANGED <<headersOk, logged, taken, delivered, dropped, before>>

\* a 2xx response whose body is let go
Delivered ==
    /\ sending # <<>>
    /\ taken' = taken \o sending /\ delivered' = delivered \o sending
    /\ sending' = <<>>
    /\ Advance("resolved")
    /\ UNCHANGED <<headersOk, logged, logs, dropped, before>>

\* mutant: the batch goes behind what was logged since
RestoredBehind ==
    /\ EnforceBufferCap(logs \o sending)
    /\ sending' = <<>>
    /\ Advance("rejected")

\* the catch: the batch goes back in front
Restored ==
    /\ EnforceBufferCap(sending \o logs)
    /\ sending' = <<>>
    /\ Advance("rejected")

\* a status that refuses the batch, or a network error before it arrived
Failed ==
    /\ sending # <<>>
    /\ Restored
    /\ UNCHANGED <<headersOk, logged, taken, delivered, before>>

\* a network error after it arrived, or a cancel() of the body that rejects
Unheard ==
    /\ sending # <<>> /\ Len(taken) < MaxTaken
    /\ taken' = taken \o sending
    /\ Restored
    /\ UNCHANGED <<headersOk, logged, delivered, before>>

---------------------------------------------------------------------------
LogNext == Handle \/ Finalize \/ SendLogs \/ Delivered \/ Failed \/ Unheard

LogSpec == LogInit /\ [][LogNext]_logVars

---------------------------------------------------------------------------
(* Properties.                                                             *)

Increasing(q) == \A i \in 1..(Len(q) - 1) : q[i] < q[i + 1]

\* the first of the copies of each record, in order
FirstsInOrder(q) ==
    \A j \in DOMAIN q : \A i \in 1..(j - 1) :
        q[i] < q[j] \/ \E k \in 1..(j - 1) : q[k] = q[j]

\* _sendLogs says of itself that a batch leaves the queue only once the
\* request succeeds: every record is kept, delivered or counted in
\* droppedLogCount.
NothingLost == Len(delivered) + Len(sending) + Len(logs) + dropped = logged

\* However many batches fail, are put back and come a second time (_sendLogs,
\* __enforceBufferCap): the endpoint sees each record for the first time in
\* the order of logging, acknowledges it at most once, and, as long as the
\* headers can be built, none is neither kept, delivered nor counted.  When
\* finalize() resolves, no record handled before it was called is still kept
\* ("the documented guaranteed-flush path").
LogsDelivered ==
    /\ FirstsInOrder(taken)
    /\ Increasing(delivered \o sending \o logs)
    /\ headersOk => NothingLost
    /\ finalize = "resolved" =>
           \A i \in 1..Len(sending \o logs) : (sending \o logs)[i] > before
=============================================================================
