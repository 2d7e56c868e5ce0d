--------------------------- MODULE ConnectionPool ---------------------------
(***************************************************************************)
(* The connection pool of @tundralibs/drivers                              *)
(* (packages/drivers/ConnectionPool.ts).                                   *)
(*                                                                         *)
(* JavaScript runs one synchronous segment at a time: an action of this    *)
(* module is the code between two awaits, and what is awaited (a factory,  *)
(* a validation, a socket close, a timer) completes in an action of its    *)
(* own, in any order.  The client of the pool is a set of callers, each of *)
(* which holds at most one connection and gives back what it acquired, and *)
(* a set of hosts: invocations of the engine's connect and disconnect,     *)
(* which call ensureMin and drain and set the draining flag.               *)
(***************************************************************************)
EXTENDS Integers, Sequences, FiniteSets

CONSTANTS
    Caller,          \* the callers of acquire, release and destroy
    Resource,        \* names for connections; a closed one's name is reused
    Host,            \* the callers of ensureMin, drain and the draining setter
    Background,      \* ensureMin calls nobody awaits (the idle timer's)
    NoResource,
    Min, Max,        \* __min and __max
    IdleEviction,    \* __idleTimeoutMs > 0
    AcquireTimeouts, \* __acquireTimeoutMs > 0
    CreateMayFail    \* whether a factory call can reject

\* validatePoolOptions refuses every other sizing.
ASSUME SizingAssumption == /\ Min \in Nat
                           /\ Max \in Nat
                           /\ 1 <= Max
                           /\ Min <= Max

ASSUME NamesAssumption == /\ NoResource \notin Resource
                          /\ Background \notin Host
                          /\ IdleEviction \in BOOLEAN
                          /\ AcquireTimeouts \in BOOLEAN
                          /\ CreateMayFail \in BOOLEAN

Warmer == Host \cup {Background}

VARIABLES
    \* The fields of the class.
    idle,        \* __idle, oldest first
    active,      \* __active
    waiters,     \* __waiters: a settled waiter leaves the queue as it settles
    idleTimers,  \* the keys of __idleTimers
    pending,     \* __pending
    handoff,     \* __handoff: one __handToWaiter validation in flight each
    draining,    \* __draining
    \* The suspended calls.
    pc,          \* where each caller's acquire is suspended
    res,         \* the connection that caller is working on or holds
    backfill,    \* __createForWaiter factories in flight
    warm,        \* __createWarm factories in flight, per ensureMin caller
    warmDrop,    \* connections a drained __createWarm is closing
    destroying,  \* connections destroy() is closing: __pumpWaiters follows
    forgetting,  \* connections being closed with nothing to follow
    drainQ       \* toDestroy of each running drain; its head is being closed

fields   == <<idle, active, waiters, idleTimers, pending, handoff, draining>>
calls    == <<pc, res, backfill, warm, warmDrop, destroying, forgetting, drainQ>>
poolVars == <<fields, calls>>

Elements(s) == {s[i] : i \in 1..Len(s)}

\* Array.splice(k, 1): s without its k-th element.
Splice(s, k) == [i \in 1..(Len(s) - 1) |-> IF i < k THEN s[i] ELSE s[i + 1]]

IndexOf(s, e) == CHOOSE k \in 1..Len(s) : s[k] = e

\* No element occurs twice.
Distinct(s) == \A i, j \in 1..Len(s) : s[i] = s[j] => i = j

PcStates == {"out", "validating", "discarding", "creating", "waiting", "holding"}

(***************************************************************************)
(* The connections in each of the pool's hands, and the names no           *)
(* connection uses.                                                        *)
(***************************************************************************)
Discarding == {res[c] : c \in {d \in Caller : pc[d] = "discarding"}}
DrainClosing == UNION {Elements(drainQ[h]) : h \in Host}
WarmClosing == UNION {warmDrop[w] : w \in Warmer}
InUse == Elements(idle) \cup active \cup handoff \cup destroying \cup forgetting
            \cup Discarding \cup DrainClosing \cup WarmClosing
Fresh == Resource \ InUse

\* Mutant: the size before __handoff was introduced.
sizeWithoutHandoff == Len(idle) + Cardinality(active) + pending

size == Len(idle) + Cardinality(active) + pending + Cardinality(handoff)

Init == /\ idle = <<>>
        /\ active = {}
        /\ waiters = <<>>
        /\ idleTimers = {}
        /\ pending = 0
        /\ handoff = {}
        /\ draining = FALSE
        /\ pc = [c \in Caller |-> "out"]
        /\ res = [c \in Caller |-> NoResource]
        /\ backfill = 0
        /\ warm = [w \in Warmer |-> 0]
        /\ warmDrop = [w \in Warmer |-> {}]
        /\ destroying = {}
        /\ forgetting = {}
        /\ drainQ = [h \in Host |-> <<>>]

-----------------------------------------------------------------------------
(* Helpers shared by several handlers.                                     *)

\* Mutant: the timer decision is taken before the push.
ParkCountsLate(r) ==
    /\ idle' = Append(idle, r)
    /\ idleTimers' = IF IdleEviction /\ Len(idle) + Cardinality(active') > Min
                     THEN idleTimers \cup {r} ELSE idleTimers

\* __idle.push followed by __scheduleIdleTimer; active' is what the caller of
\* this helper leaves in __active.
Park(r) ==
    /\ idle' = Append(idle, r)
    /\ idleTimers' =
          IF IdleEviction /\ Len(idle) + 1 + Cardinality(active') > Min
          THEN idleTimers \cup {r} ELSE idleTimers

Suspend(c, where, r) == /\ pc' = [pc EXCEPT ![c] = where]
                        /\ res' = [res EXCEPT ![c] = r]

\* Mutant: the resolved waiter stays in the queue.
ServeWithoutShift(r) ==
    \/ /\ waiters # <<>>
       /\ active' = active \cup {r}
       /\ Suspend(Head(waiters), "holding", r)
       /\ UNCHANGED <<idle, idleTimers, waiters>>
    \/ /\ waiters = <<>>
       /\ UNCHANGED <<waiters, active, pc, res>>
       /\ Park(r)

\* Mutant: a freed connection goes to the idle list past the queue.
ParkPastQueue(r) == /\ UNCHANGED <<waiters, active, pc, res>>
                    /\ Park(r)

\* __resolveWaiter, or the idle list when nobody waits.
ServeOrPark(r) ==
    \/ /\ waiters # <<>>
       /\ waiters' = Tail(waiters)
       /\ active' = active \cup {r}
       /\ Suspend(Head(waiters), "holding", r)
       /\ UNCHANGED <<idle, idleTimers>>
    \/ /\ waiters = <<>>
       /\ UNCHANGED <<waiters, active, pc, res>>
       /\ Park(r)

\* acquire from the head of its idle loop to the next await: claim an idle
\* connection and validate it, ...
ClaimIdle(c) ==
    /\ idle # <<>>
    /\ idle' = Tail(idle)
    /\ idleTimers' = idleTimers \ {Head(idle)}
    /\ active' = active \cup {Head(idle)}
    /\ Suspend(c, "validating", Head(idle))
    /\ UNCHANGED <<waiters, pending>>

\* ... create one below max, ...
BeginCreate(c) ==
    /\ idle = <<>>
    /\ size < Max
    /\ pending' = pending + 1
    /\ Suspend(c, "creating", NoResource)
    /\ UNCHANGED <<idle, active, waiters, idleTimers>>

\* ... or queue.
Enqueue(c) ==
    /\ idle = <<>>
    /\ size >= Max
    /\ waiters' = Append(waiters, c)
    /\ Suspend(c, "waiting", NoResource)
    /\ UNCHANGED <<idle, active, idleTimers, pending>>

Obtain(c) == ClaimIdle(c) \/ BeginCreate(c) \/ Enqueue(c)

\* Mutant: destroy does not backfill.
NoBackfill == 0

\* __pumpWaiters: one __createForWaiter per waiter, up to max.
Backfills == LET free == Max - size
             IN IF draining \/ free <= 0 THEN 0
                ELSE IF Len(waiters) < free THEN Len(waiters) ELSE free

\* ensureMin up to its Promise.all, on behalf of w; its two callers run it on
\* a pool that is not draining.
Shortfall == IF size >= Min THEN 0 ELSE Min - size
EnsureMin(w) == /\ pending' = pending + Shortfall
                /\ warm' = [warm EXCEPT ![w] = @ + Shortfall]

-----------------------------------------------------------------------------
(* acquire                                                                 *)

Acquire(c) ==
    /\ pc[c] = "out"
    /\ ~draining
    /\ Obtain(c)
    /\ UNCHANGED <<handoff, draining, backfill, warm, warmDrop, destroying,
                   forgetting, drainQ>>

AcquireValidated(c) ==
    /\ pc[c] = "validating"
    /\ Suspend(c, "holding", res[c])
    /\ UNCHANGED <<fields, backfill, warm, warmDrop, destroying, forgetting,
                   drainQ>>

\* Mutant: the dead connection is closed but stays claimed.
AcquireInvalidKeepsClaim(c) ==
    /\ pc[c] = "validating"
    /\ Suspend(c, "discarding", res[c])
    /\ UNCHANGED <<fields, backfill, warm, warmDrop, destroying, forgetting,
                   drainQ>>

\* The idle connection was dead: unclaim it and close it.
AcquireInvalid(c) ==
    /\ pc[c] = "validating"
    /\ active' = active \ {res[c]}
    /\ Suspend(c, "discarding", res[c])
    /\ UNCHANGED <<idle, waiters, idleTimers, pending, handoff, draining,
                   backfill, warm, warmDrop, destroying, forgetting, drainQ>>

\* It is closed: the loop goes round, without looking at __draining again.
AcquireDiscarded(c) ==
    /\ pc[c] = "discarding"
    /\ Obtain(c)
    /\ UNCHANGED <<handoff, draining, backfill, warm, warmDrop, destroying,
                   forgetting, drainQ>>

AcquireCreated(c, r) ==
    /\ pc[c] = "creating"
    /\ r \in Fresh
    /\ pending' = pending - 1
    /\ active' = active \cup {r}
    /\ Suspend(c, "holding", r)
    /\ UNCHANGED <<idle, waiters, idleTimers, handoff, draining, backfill,
                   warm, warmDrop, destroying, forgetting, drainQ>>

\* Mutant: no finally block around the factory call.
AcquireCreateFailedLeaks(c) ==
    /\ CreateMayFail
    /\ pc[c] = "creating"
    /\ Suspend(c, "out", NoResource)
    /\ UNCHANGED <<fields, backfill, warm, warmDrop, destroying, forgetting,
                   drainQ>>

\* Mutant: the error path decrements and so does the finally block.
AcquireCreateFailedTwice(c) ==
    /\ CreateMayFail
    /\ pc[c] = "creating"
    /\ pending' = pending - 2
    /\ Suspend(c, "out", NoResource)
    /\ UNCHANGED <<idle, active, waiters, idleTimers, handoff, draining,
                   backfill, warm, warmDrop, destroying, forgetting, drainQ>>

AcquireCreateFailed(c) ==
    /\ CreateMayFail
    /\ pc[c] = "creating"
    /\ pending' = pending - 1
    /\ Suspend(c, "out", NoResource)
    /\ UNCHANGED <<idle, active, waiters, idleTimers, handoff, draining,
                   backfill, warm, warmDrop, destroying, forgetting, drainQ>>

\* Mutant: the timed-out waiter is rejected but not taken off the queue.
AcquireTimeoutStaysQueued(c) ==
    /\ AcquireTimeouts
    /\ pc[c] = "waiting"
    /\ Suspend(c, "out", NoResource)
    /\ UNCHANGED <<fields, backfill, warm, warmDrop, destroying, forgetting,
                   drainQ>>

\* The waiter's timer fires: POOL_ACQUIRE_TIMEOUT.
AcquireTimeout(c) ==
    /\ AcquireTimeouts
    /\ pc[c] = "waiting"
    /\ c \in Elements(waiters)
    /\ waiters' = Splice(waiters, IndexOf(waiters, c))
    /\ Suspend(c, "out", NoResource)
    /\ UNCHANGED <<idle, active, idleTimers, pending, handoff, draining,
                   backfill, warm, warmDrop, destroying, forgetting, drainQ>>

-----------------------------------------------------------------------------
(* release, destroy and the hand-off                                       *)

Release(c) ==
    /\ pc[c] = "holding"
    /\ res[c] \in active
    /\ active' = active \ {res[c]}
    /\ Suspend(c, "out", NoResource)
    /\ \/ /\ draining
          /\ forgetting' = forgetting \cup {res[c]}
          /\ UNCHANGED <<idle, idleTimers, handoff>>
       \/ /\ ~draining
          /\ waiters = <<>>
          /\ Park(res[c])
          /\ UNCHANGED <<handoff, forgetting>>
       \/ /\ ~draining
          /\ waiters # <<>>
          /\ handoff' = handoff \cup {res[c]}
          /\ UNCHANGED <<idle, idleTimers, forgetting>>
    /\ UNCHANGED <<waiters, pending, draining, backfill, warm, warmDrop,
                   destroying, drainQ>>

\* __handToWaiter once validate has answered.
HandToWaiter(r) ==
    /\ r \in handoff
    /\ handoff' = handoff \ {r}
    /\ \/ /\ draining
          /\ forgetting' = forgetting \cup {r}
          /\ UNCHANGED <<idle, active, waiters, idleTimers, pc, res>>
       \/ /\ ~draining
          /\ ServeOrPark(r)
          /\ UNCHANGED forgetting
    /\ UNCHANGED <<pending, draining, backfill, warm, warmDrop, destroying,
                   drainQ>>

HandToWaiterInvalid(r) ==
    /\ r \in handoff
    /\ ~draining
    /\ handoff' = handoff \ {r}
    /\ destroying' = destroying \cup {r}
    /\ UNCHANGED <<idle, active, waiters, idleTimers, pending, draining, pc,
                   res, backfill, warm, warmDrop, forgetting, drainQ>>

\* destroy by the caller that holds the connection, up to the socket close.
Destroy(c) ==
    /\ pc[c] = "holding"
    /\ active' = active \ {res[c]}
    /\ handoff' = handoff \ {res[c]}
    /\ idleTimers' = idleTimers \ {res[c]}
    /\ destroying' = destroying \cup {res[c]}
    /\ Suspend(c, "out", NoResource)
    /\ UNCHANGED <<idle, waiters, pending, draining, backfill, warm, warmDrop,
                   forgetting, drainQ>>

\* The socket is closed: __pumpWaiters.
DestroyDone(r) ==
    /\ r \in destroying
    /\ destroying' = destroying \ {r}
    /\ pending' = pending + Backfills
    /\ backfill' = backfill + Backfills
    /\ UNCHANGED <<idle, active, waiters, idleTimers, handoff, draining, pc,
                   res, warm, warmDrop, forgetting, drainQ>>

\* A fire-and-forget __safeDestroyResource ends.
SafeDestroyed(r) ==
    /\ r \in forgetting
    /\ forgetting' = forgetting \ {r}
    /\ UNCHANGED <<fields, pc, res, backfill, warm, warmDrop, destroying,
                   drainQ>>

BackfillDone(r) ==
    /\ backfill > 0
    /\ r \in Fresh
    /\ backfill' = backfill - 1
    /\ pending' = pending - 1
    /\ \/ /\ draining
          /\ forgetting' = forgetting \cup {r}
          /\ UNCHANGED <<idle, active, waiters, idleTimers, pc, res>>
       \/ /\ ~draining
          /\ ServeOrPark(r)
          /\ UNCHANGED forgetting
    /\ UNCHANGED <<handoff, draining, warm, warmDrop, destroying, drainQ>>

\* The factory failed: the error goes to the waiter at the head, if any.
BackfillFailed ==
    /\ CreateMayFail
    /\ backfill > 0
    /\ backfill' = backfill - 1
    /\ pending' = pending - 1
    /\ \/ /\ waiters # <<>>
          /\ waiters' = Tail(waiters)
          /\ Suspend(Head(waiters), "out", NoResource)
       \/ /\ waiters = <<>>
          /\ UNCHANGED <<waiters, pc, res>>
    /\ UNCHANGED <<idle, active, idleTimers, handoff, draining, warm,
                   warmDrop, destroying, forgetting, drainQ>>

-----------------------------------------------------------------------------
(* ensureMin, drain, the idle timer and the draining setter                *)

\* The host awaits nothing of the pool: its ensureMin or drain has returned.
HostFree(h) == /\ warm[h] = 0
               /\ warmDrop[h] = {}
               /\ drainQ[h] = <<>>

\* The draining setter followed by ensureMin: what connect does to the pool.
Reopen(h) ==
    /\ HostFree(h)
    /\ draining' = FALSE
    /\ EnsureMin(h)
    /\ UNCHANGED <<idle, active, waiters, idleTimers, handoff, pc, res,
                   backfill, warmDrop, destroying, forgetting, drainQ>>

\* Mutant: __createWarm without its second look at __draining.
WarmCreatedBlindly(w, r) ==
    /\ warm[w] > 0
    /\ r \in Fresh
    /\ warm' = [warm EXCEPT ![w] = @ - 1]
    /\ pending' = pending - 1
    /\ UNCHANGED active
    /\ Park(r)
    /\ UNCHANGED <<waiters, handoff, draining, pc, res, backfill, warmDrop,
                   destroying, forgetting, drainQ>>

\* A __createWarm factory resolves: the idle list, whoever is waiting, or a
\* close when a drain came first.
WarmCreated(w, r) ==
    /\ warm[w] > 0
    /\ r \in Fresh
    /\ warm' = [warm EXCEPT ![w] = @ - 1]
    /\ pending' = pending - 1
    /\ UNCHANGED active
    /\ \/ /\ draining
          /\ warmDrop' = [warmDrop EXCEPT ![w] = @ \cup {r}]
          /\ UNCHANGED <<idle, idleTimers>>
       \/ /\ ~draining
          /\ Park(r)
          /\ UNCHANGED warmDrop
    /\ UNCHANGED <<waiters, handoff, draining, pc, res, backfill, destroying,
                   forgetting, drainQ>>

WarmDropped(w, r) ==
    /\ r \in warmDrop[w]
    /\ warmDrop' = [warmDrop EXCEPT ![w] = @ \ {r}]
    /\ UNCHANGED <<fields, pc, res, backfill, warm, destroying, forgetting,
                   drainQ>>

\* A factory rejects: Promise.all rejects at once and w no longer awaits the
\* creations still in flight.
WarmFailed(w) ==
    /\ CreateMayFail
    /\ warm[w] > 0
    /\ pending' = pending - 1
    /\ warm' = IF w = Background
               THEN [warm EXCEPT ![w] = @ - 1]
               ELSE [warm EXCEPT ![w] = 0, ![Background] = @ + warm[w] - 1]
    /\ warmDrop' = IF w = Background
                   THEN warmDrop
                   ELSE [warmDrop EXCEPT ![w] = {},
                                         ![Background] = @ \cup warmDrop[w]]
    /\ UNCHANGED <<idle, active, waiters, idleTimers, handoff, draining, pc,
                   res, backfill, destroying, forgetting, drainQ>>

\* drain up to its first await.  A draining pool returns at once.
Drain(h) ==
    /\ HostFree(h)
    /\ ~draining
    /\ draining' = TRUE
    /\ waiters' = <<>>
    /\ pc' = [c \in Caller |->
                 IF c \in Elements(waiters) THEN "out" ELSE pc[c]]
    /\ idle' = <<>>
    /\ drainQ' = [drainQ EXCEPT ![h] = idle]
    /\ idleTimers' = IF idle = <<>> THEN idleTimers
                     ELSE idleTimers \ {Head(idle)}
    /\ UNCHANGED <<active, pending, handoff, res, backfill, warm, warmDrop,
                   destroying, forgetting>>

\* One close of drain's loop ends and the next begins.
DrainStep(h) ==
    /\ drainQ[h] # <<>>
    /\ drainQ' = [drainQ EXCEPT ![h] = Tail(@)]
    /\ idleTimers' = IF Len(drainQ[h]) = 1 THEN idleTimers
                     ELSE idleTimers \ {drainQ[h][2]}
    /\ UNCHANGED <<idle, active, waiters, pending, handoff, draining, pc, res,
                   backfill, warm, warmDrop, destroying, forgetting>>

\* __onIdleTimeout
OnIdleTimeout(r) ==
    /\ r \in idleTimers
    /\ idleTimers' = idleTimers \ {r}
    /\ LET n == Len(idle) + Cardinality(active) IN
       \/ /\ r \in Elements(idle)
          /\ n > Min
          /\ idle' = Splice(idle, IndexOf(idle, r))
          /\ forgetting' = forgetting \cup {r}
          /\ UNCHANGED <<pending, warm>>
       \/ /\ r \in Elements(idle)
          /\ n < Min
          /\ ~draining
          /\ EnsureMin(Background)
          /\ UNCHANGED <<idle, forgetting>>
       \/ /\ r \notin Elements(idle) \/ n = Min \/ (n < Min /\ draining)
          /\ UNCHANGED <<idle, forgetting, pending, warm>>
    /\ UNCHANGED <<active, waiters, handoff, draining, pc, res, backfill,
                   warmDrop, destroying, drainQ>>

-----------------------------------------------------------------------------
\* A call to acquire that has begun goes on, or its connection comes back.
CallerProgress(c) == \/ AcquireValidated(c)
                     \/ AcquireInvalid(c)
                     \/ AcquireDiscarded(c)
                     \/ \E r \in Resource : AcquireCreated(c, r)
                     \/ AcquireCreateFailed(c)
                     \/ AcquireTimeout(c)
                     \/ Release(c)
                     \/ Destroy(c)

ConnectionStep(r) == \/ HandToWaiter(r)
                     \/ HandToWaiterInvalid(r)
                     \/ DestroyDone(r)
                     \/ SafeDestroyed(r)
                     \/ BackfillDone(r)
                     \/ OnIdleTimeout(r)

WarmStep(w) == \/ \E r \in Resource : WarmCreated(w, r) \/ WarmDropped(w, r)
               \/ WarmFailed(w)

\* What completes without the client's doing.
PoolStep == \/ \E r \in Resource : ConnectionStep(r)
            \/ BackfillFailed
            \/ \E w \in Warmer : WarmStep(w)
            \/ \E h \in Host : DrainStep(h)

HostStep(h) == Reopen(h) \/ Drain(h)

PoolNext == \/ \E c \in Caller : Acquire(c) \/ CallerProgress(c)
            \/ PoolStep
            \/ \E h \in Host : HostStep(h)

PoolSpec == Init /\ [][PoolNext]_poolVars

(***************************************************************************)
(* Fairness: every promise the pool awaits settles, and a caller gives     *)
(* back what it holds, one way or the other.                               *)
(***************************************************************************)
Settles ==
    /\ \A c \in Caller :
          /\ WF_poolVars(AcquireValidated(c) \/ AcquireInvalid(c))
          /\ WF_poolVars(AcquireDiscarded(c))
          /\ WF_poolVars(\/ \E r \in Resource : AcquireCreated(c, r)
                         \/ AcquireCreateFailed(c))
          /\ WF_poolVars(Release(c) \/ Destroy(c))
    /\ \A r \in Resource :
          /\ WF_poolVars(HandToWaiter(r) \/ HandToWaiterInvalid(r))
          /\ WF_poolVars(DestroyDone(r))
          /\ WF_poolVars(SafeDestroyed(r))
    /\ WF_poolVars(BackfillFailed \/ \E r \in Resource : BackfillDone(r))
    /\ \A w \in Warmer :
          /\ WF_poolVars(WarmFailed(w) \/ \E r \in Resource : WarmCreated(w, r))
          /\ WF_poolVars(\E r \in Resource : WarmDropped(w, r))
    /\ \A h \in Host : WF_poolVars(DrainStep(h))

\* Connections do not die for ever: a caller that keeps being lent one
\* releases one at last, and a hand-off validation succeeds at last.
MostlyHealthy ==
    /\ \A c \in Caller : SF_poolVars(Release(c))
    /\ SF_poolVars(\E r \in Resource : HandToWaiter(r))

\* A pool without a floor that nobody drains, whose factories answer and
\* whose callers wait as long as they must.
HealthyNext ==
    \/ \E c \in Caller :
          \/ Acquire(c) \/ AcquireValidated(c) \/ AcquireInvalid(c)
          \/ AcquireDiscarded(c) \/ \E r \in Resource : AcquireCreated(c, r)
          \/ Release(c) \/ Destroy(c)
    \/ \E r \in Resource :
          \/ HandToWaiter(r) \/ HandToWaiterInvalid(r)
          \/ DestroyDone(r) \/ BackfillDone(r)

HealthyPoolSpec == Init /\ [][HealthyNext]_poolVars /\ Settles /\ MostlyHealthy

-----------------------------------------------------------------------------
FieldsTypeOK ==
    /\ idle \in Seq(Resource)
    /\ active \in SUBSET Resource
    /\ waiters \in Seq(Caller)
    /\ idleTimers \in SUBSET Resource
    /\ handoff \in SUBSET Resource
    /\ draining \in BOOLEAN

CallsTypeOK ==
    /\ pc \in [Caller -> PcStates]
    /\ res \in [Caller -> Resource \cup {NoResource}]
    /\ backfill \in Nat
    /\ warm \in [Warmer -> Nat]
    /\ warmDrop \in [Warmer -> SUBSET Resource]
    /\ destroying \in SUBSET Resource
    /\ forgetting \in SUBSET Resource
    /\ drainQ \in [Host -> Seq(Resource)]

\* Among the rest, the counter of factory calls in flight never goes below 0.
TypeOK == FieldsTypeOK /\ CallsTypeOK /\ pending \in Nat

(***************************************************************************)
(* Capacity: the pool never owns more than max connections, factories in   *)
(* flight and hand-offs under validation included (the comments on         *)
(* __pending, __handoff and size() in ConnectionPool.ts).                  *)
(***************************************************************************)
CapacityBound ==
    Len(idle) + Cardinality(active) + pending + Cardinality(handoff) <= Max

(***************************************************************************)
(* Ownership: a connection is in one place at a time.  What is in __active *)
(* is exactly what callers are validating or hold, no two callers share a  *)
(* connection, and no connection that is being closed is idle, handed on   *)
(* or in a caller's hands: nothing leaks and nothing is lent twice.        *)
(***************************************************************************)
Claimants == {c \in Caller : pc[c] \in {"validating", "holding"}}
Workers   == {c \in Caller : pc[c] \in {"validating", "holding", "discarding"}}

Ownership ==
    /\ active = {res[c] : c \in Claimants}
    /\ \A c, d \in Workers : res[c] = res[d] => c = d
    /\ Distinct(idle)
    /\ Elements(idle) \cap (active \cup handoff) = {}
    /\ active \cap handoff = {}
    /\ \A r \in destroying \cup forgetting \cup Discarding \cup DrainClosing
                   \cup WarmClosing :
          r \notin Elements(idle) \cup active \cup handoff

\* The waiter queue is exactly the callers suspended in it, each once.
QueueExact ==
    /\ Elements(waiters) = {c \in Caller : pc[c] = "waiting"}
    /\ Distinct(waiters)

(***************************************************************************)
(* __pending counts the factory calls in flight, whoever made them, through*)
(* every failure and every drain: a lost decrement would shrink the pool   *)
(* for good, an extra one would let it exceed max.                         *)
(***************************************************************************)
InFlight == {<<"acquire", c, 1>> : c \in {d \in Caller : pc[d] = "creating"}}
               \cup {<<"backfill", NoResource, i>> : i \in 1..backfill}
               \cup UNION {{<<"warm", w, i>> : i \in 1..warm[w]} : w \in Warmer}

PendingExact == pending = Cardinality(InFlight)

(***************************************************************************)
(* drain empties __idle once; nothing is put there behind its back by a    *)
(* factory, a hand-off or a release that was under way (the comment in     *)
(* __createWarm: an orphaned socket and a dangling server session).        *)
(***************************************************************************)
DrainedHoldsNoIdle == draining => idle = <<>>

(***************************************************************************)
(* Idle eviction reaches down to the floor: at most min idle connections   *)
(* have no eviction timer, so once the callers are gone the timers take    *)
(* the pool back to min, whatever the order of releases, creations and     *)
(* evictions was (__scheduleIdleTimer decides from a snapshot).            *)
(***************************************************************************)
UntimedWithinFloor ==
    IdleEviction => Cardinality(Elements(idle) \ idleTimers) <= Min

(***************************************************************************)
(* A timer never outlives its connection's stay in the pool: it belongs to *)
(* an idle connection or to one that drain is about to close.              *)
(***************************************************************************)
TimersBelong == idleTimers \subseteq Elements(idle) \cup DrainClosing

(***************************************************************************)
(* Nobody queues while a connection is idle: acquire "returns an existing  *)
(* idle one if available" (ConnectionPool.ts:257).                         *)
(***************************************************************************)
NoIdleWhileWaiting == waiters # <<>> => idle = <<>>

(***************************************************************************)
(* A queued caller can always be reached: something the pool or another    *)
(* caller is doing will look at the queue when it ends.                    *)
(***************************************************************************)
NoLostWakeup ==
    waiters # <<>> => active \cup handoff \cup destroying \cup Discarding # {}
                         \/ pending > 0

(***************************************************************************)
(* Every queued caller is answered in the end, without a timeout.          *)
(***************************************************************************)
WaiterServed == \A c \in Caller : pc[c] = "waiting" ~> pc[c] # "waiting"

(***************************************************************************)
(* The pool is a correct lender of connections: every step of it is a step *)
(* of ConnectionLeases.                                                    *)
(***************************************************************************)
Lender == INSTANCE ConnectionLeases WITH
    live  <- Elements(idle) \cup active \cup handoff,
    lease <- [c \in Caller |-> IF pc[c] = "holding" THEN res[c] ELSE NoResource]

LendsCorrectly == Lender!Spec
=============================================================================
