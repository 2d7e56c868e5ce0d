------------------------- MODULE PooledEngineProofs -------------------------
(* The lifecycle of a pooled engine: it drives its pool as any client may, *)
(* so the pool's theorems hold in it; its draining pool is on its way to   *)
(* CLOSED; and a CLOSED engine whose connects and disconnects follow one   *)
(* another holds nothing.  Then the queue of a pool nobody drains.         *)
EXTENDS PooledEngine, ConnectionEvictionProofs

-----------------------------------------------------------------------------
(* The engine and its pool.                                                *)

\* Every step of the engine is a step of the pool or leaves it alone.
LEMMA EngineStep == EngineNext => [PoolNext]_poolVars
<1>1. ASSUME NEW h \in Host, Connect(h) PROVE PoolNext
  BY <1>1 DEF Connect, PoolNext, HostStep
<1>2. ASSUME NEW h \in Host, ConnectFailed(h) PROVE PoolNext
  BY <1>2 DEF ConnectFailed, PoolNext, PoolStep, WarmStep, Warmer
<1>3. ASSUME NEW h \in Host, ConnectCatch(h) \/ Disconnect(h)
      PROVE  PoolNext \/ UNCHANGED poolVars
  BY <1>3 DEF ConnectCatch, Disconnect, AwaitDrain, PoolNext, HostStep
<1>4. ASSUME NEW h \in Host, ConnectWarmed(h) \/ Closed(h) PROVE UNCHANGED poolVars
  BY <1>4 DEF ConnectWarmed, Closed
<1>5. ASSUME NEW c \in Caller, Operate(c) PROVE PoolNext
  BY <1>5 DEF Operate, PoolNext
<1>6. ASSUME Progress PROVE PoolNext
  BY <1>6 DEF Progress, PoolNext, PoolStep, WarmStep, Warmer
<1> QED
  BY <1>1, <1>2, <1>3, <1>4, <1>5, <1>6 DEF EngineNext

\* poolConnect, poolDisconnect and the operations of an engine use the pool
\* as ConnectionPool expects of its client: the engine refines the pool.
THEOREM EngineDrivesPool == EngineSpec => DrivesPool
<1>1. EngineInit => Init
  BY DEF EngineInit
<1>2. [EngineNext]_engineVars => [PoolNext]_poolVars
  BY EngineStep DEF engineVars
<1> QED
  BY <1>1, <1>2, PTL DEF EngineSpec, DrivesPool, PoolSpec

\* What holds of the pool under any client holds in the engine, through any
\* interleaving of connect, disconnect and the operations.
THEOREM EngineKeepsPool ==
    EngineSpec => /\ [](TypeOK /\ CapacityBound /\ Ownership /\ QueueExact /\ PendingExact)
                  /\ [](DrainedHoldsNoIdle /\ TimersBelong /\ UntimedWithinFloor)
                  /\ LendsCorrectly
<1>1. EngineSpec => PoolSpec
  BY EngineDrivesPool DEF DrivesPool
<1> QED
  BY <1>1, TypeCorrect, CapacityHolds, OwnershipHolds, QueueIsExact, PendingIsExact,
     DrainedStaysEmpty, TimersAlwaysBelong, EvictionReachesFloor, LendingIsCorrect, PTL

-----------------------------------------------------------------------------
(* Draining is closing.                                                    *)

OpTypes == /\ status \in {"CLOSED", "CONNECTING", "READY"}
           /\ op \in [Host -> OpStates]

\* Only the hosts set the draining flag.
LEMMA DrainingKept ==
    /\ \A c \in Caller : Operate(c) => UNCHANGED <<draining, status, op>>
    /\ Progress => UNCHANGED <<draining, status, op>>
    /\ \A h \in Host : WarmFailed(h) => UNCHANGED draining
<1>1. ASSUME NEW c \in Caller, Operate(c) PROVE UNCHANGED <<draining, status, op>>
  BY <1>1, Zenon DEF Operate, Acquire, CallerProgress, AcquireValidated, AcquireInvalid,
       AcquireDiscarded, AcquireCreated, AcquireCreateFailed, AcquireTimeout, Release,
       Destroy, fields
<1>2. ASSUME Progress PROVE UNCHANGED <<draining, status, op>>
  BY <1>2 DEF Progress, ConnectionStep, HandToWaiter, HandToWaiterInvalid, DestroyDone,
       SafeDestroyed, BackfillDone, OnIdleTimeout, BackfillFailed, WarmCreated,
       WarmDropped, WarmFailed, DrainStep, fields
<1>3. ASSUME NEW h \in Host, WarmFailed(h) PROVE UNCHANGED draining
  BY <1>3 DEF WarmFailed
<1> QED
  BY <1>1, <1>2, <1>3

LEMMA OpTypesNext == OpTypes /\ [EngineNext]_engineVars => OpTypes'
<1> SUFFICES ASSUME OpTypes, [EngineNext]_engineVars PROVE OpTypes'
  OBVIOUS
<1>1. ASSUME NEW h \in Host, \/ Connect(h) \/ ConnectWarmed(h) \/ ConnectFailed(h)
                             \/ ConnectCatch(h) \/ Disconnect(h) \/ Closed(h)
      PROVE  OpTypes'
  BY <1>1 DEF Connect, ConnectWarmed, ConnectFailed, ConnectCatch, Disconnect, Closed,
              OpTypes, OpStates
<1>2. ASSUME UNCHANGED <<status, op>> PROVE OpTypes'
  BY <1>2 DEF OpTypes
<1> QED
  BY <1>1, <1>2, DrainingKept DEF EngineNext, engineVars

LEMMA ClosingNext ==
    ASSUME OpTypes, draining \in BOOLEAN, DrainingIsClosing, [EngineNext]_engineVars
    PROVE  DrainingIsClosing'
<1>1. ASSUME NEW h \in Host, Connect(h) PROVE ~draining'
  BY <1>1, Zenon DEF Connect, Reopen
<1>2. ASSUME NEW h \in Host, ConnectWarmed(h) PROVE DrainingIsClosing'
  <2>1. UNCHANGED draining
    BY <1>2 DEF ConnectWarmed, poolVars, fields
  <2>2. CASE draining
    BY <1>2, <2>2 DEF ConnectWarmed, OpTypes, DrainingIsClosing
  <2>3. CASE ~draining
    BY <2>1, <2>3 DEF DrainingIsClosing
  <2> QED
    BY <2>2, <2>3
<1>3. ASSUME NEW h \in Host, ConnectFailed(h) \/ ConnectCatch(h) \/ Disconnect(h)
      PROVE  DrainingIsClosing'
  BY <1>3 DEF ConnectFailed, ConnectCatch, Disconnect, OpTypes, DrainingIsClosing
<1>4. ASSUME NEW h \in Host, Closed(h) PROVE DrainingIsClosing'
  BY <1>4 DEF Closed, DrainingIsClosing
<1>5. ASSUME UNCHANGED <<draining, status, op>> PROVE DrainingIsClosing'
  BY <1>5 DEF DrainingIsClosing
<1>6. CASE UNCHANGED engineVars
  BY <1>5, <1>6 DEF engineVars, poolVars, fields
<1>7. ~draining' => DrainingIsClosing'
  BY DEF DrainingIsClosing
<1> QED
  BY <1>1, <1>2, <1>3, <1>4, <1>5, <1>6, <1>7, DrainingKept DEF EngineNext

\* An engine whose pool refuses work is CLOSED or has a connect or a
\* disconnect in flight that closes it or reopens the pool: acquire never
\* throws POOL_DRAINING for good (poolConnect's second look at draining).
THEOREM DrainingIsClosingHolds == EngineSpec => []DrainingIsClosing
<1>1. EngineInit => OpTypes /\ DrainingIsClosing
  BY DEF EngineInit, Init, OpTypes, OpStates, DrainingIsClosing
<1>2. Sized /\ OpTypes /\ DrainingIsClosing /\ [EngineNext]_engineVars
        => (OpTypes /\ DrainingIsClosing)'
  BY OpTypesNext, ClosingNext DEF Sized, Shape, FieldsTypeOK
<1>3. EngineSpec => []Sized
  BY EngineDrivesPool, SizedInvariant, PTL DEF DrivesPool
<1> QED
  BY <1>1, <1>2, <1>3, PTL DEF EngineSpec

\* The engine's type invariant: the pool's under any client, with a status and
\* the hosts' calls that connect() and disconnect() can be in.
THEOREM EngineTypesHold == EngineSpec => []EngineTypeOK
<1>1. EngineInit => OpTypes
  BY DEF EngineInit, OpTypes, OpStates
<1>2. EngineSpec => []TypeOK
  BY EngineKeepsPool, PTL
<1>3. TypeOK /\ OpTypes => EngineTypeOK
  BY DEF OpTypes, EngineTypeOK
<1> QED
  BY <1>1, OpTypesNext, <1>2, <1>3, PTL DEF EngineSpec

-----------------------------------------------------------------------------
(* A closed engine.                                                        *)

\* Connects and disconnects follow one another.
OneHost == \A g, h \in Host : g = h

\* What a drain closed stays closed, and a CLOSED engine that never drained
\* never worked: its pool is as new.
ClosedInv ==
    /\ \A h \in Host : /\ op[h] = "closing" => draining
                       /\ op[h] # "off" => status # "CLOSED"
    /\ status = "CLOSED" => draining \/ Init

\* Nothing is under way in a new pool.
LEMMA NewPoolIsStill ==
    ASSUME Init
    PROVE  /\ \A c \in Caller : ~CallerProgress(c)
           /\ ~PoolStep
           /\ \A h \in Host : ~WarmFailed(h)
<1>1. ASSUME NEW c \in Caller PROVE ~CallerProgress(c)
  BY <1>1 DEF Init, CallerProgress, AcquireValidated, AcquireInvalid, AcquireDiscarded,
       AcquireCreated, AcquireCreateFailed, AcquireTimeout, Release, Destroy
<1>2. ASSUME NEW r \in Resource PROVE ~ConnectionStep(r)
  BY DEF Init, ConnectionStep, HandToWaiter, HandToWaiterInvalid, DestroyDone,
       SafeDestroyed, BackfillDone, OnIdleTimeout
<1>3. ASSUME NEW w \in Warmer PROVE ~WarmStep(w)
  BY DEF Init, WarmStep, WarmCreated, WarmDropped, WarmFailed
<1>4. ~BackfillFailed /\ \A h \in Host : ~DrainStep(h)
  BY DEF Init, BackfillFailed, DrainStep
<1> QED
  BY <1>1, <1>2, <1>3, <1>4 DEF PoolStep, WarmStep, Warmer

\* The hosts' steps, with one host.
LEMMA ClosedHost ==
    ASSUME OneHost, OpTypes, draining \in BOOLEAN, ClosedInv, NEW h \in Host,
           \/ Connect(h) \/ ConnectWarmed(h) \/ ConnectFailed(h)
           \/ ConnectCatch(h) \/ Disconnect(h) \/ Closed(h)
    PROVE  ClosedInv'
<1> SUFFICES /\ op'[h] = "closing" => draining'
             /\ op'[h] # "off" => status' # "CLOSED"
             /\ status' = "CLOSED" => draining'
  BY DEF OneHost, ClosedInv
<1>1. CASE Connect(h)
  BY <1>1 DEF Connect, OpTypes
<1>2. CASE ConnectWarmed(h)
  <2>1. UNCHANGED draining /\ status # "CLOSED"
    BY <1>2 DEF ConnectWarmed, poolVars, fields, ClosedInv
  <2>2. CASE draining
    BY <1>2, <2>1, <2>2 DEF ConnectWarmed, OpTypes
  <2>3. CASE ~draining
    BY <1>2, <2>1, <2>3 DEF ConnectWarmed, OpTypes
  <2> QED
    BY <2>2, <2>3
<1>3. CASE ConnectFailed(h)
  BY <1>3 DEF ConnectFailed, OpTypes, ClosedInv
<1>4. CASE ConnectCatch(h) \/ Disconnect(h)
  <2>1. draining'
    BY <1>4, Zenon DEF ConnectCatch, Disconnect, AwaitDrain, Drain, poolVars, fields
  <2> QED
    BY <1>4, <2>1 DEF ConnectCatch, Disconnect, OpTypes, ClosedInv
<1>5. CASE Closed(h)
  <2>1. draining /\ UNCHANGED draining
    BY <1>5 DEF Closed, ClosedInv, poolVars, fields
  <2>2. draining'
    BY <2>1, Zenon
  <2> QED
    BY <1>5, <2>2 DEF Closed, OpTypes
<1> QED
  BY <1>1, <1>2, <1>3, <1>4, <1>5

LEMMA ClosedNext ==
    ASSUME OneHost, OpTypes, draining \in BOOLEAN, ClosedInv, [EngineNext]_engineVars
    PROVE  ClosedInv'
<1>1. ASSUME UNCHANGED <<draining, status, op>>, status = "CLOSED" => ~Init
      PROVE  ClosedInv'
  <2>1. status' = "CLOSED" => draining'
    BY <1>1, Zenon DEF ClosedInv
  <2> QED
    BY <1>1, <2>1 DEF ClosedInv
<1>2. ASSUME NEW c \in Caller, Operate(c) PROVE ClosedInv'
  <2>1. status = "CLOSED" => ~Init
    BY <1>2, NewPoolIsStill DEF Operate
  <2> QED
    BY <1>1, <1>2, <2>1, DrainingKept
<1>3. CASE Progress
  <2>1. ~Init
    BY <1>3, NewPoolIsStill DEF Progress, PoolStep, WarmStep, Warmer
  <2> QED
    BY <1>1, <1>3, <2>1, DrainingKept
<1>4. CASE UNCHANGED engineVars
  <2>1. Init => Init'
    BY <1>4 DEF engineVars, poolVars, fields, calls, Init
  <2>2. UNCHANGED <<draining, status, op>>
    BY <1>4 DEF engineVars, poolVars, fields
  <2>3. status' = "CLOSED" => draining' \/ Init'
    BY <2>1, <2>2, Zenon DEF ClosedInv
  <2> QED
    BY <2>2, <2>3 DEF ClosedInv
<1> QED
  BY <1>2, <1>3, <1>4, ClosedHost DEF EngineNext

\* disconnect() leaves nothing behind: where connects and disconnects follow
\* one another, a CLOSED engine has no idle connection, although operations,
\* warm-ups and closes of its past are still under way.
THEOREM ClosedHoldsNoIdleHolds ==
    ASSUME OneHost
    PROVE  EngineSpec => []ClosedHoldsNoIdle
<1>1. EngineInit => OpTypes /\ ClosedInv
  BY DEF EngineInit, Init, OpTypes, OpStates, ClosedInv
<1>2. Sized /\ OpTypes /\ ClosedInv /\ [EngineNext]_engineVars => (OpTypes /\ ClosedInv)'
  BY OpTypesNext, ClosedNext DEF Sized, Shape, FieldsTypeOK
<1>3. EngineSpec => []Sized /\ []DrainedHoldsNoIdle
  BY EngineDrivesPool, SizedInvariant, DrainedStaysEmpty, PTL DEF DrivesPool
<1>4. ClosedInv /\ DrainedHoldsNoIdle => ClosedHoldsNoIdle
  BY DEF ClosedInv, DrainedHoldsNoIdle, ClosedHoldsNoIdle, Init
<1> QED
  BY <1>1, <1>2, <1>3, <1>4, PTL DEF EngineSpec

-----------------------------------------------------------------------------
(* The queue of a pool without a floor that nobody drains.                 *)

LEMMA HealthyStep == [HealthyNext]_poolVars => [PoolNext]_poolVars
BY DEF HealthyNext, PoolNext, CallerProgress, PoolStep, ConnectionStep

LEMMA HealthyKeepsOpen ==
    HealthyNext => UNCHANGED draining
BY DEF HealthyNext, Acquire, AcquireValidated, AcquireInvalid, AcquireDiscarded,
       AcquireCreated, Release, Destroy, HandToWaiter, HandToWaiterInvalid, DestroyDone,
       BackfillDone, fields

LEMMA QueueNext ==
    ASSUME NoIdleWhileWaiting, [HealthyNext]_poolVars
    PROVE  NoIdleWhileWaiting'
<1>1. ASSUME UNCHANGED <<idle, waiters>> PROVE NoIdleWhileWaiting'
  BY <1>1 DEF NoIdleWhileWaiting
<1>2. ASSUME NEW c \in Caller, Obtain(c) PROVE NoIdleWhileWaiting'
  BY <1>2 DEF Obtain, ClaimIdle, BeginCreate, Enqueue, NoIdleWhileWaiting
<1>3. ASSUME NEW r \in Resource, ServeOrPark(r) PROVE NoIdleWhileWaiting'
  BY <1>3 DEF ServeOrPark, NoIdleWhileWaiting
<1>4. ASSUME NEW c \in Caller, Release(c) PROVE NoIdleWhileWaiting'
  BY <1>4 DEF Release, NoIdleWhileWaiting
<1>5. ASSUME NEW c \in Caller,
             \/ Acquire(c) \/ AcquireValidated(c) \/ AcquireInvalid(c)
             \/ AcquireDiscarded(c) \/ Destroy(c) \/ \E r \in Resource : AcquireCreated(c, r)
      PROVE  NoIdleWhileWaiting'
  BY <1>1, <1>2, <1>5 DEF Acquire, AcquireValidated, AcquireInvalid, AcquireDiscarded,
       AcquireCreated, Destroy, fields
<1>6. ASSUME NEW r \in Resource,
             HandToWaiter(r) \/ HandToWaiterInvalid(r) \/ DestroyDone(r) \/ BackfillDone(r)
      PROVE  NoIdleWhileWaiting'
  BY <1>1, <1>3, <1>6 DEF HandToWaiter, HandToWaiterInvalid, DestroyDone, BackfillDone
<1>7. CASE UNCHANGED poolVars
  BY <1>1, <1>7 DEF poolVars, fields
<1> QED
  BY <1>4, <1>5, <1>6, <1>7 DEF HealthyNext

\* Nobody queues while a connection is idle: every connection that comes
\* free meets the queue before the idle list (release, __handToWaiter,
\* __createForWaiter).
THEOREM NoIdleWhileWaitingHolds == HealthyPoolSpec => []NoIdleWhileWaiting
<1>1. Init => NoIdleWhileWaiting
  BY DEF Init, NoIdleWhileWaiting
<1> QED
  BY <1>1, QueueNext, PTL DEF HealthyPoolSpec

\* A full pool with no idle connection has one under way.
LEMMA FullIsBusy ==
    ASSUME Sized, size >= Max, idle = <<>>
    PROVE  active \cup handoff # {} \/ pending > 0
<1>1. pending \in Int /\ Cardinality({}) = 0 /\ Len(<<>>) = 0
  BY FS_EmptySet DEF Sized, Shape
<1> QED
  BY <1>1, SizingAssumption DEF size

LEMMA WakeupNext ==
    ASSUME Sized, pending' \in Nat, Ownership, ~draining, NoIdleWhileWaiting, NoLostWakeup,
           [HealthyNext]_poolVars
    PROVE  NoLostWakeup'
<1>0. /\ pending \in Nat /\ pc \in [Caller -> PcStates]
      /\ res \in [Caller -> Resource \cup {NoResource}]
  BY FS_CardinalityType DEF Sized, Shape, CallsTypeOK, Counted, PendingExact
<1>1. ASSUME NEW r, r \in active' \cup handoff' \cup destroying' PROVE NoLostWakeup'
  BY <1>1 DEF NoLostWakeup
<1>2. ASSUME waiters' = <<>> \/ pending' > 0 PROVE NoLostWakeup'
  BY <1>2 DEF NoLostWakeup
<1>3. ASSUME UNCHANGED <<active, handoff, pending>>, active \cup handoff # {} \/ pending > 0
      PROVE  NoLostWakeup'
  BY <1>3 DEF NoLostWakeup
<1>4. ASSUME NEW c \in Caller, Acquire(c) \/ AcquireDiscarded(c) PROVE NoLostWakeup'
  <2>1. Obtain(c) /\ UNCHANGED handoff
    BY <1>4 DEF Acquire, AcquireDiscarded
  <2>2. CASE ClaimIdle(c)
    BY <1>1, <2>2 DEF ClaimIdle
  <2>3. CASE BeginCreate(c)
    BY <1>0, <1>2, <2>3 DEF BeginCreate
  <2>4. CASE Enqueue(c)
    BY <1>3, <2>1, <2>4, FullIsBusy DEF Enqueue
  <2> QED
    BY <2>1, <2>2, <2>3, <2>4 DEF Obtain
<1>5. ASSUME NEW c \in Caller, AcquireValidated(c) PROVE NoLostWakeup'
  <2>1. res[c] \in active
    BY <1>5 DEF AcquireValidated, Ownership, Claimants
  <2> QED
    BY <1>1, <1>5, <2>1 DEF AcquireValidated, fields
<1>6. ASSUME NEW c \in Caller, AcquireInvalid(c) PROVE NoLostWakeup'
  <2>1. pc'[c] = "discarding"
    BY <1>0, <1>6 DEF AcquireInvalid, Suspend
  <2>2. res'[c] \in Discarding'
    BY <2>1 DEF Discarding
  <2> QED
    BY <2>2 DEF NoLostWakeup
<1>7. ASSUME NEW c \in Caller, NEW r \in Resource, AcquireCreated(c, r) PROVE NoLostWakeup'
  BY <1>1, <1>7 DEF AcquireCreated
<1>8. ASSUME NEW c \in Caller, Release(c) PROVE NoLostWakeup'
  BY <1>1, <1>2, <1>8 DEF Release
<1>9. ASSUME NEW c \in Caller, Destroy(c) PROVE NoLostWakeup'
  BY <1>1, <1>9 DEF Destroy
<1>10. ASSUME NEW r \in Resource, HandToWaiter(r) \/ BackfillDone(r) PROVE NoLostWakeup'
  <2>1. ServeOrPark(r)
    BY <1>10 DEF HandToWaiter, BackfillDone
  <2> QED
    BY <1>1, <1>2, <2>1 DEF ServeOrPark
<1>11. ASSUME NEW r \in Resource, HandToWaiterInvalid(r) PROVE NoLostWakeup'
  BY <1>1, <1>11 DEF HandToWaiterInvalid
<1>12. ASSUME NEW r \in Resource, DestroyDone(r) PROVE NoLostWakeup'
  <2>1. /\ pending' = pending + Backfills /\ UNCHANGED <<active, handoff, waiters>>
        /\ Backfills \in Nat
    BY <1>12, BackfillsFacts DEF DestroyDone, Sized
  <2>2. CASE waiters = <<>>
    BY <1>2, <2>1, <2>2
  <2>3. CASE Backfills > 0
    BY <1>0, <1>2, <2>1, <2>3
  <2>4. CASE waiters # <<>> /\ Backfills = 0
    <3>1. Len(waiters) \in Nat \ {0} /\ size \in Int
      BY <2>4, SizeFacts DEF Sized, Shape, FieldsTypeOK
    <3>2. size >= Max
      BY <2>4, <3>1, SizingAssumption DEF Backfills
    <3>3. active \cup handoff # {} \/ pending > 0
      BY <2>4, <3>2, FullIsBusy DEF NoIdleWhileWaiting
    <3>4. pending' = pending
      BY <1>0, <2>1, <2>4
    <3> QED
      BY <1>3, <2>1, <3>3, <3>4
  <2> QED
    BY <2>1, <2>2, <2>3, <2>4
<1>13. CASE UNCHANGED poolVars
  BY <1>13 DEF poolVars, fields, calls, NoLostWakeup, Discarding
<1> QED
  BY <1>4, <1>5, <1>6, <1>7, <1>8, <1>9, <1>10, <1>11, <1>12, <1>13 DEF HealthyNext

\* No wakeup is lost: while a caller waits, some caller works on or holds a
\* connection, or one is handed on, closed or created, and each of these
\* looks at the queue when it ends (release, destroy and __pumpWaiters).
\* This is the safety half of WaiterServed.
THEOREM NoLostWakeupHolds == HealthyPoolSpec => []NoLostWakeup
<1>1. Init => NoLostWakeup /\ NoIdleWhileWaiting /\ ~draining
  BY DEF Init, NoLostWakeup, NoIdleWhileWaiting
<1>2. HealthyPoolSpec => PoolSpec
  BY HealthyStep, PTL DEF HealthyPoolSpec, PoolSpec
<1>3. ~draining /\ [HealthyNext]_poolVars => ~draining'
  <2>1. [HealthyNext]_poolVars => UNCHANGED draining
    BY HealthyKeepsOpen DEF poolVars, fields
  <2> QED
    BY <2>1, Zenon
<1>4. /\ Sized /\ TypeOK' /\ Ownership /\ ~draining /\ NoIdleWhileWaiting /\ NoLostWakeup
      /\ [HealthyNext]_poolVars
      => NoLostWakeup'
  BY WakeupNext DEF TypeOK
<1> QED
  BY <1>1, <1>2, <1>3, <1>4, QueueNext, SizedInvariant, TypeCorrect, OwnershipHolds, PTL
     DEF HealthyPoolSpec
=============================================================================
