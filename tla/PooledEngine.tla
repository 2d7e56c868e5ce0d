---------------------------- MODULE PooledEngine ----------------------------
(***************************************************************************)
(* The lifecycle of a pooled engine (packages/drivers/poolLifecycle.ts)    *)
(* over its connection pool.  A host is one invocation of connect() or of  *)
(* disconnect(); several may be in flight, because every engine operation  *)
(* awaits connect() before it acquires.                                    *)
(***************************************************************************)
EXTENDS ConnectionPool

VARIABLES
    status,  \* _status
    op       \* where each connect or disconnect in flight is suspended

engineVars == <<poolVars, status, op>>

OpStates == {"off", "warming", "failed", "closing"}

EngineInit == /\ Init
              /\ status = "CLOSED"
              /\ op = [h \in Host |-> "off"]

\* poolConnect up to the await of ensureMin.
Connect(h) ==
    /\ op[h] = "off"
    /\ status = "CLOSED"
    /\ status' = "CONNECTING"
    /\ op' = [op EXCEPT ![h] = "warming"]
    /\ Reopen(h)

\* Mutant: connect does not look at draining again before READY.
ConnectWarmedBlindly(h) ==
    /\ op[h] = "warming"
    /\ HostFree(h)
    /\ status' = "READY"
    /\ op' = [op EXCEPT ![h] = "off"]
    /\ UNCHANGED poolVars

\* ensureMin resolved.  A disconnect may have landed in the meantime; then
\* the drain that is awaited returns at once and CLOSED follows.
ConnectWarmed(h) ==
    /\ op[h] = "warming"
    /\ HostFree(h)
    /\ \/ /\ draining
          /\ op' = [op EXCEPT ![h] = "closing"]
          /\ UNCHANGED status
       \/ /\ ~draining
          /\ status' = "READY"
          /\ op' = [op EXCEPT ![h] = "off"]
    /\ UNCHANGED poolVars

\* One warm creation failed, which rejects ensureMin...
ConnectFailed(h) ==
    /\ op[h] = "warming"
    /\ WarmFailed(h)
    /\ op' = [op EXCEPT ![h] = "failed"]
    /\ UNCHANGED status

\* Mutant: the flag is set through the engine's accessor before drain is
\* called, which then returns at once.
AwaitDrainFlagFirst(h) ==
    /\ HostFree(h)
    /\ draining' = TRUE
    /\ UNCHANGED <<idle, active, waiters, idleTimers, pending, handoff, calls>>

\* await drain(): a pool that is already draining returns at once.
AwaitDrain(h) == \/ Drain(h)
                 \/ draining /\ UNCHANGED poolVars

\* Mutant: the catch block resets the status and drains nothing.
ConnectCatchWithoutDrain(h) ==
    /\ op[h] = "failed"
    /\ op' = [op EXCEPT ![h] = "closing"]
    /\ UNCHANGED <<poolVars, status>>

\* ...and its catch block drains what the siblings created.
ConnectCatch(h) ==
    /\ op[h] = "failed"
    /\ op' = [op EXCEPT ![h] = "closing"]
    /\ AwaitDrain(h)
    /\ UNCHANGED status

\* poolDisconnect up to the await of drain.
Disconnect(h) ==
    /\ op[h] = "off"
    /\ status # "CLOSED"
    /\ op' = [op EXCEPT ![h] = "closing"]
    /\ AwaitDrain(h)
    /\ UNCHANGED status

\* Mutant: the failure paths of connect leave the status as it is.
ClosedKeepsStatus(h) ==
    /\ op[h] = "closing"
    /\ HostFree(h)
    /\ op' = [op EXCEPT ![h] = "off"]
    /\ UNCHANGED <<poolVars, status>>

\* The awaited drain returned, in disconnect or in one of connect's two
\* failure paths.
Closed(h) ==
    /\ op[h] = "closing"
    /\ HostFree(h)
    /\ status' = "CLOSED"
    /\ op' = [op EXCEPT ![h] = "off"]
    /\ UNCHANGED poolVars

\* ping, or an operation after its own connect() returned, uses the pool.  A
\* pool that is CLOSED by then drains, and refuses the acquire.
Operate(c) == /\ \/ status # "CLOSED" /\ Acquire(c)
                 \/ CallerProgress(c)
              /\ UNCHANGED <<status, op>>

Progress ==
    /\ \/ \E r \in Resource : ConnectionStep(r)
       \/ BackfillFailed
       \/ \E w \in Warmer, r \in Resource : WarmCreated(w, r) \/ WarmDropped(w, r)
       \/ WarmFailed(Background)
       \/ \E h \in Host : DrainStep(h)
    /\ UNCHANGED <<status, op>>

EngineNext ==
    \/ \E h \in Host : \/ Connect(h) \/ ConnectWarmed(h) \/ ConnectFailed(h)
                       \/ ConnectCatch(h) \/ Disconnect(h) \/ Closed(h)
    \/ \E c \in Caller : Operate(c)
    \/ Progress

EngineSpec == EngineInit /\ [][EngineNext]_engineVars

\* Beyond what Settles grants, an awaiting connect or disconnect resumes.
FairEngineSpec ==
    /\ EngineSpec
    /\ Settles
    /\ \A h \in Host :
          /\ WF_engineVars(ConnectWarmed(h))
          /\ WF_engineVars(ConnectFailed(h)
                              \/ \E r \in Resource : /\ WarmCreated(h, r)
                                                     /\ UNCHANGED <<status, op>>)
          /\ WF_engineVars(ConnectCatch(h))
          /\ WF_engineVars(Closed(h))

-----------------------------------------------------------------------------
EngineTypeOK == /\ TypeOK
                /\ status \in {"CLOSED", "CONNECTING", "READY"}
                /\ op \in [Host -> OpStates]

(***************************************************************************)
(* The engine drives its pool only as ConnectionPool expects of a client,  *)
(* so what holds of the pool under any client holds in the engine.         *)
(***************************************************************************)
DrivesPool == PoolSpec

(***************************************************************************)
(* A READY engine whose pool refuses work is on its way to CLOSED: some    *)
(* disconnect or failed connect in flight will close it.  Otherwise every  *)
(* acquire would throw POOL_DRAINING for good, since connect() returns     *)
(* early unless the engine is CLOSED (the comment in poolConnect).         *)
(***************************************************************************)
DrainingIsClosing ==
    draining /\ status # "CLOSED" =>
        \E h \in Host : op[h] \in {"warming", "failed", "closing"}

(***************************************************************************)
(* A CLOSED engine holds no idle connection: disconnect() returns early on *)
(* CLOSED, so nothing would ever close one.                                *)
(***************************************************************************)
ClosedHoldsNoIdle == status = "CLOSED" => idle = <<>>

(***************************************************************************)
(* drain finishes: a draining pool ends up owning nothing, however many    *)
(* factories, hand-offs and holders were under way, unless a connect       *)
(* reopens it first.                                                       *)
(***************************************************************************)
DrainEmpties == draining ~> (~draining \/ InUse = {})

(***************************************************************************)
(* connect() settles: the engine never stays CONNECTING, a state in which  *)
(* a further connect() returns at once without having connected.           *)
(***************************************************************************)
ConnectSettles == status = "CONNECTING" ~> status # "CONNECTING"
=============================================================================
