---------------------- MODULE ConnectionEvictionProofs ----------------------
(* Idle timers: proofs that none outlives its connection's stay in the     *)
(* pool, and that eviction can always take the idle list down to min.      *)
EXTENDS ConnectionOwnershipProofs

-----------------------------------------------------------------------------
(* What a step may do to the idle list and its timers.                     *)

Parked(r) == /\ r \notin Elements(idle) \cup Closing
             /\ Elements(idle') = Elements(idle) \cup {r}
             /\ \/ idleTimers' = idleTimers \cup {r}
                \/ /\ idleTimers' = idleTimers
                   /\ IdleEviction => Len(idle') <= Min

Unparked(r) == /\ Elements(idle') = Elements(idle) \ {r}
               /\ idleTimers' = idleTimers \ {r}

Untimed(r) == /\ Elements(idle') = Elements(idle)
              /\ idleTimers' = idleTimers \ {r}
              /\ r \notin Elements(idle) \/ Len(idle) <= Min

IdleChange == \/ UNCHANGED <<idle, idleTimers>>
              \/ \E r \in Resource : Parked(r) \/ Unparked(r) \/ Untimed(r)

\* A connection that is in no place is parked.
LEMMA ParkStep ==
    ASSUME Shape, Finite', Distinct(idle), NEW r \in Resource, Park(r),
           r \notin Elements(idle) \cup Closing
    PROVE  IdleChange
<1>1. Elements(idle') = Elements(idle) \cup {r} /\ Len(idle') = Len(idle) + 1
  BY AppendFacts DEF Park, Shape, FieldsTypeOK
<1>2. Cardinality(active') \in Nat /\ Len(idle) \in Nat /\ Min \in Nat
  BY FS_CardinalityType, SizingAssumption DEF Finite, Shape, FieldsTypeOK
<1>3. \/ idleTimers' = idleTimers \cup {r}
      \/ idleTimers' = idleTimers /\ (IdleEviction => Len(idle') <= Min)
  BY <1>1, <1>2 DEF Park
<1>4. Parked(r)
  BY <1>1, <1>3 DEF Parked
<1> QED
  BY <1>4 DEF IdleChange

\* acquire's loop takes the head of the list or leaves it alone.
LEMMA ObtainStep ==
    ASSUME Shape, Distinct(idle), NEW c \in Caller, Obtain(c)
    PROVE  IdleChange
<1>1. CASE ClaimIdle(c)
  <2>1. PICK r \in Resource : r = Head(idle)
    BY <1>1, TailFacts DEF ClaimIdle, Shape, FieldsTypeOK
  <2>2. Elements(idle') = Elements(idle) \ {r}
    BY <1>1, <2>1, TailFacts DEF ClaimIdle, Shape, FieldsTypeOK
  <2>3. Unparked(r)
    BY <1>1, <2>1, <2>2 DEF ClaimIdle, Unparked
  <2> QED
    BY <2>3 DEF IdleChange
<1>2. CASE BeginCreate(c) \/ Enqueue(c)
  BY <1>2 DEF BeginCreate, Enqueue, IdleChange
<1> QED
  BY <1>1, <1>2 DEF Obtain

\* Every step other than drain's does one of these.
LEMMA IdleStep ==
    ASSUME Shape, Finite, Finite', Ownership, [PoolNext]_poolVars,
           \A h \in Host : ~Drain(h) /\ ~DrainStep(h)
    PROVE  IdleChange /\ UNCHANGED drainQ
<1>0. Hands /\ Places
  BY OwnershipParts
<1>1. ASSUME NEW c \in Caller, Acquire(c) \/ AcquireDiscarded(c)
      PROVE  IdleChange /\ UNCHANGED drainQ
  BY <1>0, <1>1, ObtainStep DEF Acquire, AcquireDiscarded, Places
<1>2. ASSUME NEW c \in Caller, \/ AcquireValidated(c) \/ AcquireInvalid(c)
                               \/ AcquireCreateFailed(c) \/ AcquireTimeout(c)
                               \/ \E r \in Resource : AcquireCreated(c, r)
      PROVE  IdleChange /\ UNCHANGED drainQ
  BY <1>2 DEF AcquireValidated, AcquireInvalid, AcquireCreateFailed, AcquireTimeout,
              AcquireCreated, fields, IdleChange
<1>3. ASSUME NEW c \in Caller, Release(c) PROVE IdleChange /\ UNCHANGED drainQ
  <2>1. PICK r \in Resource : r = res[c]
    BY <1>3 DEF Release, Shape, WorkersHold, Workers
  <2>2. r \notin Elements(idle) \cup Closing
    BY <1>0, <1>3, <2>1 DEF Release, Places
  <2>3. UNCHANGED <<idle, idleTimers>> \/ Park(r)
    BY <1>3, <2>1 DEF Release
  <2>4. CASE Park(r)
    BY <1>0, <1>3, <2>2, <2>4, ParkStep DEF Release, Places
  <2> QED
    BY <1>3, <2>3, <2>4 DEF Release, IdleChange
<1>4. ASSUME NEW c \in Caller, Destroy(c) PROVE IdleChange /\ UNCHANGED drainQ
  <2>1. PICK r \in Resource : r = res[c]
    BY <1>4 DEF Destroy, Shape, WorkersHold, Workers
  <2>2. r \notin Elements(idle)
    BY <1>0, <1>4, <2>1 DEF Destroy, Places, Hands, Claimants
  <2>3. Untimed(r)
    BY <1>4, <2>1, <2>2 DEF Destroy, Untimed
  <2> QED
    BY <1>4, <2>3 DEF Destroy, IdleChange
<1>5. ASSUME NEW r \in Resource, ServeOrPark(r), r \notin Elements(idle) \cup Closing
      PROVE  IdleChange
  BY <1>0, <1>5, ParkStep DEF ServeOrPark, IdleChange, Places
<1>6. ASSUME NEW r \in Resource, HandToWaiter(r) PROVE IdleChange /\ UNCHANGED drainQ
  <2>1. r \notin Elements(idle) \cup Closing
    BY <1>0, <1>6 DEF HandToWaiter, Places
  <2>2. UNCHANGED <<idle, idleTimers>> \/ ServeOrPark(r)
    BY <1>6 DEF HandToWaiter
  <2> QED
    BY <1>5, <1>6, <2>1, <2>2 DEF HandToWaiter, IdleChange
<1>7. ASSUME NEW r \in Resource, BackfillDone(r) PROVE IdleChange /\ UNCHANGED drainQ
  <2>1. r \notin Elements(idle) \cup Closing
    BY <1>7, FreshFacts DEF BackfillDone
  <2>2. UNCHANGED <<idle, idleTimers>> \/ ServeOrPark(r)
    BY <1>7 DEF BackfillDone
  <2> QED
    BY <1>5, <1>7, <2>1, <2>2 DEF BackfillDone, IdleChange
<1>8. ASSUME NEW r \in Resource,
             HandToWaiterInvalid(r) \/ DestroyDone(r) \/ SafeDestroyed(r)
      PROVE  IdleChange /\ UNCHANGED drainQ
  BY <1>8 DEF HandToWaiterInvalid, DestroyDone, SafeDestroyed, fields, IdleChange
<1>9. ASSUME NEW r \in Resource, OnIdleTimeout(r) PROVE IdleChange /\ UNCHANGED drainQ
  <2> DEFINE n == Len(idle) + Cardinality(active)
  <2>1. /\ Len(idle) \in Nat /\ Cardinality(active) \in Nat /\ Min \in Nat
        /\ n <= Min => Len(idle) <= Min
    BY FS_CardinalityType, SizingAssumption DEF Finite, Shape, FieldsTypeOK
  <2>2. idleTimers' = idleTimers \ {r} /\ UNCHANGED drainQ
    BY <1>9 DEF OnIdleTimeout
  <2>3. CASE r \in Elements(idle) /\ n > Min
    <3>1. idle' = Splice(idle, IndexOf(idle, r))
      BY <1>9, <2>1, <2>3 DEF OnIdleTimeout
    <3>2. Elements(idle') = Elements(idle) \ {r}
      BY <1>0, <2>3, <3>1, SpliceFacts DEF Places, Shape, FieldsTypeOK
    <3>3. Unparked(r)
      BY <2>2, <3>2 DEF Unparked
    <3> QED
      BY <2>2, <3>3 DEF IdleChange
  <2>4. CASE ~(r \in Elements(idle) /\ n > Min)
    <3>1. UNCHANGED idle
      BY <1>9, <2>4 DEF OnIdleTimeout
    <3>2. r \notin Elements(idle) \/ Len(idle) <= Min
      BY <2>1, <2>4
    <3>3. Untimed(r)
      BY <2>2, <3>1, <3>2 DEF Untimed
    <3> QED
      BY <2>2, <3>3 DEF IdleChange
  <2> QED
    BY <2>3, <2>4
<1>10. ASSUME NEW w \in Warmer, WarmStep(w) PROVE IdleChange /\ UNCHANGED drainQ
  <2>1. ASSUME NEW r \in Resource, WarmCreated(w, r)
        PROVE  IdleChange /\ UNCHANGED drainQ
    <3>1. r \notin Elements(idle) \cup Closing
      BY <2>1, FreshFacts DEF WarmCreated
    <3>2. UNCHANGED <<idle, idleTimers>> \/ Park(r)
      BY <2>1 DEF WarmCreated
    <3> QED
      BY <1>0, <2>1, <3>1, <3>2, ParkStep DEF WarmCreated, IdleChange, Places
  <2> QED
    BY <1>10, <2>1 DEF WarmStep, WarmDropped, WarmFailed, fields, IdleChange
<1>11. ASSUME BackfillFailed \/ UNCHANGED poolVars \/ \E h \in Host : Reopen(h)
       PROVE  IdleChange /\ UNCHANGED drainQ
  BY <1>11 DEF BackfillFailed, Reopen, poolVars, fields, calls, IdleChange
<1> QED
  BY <1>1, <1>2, <1>3, <1>4, <1>6, <1>7, <1>8, <1>9, <1>10, <1>11
     DEF PoolNext, CallerProgress, PoolStep, ConnectionStep, HostStep

-----------------------------------------------------------------------------
(* The two invariants.                                                     *)

\* drain has cleared the timer of the connection it is closing.
HeadsUntimed == \A h \in Host : drainQ[h] # <<>> => Head(drainQ[h]) \notin idleTimers

Timed == TimersBelong /\ HeadsUntimed

\* No step leaves a timer behind.
LEMMA TimedNext ==
    ASSUME Shape, Finite, Finite', Ownership, Timed, [PoolNext]_poolVars
    PROVE  Timed'
<1>1. CASE \A h \in Host : ~Drain(h) /\ ~DrainStep(h)
  <2>1. IdleChange /\ UNCHANGED drainQ
    BY <1>1, IdleStep
  <2>2. DrainClosing' = DrainClosing
    BY <2>1 DEF DrainClosing
  <2>3. TimersBelong'
    BY <2>1, <2>2 DEF IdleChange, Parked, Unparked, Untimed, Timed, TimersBelong
  <2>4. ASSUME NEW h \in Host, drainQ[h] # <<>> PROVE Head(drainQ[h]) \notin idleTimers'
    <3>1. Head(drainQ[h]) \in Closing /\ Head(drainQ[h]) \notin idleTimers
      BY <2>4, TailFacts DEF Closing, DrainClosing, Timed, HeadsUntimed, Shape, CallsTypeOK
    <3> QED
      BY <2>1, <3>1 DEF IdleChange, Parked, Unparked, Untimed
  <2> QED
    BY <2>1, <2>3, <2>4 DEF Timed, HeadsUntimed
<1>2. ASSUME NEW h \in Host, Drain(h) PROVE Timed'
  <2>1. /\ drainQ[h] = <<>> /\ drainQ' = [drainQ EXCEPT ![h] = idle]
        /\ drainQ \in [Host -> Seq(Resource)]
        /\ idleTimers' \subseteq idleTimers
        /\ idle # <<>> => Head(idle) \notin idleTimers'
    BY <1>2 DEF Drain, HostFree, Shape, CallsTypeOK
  <2>2. Elements(idle) \cup DrainClosing \subseteq DrainClosing'
    <3>1. \A g \in Host : Elements(drainQ[g]) \subseteq Elements(drainQ'[g])
      BY <2>1 DEF Elements
    <3>2. drainQ'[h] = idle
      BY <2>1
    <3> QED
      BY <3>1, <3>2 DEF DrainClosing
  <2>3. TimersBelong'
    BY <2>1, <2>2 DEF Timed, TimersBelong
  <2>4. HeadsUntimed'
    BY <2>1 DEF Timed, HeadsUntimed
  <2> QED
    BY <2>3, <2>4 DEF Timed
<1>3. ASSUME NEW h \in Host, DrainStep(h) PROVE Timed'
  <2> DEFINE q == drainQ[h]
  <2>1. /\ q # <<>> /\ q \in Seq(Resource) /\ UNCHANGED idle
        /\ drainQ' = [drainQ EXCEPT ![h] = Tail(q)]
        /\ drainQ \in [Host -> Seq(Resource)]
        /\ idleTimers' = IF Len(q) = 1 THEN idleTimers ELSE idleTimers \ {q[2]}
    BY <1>3 DEF DrainStep, Shape, CallsTypeOK
  <2>2. Elements(q) = {Head(q)} \cup Elements(Tail(q)) /\ Head(q) \notin idleTimers
    BY <2>1, TailFacts DEF Timed, HeadsUntimed
  <2>3. Tail(q) # <<>> => Len(q) # 1 /\ Head(Tail(q)) = q[2]
    BY <2>1
  <2> HIDE DEF q
  <2>4. idleTimers' \subseteq idleTimers
    BY <2>1
  <2>5. \A t \in DrainClosing : t # Head(q) => t \in DrainClosing'
    <3>1. \A g \in Host : Elements(drainQ[g]) \subseteq {Head(q)} \cup Elements(drainQ'[g])
      BY <2>1, <2>2 DEF q
    <3> QED
      BY <3>1 DEF DrainClosing
  <2>6. TimersBelong'
    BY <2>1, <2>2, <2>4, <2>5 DEF Timed, TimersBelong
  <2>7. HeadsUntimed'
    BY <2>1, <2>3, <2>4 DEF Timed, HeadsUntimed
  <2> QED
    BY <2>6, <2>7 DEF Timed
<1> QED
  BY <1>1, <1>2, <1>3

\* No idle timer outlives its connection's stay in the pool: whatever clears
\* the list clears the timer (acquire, destroy, drain, __onIdleTimeout).
THEOREM TimersAlwaysBelong == PoolSpec => []TimersBelong
<1>1. Init => Timed
  BY DEF Init, Timed, TimersBelong, HeadsUntimed
<1>2. Sized /\ Sized' /\ Ownership /\ Timed /\ [PoolNext]_poolVars => Timed'
  BY TimedNext DEF Sized
<1>3. Timed => TimersBelong
  BY DEF Timed
<1> QED
  BY <1>1, <1>2, <1>3, SizedInvariant, OwnershipHolds, PTL DEF PoolSpec
\* A set within a list of at most Min places has at most Min elements.
LEMMA WithinFloor ==
    ASSUME NEW s \in Seq(Resource), NEW S \in SUBSET Elements(s), Len(s) <= Min
    PROVE  Cardinality(S) <= Min
<1>1. /\ IsFiniteSet(Elements(s)) /\ Cardinality(Elements(s)) \in Nat
      /\ Cardinality(Elements(s)) <= Len(s) /\ Len(s) \in Nat /\ Min \in Nat
  BY ElementsBound, SizingAssumption
<1>2. IsFiniteSet(S) /\ Cardinality(S) <= Cardinality(Elements(s))
  BY <1>1, FS_Subset
<1>3. Cardinality(S) \in Nat
  BY <1>2, FS_CardinalityType
<1> QED
  BY <1>1, <1>2, <1>3

\* Fewer untimed connections are no more than Min.
LEMMA FewerUntimed ==
    ASSUME NEW s \in Seq(Resource), NEW S \in SUBSET Elements(s), NEW T \in SUBSET S,
           Cardinality(S) <= Min
    PROVE  Cardinality(T) <= Min
<1>1. IsFiniteSet(S)
  BY ElementsBound, FS_Subset
<1>2. IsFiniteSet(T) /\ Cardinality(T) <= Cardinality(S)
  BY <1>1, FS_Subset
<1>3. Cardinality(S) \in Nat /\ Cardinality(T) \in Nat /\ Min \in Nat
  BY <1>1, <1>2, FS_CardinalityType, SizingAssumption
<1> QED
  BY <1>2, <1>3

\* A list that is neither empty nor of length one has a second element.
LEMMA SecondElement ==
    ASSUME NEW q \in Seq(Resource), q # <<>>, Len(q) # 1
    PROVE  q[2] \in Elements(q)
<1>1. Len(q) \in Nat /\ Len(q) # 0
  BY EmptySeq
<1>2. 2 \in 1..Len(q)
  BY <1>1
<1> QED
  BY <1>2 DEF Elements

\* No step leaves more than Min connections without a timer.
LEMMA FloorNext ==
    ASSUME Shape, Shape', Finite, Finite', Ownership, UntimedWithinFloor,
           [PoolNext]_poolVars
    PROVE  UntimedWithinFloor'
<1> SUFFICES ASSUME IdleEviction
             PROVE  Cardinality(Elements(idle') \ idleTimers') <= Min
  BY DEF UntimedWithinFloor
<1> DEFINE U == Elements(idle) \ idleTimers
           V == Elements(idle') \ idleTimers'
<1>1. idle \in Seq(Resource) /\ idle' \in Seq(Resource) /\ Cardinality(U) <= Min
  BY DEF Shape, FieldsTypeOK, UntimedWithinFloor
<1>2. ASSUME V \subseteq U PROVE Cardinality(V) <= Min
  BY <1>1, <1>2, FewerUntimed
<1>3. ASSUME Len(idle') <= Min PROVE Cardinality(V) <= Min
  BY <1>1, <1>3, WithinFloor
<1>4. ASSUME Len(idle) <= Min, V \subseteq Elements(idle) PROVE Cardinality(V) <= Min
  BY <1>1, <1>4, WithinFloor
<1>5. CASE \A h \in Host : ~Drain(h) /\ ~DrainStep(h)
  <2>1. IdleChange
    BY <1>5, IdleStep
  <2>2. CASE UNCHANGED <<idle, idleTimers>>
    BY <1>2, <2>2
  <2>3. ASSUME NEW r \in Resource, Parked(r)
        PROVE  V \subseteq U \/ Len(idle') <= Min
    BY <2>3 DEF Parked
  <2>4. ASSUME NEW r \in Resource, Unparked(r) PROVE V \subseteq U
    BY <2>4 DEF Unparked
  <2>5. ASSUME NEW r \in Resource, Untimed(r)
        PROVE  V \subseteq U \/ (Len(idle) <= Min /\ V \subseteq Elements(idle))
    BY <2>5 DEF Untimed
  <2> HIDE DEF U, V
  <2> QED
    BY <1>2, <1>3, <1>4, <2>1, <2>2, <2>3, <2>4, <2>5 DEF IdleChange, V
<1>6. ASSUME NEW h \in Host, Drain(h) PROVE V \subseteq U
  BY <1>6 DEF Drain, Elements
<1>7. ASSUME NEW h \in Host, DrainStep(h) PROVE V \subseteq U
  <2>1. Len(drainQ[h]) # 1 => drainQ[h][2] \in Elements(drainQ[h])
    <3>1. drainQ[h] # <<>> /\ drainQ[h] \in Seq(Resource)
      BY <1>7 DEF DrainStep, Shape, CallsTypeOK
    <3> QED
      BY <3>1, SecondElement
  <2>2. Elements(drainQ[h]) \cap Elements(idle) = {}
    BY DEF Ownership, DrainClosing
  <2> QED
    BY <1>7, <2>1, <2>2 DEF DrainStep
<1> QED
  BY <1>2, <1>5, <1>6, <1>7

\* Idle eviction reaches down to min: at most Min idle connections have no
\* timer, so no order of releases, creations and evictions leaves a surplus
\* that nothing will evict (__scheduleIdleTimer, __onIdleTimeout).
THEOREM EvictionReachesFloor == PoolSpec => []UntimedWithinFloor
<1>1. Init => UntimedWithinFloor
  <2> SUFFICES ASSUME Init PROVE Cardinality(Elements(idle) \ idleTimers) <= Min
    BY DEF UntimedWithinFloor
  <2>1. Elements(idle) \ idleTimers = {}
    BY DEF Init, Elements
  <2> QED
    BY <2>1, FS_EmptySet, SizingAssumption
<1>2. Sized /\ Sized' /\ Ownership /\ UntimedWithinFloor /\ [PoolNext]_poolVars
         => UntimedWithinFloor'
  BY FloorNext DEF Sized
<1> QED
  BY <1>1, <1>2, SizedInvariant, OwnershipHolds, PTL DEF PoolSpec
=============================================================================
