------------------------ MODULE ConnectionPoolProofs ------------------------
(* Proofs about the connection pool, for every number of callers,          *)
(* connections and hosts and every sizing.                                 *)
EXTENDS ConnectionPool, FiniteSetTheorems, FunctionTheorems, SequenceTheorems,
        TLAPS

-----------------------------------------------------------------------------
(* Facts about the sequence operators of the model.                        *)

\* Append (Array.push) adds one element at the end.
LEMMA AppendFacts ==
    ASSUME NEW S, NEW s \in Seq(S), NEW e \in S
    PROVE  /\ Append(s, e) \in Seq(S)
           /\ Len(Append(s, e)) = Len(s) + 1
           /\ Elements(Append(s, e)) = Elements(s) \cup {e}
           /\ Distinct(s) /\ e \notin Elements(s) => Distinct(Append(s, e))
<1> DEFINE t == Append(s, e)
<1>1. /\ t \in Seq(S)
      /\ Len(t) = Len(s) + 1
      /\ \A i \in 1..Len(s) : t[i] = s[i]
      /\ t[Len(s) + 1] = e
      /\ Len(s) \in Nat
  OBVIOUS
<1>2. Elements(t) = Elements(s) \cup {e}
  BY <1>1 DEF Elements
<1>3. Distinct(s) /\ e \notin Elements(s) => Distinct(t)
  BY <1>1 DEF Elements, Distinct
<1> QED
  BY <1>1, <1>2, <1>3

\* Head and Tail (Array.shift) take the first element off.
LEMMA TailFacts ==
    ASSUME NEW S, NEW s \in Seq(S), s # <<>>
    PROVE  /\ Head(s) \in S
           /\ Head(s) \in Elements(s)
           /\ Tail(s) \in Seq(S)
           /\ Len(Tail(s)) = Len(s) - 1
           /\ Elements(s) = {Head(s)} \cup Elements(Tail(s))
           /\ Distinct(s) => /\ Distinct(Tail(s))
                             /\ Head(s) \notin Elements(Tail(s))
<1> DEFINE t == Tail(s)
<1>1. /\ t \in Seq(S)
      /\ Len(s) \in Nat
      /\ Len(s) >= 1
      /\ Len(t) = Len(s) - 1
      /\ \A i \in 1..Len(t) : t[i] = s[i + 1]
      /\ Head(s) = s[1]
      /\ s[1] \in S
  OBVIOUS
<1>2. Head(s) \in Elements(s)
  BY <1>1 DEF Elements
<1>3. Elements(t) \subseteq Elements(s)
  BY <1>1 DEF Elements
<1>4. ASSUME NEW x \in Elements(s), x # Head(s)
      PROVE  x \in Elements(t)
  <2>1. PICK i \in 1..Len(s) : x = s[i]
    BY DEF Elements
  <2>2. i - 1 \in 1..Len(t) /\ t[i - 1] = x
    BY <1>1, <1>4, <2>1
  <2> QED
    BY <2>2 DEF Elements
<1>5. ASSUME Distinct(s)
      PROVE  Distinct(t) /\ Head(s) \notin Elements(t)
  BY <1>1, <1>5 DEF Distinct, Elements
<1> QED
  BY <1>1, <1>2, <1>3, <1>4, <1>5

\* Splice at the place of an element removes that element.
LEMMA SpliceFacts ==
    ASSUME NEW S, NEW s \in Seq(S), NEW e \in Elements(s)
    PROVE  LET t == Splice(s, IndexOf(s, e)) IN
           /\ t \in Seq(S)
           /\ Len(t) = Len(s) - 1
           /\ Elements(t) \subseteq Elements(s)
           /\ Elements(s) \ {e} \subseteq Elements(t)
           /\ Distinct(s) => Distinct(t) /\ Elements(t) = Elements(s) \ {e}
<1> DEFINE k == IndexOf(s, e)
           t == Splice(s, k)
<1>1. Len(s) \in Nat /\ k \in 1..Len(s) /\ s[k] = e
  <2>1. \E i \in 1..Len(s) : s[i] = e
    BY DEF Elements
  <2> QED
    BY <2>1 DEF IndexOf
<1> HIDE DEF k
<1>2. /\ t \in Seq(S)
      /\ Len(t) = Len(s) - 1
      /\ \A i \in 1..Len(t) : t[i] = IF i < k THEN s[i] ELSE s[i + 1]
  <2>1. \A i \in 1..(Len(s) - 1) : (IF i < k THEN s[i] ELSE s[i + 1]) \in S
    BY <1>1
  <2> QED
    BY <1>1, <2>1, SeqDef, LenProperties DEF Splice
<1> HIDE DEF t
<1>3. Elements(t) \subseteq Elements(s)
  BY <1>1, <1>2 DEF Elements
<1>4. ASSUME NEW x \in Elements(s), x # e
      PROVE  x \in Elements(t)
  <2>1. PICK i \in 1..Len(s) : x = s[i]
    BY DEF Elements
  <2>2. i # k
    BY <1>1, <1>4, <2>1
  <2>3. CASE i < k
    <3>1. i \in 1..Len(t) /\ t[i] = x
      BY <1>1, <1>2, <2>1, <2>3
    <3> QED
      BY <3>1 DEF Elements
  <2>4. CASE i > k
    <3>1. i - 1 \in 1..Len(t) /\ t[i - 1] = x
      BY <1>1, <1>2, <2>1, <2>4
    <3> QED
      BY <3>1 DEF Elements
  <2> QED
    BY <1>1, <2>2, <2>3, <2>4
<1>5. ASSUME Distinct(s)
      PROVE  Distinct(t) /\ e \notin Elements(t)
  <2> DEFINE f(i) == IF i < k THEN i ELSE i + 1
  <2>1. \A i \in 1..Len(t) : f(i) \in 1..Len(s) /\ f(i) # k /\ t[i] = s[f(i)]
    BY <1>1, <1>2
  <2>2. \A i, j \in 1..Len(t) : f(i) = f(j) => i = j
    BY <1>1, <1>2
  <2> HIDE DEF f
  <2>3. Distinct(t)
    BY <1>5, <2>1, <2>2 DEF Distinct
  <2>4. \A i \in 1..Len(t) : t[i] # e
    BY <1>1, <1>5, <2>1 DEF Distinct
  <2> QED
    BY <2>3, <2>4 DEF Elements
<1> QED
  BY <1>2, <1>3, <1>4, <1>5 DEF k, t

-----------------------------------------------------------------------------
(* The shape of the state: types, what callers work on, and the queue.     *)

WorkersHold == \A c \in Workers : res[c] \in Resource

\* The two sets whose cardinalities the pool adds up are finite.
Finite == IsFiniteSet(active) /\ IsFiniteSet(handoff)

Shape == /\ FieldsTypeOK
         /\ CallsTypeOK
         /\ pending \in Int
         /\ WorkersHold
         /\ QueueExact

\* c is suspended at `where' with r in its hands, and nobody else moved.
Moved(c, where, r) ==
    /\ pc' \in [Caller -> PcStates]
    /\ res' \in [Caller -> Resource \cup {NoResource}]
    /\ pc'[c] = where
    /\ res'[c] = r
    /\ \A d \in Caller \ {c} : pc'[d] = pc[d] /\ res'[d] = res[d]

\* Suspend moves one caller.
LEMMA SuspendFacts ==
    ASSUME NEW c \in Caller, NEW where \in PcStates,
           NEW r \in Resource \cup {NoResource},
           CallsTypeOK, Suspend(c, where, r)
    PROVE  Moved(c, where, r)
BY DEF Suspend, CallsTypeOK, Moved

\* The part of Shape that speaks of the callers.
CallersShape == /\ pc \in [Caller -> PcStates]
                /\ res \in [Caller -> Resource \cup {NoResource}]
                /\ WorkersHold
                /\ QueueExact

\* A caller that neither leaves nor joins the queue keeps it exact.
LEMMA MoveShape ==
    ASSUME Shape, NEW c \in Caller, NEW where \in PcStates \ {"waiting"},
           NEW r \in Resource \cup {NoResource},
           Suspend(c, where, r), pc[c] # "waiting", UNCHANGED waiters,
           where \in {"validating", "holding", "discarding"} => r \in Resource
    PROVE  CallersShape'
<1>1. Moved(c, where, r)
  BY SuspendFacts DEF Shape
<1>2. WorkersHold'
  BY <1>1 DEF Shape, Moved, WorkersHold, Workers
<1>3. QueueExact'
  BY <1>1 DEF Shape, CallsTypeOK, Moved, QueueExact
<1> QED
  BY <1>1, <1>2, <1>3 DEF Moved, CallersShape

\* The caller at the head of the queue leaves it.
LEMMA ShiftShape ==
    ASSUME Shape, NEW where \in PcStates \ {"waiting"},
           NEW r \in Resource \cup {NoResource},
           waiters # <<>>, waiters' = Tail(waiters),
           Suspend(Head(waiters), where, r),
           where \in {"validating", "holding", "discarding"} => r \in Resource
    PROVE  CallersShape' /\ waiters' \in Seq(Caller)
<1> DEFINE c == Head(waiters)
<1>1. /\ c \in Caller
      /\ waiters' \in Seq(Caller)
      /\ Elements(waiters) = {c} \cup Elements(waiters')
      /\ Distinct(waiters')
      /\ c \notin Elements(waiters')
  BY TailFacts DEF Shape, FieldsTypeOK, QueueExact
<1> HIDE DEF c
<1>2. Moved(c, where, r)
  BY <1>1, SuspendFacts DEF Shape, c
<1>3. WorkersHold'
  BY <1>1, <1>2 DEF Shape, Moved, WorkersHold, Workers
<1>4. QueueExact'
  <2>1. \A d \in Caller : d \in Elements(waiters) <=> pc[d] = "waiting"
    BY DEF Shape, QueueExact
  <2>2. /\ pc'[c] = where /\ where # "waiting"
        /\ \A d \in Caller \ {c} : pc'[d] = pc[d]
    BY <1>2 DEF Moved
  <2>3. Elements(waiters') \subseteq Caller
    BY <1>1 DEF Elements
  <2>4. \A d \in Caller : d \in Elements(waiters') <=> pc'[d] = "waiting"
    BY <1>1, <2>1, <2>2
  <2>5. Elements(waiters') = {d \in Caller : pc'[d] = "waiting"}
    BY <2>3, <2>4
  <2> QED
    BY <1>1, <2>5 DEF QueueExact, Elements, Distinct
<1> QED
  BY <1>1, <1>2, <1>3, <1>4 DEF Moved, CallersShape

\* A step that moves no caller keeps the callers' part.
LEMMA StillShape ==
    ASSUME Shape, UNCHANGED <<pc, res, waiters>>
    PROVE  CallersShape'
BY DEF Shape, CallsTypeOK, CallersShape, WorkersHold, Workers, QueueExact

\* The pool starts in that shape.
LEMMA ShapeInit == Init => Shape
<1> SUFFICES ASSUME Init PROVE Shape
  OBVIOUS
<1>1. /\ idle \in Seq(Resource) /\ waiters \in Seq(Caller)
      /\ drainQ \in [Host -> Seq(Resource)]
      /\ Elements(waiters) = {} /\ Distinct(waiters)
  BY DEF Init, Elements, Distinct
<1>2. FieldsTypeOK /\ pending \in Int
  <2>1. draining \in BOOLEAN
    BY DEF Init
  <2>2. pending \in Int
    BY DEF Init
  <2> QED
    BY <1>1, <2>1, <2>2 DEF Init, FieldsTypeOK
<1>3. CallsTypeOK
  BY <1>1 DEF Init, CallsTypeOK, PcStates
<1>4. WorkersHold
  BY DEF Init, WorkersHold, Workers
<1>5. QueueExact
  <2>1. {c \in Caller : pc[c] = "waiting"} = {}
    BY DEF Init
  <2> QED
    BY <1>1, <2>1 DEF QueueExact
<1> QED
  BY <1>2, <1>3, <1>4, <1>5 DEF Shape

\* Parking a connection keeps the idle list and the timers well typed.
LEMMA ParkTypes ==
    ASSUME FieldsTypeOK, NEW r \in Resource, Park(r)
    PROVE  idle' \in Seq(Resource) /\ idleTimers' \in SUBSET Resource
BY AppendFacts DEF FieldsTypeOK, Park

\* A freed connection goes to a caller that waits or to the idle list.
LEMMA ServeOrParkShape ==
    ASSUME Shape, NEW r \in Resource, ServeOrPark(r)
    PROVE  /\ CallersShape'
           /\ waiters' \in Seq(Caller)
           /\ active' \in SUBSET Resource
           /\ idle' \in Seq(Resource)
           /\ idleTimers' \in SUBSET Resource
<1>1. CASE waiters # <<>>
  <2>1. /\ waiters' = Tail(waiters)
        /\ active' = active \cup {r}
        /\ Suspend(Head(waiters), "holding", r)
        /\ UNCHANGED <<idle, idleTimers>>
    BY <1>1 DEF ServeOrPark
  <2>2. CallersShape' /\ waiters' \in Seq(Caller)
    BY <1>1, <2>1, ShiftShape DEF PcStates
  <2> QED
    BY <2>1, <2>2 DEF Shape, FieldsTypeOK
<1>2. CASE waiters = <<>>
  <2>1. UNCHANGED <<waiters, active, pc, res>> /\ Park(r)
    BY <1>2 DEF ServeOrPark
  <2>2. CallersShape'
    BY <2>1, StillShape
  <2> QED
    BY <2>1, <2>2, ParkTypes DEF Shape, FieldsTypeOK
<1> QED
  BY <1>1, <1>2

\* size is an integer as soon as the counted sets are finite; Backfills and
\* Shortfall are natural numbers.
LEMMA SizeFacts == Shape /\ Finite => size \in Int
BY FS_CardinalityType DEF Shape, FieldsTypeOK, Finite, size

LEMMA BackfillsFacts ==
    Shape /\ Finite => Backfills \in Nat /\ (Backfills > 0 => size + Backfills <= Max)
BY SizeFacts, SizingAssumption DEF Backfills, Shape, FieldsTypeOK

LEMMA ShortfallFacts ==
    Shape /\ Finite => Shortfall \in Nat /\ (Shortfall > 0 => size + Shortfall = Min)
BY SizeFacts, SizingAssumption DEF Shortfall

\* Obtain keeps the shape of the state.
LEMMA ObtainShape ==
    ASSUME Shape, NEW c \in Caller, pc[c] \in {"out", "discarding"}, Obtain(c),
           UNCHANGED <<handoff, draining, backfill, warm, warmDrop, destroying,
                       forgetting, drainQ>>
    PROVE  Shape'
<1> USE DEF Shape, FieldsTypeOK, CallsTypeOK, CallersShape
<1>1. CASE ClaimIdle(c)
  <2>1. /\ Head(idle) \in Resource
        /\ Tail(idle) \in Seq(Resource)
    BY <1>1, TailFacts DEF ClaimIdle
  <2>2. CallersShape'
    BY <1>1, <2>1, MoveShape DEF ClaimIdle, PcStates
  <2> QED
    BY <1>1, <2>1, <2>2 DEF ClaimIdle
<1>2. CASE BeginCreate(c)
  <2>1. CallersShape'
    BY <1>2, MoveShape DEF BeginCreate, PcStates
  <2> QED
    BY <1>2, <2>1 DEF BeginCreate
<1>3. CASE Enqueue(c)
  <2>1. /\ waiters' \in Seq(Caller)
        /\ Elements(waiters') = Elements(waiters) \cup {c}
        /\ Distinct(waiters')
    BY <1>3, AppendFacts DEF Enqueue, QueueExact
  <2>2. Moved(c, "waiting", NoResource)
    BY <1>3, SuspendFacts DEF Enqueue, PcStates
  <2>3. WorkersHold'
    BY <2>2 DEF Moved, WorkersHold, Workers
  <2>4. QueueExact'
    BY <2>1, <2>2 DEF Moved, QueueExact
  <2> QED
    BY <1>3, <2>1, <2>2, <2>3, <2>4 DEF Enqueue, Moved
<1> QED
  BY <1>1, <1>2, <1>3 DEF Obtain

\* Every step of the pool keeps the shape.
LEMMA ShapeNext == Shape /\ Finite /\ [PoolNext]_poolVars => Shape'
<1> SUFFICES ASSUME Shape, Finite, [PoolNext]_poolVars PROVE Shape'
  OBVIOUS
<1> USE DEF Shape, FieldsTypeOK, CallsTypeOK, CallersShape
<1>1. ASSUME NEW c \in Caller, Acquire(c) PROVE Shape'
  BY <1>1, ObtainShape DEF Acquire
<1>2. ASSUME NEW c \in Caller, AcquireValidated(c) PROVE Shape'
  <2>1. res[c] \in Resource
    BY <1>2 DEF AcquireValidated, WorkersHold, Workers
  <2>2. CallersShape'
    BY <1>2, <2>1, MoveShape DEF AcquireValidated, fields, PcStates
  <2> QED
    BY <1>2, <2>2 DEF AcquireValidated, fields
<1>3. ASSUME NEW c \in Caller, AcquireInvalid(c) PROVE Shape'
  <2>1. res[c] \in Resource
    BY <1>3 DEF AcquireInvalid, WorkersHold, Workers
  <2>2. CallersShape'
    BY <1>3, <2>1, MoveShape DEF AcquireInvalid, PcStates
  <2> QED
    BY <1>3, <2>2 DEF AcquireInvalid
<1>4. ASSUME NEW c \in Caller, AcquireDiscarded(c) PROVE Shape'
  BY <1>4, ObtainShape DEF AcquireDiscarded
<1>5. ASSUME NEW c \in Caller, NEW r \in Resource, AcquireCreated(c, r)
      PROVE  Shape'
  <2>1. CallersShape'
    BY <1>5, MoveShape DEF AcquireCreated, PcStates
  <2> QED
    BY <1>5, <2>1 DEF AcquireCreated
<1>6. ASSUME NEW c \in Caller, AcquireCreateFailed(c) PROVE Shape'
  <2>1. CallersShape'
    BY <1>6, MoveShape DEF AcquireCreateFailed, PcStates
  <2> QED
    BY <1>6, <2>1 DEF AcquireCreateFailed
<1>7. ASSUME NEW c \in Caller, AcquireTimeout(c) PROVE Shape'
  <2>1. /\ waiters' \in Seq(Caller)
        /\ Elements(waiters') = Elements(waiters) \ {c}
        /\ Distinct(waiters')
    BY <1>7, SpliceFacts DEF AcquireTimeout, QueueExact
  <2>2. Moved(c, "out", NoResource)
    BY <1>7, SuspendFacts DEF AcquireTimeout, PcStates
  <2>3. WorkersHold'
    BY <2>2 DEF Moved, WorkersHold, Workers
  <2>4. QueueExact'
    BY <2>1, <2>2 DEF Moved, QueueExact
  <2> QED
    BY <1>7, <2>1, <2>2, <2>3, <2>4 DEF AcquireTimeout, Moved
<1>8. ASSUME NEW c \in Caller, Release(c) PROVE Shape'
  <2>1. CallersShape'
    BY <1>8, MoveShape DEF Release, PcStates
  <2>2. /\ idle' \in Seq(Resource) /\ idleTimers' \in SUBSET Resource
        /\ handoff' \in SUBSET Resource /\ forgetting' \in SUBSET Resource
    BY <1>8, ParkTypes DEF Release
  <2> QED
    BY <1>8, <2>1, <2>2 DEF Release
<1>9. ASSUME NEW c \in Caller, Destroy(c) PROVE Shape'
  <2>1. res[c] \in Resource
    BY <1>9 DEF Destroy, WorkersHold, Workers
  <2>2. CallersShape'
    BY <1>9, MoveShape DEF Destroy, PcStates
  <2> QED
    BY <1>9, <2>1, <2>2 DEF Destroy
<1>10. ASSUME NEW r \in Resource, HandToWaiter(r) PROVE Shape'
  <2>1. CASE draining
    <3>1. CallersShape'
      BY <1>10, <2>1, StillShape DEF HandToWaiter
    <3> QED
      BY <1>10, <2>1, <3>1 DEF HandToWaiter
  <2>2. CASE ~draining
    <3>1. ServeOrPark(r) /\ UNCHANGED forgetting
      BY <1>10, <2>2 DEF HandToWaiter
    <3> QED
      BY <1>10, <3>1, ServeOrParkShape DEF HandToWaiter
  <2> QED
    BY <2>1, <2>2
<1>11. ASSUME NEW r \in Resource, HandToWaiterInvalid(r) PROVE Shape'
  <2>1. CallersShape'
    BY <1>11, StillShape DEF HandToWaiterInvalid
  <2> QED
    BY <1>11, <2>1 DEF HandToWaiterInvalid
<1>12. ASSUME NEW r \in Resource, DestroyDone(r) PROVE Shape'
  <2>1. CallersShape'
    BY <1>12, StillShape DEF DestroyDone
  <2>2. Backfills \in Nat
    BY BackfillsFacts
  <2> QED
    BY <1>12, <2>1, <2>2 DEF DestroyDone
<1>13. ASSUME NEW r \in Resource, SafeDestroyed(r) PROVE Shape'
  <2>1. CallersShape'
    BY <1>13, StillShape DEF SafeDestroyed, fields
  <2> QED
    BY <1>13, <2>1 DEF SafeDestroyed, fields
<1>14. ASSUME NEW r \in Resource, BackfillDone(r) PROVE Shape'
  <2>1. CASE draining
    <3>1. CallersShape'
      BY <1>14, <2>1, StillShape DEF BackfillDone
    <3> QED
      BY <1>14, <2>1, <3>1 DEF BackfillDone
  <2>2. CASE ~draining
    <3>1. ServeOrPark(r) /\ UNCHANGED forgetting
      BY <1>14, <2>2 DEF BackfillDone
    <3> QED
      BY <1>14, <3>1, ServeOrParkShape DEF BackfillDone
  <2> QED
    BY <2>1, <2>2
<1>15. ASSUME BackfillFailed PROVE Shape'
  <2>1. CASE waiters # <<>>
    <3>1. CallersShape' /\ waiters' \in Seq(Caller)
      BY <1>15, <2>1, ShiftShape DEF BackfillFailed, PcStates
    <3> QED
      BY <1>15, <3>1 DEF BackfillFailed
  <2>2. CASE waiters = <<>>
    <3>1. CallersShape'
      BY <1>15, <2>2, StillShape DEF BackfillFailed
    <3> QED
      BY <1>15, <2>2, <3>1 DEF BackfillFailed
  <2> QED
    BY <2>1, <2>2
<1>16. ASSUME NEW w \in Warmer, NEW r \in Resource, WarmCreated(w, r)
       PROVE  Shape'
  <2>1. CallersShape'
    BY <1>16, StillShape DEF WarmCreated
  <2>2. /\ idle' \in Seq(Resource) /\ idleTimers' \in SUBSET Resource
        /\ warmDrop' \in [Warmer -> SUBSET Resource]
    BY <1>16, ParkTypes DEF WarmCreated
  <2>3. warm' \in [Warmer -> Nat] /\ pending' \in Int
    BY <1>16 DEF WarmCreated
  <2> QED
    BY <1>16, <2>1, <2>2, <2>3 DEF WarmCreated
<1>17. ASSUME NEW w \in Warmer, NEW r \in Resource, WarmDropped(w, r)
       PROVE  Shape'
  <2>1. CallersShape'
    BY <1>17, StillShape DEF WarmDropped, fields
  <2> QED
    BY <1>17, <2>1 DEF WarmDropped, fields
<1>18. ASSUME NEW w \in Warmer, WarmFailed(w) PROVE Shape'
  <2>1. CallersShape'
    BY <1>18, StillShape DEF WarmFailed
  <2>2. Background \in Warmer
    BY DEF Warmer
  <2>3. warm' \in [Warmer -> Nat]
    <3>1. CASE w = Background
      BY <1>18, <3>1 DEF WarmFailed
    <3>2. CASE w # Background
      <4>1. warm' = [warm EXCEPT ![w] = 0, ![Background] = @ + warm[w] - 1]
        BY <1>18, <3>2 DEF WarmFailed
      <4>2. warm[w] \in Nat /\ warm[w] > 0 /\ warm[Background] \in Nat
        BY <1>18, <2>2 DEF WarmFailed
      <4> QED
        BY SMTT(30), <2>2, <3>2, <4>1, <4>2
    <3> QED
      BY <3>1, <3>2
  <2>4. warmDrop' \in [Warmer -> SUBSET Resource]
    BY <1>18, <2>2 DEF WarmFailed
  <2>5. pending' \in Int
    BY <1>18 DEF WarmFailed
  <2> QED
    BY <1>18, <2>1, <2>3, <2>4, <2>5 DEF WarmFailed
<1>19. ASSUME NEW h \in Host, DrainStep(h) PROVE Shape'
  <2>1. CallersShape'
    BY <1>19, StillShape DEF DrainStep
  <2>2. drainQ' \in [Host -> Seq(Resource)]
    BY <1>19, TailFacts DEF DrainStep
  <2> QED
    BY <1>19, <2>1, <2>2 DEF DrainStep
<1>20. ASSUME NEW h \in Host, Reopen(h) PROVE Shape'
  <2>1. CallersShape'
    BY <1>20, StillShape DEF Reopen
  <2>2. Shortfall \in Nat
    BY ShortfallFacts
  <2>3. h \in Warmer
    BY DEF Warmer
  <2>4. warm' \in [Warmer -> Nat] /\ pending' \in Int
    BY <1>20, <2>2, <2>3 DEF Reopen, EnsureMin
  <2> QED
    BY <1>20, <2>1, <2>4 DEF Reopen
<1>21. ASSUME NEW h \in Host, Drain(h) PROVE Shape'
  <2>1. pc' \in [Caller -> PcStates]
    BY <1>21 DEF Drain, PcStates
  <2>2. WorkersHold'
    BY <1>21 DEF Drain, WorkersHold, Workers
  <2>3. QueueExact'
    <3>1. Elements(<<>>) = {} /\ Distinct(<<>>)
      BY DEF Elements, Distinct
    <3>2. \A c \in Caller : pc'[c] # "waiting"
      BY <1>21 DEF Drain, QueueExact
    <3>3. waiters' = <<>>
      BY <1>21 DEF Drain
    <3> QED
      BY <3>1, <3>2, <3>3 DEF QueueExact
  <2>4. /\ waiters' \in Seq(Caller) /\ idle' \in Seq(Resource)
        /\ drainQ' \in [Host -> Seq(Resource)]
    BY <1>21 DEF Drain
  <2> QED
    BY <1>21, <2>1, <2>2, <2>3, <2>4 DEF Drain
<1>22. ASSUME NEW r \in Resource, OnIdleTimeout(r) PROVE Shape'
  <2>1. CallersShape'
    BY <1>22, StillShape DEF OnIdleTimeout
  <2>2. Shortfall \in Nat
    BY ShortfallFacts
  <2>3. Background \in Warmer
    BY DEF Warmer
  <2>4. idle' \in Seq(Resource) /\ forgetting' \in SUBSET Resource
    BY <1>22, SpliceFacts DEF OnIdleTimeout
  <2>5. warm' \in [Warmer -> Nat] /\ pending' \in Int
    <3>1. CASE EnsureMin(Background)
      BY <2>2, <2>3, <3>1 DEF EnsureMin
    <3>2. CASE UNCHANGED <<pending, warm>>
      BY <3>2
    <3> QED
      BY <1>22, <3>1, <3>2 DEF OnIdleTimeout
  <2> QED
    BY <1>22, <2>1, <2>4, <2>5 DEF OnIdleTimeout
<1>23. ASSUME UNCHANGED poolVars PROVE Shape'
  <2>1. CallersShape'
    BY <1>23, StillShape DEF poolVars, fields, calls
  <2> QED
    BY <1>23, <2>1 DEF poolVars, fields, calls
<1> HIDE DEF Shape, FieldsTypeOK, CallsTypeOK, CallersShape
<1> QED
  BY <1>1, <1>2, <1>3, <1>4, <1>5, <1>6, <1>7, <1>8, <1>9, <1>10, <1>11, <1>12,
     <1>13, <1>14, <1>15, <1>16, <1>17, <1>18, <1>19, <1>20, <1>21, <1>22, <1>23
     DEF PoolNext, CallerProgress, PoolStep, ConnectionStep, WarmStep, HostStep

-----------------------------------------------------------------------------
(* Counting the factory calls in flight.                                   *)

\* n consecutive calls of one kind.
Batch(t, w, a, n) == {<<t, w, i>> : i \in (a + 1)..(a + n)}

\* A batch has as many members as its interval.
LEMMA BatchCard ==
    ASSUME NEW t, NEW w, NEW a \in Nat, NEW n \in Nat
    PROVE  IsFiniteSet(Batch(t, w, a, n)) /\ Cardinality(Batch(t, w, a, n)) = n
<1> DEFINE I == (a + 1)..(a + n)
           B == Batch(t, w, a, n)
           f == [i \in I |-> <<t, w, i>>]
<1>1. IsFiniteSet(I) /\ Cardinality(I) = n
  BY FS_Interval
<1>2. /\ f \in [I -> B]
      /\ \A i, j \in I : f[i] = f[j] => i = j
      /\ \A b \in B : \E i \in I : f[i] = b
  BY DEF Batch
<1> HIDE DEF I, B, f
<1>3. f \in Bijection(I, B)
  BY <1>2, Fun_IsBij
<1>4. ExistsBijection(I, B)
  BY <1>3, Fun_ExistsBij
<1>5. IsFiniteSet(B) /\ Cardinality(B) = n
  BY <1>1, <1>4, FS_Bijection
<1> QED
  BY <1>5 DEF B

\* Adding a batch of new members.
LEMMA AddBatch ==
    ASSUME NEW S, IsFiniteSet(S), NEW B, IsFiniteSet(B), S \cap B = {}
    PROVE  /\ IsFiniteSet(S \cup B)
           /\ Cardinality(S \cup B) = Cardinality(S) + Cardinality(B)
<1>1. Cardinality(S) \in Nat /\ Cardinality(B) \in Nat
  BY FS_CardinalityType
<1>2. /\ IsFiniteSet(S \cup B)
      /\ Cardinality(S \cup B) =
            Cardinality(S) + Cardinality(B) - Cardinality(S \cap B)
  BY FS_Union
<1>3. Cardinality(S \cap B) = 0
  BY FS_EmptySet
<1> QED
  BY <1>1, <1>2, <1>3

\* Removing a batch of members.
LEMMA RemoveBatch ==
    ASSUME NEW S, IsFiniteSet(S), NEW B \in SUBSET S
    PROVE  /\ IsFiniteSet(S \ B)
           /\ IsFiniteSet(B)
           /\ Cardinality(S \ B) = Cardinality(S) - Cardinality(B)
<1>1. IsFiniteSet(S \ B) /\ IsFiniteSet(B)
  BY FS_Subset
<1>2. Cardinality(S \ B) \in Nat /\ Cardinality(B) \in Nat
  BY <1>1, FS_CardinalityType
<1>3. S = (S \ B) \cup B /\ (S \ B) \cap B = {}
  OBVIOUS
<1>4. Cardinality(S) = Cardinality(S \ B) + Cardinality(B)
  BY <1>1, <1>3, AddBatch
<1> QED
  BY <1>1, <1>2, <1>4

\* __pending is exact, and there are finitely many calls to count.
Counted == IsFiniteSet(InFlight) /\ PendingExact

\* Membership in InFlight, one kind at a time.
LEMMA InFlightMembers ==
    /\ \A x : x \in InFlight =>
          \/ \E c \in Caller : pc[c] = "creating" /\ x = <<"acquire", c, 1>>
          \/ \E i \in 1..backfill : x = <<"backfill", NoResource, i>>
          \/ \E w \in Warmer : \E i \in 1..warm[w] : x = <<"warm", w, i>>
    /\ \A c \in Caller : pc[c] = "creating" <=> <<"acquire", c, 1>> \in InFlight
    /\ \A i : i \in 1..backfill <=> <<"backfill", NoResource, i>> \in InFlight
    /\ \A w \in Warmer : \A i :
          i \in 1..warm[w] <=> <<"warm", w, i>> \in InFlight
<1>1. \A x : x \in InFlight =>
          \/ \E c \in Caller : pc[c] = "creating" /\ x = <<"acquire", c, 1>>
          \/ \E i \in 1..backfill : x = <<"backfill", NoResource, i>>
          \/ \E w \in Warmer : \E i \in 1..warm[w] : x = <<"warm", w, i>>
  BY DEF InFlight
<1>2. /\ \A c \in Caller : pc[c] = "creating" => <<"acquire", c, 1>> \in InFlight
      /\ \A i \in 1..backfill : <<"backfill", NoResource, i>> \in InFlight
      /\ \A w \in Warmer : \A i \in 1..warm[w] : <<"warm", w, i>> \in InFlight
  BY DEF InFlight
<1>3. \A c \in Caller : <<"acquire", c, 1>> \in InFlight => pc[c] = "creating"
  BY <1>1
<1>4. \A i : <<"backfill", NoResource, i>> \in InFlight => i \in 1..backfill
  BY <1>1
<1>5. \A w \in Warmer : \A i : <<"warm", w, i>> \in InFlight => i \in 1..warm[w]
  BY <1>1
<1> QED
  BY <1>1, <1>2, <1>3, <1>4, <1>5

\* A call that ends leaves the count exact.
LEMMA CallEnds ==
    ASSUME Counted, pending \in Int, NEW x \in InFlight,
           InFlight' = InFlight \ {x}, pending' = pending - 1
    PROVE  Counted'
BY FS_RemoveElement, FS_CardinalityType DEF Counted, PendingExact

\* A batch of calls that begins leaves the count exact.
LEMMA CallsBegin ==
    ASSUME Counted, pending \in Int, NEW t, NEW w, NEW a \in Nat, NEW n \in Nat,
           InFlight' = InFlight \cup Batch(t, w, a, n),
           InFlight \cap Batch(t, w, a, n) = {},
           pending' = pending + n
    PROVE  Counted'
<1> DEFINE B == Batch(t, w, a, n)
<1>1. IsFiniteSet(B) /\ Cardinality(B) = n
  BY BatchCard
<1> HIDE DEF B
<1>2. /\ IsFiniteSet(InFlight \cup B)
      /\ Cardinality(InFlight \cup B) = Cardinality(InFlight) + n
  BY <1>1, AddBatch DEF Counted, B
<1> QED
  BY <1>2 DEF Counted, PendingExact, B

\* A step that begins and ends no call.
LEMMA CallsStay ==
    ASSUME Counted,
           \A c \in Caller : pc'[c] = "creating" <=> pc[c] = "creating",
           UNCHANGED <<backfill, warm, pending>>
    PROVE  Counted'
<1>1. InFlight' = InFlight
  BY DEF InFlight
<1> QED
  BY <1>1 DEF Counted, PendingExact

\* One factory call of acquire begins.
LEMMA AcquireCallBegins ==
    ASSUME Shape, Counted, NEW c \in Caller, pc[c] # "creating",
           Suspend(c, "creating", NoResource),
           UNCHANGED <<backfill, warm>>, pending' = pending + 1
    PROVE  Counted'
<1>1. Moved(c, "creating", NoResource)
  BY SuspendFacts DEF Shape, PcStates
<1>2. Batch("acquire", c, 0, 1) = {<<"acquire", c, 1>>}
  BY DEF Batch
<1>3. InFlight' = InFlight \cup Batch("acquire", c, 0, 1)
  BY <1>1, <1>2 DEF InFlight, Moved
<1>4. InFlight \cap Batch("acquire", c, 0, 1) = {}
  BY <1>2, InFlightMembers
<1> QED
  BY <1>3, <1>4, CallsBegin DEF Shape

\* One factory call of acquire ends.
LEMMA AcquireCallEnds ==
    ASSUME Shape, Counted, NEW c \in Caller, pc[c] = "creating",
           NEW where \in PcStates \ {"creating"},
           NEW r \in Resource \cup {NoResource},
           Suspend(c, where, r),
           UNCHANGED <<backfill, warm>>, pending' = pending - 1
    PROVE  Counted'
<1>1. Moved(c, where, r)
  BY SuspendFacts DEF Shape
<1>2. <<"acquire", c, 1>> \in InFlight
  BY InFlightMembers
<1>3. ASSUME NEW x PROVE x \in InFlight' <=> x \in InFlight \ {<<"acquire", c, 1>>}
  <2>1. ASSUME x \in InFlight', x \notin InFlight \ {<<"acquire", c, 1>>}
        PROVE  FALSE
    BY <1>1, <2>1 DEF InFlight, Moved
  <2>2. ASSUME x \in InFlight \ {<<"acquire", c, 1>>}
        PROVE  x \in InFlight'
    BY <1>1, <2>2 DEF InFlight, Moved
  <2> QED
    BY <2>1, <2>2
<1>4. InFlight' = InFlight \ {<<"acquire", c, 1>>}
  BY <1>3
<1> QED
  BY <1>2, <1>4, CallEnds DEF Shape

\* n backfills begin.
LEMMA BackfillsBegin ==
    ASSUME Shape, Counted, NEW n \in Nat, backfill' = backfill + n,
           UNCHANGED <<pc, warm>>, pending' = pending + n
    PROVE  Counted'
<1> DEFINE B == Batch("backfill", NoResource, backfill, n)
<1>1. backfill \in Nat
  BY DEF Shape, CallsTypeOK
<1>2. 1..(backfill + n) = (1..backfill) \cup (backfill + 1)..(backfill + n)
  BY <1>1
<1>3. InFlight' = InFlight \cup B
  BY <1>2 DEF InFlight, Batch
<1>4. InFlight \cap B = {}
  BY <1>1, InFlightMembers DEF Batch
<1> QED
  BY <1>1, <1>3, <1>4, CallsBegin DEF Shape

\* One backfill ends.
LEMMA BackfillEnds ==
    ASSUME Shape, Counted, backfill > 0, backfill' = backfill - 1,
           \A c \in Caller : pc'[c] = "creating" <=> pc[c] = "creating",
           UNCHANGED warm, pending' = pending - 1
    PROVE  Counted'
<1> DEFINE x == <<"backfill", NoResource, backfill>>
<1>1. backfill \in Nat
  BY DEF Shape, CallsTypeOK
<1>2. x \in InFlight
  BY <1>1, InFlightMembers
<1>3. 1..(backfill - 1) = (1..backfill) \ {backfill}
  BY <1>1
<1>4. InFlight' = InFlight \ {x}
  BY <1>3 DEF InFlight
<1> QED
  BY <1>2, <1>4, CallEnds DEF Shape

\* n creations of one ensureMin begin.
LEMMA WarmsBegin ==
    ASSUME Shape, Counted, NEW w \in Warmer, NEW n \in Nat,
           warm' = [warm EXCEPT ![w] = @ + n],
           UNCHANGED <<pc, backfill>>, pending' = pending + n
    PROVE  Counted'
<1> DEFINE B == Batch("warm", w, warm[w], n)
<1>1. warm \in [Warmer -> Nat] /\ warm[w] \in Nat
  BY DEF Shape, CallsTypeOK
<1>2. /\ 1..warm'[w] = (1..warm[w]) \cup (warm[w] + 1)..(warm[w] + n)
      /\ \A v \in Warmer \ {w} : warm'[v] = warm[v]
  BY <1>1
<1>3. InFlight' = InFlight \cup B
  BY <1>2 DEF InFlight, Batch
<1>4. InFlight \cap B = {}
  BY <1>1, InFlightMembers DEF Batch
<1> QED
  BY <1>1, <1>3, <1>4, CallsBegin DEF Shape

\* One creation of an ensureMin ends.
LEMMA WarmEnds ==
    ASSUME Shape, Counted, NEW w \in Warmer, warm[w] > 0,
           warm' = [warm EXCEPT ![w] = @ - 1],
           UNCHANGED <<pc, backfill>>, pending' = pending - 1
    PROVE  Counted'
<1> DEFINE x == <<"warm", w, warm[w]>>
<1>1. warm \in [Warmer -> Nat] /\ warm[w] \in Nat
  BY DEF Shape, CallsTypeOK
<1>2. x \in InFlight
  BY <1>1, InFlightMembers
<1>3. /\ 1..warm'[w] = (1..warm[w]) \ {warm[w]}
      /\ \A v \in Warmer \ {w} : warm'[v] = warm[v]
  BY <1>1
<1>4. InFlight' = InFlight \ {x}
  BY <1>3 DEF InFlight
<1> QED
  BY <1>2, <1>4, CallEnds DEF Shape

\* One creation of an ensureMin fails and nobody awaits the others any more:
\* they are the same calls under another name.
LEMMA WarmsMove ==
    ASSUME Shape, Counted, NEW w \in Warmer, WarmFailed(w), w # Background
    PROVE  Counted'
<1> DEFINE n == warm[w]
           m == warm[Background]
           A == Batch("warm", w, 0, n)
           B == Batch("warm", Background, m, n - 1)
           R == InFlight \ A
<1>0. Background \in Warmer
  BY DEF Warmer
<1>1. /\ warm \in [Warmer -> Nat] /\ n \in Nat /\ m \in Nat /\ n > 0
      /\ pending \in Int
  BY <1>0 DEF Shape, CallsTypeOK, WarmFailed
<1>2. /\ warm' = [warm EXCEPT ![w] = 0, ![Background] = @ + warm[w] - 1]
      /\ pending' = pending - 1
      /\ UNCHANGED <<pc, backfill>>
  BY DEF WarmFailed
<1>3. /\ warm'[w] = 0
      /\ warm'[Background] = m + (n - 1)
      /\ \A v \in Warmer \ {w, Background} : warm'[v] = warm[v]
  BY <1>0, <1>1, <1>2
<1>4. A \subseteq InFlight
  BY <1>1, InFlightMembers DEF Batch
<1>5. InFlight \cap B = {}
  BY <1>0, <1>1, InFlightMembers DEF Batch
<1>6. InFlight' = R \cup B
  <2>1. 1..(m + (n - 1)) = (1..m) \cup (m + 1)..(m + (n - 1))
    BY <1>1
  <2>2. A = {<<"warm", w, i>> : i \in 1..n}
    BY <1>1 DEF Batch
  <2>3. ASSUME NEW x \in InFlight' PROVE x \in R \cup B
    <3>1. CASE \E c \in Caller : pc[c] = "creating" /\ x = <<"acquire", c, 1>>
      BY <2>2, <3>1 DEF InFlight
    <3>2. CASE \E i \in 1..backfill : x = <<"backfill", NoResource, i>>
      BY <2>2, <3>2 DEF InFlight
    <3>3. CASE \E v \in Warmer : \E i \in 1..warm'[v] : x = <<"warm", v, i>>
      <4>1. PICK v \in Warmer : \E i \in 1..warm'[v] : x = <<"warm", v, i>>
        BY <3>3
      <4>2. v # w
        BY <1>3, <4>1
      <4>3. CASE v = Background
        BY <1>3, <2>1, <2>2, <4>1, <4>2, <4>3 DEF InFlight, Batch
      <4>4. CASE v # Background
        BY <1>3, <2>2, <4>1, <4>2, <4>4 DEF InFlight
      <4> QED
        BY <4>3, <4>4
    <3>4. \/ x \in {<<"acquire", c, 1>> : c \in {d \in Caller : pc'[d] = "creating"}}
          \/ x \in {<<"backfill", NoResource, i>> : i \in 1..backfill'}
          \/ x \in UNION {{<<"warm", v, i>> : i \in 1..warm'[v]} : v \in Warmer}
      BY DEF InFlight
    <3> HIDE DEF A, B, R
    <3>5. CASE x \in {<<"acquire", c, 1>> : c \in {d \in Caller : pc'[d] = "creating"}}
      <4>1. \E c \in Caller : pc[c] = "creating" /\ x = <<"acquire", c, 1>>
        BY <1>2, <3>5
      <4> QED
        BY <3>1, <4>1
    <3>6. CASE x \in {<<"backfill", NoResource, i>> : i \in 1..backfill'}
      <4>1. \E i \in 1..backfill : x = <<"backfill", NoResource, i>>
        BY <1>2, <3>6
      <4> QED
        BY <3>2, <4>1
    <3>7. CASE x \in UNION {{<<"warm", v, i>> : i \in 1..warm'[v]} : v \in Warmer}
      <4>1. \E v \in Warmer : \E i \in 1..warm'[v] : x = <<"warm", v, i>>
        BY <3>7
      <4> QED
        BY <3>3, <4>1
    <3> QED
      BY <3>4, <3>5, <3>6, <3>7
  <2>4. R \subseteq InFlight'
    <3> SUFFICES ASSUME NEW x \in R PROVE x \in InFlight'
      OBVIOUS
    <3>1. CASE \E v \in Warmer : \E i \in 1..warm[v] : x = <<"warm", v, i>>
      <4>1. PICK v \in Warmer : \E i \in 1..warm[v] : x = <<"warm", v, i>>
        BY <3>1
      <4>2. PICK i \in 1..warm[v] : x = <<"warm", v, i>>
        BY <4>1
      <4>3. v # w
        BY <2>2, <4>2
      <4>4. i \in 1..warm'[v]
        BY <1>1, <1>3, <2>1, <4>2, <4>3
      <4> QED
        BY <4>2, <4>4 DEF InFlight
    <3>2. CASE ~ \E v \in Warmer : \E i \in 1..warm[v] : x = <<"warm", v, i>>
      BY <1>2, <3>2 DEF InFlight
    <3> QED
      BY <3>1, <3>2
  <2>5. B \subseteq InFlight'
    BY <1>0, <1>1, <1>3 DEF InFlight, Batch
  <2> QED
    BY <2>3, <2>4, <2>5
<1> HIDE DEF A, B, n, m
<1>7. /\ IsFiniteSet(A) /\ Cardinality(A) = n
      /\ IsFiniteSet(B) /\ Cardinality(B) = n - 1
  BY <1>1, BatchCard DEF A, B
<1>8. IsFiniteSet(R) /\ Cardinality(R) = Cardinality(InFlight) - n
  BY <1>4, <1>7, RemoveBatch DEF Counted
<1>9. R \cap B = {}
  BY <1>5
<1> HIDE DEF R
<1>10. /\ IsFiniteSet(R \cup B)
       /\ Cardinality(R \cup B) = Cardinality(R) + (n - 1)
  BY <1>7, <1>8, <1>9, AddBatch
<1>11. Cardinality(InFlight) \in Nat
  BY FS_CardinalityType DEF Counted
<1> QED
  BY <1>1, <1>2, <1>6, <1>8, <1>10, <1>11 DEF Counted, PendingExact

\* Nobody in the queue is creating.
LEMMA ServeKeepsCalls ==
    ASSUME Shape, NEW where \in PcStates \ {"creating"},
           NEW r \in Resource \cup {NoResource},
           waiters # <<>>, Suspend(Head(waiters), where, r)
    PROVE  \A c \in Caller : pc'[c] = "creating" <=> pc[c] = "creating"
<1>1. Head(waiters) \in Caller /\ pc[Head(waiters)] = "waiting"
  BY TailFacts DEF Shape, FieldsTypeOK, QueueExact
<1>2. Moved(Head(waiters), where, r)
  BY <1>1, SuspendFacts DEF Shape
<1> QED
  BY <1>1, <1>2 DEF Moved

\* A caller that neither begins nor ends a creation.
LEMMA MoveKeepsCalls ==
    ASSUME Shape, NEW c \in Caller, pc[c] # "creating",
           NEW where \in PcStates \ {"creating"},
           NEW r \in Resource \cup {NoResource}, Suspend(c, where, r)
    PROVE  \A d \in Caller : pc'[d] = "creating" <=> pc[d] = "creating"
BY SuspendFacts DEF Shape, Moved

\* ServeOrPark begins and ends no call.
LEMMA ServeOrParkKeepsCalls ==
    ASSUME Shape, NEW r \in Resource, ServeOrPark(r)
    PROVE  \A d \in Caller : pc'[d] = "creating" <=> pc[d] = "creating"
<1>1. CASE waiters # <<>>
  BY <1>1, ServeKeepsCalls DEF ServeOrPark, PcStates
<1>2. CASE waiters = <<>>
  BY <1>2 DEF ServeOrPark
<1> QED
  BY <1>1, <1>2

\* Neither the start nor the end of the idle loop miscounts.
LEMMA ObtainCounts ==
    ASSUME Shape, Counted, NEW c \in Caller, pc[c] \in {"out", "discarding"},
           Obtain(c), UNCHANGED <<backfill, warm>>
    PROVE  Counted'
<1>1. CASE ClaimIdle(c)
  <2>1. Head(idle) \in Resource
    BY <1>1, TailFacts DEF ClaimIdle, Shape, FieldsTypeOK
  <2>2. \A d \in Caller : pc'[d] = "creating" <=> pc[d] = "creating"
    BY <1>1, <2>1, MoveKeepsCalls DEF ClaimIdle, PcStates
  <2> QED
    BY <1>1, <2>2, CallsStay DEF ClaimIdle
<1>2. CASE BeginCreate(c)
  BY <1>2, AcquireCallBegins DEF BeginCreate
<1>3. CASE Enqueue(c)
  <2>1. \A d \in Caller : pc'[d] = "creating" <=> pc[d] = "creating"
    BY <1>3, MoveKeepsCalls DEF Enqueue, PcStates
  <2> QED
    BY <1>3, <2>1, CallsStay DEF Enqueue
<1> QED
  BY <1>1, <1>2, <1>3 DEF Obtain

\* Every step keeps __pending exact.
LEMMA CountedNext == Shape /\ Finite /\ Counted /\ [PoolNext]_poolVars => Counted'
<1> SUFFICES ASSUME Shape, Finite, Counted, [PoolNext]_poolVars PROVE Counted'
  OBVIOUS
<1>0. pending \in Int
  BY DEF Shape
<1>1. ASSUME NEW c \in Caller, Acquire(c) PROVE Counted'
  BY <1>1, ObtainCounts DEF Acquire
<1>2. ASSUME NEW c \in Caller,
             \/ AcquireValidated(c) \/ AcquireInvalid(c) \/ AcquireTimeout(c)
             \/ Release(c) \/ Destroy(c)
      PROVE  Counted'
  <2>1. res[c] \in Resource \cup {NoResource}
    BY DEF Shape, CallsTypeOK
  <2>2. \A d \in Caller : pc'[d] = "creating" <=> pc[d] = "creating"
    BY <1>2, <2>1, MoveKeepsCalls
       DEF AcquireValidated, AcquireInvalid, AcquireTimeout, Release, Destroy,
           PcStates
  <2>3. UNCHANGED <<backfill, warm, pending>>
    BY <1>2 DEF AcquireValidated, AcquireInvalid, AcquireTimeout, Release,
                Destroy, fields
  <2> QED
    BY <2>2, <2>3, CallsStay
<1>3. ASSUME NEW c \in Caller, AcquireDiscarded(c) PROVE Counted'
  BY <1>3, ObtainCounts DEF AcquireDiscarded
<1>4. ASSUME NEW c \in Caller, NEW r \in Resource, AcquireCreated(c, r)
      PROVE  Counted'
  BY <1>4, AcquireCallEnds DEF AcquireCreated, PcStates
<1>5. ASSUME NEW c \in Caller, AcquireCreateFailed(c) PROVE Counted'
  BY <1>5, AcquireCallEnds DEF AcquireCreateFailed, PcStates
<1>6. ASSUME NEW r \in Resource, HandToWaiter(r) PROVE Counted'
  <2>1. \A d \in Caller : pc'[d] = "creating" <=> pc[d] = "creating"
    BY <1>6, ServeOrParkKeepsCalls DEF HandToWaiter
  <2> QED
    BY <1>6, <2>1, CallsStay DEF HandToWaiter
<1>7. ASSUME NEW r \in Resource, HandToWaiterInvalid(r) PROVE Counted'
  BY <1>7, CallsStay DEF HandToWaiterInvalid
<1>8. ASSUME NEW r \in Resource, DestroyDone(r) PROVE Counted'
  BY <1>8, BackfillsFacts, BackfillsBegin DEF DestroyDone
<1>9. ASSUME NEW r \in Resource, SafeDestroyed(r) PROVE Counted'
  BY <1>9, CallsStay DEF SafeDestroyed, fields
<1>10. ASSUME NEW r \in Resource, BackfillDone(r) PROVE Counted'
  <2>1. \A d \in Caller : pc'[d] = "creating" <=> pc[d] = "creating"
    BY <1>10, ServeOrParkKeepsCalls DEF BackfillDone
  <2> QED
    BY <1>10, <2>1, BackfillEnds DEF BackfillDone
<1>11. ASSUME BackfillFailed PROVE Counted'
  <2>1. \A d \in Caller : pc'[d] = "creating" <=> pc[d] = "creating"
    BY <1>11, ServeKeepsCalls DEF BackfillFailed, PcStates
  <2> QED
    BY <1>11, <2>1, BackfillEnds DEF BackfillFailed
<1>12. ASSUME NEW w \in Warmer, NEW r \in Resource, WarmCreated(w, r)
       PROVE  Counted'
  BY <1>12, WarmEnds DEF WarmCreated
<1>13. ASSUME NEW w \in Warmer, NEW r \in Resource, WarmDropped(w, r)
       PROVE  Counted'
  BY <1>13, CallsStay DEF WarmDropped, fields
<1>14. ASSUME NEW w \in Warmer, WarmFailed(w) PROVE Counted'
  <2>1. CASE w = Background
    BY <1>14, <2>1, WarmEnds DEF WarmFailed
  <2>2. CASE w # Background
    BY <1>14, <2>2, WarmsMove
  <2> QED
    BY <2>1, <2>2
<1>15. ASSUME NEW h \in Host, DrainStep(h) PROVE Counted'
  BY <1>15, CallsStay DEF DrainStep
<1>16. ASSUME NEW h \in Host, Reopen(h) PROVE Counted'
  BY <1>16, ShortfallFacts, WarmsBegin DEF Reopen, EnsureMin, Warmer
<1>17. ASSUME NEW h \in Host, Drain(h) PROVE Counted'
  <2>1. \A d \in Caller : pc'[d] = "creating" <=> pc[d] = "creating"
    BY <1>17 DEF Drain, Shape, QueueExact
  <2> QED
    BY <1>17, <2>1, CallsStay DEF Drain
<1>18. ASSUME NEW r \in Resource, OnIdleTimeout(r) PROVE Counted'
  <2>1. CASE EnsureMin(Background)
    BY <1>18, <2>1, ShortfallFacts, WarmsBegin DEF OnIdleTimeout, EnsureMin, Warmer
  <2>2. CASE UNCHANGED <<pending, warm>>
    BY <1>18, <2>2, CallsStay DEF OnIdleTimeout
  <2> QED
    BY <1>18, <2>1, <2>2 DEF OnIdleTimeout
<1>19. ASSUME UNCHANGED poolVars PROVE Counted'
  BY <1>19, CallsStay DEF poolVars, fields, calls
<1> QED
  BY <1>1, <1>2, <1>3, <1>4, <1>5, <1>6, <1>7, <1>8, <1>9, <1>10, <1>11, <1>12,
     <1>13, <1>14, <1>15, <1>16, <1>17, <1>18, <1>19
     DEF PoolNext, CallerProgress, PoolStep, ConnectionStep, WarmStep, HostStep

-----------------------------------------------------------------------------
(* Capacity.                                                               *)

\* What one element more or less does to a cardinality.
LEMMA OneMoreOrLess ==
    ASSUME NEW S, IsFiniteSet(S), NEW x
    PROVE  /\ Cardinality(S) \in Nat
           /\ IsFiniteSet(S \cup {x}) /\ IsFiniteSet(S \ {x})
           /\ Cardinality(S \cup {x}) \in Nat /\ Cardinality(S \ {x}) \in Nat
           /\ Cardinality(S \cup {x}) <= Cardinality(S) + 1
           /\ Cardinality(S \ {x}) <= Cardinality(S)
           /\ x \in S => Cardinality(S \ {x}) = Cardinality(S) - 1
BY FS_AddElement, FS_RemoveElement, FS_CardinalityType

\* Every step keeps the pool within max.
LEMMA CapacityNext ==
    Shape /\ Finite /\ CapacityBound /\ [PoolNext]_poolVars
        => Finite' /\ CapacityBound'
<1> SUFFICES ASSUME Shape, Finite, CapacityBound, [PoolNext]_poolVars
             PROVE  Finite' /\ CapacityBound'
  OBVIOUS
<1> USE DEF Finite, CapacityBound
<1>0. /\ pending \in Int /\ Len(idle) \in Nat
      /\ Cardinality(active) \in Nat /\ Cardinality(handoff) \in Nat
      /\ Max \in Nat /\ Min \in Nat /\ Min <= Max
      /\ size = Len(idle) + Cardinality(active) + pending + Cardinality(handoff)
  BY FS_CardinalityType, SizingAssumption DEF Shape, FieldsTypeOK, size
<1>a. ASSUME NEW c \in Caller, Obtain(c), UNCHANGED handoff
      PROVE  Finite' /\ CapacityBound'
  <2>1. CASE ClaimIdle(c)
    <3>1. Len(idle') = Len(idle) - 1 /\ pending' = pending
      BY <2>1, TailFacts DEF ClaimIdle, Shape, FieldsTypeOK
    <3>2. /\ IsFiniteSet(active') /\ Cardinality(active') \in Nat
          /\ Cardinality(active') <= Cardinality(active) + 1
      BY <2>1, OneMoreOrLess DEF ClaimIdle
    <3> QED
      BY SMTT(30), <1>0, <1>a, <3>1, <3>2
  <2>2. CASE BeginCreate(c)
    BY <1>0, <1>a, <2>2 DEF BeginCreate
  <2>3. CASE Enqueue(c)
    BY <1>0, <1>a, <2>3 DEF Enqueue
  <2> QED
    BY <1>a, <2>1, <2>2, <2>3 DEF Obtain
<1>b. ASSUME NEW r \in Resource, ServeOrPark(r)
      PROVE  /\ IsFiniteSet(active')
             /\ Cardinality(active') \in Nat /\ Len(idle') \in Nat
             /\ Len(idle') + Cardinality(active')
                   <= Len(idle) + Cardinality(active) + 1
  <2>1. CASE waiters # <<>>
    <3>1. active' = active \cup {r} /\ UNCHANGED idle
      BY <1>b, <2>1 DEF ServeOrPark
    <3>2. /\ IsFiniteSet(active') /\ Cardinality(active') \in Nat
          /\ Cardinality(active') <= Cardinality(active) + 1
      BY <3>1, OneMoreOrLess
    <3> QED
      BY <1>0, <3>1, <3>2
  <2>2. CASE waiters = <<>>
    BY <1>0, <1>b, <2>2, AppendFacts DEF ServeOrPark, Park, Shape, FieldsTypeOK
  <2> QED
    BY <2>1, <2>2
<1>1. ASSUME NEW c \in Caller, Acquire(c) \/ AcquireDiscarded(c)
      PROVE  Finite' /\ CapacityBound'
  BY <1>1, <1>a DEF Acquire, AcquireDiscarded
<1>2. ASSUME NEW c \in Caller,
             AcquireValidated(c) \/ AcquireTimeout(c)
      PROVE  Finite' /\ CapacityBound'
  BY <1>2 DEF AcquireValidated, AcquireTimeout, fields
<1>3. ASSUME NEW c \in Caller, AcquireInvalid(c) PROVE Finite' /\ CapacityBound'
  <2>1. /\ IsFiniteSet(active') /\ Cardinality(active') \in Nat
        /\ Cardinality(active') <= Cardinality(active)
    BY <1>3, OneMoreOrLess DEF AcquireInvalid
  <2>2. UNCHANGED <<idle, pending, handoff>>
    BY <1>3 DEF AcquireInvalid
  <2> QED
    BY <1>0, <2>1, <2>2
<1>4. ASSUME NEW c \in Caller, NEW r \in Resource, AcquireCreated(c, r)
      PROVE  Finite' /\ CapacityBound'
  <2>1. /\ IsFiniteSet(active') /\ Cardinality(active') \in Nat
        /\ Cardinality(active') <= Cardinality(active) + 1
    BY <1>4, OneMoreOrLess DEF AcquireCreated
  <2>2. UNCHANGED <<idle, handoff>> /\ pending' = pending - 1
    BY <1>4 DEF AcquireCreated
  <2> QED
    BY SMTT(30), <1>0, <2>1, <2>2
<1>5. ASSUME NEW c \in Caller, AcquireCreateFailed(c)
      PROVE  Finite' /\ CapacityBound'
  BY <1>0, <1>5 DEF AcquireCreateFailed
<1>6. ASSUME NEW c \in Caller, Release(c) PROVE Finite' /\ CapacityBound'
  <2>1. /\ IsFiniteSet(active')
        /\ Cardinality(active') \in Nat
        /\ Cardinality(active') = Cardinality(active) - 1
        /\ pending' = pending
    BY <1>6, OneMoreOrLess DEF Release
  <2>2. \/ UNCHANGED <<idle, handoff>>
        \/ UNCHANGED handoff /\ Len(idle') = Len(idle) + 1
        \/ UNCHANGED idle /\ handoff' = handoff \cup {res[c]}
    BY <1>6, AppendFacts DEF Release, Park, Shape, FieldsTypeOK
  <2>3. /\ IsFiniteSet(handoff \cup {res[c]})
        /\ Cardinality(handoff \cup {res[c]}) \in Nat
        /\ Cardinality(handoff \cup {res[c]}) <= Cardinality(handoff) + 1
    BY OneMoreOrLess
  <2>4. CASE UNCHANGED <<idle, handoff>>
    BY <1>0, <2>1, <2>4
  <2>5. CASE UNCHANGED handoff /\ Len(idle') = Len(idle) + 1
    BY <1>0, <2>1, <2>5
  <2>6. CASE UNCHANGED idle /\ handoff' = handoff \cup {res[c]}
    <3>1. IsFiniteSet(handoff') /\ IsFiniteSet(active')
      BY <2>1, <2>3, <2>6
    <3>2. /\ Len(idle') = Len(idle) /\ pending' = pending
          /\ Cardinality(handoff') \in Nat
          /\ Cardinality(handoff') <= Cardinality(handoff) + 1
      BY <2>1, <2>3, <2>6
    <3>3. CapacityBound'
      BY SMTT(30), <1>0, <2>1, <3>2
    <3> QED
      BY <3>1, <3>3
  <2> QED
    BY <2>2, <2>4, <2>5, <2>6
<1>7. ASSUME NEW c \in Caller, Destroy(c) PROVE Finite' /\ CapacityBound'
  <2>1. /\ IsFiniteSet(active') /\ Cardinality(active') \in Nat
        /\ Cardinality(active') <= Cardinality(active)
    BY <1>7, OneMoreOrLess DEF Destroy
  <2>2. /\ IsFiniteSet(handoff') /\ Cardinality(handoff') \in Nat
        /\ Cardinality(handoff') <= Cardinality(handoff)
    BY <1>7, OneMoreOrLess DEF Destroy
  <2>3. UNCHANGED <<idle, pending>>
    BY <1>7 DEF Destroy
  <2> QED
    BY <1>0, <2>1, <2>2, <2>3
<1>8. ASSUME NEW r \in Resource, HandToWaiter(r) PROVE Finite' /\ CapacityBound'
  <2>1. /\ IsFiniteSet(handoff')
        /\ Cardinality(handoff') \in Nat
        /\ Cardinality(handoff') = Cardinality(handoff) - 1
        /\ pending' = pending
    BY <1>8, OneMoreOrLess DEF HandToWaiter
  <2>2. CASE draining
    BY <1>0, <1>8, <2>1, <2>2 DEF HandToWaiter
  <2>3. CASE ~draining
    BY SMTT(30), <1>0, <1>8, <1>b, <2>1, <2>3 DEF HandToWaiter
  <2> QED
    BY <2>2, <2>3
<1>9. ASSUME NEW r \in Resource, HandToWaiterInvalid(r)
      PROVE  Finite' /\ CapacityBound'
  <2>1. /\ IsFiniteSet(handoff') /\ Cardinality(handoff') \in Nat
        /\ Cardinality(handoff') <= Cardinality(handoff)
    BY <1>9, OneMoreOrLess DEF HandToWaiterInvalid
  <2>2. UNCHANGED <<idle, active, pending>>
    BY <1>9 DEF HandToWaiterInvalid
  <2> QED
    BY <1>0, <2>1, <2>2
<1>10. ASSUME NEW r \in Resource, DestroyDone(r) PROVE Finite' /\ CapacityBound'
  <2>1. Backfills \in Nat /\ (Backfills > 0 => size + Backfills <= Max)
    BY BackfillsFacts
  <2> QED
    BY <1>0, <1>10, <2>1 DEF DestroyDone
<1>11. ASSUME NEW r \in Resource, SafeDestroyed(r) PROVE Finite' /\ CapacityBound'
  BY <1>11 DEF SafeDestroyed, fields
<1>12. ASSUME NEW r \in Resource, BackfillDone(r) PROVE Finite' /\ CapacityBound'
  <2>1. pending' = pending - 1 /\ UNCHANGED handoff
    BY <1>12 DEF BackfillDone
  <2>2. CASE draining
    BY <1>0, <1>12, <2>1, <2>2 DEF BackfillDone
  <2>3. CASE ~draining
    BY SMTT(30), <1>0, <1>12, <1>b, <2>1, <2>3 DEF BackfillDone
  <2> QED
    BY <2>2, <2>3
<1>13. ASSUME BackfillFailed PROVE Finite' /\ CapacityBound'
  BY <1>0, <1>13 DEF BackfillFailed
<1>14. ASSUME NEW w \in Warmer, NEW r \in Resource, WarmCreated(w, r)
       PROVE  Finite' /\ CapacityBound'
  <2>1. /\ Len(idle') \in Nat /\ Len(idle') <= Len(idle) + 1
        /\ pending' = pending - 1 /\ UNCHANGED <<active, handoff>>
    BY <1>0, <1>14, AppendFacts DEF WarmCreated, Park, Shape, FieldsTypeOK
  <2> QED
    BY <1>0, <2>1
<1>15. ASSUME NEW w \in Warmer, NEW r \in Resource, WarmDropped(w, r)
       PROVE  Finite' /\ CapacityBound'
  BY <1>15 DEF WarmDropped, fields
<1>16. ASSUME NEW w \in Warmer, WarmFailed(w) PROVE Finite' /\ CapacityBound'
  BY <1>0, <1>16 DEF WarmFailed
<1>17. ASSUME NEW h \in Host, DrainStep(h) PROVE Finite' /\ CapacityBound'
  BY <1>17 DEF DrainStep
<1>18. ASSUME NEW h \in Host, Reopen(h) PROVE Finite' /\ CapacityBound'
  <2>1. Shortfall \in Nat /\ (Shortfall > 0 => size + Shortfall = Min)
    BY ShortfallFacts
  <2> QED
    BY <1>0, <1>18, <2>1 DEF Reopen, EnsureMin
<1>19. ASSUME NEW h \in Host, Drain(h) PROVE Finite' /\ CapacityBound'
  <2>1. idle' = <<>> /\ UNCHANGED <<active, handoff, pending>>
    BY <1>19 DEF Drain
  <2> QED
    BY <1>0, <2>1
<1>20. ASSUME NEW r \in Resource, OnIdleTimeout(r) PROVE Finite' /\ CapacityBound'
  <2>1. Shortfall \in Nat /\ (Shortfall > 0 => size + Shortfall = Min)
    BY ShortfallFacts
  <2>2. UNCHANGED <<active, handoff>>
    BY <1>20 DEF OnIdleTimeout
  <2>3. \/ Len(idle') = Len(idle) - 1 /\ UNCHANGED pending
        \/ UNCHANGED idle /\ pending' = pending + Shortfall
        \/ UNCHANGED <<idle, pending>>
    BY <1>20, SpliceFacts DEF OnIdleTimeout, EnsureMin, Shape, FieldsTypeOK
  <2> QED
    BY SMTT(30), <1>0, <2>1, <2>2, <2>3
<1>21. ASSUME UNCHANGED poolVars PROVE Finite' /\ CapacityBound'
  BY <1>21 DEF poolVars, fields
<1> QED
  BY <1>1, <1>2, <1>3, <1>4, <1>5, <1>6, <1>7, <1>8, <1>9, <1>10, <1>11, <1>12,
     <1>13, <1>14, <1>15, <1>16, <1>17, <1>18, <1>19, <1>20, <1>21
     DEF PoolNext, CallerProgress, PoolStep, ConnectionStep, WarmStep, HostStep

-----------------------------------------------------------------------------
(* The theorems.                                                           *)

\* The inductive invariant behind them.
Sized == Shape /\ Finite /\ Counted /\ CapacityBound

\* The new pool is within its bounds.
LEMMA SizedInit == Init => Sized
<1> SUFFICES ASSUME Init PROVE Sized
  OBVIOUS
<1>1. Shape
  BY ShapeInit
<1>2. Finite /\ Cardinality(active) = 0 /\ Cardinality(handoff) = 0
  BY FS_EmptySet DEF Init, Finite
<1>3. InFlight = {}
  BY DEF Init, InFlight
<1>4. Counted
  BY <1>3, FS_EmptySet DEF Init, Counted, PendingExact
<1>5. CapacityBound
  BY <1>2, SizingAssumption DEF Init, CapacityBound
<1> QED
  BY <1>1, <1>2, <1>4, <1>5 DEF Sized

\* Every step keeps it there.
LEMMA SizedNext == Sized /\ [PoolNext]_poolVars => Sized'
BY ShapeNext, CountedNext, CapacityNext DEF Sized

\* Sized is an invariant of the pool under any client.
THEOREM SizedInvariant == PoolSpec => []Sized
BY SizedInit, SizedNext, PTL DEF PoolSpec

\* Types are right, and __pending never goes below zero.
THEOREM TypeCorrect == PoolSpec => []TypeOK
<1>1. Sized => TypeOK
  <2> SUFFICES ASSUME Sized PROVE pending \in Nat
    BY DEF Sized, Shape, TypeOK
  <2> QED
    BY FS_CardinalityType DEF Sized, Counted, PendingExact
<1> QED
  BY <1>1, SizedInvariant, PTL

\* The pool never owns more than max connections (ConnectionPool.size).
THEOREM CapacityHolds == PoolSpec => []CapacityBound
<1>1. Sized => CapacityBound
  BY DEF Sized
<1> QED
  BY <1>1, SizedInvariant, PTL

\* __pending counts the factory calls in flight exactly.
THEOREM PendingIsExact == PoolSpec => []PendingExact
<1>1. Sized => PendingExact
  BY DEF Sized, Counted
<1> QED
  BY <1>1, SizedInvariant, PTL

\* The waiter queue holds exactly the callers that wait, once each.
THEOREM QueueIsExact == PoolSpec => []QueueExact
<1>1. Sized => QueueExact
  BY DEF Sized, Shape
<1> QED
  BY <1>1, SizedInvariant, PTL
=============================================================================
