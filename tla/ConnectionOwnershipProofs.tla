--------------------- MODULE ConnectionOwnershipProofs ---------------------
(* Who has which connection: proofs that a connection is in one place at a *)
(* time, that a drained pool keeps none, and that the pool implements      *)
(* ConnectionLeases, for every number of callers, connections and hosts.   *)
EXTENDS ConnectionPoolProofs

----------------------------------------------------------------------------
(* Ownership in two parts: the callers' hands and the pool's places.       *)

\* What is in __active is what callers work on, each connection once.
Hands == /\ active = {res[c] : c \in Claimants}
         /\ \A c, d \in Workers : res[c] = res[d] => c = d

\* The connections being closed other than by an acquire.
Closing == destroying \cup forgetting \cup DrainClosing \cup WarmClosing

Places == /\ Distinct(idle)
          /\ Elements(idle) \cap (active \cup handoff) = {}
          /\ active \cap handoff = {}
          /\ \A r \in Closing \cup Discarding :
                r \notin Elements(idle) \cup active \cup handoff

\* The two parts are Ownership.
LEMMA OwnershipParts == /\ Ownership <=> Hands /\ Places
                        /\ Hands' /\ Places' => Ownership'
BY DEF Ownership, Hands, Places, Closing

\* A caller takes a connection nobody works on.
LEMMA HandsTake ==
    ASSUME Shape, Hands, NEW c \in Caller, NEW where \in {"validating", "holding"},
           NEW r \in Resource, Suspend(c, where, r), active' = active \cup {r},
           pc[c] \notin {"validating", "holding"}, r \notin active \cup Discarding
    PROVE  Hands' /\ Discarding' \subseteq Discarding
<1>1. Moved(c, where, r)
  BY SuspendFacts DEF Shape, PcStates
<1>2. Claimants' = Claimants \cup {c} /\ c \notin Claimants
  BY <1>1 DEF Moved, Claimants
<1>3. Workers' = Workers \cup {c}
  BY <1>1 DEF Moved, Workers
<1>4. active' = {res'[d] : d \in Claimants'}
  BY <1>1, <1>2 DEF Moved, Hands, Claimants
<1>5. \A d \in Workers \ {c} : res[d] # r
  BY DEF Hands, Workers, Claimants, Discarding
<1>6. \A d, e \in Workers' : res'[d] = res'[e] => d = e
  BY <1>1, <1>3, <1>5 DEF Moved, Hands, Workers
<1>7. Discarding' \subseteq Discarding
  BY <1>1 DEF Moved, Discarding
<1> QED
  BY <1>4, <1>6, <1>7 DEF Hands

\* A validated connection stays with its caller.
LEMMA HandsKeep ==
    ASSUME Shape, Hands, NEW c \in Caller, pc[c] = "validating",
           Suspend(c, "holding", res[c]), UNCHANGED active
    PROVE  Hands' /\ Discarding' = Discarding
<1>1. Moved(c, "holding", res[c])
  BY SuspendFacts DEF Shape, PcStates, CallsTypeOK
<1>2. Claimants' = Claimants /\ Workers' = Workers
  BY <1>1 DEF Moved, Claimants, Workers
<1>3. \A d \in Caller : res'[d] = res[d]
  BY <1>1 DEF Moved
<1>4. Discarding' = Discarding
  BY <1>1, <1>3 DEF Moved, Discarding
<1> QED
  BY <1>2, <1>3, <1>4 DEF Hands, Claimants, Workers

\* A caller lets its connection go, to close it itself or to others.
LEMMA HandsDrop ==
    ASSUME Shape, Hands, NEW c \in Claimants,
           NEW where \in {"discarding", "out"}, NEW r \in Resource \cup {NoResource},
           Suspend(c, where, r), where = "discarding" => r = res[c],
           active' = active \ {res[c]}
    PROVE  /\ Hands'
           /\ Discarding' = IF where = "discarding" THEN Discarding \cup {res[c]}
                                                    ELSE Discarding
<1>0. c \in Caller /\ pc[c] \in {"validating", "holding"}
  BY DEF Claimants
<1>1. Moved(c, where, r)
  BY <1>0, SuspendFacts DEF Shape, PcStates
<1>2. Claimants' = Claimants \ {c}
  BY <1>0, <1>1 DEF Moved, Claimants
<1>3. Workers' = IF where = "discarding" THEN Workers ELSE Workers \ {c}
  BY <1>0, <1>1 DEF Moved, Workers
<1>4. \A d \in Claimants' : res'[d] = res[d] /\ res[d] # res[c]
  BY <1>0, <1>1, <1>2 DEF Moved, Hands, Workers, Claimants
<1>5. active' = {res'[d] : d \in Claimants'}
  BY <1>2, <1>4 DEF Hands
<1>6. \A d \in Workers' : res'[d] = res[d] /\ d \in Workers
  BY <1>0, <1>1, <1>3 DEF Moved, Workers
<1>7. Hands'
  BY <1>5, <1>6 DEF Hands
<1>8. Discarding' = IF where = "discarding" THEN Discarding \cup {res[c]}
                                            ELSE Discarding
  BY <1>0, <1>1 DEF Moved, Discarding
<1> QED
  BY <1>7, <1>8

\* A caller that has no connection moves on without one.
LEMMA HandsEmpty ==
    ASSUME Shape, Hands, NEW c \in Caller, pc[c] \notin {"validating", "holding"},
           NEW where \in {"out", "creating", "waiting"},
           Suspend(c, where, NoResource), UNCHANGED active
    PROVE  Hands' /\ Discarding' \subseteq Discarding
<1>1. Moved(c, where, NoResource)
  BY SuspendFacts DEF Shape, PcStates
<1>2. Claimants' = Claimants /\ c \notin Claimants
  BY <1>1 DEF Moved, Claimants
<1>3. Workers' = Workers \ {c}
  BY <1>1 DEF Moved, Workers
<1>4. \A d \in Workers' : res'[d] = res[d] /\ d \in Workers
  BY <1>1, <1>3 DEF Moved, Workers
<1>5. \A d \in Claimants' : res'[d] = res[d]
  BY <1>1, <1>2 DEF Moved, Claimants
<1>6. Discarding' \subseteq Discarding
  BY <1>1 DEF Moved, Discarding
<1> QED
  BY <1>2, <1>4, <1>5, <1>6 DEF Hands

\* No caller moves.
LEMMA HandsStill ==
    ASSUME Hands, UNCHANGED <<pc, res, active>>
    PROVE  Hands' /\ Discarding' = Discarding
BY DEF Hands, Claimants, Workers, Discarding

----------------------------------------------------------------------------
(* Every step keeps Ownership.                                             *)

\* What a step that leaves the closings alone leaves of Closing.
LEMMA ClosingStays ==
    UNCHANGED <<destroying, forgetting, drainQ, warmDrop>> => Closing' = Closing
BY DEF Closing, DrainClosing, WarmClosing

\* The names a factory may use are in no place and in nobody's hands.
LEMMA FreshFacts ==
    ASSUME NEW r \in Fresh
    PROVE  /\ r \in Resource
           /\ r \notin Elements(idle) \cup active \cup handoff
           /\ r \notin Closing \cup Discarding
BY DEF Fresh, InUse, Closing

\* Putting a connection that is nowhere on the idle list.
LEMMA ParkPlaces ==
    ASSUME Shape, Distinct(idle), NEW r \in Resource, Park(r), r \notin Elements(idle)
    PROVE  Distinct(idle') /\ Elements(idle') = Elements(idle) \cup {r}
BY AppendFacts DEF Park, Shape, FieldsTypeOK

\* acquire's loop: an idle connection changes hands, or none does.
LEMMA ObtainOwnership ==
    ASSUME Shape, Ownership, NEW c \in Caller, pc[c] \in {"out", "discarding"},
           Obtain(c), UNCHANGED <<handoff, warmDrop, destroying, forgetting, drainQ>>
    PROVE  Ownership'
<1>0. Hands /\ Places /\ Closing' = Closing
  BY OwnershipParts, ClosingStays
<1>1. CASE ClaimIdle(c)
  <2> DEFINE r == Head(idle)
  <2>1. /\ r \in Resource /\ r \in Elements(idle)
        /\ Distinct(idle') /\ Elements(idle') = Elements(idle) \ {r}
    BY <1>0, <1>1, TailFacts DEF ClaimIdle, Shape, FieldsTypeOK, Places
  <2>2. Suspend(c, "validating", r) /\ active' = active \cup {r}
    BY <1>1 DEF ClaimIdle
  <2> HIDE DEF r
  <2>3. r \notin active \cup handoff \cup Discarding \cup Closing
    BY <1>0, <2>1 DEF Places
  <2>4. Hands' /\ Discarding' \subseteq Discarding
    BY <1>0, <2>1, <2>2, <2>3, HandsTake
  <2>5. Places'
    BY <1>0, <2>1, <2>2, <2>3, <2>4 DEF Places
  <2> QED
    BY <2>4, <2>5, OwnershipParts
<1>2. CASE BeginCreate(c) \/ Enqueue(c)
  <2>1. UNCHANGED <<idle, active>>
    BY <1>2 DEF BeginCreate, Enqueue
  <2>2. PICK where \in {"creating", "waiting"} : Suspend(c, where, NoResource)
    BY <1>2 DEF BeginCreate, Enqueue
  <2>3. Hands' /\ Discarding' \subseteq Discarding
    BY <1>0, <2>1, <2>2, HandsEmpty
  <2>4. Places'
    BY <1>0, <2>1, <2>3 DEF Places
  <2> QED
    BY <2>3, <2>4, OwnershipParts
<1> QED
  BY <1>1, <1>2 DEF Obtain

\* A connection that is in no place goes to a waiter or to the idle list.
LEMMA ServeOrParkOwnership ==
    ASSUME Shape, Hands, NEW r \in Resource, ServeOrPark(r),
           Distinct(idle), Elements(idle) \cap active = {},
           r \notin Elements(idle) \cup active \cup Discarding
    PROVE  /\ Hands'
           /\ Discarding' \subseteq Discarding
           /\ Distinct(idle')
           /\ \/ Elements(idle') = Elements(idle) /\ active' = active \cup {r}
              \/ Elements(idle') = Elements(idle) \cup {r} /\ active' = active
<1>1. CASE waiters # <<>>
  <2> DEFINE c == Head(waiters)
  <2>1. c \in Caller /\ pc[c] = "waiting"
    BY <1>1, TailFacts DEF Shape, FieldsTypeOK, QueueExact
  <2>2. /\ Suspend(c, "holding", r) /\ active' = active \cup {r}
        /\ UNCHANGED idle
    BY <1>1 DEF ServeOrPark
  <2> HIDE DEF c
  <2>3. Hands' /\ Discarding' \subseteq Discarding
    BY <2>1, <2>2, HandsTake
  <2> QED
    BY <2>2, <2>3
<1>2. CASE waiters = <<>>
  <2>1. UNCHANGED <<active, pc, res>> /\ Park(r)
    BY <1>2 DEF ServeOrPark
  <2>2. Hands' /\ Discarding' = Discarding
    BY <2>1, HandsStill
  <2>3. Distinct(idle') /\ Elements(idle') = Elements(idle) \cup {r}
    BY <2>1, ParkPlaces
  <2> QED
    BY <2>1, <2>2, <2>3
<1> QED
  BY <1>1, <1>2
\* Every step keeps a connection in one place.
LEMMA OwnershipNext == Shape /\ Ownership /\ [PoolNext]_poolVars => Ownership'
<1> SUFFICES ASSUME Shape, Ownership, [PoolNext]_poolVars PROVE Ownership'
  OBVIOUS
<1>0. Hands /\ Places
  BY OwnershipParts
<1>1. ASSUME NEW c \in Caller, Acquire(c) \/ AcquireDiscarded(c) PROVE Ownership'
  <2>1. /\ pc[c] \in {"out", "discarding"} /\ Obtain(c)
        /\ UNCHANGED <<handoff, warmDrop, destroying, forgetting, drainQ>>
    BY <1>1 DEF Acquire, AcquireDiscarded
  <2> QED
    BY <2>1, ObtainOwnership
<1>2. ASSUME NEW c \in Caller, AcquireValidated(c) PROVE Ownership'
  <2>1. Hands' /\ Discarding' = Discarding
    BY <1>0, <1>2, HandsKeep DEF AcquireValidated, fields
  <2>2. UNCHANGED <<idle, active, handoff>> /\ Closing' = Closing
    BY <1>2, ClosingStays DEF AcquireValidated, fields
  <2>3. Places'
    BY <1>0, <2>1, <2>2 DEF Places
  <2> QED
    BY <2>1, <2>3, OwnershipParts
<1>3. ASSUME NEW c \in Caller, AcquireInvalid(c) PROVE Ownership'
  <2>1. /\ c \in Claimants /\ res[c] \in active /\ res[c] \in Resource
        /\ active' = active \ {res[c]} /\ UNCHANGED <<idle, handoff>>
        /\ Closing' = Closing
    BY <1>0, <1>3, ClosingStays
       DEF AcquireInvalid, Claimants, Hands, Workers, Shape, WorkersHold
  <2>2. Hands' /\ Discarding' = Discarding \cup {res[c]}
    BY <1>0, <1>3, <2>1, HandsDrop DEF AcquireInvalid
  <2>3. Places'
    BY <1>0, <2>1, <2>2 DEF Places
  <2> QED
    BY <2>2, <2>3, OwnershipParts
<1>4. ASSUME NEW c \in Caller, NEW r \in Resource, AcquireCreated(c, r) PROVE Ownership'
  <2>1. /\ r \notin Elements(idle) \cup active \cup handoff
        /\ r \notin Closing \cup Discarding
    BY <1>4, FreshFacts DEF AcquireCreated
  <2>2. /\ active' = active \cup {r} /\ UNCHANGED <<idle, handoff>>
        /\ Closing' = Closing
    BY <1>4, ClosingStays DEF AcquireCreated
  <2>3. Hands' /\ Discarding' \subseteq Discarding
    BY <1>0, <1>4, <2>1, HandsTake DEF AcquireCreated
  <2>4. Places'
    BY <1>0, <2>1, <2>2, <2>3 DEF Places
  <2> QED
    BY <2>3, <2>4, OwnershipParts
<1>5. ASSUME NEW c \in Caller, AcquireCreateFailed(c) \/ AcquireTimeout(c)
      PROVE  Ownership'
  <2>1. UNCHANGED <<idle, active, handoff>> /\ Closing' = Closing
    BY <1>5, ClosingStays DEF AcquireCreateFailed, AcquireTimeout
  <2>2. Hands' /\ Discarding' \subseteq Discarding
    BY <1>0, <1>5, HandsEmpty DEF AcquireCreateFailed, AcquireTimeout
  <2>3. Places'
    BY <1>0, <2>1, <2>2 DEF Places
  <2> QED
    BY <2>2, <2>3, OwnershipParts
<1>6. ASSUME NEW c \in Caller, Release(c) PROVE Ownership'
  <2> DEFINE r == res[c]
  <2>1. /\ c \in Claimants /\ r \in active /\ r \in Resource
        /\ active' = active \ {r} /\ UNCHANGED <<drainQ, warmDrop, destroying>>
    BY <1>0, <1>6 DEF Release, Claimants, Hands, Workers, Shape, WorkersHold
  <2>2. Hands' /\ Discarding' = Discarding
    BY <1>0, <1>6, <2>1, HandsDrop DEF Release
  <2>3. r \notin Elements(idle) \cup handoff \cup Closing \cup Discarding
    BY <1>0, <2>1 DEF Places
  <2>4. CASE draining
    <3>1. UNCHANGED <<idle, handoff>> /\ Closing' = Closing \cup {r}
      BY <1>6, <2>4 DEF Release, Closing, DrainClosing, WarmClosing
    <3> QED
      BY <1>0, <2>1, <2>2, <3>1, OwnershipParts DEF Places
  <2>5. CASE ~draining /\ waiters = <<>>
    <3>1. Park(r) /\ UNCHANGED handoff /\ Closing' = Closing
      BY <1>6, <2>5, ClosingStays DEF Release
    <3>2. Distinct(idle') /\ Elements(idle') = Elements(idle) \cup {r}
      BY <1>0, <2>1, <2>3, <3>1, ParkPlaces DEF Places
    <3> QED
      BY <1>0, <2>1, <2>2, <2>3, <3>1, <3>2, OwnershipParts DEF Places
  <2>6. CASE ~draining /\ waiters # <<>>
    <3>1. /\ handoff' = handoff \cup {r} /\ UNCHANGED idle
          /\ Closing' = Closing
      BY <1>6, <2>6, ClosingStays DEF Release
    <3> QED
      BY <1>0, <2>1, <2>2, <2>3, <3>1, OwnershipParts DEF Places
  <2> QED
    BY <2>4, <2>5, <2>6
<1>7. ASSUME NEW c \in Caller, Destroy(c) PROVE Ownership'
  <2> DEFINE r == res[c]
  <2>1. /\ c \in Claimants /\ r \in active /\ r \in Resource
        /\ active' = active \ {r} /\ handoff' = handoff \ {r} /\ UNCHANGED idle
        /\ Closing' = Closing \cup {r}
    BY <1>0, <1>7 DEF Destroy, Claimants, Hands, Workers, Shape, WorkersHold,
                      Closing, DrainClosing, WarmClosing
  <2>2. Hands' /\ Discarding' = Discarding
    BY <1>0, <1>7, <2>1, HandsDrop DEF Destroy
  <2>3. Places'
    BY <1>0, <2>1, <2>2 DEF Places
  <2> QED
    BY <2>2, <2>3, OwnershipParts
<1>8. ASSUME NEW r \in Resource, HandToWaiter(r) PROVE Ownership'
  <2>1. /\ r \in handoff /\ handoff' = handoff \ {r}
        /\ r \notin Elements(idle) \cup active \cup Closing \cup Discarding
    BY <1>0, <1>8 DEF HandToWaiter, Places
  <2>2. CASE draining
    <3>1. /\ UNCHANGED <<idle, active, pc, res>>
          /\ Closing' = Closing \cup {r}
      BY <1>8, <2>2 DEF HandToWaiter, Closing, DrainClosing, WarmClosing
    <3>2. Hands' /\ Discarding' = Discarding
      BY <1>0, <3>1, HandsStill
    <3>3. Places'
      BY <1>0, <2>1, <3>1, <3>2 DEF Places
    <3> QED
      BY <3>2, <3>3, OwnershipParts
  <2>3. CASE ~draining
    <3>1. ServeOrPark(r) /\ Closing' = Closing
      BY <1>8, <2>3, ClosingStays DEF HandToWaiter
    <3>2. /\ Hands' /\ Discarding' \subseteq Discarding /\ Distinct(idle')
          /\ \/ Elements(idle') = Elements(idle) /\ active' = active \cup {r}
             \/ Elements(idle') = Elements(idle) \cup {r} /\ active' = active
      BY <1>0, <2>1, <3>1, ServeOrParkOwnership DEF Places
    <3>3. Places'
      BY <1>0, <2>1, <3>1, <3>2 DEF Places
    <3> QED
      BY <3>2, <3>3, OwnershipParts
  <2> QED
    BY <2>2, <2>3
<1>9. ASSUME NEW r \in Resource, HandToWaiterInvalid(r) PROVE Ownership'
  <2>1. /\ r \in handoff /\ handoff' = handoff \ {r}
        /\ UNCHANGED <<idle, active, pc, res>> /\ Closing' = Closing \cup {r}
    BY <1>9 DEF HandToWaiterInvalid, Closing, DrainClosing, WarmClosing
  <2>2. Hands' /\ Discarding' = Discarding
    BY <1>0, <2>1, HandsStill
  <2>3. Places'
    BY <1>0, <2>1, <2>2 DEF Places
  <2> QED
    BY <2>2, <2>3, OwnershipParts
<1>10. ASSUME NEW r \in Resource, DestroyDone(r) \/ SafeDestroyed(r) PROVE Ownership'
  <2>1. UNCHANGED <<idle, active, handoff, pc, res>> /\ Closing' \subseteq Closing
    BY <1>10 DEF DestroyDone, SafeDestroyed, fields, Closing, DrainClosing, WarmClosing
  <2> QED
    BY <1>0, <2>1, HandsStill, OwnershipParts DEF Places
<1>11. ASSUME NEW r \in Resource, BackfillDone(r) PROVE Ownership'
  <2>1. /\ r \notin Elements(idle) \cup active \cup handoff
        /\ r \notin Closing \cup Discarding
        /\ UNCHANGED handoff
    BY <1>11, FreshFacts DEF BackfillDone
  <2>2. CASE draining
    <3>1. /\ UNCHANGED <<idle, active, pc, res>>
          /\ Closing' = Closing \cup {r}
      BY <1>11, <2>2 DEF BackfillDone, Closing, DrainClosing, WarmClosing
    <3>2. Hands' /\ Discarding' = Discarding
      BY <1>0, <3>1, HandsStill
    <3>3. Places'
      BY <1>0, <2>1, <3>1, <3>2 DEF Places
    <3> QED
      BY <3>2, <3>3, OwnershipParts
  <2>3. CASE ~draining
    <3>1. ServeOrPark(r) /\ Closing' = Closing
      BY <1>11, <2>3, ClosingStays DEF BackfillDone
    <3>2. /\ Hands' /\ Discarding' \subseteq Discarding /\ Distinct(idle')
          /\ \/ Elements(idle') = Elements(idle) /\ active' = active \cup {r}
             \/ Elements(idle') = Elements(idle) \cup {r} /\ active' = active
      BY <1>0, <2>1, <3>1, ServeOrParkOwnership DEF Places
    <3>3. Places'
      BY <1>0, <2>1, <3>1, <3>2 DEF Places
    <3> QED
      BY <3>2, <3>3, OwnershipParts
  <2> QED
    BY <2>2, <2>3
<1>12. ASSUME BackfillFailed PROVE Ownership'
  <2>1. UNCHANGED <<idle, active, handoff>> /\ Closing' = Closing
    BY <1>12, ClosingStays DEF BackfillFailed
  <2>2. CASE waiters # <<>>
    <3>1. /\ Head(waiters) \in Caller /\ pc[Head(waiters)] = "waiting"
          /\ Suspend(Head(waiters), "out", NoResource)
      BY <1>12, <2>2, TailFacts DEF BackfillFailed, Shape, FieldsTypeOK, QueueExact
    <3>2. Hands' /\ Discarding' \subseteq Discarding
      BY <1>0, <2>1, <3>1, HandsEmpty
    <3> QED
      BY <1>0, <2>1, <3>2, OwnershipParts DEF Places
  <2>3. CASE waiters = <<>>
    <3>1. Hands' /\ Discarding' = Discarding
      BY <1>0, <1>12, <2>1, <2>3, HandsStill DEF BackfillFailed
    <3> QED
      BY <1>0, <2>1, <3>1, OwnershipParts DEF Places
  <2> QED
    BY <2>2, <2>3
<1>13. ASSUME NEW w \in Warmer, NEW r \in Resource, WarmCreated(w, r) PROVE Ownership'
  <2>1. /\ r \notin Elements(idle) \cup active \cup handoff
        /\ UNCHANGED <<active, handoff, pc, res>>
    BY <1>13, FreshFacts DEF WarmCreated
  <2>2. Hands' /\ Discarding' = Discarding
    BY <1>0, <2>1, HandsStill
  <2>3. CASE draining
    <3>1. UNCHANGED <<idle, destroying, forgetting, drainQ>>
      BY <1>13, <2>3 DEF WarmCreated
    <3>2. WarmClosing' \subseteq WarmClosing \cup {r}
      BY SMTT(30), <1>13, <2>3 DEF WarmCreated, WarmClosing, Shape, CallsTypeOK
    <3>3. Closing' \subseteq Closing \cup {r}
      BY <3>1, <3>2 DEF Closing, DrainClosing
    <3> QED
      BY <1>0, <2>1, <2>2, <3>1, <3>3, OwnershipParts DEF Places
  <2>4. CASE ~draining
    <3>1. Park(r) /\ Closing' = Closing
      BY <1>13, <2>4, ClosingStays DEF WarmCreated
    <3>2. Distinct(idle') /\ Elements(idle') = Elements(idle) \cup {r}
      BY <1>0, <2>1, <3>1, ParkPlaces DEF Places
    <3>3. r \notin Closing \cup Discarding
      BY <1>13, FreshFacts DEF WarmCreated
    <3> QED
      BY <1>0, <2>1, <2>2, <3>1, <3>2, <3>3, OwnershipParts DEF Places
  <2> QED
    BY <2>3, <2>4
<1>14. ASSUME NEW w \in Warmer, NEW r \in Resource, WarmDropped(w, r) PROVE Ownership'
  <2>1. UNCHANGED <<idle, active, handoff, pc, res, destroying, forgetting, drainQ>>
    BY <1>14 DEF WarmDropped, fields
  <2>2. WarmClosing' \subseteq WarmClosing
    BY <1>14 DEF WarmDropped, WarmClosing, Shape, CallsTypeOK
  <2>3. Closing' \subseteq Closing
    BY <2>1, <2>2 DEF Closing, DrainClosing
  <2> QED
    BY <1>0, <2>1, <2>3, HandsStill, OwnershipParts DEF Places
<1>15. ASSUME NEW w \in Warmer, WarmFailed(w) PROVE Ownership'
  <2>1. UNCHANGED <<idle, active, handoff, pc, res, destroying, forgetting, drainQ>>
    BY <1>15 DEF WarmFailed
  <2>2. WarmClosing' \subseteq WarmClosing
    <3>1. \A v \in Warmer : warmDrop'[v] \subseteq warmDrop[v] \cup warmDrop[w]
      BY <1>15 DEF WarmFailed, Warmer, Shape, CallsTypeOK
    <3> QED
      BY <3>1 DEF WarmClosing
  <2>3. Closing' \subseteq Closing
    BY <2>1, <2>2 DEF Closing, DrainClosing
  <2> QED
    BY <1>0, <2>1, <2>3, HandsStill, OwnershipParts DEF Places
<1>16. ASSUME NEW h \in Host, DrainStep(h) PROVE Ownership'
  <2>1. UNCHANGED <<idle, active, handoff, pc, res, destroying, forgetting, warmDrop>>
    BY <1>16 DEF DrainStep
  <2>2. /\ drainQ' = [drainQ EXCEPT ![h] = Tail(drainQ[h])]
        /\ Elements(Tail(drainQ[h])) \subseteq Elements(drainQ[h])
    BY <1>16, TailFacts DEF DrainStep, Shape, CallsTypeOK
  <2>3. DrainClosing' \subseteq DrainClosing
    BY <2>2 DEF DrainClosing, Shape, CallsTypeOK
  <2>4. Closing' \subseteq Closing
    BY <2>1, <2>3 DEF Closing, WarmClosing
  <2> QED
    BY <1>0, <2>1, <2>4, HandsStill, OwnershipParts DEF Places
<1>17. ASSUME NEW h \in Host, Reopen(h) PROVE Ownership'
  <2>1. UNCHANGED <<idle, active, handoff, pc, res>> /\ Closing' = Closing
    BY <1>17, ClosingStays DEF Reopen
  <2> QED
    BY <1>0, <2>1, HandsStill, OwnershipParts DEF Places
<1>18. ASSUME NEW h \in Host, Drain(h) PROVE Ownership'
  <2>1. /\ UNCHANGED <<active, handoff, res, destroying, forgetting, warmDrop>>
        /\ drainQ' = [drainQ EXCEPT ![h] = idle] /\ idle' = <<>>
    BY <1>18 DEF Drain
  <2>2. \A d \in Caller : pc'[d] = IF pc[d] = "waiting" THEN "out" ELSE pc[d]
    BY <1>18 DEF Drain, Shape, QueueExact
  <2>3. Claimants' = Claimants /\ Workers' = Workers
    BY <2>2 DEF Claimants, Workers
  <2>4. Hands'
    BY <1>0, <2>1, <2>3 DEF Hands
  <2>5. Discarding' = Discarding
    BY <2>1, <2>2 DEF Discarding
  <2>6. DrainClosing' \subseteq DrainClosing \cup Elements(idle)
    BY <2>1 DEF DrainClosing, Shape, CallsTypeOK
  <2>7. Closing' \subseteq Closing \cup Elements(idle)
    BY <2>1, <2>6 DEF Closing, WarmClosing
  <2>8. Elements(idle') = {} /\ Distinct(idle')
    BY <2>1 DEF Elements, Distinct
  <2> QED
    BY <1>0, <2>1, <2>4, <2>5, <2>7, <2>8, OwnershipParts DEF Places
<1>19. ASSUME NEW r \in Resource, OnIdleTimeout(r) PROVE Ownership'
  <2>1. UNCHANGED <<active, handoff, pc, res, destroying, drainQ, warmDrop>>
    BY <1>19 DEF OnIdleTimeout
  <2>2. Hands' /\ Discarding' = Discarding
    BY <1>0, <2>1, HandsStill
  <2>3. CASE UNCHANGED <<idle, forgetting>>
    BY <1>0, <2>1, <2>2, <2>3, ClosingStays, OwnershipParts DEF Places
  <2>4. CASE /\ r \in Elements(idle)
             /\ idle' = Splice(idle, IndexOf(idle, r))
             /\ forgetting' = forgetting \cup {r}
    <3>1. Distinct(idle') /\ Elements(idle') = Elements(idle) \ {r}
      BY <1>0, <2>4, SpliceFacts DEF Places, Shape, FieldsTypeOK
    <3>2. Closing' = Closing \cup {r}
      BY <2>1, <2>4 DEF Closing, DrainClosing, WarmClosing
    <3>3. r \notin active \cup handoff
      BY <1>0, <2>4 DEF Places
    <3> QED
      BY <1>0, <2>1, <2>2, <3>1, <3>2, <3>3, OwnershipParts DEF Places
  <2> QED
    BY <1>19, <2>3, <2>4 DEF OnIdleTimeout
<1>20. ASSUME UNCHANGED poolVars PROVE Ownership'
  <2>1. UNCHANGED <<idle, active, handoff, pc, res>> /\ Closing' = Closing
    BY <1>20, ClosingStays DEF poolVars, fields, calls
  <2> QED
    BY <1>0, <2>1, HandsStill, OwnershipParts DEF Places
<1> QED
  BY <1>1, <1>2, <1>3, <1>4, <1>5, <1>6, <1>7, <1>8, <1>9, <1>10, <1>11, <1>12,
     <1>13, <1>14, <1>15, <1>16, <1>17, <1>18, <1>19, <1>20
     DEF PoolNext, CallerProgress, PoolStep, ConnectionStep, WarmStep, HostStep

\* The empty pool owns nothing.
LEMMA OwnershipInit == Init => Ownership
<1> SUFFICES ASSUME Init PROVE Ownership
  OBVIOUS
<1>1. /\ Claimants = {} /\ Workers = {} /\ Discarding = {} /\ active = {}
      /\ handoff = {}
  BY DEF Init, Claimants, Workers, Discarding
<1>2. Elements(idle) = {} /\ Distinct(idle)
  BY DEF Init, Elements, Distinct
<1> QED
  BY <1>1, <1>2 DEF Ownership

\* A connection is in one place and in one caller's hands at a time, whatever
\* callers, hosts, timers and factories do (acquire, release, destroy, drain).
THEOREM OwnershipHolds == PoolSpec => []Ownership
<1>1. Init => Ownership
  BY OwnershipInit
<1>2. Sized /\ Ownership /\ [PoolNext]_poolVars => Ownership'
  BY OwnershipNext DEF Sized
<1> QED
  BY <1>1, <1>2, SizedInvariant, PTL DEF PoolSpec

----------------------------------------------------------------------------
(* A drained pool keeps nothing.                                           *)

\* Whatever was under way when drain emptied the idle list, nothing is put
\* back on it before the pool is opened again.
LEMMA DrainedNext ==
    Shape /\ DrainedHoldsNoIdle /\ [PoolNext]_poolVars => DrainedHoldsNoIdle'
<1> SUFFICES ASSUME Shape, DrainedHoldsNoIdle, [PoolNext]_poolVars,
                    draining'
             PROVE  idle' = <<>>
  BY DEF DrainedHoldsNoIdle
<1>1. ASSUME NEW h \in Host, Drain(h) PROVE idle' = <<>>
  BY <1>1 DEF Drain
<1>2. ASSUME NEW h \in Host, Reopen(h) PROVE FALSE
  BY <1>2 DEF Reopen
<1> SUFFICES ASSUME UNCHANGED draining, idle = <<>>,
                    \A h \in Host : ~HostStep(h)
             PROVE  UNCHANGED idle
  <2>1. UNCHANGED draining \/ \E h \in Host : HostStep(h)
    BY DEF PoolNext, PoolStep, CallerProgress, ConnectionStep, WarmStep, Acquire,
           AcquireValidated, AcquireInvalid, AcquireDiscarded, AcquireCreated,
           AcquireCreateFailed, AcquireTimeout, Release, Destroy, HandToWaiter,
           HandToWaiterInvalid, DestroyDone, SafeDestroyed, BackfillDone,
           OnIdleTimeout, BackfillFailed, WarmCreated, WarmDropped, WarmFailed,
           DrainStep, poolVars, fields
  <2> QED
    BY <1>1, <1>2, <2>1 DEF DrainedHoldsNoIdle, HostStep
<1>3. draining /\ Elements(idle) = {}
  BY DEF Elements
<1>4. ASSUME NEW c \in Caller, Acquire(c) \/ CallerProgress(c) PROVE UNCHANGED idle
  BY <1>3, <1>4 DEF CallerProgress, Acquire, AcquireValidated, AcquireInvalid,
       AcquireDiscarded, AcquireCreated, AcquireCreateFailed, AcquireTimeout,
       Release, Destroy, Obtain, ClaimIdle, BeginCreate, Enqueue, fields
<1>5. ASSUME NEW r \in Resource, ConnectionStep(r) PROVE UNCHANGED idle
  BY <1>3, <1>5 DEF ConnectionStep, HandToWaiter, HandToWaiterInvalid, DestroyDone,
       SafeDestroyed, BackfillDone, OnIdleTimeout, fields
<1>6. ASSUME NEW w \in Warmer, WarmStep(w) PROVE UNCHANGED idle
  BY <1>3, <1>6 DEF WarmStep, WarmCreated, WarmDropped, WarmFailed, fields
<1>7. ASSUME BackfillFailed \/ \E h \in Host : DrainStep(h) PROVE UNCHANGED idle
  BY <1>7 DEF BackfillFailed, DrainStep
<1>8. ASSUME UNCHANGED poolVars PROVE UNCHANGED idle
  BY <1>8 DEF poolVars, fields
<1> QED
  BY <1>4, <1>5, <1>6, <1>7, <1>8 DEF PoolNext, PoolStep

\* drain empties the idle list for good, until connect reopens the pool: no
\* release, hand-off, backfill or warm-up of the past fills it again.
THEOREM DrainedStaysEmpty == PoolSpec => []DrainedHoldsNoIdle
<1>1. Init => DrainedHoldsNoIdle
  BY DEF Init, DrainedHoldsNoIdle
<1>2. Sized /\ DrainedHoldsNoIdle /\ [PoolNext]_poolVars => DrainedHoldsNoIdle'
  BY DrainedNext DEF Sized
<1> QED
  BY <1>1, <1>2, SizedInvariant, PTL DEF PoolSpec

----------------------------------------------------------------------------
(* The pool implements ConnectionLeases.                                   *)

Live  == Elements(idle) \cup active \cup handoff
Lease == [c \in Caller |-> IF pc[c] = "holding" THEN res[c] ELSE NoResource]

\* The cardinality of a union.
LEMMA UnionBound ==
    ASSUME NEW S, NEW T, IsFiniteSet(S), IsFiniteSet(T)
    PROVE  /\ IsFiniteSet(S \cup T)
           /\ Cardinality(S \cup T) \in Nat
           /\ Cardinality(S) \in Nat /\ Cardinality(T) \in Nat
           /\ Cardinality(S \cup T) <= Cardinality(S) + Cardinality(T)
<1>1. IsFiniteSet(S \cap T)
  BY FS_Intersection
<1>2. /\ Cardinality(S) \in Nat /\ Cardinality(T) \in Nat
      /\ Cardinality(S \cap T) \in Nat
  BY <1>1, FS_CardinalityType
<1>3. /\ IsFiniteSet(S \cup T)
      /\ Cardinality(S \cup T) = Cardinality(S) + Cardinality(T) - Cardinality(S \cap T)
  BY FS_Union
<1>4. Cardinality(S \cup T) \in Nat
  BY <1>3, FS_CardinalityType
<1> QED
  BY <1>2, <1>3, <1>4

\* A sequence has at most as many elements as places.
LEMMA ElementsBound ==
    ASSUME NEW S, NEW s \in Seq(S)
    PROVE  /\ IsFiniteSet(Elements(s))
           /\ Cardinality(Elements(s)) \in Nat
           /\ Cardinality(Elements(s)) <= Len(s)
<1> DEFINE f == [i \in 1..Len(s) |-> s[i]]
<1>1. Len(s) \in Nat
  OBVIOUS
<1>2. IsFiniteSet(1..Len(s)) /\ Cardinality(1..Len(s)) = Len(s)
  BY SMTT(30), <1>1, FS_Interval
<1>3. f \in Surjection(1..Len(s), Elements(s))
  BY DEF Surjection, Elements
<1>4. IsFiniteSet(Elements(s)) /\ Cardinality(Elements(s)) <= Len(s)
  BY <1>2, <1>3, FS_Surjection
<1> QED
  BY <1>4, FS_CardinalityType

\* At most Max connections are live.
LEMMA LiveBound == Sized => Cardinality(Live) <= Max
<1> SUFFICES ASSUME Sized PROVE Cardinality(Live) <= Max
  OBVIOUS
<1>1. /\ idle \in Seq(Resource) /\ Len(idle) \in Nat /\ pending \in Nat
      /\ Max \in Nat
  BY FS_CardinalityType, SizingAssumption
     DEF Sized, Shape, FieldsTypeOK, Counted, PendingExact
<1>2. IsFiniteSet(Elements(idle)) /\ Cardinality(Elements(idle)) <= Len(idle)
  BY <1>1, ElementsBound
<1>3. /\ IsFiniteSet(Elements(idle) \cup active)
      /\ Cardinality(Elements(idle)) \in Nat /\ Cardinality(active) \in Nat
      /\ Cardinality(Elements(idle) \cup active) \in Nat
      /\ Cardinality(Elements(idle) \cup active)
            <= Cardinality(Elements(idle)) + Cardinality(active)
  BY <1>2, UnionBound DEF Sized, Finite
<1>4. /\ Cardinality(Live) \in Nat /\ Cardinality(handoff) \in Nat
      /\ Cardinality(Live)
            <= Cardinality(Elements(idle) \cup active) + Cardinality(handoff)
  BY <1>3, UnionBound DEF Sized, Finite, Live
<1>5. Len(idle) + Cardinality(active) + pending + Cardinality(handoff) <= Max
  BY DEF Sized, CapacityBound
<1> QED
  BY <1>1, <1>2, <1>3, <1>4, <1>5

\* What is lent is live.
LeasesLive == Lender!Lent \subseteq active /\ Live \subseteq Resource

LEMMA LeaseFacts == Shape /\ Ownership => LeasesLive
<1> SUFFICES ASSUME Shape, Ownership PROVE LeasesLive
  OBVIOUS
<1>1. \A c \in Caller : pc[c] = "holding" => res[c] \in Resource /\ c \in Claimants
  BY DEF Shape, WorkersHold, Workers, Claimants
<1>2. Lender!Lent = {res[c] : c \in {d \in Caller : pc[d] = "holding"}}
  BY <1>1, NamesAssumption DEF Lender!Lent
<1>3. Elements(idle) \subseteq Resource
  BY DEF Shape, FieldsTypeOK, Elements
<1> QED
  BY <1>1, <1>2, <1>3 DEF LeasesLive, Ownership, Live, Shape, FieldsTypeOK

\* A caller comes to hold a connection that nobody holds.
LEMMA Granted ==
    ASSUME Shape, Ownership, NEW c \in Caller, NEW r \in Resource,
           pc[c] # "holding", Suspend(c, "holding", r), r \notin Lender!Lent,
           Live' = Live \cup {r}
    PROVE  Lender!Grant(c, r)
<1>1. Moved(c, "holding", r)
  BY SuspendFacts DEF Shape, PcStates
<1>2. Lease' = [Lease EXCEPT ![c] = r]
  BY <1>1 DEF Moved, Lease
<1> QED
  BY <1>2 DEF Lender!Grant, Live, Lease

\* A caller gives its connection back.
LEMMA GivenBack ==
    ASSUME Shape, Ownership, NEW c \in Caller,
           pc[c] = "holding", Suspend(c, "out", NoResource),
           Live' \in {Live, Live \ {res[c]}}
    PROVE  Lender!Return(c)
<1>1. Moved(c, "out", NoResource)
  BY SuspendFacts DEF Shape, PcStates
<1>2. Lease' = [Lease EXCEPT ![c] = NoResource]
  BY <1>1 DEF Moved, Lease
<1>3. Lease[c] = res[c] /\ res[c] # NoResource
  BY NamesAssumption DEF Lease, Shape, WorkersHold, Workers
<1> QED
  BY <1>2, <1>3 DEF Lender!Return, Live, Lease

\* A step that starts and ends no lease only turns connections over.
LEMMA TurnedOver ==
    ASSUME Shape, Ownership, Shape', Ownership', UNCHANGED Lease
    PROVE  Lender!TurnOver
<1>1. Lender!Lent' = Lender!Lent
  BY DEF Lender!Lent, Lease
<1>2. LeasesLive'
  BY LeaseFacts, PTL
<1> QED
  BY <1>1, <1>2 DEF LeasesLive, Lender!TurnOver, Live, Lease
\* A caller that holds nothing moves on without getting anything.
LEMMA NoLease ==
    ASSUME Shape, NEW c \in Caller, NEW where \in PcStates \ {"holding"},
           NEW r \in Resource \cup {NoResource}, pc[c] # "holding",
           Suspend(c, where, r)
    PROVE  UNCHANGED Lease
<1>1. Moved(c, where, r)
  BY SuspendFacts DEF Shape
<1> QED
  BY <1>1 DEF Moved, Lease

\* Some lease starts, some lease ends, or none does.
LeaseChange == \/ \E c \in Caller, r \in Resource : Lender!Grant(c, r)
               \/ \E c \in Caller : Lender!Return(c)
               \/ UNCHANGED Lease

LEMMA ObtainLease ==
    ASSUME Shape, NEW c \in Caller, pc[c] # "holding", Obtain(c)
    PROVE  UNCHANGED Lease
<1>1. CASE ClaimIdle(c)
  <2>1. Head(idle) \in Resource
    BY <1>1, TailFacts DEF ClaimIdle, Shape, FieldsTypeOK
  <2> QED
    BY <1>1, <2>1, NoLease DEF ClaimIdle, PcStates
<1>2. CASE BeginCreate(c) \/ Enqueue(c)
  BY <1>2, NoLease DEF BeginCreate, Enqueue, PcStates
<1> QED
  BY <1>1, <1>2 DEF Obtain

\* A freed or new connection is lent to the first waiter, or to nobody.
LEMMA ServeOrParkLease ==
    ASSUME Shape, Ownership, NEW r \in Resource, ServeOrPark(r),
           r \notin active,
           waiters # <<>> => Live' = Live \cup {r}
    PROVE  LeaseChange
<1>1. CASE waiters # <<>>
  <2>1. Head(waiters) \in Caller /\ pc[Head(waiters)] = "waiting"
    BY <1>1, TailFacts DEF Shape, FieldsTypeOK, QueueExact
  <2>2. r \notin Lender!Lent
    BY LeaseFacts DEF LeasesLive
  <2>3. Lender!Grant(Head(waiters), r)
    BY <1>1, <2>1, <2>2, Granted DEF ServeOrPark
  <2> QED
    BY <2>1, <2>3 DEF LeaseChange
<1>2. CASE waiters = <<>>
  BY <1>2 DEF ServeOrPark, LeaseChange, Lease
<1> QED
  BY <1>1, <1>2

\* Every step of the pool is one of the three.
LEMMA LeaseStep ==
    ASSUME Shape, Ownership, [PoolNext]_poolVars
    PROVE  LeaseChange
<1>1. ASSUME NEW c \in Caller, Acquire(c) \/ AcquireDiscarded(c) PROVE LeaseChange
  BY <1>1, ObtainLease DEF Acquire, AcquireDiscarded, LeaseChange
<1>2. ASSUME NEW c \in Caller, AcquireValidated(c) PROVE LeaseChange
  <2>1. PICK r \in Resource : r = res[c]
    BY <1>2 DEF AcquireValidated, Shape, WorkersHold, Workers
  <2>2. /\ pc[c] = "validating" /\ r \in active
        /\ \A d \in Caller : pc[d] = "holding" => res[d] # r
    BY <1>2, <2>1 DEF AcquireValidated, Workers, Ownership, Claimants
  <2>3. r \notin Lender!Lent
    BY <2>2, NamesAssumption DEF Lender!Lent
  <2>4. Live' = Live \cup {r}
    BY <1>2, <2>2 DEF AcquireValidated, fields, Live
  <2>5. Lender!Grant(c, r)
    BY <1>2, <2>1, <2>2, <2>3, <2>4, Granted DEF AcquireValidated
  <2> QED
    BY <2>5 DEF LeaseChange
<1>3. ASSUME NEW c \in Caller, AcquireInvalid(c) PROVE LeaseChange
  <2>1. res[c] \in Resource
    BY <1>3 DEF AcquireInvalid, Shape, WorkersHold, Workers
  <2> QED
    BY <1>3, <2>1, NoLease DEF AcquireInvalid, PcStates, LeaseChange
<1>4. ASSUME NEW c \in Caller, NEW r \in Resource, AcquireCreated(c, r)
      PROVE  LeaseChange
  <2>1. r \notin Elements(idle) \cup active \cup handoff
    BY <1>4, FreshFacts DEF AcquireCreated
  <2>2. r \notin Lender!Lent
    BY <2>1, LeaseFacts DEF LeasesLive
  <2>3. Live' = Live \cup {r}
    BY <1>4 DEF AcquireCreated, Live
  <2>4. Lender!Grant(c, r)
    BY <1>4, <2>2, <2>3, Granted DEF AcquireCreated
  <2> QED
    BY <2>4 DEF LeaseChange
<1>5. ASSUME NEW c \in Caller, AcquireCreateFailed(c) \/ AcquireTimeout(c)
      PROVE  LeaseChange
  BY <1>5, NoLease DEF AcquireCreateFailed, AcquireTimeout, PcStates, LeaseChange
<1>6. ASSUME NEW c \in Caller, Release(c) PROVE LeaseChange
  <2>1. /\ res[c] \in active /\ res[c] \in Resource
        /\ res[c] \notin Elements(idle) \cup handoff
    BY <1>6 DEF Release, Ownership, Shape, WorkersHold, Workers
  <2>2. Live' \in {Live, Live \ {res[c]}}
    <3>1. CASE draining
      BY <1>6, <2>1, <3>1 DEF Release, Live
    <3>2. CASE ~draining /\ waiters = <<>>
      <4>1. Elements(idle') = Elements(idle) \cup {res[c]}
        BY <1>6, <2>1, <3>2, ParkPlaces DEF Release, Ownership
      <4> QED
        BY <1>6, <2>1, <3>2, <4>1 DEF Release, Live
    <3>3. CASE ~draining /\ waiters # <<>>
      BY <1>6, <2>1, <3>3 DEF Release, Live
    <3> QED
      BY <3>1, <3>2, <3>3
  <2>3. Lender!Return(c)
    BY <1>6, <2>2, GivenBack DEF Release
  <2> QED
    BY <2>3 DEF LeaseChange
<1>7. ASSUME NEW c \in Caller, Destroy(c) PROVE LeaseChange
  <2>1. res[c] \in active /\ res[c] \notin Elements(idle) \cup handoff
    BY <1>7 DEF Destroy, Ownership, Claimants
  <2>2. Live' = Live \ {res[c]}
    BY <1>7, <2>1 DEF Destroy, Live
  <2>3. Lender!Return(c)
    BY <1>7, <2>2, GivenBack DEF Destroy
  <2> QED
    BY <2>3 DEF LeaseChange
<1>8. ASSUME NEW r \in Resource, HandToWaiter(r) PROVE LeaseChange
  <2>1. CASE draining
    BY <1>8, <2>1 DEF HandToWaiter, LeaseChange, Lease
  <2>2. CASE ~draining
    <3>1. /\ ServeOrPark(r) /\ r \in handoff /\ handoff' = handoff \ {r}
          /\ r \notin active
      BY <1>8, <2>2 DEF HandToWaiter, Ownership
    <3>2. waiters # <<>> => Live' = Live \cup {r}
      BY <3>1 DEF ServeOrPark, Live
    <3> QED
      BY <3>1, <3>2, ServeOrParkLease
  <2> QED
    BY <2>1, <2>2
<1>9. ASSUME NEW r \in Resource, BackfillDone(r) PROVE LeaseChange
  <2>1. CASE draining
    BY <1>9, <2>1 DEF BackfillDone, LeaseChange, Lease
  <2>2. CASE ~draining
    <3>1. /\ ServeOrPark(r) /\ UNCHANGED handoff /\ r \notin active
      BY <1>9, <2>2, FreshFacts DEF BackfillDone
    <3>2. waiters # <<>> => Live' = Live \cup {r}
      BY <3>1 DEF ServeOrPark, Live
    <3> QED
      BY <3>1, <3>2, ServeOrParkLease
  <2> QED
    BY <2>1, <2>2
<1>10. ASSUME BackfillFailed PROVE LeaseChange
  <2>1. CASE waiters # <<>>
    <3>1. Head(waiters) \in Caller /\ pc[Head(waiters)] = "waiting"
      BY <2>1, TailFacts DEF Shape, FieldsTypeOK, QueueExact
    <3> QED
      BY <1>10, <2>1, <3>1, NoLease DEF BackfillFailed, PcStates, LeaseChange
  <2>2. CASE waiters = <<>>
    BY <1>10, <2>2 DEF BackfillFailed, LeaseChange, Lease
  <2> QED
    BY <2>1, <2>2
<1>11. ASSUME NEW h \in Host, Drain(h) PROVE LeaseChange
  <2>1. \A d \in Caller : pc'[d] = IF pc[d] = "waiting" THEN "out" ELSE pc[d]
    BY <1>11 DEF Drain, Shape, QueueExact
  <2> QED
    BY <1>11, <2>1 DEF Drain, LeaseChange, Lease
<1>12. ASSUME UNCHANGED <<pc, res>> PROVE LeaseChange
  BY <1>12 DEF LeaseChange, Lease
<1>13. ASSUME NEW r \in Resource, ConnectionStep(r)
       PROVE  HandToWaiter(r) \/ BackfillDone(r) \/ UNCHANGED <<pc, res>>
  BY <1>13 DEF ConnectionStep, HandToWaiterInvalid, DestroyDone, SafeDestroyed,
               OnIdleTimeout
<1>14. ASSUME \/ \E w \in Warmer : WarmStep(w)
              \/ \E h \in Host : DrainStep(h) \/ Reopen(h)
              \/ UNCHANGED poolVars
       PROVE  UNCHANGED <<pc, res>>
  BY <1>14 DEF WarmStep, WarmCreated, WarmDropped, WarmFailed, DrainStep, Reopen,
               poolVars, calls
<1> QED
  BY <1>1, <1>2, <1>3, <1>4, <1>5, <1>6, <1>7, <1>8, <1>9, <1>10, <1>11, <1>12,
     <1>13, <1>14 DEF PoolNext, CallerProgress, PoolStep, HostStep

\* The pool is a correct lender: under any client it lends at most Max
\* connections, each to one caller at a time, and closes none that is lent.
THEOREM LendingIsCorrect == PoolSpec => LendsCorrectly
<1>1. Init => Lender!Init
  <2> SUFFICES ASSUME Init PROVE Lender!Init
    OBVIOUS
  <2>1. Elements(idle) \cup active \cup handoff = {}
    BY DEF Init, Elements
  <2> QED
    BY <2>1 DEF Init, Lender!Init
<1>2. Sized /\ Ownership /\ Sized' /\ Ownership' /\ [PoolNext]_poolVars
         => [Lender!Next]_<<Elements(idle) \cup active \cup handoff,
                            [c \in Caller |-> IF pc[c] = "holding" THEN res[c]
                                                                  ELSE NoResource]>>
  <2> SUFFICES ASSUME Sized, Ownership, Sized', Ownership', [PoolNext]_poolVars
               PROVE  Lender!Next
    OBVIOUS
  <2>1. LeaseChange
    BY LeaseStep DEF Sized
  <2>2. (Cardinality(Live) <= Max)'
    BY LiveBound, PTL
  <2>3. UNCHANGED Lease => Lender!TurnOver
    BY TurnedOver DEF Sized
  <2>4. (Lender!Cardinality(Live) <= Max)'
    BY <2>2 DEF Cardinality, Lender!Cardinality, IsFiniteSet, Lender!IsFiniteSet
  <2> QED
    BY <2>1, <2>3, <2>4 DEF LeaseChange, Lender!Next, Live
<1> QED
  BY <1>1, <1>2, SizedInvariant, OwnershipHolds, PTL DEF PoolSpec, LendsCorrectly, Lender!Spec
============================================================================
