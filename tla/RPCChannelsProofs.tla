-------------------------- MODULE RPCChannelsProofs --------------------------
(* Proofs about the subscriptions of an rpc client: a subscription its user *)
(* holds stays in the client's map, the server's channel hooks pair up, and *)
(* what the client has in its map the server confirms, once it is quiet.    *)
EXTENDS RPCChannels, FiniteSetTheorems, SequenceTheorems, WellFoundedInduction, TLAPS

FrameSet == [id : Nat, type : {"sub", "unsub", "call"}, ch : Channel]
ReplySet == [id : Nat, type : {"subscribed", "unsubscribed", "result"},
             ok : BOOLEAN, ch : Channel]
PendingSet == [id : Nat, kind : {"sub", "resub", "unsub", "call"}, ch : Channel]

WireTypes ==
    /\ in \in [Conn -> Seq(FrameSet)] /\ out \in [Conn -> Seq(ReplySet)]

ClientTypes ==
    /\ conn \in Conn \cup {NoConn}
    /\ subs \subseteq Channel /\ IsFiniteSet(subs)
    /\ app \in [Channel -> {"none", "subscribing", "held", "leaving"}]
    /\ pending \subseteq PendingSet

ServerTypes ==
    /\ server \in [Conn -> SUBSET Channel]
    /\ authz \in [Conn -> SUBSET FrameSet]
    /\ revoking \in [Conn -> SUBSET FrameSet]
    /\ working \in [Conn -> SUBSET FrameSet]
    /\ presence \in [Conn -> [Channel -> Int]]

RPCTypes == WireTypes /\ ClientTypes /\ ServerTypes

-----------------------------------------------------------------------------
(* Frames and their ids.                                                   *)

LEMMA MinExists ==
    ASSUME NEW S \in SUBSET Nat, S # {}
    PROVE  Min(S) \in S
<1>1. PICK x \in S : \A y \in S : ~(<<y, x>> \in OpToRel(<, Nat))
  BY NatLessThanWellFounded, WFMin, Zenon
<1>2. \A y \in S : y < x => <<y, x>> \in OpToRel(<, Nat)
  <2> SUFFICES ASSUME NEW y \in S, y < x PROVE <<y, x>> \in {z \in Nat \X Nat : z[1] < z[2]}
    BY Zenon DEF OpToRel
  <2> QED
    OBVIOUS
<1>3. \A y \in S : ~(y < x)
  BY <1>1, <1>2, Zenon
<1>4. \A y \in S : x <= y
  BY <1>3
<1> QED
  BY <1>4, Zenon DEF Min

\* _nextFrameId returns an id that nothing on the connection carries.
LEMMA FreshId ==
    ASSUME CanSend
    PROVE  nextFrameId \in Nat /\ nextFrameId \notin UsedIds(conn)
<1>1. Ids \ UsedIds(conn) \in SUBSET Nat /\ Ids \ UsedIds(conn) # {}
  BY ChannelsAssumption DEF CanSend
<1> QED
  BY <1>1, MinExists, Zenon DEF nextFrameId

LEMMA FrameTypes ==
    ASSUME NEW id \in Nat, NEW c \in Channel
    PROVE  /\ \A t \in {"sub", "unsub", "call"} : Frame(id, t, c) \in FrameSet
           /\ \A t \in {"subscribed", "unsubscribed", "result"}, ok \in BOOLEAN :
                 Reply(id, t, ok, c) \in ReplySet
           /\ \A kind \in {"sub", "resub", "unsub", "call"} : Pending(id, kind, c) \in PendingSet
BY DEF Frame, Reply, Pending, FrameSet, ReplySet, PendingSet

\* What the client writes goes behind what is under way on its connection.
LEMMA SendStep ==
    ASSUME WireTypes, NEW f \in FrameSet, conn \in Conn, Sends(f)
    PROVE  /\ in' \in [Conn -> Seq(FrameSet)] /\ in'[conn] = Append(in[conn], f)
           /\ \A k \in Conn \ {conn} : in'[k] = in[k]
<1>1. Append(in[conn], f) \in Seq(FrameSet)
  BY AppendProperties DEF WireTypes
<1> QED
  BY <1>1 DEF WireTypes, Sends

LEMMA SendBackStep ==
    ASSUME WireTypes, NEW k \in Conn, NEW r \in ReplySet, SendsBack(k, r)
    PROVE  /\ out' \in [Conn -> Seq(ReplySet)]
           /\ out'[k] = out[k] \/ out'[k] = Append(out[k], r)
           /\ \A j \in Conn \ {k} : out'[j] = out[j]
<1>1. Append(out[k], r) \in Seq(ReplySet)
  BY AppendProperties DEF WireTypes
<1> QED
  BY <1>1 DEF WireTypes, SendsBack

LEMMA AcceptStep ==
    ASSUME WireTypes, NEW k \in Conn, Accepts(k)
    PROVE  /\ in' \in [Conn -> Seq(FrameSet)] /\ in[k] # <<>> /\ in'[k] = Tail(in[k])
           /\ \A j \in Conn \ {k} : in'[j] = in[j]
           /\ Arrived(k) \in FrameSet
<1>1. in[k] \in Seq(FrameSet) /\ in[k] # <<>>
  BY DEF WireTypes, Accepts
<1>2. Tail(in[k]) \in Seq(FrameSet) /\ Head(in[k]) \in FrameSet
  BY <1>1, HeadTailProperties
<1> QED
  BY <1>1, <1>2 DEF WireTypes, Accepts, Arrived

LEMMA TakeStep ==
    ASSUME WireTypes, ClientTypes, Takes
    PROVE  /\ conn \in Conn /\ out[conn] # <<>>
           /\ out' \in [Conn -> Seq(ReplySet)] /\ out'[conn] = Tail(out[conn])
           /\ \A j \in Conn \ {conn} : out'[j] = out[j]
           /\ Received \in ReplySet
<1>1. conn \in Conn /\ out[conn] \in Seq(ReplySet) /\ out[conn] # <<>>
  BY DEF WireTypes, ClientTypes, Takes
<1>2. Tail(out[conn]) \in Seq(ReplySet) /\ Head(out[conn]) \in ReplySet
  BY <1>1, HeadTailProperties
<1> QED
  BY <1>1, <1>2 DEF WireTypes, Takes, Received

\* _resubscribeAll: a sub frame for every channel of the map
LEMMA ResubscribeStep ==
    ASSUME ClientTypes, NEW n, n = Cardinality(subs), NEW order \in [1..n -> subs]
    PROVE  /\ [i \in 1..n |-> Frame(i, "sub", order[i])] \in Seq(FrameSet)
           /\ {Pending(i, "resub", order[i]) : i \in 1..n} \subseteq PendingSet
<1>1. n \in Nat
  BY FS_CardinalityType DEF ClientTypes
<1>2. \A i \in 1..n : i \in Nat /\ order[i] \in Channel
  BY <1>1 DEF ClientTypes
<1>3. \A i \in 1..n : Frame(i, "sub", order[i]) \in FrameSet /\ Pending(i, "resub", order[i]) \in PendingSet
  BY <1>2, FrameTypes
<1>4. [i \in 1..n |-> Frame(i, "sub", order[i])] \in [1..n -> FrameSet]
  BY <1>3
<1>5. [i \in 1..n |-> Frame(i, "sub", order[i])] \in Seq(FrameSet)
  BY <1>1, <1>4, SeqDef
<1> QED
  BY <1>3, <1>5

-----------------------------------------------------------------------------
(* Types.                                                                  *)

LEMMA FewerSubs ==
    ASSUME ClientTypes, NEW S, S \subseteq subs
    PROVE  S \subseteq Channel /\ IsFiniteSet(S)
BY FS_Subset DEF ClientTypes

LEMMA SettledType ==
    ASSUME ClientTypes, NEW ps
    PROVE  Settled(ps) \in [Channel -> {"none", "subscribing", "held", "leaving"}]
BY DEF ClientTypes, Settled

LEMMA ConnectionTypes ==
    ASSUME RPCTypes, NEW k \in Conn, Open(k) \/ Break(k) \/ ServerClose(k) \/ ClientClose
    PROVE  RPCTypes'
<1>1. CASE Open(k)
  <2> DEFINE n == Cardinality(subs)
  <2>1. PICK order \in [1..n -> subs] :
            /\ in' = [in EXCEPT ![k] = [i \in 1..n |-> Frame(i, "sub", order[i])]]
            /\ pending' = {Pending(i, "resub", order[i]) : i \in 1..n}
    BY <1>1 DEF Open
  <2>2. /\ [i \in 1..n |-> Frame(i, "sub", order[i])] \in Seq(FrameSet)
        /\ {Pending(i, "resub", order[i]) : i \in 1..n} \subseteq PendingSet
    BY ResubscribeStep DEF RPCTypes
  <2> HIDE DEF n
  <2>3. in' \in [Conn -> Seq(FrameSet)] /\ pending' \subseteq PendingSet
    BY <2>1, <2>2 DEF RPCTypes, WireTypes
  <2>4. conn' = k /\ UNCHANGED <<out, subs, app, server, authz, revoking, working, presence>>
    BY <1>1 DEF Open
  <2> QED
    BY <2>3, <2>4 DEF RPCTypes, WireTypes, ClientTypes, ServerTypes
<1>2. CASE Break(k)
  BY <1>2 DEF Break, RPCTypes, WireTypes, ClientTypes, ServerTypes, clientVars, serverVars
<1>3. CASE ServerClose(k)
  <2>1. in' \in [Conn -> Seq(FrameSet)] /\ server' \in [Conn -> SUBSET Channel]
    BY <1>3 DEF ServerClose, RPCTypes, WireTypes, ServerTypes
  <2>2. presence' \in [Conn -> [Channel -> Int]]
    <3> DEFINE f == [c \in Channel |-> IF c \in server[k] THEN presence[k][c] - 1
                                                        ELSE presence[k][c]]
    <3>1. presence \in [Conn -> [Channel -> Int]]
      BY DEF RPCTypes, ServerTypes
    <3>2. f \in [Channel -> Int]
      BY <3>1
    <3>3. presence' = [presence EXCEPT ![k] = f]
      BY <1>3, <3>1 DEF ServerClose
    <3> HIDE DEF f
    <3> QED
      BY <3>1, <3>2, <3>3
  <2>3. UNCHANGED <<out, conn, subs, app, pending, authz, revoking, working>>
    BY <1>3 DEF ServerClose, clientVars
  <2> QED
    BY <2>1, <2>2, <2>3 DEF RPCTypes, WireTypes, ClientTypes, ServerTypes
<1>4. CASE ClientClose
  <2>1. /\ out' \in [Conn -> Seq(ReplySet)] /\ conn' = NoConn /\ pending' = {}
        /\ subs' \subseteq subs /\ app' = Settled(pending)
        /\ UNCHANGED <<in, server, authz, revoking, working, presence>>
    <3>1. out' \in [Conn -> Seq(ReplySet)]
      <4>1. out' = [out EXCEPT ![conn] = <<>>] /\ <<>> \in Seq(ReplySet)
        BY <1>4, EmptySeq DEF ClientClose
      <4> QED
        BY <4>1 DEF RPCTypes, WireTypes
    <3> QED
      BY <1>4, <3>1 DEF ClientClose, serverVars
  <2>2. /\ subs' \subseteq Channel /\ IsFiniteSet(subs')
        /\ app' \in [Channel -> {"none", "subscribing", "held", "leaving"}]
    BY <2>1, FewerSubs, SettledType DEF RPCTypes
  <2> QED
    BY <2>1, <2>2 DEF RPCTypes, WireTypes, ClientTypes, ServerTypes
<1> QED
  BY <1>1, <1>2, <1>3, <1>4

LEMMA ApplicationTypes ==
    ASSUME RPCTypes, NEW c \in Channel, Subscribe(c) \/ Unsubscribe(c) \/ Call(c)
    PROVE  RPCTypes'
<1>0. UNCHANGED <<conn, out, server, authz, revoking, working, presence>>
  BY DEF Subscribe, Unsubscribe, Call, serverVars
<1>1. ASSUME CanSend, NEW t \in {"sub", "unsub", "call"}, Sends(Frame(nextFrameId, t, c)),
             NEW kind \in {"sub", "unsub", "call"},
             pending' = pending \cup {Pending(nextFrameId, kind, c)}
      PROVE  in' \in [Conn -> Seq(FrameSet)] /\ pending' \subseteq PendingSet
  <2>1. /\ nextFrameId \in Nat /\ conn \in Conn
    BY <1>1, FreshId DEF CanSend, RPCTypes, ClientTypes
  <2>2. Frame(nextFrameId, t, c) \in FrameSet /\ Pending(nextFrameId, kind, c) \in PendingSet
    BY <2>1, FrameTypes
  <2> QED
    BY <1>1, <2>1, <2>2, SendStep DEF RPCTypes, ClientTypes
<1>2. app' \in [Channel -> {"none", "subscribing", "held", "leaving"}]
  BY DEF Subscribe, Unsubscribe, Call, RPCTypes, ClientTypes
<1>3. subs' \subseteq Channel /\ IsFiniteSet(subs')
  <2>1. CASE Subscribe(c)
    BY <2>1, FS_AddElement DEF Subscribe, RPCTypes, ClientTypes
  <2>2. CASE Unsubscribe(c)
    BY <2>2, FewerSubs DEF Unsubscribe, RPCTypes
  <2>3. CASE Call(c)
    BY <2>3 DEF Call, RPCTypes, ClientTypes
  <2> QED
    BY <2>1, <2>2, <2>3
<1>4. in' \in [Conn -> Seq(FrameSet)] /\ pending' \subseteq PendingSet
  <2>1. CASE Subscribe(c)
    BY <1>1, <2>1 DEF Subscribe
  <2>2. CASE Unsubscribe(c)
    BY <1>1, <2>2 DEF Unsubscribe, RPCTypes, WireTypes, ClientTypes
  <2>3. CASE Call(c)
    BY <1>1, <2>3 DEF Call
  <2> QED
    BY <2>1, <2>2, <2>3
<1> QED
  BY <1>0, <1>2, <1>3, <1>4 DEF RPCTypes, WireTypes, ClientTypes, ServerTypes

LEMMA ClientStepTypes ==
    ASSUME RPCTypes, (\E p \in pending : Timeout(p)) \/ Dispatch
    PROVE  RPCTypes'
<1>0. UNCHANGED <<in, conn, server, authz, revoking, working, presence>>
  BY DEF Timeout, Dispatch, DispatchResult, DispatchSubscribed, DispatchUnsubscribed, serverVars
<1>1. out' \in [Conn -> Seq(ReplySet)]
  BY TakeStep DEF Timeout, Dispatch, DispatchResult, DispatchSubscribed,
                  DispatchUnsubscribed, RPCTypes, WireTypes
<1>2. pending' \subseteq pending /\ subs' \subseteq subs
  BY DEF Timeout, Dispatch, DispatchResult, DispatchSubscribed, DispatchUnsubscribed
<1>3. app' \in [Channel -> {"none", "subscribing", "held", "leaving"}]
  <2>1. CASE \E ps : app' = Settled(ps)
    BY <2>1, SettledType DEF RPCTypes
  <2>2. CASE UNCHANGED app
    BY <2>2 DEF RPCTypes, ClientTypes
  <2>3. CASE app' = [app EXCEPT ![Received.ch] = IF @ = "subscribing" THEN "held" ELSE @]
    BY <2>3 DEF RPCTypes, ClientTypes
  <2> QED
    BY <2>1, <2>2, <2>3 DEF Timeout, Dispatch, DispatchResult, DispatchSubscribed,
                            DispatchUnsubscribed
<1>4. subs' \subseteq Channel /\ IsFiniteSet(subs')
  BY <1>2, FewerSubs DEF RPCTypes
<1> QED
  BY <1>0, <1>1, <1>2, <1>3, <1>4 DEF RPCTypes, WireTypes, ClientTypes, ServerTypes

LEMMA AcceptTypes == ASSUME RPCTypes, Accept PROVE RPCTypes'
<1>0. UNCHANGED <<conn, subs, app, pending, revoking>>
  BY DEF Accept, HandleSubscribe, HandleUnsubscribe, HandleCall, RefusePublish,
         clientVars, serverVars
<1> SUFFICES ASSUME NEW k \in Conn,
                    \/ HandleSubscribe(k) \/ HandleUnsubscribe(k)
                    \/ HandleCall(k) \/ RefusePublish(k)
             PROVE  RPCTypes'
  BY DEF Accept
<1>1. Accepts(k) /\ RPCTypes /\ WireTypes /\ ClientTypes /\ ServerTypes
  BY DEF HandleSubscribe, HandleUnsubscribe, HandleCall, RefusePublish, RPCTypes
<1>2. in' \in [Conn -> Seq(FrameSet)] /\ Arrived(k) \in FrameSet
  BY <1>1, AcceptStep
<1>3. Arrived(k).id \in Nat /\ Arrived(k).ch \in Channel
  BY <1>2 DEF FrameSet
<1>4. out' \in [Conn -> Seq(ReplySet)]
  <2>1. CASE UNCHANGED out
    BY <1>1, <2>1 DEF WireTypes
  <2>2. ASSUME NEW t \in {"unsubscribed", "result"}, NEW ok \in BOOLEAN,
               SendsBack(k, Reply(Arrived(k).id, t, ok, Arrived(k).ch))
        PROVE  out' \in [Conn -> Seq(ReplySet)]
    BY <1>1, <1>3, <2>2, FrameTypes, SendBackStep
  <2> QED
    BY <2>1, <2>2 DEF HandleSubscribe, HandleUnsubscribe, HandleCall, RefusePublish
<1>5. ServerTypes'
  <2> USE <1>1, <1>2, <1>3 DEF ServerTypes
  <2>1. CASE HandleSubscribe(k)
    BY <2>1 DEF HandleSubscribe
  <2>2. CASE HandleUnsubscribe(k)
    <3>1. presence' \in [Conn -> [Channel -> Int]]
      BY <2>2 DEF HandleUnsubscribe
    <3> QED
      BY <2>2, <3>1 DEF HandleUnsubscribe
  <2>3. CASE HandleCall(k)
    BY <2>3 DEF HandleCall
  <2>4. CASE RefusePublish(k)
    BY <2>4 DEF RefusePublish, serverVars
  <2> QED
    BY <2>1, <2>2, <2>3, <2>4
<1> QED
  BY <1>0, <1>1, <1>2, <1>4, <1>5 DEF RPCTypes, WireTypes, ClientTypes

LEMMA CountType ==
    ASSUME presence \in [Conn -> [Channel -> Int]], NEW k \in Conn, NEW c \in Channel, NEW n \in Int,
           presence' = [presence EXCEPT ![k][c] = n]
    PROVE  presence' \in [Conn -> [Channel -> Int]]
OBVIOUS

LEMMA HookTypes ==
    ASSUME RPCTypes, NEW id \in Ids, HookReturns(id)
    PROVE  RPCTypes'
<1>a. PICK k \in Conn : \E f \in authz[k] \cup revoking[k] \cup working[k] :
          \/ Authorized(k, f) \/ Refused(k, f) \/ AuthorizeThrew(k, f)
          \/ AuthorizedTooLate(k, f) \/ Revoked(k, f) \/ HandlerDone(k, f)
  BY Zenon DEF HookReturns
<1>1. PICK f \in authz[k] \cup revoking[k] \cup working[k] :
          \/ Authorized(k, f) \/ Refused(k, f) \/ AuthorizeThrew(k, f)
          \/ AuthorizedTooLate(k, f) \/ Revoked(k, f) \/ HandlerDone(k, f)
  BY <1>a
<1>0. UNCHANGED <<in, conn, subs, app, pending>>
  BY <1>1 DEF Authorized, Refused, AuthorizeThrew, AuthorizedTooLate, Revoked, HandlerDone,
              clientVars
<1>2. /\ f \in FrameSet /\ f.id \in Nat /\ f.ch \in Channel
      /\ WireTypes /\ ClientTypes /\ ServerTypes
  BY <1>1 DEF FrameSet, RPCTypes, ServerTypes
<1>3. out' \in [Conn -> Seq(ReplySet)]
  <2>1. CASE UNCHANGED out
    BY <1>2, <2>1 DEF WireTypes
  <2>2. ASSUME NEW t \in {"subscribed", "result"}, NEW ok \in BOOLEAN,
               SendsBack(k, Reply(f.id, t, ok, f.ch))
        PROVE  out' \in [Conn -> Seq(ReplySet)]
    BY <1>2, <2>2, FrameTypes, SendBackStep
  <2> QED
    BY <1>1, <2>1, <2>2 DEF Authorized, Refused, AuthorizeThrew, AuthorizedTooLate, Revoked, HandlerDone
<1>4. ServerTypes'
  <2> USE <1>2 DEF ServerTypes
  <2>1. CASE Authorized(k, f)
    <3>1. /\ authz' = [authz EXCEPT ![k] = @ \ {f}] /\ server' = [server EXCEPT ![k] = @ \cup {f.ch}]
          /\ presence' = [presence EXCEPT ![k][f.ch] = IF f.ch \in server[k] THEN @ ELSE @ + 1]
          /\ UNCHANGED <<revoking, working>>
      BY <2>1 DEF Authorized
    <3>2. presence' \in [Conn -> [Channel -> Int]]
      <4> DEFINE n == IF f.ch \in server[k] THEN presence[k][f.ch] ELSE presence[k][f.ch] + 1
      <4>1. n \in Int
        OBVIOUS
      <4>2. presence' = [presence EXCEPT ![k][f.ch] = n]
        BY <3>1
      <4> HIDE DEF n
      <4> QED
        BY <4>1, <4>2, CountType
    <3>3. authz' \in [Conn -> SUBSET FrameSet]
      BY <3>1
    <3>4. server' \in [Conn -> SUBSET Channel]
      BY <3>1
    <3> QED
      BY <3>1, <3>2, <3>3, <3>4
  <2>2. CASE Refused(k, f)
    <3>1. /\ authz' = [authz EXCEPT ![k] = @ \ {f}] /\ server' = [server EXCEPT ![k] = @ \ {f.ch}]
          /\ UNCHANGED working
          /\ UNCHANGED revoking \/ revoking' = [revoking EXCEPT ![k] = @ \cup {f}]
          /\ UNCHANGED presence \/ presence' = [presence EXCEPT ![k][f.ch] = @ - 1]
      BY <2>2 DEF Refused
    <3>2. presence' \in [Conn -> [Channel -> Int]]
      <4>1. presence[k][f.ch] - 1 \in Int
        OBVIOUS
      <4>2. UNCHANGED presence \/ presence' = [presence EXCEPT ![k][f.ch] = presence[k][f.ch] - 1]
        BY <3>1
      <4> QED
        BY <4>1, <4>2, CountType
    <3>3. authz' \in [Conn -> SUBSET FrameSet] /\ revoking' \in [Conn -> SUBSET FrameSet]
      BY <3>1
    <3>4. server' \in [Conn -> SUBSET Channel]
      BY <3>1
    <3> QED
      BY <3>1, <3>2, <3>3, <3>4
  <2>3. CASE AuthorizeThrew(k, f) \/ AuthorizedTooLate(k, f)
    BY ZenonT(40), <2>3 DEF AuthorizeThrew, AuthorizedTooLate
  <2>4. CASE Revoked(k, f) \/ HandlerDone(k, f)
    BY <2>4 DEF Revoked, HandlerDone
  <2> QED
    BY <1>1, <2>1, <2>2, <2>3, <2>4
<1> QED
  BY <1>0, <1>2, <1>3, <1>4 DEF RPCTypes, WireTypes, ClientTypes

LEMMA TypesStep == ASSUME RPCTypes, [RPCNext]_rpcVars PROVE RPCTypes'
<1>1. ASSUME UNCHANGED <<in, out, clientVars, serverVars>> PROVE RPCTypes'
  BY <1>1 DEF RPCTypes, WireTypes, ClientTypes, ServerTypes, clientVars, serverVars
<1>2. ASSUME ClientClose PROVE RPCTypes'
  <2>1. conn \in Conn
    BY <1>2 DEF ClientClose, RPCTypes, ClientTypes
  <2> QED
    BY <1>2, <2>1, ConnectionTypes
<1>3. CASE UNCHANGED rpcVars
  BY <1>1, <1>3 DEF rpcVars
<1>4. ASSUME NEW c \in Channel, Regrant(c) PROVE RPCTypes'
  BY <1>1, <1>4 DEF Regrant
<1> QED
  BY <1>2, <1>3, <1>4, ConnectionTypes, ApplicationTypes, ClientStepTypes, AcceptTypes, HookTypes
     DEF RPCNext

LEMMA TypesInit == RPCInit => RPCTypes
BY FS_EmptySet DEF RPCInit, RPCTypes, WireTypes, ClientTypes, ServerTypes

-----------------------------------------------------------------------------
(* The channel hooks.                                                      *)

\* Only the handlers of the server touch what PresenceBalanced speaks of.
LEMMA PresenceStep ==
    ASSUME RPCTypes, PresenceBalanced, [RPCNext]_rpcVars
    PROVE  PresenceBalanced'
<1>0. /\ server \in [Conn -> SUBSET Channel] /\ presence \in [Conn -> [Channel -> Int]]
      /\ \A j \in Conn : in[j] \in Seq(FrameSet) /\ authz[j] \subseteq FrameSet
  BY DEF RPCTypes, WireTypes, ServerTypes
<1>1. ASSUME UNCHANGED <<server, presence>>, live \subseteq live' PROVE PresenceBalanced'
  BY <1>1 DEF PresenceBalanced
<1>2. ASSUME NEW k \in Conn, ServerClose(k) PROVE PresenceBalanced'
  <2> DEFINE f == [c \in Channel |-> IF c \in server[k] THEN presence[k][c] - 1 ELSE presence[k][c]]
  <2>1. /\ server' = [server EXCEPT ![k] = {}] /\ presence' = [presence EXCEPT ![k] = f]
        /\ live' = live \ {k}
    BY <1>0, <1>2 DEF ServerClose
  <2>2. \A c \in Channel : f[c] = 0
    BY <1>0 DEF PresenceBalanced
  <2> HIDE DEF f
  <2> QED
    BY <1>0, <2>1, <2>2 DEF PresenceBalanced
\* one channel of one connection changes, with its count
<1>3. ASSUME NEW k \in Conn, NEW c \in Channel, UNCHANGED live,
             \/ /\ server' = [server EXCEPT ![k] = @ \cup {c}] /\ k \in live
                /\ presence' = [presence EXCEPT ![k][c] = IF c \in server[k] THEN @ ELSE @ + 1]
             \/ /\ server' = [server EXCEPT ![k] = @ \ {c}]
                /\ presence' = [presence EXCEPT ![k][c] = IF c \in server[k] THEN @ - 1 ELSE @]
      PROVE  PresenceBalanced'
  <2>1. \A j \in Conn \ {k} : server'[j] = server[j] /\ presence'[j] = presence[j]
    BY <1>0, <1>3
  <2>2. \A d \in Channel \ {c} : /\ d \in server'[k] <=> d \in server[k]
                                 /\ presence'[k][d] = presence[k][d]
    BY <1>0, <1>3
  <2>3. presence'[k][c] = IF c \in server'[k] THEN 1 ELSE 0
    <3>1. presence[k][c] = IF c \in server[k] THEN 1 ELSE 0
      BY DEF PresenceBalanced
    <3>2. CASE server' = [server EXCEPT ![k] = @ \cup {c}]
      <4>1. c \in server'[k]
        BY <1>0, <3>2
      <4>2. CASE presence' = [presence EXCEPT ![k][c] = IF c \in server[k] THEN @ ELSE @ + 1]
        BY <1>0, <3>1, <4>1, <4>2
      <4>3. CASE server' = [server EXCEPT ![k] = @ \ {c}]
        BY <1>0, <4>1, <4>3
      <4> QED
        BY <1>3, <4>2, <4>3
    <3>3. CASE /\ server' = [server EXCEPT ![k] = @ \ {c}]
               /\ presence' = [presence EXCEPT ![k][c] = IF c \in server[k] THEN @ - 1 ELSE @]
      <4>1. c \notin server'[k]
        BY <1>0, <3>3
      <4> QED
        BY <1>0, <3>1, <3>3, <4>1
    <3> QED
      BY <1>3, <3>2, <3>3
  <2>4. k \notin live' => server'[k] = {}
    <3>1. k \notin live => server[k] = {}
      BY DEF PresenceBalanced
    <3> QED
      BY <1>0, <1>3, <3>1
  <2> QED
    BY <1>3, <2>1, <2>2, <2>3, <2>4 DEF PresenceBalanced
<1>4. ASSUME NEW k \in Conn, HandleUnsubscribe(k) PROVE PresenceBalanced'
  <2>1. Arrived(k).ch \in Channel
    BY <1>4, AcceptStep DEF HandleUnsubscribe, RPCTypes, FrameSet
  <2> QED
    BY <1>3, <1>4, <2>1 DEF HandleUnsubscribe
<1>5. ASSUME NEW k \in Conn, NEW f \in authz[k], Authorized(k, f) \/ Refused(k, f)
      PROVE  PresenceBalanced'
  <2>1. f.ch \in Channel /\ UNCHANGED live
    BY <1>0, <1>5 DEF FrameSet, Authorized, Refused
  <2>2. CASE Authorized(k, f)
    BY <1>3, <2>1, <2>2 DEF Authorized
  <2>3. CASE Refused(k, f)
    <3>1. server' = [server EXCEPT ![k] = @ \ {f.ch}]
      BY <2>3 DEF Refused
    <3>2. presence' = [presence EXCEPT ![k][f.ch] = IF f.ch \in server[k] THEN @ - 1 ELSE @]
      BY <1>0, <2>1, <2>3 DEF Refused
    <3> QED
      BY <1>3, <2>1, <3>1, <3>2
  <2> QED
    BY <1>5, <2>2, <2>3
<1>6. ASSUME NEW k \in Conn, Open(k) \/ Break(k) PROVE PresenceBalanced'
  BY <1>1, <1>6 DEF Open, Break, serverVars
<1>7. ASSUME Accept PROVE PresenceBalanced'
  BY <1>1, <1>4, <1>7 DEF Accept, HandleSubscribe, HandleCall, RefusePublish, serverVars
<1>8. ASSUME NEW id \in Ids, HookReturns(id) PROVE PresenceBalanced'
  BY <1>1, <1>5, <1>8 DEF HookReturns, AuthorizeThrew, AuthorizedTooLate, Revoked, HandlerDone
<1>9. ASSUME UNCHANGED serverVars PROVE PresenceBalanced'
  BY <1>1, <1>9 DEF serverVars
<1>10. ASSUME NEW c \in Channel, Subscribe(c) \/ Unsubscribe(c) \/ Call(c) \/ Regrant(c)
       PROVE  PresenceBalanced'
  BY <1>9, <1>10 DEF Subscribe, Unsubscribe, Call, Regrant
<1>11. ASSUME ClientClose \/ Dispatch \/ \E p \in pending : Timeout(p)
       PROVE  PresenceBalanced'
  BY <1>9, <1>11 DEF ClientClose, Timeout, Dispatch, DispatchResult, DispatchSubscribed,
                     DispatchUnsubscribed
<1>12. CASE UNCHANGED rpcVars
  BY <1>9, <1>12 DEF rpcVars
<1> QED
  BY <1>2, <1>6, <1>7, <1>8, <1>10, <1>11, <1>12 DEF RPCNext

\* onSubscribe and onUnsubscribe pair up on every connection (Server's
\* _handleSubscribe, _handleUnsubscribe and _handleClose), whatever authorize
\* answers and however many frames wait for it.
THEOREM PresenceBalancedHolds == RPCSpec => []PresenceBalanced
<1>1. RPCInit => PresenceBalanced
  BY DEF RPCInit, PresenceBalanced
<1>2. RPCTypes /\ PresenceBalanced /\ [RPCNext]_rpcVars => (RPCTypes /\ PresenceBalanced)'
  BY TypesStep, PresenceStep
<1> QED
  BY <1>1, <1>2, TypesInit, PTL DEF RPCSpec

-----------------------------------------------------------------------------
(* The client's map.                                                       *)

\* each id once among the frames of a type
Once(s, t) ==
    \A i, j \in 1..Len(s) :
        s[i].type = t /\ s[j].type = t /\ s[i].id = s[j].id => i = j

\* With frames i on their way to the server and o on their way back: every
\* unsub and every answer to one carries an id of u, each its own.
Acked(i, o, u) ==
    /\ \A f \in FramesIn(i) : f.type = "unsub" => f.id \in u
    /\ \A g \in FramesIn(o) : g.type = "unsubscribed" => g.id \in u
    /\ Once(i, "unsub") /\ Once(o, "unsubscribed")
    /\ \A f \in FramesIn(i), g \in FramesIn(o) :
           f.type = "unsub" /\ g.type = "unsubscribed" => f.id # g.id

\* The client recognises each answer to an unsub of this connection by its
\* id in _pendingUnsubs, however long ago the request timed out.
UnsubInv == conn # NoConn => Acked(in[conn], out[conn], pendingUnsubs)

LEMMA TailFrames ==
    ASSUME NEW S, NEW s \in Seq(S), s # <<>>, NEW t
    PROVE  /\ FramesIn(Tail(s)) \subseteq FramesIn(s) /\ Head(s) \in FramesIn(s)
           /\ Once(s, t) => /\ Once(Tail(s), t)
                            /\ Head(s).type = t =>
                                  \A f \in FramesIn(Tail(s)) : f.type = t => f.id # Head(s).id
<1> DEFINE r == Tail(s)
<1>1. /\ Len(s) \in Nat \ {0} /\ Head(s) = s[1] /\ Len(r) = Len(s) - 1
      /\ \A i \in 1..Len(r) : r[i] = s[i + 1]
  BY HeadTailProperties, EmptySeq
<1> HIDE DEF r
<1>2. \A i \in 1..Len(r) : i + 1 \in 1..Len(s) /\ i + 1 # 1 /\ r[i] = s[i + 1]
  BY <1>1
<1>3. FramesIn(r) \subseteq FramesIn(s) /\ Head(s) \in FramesIn(s)
  BY <1>1, <1>2 DEF FramesIn
<1>4. ASSUME Once(s, t), NEW i \in 1..Len(r), NEW j \in 1..Len(r),
             r[i].type = t, r[j].type = t, r[i].id = r[j].id
      PROVE  i = j
  <2>1. i + 1 = j + 1
    BY <1>2, <1>4, Zenon DEF Once
  <2> QED
    BY <1>1, <2>1
<1>5. ASSUME Once(s, t), Head(s).type = t, NEW f \in FramesIn(r), f.type = t
      PROVE  f.id # Head(s).id
  <2>1. PICK i \in 1..Len(r) : f = r[i]
    BY <1>5 DEF FramesIn
  <2>2. 1 \in 1..Len(s)
    BY <1>1
  <2> QED
    BY <1>1, <1>2, <1>5, <2>1, <2>2, Zenon DEF Once
<1>6. Once(s, t) => Once(r, t)
  BY <1>4, Zenon DEF Once
<1> QED
  BY <1>3, <1>5, <1>6 DEF r

LEMMA AppendFrames ==
    ASSUME NEW S, NEW s \in Seq(S), NEW e \in S, NEW t
    PROVE  /\ FramesIn(Append(s, e)) = FramesIn(s) \cup {e}
           /\ /\ Once(s, t)
              /\ e.type = t => \A f \in FramesIn(s) : f.type = t => f.id # e.id
              => Once(Append(s, e), t)
<1> DEFINE r == Append(s, e)
<1>1. /\ Len(s) \in Nat /\ Len(r) = Len(s) + 1 /\ r[Len(s) + 1] = e
      /\ \A i \in 1..Len(s) : r[i] = s[i]
  BY AppendProperties, LenProperties
<1> HIDE DEF r
<1>2. /\ \A i \in 1..Len(r) : i \in 1..Len(s) \/ i = Len(s) + 1
      /\ \A i \in 1..Len(s) : i \in 1..Len(r) /\ Len(s) + 1 \in 1..Len(r)
      /\ Len(s) + 1 \in 1..Len(r)
  BY <1>1
<1>3. FramesIn(r) = FramesIn(s) \cup {e}
  BY <1>1, <1>2 DEF FramesIn
<1>4. ASSUME Once(s, t), e.type = t => \A f \in FramesIn(s) : f.type = t => f.id # e.id,
             NEW i \in 1..Len(r), NEW j \in 1..Len(r),
             r[i].type = t, r[j].type = t, r[i].id = r[j].id
      PROVE  i = j
  <2>1. \A k \in 1..Len(s) : s[k] \in FramesIn(s)
    BY DEF FramesIn
  <2>2. CASE i \in 1..Len(s) /\ j \in 1..Len(s)
    BY <1>1, <1>4, <2>2, Zenon DEF Once
  <2>3. CASE i \in 1..Len(s) /\ j = Len(s) + 1
    BY <1>1, <1>4, <2>1, <2>3
  <2>4. CASE i = Len(s) + 1 /\ j \in 1..Len(s)
    BY <1>1, <1>4, <2>1, <2>4
  <2> QED
    BY <1>2, <2>2, <2>3, <2>4
<1>5. /\ Once(s, t)
      /\ e.type = t => \A f \in FramesIn(s) : f.type = t => f.id # e.id
      => Once(r, t)
  BY <1>4, Zenon DEF Once
<1> QED
  BY <1>3, <1>5 DEF r

\* What the client writes: an unsub gets a new id.
LEMMA AckedSend ==
    ASSUME NEW i \in Seq(FrameSet), NEW o \in Seq(ReplySet), NEW u, Acked(i, o, u),
           NEW f \in FrameSet,
           f.type = "unsub" => f.id \notin IdsOf(FramesIn(i) \cup FramesIn(o))
    PROVE  Acked(Append(i, f), o, IF f.type = "unsub" THEN u \cup {f.id} ELSE u)
<1>1. f.type = "unsub" => \A g \in FramesIn(i) \cup FramesIn(o) : g.id # f.id
  BY DEF IdsOf
<1>2. FramesIn(Append(i, f)) = FramesIn(i) \cup {f} /\ Once(Append(i, f), "unsub")
  BY <1>1, AppendFrames DEF Acked
<1> QED
  BY <1>1, <1>2 DEF Acked

\* What the server answers other than to an unsub.
LEMMA AckedReply ==
    ASSUME NEW i, NEW o \in Seq(ReplySet), NEW u, Acked(i, o, u),
           NEW r \in ReplySet, r.type # "unsubscribed"
    PROVE  Acked(i, Append(o, r), u)
<1>1. FramesIn(Append(o, r)) = FramesIn(o) \cup {r} /\ Once(Append(o, r), "unsubscribed")
  BY AppendFrames DEF Acked
<1> QED
  BY <1>1 DEF Acked

\* The server takes a frame, and answers an unsub with its id.
LEMMA AckedAccept ==
    ASSUME NEW i \in Seq(FrameSet), NEW o \in Seq(ReplySet), NEW u, Acked(i, o, u), i # <<>>
    PROVE  /\ Acked(Tail(i), o, u)
           /\ \A r \in ReplySet : Head(i).type = "unsub" /\ r.id = Head(i).id =>
                 Acked(Tail(i), Append(o, r), u)
<1>1. /\ FramesIn(Tail(i)) \subseteq FramesIn(i) /\ Head(i) \in FramesIn(i)
      /\ Once(Tail(i), "unsub")
      /\ Head(i).type = "unsub" =>
            \A f \in FramesIn(Tail(i)) : f.type = "unsub" => f.id # Head(i).id
  BY TailFrames DEF Acked
<1>2. Acked(Tail(i), o, u)
  BY <1>1 DEF Acked
<1>3. ASSUME NEW r \in ReplySet, Head(i).type = "unsub", r.id = Head(i).id
      PROVE  Acked(Tail(i), Append(o, r), u)
  <2>1. r.id \in u /\ \A g \in FramesIn(o) : g.type = "unsubscribed" => g.id # r.id
    BY <1>1, <1>3 DEF Acked
  <2>2. FramesIn(Append(o, r)) = FramesIn(o) \cup {r} /\ Once(Append(o, r), "unsubscribed")
    BY <2>1, AppendFrames DEF Acked
  <2> QED
    BY <1>1, <1>2, <1>3, <2>1, <2>2 DEF Acked
<1> QED
  BY <1>2, <1>3

\* The client takes an answer, and an answer to an unsub takes its id.
LEMMA AckedTake ==
    ASSUME NEW i, NEW o \in Seq(ReplySet), NEW u, Acked(i, o, u), o # <<>>
    PROVE  /\ Acked(i, Tail(o), u)
           /\ Head(o).type = "unsubscribed" =>
                 Head(o).id \in u /\ Acked(i, Tail(o), u \ {Head(o).id})
<1>1. /\ FramesIn(Tail(o)) \subseteq FramesIn(o) /\ Head(o) \in FramesIn(o)
      /\ Once(Tail(o), "unsubscribed")
      /\ Head(o).type = "unsubscribed" =>
            \A g \in FramesIn(Tail(o)) : g.type = "unsubscribed" => g.id # Head(o).id
  BY TailFrames DEF Acked
<1>2. Acked(i, Tail(o), u)
  BY <1>1 DEF Acked
<1>3. ASSUME Head(o).type = "unsubscribed"
      PROVE  Head(o).id \in u /\ Acked(i, Tail(o), u \ {Head(o).id})
  BY <1>1, <1>2, <1>3 DEF Acked
<1> QED
  BY <1>2, <1>3

\* The server's steps reach the client through its messages only.
LEMMA ServerLeavesClient ==
    ASSUME Accept \/ \E id \in Ids : HookReturns(id)
    PROVE  UNCHANGED clientVars
<1>1. ASSUME NEW k \in Conn,
             \/ HandleSubscribe(k) \/ HandleUnsubscribe(k) \/ HandleCall(k) \/ RefusePublish(k)
      PROVE  UNCHANGED clientVars
  BY <1>1, Zenon DEF HandleSubscribe, HandleUnsubscribe, HandleCall, RefusePublish
<1>2. ASSUME NEW k, NEW f,
             \/ Authorized(k, f) \/ Refused(k, f) \/ AuthorizeThrew(k, f)
             \/ AuthorizedTooLate(k, f) \/ Revoked(k, f) \/ HandlerDone(k, f)
      PROVE  UNCHANGED clientVars
  BY <1>2, Zenon DEF Authorized, Refused, AuthorizeThrew, AuthorizedTooLate, Revoked, HandlerDone
<1> QED
  BY <1>1, <1>2, Zenon DEF Accept, HookReturns

LEMMA UnsubServer ==
    ASSUME RPCTypes, UnsubInv, Accept \/ \E id \in Ids : HookReturns(id)
    PROVE  UnsubInv'
<1>0. UNCHANGED <<conn, pendingUnsubs>>
  BY ServerLeavesClient DEF clientVars
<1> SUFFICES ASSUME conn # NoConn
             PROVE  Acked(in'[conn], out'[conn], pendingUnsubs)
  BY <1>0 DEF UnsubInv
<1>1. /\ conn \in Conn /\ in[conn] \in Seq(FrameSet) /\ out[conn] \in Seq(ReplySet)
      /\ Acked(in[conn], out[conn], pendingUnsubs) /\ WireTypes
  BY DEF RPCTypes, ClientTypes, WireTypes, UnsubInv
\* a reply that is not to an unsub, on any connection
<1>2. ASSUME NEW k \in Conn, NEW f \in FrameSet, NEW t \in {"subscribed", "result"},
             NEW ok \in BOOLEAN, SendsBack(k, Reply(f.id, t, ok, f.ch))
      PROVE  \/ out'[conn] = out[conn]
             \/ \E r \in ReplySet : r.type # "unsubscribed" /\ out'[conn] = Append(out[conn], r)
  <2>1. /\ Reply(f.id, t, ok, f.ch) \in ReplySet /\ Reply(f.id, t, ok, f.ch).type # "unsubscribed"
    BY FrameTypes DEF FrameSet, Reply
  <2> QED
    BY <1>1, <1>2, <2>1, SendBackStep
<1>3. CASE Accept
  <2>1. PICK k \in Conn : \/ HandleSubscribe(k) \/ HandleUnsubscribe(k)
                          \/ HandleCall(k) \/ RefusePublish(k)
    BY <1>3 DEF Accept
  <2>2. Accepts(k)
    BY <2>1 DEF HandleSubscribe, HandleUnsubscribe, HandleCall, RefusePublish
  <2>3. /\ in[k] # <<>> /\ in'[k] = Tail(in[k]) /\ Arrived(k) \in FrameSet
        /\ \A j \in Conn \ {k} : in'[j] = in[j]
    BY <1>1, <2>2, AcceptStep
  <2>4. CASE HandleUnsubscribe(k)
    <3> DEFINE r == Reply(Arrived(k).id, "unsubscribed", TRUE, Arrived(k).ch)
    <3>1. r \in ReplySet /\ r.id = Arrived(k).id
      BY <2>3, FrameTypes DEF FrameSet, Reply
    <3>2. SendsBack(k, r) /\ Arrived(k).type = "unsub"
      BY <2>4 DEF HandleUnsubscribe
    <3>3. /\ out'[k] = out[k] \/ out'[k] = Append(out[k], r)
          /\ \A j \in Conn \ {k} : out'[j] = out[j]
      BY <1>1, <3>1, <3>2, SendBackStep
    <3> HIDE DEF r
    <3>4. CASE k = conn
      BY <1>1, <2>3, <3>1, <3>2, <3>3, <3>4, AckedAccept DEF Arrived
    <3>5. CASE k # conn
      BY <1>1, <2>3, <3>3, <3>5
    <3> QED
      BY <3>4, <3>5
  <2>5. CASE HandleSubscribe(k) \/ HandleCall(k) \/ RefusePublish(k)
    <3>1. Acked(in'[conn], out[conn], pendingUnsubs)
      BY <1>1, <2>3, AckedAccept
    <3>2. \/ out'[conn] = out[conn]
          \/ \E r \in ReplySet : r.type # "unsubscribed" /\ out'[conn] = Append(out[conn], r)
      BY <1>2, <2>3, <2>5 DEF HandleSubscribe, HandleCall, RefusePublish
    <3> QED
      BY <1>1, <3>1, <3>2, AckedReply
  <2> QED
    BY <2>1, <2>4, <2>5
<1>4. ASSUME NEW id \in Ids, HookReturns(id) PROVE Acked(in'[conn], out'[conn], pendingUnsubs)
  <2>1. PICK k \in Conn : \E f \in authz[k] \cup revoking[k] \cup working[k] :
            \/ Authorized(k, f) \/ Refused(k, f) \/ AuthorizeThrew(k, f)
            \/ AuthorizedTooLate(k, f) \/ Revoked(k, f) \/ HandlerDone(k, f)
    BY <1>4, Zenon DEF HookReturns
  <2>2. PICK f \in authz[k] \cup revoking[k] \cup working[k] :
            \/ Authorized(k, f) \/ Refused(k, f) \/ AuthorizeThrew(k, f)
            \/ AuthorizedTooLate(k, f) \/ Revoked(k, f) \/ HandlerDone(k, f)
    BY <2>1
  <2>3. f \in FrameSet
    BY <2>2 DEF RPCTypes, ServerTypes
  <2>4. UNCHANGED in
    BY <2>2 DEF Authorized, Refused, AuthorizeThrew, AuthorizedTooLate, Revoked, HandlerDone
  <2>5. \/ out'[conn] = out[conn]
        \/ \E r \in ReplySet : r.type # "unsubscribed" /\ out'[conn] = Append(out[conn], r)
    BY <1>2, <2>2, <2>3
       DEF Authorized, Refused, AuthorizeThrew, AuthorizedTooLate, Revoked, HandlerDone
  <2> QED
    BY <1>1, <2>4, <2>5, AckedReply
<1> QED
  BY <1>3, <1>4

LEMMA UnsubApplication ==
    ASSUME RPCTypes, UnsubInv, NEW c \in Channel, Subscribe(c) \/ Unsubscribe(c) \/ Call(c)
    PROVE  UnsubInv'
<1>0. UNCHANGED <<conn, out>>
  BY DEF Subscribe, Unsubscribe, Call
<1>1. ASSUME CanSend, NEW t \in {"sub", "unsub", "call"}, Sends(Frame(nextFrameId, t, c)),
             pendingUnsubs' = IF t = "unsub" THEN pendingUnsubs \cup {nextFrameId} ELSE pendingUnsubs
      PROVE  UnsubInv'
  <2> DEFINE f == Frame(nextFrameId, t, c)
  <2>1. nextFrameId \in Nat /\ nextFrameId \notin UsedIds(conn) /\ conn \in Conn
    BY <1>1, FreshId DEF CanSend, RPCTypes, ClientTypes
  <2>2. f \in FrameSet /\ f.id = nextFrameId /\ f.type = t
    BY <2>1, FrameTypes DEF Frame
  <2>3. f.id \notin IdsOf(FramesIn(in[conn]) \cup FramesIn(out[conn]))
    BY <2>1, <2>2 DEF UsedIds, IdsOf
  <2>4. in'[conn] = Append(in[conn], f)
    BY <1>1, <2>1, <2>2, SendStep DEF RPCTypes
  <2>5. /\ in[conn] \in Seq(FrameSet) /\ out[conn] \in Seq(ReplySet)
        /\ Acked(in[conn], out[conn], pendingUnsubs)
    BY <1>1, <2>1 DEF RPCTypes, WireTypes, UnsubInv, CanSend
  <2> HIDE DEF f
  <2>6. Acked(Append(in[conn], f), out[conn],
              IF f.type = "unsub" THEN pendingUnsubs \cup {f.id} ELSE pendingUnsubs)
    BY <2>2, <2>3, <2>5, AckedSend
  <2> QED
    BY <1>0, <1>1, <2>2, <2>4, <2>6 DEF UnsubInv
<1>2. ASSUME UNCHANGED <<in, pendingUnsubs>> PROVE UnsubInv'
  BY <1>0, <1>2 DEF UnsubInv
<1>3. CASE Subscribe(c)
  BY <1>1, <1>3 DEF Subscribe
<1>4. CASE Unsubscribe(c)
  BY <1>1, <1>2, <1>4 DEF Unsubscribe
<1>5. CASE Call(c)
  BY <1>1, <1>5 DEF Call
<1> QED
  BY <1>3, <1>4, <1>5

LEMMA UnsubClient ==
    ASSUME RPCTypes, UnsubInv, ClientClose \/ Dispatch \/ \E p \in pending : Timeout(p)
    PROVE  UnsubInv'
<1>1. CASE ClientClose
  BY <1>1 DEF ClientClose, UnsubInv
<1>2. CASE \E p \in pending : Timeout(p)
  BY <1>2 DEF Timeout, UnsubInv
<1>3. CASE Dispatch
  <2>1. Takes /\ UNCHANGED <<conn, in>>
    BY <1>3 DEF Dispatch, DispatchResult, DispatchSubscribed, DispatchUnsubscribed
  <2>2. conn \in Conn /\ out[conn] # <<>> /\ out'[conn] = Tail(out[conn])
    BY <2>1, TakeStep DEF RPCTypes
  <2>3. out[conn] \in Seq(ReplySet) /\ Acked(in[conn], out[conn], pendingUnsubs)
    BY <2>1, <2>2 DEF RPCTypes, WireTypes, UnsubInv, Takes
  <2>4. /\ Acked(in[conn], Tail(out[conn]), pendingUnsubs)
        /\ Received.type = "unsubscribed" =>
              /\ Received.id \in pendingUnsubs
              /\ Acked(in[conn], Tail(out[conn]), pendingUnsubs \ {Received.id})
    BY <2>2, <2>3, AckedTake DEF Received
  <2> QED
    BY <1>3, <2>1, <2>2, <2>4
       DEF Dispatch, DispatchResult, DispatchSubscribed, DispatchUnsubscribed, UnsubInv
<1> QED
  BY <1>1, <1>2, <1>3

LEMMA UnsubConnection ==
    ASSUME RPCTypes, UnsubInv, NEW k \in Conn, Open(k) \/ Break(k) \/ ServerClose(k)
    PROVE  UnsubInv'
<1>1. CASE Open(k)
  <2> DEFINE n == Cardinality(subs)
  <2>1. PICK order \in [1..n -> subs] :
            in' = [in EXCEPT ![k] = [i \in 1..n |-> Frame(i, "sub", order[i])]]
    BY <1>1 DEF Open
  <2>2. n \in Nat
    BY FS_CardinalityType DEF RPCTypes, ClientTypes
  <2>3. in'[k] = [i \in 1..n |-> Frame(i, "sub", order[i])]
    BY <2>1 DEF RPCTypes, WireTypes
  <2> HIDE DEF n
  <2>4. Len(in'[k]) = n /\ \A i \in 1..n : in'[k][i] = Frame(i, "sub", order[i])
    BY <2>2, <2>3
  <2>5. /\ \A i \in 1..Len(in'[k]) : in'[k][i].type # "unsub"
        /\ \A f \in FramesIn(in'[k]) : f.type # "unsub"
    <3>1. \A i, c : Frame(i, "sub", c).type # "unsub"
      BY DEF Frame
    <3>2. \A i \in 1..n : i \in Nat
      BY <2>2
    <3>3. \A i \in 1..Len(in'[k]) : in'[k][i].type # "unsub"
      BY <2>4, <3>1, <3>2, Zenon
    <3> QED
      BY <3>3, Zenon DEF FramesIn
  <2>6. conn' = k /\ out'[k] = <<>> /\ k # NoConn
    BY <1>1, ChannelsAssumption DEF Open
  <2>7. FramesIn(<<>>) = {} /\ Once(<<>>, "unsubscribed")
    BY DEF FramesIn, Once
  <2>8. Acked(in'[k], <<>>, pendingUnsubs')
    BY <2>5, <2>7 DEF Acked, Once
  <2> QED
    BY <2>6, <2>8 DEF UnsubInv
<1>2. CASE Break(k)
  BY <1>2 DEF Break, clientVars, UnsubInv
<1>3. CASE ServerClose(k)
  <2>1. /\ UNCHANGED <<conn, out, pendingUnsubs>> /\ in'[k] = <<>>
        /\ \A j \in Conn \ {k} : in'[j] = in[j]
    BY <1>3 DEF ServerClose, clientVars, RPCTypes, WireTypes
  <2>2. FramesIn(<<>>) = {} /\ Once(<<>>, "unsub")
    BY DEF FramesIn, Once
  <2>3. \A o, u : Acked(in[k], o, u) => Acked(<<>>, o, u)
    BY <2>2 DEF Acked
  <2>4. conn # NoConn => conn \in Conn
    BY DEF RPCTypes, ClientTypes
  <2> QED
    BY <2>1, <2>3, <2>4 DEF UnsubInv
<1> QED
  BY <1>1, <1>2, <1>3

LEMMA UnsubStep == ASSUME RPCTypes, UnsubInv, [RPCNext]_rpcVars PROVE UnsubInv'
<1>1. ASSUME UNCHANGED <<in, out, clientVars>> PROVE UnsubInv'
  BY <1>1 DEF clientVars, UnsubInv
<1>2. ASSUME NEW c \in Channel, Regrant(c) PROVE UnsubInv'
  BY <1>1, <1>2 DEF Regrant
<1>3. CASE UNCHANGED rpcVars
  BY <1>1, <1>3 DEF rpcVars
<1> QED
  BY <1>2, <1>3, UnsubServer, UnsubApplication, UnsubClient, UnsubConnection DEF RPCNext

\* A request that fails drops its channel and settles the channel's user.
LEMMA SettledNone ==
    ASSUME NEW ps, NEW c \in Channel, Settled(ps)[c] \in {"subscribing", "held"}
    PROVE  c \notin Dropped(ps) /\ Settled(ps)[c] = app[c]
<1>1. /\ c \in Dropped(ps) => Settled(ps)[c] = "none"
      /\ Settled(ps)[c] = "none" \/ Settled(ps)[c] = app[c]
  BY DEF Settled
<1> QED
  BY <1>1

LEMMA BackedStep ==
    ASSUME RPCTypes, UnsubInv, HandleBacked, [RPCNext]_rpcVars
    PROVE  HandleBacked'
<1>1. ASSUME NEW ps, app' = Settled(ps), subs' = subs \/ subs' = subs \ Dropped(ps)
      PROVE  HandleBacked'
  BY <1>1, SettledNone DEF HandleBacked
<1>2. ASSUME UNCHANGED <<subs, app>> PROVE HandleBacked'
  BY <1>2 DEF HandleBacked
<1>3. ASSUME NEW c \in Channel, Subscribe(c) PROVE HandleBacked'
  BY <1>3 DEF Subscribe, HandleBacked, RPCTypes, ClientTypes
<1>4. ASSUME NEW c \in Channel, Unsubscribe(c) PROVE HandleBacked'
  BY <1>4 DEF Unsubscribe, HandleBacked, RPCTypes, ClientTypes
<1>5. CASE ClientClose
  BY <1>1, <1>5 DEF ClientClose
<1>6. ASSUME NEW p \in pending, Timeout(p) PROVE HandleBacked'
  BY <1>1, <1>6 DEF Timeout
<1>7. CASE DispatchResult
  BY <1>1, <1>2, <1>7 DEF DispatchResult
<1>8. CASE DispatchSubscribed
  BY <1>8 DEF DispatchSubscribed, HandleBacked, RPCTypes, ClientTypes
<1>9. CASE DispatchUnsubscribed
  <2>1. Takes /\ Received.type = "unsubscribed"
    BY <1>9 DEF DispatchUnsubscribed
  <2>2. conn \in Conn /\ out[conn] # <<>>
    BY <2>1, TakeStep DEF RPCTypes
  <2>3. out[conn] \in Seq(ReplySet) /\ Acked(in[conn], out[conn], pendingUnsubs)
    BY <2>1, <2>2 DEF RPCTypes, WireTypes, UnsubInv, Takes
  <2>4. Received.id \in pendingUnsubs
    BY <2>1, <2>2, <2>3, AckedTake DEF Received
  <2> QED
    BY <1>1, <1>9, <2>4 DEF DispatchUnsubscribed
<1>10. ASSUME NEW k \in Conn, Open(k) \/ Break(k) \/ ServerClose(k) PROVE HandleBacked'
  BY <1>2, <1>10 DEF Open, Break, ServerClose, clientVars
<1>11. ASSUME NEW c \in Channel, Call(c) \/ Regrant(c) PROVE HandleBacked'
  BY <1>2, <1>11 DEF Call, Regrant, clientVars
<1>12. CASE Accept \/ \E id \in Ids : HookReturns(id)
  BY <1>2, <1>12, ServerLeavesClient DEF clientVars
<1>13. CASE UNCHANGED rpcVars
  BY <1>2, <1>13 DEF rpcVars, clientVars
<1> QED
  BY <1>3, <1>4, <1>5, <1>6, <1>7, <1>8, <1>9, <1>10, <1>11, <1>12, <1>13 DEF RPCNext, Dispatch

\* From subscribe() until the user gives the channel up or is told that it
\* is gone, the channel is in the client's map: a late ack of an earlier
\* unsubscribe() never takes it out, because _pendingUnsubs keeps the id of
\* every unsub that is still unanswered on this connection.
THEOREM HandleBackedHolds == RPCSpec => []HandleBacked
<1>1. RPCInit => UnsubInv /\ HandleBacked
  BY DEF RPCInit, UnsubInv, HandleBacked
<1>2. RPCTypes /\ UnsubInv /\ HandleBacked /\ [RPCNext]_rpcVars
        => (RPCTypes /\ UnsubInv /\ HandleBacked)'
  BY TypesStep, UnsubStep, BackedStep
<1> QED
  BY <1>1, <1>2, TypesInit, PTL DEF RPCSpec

-----------------------------------------------------------------------------
(* What the client believes and the server confirms.                       *)

IsSub(f, c) == f.type = "sub" /\ f.ch = c
IsUnsub(f, c) == f.type = "unsub" /\ f.ch = c
IsFailure(r) == r.type = "result" /\ ~r.ok
\* a request whose failure takes its channel out of the client's map
Asking(p) == p.kind \in {"sub", "resub"}

\* In what follows i and o are the frames to and from the server, s the
\* channels it has subscribed, a and h the frames whose authorize, and whose
\* authorize or onUnsubscribe, it awaits, and w those at another handler.

\* What carries the id of request p is its sub frame, or an answer to it.
Apart(p, i, h, w, o) ==
    /\ \A f \in FramesIn(i) : f.id = p.id => IsSub(f, p.ch)
    /\ \A f \in h : f.id = p.id => f.ch = p.ch
    /\ \A f \in w : f.id # p.id
    /\ \A r \in FramesIn(o) : r.id = p.id => r.ch = p.ch /\ (r.type = "subscribed" \/ IsFailure(r))

\* p is still to be answered, or the answer says that it failed.
Answering(p, i, h, o) ==
    \/ \E f \in FramesIn(i) : f.id = p.id /\ IsSub(f, p.ch)
    \/ \E f \in h : f.id = p.id /\ f.ch = p.ch
    \/ \E r \in FramesIn(o) : r.id = p.id /\ r.ch = p.ch /\ IsFailure(r)

NoUnsub(i, c) == \A f \in FramesIn(i) : ~IsUnsub(f, c)
\* a sub frame for c in i, with no unsub behind it
SubLast(i, c) ==
    \E n \in 1..Len(i) : IsSub(i[n], c) /\ \A m \in 1..Len(i) : m > n => ~IsUnsub(i[m], c)

\* Handled in full, i and a leave c subscribed if authorize says yes.
Subscribing(c, i, s, a) ==
    \/ SubLast(i, c)
    \/ NoUnsub(i, c) /\ (c \in s \/ \E f \in a : f.ch = c)

\* c is subscribed, and nothing is under way that could change that.
Settles(c, i, s, a) ==
    /\ c \in s
    /\ \A f \in FramesIn(i) : ~IsSub(f, c) /\ ~IsUnsub(f, c)
    /\ \A f \in a : f.ch # c

Held(k) == authz[k] \cup revoking[k]

IdsApart ==
    \A p \in pending : Asking(p) => Apart(p, in[conn], Held(conn), working[conn], out[conn])

\* While authorize says yes, what is under way leaves the channel
\* subscribed; while it does not, the channel stays subscribed, or the client
\* waits for the answer that takes it out of its map.
Confirmed(c) ==
    IF may[c] = "yes" THEN Subscribing(c, in[conn], server[conn], authz[conn])
    ELSE \/ Settles(c, in[conn], server[conn], authz[conn])
         \/ \E p \in pending : /\ Asking(p) /\ p.ch = c
                               /\ Answering(p, in[conn], Held(conn), out[conn])

\* No ack is under way for a channel while authorize does not say yes.
AcksMeanYes ==
    /\ may \in [Channel -> {"yes", "no", "throws"}]
    /\ \A k \in Conn : \A r \in FramesIn(out[k]) : r.type = "subscribed" => may[r.ch] = "yes"

LinksLive == link \subseteq live /\ link \subseteq Conn

LossInv ==
    /\ LinksLive /\ AcksMeanYes
    /\ conn \in link => IdsApart /\ \A c \in subs : Confirmed(c)

LEMMA SubLastAppend ==
    ASSUME NEW S, NEW i \in Seq(S), NEW f \in S, NEW c,
           IsSub(f, c) \/ (SubLast(i, c) /\ ~IsUnsub(f, c))
    PROVE  SubLast(Append(i, f), c)
<1> DEFINE j == Append(i, f)
<1>1. /\ Len(i) \in Nat /\ Len(j) = Len(i) + 1 /\ j[Len(i) + 1] = f
      /\ \A n \in 1..Len(i) : j[n] = i[n]
  BY AppendProperties, LenProperties
<1> HIDE DEF j
<1>2. \A n \in 1..Len(j) : n \in 1..Len(i) \/ n = Len(i) + 1
  BY <1>1
<1>3. CASE IsSub(f, c)
  <2>1. Len(i) + 1 \in 1..Len(j) /\ \A m \in 1..Len(j) : ~(m > Len(i) + 1)
    BY <1>1
  <2> QED
    BY <1>1, <1>3, <2>1 DEF SubLast, j
<1>4. CASE SubLast(i, c) /\ ~IsUnsub(f, c)
  <2>1. PICK n \in 1..Len(i) :
            IsSub(i[n], c) /\ \A m \in 1..Len(i) : m > n => ~IsUnsub(i[m], c)
    BY <1>4 DEF SubLast
  <2>2. n \in 1..Len(j) /\ IsSub(j[n], c)
    BY <1>1, <2>1
  <2>3. \A m \in 1..Len(j) : m > n => ~IsUnsub(j[m], c)
    BY <1>1, <1>2, <1>4, <2>1
  <2> QED
    BY <2>2, <2>3 DEF SubLast, j
<1> QED
  BY <1>3, <1>4

LEMMA SubLastTail ==
    ASSUME NEW S, NEW i \in Seq(S), NEW c, i # <<>>, SubLast(i, c)
    PROVE  SubLast(Tail(i), c) \/ (IsSub(Head(i), c) /\ NoUnsub(Tail(i), c))
<1> DEFINE t == Tail(i)
<1>1. /\ Len(i) \in Nat \ {0} /\ Head(i) = i[1] /\ Len(t) = Len(i) - 1
      /\ \A n \in 1..Len(t) : t[n] = i[n + 1]
  BY HeadTailProperties, EmptySeq
<1>2. PICK n \in 1..Len(i) : IsSub(i[n], c) /\ \A m \in 1..Len(i) : m > n => ~IsUnsub(i[m], c)
  BY DEF SubLast
<1> HIDE DEF t
<1>3. ASSUME NEW m \in 1..Len(t), m + 1 > n PROVE ~IsUnsub(t[m], c)
  BY <1>1, <1>2, <1>3
<1>4. CASE n = 1
  <2>1. \A m \in 1..Len(t) : ~IsUnsub(t[m], c)
    BY <1>1, <1>3, <1>4
  <2> QED
    BY <1>1, <1>2, <1>4, <2>1 DEF NoUnsub, FramesIn, t
<1>5. CASE n # 1
  <2>1. n - 1 \in 1..Len(t) /\ IsSub(t[n - 1], c)
    BY <1>1, <1>2, <1>5
  <2>2. \A m \in 1..Len(t) : m > n - 1 => ~IsUnsub(t[m], c)
    BY <1>1, <1>3
  <2> QED
    BY <2>1, <2>2 DEF SubLast, t
<1> QED
  BY <1>4, <1>5

LEMMA TailAndHead ==
    ASSUME NEW S, NEW i \in Seq(S), i # <<>>
    PROVE  FramesIn(i) \subseteq FramesIn(Tail(i)) \cup {Head(i)}
<1> DEFINE t == Tail(i)
<1> SUFFICES ASSUME NEW n \in 1..Len(i) PROVE i[n] \in FramesIn(t) \cup {Head(i)}
  BY DEF FramesIn
<1>1. /\ Len(i) \in Nat /\ Head(i) = i[1] /\ Len(t) = Len(i) - 1
      /\ \A m \in 1..Len(t) : t[m] = i[m + 1]
  BY HeadTailProperties, LenProperties
<1> HIDE DEF t
<1>2. CASE n # 1
  <2>1. n - 1 \in 1..Len(t) /\ t[n - 1] = i[n]
    BY <1>1, <1>2
  <2> QED
    BY <2>1 DEF FramesIn
<1> QED
  BY <1>1, <1>2

\* The server takes a frame: the requests of the client, ...
LEMMA RequestAccept ==
    ASSUME NEW i \in Seq(FrameSet), i # <<>>, NEW o \in Seq(ReplySet), NEW h, NEW w, NEW p,
           Apart(p, i, h, w, o)
    PROVE  /\ Head(i).type = "sub" =>
                 /\ Apart(p, Tail(i), h \cup {Head(i)}, w, o)
                 /\ Answering(p, i, h, o) => Answering(p, Tail(i), h \cup {Head(i)}, o)
           /\ Head(i).type # "sub" =>
                 /\ Apart(p, Tail(i), h, w \cup {Head(i)}, o)
                 /\ \A r \in ReplySet : r.id = Head(i).id => Apart(p, Tail(i), h, w, Append(o, r))
                 /\ Answering(p, i, h, o) =>
                       /\ Answering(p, Tail(i), h, o)
                       /\ \A r \in ReplySet : Answering(p, Tail(i), h, Append(o, r))
<1>1. Head(i) \in FramesIn(i) /\ FramesIn(Tail(i)) \subseteq FramesIn(i)
  BY TailFrames
<1>2. FramesIn(i) \subseteq FramesIn(Tail(i)) \cup {Head(i)}
  BY TailAndHead
<1>3. \A r \in ReplySet : FramesIn(Append(o, r)) = FramesIn(o) \cup {r}
  BY AppendFrames
<1>4. Head(i).id = p.id => IsSub(Head(i), p.ch)
  BY <1>1 DEF Apart
<1>5. CASE Head(i).type = "sub"
  <2>1. Apart(p, Tail(i), h \cup {Head(i)}, w, o)
    BY <1>1, <1>4, <1>5 DEF Apart, IsSub
  <2>2. Answering(p, i, h, o) => Answering(p, Tail(i), h \cup {Head(i)}, o)
    BY <1>2 DEF Answering, IsSub
  <2> QED
    BY <1>5, <2>1, <2>2
<1>6. CASE Head(i).type # "sub"
  <2>1. Head(i).id # p.id
    BY <1>4, <1>6 DEF IsSub
  <2>2. Apart(p, Tail(i), h, w \cup {Head(i)}, o)
    BY <1>1, <2>1 DEF Apart
  <2>3. \A r \in ReplySet : r.id = Head(i).id => Apart(p, Tail(i), h, w, Append(o, r))
    BY <1>1, <1>3, <2>1 DEF Apart
  <2>4. ASSUME Answering(p, i, h, o)
        PROVE  /\ Answering(p, Tail(i), h, o)
               /\ \A r \in ReplySet : Answering(p, Tail(i), h, Append(o, r))
    BY <1>2, <1>3, <2>1, <2>4 DEF Answering
  <2> QED
    BY <1>6, <2>2, <2>3, <2>4
<1> QED
  BY <1>5, <1>6

\* ... and the channels of its map.
LEMMA ChannelAccept ==
    ASSUME NEW i \in Seq(FrameSet), i # <<>>, NEW s, NEW a, NEW c
    PROVE  /\ Head(i).type = "sub" =>
                 /\ Subscribing(c, i, s, a) => Subscribing(c, Tail(i), s, a \cup {Head(i)})
                 /\ Settles(c, i, s, a) => Settles(c, Tail(i), s, a \cup {Head(i)})
           /\ Head(i).type = "unsub" =>
                 /\ Subscribing(c, i, s, a) => Subscribing(c, Tail(i), s \ {Head(i).ch}, a)
                 /\ Settles(c, i, s, a) => Settles(c, Tail(i), s \ {Head(i).ch}, a)
           /\ Head(i).type = "call" =>
                 /\ Subscribing(c, i, s, a) => Subscribing(c, Tail(i), s, a)
                 /\ Settles(c, i, s, a) => Settles(c, Tail(i), s, a)
<1>1. Head(i) \in FramesIn(i) /\ FramesIn(Tail(i)) \subseteq FramesIn(i)
  BY TailFrames
<1>2. Settles(c, i, s, a) =>
          /\ ~IsSub(Head(i), c) /\ ~IsUnsub(Head(i), c) /\ c \in s /\ \A f \in a : f.ch # c
          /\ \A f \in FramesIn(Tail(i)) : ~IsSub(f, c) /\ ~IsUnsub(f, c)
  BY <1>1 DEF Settles
<1>3. Subscribing(c, i, s, a) =>
          \/ SubLast(Tail(i), c)
          \/ IsSub(Head(i), c) /\ NoUnsub(Tail(i), c)
          \/ /\ ~IsUnsub(Head(i), c) /\ NoUnsub(Tail(i), c)
             /\ c \in s \/ \E f \in a : f.ch = c
  BY <1>1, SubLastTail DEF Subscribing, NoUnsub
<1>4. CASE Head(i).type = "sub"
  BY <1>2, <1>3, <1>4 DEF Settles, Subscribing, IsSub
<1>5. CASE Head(i).type = "unsub"
  BY <1>2, <1>3, <1>5 DEF Settles, Subscribing, IsSub, IsUnsub
<1>6. CASE Head(i).type = "call"
  BY <1>2, <1>3, <1>6 DEF Settles, Subscribing, IsSub
<1> QED
  BY <1>4, <1>5, <1>6

\* The server answers a frame it held, or one that was at a handler.
LEMMA RequestReply ==
    ASSUME NEW i, NEW o \in Seq(ReplySet), NEW h, NEW w, NEW p, Apart(p, i, h, w, o),
           NEW r \in ReplySet, NEW f, r.id = f.id
    PROVE  /\ f \in w => /\ Apart(p, i, h, w \ {f}, Append(o, r))
                         /\ Answering(p, i, h, o) => Answering(p, i, h, Append(o, r))
           /\ f \in h /\ r.ch = f.ch /\ (r.type = "subscribed" \/ IsFailure(r)) =>
                 \A g \in SUBSET h : Apart(p, i, g, w, Append(o, r))
           /\ f \in h /\ r.ch = f.ch /\ IsFailure(r) =>
                 \A g \in SUBSET h : h \subseteq g \cup {f} /\ Answering(p, i, h, o) =>
                     Answering(p, i, g, Append(o, r))
           /\ f \in h /\ r.ch = f.ch /\ f.ch # p.ch =>
                 \A g \in SUBSET h : h \subseteq g \cup {f} /\ Answering(p, i, h, o) =>
                     Answering(p, i, g, Append(o, r))
<1>1. FramesIn(Append(o, r)) = FramesIn(o) \cup {r}
  BY AppendFrames
<1>2. f \in w => /\ Apart(p, i, h, w \ {f}, Append(o, r))
                 /\ Answering(p, i, h, o) => Answering(p, i, h, Append(o, r))
  BY <1>1 DEF Apart, Answering
<1>3. f \in h /\ r.ch = f.ch /\ (r.type = "subscribed" \/ IsFailure(r)) =>
          \A g \in SUBSET h : Apart(p, i, g, w, Append(o, r))
  BY <1>1 DEF Apart
<1>4. ASSUME f \in h, r.ch = f.ch, NEW g \in SUBSET h, h \subseteq g \cup {f},
             Answering(p, i, h, o), IsFailure(r) \/ f.ch # p.ch
      PROVE  Answering(p, i, g, Append(o, r))
  BY <1>1, <1>4 DEF Answering
<1> QED
  BY <1>2, <1>3, <1>4

LEMMA FrameRanges ==
    ASSUME RPCTypes, NEW k \in Conn
    PROVE  /\ in[k] \in Seq(FrameSet) /\ FramesIn(in[k]) \subseteq FrameSet
           /\ out[k] \in Seq(ReplySet) /\ FramesIn(out[k]) \subseteq ReplySet
           /\ authz[k] \subseteq FrameSet /\ revoking[k] \subseteq FrameSet
           /\ working[k] \subseteq FrameSet
<1>1. /\ in[k] \in Seq(FrameSet) /\ out[k] \in Seq(ReplySet)
      /\ authz[k] \subseteq FrameSet /\ revoking[k] \subseteq FrameSet
      /\ working[k] \subseteq FrameSet
  BY DEF RPCTypes, WireTypes, ServerTypes
<1>2. ASSUME NEW S, NEW s \in Seq(S) PROVE FramesIn(s) \subseteq S
  BY <1>2, ElementOfSeq DEF FramesIn
<1> QED
  BY <1>1, <1>2

\* With a Steady authorize, no answer changes while something is under way.
LEMMA NothingRequested ==
    ASSUME NEW c, Requested(c) = {}, NEW k \in Conn,
           NEW f \in FramesIn(in[k]) \cup FramesIn(out[k]) \cup authz[k] \cup revoking[k]
    PROVE  f.ch # c
<1> DEFINE S(j) == FramesIn(in[j]) \cup FramesIn(out[j]) \cup authz[j] \cup revoking[j]
<1>1. Requested(c) = {g \in UNION {S(j) : j \in Conn} : g.ch = c}
  BY DEF Requested
<1>2. f \in S(k)
  OBVIOUS
<1> HIDE DEF S
<1>3. f \in UNION {S(j) : j \in Conn}
  BY <1>2, Zenon
<1> QED
  BY <1>1, <1>3

LEMMA LinksStep == ASSUME LinksLive, [RPCNext]_rpcVars PROVE LinksLive'
<1>1. ASSUME UNCHANGED <<link, live>> PROVE LinksLive'
  BY <1>1 DEF LinksLive
<1>2. ASSUME NEW k \in Conn, Open(k) \/ Break(k) \/ ServerClose(k) PROVE LinksLive'
  BY <1>2 DEF Open, Break, ServerClose, serverVars, LinksLive
<1>3. ASSUME Accept \/ \E id \in Ids : HookReturns(id) PROVE UNCHANGED <<link, live>>
  <2>1. ASSUME NEW k, HandleSubscribe(k) \/ HandleUnsubscribe(k) \/ HandleCall(k) \/ RefusePublish(k)
        PROVE  UNCHANGED <<link, live>>
    BY <2>1 DEF HandleSubscribe, HandleUnsubscribe, HandleCall, RefusePublish, serverVars
  <2>2. ASSUME NEW k, NEW f,
               \/ Authorized(k, f) \/ Refused(k, f) \/ AuthorizeThrew(k, f)
               \/ AuthorizedTooLate(k, f) \/ Revoked(k, f) \/ HandlerDone(k, f)
        PROVE  UNCHANGED <<link, live>>
    BY <2>2 DEF Authorized, Refused, AuthorizeThrew, AuthorizedTooLate, Revoked, HandlerDone
  <2> QED
    BY <1>3, <2>1, <2>2, Zenon DEF Accept, HookReturns
<1>4. ASSUME NEW c \in Channel, Subscribe(c) \/ Unsubscribe(c) \/ Call(c) \/ Regrant(c)
      PROVE  UNCHANGED <<link, live>>
  BY <1>4 DEF Subscribe, Unsubscribe, Call, Regrant, serverVars
<1>5. ASSUME ClientClose \/ Dispatch \/ \E p \in pending : Timeout(p)
      PROVE  UNCHANGED <<link, live>>
  BY <1>5 DEF ClientClose, Timeout, Dispatch, DispatchResult, DispatchSubscribed,
              DispatchUnsubscribed, serverVars
<1>6. CASE UNCHANGED rpcVars
  BY <1>1, <1>6 DEF rpcVars, serverVars
<1> QED
  BY <1>1, <1>2, <1>3, <1>4, <1>5, <1>6 DEF RPCNext

\* A step that answers with nothing but acks that authorize stands for.
LEMMA FewerAcks ==
    ASSUME RPCTypes, AcksMeanYes, UNCHANGED may,
           \A k \in Conn : \A r \in FramesIn(out'[k]) :
               r \in FramesIn(out[k]) \/ (r.type = "subscribed" => may[r.ch] = "yes")
    PROVE  AcksMeanYes'
BY Zenon DEF AcksMeanYes

LEMMA OneMoreFrame ==
    ASSUME NEW S, NEW s \in Seq(S), NEW f \in S
    PROVE  FramesIn(Append(s, f)) = FramesIn(s) \cup {f}
BY AppendFrames

LEMMA SendBackFrames ==
    ASSUME RPCTypes, NEW k \in Conn, NEW r \in ReplySet, SendsBack(k, r), NEW j \in Conn
    PROVE  FramesIn(out'[j]) \subseteq FramesIn(out[j]) \cup {r}
<1>1. out[k] \in Seq(ReplySet)
  BY FrameRanges
<1>2. FramesIn(Append(out[k], r)) = FramesIn(out[k]) \cup {r}
  BY <1>1, OneMoreFrame
<1> QED
  BY <1>2, SendBackStep DEF RPCTypes

LEMMA AcksServer ==
    ASSUME RPCTypes, AcksMeanYes, Accept \/ \E id \in Ids : HookReturns(id)
    PROVE  AcksMeanYes'
<1>1. ASSUME NEW k \in Conn, NEW r \in ReplySet, SendsBack(k, r), UNCHANGED may,
             r.type = "subscribed" => may[r.ch] = "yes"
      PROVE  AcksMeanYes'
  <2>1. \A j \in Conn : \A g \in FramesIn(out'[j]) : g \in FramesIn(out[j]) \/ g = r
    BY <1>1, SendBackFrames, Zenon
  <2> QED
    BY <1>1, <2>1, FewerAcks
<1>2. ASSUME UNCHANGED <<may, out>> PROVE AcksMeanYes'
  BY <1>2 DEF AcksMeanYes
<1>3. CASE Accept
  <2>1. PICK k \in Conn : \/ HandleSubscribe(k) \/ HandleUnsubscribe(k)
                          \/ HandleCall(k) \/ RefusePublish(k)
    BY <1>3 DEF Accept
  <2>2. Arrived(k).id \in Nat /\ Arrived(k).ch \in Channel
    BY <2>1, AcceptStep DEF HandleSubscribe, HandleUnsubscribe, HandleCall, RefusePublish,
                            RPCTypes, FrameSet
  <2>3. CASE HandleSubscribe(k) \/ HandleCall(k)
    BY <1>2, <2>3 DEF HandleSubscribe, HandleCall
  <2>4. CASE HandleUnsubscribe(k)
    <3>1. SendsBack(k, Reply(Arrived(k).id, "unsubscribed", TRUE, Arrived(k).ch)) /\ UNCHANGED may
      BY <2>4 DEF HandleUnsubscribe
    <3>2. /\ Reply(Arrived(k).id, "unsubscribed", TRUE, Arrived(k).ch) \in ReplySet
          /\ Reply(Arrived(k).id, "unsubscribed", TRUE, Arrived(k).ch).type # "subscribed"
      BY <2>2, FrameTypes DEF Reply
    <3> QED
      BY <1>1, <3>1, <3>2
  <2>5. CASE RefusePublish(k)
    <3>1. SendsBack(k, Reply(Arrived(k).id, "result", FALSE, Arrived(k).ch)) /\ UNCHANGED may
      BY <2>5 DEF RefusePublish
    <3>2. /\ Reply(Arrived(k).id, "result", FALSE, Arrived(k).ch) \in ReplySet
          /\ Reply(Arrived(k).id, "result", FALSE, Arrived(k).ch).type # "subscribed"
      BY <2>2, FrameTypes DEF Reply
    <3> QED
      BY <1>1, <3>1, <3>2
  <2> QED
    BY <2>1, <2>3, <2>4, <2>5
<1>4. ASSUME NEW id \in Ids, HookReturns(id) PROVE AcksMeanYes'
  <2>1. PICK k \in Conn : \E f \in authz[k] \cup revoking[k] \cup working[k] :
            \/ Authorized(k, f) \/ Refused(k, f) \/ AuthorizeThrew(k, f)
            \/ AuthorizedTooLate(k, f) \/ Revoked(k, f) \/ HandlerDone(k, f)
    BY <1>4, Zenon DEF HookReturns
  <2>2. PICK f \in authz[k] \cup revoking[k] \cup working[k] :
            \/ Authorized(k, f) \/ Refused(k, f) \/ AuthorizeThrew(k, f)
            \/ AuthorizedTooLate(k, f) \/ Revoked(k, f) \/ HandlerDone(k, f)
    BY <2>1
  <2>3. f.id \in Nat /\ f.ch \in Channel /\ UNCHANGED may
    <3>1. f.id \in Nat /\ f.ch \in Channel
      BY <2>2, FrameRanges DEF FrameSet
    <3>2. UNCHANGED may
      BY <2>2 DEF Authorized, Refused, AuthorizeThrew, AuthorizedTooLate, Revoked, HandlerDone
    <3> QED
      BY <3>1, <3>2
  <2>4. ASSUME NEW ok \in BOOLEAN, SendsBack(k, Reply(f.id, "result", ok, f.ch))
        PROVE  AcksMeanYes'
    <3>1. /\ Reply(f.id, "result", ok, f.ch) \in ReplySet
          /\ Reply(f.id, "result", ok, f.ch).type # "subscribed"
      BY <2>3, FrameTypes DEF Reply
    <3> QED
      BY <1>1, <2>3, <2>4, <3>1
  <2>5. CASE Authorized(k, f)
    <3>1. /\ Reply(f.id, "subscribed", TRUE, f.ch) \in ReplySet
          /\ Reply(f.id, "subscribed", TRUE, f.ch).ch = f.ch
      BY <2>3, FrameTypes DEF Reply
    <3>2. SendsBack(k, Reply(f.id, "subscribed", TRUE, f.ch)) /\ may[f.ch] = "yes"
      BY <2>5 DEF Authorized
    <3> QED
      BY <1>1, <2>3, <3>1, <3>2
  <2>6. CASE \/ Refused(k, f) \/ AuthorizeThrew(k, f) \/ AuthorizedTooLate(k, f)
             \/ Revoked(k, f) \/ HandlerDone(k, f)
    BY <1>2, <2>4, <2>6 DEF Refused, AuthorizeThrew, AuthorizedTooLate, Revoked, HandlerDone
  <2> QED
    BY <2>2, <2>5, <2>6
<1> QED
  BY <1>3, <1>4

LEMMA AcksStep ==
    ASSUME RPCTypes, AcksMeanYes, Steady, [RPCNext]_rpcVars
    PROVE  AcksMeanYes'
<1>1. ASSUME UNCHANGED <<may, out>> PROVE AcksMeanYes'
  BY <1>1 DEF AcksMeanYes
<1>2. ASSUME NEW k \in Conn, Open(k) \/ Break(k) \/ ServerClose(k) PROVE AcksMeanYes'
  BY <1>1, <1>2 DEF Open, Break, ServerClose
<1>3. ASSUME NEW c \in Channel, Subscribe(c) \/ Unsubscribe(c) \/ Call(c) PROVE AcksMeanYes'
  BY <1>1, <1>3 DEF Subscribe, Unsubscribe, Call
<1>4. ASSUME NEW c \in Channel, Regrant(c) PROVE AcksMeanYes'
  <2>1. Requested(c) = {} /\ UNCHANGED out
    BY <1>4 DEF Regrant
  <2>2. PICK answer \in {"yes", "no", "throws"} : may' = [may EXCEPT ![c] = answer]
    BY <1>4 DEF Regrant
  <2>3. ASSUME NEW k \in Conn, NEW r \in FramesIn(out[k]) PROVE r.ch # c
    BY <2>1, <2>3, NothingRequested
  <2>4. /\ may' \in [Channel -> {"yes", "no", "throws"}]
        /\ \A d \in Channel \ {c} : may'[d] = may[d]
    BY <2>2 DEF AcksMeanYes
  <2>5. \A k \in Conn : \A r \in FramesIn(out[k]) : r.ch \in Channel
    BY FrameRanges DEF ReplySet
  <2> QED
    BY <2>1, <2>3, <2>4, <2>5 DEF AcksMeanYes
<1>5. CASE ClientClose
  <2>1. /\ FramesIn(<<>>) = {} /\ \A k \in Conn : out'[k] = out[k] \/ out'[k] = <<>>
        /\ UNCHANGED may
    BY <1>5 DEF ClientClose, FramesIn, RPCTypes, WireTypes
  <2> QED
    BY <2>1, FewerAcks
<1>6. ASSUME NEW p \in pending, Timeout(p) PROVE AcksMeanYes'
  BY <1>1, <1>6 DEF Timeout
<1>7. CASE Dispatch
  <2>1. Takes /\ UNCHANGED may
    BY <1>7 DEF Dispatch, DispatchResult, DispatchSubscribed, DispatchUnsubscribed
  <2>2. /\ conn \in Conn /\ out[conn] # <<>> /\ out'[conn] = Tail(out[conn])
        /\ \A j \in Conn \ {conn} : out'[j] = out[j]
    BY <2>1, TakeStep DEF RPCTypes, WireTypes
  <2>3. out[conn] \in Seq(ReplySet)
    BY <2>2 DEF RPCTypes, WireTypes
  <2>4. \A k \in Conn : FramesIn(out'[k]) \subseteq FramesIn(out[k])
    BY <2>2, <2>3, TailFrames
  <2> QED
    BY <2>1, <2>4, FewerAcks
<1>8. CASE UNCHANGED rpcVars
  BY <1>1, <1>8 DEF rpcVars
<1> QED
  BY <1>2, <1>3, <1>4, <1>5, <1>6, <1>7, <1>8, AcksServer DEF RPCNext

\* A step of the server keeps what the client relies on when it keeps it
\* for each request and for each channel.
LEMMA ServerEffect ==
    ASSUME UNCHANGED clientVars, UNCHANGED may, IdsApart, \A c \in subs : Confirmed(c),
           \A p \in pending :
               Asking(p) /\ Apart(p, in[conn], Held(conn), working[conn], out[conn]) =>
                   /\ Apart(p, in'[conn], Held(conn)', working'[conn], out'[conn])
                   /\ may[p.ch] # "yes" /\ Answering(p, in[conn], Held(conn), out[conn]) =>
                         Answering(p, in'[conn], Held(conn)', out'[conn]),
           \A c \in subs :
               /\ may[c] = "yes" /\ Subscribing(c, in[conn], server[conn], authz[conn]) =>
                      Subscribing(c, in'[conn], server'[conn], authz'[conn])
               /\ may[c] # "yes" /\ Settles(c, in[conn], server[conn], authz[conn]) =>
                      Settles(c, in'[conn], server'[conn], authz'[conn])
    PROVE  IdsApart' /\ \A c \in subs' : Confirmed(c)'
<1>0. conn' = conn /\ pending' = pending /\ subs' = subs /\ may' = may
  BY DEF clientVars
<1> DEFINE H == Held(conn)'
<1>1. H = authz'[conn] \cup revoking'[conn]
  BY <1>0 DEF Held
<1>2. IdsApart'
  <2>1. IdsApart' <=> \A p \in pending : Asking(p) => Apart(p, in'[conn], H, working'[conn], out'[conn])
    BY <1>0, <1>1, Zenon DEF IdsApart, Held
  <2> HIDE DEF H
  <2> QED
    BY <2>1, Zenon DEF IdsApart, H
<1>3. ASSUME NEW c \in subs PROVE Confirmed(c)'
  <2>1. CASE may[c] = "yes"
    BY <1>0, <1>3, <2>1, Zenon DEF Confirmed
  <2>2. CASE may[c] # "yes" /\ Settles(c, in[conn], server[conn], authz[conn])
    BY <1>0, <1>3, <2>2, Zenon DEF Confirmed
  <2>3. CASE may[c] # "yes" /\ ~Settles(c, in[conn], server[conn], authz[conn])
    <3>1. PICK p \in pending : /\ Asking(p) /\ p.ch = c
                               /\ Answering(p, in[conn], Held(conn), out[conn])
      BY <1>3, <2>3, Zenon DEF Confirmed
    <3>2. Answering(p, in'[conn], H, out'[conn])
      BY <2>3, <3>1, Zenon DEF IdsApart
    <3> QED
      BY <1>0, <1>1, <2>3, <3>1, <3>2, Zenon DEF Confirmed, Held
  <2> QED
    BY <2>1, <2>2, <2>3, Zenon
<1> QED
  BY <1>0, <1>2, <1>3, Zenon

\* What happens on another connection changes nothing.
LEMMA OtherConnection ==
    ASSUME UNCHANGED clientVars, UNCHANGED may, IdsApart, \A c \in subs : Confirmed(c),
           in'[conn] = in[conn], out'[conn] = out[conn], server'[conn] = server[conn],
           authz'[conn] = authz[conn], revoking'[conn] = revoking[conn], working'[conn] = working[conn]
    PROVE  IdsApart' /\ \A c \in subs' : Confirmed(c)'
<1>1. Held(conn)' = Held(conn)
  BY DEF Held, clientVars
<1> QED
  BY <1>1, ServerEffect, Zenon

LEMMA LossAccept ==
    ASSUME RPCTypes, conn \in link, link \subseteq Conn, IdsApart, \A c \in subs : Confirmed(c),
           Accept
    PROVE  IdsApart' /\ \A c \in subs' : Confirmed(c)'
<1>0. UNCHANGED clientVars /\ UNCHANGED <<may, revoking>> /\ conn' = conn /\ conn \in Conn
  <2>1. ASSUME NEW k, HandleSubscribe(k) \/ HandleUnsubscribe(k) \/ HandleCall(k) \/ RefusePublish(k)
        PROVE  UNCHANGED <<may, revoking>>
    BY <2>1 DEF HandleSubscribe, HandleUnsubscribe, HandleCall, RefusePublish, serverVars
  <2>2. UNCHANGED <<may, revoking>>
    BY <2>1, Zenon DEF Accept
  <2> QED
    BY <2>2, ServerLeavesClient DEF clientVars
<1>1. PICK k \in Conn : \/ HandleSubscribe(k) \/ HandleUnsubscribe(k)
                        \/ HandleCall(k) \/ RefusePublish(k)
  BY DEF Accept
<1>2. Accepts(k) /\ WireTypes /\ ServerTypes
  BY <1>1 DEF HandleSubscribe, HandleUnsubscribe, HandleCall, RefusePublish, RPCTypes
<1>3. /\ in[k] # <<>> /\ in'[k] = Tail(in[k]) /\ Arrived(k) \in FrameSet
      /\ \A j \in Conn \ {k} : in'[j] = in[j]
  BY <1>2, AcceptStep
<1>4. CASE k # conn
  <2>1. out'[conn] = out[conn]
    BY <1>0, <1>1, <1>2, <1>4
       DEF HandleSubscribe, HandleUnsubscribe, HandleCall, RefusePublish, SendsBack, WireTypes
  <2>2. /\ server'[conn] = server[conn] /\ authz'[conn] = authz[conn]
        /\ revoking'[conn] = revoking[conn] /\ working'[conn] = working[conn]
    BY <1>0, <1>1, <1>2, <1>4
       DEF HandleSubscribe, HandleUnsubscribe, HandleCall, RefusePublish, ServerTypes, serverVars
  <2> QED
    BY <1>0, <1>3, <1>4, <2>1, <2>2, OtherConnection
<1>5. CASE k = conn
  <2> DEFINE i == in[conn]
             f == Head(i)
  <2>0. /\ i \in Seq(FrameSet) /\ i # <<>> /\ out[conn] \in Seq(ReplySet)
        /\ in'[conn] = Tail(i) /\ f \in FrameSet /\ Arrived(k) = f
        /\ revoking'[conn] = revoking[conn]
    BY <1>0, <1>3, <1>5, FrameRanges DEF Arrived
  <2>r. ASSUME NEW t \in {"unsubscribed", "result"}, NEW ok \in BOOLEAN,
               SendsBack(conn, Reply(f.id, t, ok, f.ch))
        PROVE  \E r \in ReplySet : r.id = f.id /\ out'[conn] = Append(out[conn], r)
    <3>1. Reply(f.id, t, ok, f.ch) \in ReplySet /\ Reply(f.id, t, ok, f.ch).id = f.id
      BY <2>0, FrameTypes DEF FrameSet, Reply
    <3>2. out'[conn] = Append(out[conn], Reply(f.id, t, ok, f.ch))
      BY <1>0, <1>2, <2>r DEF SendsBack, WireTypes
    <3> QED
      BY <3>1, <3>2
  <2> HIDE DEF i, f
  <2>1. CASE HandleSubscribe(k)
    <3>1. /\ f.type = "sub" /\ authz'[conn] = authz[conn] \cup {f} /\ out'[conn] = out[conn]
          /\ server'[conn] = server[conn] /\ working'[conn] = working[conn]
      BY <1>0, <1>2, <1>5, <2>0, <2>1 DEF HandleSubscribe, ServerTypes
    <3>2. Held(conn)' = Held(conn) \cup {f}
      BY <1>0, <2>0, <3>1 DEF Held
    <3>3. ASSUME NEW p \in pending, Apart(p, i, Held(conn), working[conn], out[conn])
          PROVE  /\ Apart(p, Tail(i), Held(conn) \cup {f}, working[conn], out[conn])
                 /\ Answering(p, i, Held(conn), out[conn]) =>
                       Answering(p, Tail(i), Held(conn) \cup {f}, out[conn])
      BY <2>0, <3>1, <3>3, RequestAccept DEF f
    <3>4. ASSUME NEW c \in subs
          PROVE  /\ Subscribing(c, i, server[conn], authz[conn]) =>
                        Subscribing(c, Tail(i), server[conn], authz[conn] \cup {f})
                 /\ Settles(c, i, server[conn], authz[conn]) =>
                        Settles(c, Tail(i), server[conn], authz[conn] \cup {f})
      BY <2>0, <3>1, ChannelAccept DEF f
    <3> QED
      BY <1>0, <2>0, <3>1, <3>2, <3>3, <3>4, ServerEffect, Zenon DEF i
  <2>2. CASE HandleUnsubscribe(k)
    <3>1. /\ f.type = "unsub" /\ authz'[conn] = authz[conn]
          /\ server'[conn] = server[conn] \ {f.ch} /\ working'[conn] = working[conn]
      BY <1>0, <1>2, <1>5, <2>0, <2>2 DEF HandleUnsubscribe, ServerTypes
    <3>2. PICK r \in ReplySet : r.id = f.id /\ out'[conn] = Append(out[conn], r)
      BY <1>5, <2>0, <2>2, <2>r DEF HandleUnsubscribe
    <3>3. Held(conn)' = Held(conn)
      BY <1>0, <2>0, <3>1 DEF Held
    <3>4. ASSUME NEW p \in pending, Apart(p, i, Held(conn), working[conn], out[conn])
          PROVE  /\ Apart(p, Tail(i), Held(conn), working[conn], Append(out[conn], r))
                 /\ Answering(p, i, Held(conn), out[conn]) =>
                       Answering(p, Tail(i), Held(conn), Append(out[conn], r))
      BY <2>0, <3>1, <3>2, <3>4, RequestAccept DEF f
    <3>5. ASSUME NEW c \in subs
          PROVE  /\ Subscribing(c, i, server[conn], authz[conn]) =>
                        Subscribing(c, Tail(i), server[conn] \ {f.ch}, authz[conn])
                 /\ Settles(c, i, server[conn], authz[conn]) =>
                        Settles(c, Tail(i), server[conn] \ {f.ch}, authz[conn])
      BY <2>0, <3>1, ChannelAccept DEF f
    <3> QED
      BY <1>0, <2>0, <3>1, <3>2, <3>3, <3>4, <3>5, ServerEffect, Zenon DEF i
  <2>3. CASE HandleCall(k) \/ RefusePublish(k)
    <3>1. /\ f.type = "call" /\ authz'[conn] = authz[conn] /\ server'[conn] = server[conn]
      BY <1>0, <1>2, <1>5, <2>0, <2>3 DEF HandleCall, RefusePublish, ServerTypes, serverVars
    <3>2. \/ /\ working'[conn] = working[conn] \cup {f} /\ out'[conn] = out[conn]
          \/ /\ working'[conn] = working[conn]
             /\ \E r \in ReplySet : r.id = f.id /\ out'[conn] = Append(out[conn], r)
      <4>1. CASE HandleCall(k)
        BY <1>0, <1>2, <1>5, <2>0, <4>1 DEF HandleCall, ServerTypes
      <4>2. CASE RefusePublish(k)
        BY <1>5, <2>0, <2>r, <4>2 DEF RefusePublish, serverVars
      <4> QED
        BY <2>3, <4>1, <4>2
    <3>3. Held(conn)' = Held(conn)
      BY <1>0, <2>0, <3>1 DEF Held
    <3>4. ASSUME NEW p \in pending, Apart(p, i, Held(conn), working[conn], out[conn])
          PROVE  /\ Apart(p, Tail(i), Held(conn), working'[conn], out'[conn])
                 /\ Answering(p, i, Held(conn), out[conn]) =>
                       Answering(p, Tail(i), Held(conn), out'[conn])
      <4>1. f.type # "sub"
        BY <3>1
      <4>2. /\ Apart(p, Tail(i), Held(conn), working[conn] \cup {f}, out[conn])
            /\ \A r \in ReplySet : r.id = f.id =>
                  Apart(p, Tail(i), Held(conn), working[conn], Append(out[conn], r))
            /\ Answering(p, i, Held(conn), out[conn]) =>
                  /\ Answering(p, Tail(i), Held(conn), out[conn])
                  /\ \A r \in ReplySet : Answering(p, Tail(i), Held(conn), Append(out[conn], r))
        BY <2>0, <3>4, <4>1, RequestAccept DEF f
      <4>3. CASE working'[conn] = working[conn] \cup {f} /\ out'[conn] = out[conn]
        BY <4>2, <4>3, Zenon
      <4>4. CASE /\ working'[conn] = working[conn]
                 /\ \E r \in ReplySet : r.id = f.id /\ out'[conn] = Append(out[conn], r)
        BY <4>2, <4>4, Zenon
      <4> QED
        BY <3>2, <4>3, <4>4
    <3>5. ASSUME NEW c \in subs
          PROVE  /\ Subscribing(c, i, server[conn], authz[conn]) =>
                        Subscribing(c, Tail(i), server[conn], authz[conn])
                 /\ Settles(c, i, server[conn], authz[conn]) =>
                        Settles(c, Tail(i), server[conn], authz[conn])
      BY <2>0, <3>1, ChannelAccept DEF f
    <3> QED
      BY <1>0, <2>0, <3>1, <3>3, <3>4, <3>5, ServerEffect, Zenon DEF i
  <2> QED
    BY <1>1, <2>1, <2>2, <2>3
<1> QED
  BY <1>4, <1>5

\* A frame that the server held at a hook gets its answer.
LEMMA HeldAnswered ==
    ASSUME RPCTypes, conn \in Conn, IdsApart, UNCHANGED clientVars,
           in'[conn] = in[conn], working'[conn] = working[conn],
           NEW f \in Held(conn), NEW t \in {"subscribed", "result"}, NEW ok \in BOOLEAN,
           t = "result" => ~ok,
           out'[conn] = Append(out[conn], Reply(f.id, t, ok, f.ch)),
           Held(conn)' \subseteq Held(conn), Held(conn) \subseteq Held(conn)' \cup {f},
           NEW p \in pending, Asking(p)
    PROVE  /\ Apart(p, in'[conn], Held(conn)', working'[conn], out'[conn])
           /\ /\ t = "subscribed" => p.ch # f.ch
              /\ Answering(p, in[conn], Held(conn), out[conn])
              => Answering(p, in'[conn], Held(conn)', out'[conn])
<1> DEFINE r == Reply(f.id, t, ok, f.ch)
           h == Held(conn)'
<1>1. f \in FrameSet /\ out[conn] \in Seq(ReplySet)
  BY FrameRanges DEF Held
<1>2. r \in ReplySet /\ r.id = f.id /\ r.ch = f.ch /\ r.type = t /\ r.ok = ok
  BY <1>1, FrameTypes DEF FrameSet, Reply
<1>3. r.type = "subscribed" \/ IsFailure(r)
  BY <1>2 DEF IsFailure
<1>4. (t = "subscribed" => p.ch # f.ch) => IsFailure(r) \/ f.ch # p.ch
  BY <1>2 DEF IsFailure
<1>5. Apart(p, in[conn], Held(conn), working[conn], out[conn])
  BY DEF IdsApart
<1>6. out'[conn] = Append(out[conn], r) /\ h \in SUBSET Held(conn) /\ Held(conn) \subseteq h \cup {f}
  OBVIOUS
<1> HIDE DEF r, h
<1>7. Apart(p, in[conn], h, working[conn], Append(out[conn], r))
  BY <1>1, <1>2, <1>3, <1>5, <1>6, RequestReply
<1>8. /\ t = "subscribed" => p.ch # f.ch
      /\ Answering(p, in[conn], Held(conn), out[conn])
      => Answering(p, in[conn], h, Append(out[conn], r))
  BY <1>1, <1>2, <1>4, <1>5, <1>6, RequestReply
<1> QED
  BY <1>6, <1>7, <1>8, Zenon DEF h

LEMMA LossHook ==
    ASSUME RPCTypes, conn \in link, LinksLive, IdsApart, \A c \in subs : Confirmed(c),
           NEW id \in Ids, HookReturns(id)
    PROVE  IdsApart' /\ \A c \in subs' : Confirmed(c)'
<1>1. PICK k \in Conn : \E f \in authz[k] \cup revoking[k] \cup working[k] :
          \/ Authorized(k, f) \/ Refused(k, f) \/ AuthorizeThrew(k, f)
          \/ AuthorizedTooLate(k, f) \/ Revoked(k, f) \/ HandlerDone(k, f)
  BY Zenon DEF HookReturns
<1>2. PICK f \in authz[k] \cup revoking[k] \cup working[k] :
          \/ Authorized(k, f) \/ Refused(k, f) \/ AuthorizeThrew(k, f)
          \/ AuthorizedTooLate(k, f) \/ Revoked(k, f) \/ HandlerDone(k, f)
  BY <1>1
<1>3. UNCHANGED <<in, may>> /\ UNCHANGED clientVars /\ conn' = conn
  BY <1>2 DEF Authorized, Refused, AuthorizeThrew, AuthorizedTooLate, Revoked, HandlerDone, clientVars
<1>4. conn \in Conn /\ conn \in live /\ WireTypes /\ ServerTypes
  BY DEF LinksLive, RPCTypes
<1>5. CASE k # conn
  <2>1. out'[conn] = out[conn]
    BY <1>2, <1>4, <1>5
       DEF Authorized, Refused, AuthorizeThrew, AuthorizedTooLate, Revoked, HandlerDone,
           SendsBack, WireTypes
  <2>2. /\ server'[conn] = server[conn] /\ authz'[conn] = authz[conn]
        /\ revoking'[conn] = revoking[conn] /\ working'[conn] = working[conn]
    BY <1>2, <1>4, <1>5
       DEF Authorized, Refused, AuthorizeThrew, AuthorizedTooLate, Revoked, HandlerDone, ServerTypes
  <2> QED
    BY <1>3, <2>1, <2>2, OtherConnection
<1>6. CASE k = conn
  <2>1. f \in FrameSet /\ in'[conn] = in[conn] /\ Held(conn)' = authz'[conn] \cup revoking'[conn]
    BY <1>2, <1>3, <1>4, <1>6, FrameRanges DEF Held
  <2>2. ASSUME NEW t, NEW ok, SendsBack(conn, Reply(f.id, t, ok, f.ch))
        PROVE  out'[conn] = Append(out[conn], Reply(f.id, t, ok, f.ch))
    BY <1>4, <2>2 DEF SendsBack, WireTypes
  \* frames that were at authorize or at onUnsubscribe, answered with a failure
  <2>3. ASSUME f \in Held(conn), SendsBack(conn, Reply(f.id, "result", FALSE, f.ch)),
               working'[conn] = working[conn],
               Held(conn)' \subseteq Held(conn), Held(conn) \subseteq Held(conn)' \cup {f},
               NEW p \in pending, Asking(p)
        PROVE  /\ Apart(p, in'[conn], Held(conn)', working'[conn], out'[conn])
               /\ Answering(p, in[conn], Held(conn), out[conn]) =>
                     Answering(p, in'[conn], Held(conn)', out'[conn])
    BY <1>3, <1>4, <2>1, <2>2, <2>3, HeldAnswered
  <2>4. CASE Authorized(k, f)
    <3>1. /\ authz'[conn] = authz[conn] \ {f} /\ server'[conn] = server[conn] \cup {f.ch}
          /\ revoking'[conn] = revoking[conn] /\ working'[conn] = working[conn]
          /\ f \in Held(conn) /\ may[f.ch] = "yes"
          /\ SendsBack(conn, Reply(f.id, "subscribed", TRUE, f.ch))
      BY <1>4, <1>6, <2>4 DEF Authorized, ServerTypes, Held
    <3>2. Held(conn)' \subseteq Held(conn) /\ Held(conn) \subseteq Held(conn)' \cup {f}
      BY <2>1, <3>1 DEF Held
    <3>3. ASSUME NEW p \in pending, Asking(p)
          PROVE  /\ Apart(p, in'[conn], Held(conn)', working'[conn], out'[conn])
                 /\ may[p.ch] # "yes" /\ Answering(p, in[conn], Held(conn), out[conn]) =>
                       Answering(p, in'[conn], Held(conn)', out'[conn])
      BY <1>3, <1>4, <2>1, <2>2, <3>1, <3>2, <3>3, HeldAnswered
    <3>4. ASSUME NEW c \in subs
          PROVE  /\ Subscribing(c, in[conn], server[conn], authz[conn]) =>
                        Subscribing(c, in'[conn], server'[conn], authz'[conn])
                 /\ Settles(c, in[conn], server[conn], authz[conn]) =>
                        Settles(c, in'[conn], server'[conn], authz'[conn])
      BY <2>1, <3>1 DEF Subscribing, Settles
    <3> QED
      BY <1>3, <3>3, <3>4, ServerEffect, Zenon
  <2>5. CASE Refused(k, f)
    <3>1. /\ authz'[conn] = authz[conn] \ {f} /\ server'[conn] = server[conn] \ {f.ch}
          /\ working'[conn] = working[conn]
          /\ f \in Held(conn) /\ f \in authz[conn] /\ may[f.ch] = "no"
          /\ \/ revoking'[conn] = revoking[conn] \cup {f} /\ out'[conn] = out[conn]
             \/ /\ revoking'[conn] = revoking[conn]
                /\ SendsBack(conn, Reply(f.id, "result", FALSE, f.ch))
      BY <1>4, <1>6, <2>5 DEF Refused, ServerTypes, Held
    <3>2. ASSUME NEW p \in pending, Asking(p)
          PROVE  /\ Apart(p, in'[conn], Held(conn)', working'[conn], out'[conn])
                 /\ Answering(p, in[conn], Held(conn), out[conn]) =>
                       Answering(p, in'[conn], Held(conn)', out'[conn])
      <4>1. CASE revoking'[conn] = revoking[conn] \cup {f} /\ out'[conn] = out[conn]
        <5>1. Held(conn)' = Held(conn)
          BY <2>1, <3>1, <4>1 DEF Held
        <5> QED
          BY <2>1, <3>1, <3>2, <4>1, <5>1 DEF IdsApart
      <4>2. CASE /\ revoking'[conn] = revoking[conn]
                 /\ SendsBack(conn, Reply(f.id, "result", FALSE, f.ch))
        <5>1. Held(conn)' \subseteq Held(conn) /\ Held(conn) \subseteq Held(conn)' \cup {f}
          BY <2>1, <3>1, <4>2 DEF Held
        <5> QED
          BY <2>3, <3>1, <3>2, <4>2, <5>1
      <4> QED
        BY <3>1, <4>1, <4>2
    <3>3. ASSUME NEW c \in subs
          PROVE  /\ may[c] = "yes" /\ Subscribing(c, in[conn], server[conn], authz[conn]) =>
                        Subscribing(c, in'[conn], server'[conn], authz'[conn])
                 /\ Settles(c, in[conn], server[conn], authz[conn]) =>
                        Settles(c, in'[conn], server'[conn], authz'[conn])
      BY <2>1, <3>1 DEF Subscribing, Settles
    <3> QED
      BY <1>3, <3>2, <3>3, ServerEffect, Zenon
  <2>6. CASE AuthorizeThrew(k, f)
    <3>1. /\ authz'[conn] = authz[conn] \ {f} /\ server'[conn] = server[conn]
          /\ revoking'[conn] = revoking[conn] /\ working'[conn] = working[conn]
          /\ f \in Held(conn) /\ may[f.ch] = "throws"
          /\ SendsBack(conn, Reply(f.id, "result", FALSE, f.ch))
      BY <1>4, <1>6, <2>6 DEF AuthorizeThrew, ServerTypes, Held
    <3>2. Held(conn)' \subseteq Held(conn) /\ Held(conn) \subseteq Held(conn)' \cup {f}
      BY <2>1, <3>1 DEF Held
    <3>3. ASSUME NEW c \in subs
          PROVE  /\ may[c] = "yes" /\ Subscribing(c, in[conn], server[conn], authz[conn]) =>
                        Subscribing(c, in'[conn], server'[conn], authz'[conn])
                 /\ Settles(c, in[conn], server[conn], authz[conn]) =>
                        Settles(c, in'[conn], server'[conn], authz'[conn])
      BY <2>1, <3>1 DEF Subscribing, Settles
    <3>4. ASSUME NEW p \in pending, Asking(p)
          PROVE  /\ Apart(p, in'[conn], Held(conn)', working'[conn], out'[conn])
                 /\ Answering(p, in[conn], Held(conn), out[conn]) =>
                       Answering(p, in'[conn], Held(conn)', out'[conn])
      BY <2>3, <3>1, <3>2, <3>4
    <3> QED
      BY <1>3, <3>3, <3>4, ServerEffect, Zenon
  <2>7. CASE AuthorizedTooLate(k, f)
    BY <1>4, <1>6, <2>7 DEF AuthorizedTooLate
  <2>8. CASE Revoked(k, f)
    <3>1. /\ authz'[conn] = authz[conn] /\ server'[conn] = server[conn]
          /\ revoking'[conn] = revoking[conn] \ {f} /\ working'[conn] = working[conn]
          /\ f \in Held(conn) /\ SendsBack(conn, Reply(f.id, "result", FALSE, f.ch))
      BY <1>4, <1>6, <2>8 DEF Revoked, ServerTypes, Held
    <3>2. Held(conn)' \subseteq Held(conn) /\ Held(conn) \subseteq Held(conn)' \cup {f}
      BY <2>1, <3>1 DEF Held
    <3>3. ASSUME NEW p \in pending, Asking(p)
          PROVE  /\ Apart(p, in'[conn], Held(conn)', working'[conn], out'[conn])
                 /\ Answering(p, in[conn], Held(conn), out[conn]) =>
                       Answering(p, in'[conn], Held(conn)', out'[conn])
      BY <2>3, <3>1, <3>2, <3>3
    <3> QED
      BY <1>3, <2>1, <3>1, <3>3, ServerEffect, Zenon
  <2>9. CASE HandlerDone(k, f)
    <3>1. /\ authz'[conn] = authz[conn] /\ server'[conn] = server[conn]
          /\ revoking'[conn] = revoking[conn] /\ working'[conn] = working[conn] \ {f}
          /\ f \in working[conn]
          /\ \E ok \in BOOLEAN : SendsBack(conn, Reply(f.id, "result", ok, f.ch))
      BY <1>4, <1>6, <2>9 DEF HandlerDone, ServerTypes
    <3>2. PICK r \in ReplySet : r.id = f.id /\ out'[conn] = Append(out[conn], r)
      <4>1. \A ok \in BOOLEAN : /\ Reply(f.id, "result", ok, f.ch) \in ReplySet
                                /\ Reply(f.id, "result", ok, f.ch).id = f.id
        BY <2>1, FrameTypes DEF FrameSet, Reply
      <4> QED
        BY <2>2, <3>1, <4>1
    <3>3. Held(conn)' = Held(conn)
      BY <2>1, <3>1 DEF Held
    <3>4. ASSUME NEW p \in pending, Asking(p)
          PROVE  /\ Apart(p, in'[conn], Held(conn)', working'[conn], out'[conn])
                 /\ Answering(p, in[conn], Held(conn), out[conn]) =>
                       Answering(p, in'[conn], Held(conn)', out'[conn])
      <4>1. Apart(p, in[conn], Held(conn), working[conn], out[conn])
        BY <3>4 DEF IdsApart
      <4>2. out[conn] \in Seq(ReplySet)
        BY <1>4, FrameRanges
      <4>3. /\ Apart(p, in[conn], Held(conn), working[conn] \ {f}, Append(out[conn], r))
            /\ Answering(p, in[conn], Held(conn), out[conn]) =>
                  Answering(p, in[conn], Held(conn), Append(out[conn], r))
        BY <3>1, <3>2, <4>1, <4>2, RequestReply
      <4> QED
        BY <2>1, <3>1, <3>2, <3>3, <4>3
    <3> QED
      BY <1>3, <2>1, <3>1, <3>4, ServerEffect, Zenon
  <2> QED
    BY <1>2, <2>4, <2>5, <2>6, <2>7, <2>8, <2>9
<1> QED
  BY <1>5, <1>6

\* A request goes only with the channel it is about, when it goes because it
\* failed (a subscribe() that rejects, _handleResubscribeFailure).
LEMMA ForgottenDrops ==
    ASSUME NEW ps, NEW p, p \in Forgotten(ps), Asking(p), p.ch \in subs
    PROVE  p.ch \in Dropped(ps)
BY DEF Forgotten, Dropped, Asking

LEMMA LossClient ==
    ASSUME RPCTypes, conn \in link, LinksLive, AcksMeanYes, IdsApart, \A c \in subs : Confirmed(c),
           (\E p \in pending : Timeout(p)) \/ Dispatch
    PROVE  IdsApart' /\ \A c \in subs' : Confirmed(c)'
<1>0. /\ conn \in Conn /\ conn' = conn /\ in' = in /\ may' = may
      /\ UNCHANGED <<server, authz, revoking, working>>
  BY DEF LinksLive, Timeout, Dispatch, DispatchResult, DispatchSubscribed,
         DispatchUnsubscribed, serverVars
<1>1. Held(conn)' = Held(conn) /\ pending' \subseteq pending /\ subs' \subseteq subs
  BY <1>0 DEF Held, Timeout, Dispatch, DispatchResult, DispatchSubscribed, DispatchUnsubscribed
<1>3. FramesIn(out'[conn]) \subseteq FramesIn(out[conn])
  <2>1. ASSUME NEW p \in pending, Timeout(p) PROVE out'[conn] = out[conn]
    BY <2>1 DEF Timeout
  <2>2. CASE Dispatch
    <3>1. Takes
      BY <2>2 DEF Dispatch, DispatchResult, DispatchSubscribed, DispatchUnsubscribed
    <3>2. out[conn] # <<>> /\ out'[conn] = Tail(out[conn]) /\ out[conn] \in Seq(ReplySet)
      BY <1>0, <3>1, TakeStep, FrameRanges DEF RPCTypes
    <3> QED
      BY <3>2, TailFrames
  <2> QED
    BY <2>1, <2>2
<1>4. IdsApart'
  <2> SUFFICES ASSUME NEW p \in pending, Asking(p)
               PROVE  Apart(p, in[conn], Held(conn), working[conn], out'[conn])
    BY <1>0, <1>1, Zenon DEF IdsApart
  <2>1. Apart(p, in[conn], Held(conn), working[conn], out[conn])
    BY DEF IdsApart
  <2> QED
    BY <1>3, <2>1 DEF Apart
\* a request whose answer is a failure, or that stays, until its channel goes
<1>5. ASSUME NEW c \in subs', may[c] # "yes", NEW p \in pending, Asking(p), p.ch = c,
             Answering(p, in[conn], Held(conn), out[conn])
      PROVE  p \in pending' /\ Answering(p, in[conn], Held(conn), out'[conn])
  <2>0. c \in subs /\ Apart(p, in[conn], Held(conn), working[conn], out[conn])
    BY <1>1, <1>5 DEF IdsApart
  <2>1. CASE \E q \in pending : Timeout(q)
    <3>1. PICK q \in pending : Timeout(q)
      BY <2>1
    <3>2. /\ out'[conn] = out[conn] /\ pending' = pending \ Forgotten({q})
          /\ subs' = subs \ Dropped({q})
      BY <3>1 DEF Timeout
    <3>3. p \notin Forgotten({q})
      BY <1>5, <2>0, <3>2, ForgottenDrops
    <3> QED
      BY <1>5, <3>2, <3>3
  <2>2. CASE Dispatch
    <3>0. PICK r : r = Received
      OBVIOUS
    <3>a. Takes
      BY <2>2 DEF Dispatch, DispatchResult, DispatchSubscribed, DispatchUnsubscribed
    <3>b. out[conn] # <<>> /\ out'[conn] = Tail(out[conn]) /\ out[conn] \in Seq(ReplySet)
      BY <1>0, <3>a, TakeStep, FrameRanges DEF RPCTypes
    <3>1. /\ r \in FramesIn(out[conn]) /\ Head(out[conn]) = r
          /\ out'[conn] = Tail(out[conn]) /\ out[conn] \in Seq(ReplySet) /\ out[conn] # <<>>
      BY <3>0, <3>b, TailFrames DEF Received
    <3>2. r.id = p.id => r.ch = c /\ (r.type = "subscribed" \/ IsFailure(r))
      BY <1>5, <2>0, <3>1 DEF Apart
    <3>3. p \in Answered => p.id = r.id
      BY <3>0 DEF Answered
    <3>4. p.id = r.id => p \in Answered
      BY <1>5, <3>0 DEF Answered
    <3>5. ~(r.id = p.id /\ IsFailure(r)) => Answering(p, in[conn], Held(conn), out'[conn])
      <4>1. FramesIn(out[conn]) \subseteq FramesIn(Tail(out[conn])) \cup {r}
        BY <3>1, TailAndHead
      <4> QED
        BY <1>5, <3>1, <4>1 DEF Answering
    <3>6. CASE DispatchResult
      <4>1. CASE r.ok
        <5>1. p \notin Answered /\ pending' = pending \ Answered
          BY <3>0, <3>2, <3>3, <3>6, <4>1 DEF DispatchResult, IsFailure
        <5> QED
          BY <1>5, <3>5, <4>1, <5>1 DEF IsFailure
      <4>2. CASE ~r.ok
        <5>1. pending' = pending \ Forgotten(Answered) /\ subs' = subs \ Dropped(Answered)
          BY <3>0, <3>6, <4>2 DEF DispatchResult
        <5>2. p \notin Forgotten(Answered)
          BY <1>5, <2>0, <5>1, ForgottenDrops
        <5>3. r.id # p.id
          BY <3>4, <5>2 DEF Forgotten
        <5> QED
          BY <1>5, <3>5, <5>1, <5>2, <5>3
      <4> QED
        BY <4>1, <4>2
    <3>7. CASE DispatchSubscribed
      <4>1. r.type = "subscribed" /\ ~IsFailure(r)
        BY <3>0, <3>7 DEF DispatchSubscribed, IsFailure
      <4>2. r.ch # c
        BY <1>0, <1>5, <3>1, <4>1 DEF AcksMeanYes
      <4>3. p \notin Answered
        BY <3>2, <3>3, <4>2
      <4>4. p \in pending'
        BY <1>5, <3>0, <3>7, <4>2, <4>3 DEF DispatchSubscribed
      <4> QED
        BY <3>5, <4>1, <4>4
    <3>8. CASE DispatchUnsubscribed
      <4>1. r.type = "unsubscribed" /\ ~IsFailure(r)
        BY <3>0, <3>8 DEF DispatchUnsubscribed, IsFailure
      <4>2. p \notin Answered
        BY <3>2, <3>3, <4>1
      <4>3. p \in pending'
        BY <1>5, <3>8, <4>2 DEF DispatchUnsubscribed
      <4> QED
        BY <3>5, <4>1, <4>3
    <3> QED
      BY <2>2, <3>6, <3>7, <3>8 DEF Dispatch
  <2> QED
    BY <2>1, <2>2
<1>6. ASSUME NEW c \in subs' PROVE Confirmed(c)'
  <2>0. c \in subs
    BY <1>1
  <2>1. CASE may[c] = "yes"
    BY <1>0, <2>0, <2>1, Zenon DEF Confirmed
  <2>2. CASE may[c] # "yes" /\ Settles(c, in[conn], server[conn], authz[conn])
    BY <1>0, <2>2, Zenon DEF Confirmed
  <2>3. CASE may[c] # "yes" /\ ~Settles(c, in[conn], server[conn], authz[conn])
    <3>1. PICK p \in pending : /\ Asking(p) /\ p.ch = c
                               /\ Answering(p, in[conn], Held(conn), out[conn])
      BY <2>0, <2>3, Zenon DEF Confirmed
    <3>2. p \in pending' /\ Answering(p, in[conn], Held(conn), out'[conn])
      BY <1>5, <2>3, <3>1, Zenon
    <3> QED
      BY <1>0, <1>1, <2>3, <3>1, <3>2, Zenon DEF Confirmed
  <2> QED
    BY <2>1, <2>2, <2>3
<1> QED
  BY <1>4, <1>6

\* A new frame at the end of what the client has sent.
LEMMA RequestSend ==
    ASSUME NEW i \in Seq(FrameSet), NEW f \in FrameSet, NEW o, NEW h, NEW w, NEW p,
           Apart(p, i, h, w, o), f.id # p.id
    PROVE  /\ Apart(p, Append(i, f), h, w, o)
           /\ Answering(p, i, h, o) => Answering(p, Append(i, f), h, o)
<1>1. FramesIn(Append(i, f)) = FramesIn(i) \cup {f}
  BY AppendFrames
<1> QED
  BY <1>1 DEF Apart, Answering

LEMMA ChannelSend ==
    ASSUME NEW i \in Seq(FrameSet), NEW f \in FrameSet, NEW s, NEW a, NEW c,
           f.ch = c => f.type = "call"
    PROVE  /\ Subscribing(c, i, s, a) => Subscribing(c, Append(i, f), s, a)
           /\ Settles(c, i, s, a) => Settles(c, Append(i, f), s, a)
<1>1. FramesIn(Append(i, f)) = FramesIn(i) \cup {f}
  BY AppendFrames
<1>2. ~IsSub(f, c) /\ ~IsUnsub(f, c)
  BY DEF IsSub, IsUnsub
<1>3. SubLast(i, c) => SubLast(Append(i, f), c)
  BY <1>2, SubLastAppend
<1> QED
  BY <1>1, <1>2, <1>3 DEF Subscribing, Settles, NoUnsub

\* The client writes a frame with a new id.
LEMMA LossSend ==
    ASSUME RPCTypes, conn \in Conn, IdsApart, \A c \in subs : Confirmed(c), CanSend,
           NEW t \in {"sub", "unsub", "call"}, NEW d \in Channel,
           Sends(Frame(nextFrameId, t, d)),
           pending' = pending \cup {Pending(nextFrameId, t, d)},
           subs' = (IF t = "sub" THEN subs \cup {d} ELSE IF t = "unsub" THEN subs \ {d} ELSE subs),
           UNCHANGED <<may, conn, out, server, authz, revoking, working>>,
           t = "sub" => d \notin subs
    PROVE  IdsApart' /\ \A c \in subs' : Confirmed(c)'
<1> DEFINE n == nextFrameId
           f == Frame(n, t, d)
           i == in[conn]
           j == Append(i, f)
           q == Pending(n, t, d)
<1>1. /\ n \in Nat
      /\ n \notin IdsOf(FramesIn(in[conn]) \cup FramesIn(out[conn]) \cup pending
                            \cup authz[conn] \cup revoking[conn] \cup working[conn])
  BY FreshId DEF UsedIds
<1>2. f \in FrameSet /\ f.id = n /\ f.type = t /\ f.ch = d /\ q.id = n /\ q.kind = t /\ q.ch = d
  BY <1>1, FrameTypes DEF Frame, Pending
<1>3. /\ \A g \in FramesIn(i) \cup FramesIn(out[conn]) \cup Held(conn) \cup working[conn] : g.id # n
      /\ \A p \in pending : p.id # n
  BY <1>1 DEF IdsOf, Held
<1>4. i \in Seq(FrameSet) /\ in'[conn] = j /\ pending' = pending \cup {q}
  <2>1. WireTypes /\ Sends(f)
    BY DEF RPCTypes
  <2>2. in'[conn] = Append(in[conn], f)
    BY <1>2, <2>1, SendStep, Zenon
  <2> QED
    BY <2>2, FrameRanges
<1>5. /\ Held(conn)' = Held(conn) /\ conn' = conn /\ may' = may /\ out' = out /\ server' = server
      /\ authz' = authz /\ working' = working
  BY DEF Held
<1> HIDE DEF n, f, i, q
<1>11. FramesIn(j) = FramesIn(i) \cup {f}
  BY <1>2, <1>4, OneMoreFrame DEF j
<1>6. ASSUME NEW p \in pending, Asking(p)
      PROVE  /\ Apart(p, j, Held(conn), working[conn], out[conn])
             /\ Answering(p, i, Held(conn), out[conn]) => Answering(p, j, Held(conn), out[conn])
  <2>1. Apart(p, i, Held(conn), working[conn], out[conn]) /\ f.id # p.id
    BY <1>2, <1>3, <1>6 DEF IdsApart, i
  <2> QED
    BY <1>2, <1>4, <2>1, RequestSend
<1>7. Asking(q) => t = "sub" /\ Apart(q, j, Held(conn), working[conn], out[conn])
                     /\ Answering(q, j, Held(conn), out[conn])
  BY <1>2, <1>3, <1>11 DEF Asking, Apart, Answering, IsSub
<1> HIDE DEF j
<1>8. IdsApart'
  <2> SUFFICES ASSUME NEW p \in pending \cup {q}, Asking(p)
               PROVE  Apart(p, j, Held(conn), working[conn], out[conn])
    BY <1>4, <1>5, Zenon DEF IdsApart
  <2> QED
    BY <1>6, <1>7
\* the channel it subscribes
<1>9. ASSUME t = "sub" PROVE Confirmed(d)'
  <2>1. CASE may[d] = "yes"
    <3>1. SubLast(j, d)
      BY <1>2, <1>4, <1>9, SubLastAppend DEF IsSub, j
    <3>2. Subscribing(d, j, server[conn], authz[conn])
      BY <3>1 DEF Subscribing
    <3> QED
      BY <1>4, <1>5, <2>1, <3>2, Zenon DEF Confirmed
  <2>2. CASE may[d] # "yes"
    <3>1. Asking(q) /\ q.ch = d
      BY <1>2, <1>9 DEF Asking
    <3>2. Answering(q, j, Held(conn), out[conn])
      BY <1>7, <3>1
    <3>3. q \in pending'
      BY <1>4
    <3> QED
      BY <1>4, <1>5, <2>2, <3>1, <3>2, <3>3, Zenon DEF Confirmed
  <2> QED
    BY <2>1, <2>2
\* the others
<1>10. ASSUME NEW c \in subs, c = d => t = "call" PROVE Confirmed(c)'
  <2>1. /\ Subscribing(c, i, server[conn], authz[conn]) => Subscribing(c, j, server[conn], authz[conn])
        /\ Settles(c, i, server[conn], authz[conn]) => Settles(c, j, server[conn], authz[conn])
    BY <1>2, <1>4, <1>10, ChannelSend DEF j
  <2>2. Confirmed(c) /\ pending \subseteq pending'
    BY <1>4
  <2>3. CASE may[c] = "yes"
    BY <1>4, <1>5, <2>1, <2>2, <2>3, Zenon DEF Confirmed, i
  <2>4. CASE may[c] # "yes" /\ Settles(c, i, server[conn], authz[conn])
    BY <1>4, <1>5, <2>1, <2>4, Zenon DEF Confirmed
  <2>5. CASE may[c] # "yes" /\ ~Settles(c, i, server[conn], authz[conn])
    <3>1. PICK p \in pending : /\ Asking(p) /\ p.ch = c
                               /\ Answering(p, i, Held(conn), out[conn])
      BY <2>2, <2>5, Zenon DEF Confirmed, i
    <3>2. Answering(p, j, Held(conn), out[conn]) /\ p \in pending'
      BY <1>6, <2>2, <3>1
    <3> QED
      BY <1>4, <1>5, <2>5, <3>1, <3>2, Zenon DEF Confirmed
  <2> QED
    BY <2>3, <2>4, <2>5
<1> QED
  BY <1>8, <1>9, <1>10

LEMMA LossApplication ==
    ASSUME RPCTypes, conn \in link, LinksLive, IdsApart, \A c \in subs : Confirmed(c),
           NEW d \in Channel, Subscribe(d) \/ Unsubscribe(d) \/ Call(d)
    PROVE  IdsApart' /\ \A c \in subs' : Confirmed(c)'
<1>1. /\ UNCHANGED <<may, conn, out, server, authz, revoking, working>>
      /\ conn \in Conn
  BY DEF Subscribe, Unsubscribe, Call, serverVars, LinksLive
<1>2. CASE Subscribe(d)
  <2>1. /\ CanSend /\ Sends(Frame(nextFrameId, "sub", d)) /\ d \notin subs
        /\ pending' = pending \cup {Pending(nextFrameId, "sub", d)} /\ subs' = subs \cup {d}
    BY <1>2 DEF Subscribe
  <2> QED
    BY <1>1, <2>1, LossSend
<1>3. CASE Unsubscribe(d)
  <2>1. CASE UNCHANGED <<in, pending>>
    <3>1. subs' \subseteq subs
      BY <1>3 DEF Unsubscribe
    <3>2. Held(conn)' = Held(conn)
      BY <1>1 DEF Held
    <3> QED
      BY <1>1, <2>1, <3>1, <3>2, Zenon DEF IdsApart, Confirmed
  <2>2. CASE ~ UNCHANGED <<in, pending>>
    <3>1. /\ CanSend /\ Sends(Frame(nextFrameId, "unsub", d))
          /\ pending' = pending \cup {Pending(nextFrameId, "unsub", d)} /\ subs' = subs \ {d}
      BY <1>3, <2>2 DEF Unsubscribe
    <3> QED
      BY <1>1, <3>1, LossSend
  <2> QED
    BY <2>1, <2>2
<1>4. CASE Call(d)
  <2>1. /\ CanSend /\ Sends(Frame(nextFrameId, "call", d))
        /\ pending' = pending \cup {Pending(nextFrameId, "call", d)} /\ subs' = subs
    BY <1>4 DEF Call
  <2> QED
    BY <1>1, <2>1, LossSend
<1> QED
  BY <1>2, <1>3, <1>4

\* _resubscribeAll asks for every channel of the map.
LEMMA LossOpen ==
    ASSUME RPCTypes, NEW k \in Conn, Open(k)
    PROVE  IdsApart' /\ \A c \in subs' : Confirmed(c)'
<1> DEFINE n == Cardinality(subs)
<1>1. PICK order \in [1..n -> subs] :
          /\ \A i, j \in 1..n : order[i] = order[j] => i = j
          /\ in' = [in EXCEPT ![k] = [i \in 1..n |-> Frame(i, "sub", order[i])]]
          /\ pending' = {Pending(i, "resub", order[i]) : i \in 1..n}
  BY DEF Open
<1>2. n \in Nat
  BY FS_CardinalityType DEF RPCTypes, ClientTypes
<1>3. \A c \in subs : \E i \in 1..n : order[i] = c
  <2>1. order \in Injection(1..n, subs)
    BY <1>1 DEF Injection, IsInjective
  <2>2. Cardinality(1..n) = n
    BY <1>2, FS_Interval
  <2>3. order \in Surjection(1..n, subs)
    BY <2>1, <2>2, FS_Injection DEF RPCTypes, ClientTypes
  <2> QED
    BY <2>3 DEF Surjection
<1>4. /\ conn' = k /\ subs' = subs /\ may' = may /\ out' = out /\ out[k] = <<>> /\ server' = server
      /\ authz' = authz /\ revoking' = revoking /\ working' = working
      /\ authz[k] = {} /\ revoking[k] = {} /\ working[k] = {}
  BY DEF Open
<1> HIDE DEF n
<1>5. /\ Len(in'[k]) = n /\ \A i \in 1..n : in'[k][i] = Frame(i, "sub", order[i])
  BY <1>1, <1>2 DEF RPCTypes, WireTypes
<1>6. Held(conn)' = {} /\ FramesIn(out[k]) = {}
  BY <1>4 DEF Held, FramesIn
<1>7. \A i \in 1..n : /\ Frame(i, "sub", order[i]).id = i /\ Frame(i, "sub", order[i]).type = "sub"
                      /\ Frame(i, "sub", order[i]).ch = order[i]
                      /\ Pending(i, "resub", order[i]).id = i
                      /\ Pending(i, "resub", order[i]).ch = order[i]
                      /\ Asking(Pending(i, "resub", order[i]))
  BY DEF Frame, Pending, Asking
<1>8. FramesIn(in'[k]) = {Frame(i, "sub", order[i]) : i \in 1..n}
  BY <1>5 DEF FramesIn
<1>9. ASSUME NEW p \in pending' PROVE Apart(p, in'[k], {}, working[k], out[k])
  <2>1. PICK i \in 1..n : p = Pending(i, "resub", order[i])
    BY <1>1
  <2>2. \A f \in FramesIn(in'[k]) : f.id = p.id => IsSub(f, p.ch)
    BY <1>7, <1>8, <2>1 DEF IsSub
  <2> QED
    BY <1>4, <1>6, <2>2 DEF Apart
<1>10. IdsApart'
  BY <1>4, <1>6, <1>9, Zenon DEF IdsApart
<1>11. ASSUME NEW c \in subs PROVE Confirmed(c)'
  <2>1. PICK i \in 1..n : order[i] = c
    BY <1>3
  <2>2. \A j \in 1..n : ~IsUnsub(in'[k][j], c)
    BY <1>5, <1>7 DEF IsUnsub
  <2>3. IsSub(in'[k][i], c)
    BY <1>5, <1>7, <2>1 DEF IsSub
  <2>4. Subscribing(c, in'[k], server[k], authz[k])
    BY <1>5, <2>2, <2>3 DEF Subscribing, SubLast
  <2>5. Answering(Pending(i, "resub", c), in'[k], {}, out[k])
    <3>1. Frame(i, "sub", c) \in FramesIn(in'[k])
      BY <1>8, <2>1
    <3> QED
      BY <1>7, <2>1, <3>1 DEF Answering, IsSub
  <2>6. /\ Pending(i, "resub", c) \in pending' /\ Asking(Pending(i, "resub", c))
        /\ Pending(i, "resub", c).ch = c
    BY <1>1, <1>7, <2>1
  <2> QED
    BY <1>4, <1>6, <2>4, <2>5, <2>6, Zenon DEF Confirmed
<1> QED
  BY <1>4, <1>10, <1>11

\* A Steady authorize changes its answer only while the channel is quiet.
LEMMA LossRegrant ==
    ASSUME RPCTypes, Steady, conn \in link, LinksLive, IdsApart, \A c \in subs : Confirmed(c),
           may \in [Channel -> {"yes", "no", "throws"}], NEW d \in Channel, Regrant(d)
    PROVE  IdsApart' /\ \A c \in subs' : Confirmed(c)'
<1>1. /\ UNCHANGED <<conn, subs, pending, in, out, server, authz, revoking, working>>
      /\ Requested(d) = {} /\ conn \in Conn
      /\ \A c \in Channel \ {d} : may'[c] = may[c]
  BY DEF Regrant, clientVars, serverVars, LinksLive
<1>2. Held(conn)' = Held(conn)
  BY <1>1 DEF Held
<1>3. IdsApart'
  BY <1>1, <1>2, Zenon DEF IdsApart
<1>4. \A f \in FramesIn(in[conn]) \cup FramesIn(out[conn]) \cup Held(conn) : f.ch # d
  BY <1>1, NothingRequested DEF Held
<1>5. Confirmed(d) => /\ Subscribing(d, in[conn], server[conn], authz[conn])
                      /\ Settles(d, in[conn], server[conn], authz[conn])
  <2>1. ~SubLast(in[conn], d)
    BY <1>4 DEF SubLast, FramesIn, IsSub
  <2>2. \A p \in pending : p.ch = d => ~Answering(p, in[conn], Held(conn), out[conn])
    BY <1>4 DEF Answering, IsSub
  <2>3. \A f \in authz[conn] : f.ch # d
    BY <1>4 DEF Held
  <2>4. /\ \A f \in FramesIn(in[conn]) : ~IsSub(f, d) /\ ~IsUnsub(f, d)
        /\ NoUnsub(in[conn], d)
    BY <1>4 DEF IsSub, IsUnsub, NoUnsub
  <2>5. Confirmed(d) => d \in server[conn]
    BY <2>1, <2>2, <2>3 DEF Confirmed, Subscribing, Settles
  <2> QED
    BY <2>3, <2>4, <2>5 DEF Subscribing, Settles
<1>6. ASSUME NEW c \in subs PROVE Confirmed(c)'
  <2>1. CASE c = d
    <3>1. /\ Subscribing(d, in[conn], server[conn], authz[conn])
          /\ Settles(d, in[conn], server[conn], authz[conn])
      BY <1>5, <2>1
    <3> QED
      BY <1>1, <2>1, <3>1, Zenon DEF Confirmed
  <2>2. CASE c # d
    <3>1. may'[c] = may[c] /\ Confirmed(c)
      BY <1>1, <2>2 DEF RPCTypes, ClientTypes
    <3> QED
      BY <1>1, <1>2, <3>1, Zenon DEF Confirmed
  <2> QED
    BY <2>1, <2>2
<1> QED
  BY <1>1, <1>3, <1>6

LEMMA LossStep ==
    ASSUME RPCTypes, LossInv, Steady, [RPCNext]_rpcVars
    PROVE  LossInv'
<1> DEFINE Kept == IdsApart' /\ \A c \in subs' : Confirmed(c)'
<1>0. LinksLive' /\ AcksMeanYes'
  BY LinksStep, AcksStep DEF LossInv
<1> SUFFICES ASSUME conn' \in link' PROVE Kept
  BY <1>0 DEF LossInv
<1>1. ASSUME NEW k \in Conn, Open(k) PROVE Kept
  BY <1>1, LossOpen
<1>2. ASSUME UNCHANGED <<may, in, out, server, authz, revoking, working, clientVars>>, conn \in link
      PROVE  Kept
  BY <1>2, OtherConnection DEF LossInv, clientVars
<1>3. ASSUME NEW k \in Conn, Break(k) PROVE Kept
  BY <1>2, <1>3 DEF Break, clientVars, serverVars
<1>4. ASSUME NEW k \in Conn, ServerClose(k) PROVE Kept
  <2>1. /\ UNCHANGED <<may, out, authz, revoking, working, clientVars, link>> /\ k \notin link
        /\ \A j \in Conn \ {k} : in'[j] = in[j] /\ server'[j] = server[j]
    BY <1>4 DEF ServerClose, RPCTypes, WireTypes, ServerTypes
  <2>2. conn \in link /\ conn \in Conn \ {k}
    BY <2>1 DEF clientVars, LossInv, LinksLive
  <2> QED
    BY <2>1, <2>2, OtherConnection DEF LossInv
<1>5. CASE ClientClose
  <2>1. conn' = NoConn /\ UNCHANGED link
    BY <1>5 DEF ClientClose
  <2> QED
    BY <2>1, ChannelsAssumption DEF LossInv, LinksLive
<1>6. ASSUME UNCHANGED <<conn, link>>
      PROVE  /\ conn \in link /\ LinksLive /\ AcksMeanYes /\ IdsApart /\ \A c \in subs : Confirmed(c)
             /\ may \in [Channel -> {"yes", "no", "throws"}] /\ link \subseteq Conn
  BY <1>6 DEF LossInv, AcksMeanYes, LinksLive
<1>7. ASSUME NEW c \in Channel, Subscribe(c) \/ Unsubscribe(c) \/ Call(c) PROVE Kept
  <2>1. UNCHANGED <<conn, link>>
    BY <1>7 DEF Subscribe, Unsubscribe, Call
  <2> QED
    BY <1>6, <1>7, <2>1, LossApplication
<1>8. ASSUME NEW c \in Channel, Regrant(c) PROVE Kept
  <2>1. UNCHANGED <<conn, link>>
    BY <1>8 DEF Regrant, clientVars
  <2> QED
    BY <1>6, <1>8, <2>1, LossRegrant
<1>9. CASE (\E p \in pending : Timeout(p)) \/ Dispatch
  <2>1. UNCHANGED <<conn, link>>
    BY <1>9 DEF Timeout, Dispatch, DispatchResult, DispatchSubscribed, DispatchUnsubscribed
  <2> QED
    BY <1>6, <1>9, <2>1, LossClient
<1>10. CASE Accept \/ \E id \in Ids : HookReturns(id)
  <2>1. UNCHANGED conn
    BY <1>10, ServerLeavesClient DEF clientVars
  <2>2. UNCHANGED link
    <3>1. ASSUME NEW k, HandleSubscribe(k) \/ HandleUnsubscribe(k) \/ HandleCall(k) \/ RefusePublish(k)
          PROVE  UNCHANGED link
      BY <3>1 DEF HandleSubscribe, HandleUnsubscribe, HandleCall, RefusePublish
    <3>2. ASSUME NEW k, NEW f,
                 \/ Authorized(k, f) \/ Refused(k, f) \/ AuthorizeThrew(k, f)
                 \/ AuthorizedTooLate(k, f) \/ Revoked(k, f) \/ HandlerDone(k, f)
          PROVE  UNCHANGED link
      BY <3>2 DEF Authorized, Refused, AuthorizeThrew, AuthorizedTooLate, Revoked, HandlerDone
    <3> QED
      BY <1>10, <3>1, <3>2, Zenon DEF Accept, HookReturns
  <2> QED
    BY <1>6, <1>10, <2>1, <2>2, LossAccept, LossHook
<1>11. CASE UNCHANGED rpcVars
  BY <1>2, <1>6, <1>11 DEF rpcVars, clientVars, serverVars
<1> QED
  BY <1>1, <1>3, <1>4, <1>5, <1>7, <1>8, <1>9, <1>10, <1>11 DEF RPCNext

\* No subscription is lost without a word, however requests time out and
\* connections are replaced (Client's _resubscribeAll, _dispatchSubAck and
\* _handleResubscribeFailure, Server's _handleSubscribe), as long as
\* authorize gives one answer to all frames of a channel that are under way
\* together.
THEOREM NoSilentLossHolds ==
    ASSUME Steady
    PROVE  RPCSpec => []NoSilentLoss
<1>1. RPCInit => LossInv
  <2> SUFFICES ASSUME RPCInit PROVE LossInv
    OBVIOUS
  <2>1. link = {} /\ may \in [Channel -> {"yes", "no", "throws"}]
        /\ \A k \in Conn : FramesIn(out[k]) = {}
    BY DEF RPCInit, FramesIn
  <2> QED
    BY <2>1 DEF LossInv, LinksLive, AcksMeanYes
<1>2. RPCTypes /\ LossInv /\ [RPCNext]_rpcVars => (RPCTypes /\ LossInv)'
  BY TypesStep, LossStep
<1>3. LossInv => NoSilentLoss
  <2> SUFFICES ASSUME LossInv, NEW c \in subs, conn \in link, Quiet(conn, c)
               PROVE  c \in server[conn]
    BY DEF NoSilentLoss
  <2>1. ~SubLast(in[conn], c) /\ \A f \in authz[conn] : f.ch # c
    BY DEF Quiet, SubLast, IsSub, FramesIn
  <2>2. \A p \in pending : Asking(p) => p.ch # c
    BY DEF Quiet, Asking
  <2> QED
    BY <2>1, <2>2, Zenon DEF LossInv, Confirmed, Subscribing, Settles
<1> QED
  BY <1>1, <1>2, <1>3, TypesInit, PTL DEF RPCSpec
=============================================================================
