---------------------------- MODULE RPCChannels ----------------------------
(***************************************************************************)
(* Subscriptions and requests of one rpc client (packages/rpc/Client.ts)   *)
(* at a server (packages/rpc/Server.ts), over connections that break and   *)
(* are replaced.  A connection carries frames in order in each direction;  *)
(* when it breaks, each side still gets a prefix of what was sent to it    *)
(* and then its close event, in its own time.  The server does not wait    *)
(* for the handler of one frame before it starts the next.                 *)
(*                                                                         *)
(* Frame ids and connections are names: one that nothing refers to any     *)
(* more stands for a new one, so neither bounds the length of a run.       *)
(* One part of the application uses each channel: it awaits subscribe()    *)
(* before it calls unsubscribe(), and that before it subscribes again.     *)
(***************************************************************************)
EXTENDS Integers, Sequences, FiniteSets, FiniteSetsExt

CONSTANTS Channel,    \* channels with an authorize hook and an onPublish hook
          Conn,       \* names of connections
          NoConn,     \* the client is DISCONNECTED
          Timers,     \* requests have a timeout (timeoutMs > 0)
          Ids,        \* names of frames on a connection, a set of numbers
          Steady      \* authorize changes its answer for a channel only while
                      \* nothing about that channel is under way

ASSUME ChannelsAssumption ==
    /\ NoConn \notin Conn /\ Ids \subseteq Nat /\ IsFiniteSet(Ids)
    /\ {Timers, Steady} \subseteq BOOLEAN

VARIABLES may,            \* what authorize answers, per channel, or that it throws
          conn,           \* the client's connection, NoConn when DISCONNECTED
          link,           \* connections that carry frames
          subs,           \* _subscriptions of the client
          app,            \* where the user of each channel is
          calling,        \* a command() or publish() is awaited
          pending,        \* _pending
          pendingUnsubs,  \* _pendingUnsubs
          in, out,        \* frames under way to the server, to the client
          live,           \* connections the server has a state for
          server,         \* their subscriptions
          authz,          \* sub frames whose authorize is awaited
          revoking,       \* sub frames refused, whose onUnsubscribe is awaited
          working,        \* cmd and pub frames whose handler is awaited
          presence        \* onSubscribe calls less onUnsubscribe calls

clientVars == <<conn, subs, app, calling, pending, pendingUnsubs>>
serverVars == <<live, server, authz, revoking, working, presence>>
rpcVars == <<may, link, in, out, clientVars, serverVars>>

RPCInit ==
    /\ may = [c \in Channel |-> "yes"]
    /\ conn = NoConn /\ link = {}
    /\ subs = {} /\ app = [c \in Channel |-> "none"] /\ calling = FALSE
    /\ pending = {} /\ pendingUnsubs = {}
    /\ in = [k \in Conn |-> <<>>] /\ out = [k \in Conn |-> <<>>]
    /\ live = {}
    /\ server = [k \in Conn |-> {}]
    /\ authz = [k \in Conn |-> {}] /\ revoking = [k \in Conn |-> {}]
    /\ working = [k \in Conn |-> {}]
    /\ presence = [k \in Conn |-> [c \in Channel |-> 0]]

---------------------------------------------------------------------------
Frame(id, type, c) == [id |-> id, type |-> type, ch |-> c]
Reply(id, type, ok, c) == [id |-> id, type |-> type, ok |-> ok, ch |-> c]

IdsOf(fs) == {f.id : f \in fs}
FramesIn(s) == {s[i] : i \in 1..Len(s)}

\* an id nothing on this connection refers to (_nextFrameId)
UsedIds(k) == IdsOf(FramesIn(in[k]) \cup FramesIn(out[k]) \cup pending
                      \cup authz[k] \cup revoking[k] \cup working[k]) \cup pendingUnsubs
nextFrameId == Min(Ids \ UsedIds(conn))
CanSend == conn # NoConn /\ Ids \ UsedIds(conn) # {}

\* _writeFrame throws on a socket that is no longer open
Sends(f) == in' = [in EXCEPT ![conn] = Append(@, f)]
\* what the server sends on a broken socket is lost
SendsBack(k, f) == out' = IF k \in link THEN [out EXCEPT ![k] = Append(@, f)] ELSE out

Pending(id, kind, c) == [id |-> id, kind |-> kind, ch |-> c]

\* what is under way about a channel: sub frames and their answers
Requested(c) ==
    {f \in UNION {FramesIn(in[k]) \cup FramesIn(out[k]) \cup authz[k] \cup revoking[k]
                     : k \in Conn} : f.ch = c}

---------------------------------------------------------------------------
(* The connection.                                                         *)

\* mutant: the new connection gets no sub frames
OpenQuietly(k) ==
    /\ conn = NoConn
    /\ k \notin live \cup link
    /\ in[k] = <<>> /\ out[k] = <<>>
    /\ authz[k] \cup revoking[k] \cup working[k] = {}
    /\ conn' = k /\ link' = link \cup {k} /\ live' = live \cup {k}
    /\ pending' = {}
    /\ UNCHANGED <<may, in, out, subs, app, calling, pendingUnsubs, server,
                   authz, revoking, working, presence>>

\* _openSocket's open event: a new connection, on which _resubscribeAll
\* sends a sub frame for every channel of the map, in the map's order.
Open(k) ==
    LET n == Cardinality(subs) IN
    /\ conn = NoConn
    /\ k \notin live \cup link
    /\ in[k] = <<>> /\ out[k] = <<>>
    /\ authz[k] \cup revoking[k] \cup working[k] = {}
    /\ conn' = k /\ link' = link \cup {k} /\ live' = live \cup {k}
    /\ \E order \in {s \in [1..n -> subs] : \A i, j \in 1..n : s[i] = s[j] => i = j} :
           /\ in' = [in EXCEPT ![k] = [i \in 1..n |-> Frame(i, "sub", order[i])]]
           /\ pending' = {Pending(i, "resub", order[i]) : i \in 1..n}
    /\ UNCHANGED <<may, out, subs, app, calling, pendingUnsubs, server,
                   authz, revoking, working, presence>>

\* The connection breaks: nothing more is sent on it.
Break(k) ==
    /\ k \in link
    /\ link' = link \ {k}
    /\ UNCHANGED <<may, in, out, clientVars, serverVars>>

\* The channels whose subscription goes when the requests in ps fail: the
\* catch of subscribe(), and _handleResubscribeFailure, which tells the user
\* through onSubscriptionError unless there is nothing left to drop.
Dropped(ps) == {p.ch : p \in {q \in ps : \/ q.kind = "sub"
                                         \/ q.kind = "resub" /\ q.ch \in subs}}
\* Their users' calls settle, and an unsubscribe() does not throw.
Settled(ps) ==
    [c \in Channel |-> IF c \in Dropped(ps) \cup {p.ch : p \in {q \in ps : q.kind = "unsub"}}
                       THEN "none" ELSE app[c]]
\* A subscribe() that rejects forgets its own request.
Forgotten(ps) == ps \cup {p \in pending : p.kind = "sub" /\ p.ch \in Dropped(ps)}

\* mutant: what is pending is forgotten, not rejected
ClientCloseSilently ==
    /\ conn # NoConn /\ conn \notin link
    /\ conn' = NoConn
    /\ out' = [out EXCEPT ![conn] = <<>>]
    /\ pending' = {} /\ pendingUnsubs' = {}
    /\ UNCHANGED <<may, link, in, subs, app, calling, serverVars>>

\* The close event at the client, with what had not arrived by then lost:
\* _handleClose and what its rejections run.
ClientClose ==
    /\ conn # NoConn /\ conn \notin link
    /\ conn' = NoConn
    /\ out' = [out EXCEPT ![conn] = <<>>]
    /\ subs' = subs \ Dropped(pending)
    /\ app' = Settled(pending)
    /\ calling' = FALSE
    /\ pending' = {} /\ pendingUnsubs' = {}
    /\ UNCHANGED <<may, link, in, serverVars>>

\* the close event at the server: _handleClose
ServerClose(k) ==
    /\ k \in live /\ k \notin link
    /\ live' = live \ {k}
    /\ in' = [in EXCEPT ![k] = <<>>]
    /\ server' = [server EXCEPT ![k] = {}]
    /\ presence' = [presence EXCEPT ![k] =
                        [c \in Channel |-> IF c \in server[k] THEN @[c] - 1 ELSE @[c]]]
    /\ UNCHANGED <<may, link, out, clientVars, authz, revoking, working>>

---------------------------------------------------------------------------
(* The application.                                                        *)

Subscribe(c) ==
    /\ app[c] = "none" /\ CanSend /\ conn \in link
    /\ c \notin subs
    /\ Sends(Frame(nextFrameId, "sub", c))
    /\ subs' = subs \cup {c}
    /\ app' = [app EXCEPT ![c] = "subscribing"]
    /\ pending' = pending \cup {Pending(nextFrameId, "sub", c)}
    /\ UNCHANGED <<may, link, out, conn, calling, pendingUnsubs, serverVars>>

\* the handle's unsubscribe, with the frame sent, refused by the socket, or
\* not needed because the client is disconnected or the channel is gone
Unsubscribe(c) ==
    /\ app[c] = "held"
    /\ subs' = subs \ {c}
    /\ \/ /\ c \in subs /\ CanSend /\ conn \in link
          /\ Sends(Frame(nextFrameId, "unsub", c))
          /\ pendingUnsubs' = pendingUnsubs \cup {nextFrameId}
          /\ pending' = pending \cup {Pending(nextFrameId, "unsub", c)}
          /\ app' = [app EXCEPT ![c] = "leaving"]
       \/ /\ c \notin subs \/ conn = NoConn \/ conn \notin link
          /\ app' = [app EXCEPT ![c] = "none"]
          /\ UNCHANGED <<in, pending, pendingUnsubs>>
    /\ UNCHANGED <<may, link, out, conn, calling, serverVars>>

\* command() and publish()
Call(c) ==
    /\ ~calling /\ CanSend /\ conn \in link
    /\ Sends(Frame(nextFrameId, "call", c))
    /\ calling' = TRUE
    /\ pending' = pending \cup {Pending(nextFrameId, "call", c)}
    /\ UNCHANGED <<may, link, out, conn, subs, app, pendingUnsubs, serverVars>>

\* mutant: the id of a timed-out unsub is forgotten
TimeoutForgetsUnsub(p) ==
    /\ Timers /\ p \in pending
    /\ pending' = pending \ Forgotten({p})
    /\ subs' = subs \ Dropped({p})
    /\ app' = Settled({p})
    /\ calling' = (calling /\ p.kind # "call")
    /\ pendingUnsubs' = pendingUnsubs \ {p.id}
    /\ UNCHANGED <<may, link, in, out, conn, serverVars>>

\* REQUEST_TIMEOUT: the id of an unsub stays in _pendingUnsubs
Timeout(p) ==
    /\ Timers /\ p \in pending
    /\ pending' = pending \ Forgotten({p})
    /\ subs' = subs \ Dropped({p})
    /\ app' = Settled({p})
    /\ calling' = (calling /\ p.kind # "call")
    /\ UNCHANGED <<may, link, in, out, conn, pendingUnsubs, serverVars>>

---------------------------------------------------------------------------
(* The client's dispatch of a frame from the server.                       *)

Received == Head(out[conn])
Takes == conn # NoConn /\ out[conn] # <<>> /\ out' = [out EXCEPT ![conn] = Tail(@)]
Answered == {p \in pending : p.id = Received.id}

DispatchResult ==
    /\ Takes /\ Received.type = "result"
    /\ pending' = pending \ (IF Received.ok THEN Answered ELSE Forgotten(Answered))
    /\ subs' = IF Received.ok THEN subs ELSE subs \ Dropped(Answered)
    /\ app' = IF Received.ok THEN app ELSE Settled(Answered)
    /\ calling' = (calling /\ \A p \in Answered : p.kind # "call")
    /\ UNCHANGED <<may, link, in, conn, pendingUnsubs, serverVars>>

\* A channel of the map is acknowledged by any subscribed frame for it; the
\* subscribe() that waits then forgets its own request.
DispatchSubscribed ==
    /\ Takes /\ Received.type = "subscribed"
    /\ \/ /\ Received.ch \notin subs
          /\ UNCHANGED <<pending, app>>
       \/ /\ Received.ch \in subs
          /\ app' = [app EXCEPT ![Received.ch] = IF @ = "subscribing" THEN "held" ELSE @]
          /\ pending' = pending \ (Answered \cup
                            {p \in pending : p.kind = "sub" /\ p.ch = Received.ch})
    /\ UNCHANGED <<may, link, in, conn, subs, calling, pendingUnsubs, serverVars>>

DispatchUnsubscribed ==
    /\ Takes /\ Received.type = "unsubscribed"
    /\ \/ /\ Received.id \in pendingUnsubs
          /\ pendingUnsubs' = pendingUnsubs \ {Received.id}
          /\ pending' = pending \ Answered
          /\ app' = Settled(Answered)
          /\ UNCHANGED subs
       \/ /\ Received.id \notin pendingUnsubs
          /\ subs' = subs \ {Received.ch}
          /\ UNCHANGED <<pending, pendingUnsubs, app>>
    /\ UNCHANGED <<may, link, in, conn, calling, serverVars>>

---------------------------------------------------------------------------
(* The server's handlers.                                                  *)

Arrived(k) == Head(in[k])
Accepts(k) == k \in live /\ in[k] # <<>> /\ in' = [in EXCEPT ![k] = Tail(@)]

\* _handleSubscribe up to the await of authorize
HandleSubscribe(k) ==
    /\ Accepts(k) /\ Arrived(k).type = "sub"
    /\ authz' = [authz EXCEPT ![k] = @ \cup {Arrived(k)}]
    /\ UNCHANGED <<may, link, out, clientVars, live, server, revoking,
                   working, presence>>

\* authorize resolved, on a connection that is still there
Authorized(k, f) ==
    /\ f \in authz[k] /\ k \in live /\ may[f.ch] = "yes"
    /\ authz' = [authz EXCEPT ![k] = @ \ {f}]
    /\ server' = [server EXCEPT ![k] = @ \cup {f.ch}]
    /\ presence' = [presence EXCEPT ![k][f.ch] = IF f.ch \in server[k] THEN @ ELSE @ + 1]
    /\ SendsBack(k, Reply(f.id, "subscribed", TRUE, f.ch))
    /\ UNCHANGED <<may, link, in, clientVars, live, revoking, working>>

\* authorize said no: a subscription the connection had is dropped first
Refused(k, f) ==
    /\ f \in authz[k] /\ k \in live /\ may[f.ch] = "no"
    /\ authz' = [authz EXCEPT ![k] = @ \ {f}]
    /\ server' = [server EXCEPT ![k] = @ \ {f.ch}]
    /\ \/ /\ f.ch \in server[k]
          /\ presence' = [presence EXCEPT ![k][f.ch] = @ - 1]
          /\ revoking' = [revoking EXCEPT ![k] = @ \cup {f}]
          /\ UNCHANGED out
       \/ /\ f.ch \notin server[k]
          /\ SendsBack(k, Reply(f.id, "result", FALSE, f.ch))
          /\ UNCHANGED <<presence, revoking>>
    /\ UNCHANGED <<may, link, in, clientVars, live, working>>

\* its onUnsubscribe returned: FORBIDDEN
Revoked(k, f) ==
    /\ f \in revoking[k]
    /\ revoking' = [revoking EXCEPT ![k] = @ \ {f}]
    /\ SendsBack(k, Reply(f.id, "result", FALSE, f.ch))
    /\ UNCHANGED <<may, link, in, clientVars, live, server, authz, working, presence>>

\* authorize threw: AUTHZ_ERROR
AuthorizeThrew(k, f) ==
    /\ f \in authz[k] /\ may[f.ch] = "throws"
    /\ authz' = [authz EXCEPT ![k] = @ \ {f}]
    /\ SendsBack(k, Reply(f.id, "result", FALSE, f.ch))
    /\ UNCHANGED <<may, link, in, clientVars, live, server, revoking, working, presence>>

\* authorize resolved on a connection that closed meanwhile
AuthorizedTooLate(k, f) ==
    /\ f \in authz[k] /\ k \notin live /\ may[f.ch] # "throws"
    /\ authz' = [authz EXCEPT ![k] = @ \ {f}]
    /\ UNCHANGED <<may, link, in, out, clientVars, live, server, revoking,
                   working, presence>>
\* mutant: onUnsubscribe fires for a stray unsub too
HandleUnsubscribeAlwaysFires(k) ==
    LET f == Arrived(k) IN
    /\ Accepts(k) /\ f.type = "unsub"
    /\ server' = [server EXCEPT ![k] = @ \ {f.ch}]
    /\ presence' = [presence EXCEPT ![k][f.ch] = @ - 1]
    /\ SendsBack(k, Reply(f.id, "unsubscribed", TRUE, f.ch))
    /\ UNCHANGED <<may, link, clientVars, live, authz, revoking, working>>

HandleUnsubscribe(k) ==
    LET f == Arrived(k) IN
    /\ Accepts(k) /\ f.type = "unsub"
    /\ server' = [server EXCEPT ![k] = @ \ {f.ch}]
    /\ presence' = [presence EXCEPT ![k][f.ch] = IF f.ch \in server[k] THEN @ - 1 ELSE @]
    /\ SendsBack(k, Reply(f.id, "unsubscribed", TRUE, f.ch))
    /\ UNCHANGED <<may, link, clientVars, live, authz, revoking, working>>

\* a command, or a publish of a subscriber, goes to the application's handler
HandleCall(k) ==
    /\ Accepts(k) /\ Arrived(k).type = "call"
    /\ working' = [working EXCEPT ![k] = @ \cup {Arrived(k)}]
    /\ UNCHANGED <<may, link, out, clientVars, live, server, authz, revoking, presence>>

\* NOT_SUBSCRIBED
RefusePublish(k) ==
    /\ Accepts(k) /\ Arrived(k).type = "call" /\ Arrived(k).ch \notin server[k]
    /\ SendsBack(k, Reply(Arrived(k).id, "result", FALSE, Arrived(k).ch))
    /\ UNCHANGED <<may, link, clientVars, serverVars>>

\* the handler returned or threw; there is a result either way
HandlerDone(k, f) ==
    /\ f \in working[k]
    /\ working' = [working EXCEPT ![k] = @ \ {f}]
    /\ \E ok \in BOOLEAN : SendsBack(k, Reply(f.id, "result", ok, f.ch))
    /\ UNCHANGED <<may, link, in, clientVars, live, server, authz, revoking, presence>>

\* What authorize answers for the channel changes.
Regrant(c) ==
    /\ Steady => Requested(c) = {}
    /\ \E answer \in {"yes", "no", "throws"} \ {may[c]} : may' = [may EXCEPT ![c] = answer]
    /\ UNCHANGED <<link, in, out, clientVars, serverVars>>

---------------------------------------------------------------------------
Dispatch == DispatchResult \/ DispatchSubscribed \/ DispatchUnsubscribed

Accept == \E k \in Conn : HandleSubscribe(k) \/ HandleUnsubscribe(k)
                              \/ HandleCall(k) \/ RefusePublish(k)
\* the hook or the handler that works on the frame with this id returns
HookReturns(id) ==
    \E k \in Conn :
        \/ \E f \in authz[k] : /\ f.id = id
                               /\ Authorized(k, f) \/ Refused(k, f) \/ AuthorizeThrew(k, f)
                                     \/ AuthorizedTooLate(k, f)
        \/ \E f \in revoking[k] : f.id = id /\ Revoked(k, f)
        \/ \E f \in working[k] : f.id = id /\ HandlerDone(k, f)

RPCNext ==
    \/ \E k \in Conn : Open(k) \/ Break(k) \/ ServerClose(k)
    \/ ClientClose
    \/ \E c \in Channel : Subscribe(c) \/ Unsubscribe(c) \/ Call(c) \/ Regrant(c)
    \/ \E p \in pending : Timeout(p)
    \/ Dispatch
    \/ Accept
    \/ \E id \in Ids : HookReturns(id)

\* Frames arrive, or the client sees a broken connection close; and every hook
\* and handler returns.  No timeout is needed.
RPCFairness ==
    /\ WF_rpcVars(Dispatch \/ ClientClose \/ Accept)
    /\ \A id \in Ids : WF_rpcVars(HookReturns(id))

RPCSpec == RPCInit /\ [][RPCNext]_rpcVars /\ RPCFairness

---------------------------------------------------------------------------
(* Properties.                                                             *)

\* A subscription lasts until its user gives it up or is told that it is
\* gone (unsubscribe(), a rejected subscribe(), onSubscriptionError): from
\* subscribe() on the channel is in the client's map, whatever acks and
\* timeouts of earlier subscriptions and unsubscriptions still arrive.
HandleBacked == \A c \in Channel : app[c] \in {"subscribing", "held"} => c \in subs

\* Nothing about channel c is under way on connection k.
Quiet(k, c) ==
    /\ \A f \in FramesIn(in[k]) \cup FramesIn(out[k]) \cup authz[k] \cup revoking[k] :
           f.ch # c
    /\ \A p \in pending : p.kind = "call" \/ p.ch # c

\* No subscription is lost without a word (_resubscribeAll, the refusal of
\* _handleSubscribe): when a channel is quiet, a client that has it in its
\* map is subscribed at the server, on the connection it uses now.
NoSilentLoss ==
    \A c \in subs : conn \in link /\ Quiet(conn, c) => c \in server[conn]

\* A subscription its user holds and the server confirmed has no
\* resubscription timer left that would report it as failed: an ack settles
\* the request it answers (the comment in _dispatchSubAck).
NoFalseFailure ==
    Timers => \A p \in pending :
        ~ /\ p.kind = "resub" /\ app[p.ch] = "held"
          /\ conn \in link /\ p.ch \in server[conn] /\ Requested(p.ch) = {}

\* The channel hooks pair up (the comments in _handleSubscribe and
\* _handleUnsubscribe): onSubscribe was called once more than onUnsubscribe
\* where a connection is subscribed, as often where it is not, and a closed
\* connection is subscribed to nothing.
PresenceBalanced ==
    \A k \in Conn : /\ k \notin live => server[k] = {}
                    /\ \A c \in Channel : presence[k][c] = IF c \in server[k] THEN 1 ELSE 0

\* Every call settles without the help of a timer: the server answers each
\* frame it gets exactly once or the connection closes, which rejects what
\* is pending (_rejectAllPending).
CallsSettle ==
    /\ \A c \in Channel : app[c] \in {"subscribing", "leaving"}
                              ~> app[c] \notin {"subscribing", "leaving"}
    /\ calling ~> ~calling
=============================================================================
