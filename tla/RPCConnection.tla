--------------------------- MODULE RPCConnection ---------------------------
(***************************************************************************)
(* The connection of one rpc client (packages/rpc/Client.ts): connect,     *)
(* close, a socket that breaks, and the backoff that replaces it.          *)
(*                                                                         *)
(* Each step is one task of the event loop with the continuations it       *)
(* resolves, except for a parked backoff that a call wakes: the rest of    *)
(* the caller's task comes before it (`woken`), and no event does.         *)
(* A socket name that is unused stands for a new socket.                   *)
(***************************************************************************)
EXTENDS Integers

CONSTANTS Socket, NoSocket,
          MaxAttempts,    \* reconnect.maxAttempts
          AwaitsClose     \* nobody calls connect() before close() resolved

ASSUME ConnectionAssumption ==
    NoSocket \notin Socket /\ MaxAttempts \in Nat \ {0} /\ AwaitsClose \in BOOLEAN

VARIABLES state,          \* _state
          ws,             \* _ws
          sock,           \* what each socket is doing
          opener,         \* whose _openSocket it is
          closeRequested, \* _closeRequested
          attempt,        \* _reconnectAttempt
          parked,         \* calls of _scheduleReconnect that wait for their delay
          woken,          \* ... whose wait was cancelled, about to go on
          owed            \* a lost connection is to be replaced

connVars == <<state, ws, sock, opener, closeRequested, attempt, parked, woken, owed>>

ConnInit ==
    /\ state = "DISCONNECTED" /\ ws = NoSocket
    /\ sock = [s \in Socket |-> "unused"] /\ opener = [s \in Socket |-> "connect"]
    /\ closeRequested = FALSE /\ attempt = 0
    /\ parked = 0 /\ woken = 0 /\ owed = FALSE

---------------------------------------------------------------------------
\* _openSocket up to the first event of the socket
OpenSocket(who) ==
    \E s \in Socket : /\ sock[s] = "unused"
                      /\ sock' = [sock EXCEPT ![s] = "connecting"]
                      /\ opener' = [opener EXCEPT ![s] = who]
                      /\ ws' = s /\ state' = "CONNECTING"

\* _scheduleReconnect: give up, or sleep
ScheduleReconnect(owes) ==
    \/ /\ attempt >= MaxAttempts
       /\ owed' = FALSE
       /\ UNCHANGED <<attempt, parked>>
    \/ /\ attempt < MaxAttempts
       /\ attempt' = attempt + 1 /\ parked' = parked + 1
       /\ owed' = owes

NoReconnect == UNCHANGED <<attempt, parked, owed>>

\* _clearReconnectTimer
ClearReconnectTimer == woken' = woken + parked /\ parked' = 0

---------------------------------------------------------------------------
(* The application.                                                        *)

Closing == \E s \in Socket : sock[s] \in {"closing", "aborting"}

Connect ==
    /\ state \notin {"CONNECTED", "CONNECTING"}
    /\ AwaitsClose => ~Closing
    /\ closeRequested' = FALSE
    /\ ClearReconnectTimer
    /\ OpenSocket(IF parked > 0 THEN "superseding" ELSE "connect")
    /\ UNCHANGED <<attempt, owed>>

\* close(), up to the await of the close event
Close ==
    /\ state # "CLOSING"
    /\ closeRequested' = TRUE /\ owed' = FALSE
    /\ ClearReconnectTimer
    /\ \/ /\ state = "DISCONNECTED"
          /\ ws' = NoSocket
          /\ UNCHANGED <<state, sock>>
       \/ /\ state # "DISCONNECTED"
          /\ state' = "CLOSING"
          /\ sock' = [sock EXCEPT ![ws] = IF @ = "open" THEN "closing" ELSE "aborting"]
          /\ UNCHANGED ws
    /\ UNCHANGED <<opener, attempt>>

---------------------------------------------------------------------------
(* Events of the sockets.                                                  *)

\* onOpen
Opened(s) ==
    /\ woken = 0 /\ sock[s] = "connecting"
    /\ sock' = [sock EXCEPT ![s] = "open"]
    /\ state' = "CONNECTED" /\ attempt' = 0 /\ owed' = FALSE
    /\ UNCHANGED <<ws, opener, closeRequested, parked, woken>>

\* mutant: a failed connect() leaves the backoff it superseded cancelled
CaughtWithoutRearm(s) ==
    IF opener[s] = "chain" THEN ScheduleReconnect(owed) ELSE NoReconnect

\* what the caller of _openSocket does when it rejects: the backoff goes on,
\* and so does the one a connect() superseded
Caught(s) ==
    IF opener[s] = "chain" \/ (opener[s] = "superseding" /\ ~closeRequested)
    THEN ScheduleReconnect(owed) ELSE NoReconnect

\* onErrorBeforeOpen
OpenFailed(s) ==
    /\ woken = 0 /\ sock[s] = "connecting"
    /\ sock' = [sock EXCEPT ![s] = "unused"]
    /\ state' = "DISCONNECTED"
    /\ Caught(s)
    /\ UNCHANGED <<ws, opener, closeRequested, woken>>

\* _handleClose, on a socket that broke, and on one that close() closed,
\* whose rest then runs
HandleClose(s) ==
    /\ woken = 0 /\ sock[s] \in {"open", "closing"}
    /\ sock' = [sock EXCEPT ![s] = "unused"]
    /\ ws' = NoSocket /\ state' = "DISCONNECTED"
    /\ IF ~closeRequested /\ state = "CONNECTED"
       THEN ScheduleReconnect(TRUE) ELSE NoReconnect
    /\ UNCHANGED <<opener, closeRequested, woken>>

\* close() during the opening: onErrorBeforeOpen, then the rest of close()
Aborted(s) ==
    /\ woken = 0 /\ sock[s] = "aborting"
    /\ sock' = [sock EXCEPT ![s] = "unused"]
    /\ ws' = NoSocket /\ state' = "DISCONNECTED"
    /\ Caught(s)
    /\ UNCHANGED <<opener, closeRequested, woken>>

---------------------------------------------------------------------------
(* The backoff.                                                            *)

\* mutant: a backoff that wakes does not ask whether somebody connected
GoOnBlindly ==
    \/ /\ closeRequested
       /\ UNCHANGED <<state, ws, sock, opener>>
    \/ /\ ~closeRequested
       /\ OpenSocket("chain")

\* the rest of _scheduleReconnect after its sleep
GoOn ==
    \/ /\ closeRequested \/ state \in {"CONNECTED", "CONNECTING"}
       /\ UNCHANGED <<state, ws, sock, opener>>
    \/ /\ ~closeRequested /\ state \notin {"CONNECTED", "CONNECTING"}
       /\ OpenSocket("chain")

TimerFires ==
    /\ woken = 0 /\ parked > 0
    /\ parked' = parked - 1
    /\ GoOn
    /\ UNCHANGED <<closeRequested, attempt, woken, owed>>

Woken ==
    /\ woken > 0
    /\ woken' = woken - 1
    /\ GoOn
    /\ UNCHANGED <<closeRequested, attempt, parked, owed>>

---------------------------------------------------------------------------
ConnNext ==
    \/ Connect \/ Close \/ TimerFires \/ Woken
    \/ \E s \in Socket : Opened(s) \/ OpenFailed(s) \/ HandleClose(s) \/ Aborted(s)

\* Timers fire, continuations run and a socket that is opening opens or fails.
ConnFairness ==
    /\ WF_connVars(TimerFires) /\ WF_connVars(Woken)
    /\ \A s \in Socket : WF_connVars(Opened(s) \/ OpenFailed(s))

ConnSpec == ConnInit /\ [][ConnNext]_connVars /\ ConnFairness

---------------------------------------------------------------------------
(* Properties.                                                             *)

\* One socket (the comment in _scheduleReconnect, "two live sockets wired to
\* this Client"): a socket that is opening or open is the one the client
\* uses, its state says so, no second backoff is under way beside it, and
\* there is none once close() has resolved.
OneSocket ==
    /\ \A s \in Socket :
           /\ sock[s] = "connecting" => ws = s /\ state = "CONNECTING"
           /\ sock[s] = "open" => ws = s /\ state = "CONNECTED"
           /\ sock[s] \in {"connecting", "open"} => ~closeRequested /\ parked = 0
    /\ parked <= 1

\* A lost connection is replaced, given up after maxAttempts or no longer
\* wanted, however often connect() is called in between and fails (the
\* comment in connect(), "strands the client DISCONNECTED forever").
ReconnectSettles == owed ~> ~owed
=============================================================================
