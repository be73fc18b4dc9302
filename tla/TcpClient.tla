------------------------------ MODULE TcpClient ------------------------------
(***************************************************************************)
(* leanet::TcpClient (src/leanet/tcpclient.cc) and its Connector           *)
(* (connector.cc) on their EventLoop: the connect state machine with its   *)
(* channel, its retry timer and the functors it queues, the client that    *)
(* takes over the connected socket and reconnects, and user code on the    *)
(* loop's thread and on one other thread that connects, disconnects, stops *)
(* and at last destroys the client.                                        *)
(*                                                                         *)
(* A connection is here only up or gone: module TcpConnection says what    *)
(* happens in between.  The loop is that of module EventLoop: it polls,    *)
(* dispatches, and runs the functors of one swap before it polls again.    *)
(* A timer may expire at any poll, but that of the destructor, a second,   *)
(* outlasts two turns of the loop.  A failed assertion ends the program.   *)
(***************************************************************************)
EXTENDS Naturals, Sequences, FiniteSets

CONSTANTS
    kInitRetryDelayMs, kMaxRetryDelayMs,
    MaxConnects,      \* bound: calls of connect()
    MaxStops          \* bound: calls of stop()

ASSUME ClientAssumption ==
    /\ kInitRetryDelayMs \in Nat /\ kMaxRetryDelayMs \in Nat
    /\ kInitRetryDelayMs <= kMaxRetryDelayMs
    /\ MaxConnects \in Nat /\ MaxStops \in Nat

VARIABLES
    want,          \* Connector::connected_
    state,         \* Connector::state_
    channel,       \* Connector::channel_ is not null
    registered,    \* that channel is in the Poller, its socket open
    timers,        \* retry timers that have not expired
    delay,         \* Connector::retryDelayMs_
    clientWant,    \* TcpClient::connected_
    retryOn,       \* TcpClient::retry_, set before connect()
    connection,    \* TcpClient::connection_ is not null; at last, the one it left
    client,        \* "alive", or "gone": its destructor has returned
    detached,      \* the connection's close callback is detail::removeConnection
    lingering,     \* polls at which the destructor's timer, with connector_, is left
    phase,         \* where the loop is: "poll", "dispatch", "functors"
    events,        \* what the loop still has to dispatch, in order
    pending,       \* the loop's pendingFunctors_, those of these two classes
    batch,         \* the functors of the last swap, still to be run
    call,          \* what the other thread is in the middle of
    connects, stops,   \* history: calls so far
    stopped,       \* history: the last of connect() and stop() was stop()
    raced,         \* history: a stop() or the destructor came in the middle of
                   \* another call
    hasty,         \* history: connect() or the destructor of a client with a
                   \* connection met what earlier calls had left
    gaveUp,        \* history: the last connect(2) failed for good
    failed         \* history: lines whose assertion failed

attemptVars == <<state, channel, registered, timers, delay>>
connectorVars == <<want, attemptVars>>
lifetime == <<client, detached, lingering>>
clientVars == <<clientWant, retryOn, connection, lifetime>>
calls == <<connects, stops, stopped>>
history == <<calls, raced, hasty, gaveUp, failed>>
vars == <<connectorVars, clientVars, phase, events, pending, batch, call, history>>

Init ==
    /\ want = FALSE
    /\ state = "disconnected"
    /\ channel = FALSE
    /\ registered = FALSE
    /\ timers = 0
    /\ delay = kInitRetryDelayMs
    /\ clientWant = TRUE
    /\ retryOn \in BOOLEAN
    /\ connection = FALSE
    /\ client = "alive"
    /\ detached = FALSE
    /\ lingering = 0
    /\ phase = "poll"
    /\ events = <<>>
    /\ pending = <<>>
    /\ batch = <<>>
    /\ call = "none"
    /\ connects = 0 /\ stops = 0
    /\ stopped = FALSE
    /\ raced = FALSE /\ hasty = FALSE
    /\ gaveUp = FALSE
    /\ failed = {}

Smaller(a, b) == IF a < b THEN a ELSE b
Less(n) == IF n = 0 THEN 0 ELSE n - 1

(* A failed assertion has not ended the program.                           *)
Alive == failed = {}

(* f is what the loop runs next.                                           *)
Running(f) ==
    /\ Alive
    /\ \/ phase = "dispatch" /\ events # <<>> /\ Head(events) = f
       \/ phase = "functors" /\ batch # <<>> /\ Head(batch) = f

-----------------------------------------------------------------------------
(* Connector, on the loop's thread.                                        *)

(* Mutation: the next attempt is never scheduled.                          *)
retryNever(w, d, t) ==
    /\ state' = "disconnected"
    /\ timers' = t
    /\ delay' = d

(* retry, of a Connector with connected_ w, retryDelayMs_ d and t timers.  *)
retry(w, d, t) ==
    /\ state' = "disconnected"
    /\ timers' = t + (IF w THEN 1 ELSE 0)
    /\ delay' = IF w THEN Smaller(2 * d, kMaxRetryDelayMs) ELSE d

(* connect(2) is in progress or done: a channel waits for the outcome.     *)
connecting(d, t) ==
    /\ state' = "connecting"
    /\ failed' = IF channel THEN failed \union {108} ELSE failed
    /\ channel' = TRUE
    /\ registered' = TRUE
    /\ timers' = t
    /\ delay' = d
    /\ gaveUp' = FALSE

(* connect: connect(2) may be in progress, fail for now or fail for good.  *)
connect(w, d, t) ==
    \/ connecting(d, t)
    \/ /\ retry(w, d, t)
       /\ gaveUp' = FALSE
       /\ UNCHANGED <<channel, registered, failed>>
    \/ /\ gaveUp' = TRUE
       /\ state' = "disconnected"
       /\ timers' = t
       /\ delay' = d
       /\ UNCHANGED <<channel, registered, failed>>

(* startInLoop, of a Connector in state s.                                 *)
startInLoop(s, w, d, t) ==
    \/ /\ s = "disconnected"
       /\ w
       /\ connect(w, d, t)
    \/ /\ s # "disconnected" \/ ~w
       /\ failed' = IF s = "disconnected" THEN failed ELSE failed \union {42}
       /\ state' = s
       /\ timers' = t
       /\ delay' = d
       /\ UNCHANGED <<channel, registered, gaveUp>>

(* Mutation: nothing destroys the channel afterwards.                      *)
removeAndKeepChannel ==
    /\ registered' = FALSE
    /\ UNCHANGED <<channel, pending>>

(* The channel leaves the Poller; a functor destroys it, since the call    *)
(* may come from its own handleEvent.                                      *)
removeAndResetChannel ==
    /\ registered' = FALSE
    /\ pending' = Append(pending, "resetChannel")
    /\ UNCHANGED channel

(* handleError; handleWrite with an error or a self-connection; stopInLoop *)
(* of a Connector that is connecting.                                      *)
dropAttempt ==
    /\ state = "connecting"
    /\ removeAndResetChannel
    /\ retry(want, delay, timers)
    /\ UNCHANGED <<connection, failed>>

(* The client makes a connection of the socket and establishes it.         *)
newConnection == connection' = TRUE

(* Mutation: the socket is handed over without asking connected_.          *)
finishAttemptAnyway ==
    /\ state = "connecting"
    /\ removeAndResetChannel
    /\ state' = "connected"
    /\ newConnection
    /\ UNCHANGED <<timers, delay, failed>>

(* handleWrite without an error: the client takes the socket, or, after a  *)
(* stop(), it is closed.                                                   *)
finishAttempt ==
    /\ state = "connecting"
    /\ removeAndResetChannel
    /\ state' = "connected"
    /\ IF want THEN newConnection ELSE UNCHANGED connection
    /\ UNCHANGED <<timers, delay, failed>>

-----------------------------------------------------------------------------
(* The loop.                                                               *)

(* A poll reports, in the order of the poll array: the timer's descriptor, *)
(* the outcome of the attempt (POLLERR before POLLOUT), and that the peer  *)
(* has closed the connection.                                              *)
Poll ==
    /\ Alive
    /\ phase = "poll"
    /\ phase' = "dispatch"
    /\ \E expired \in {<<>>} \union (IF timers > 0 THEN {<<"timer">>} ELSE {}),
          outcome \in {<<>>} \union
              (IF registered THEN {<<"write">>, <<"error", "write">>} ELSE {}),
          closed \in {<<>>} \union (IF connection THEN {<<"close">>} ELSE {}) :
           events' = expired \o outcome \o closed
    /\ lingering' \in (IF lingering = 1 THEN {0, 1} ELSE {Less(lingering)})
    /\ UNCHANGED <<connectorVars, clientWant, retryOn, connection, client, detached,
                   pending, batch, call, history>>

SwapFunctors ==
    /\ Alive
    /\ phase = "dispatch"
    /\ events = <<>>
    /\ phase' = "functors"
    /\ batch' = pending
    /\ pending' = <<>>
    /\ UNCHANGED <<connectorVars, clientVars, events, call, history>>

FinishBatch ==
    /\ Alive
    /\ phase = "functors"
    /\ batch = <<>>
    /\ phase' = "poll"
    /\ UNCHANGED <<connectorVars, clientVars, events, pending, batch, call, history>>

NextEvent ==
    /\ events' = Tail(events)
    /\ UNCHANGED <<phase, batch, clientWant, retryOn, lifetime, call, calls, hasty>>

NextFunctor ==
    /\ batch' = Tail(batch)
    /\ UNCHANGED <<phase, events, clientWant, retryOn, connection, client, lingering,
                   call, calls, raced, hasty>>

(* The assertions of ~TcpConnection, of a connection that is up and that   *)
(* user code need not hold, and of ~Connector.                             *)
Release(unclosed, withChannel) ==
    \E held \in BOOLEAN :
        failed' = failed \union (IF unclosed /\ ~held THEN {55} ELSE {})
                         \union (IF withChannel THEN {23} ELSE {})

Destroying == {"destroy1", "destroy2", "destroy3", "detach"}
Usable == client = "alive" /\ call \notin Destroying

(* The timer that retry() has started.                                     *)
RunTimer ==
    /\ Running("timer")
    /\ startInLoop(state, want, delay, timers - 1)
    /\ NextEvent
    /\ UNCHANGED <<want, connection, pending, raced>>

handleWrite ==
    /\ Running("write")
    /\ \/ dropAttempt
       \/ finishAttempt
       \/ /\ state # "connecting"
          /\ failed' = IF state = "disconnected" THEN failed
                                                 ELSE failed \union {161}
          /\ UNCHANGED <<attemptVars, pending, connection>>
    /\ raced' = (raced \/ (connection' # connection /\ ~Usable))
    /\ NextEvent
    /\ UNCHANGED <<want, gaveUp>>

handleError ==
    /\ Running("error")
    /\ \/ dropAttempt
       \/ /\ state # "connecting"
          /\ UNCHANGED <<attemptVars, pending, connection, failed>>
    /\ NextEvent
    /\ UNCHANGED <<want, raced, gaveUp>>

(* The connection's close callback: TcpClient::removeConnection, up to the *)
(* test of retry_ && connected_, or detail::removeConnection.              *)
removeConnection ==
    /\ Running("close")
    /\ connection' = FALSE
    /\ pending' = Append(pending, "connectDestroyed")
    /\ events' = IF retryOn /\ clientWant /\ ~detached
                 THEN <<"restart">> \o Tail(events)
                 ELSE Tail(events)
    /\ raced' = (raced \/ (~Usable /\ ~detached))
    /\ UNCHANGED <<connectorVars, clientWant, retryOn, lifetime, phase, batch, call,
                   calls, hasty, gaveUp, failed>>

(* Connector::restart, after that test.                                    *)
restart ==
    /\ Running("restart")
    /\ want' = TRUE
    /\ raced' = (raced \/ ~clientWant \/ ~Usable)
    /\ startInLoop("disconnected", TRUE, kInitRetryDelayMs, timers)
    /\ NextEvent
    /\ UNCHANGED <<connection, pending>>

RunStartInLoop ==
    /\ Running("startInLoop")
    /\ startInLoop(state, want, delay, timers)
    /\ NextFunctor
    /\ UNCHANGED <<want, detached, pending>>

stopInLoop ==
    /\ Running("stopInLoop")
    /\ \/ dropAttempt
       \/ state # "connecting" /\ UNCHANGED <<attemptVars, pending, failed>>
    /\ NextFunctor
    /\ UNCHANGED <<want, detached, gaveUp>>

resetChannel ==
    /\ Running("resetChannel")
    /\ channel' = FALSE
    /\ NextFunctor
    /\ UNCHANGED <<want, detached, state, registered, timers, delay, pending, gaveUp, failed>>

(* Module TcpConnection says what it does to the connection.               *)
RunConnectDestroyed ==
    /\ Running("connectDestroyed")
    /\ NextFunctor
    /\ UNCHANGED <<connectorVars, detached, pending, gaveUp, failed>>

(* The functor that the destructor queues when it runs on another thread.  *)
(* It may hold the last reference to the connection.                       *)
setCloseCallback ==
    /\ Running("setCloseCallback")
    /\ detached' = TRUE
    /\ Release(connection, FALSE)
    /\ NextFunctor
    /\ UNCHANGED <<connectorVars, pending, gaveUp>>

-----------------------------------------------------------------------------
(* User code.  It calls connect() first, and again only once it has called *)
(* stop() or its connection is gone.                                       *)

MayConnect ==
    /\ Alive /\ Usable
    /\ connects < MaxConnects
    /\ \/ connects = 0
       \/ stopped
       \/ state = "connected" /\ ~connection

InsideStop == call \in {"stop1", "stop2"}
InsideConnect == call \in {"connect1", "connect2"}
Queued(f) == \E i \in DOMAIN (pending \o batch) : (pending \o batch)[i] = f

(* An earlier connect() or stop() has not had its whole effect: a functor, *)
(* a channel or a retry timer is left, or the state of a connection that   *)
(* is gone.                                                                *)
LeftOver ==
    \/ call # "none" \/ Queued("startInLoop") \/ Queued("stopInLoop")
    \/ channel \/ timers > 0 \/ state # "disconnected"

(* User code on the loop's thread runs in callbacks, and before loop(),    *)
(* never between the two halves of removeConnection.                       *)
InCallback == ~Running("restart")

ConnectHere ==
    /\ MayConnect
    /\ InCallback
    /\ connects' = connects + 1
    /\ stopped' = FALSE
    /\ hasty' = (hasty \/ LeftOver)
    /\ clientWant' = TRUE
    /\ want' = TRUE
    /\ startInLoop(state, TRUE, delay, timers)
    /\ UNCHANGED <<retryOn, connection, lifetime, phase, events, pending, batch, call, stops,
                   raced>>

StopHere ==
    /\ Alive /\ Usable
    /\ stops < MaxStops
    /\ InCallback
    /\ stops' = stops + 1
    /\ stopped' = TRUE
    /\ raced' = (raced \/ InsideConnect)
    /\ clientWant' = FALSE
    /\ want' = FALSE
    /\ pending' = Append(pending, "stopInLoop")
    /\ UNCHANGED <<attemptVars, retryOn, connection, lifetime, phase, events, batch, call,
                   connects, hasty, gaveUp, failed>>

(* disconnect(), on either thread: the shutdown is TcpConnection's.        *)
Disconnect ==
    /\ Alive /\ Usable
    /\ clientWant
    /\ connects > 0
    /\ clientWant' = FALSE
    /\ UNCHANGED <<connectorVars, retryOn, connection, lifetime, phase, events, pending,
                   batch, call, history>>

(* The other thread: TcpClient::connected_, Connector::connected_, then    *)
(* the functor.                                                            *)
BeginConnect ==
    /\ call = "none"
    /\ MayConnect
    /\ connects' = connects + 1
    /\ stopped' = FALSE
    /\ hasty' = (hasty \/ LeftOver)
    /\ clientWant' = TRUE
    /\ call' = "connect1"
    /\ UNCHANGED <<connectorVars, retryOn, connection, lifetime, phase, events, pending,
                   batch, stops, raced, gaveUp, failed>>

BeginStop ==
    /\ Alive /\ Usable
    /\ call = "none"
    /\ stops < MaxStops
    /\ stops' = stops + 1
    /\ clientWant' = FALSE
    /\ call' = "stop1"
    /\ UNCHANGED <<connectorVars, retryOn, connection, lifetime, phase, events, pending,
                   batch, connects, stopped, raced, hasty, gaveUp, failed>>

SetWant ==
    /\ Alive
    /\ \/ call = "connect1" /\ want' = TRUE /\ call' = "connect2"
       \/ call = "stop1" /\ want' = FALSE /\ call' = "stop2"
       \/ call = "destroy1" /\ want' = FALSE /\ call' = "destroy2"
    /\ UNCHANGED <<attemptVars, clientVars, phase, events, pending, batch, history>>

QueueStart ==
    /\ Alive
    /\ call = "connect2"
    /\ pending' = Append(pending, "startInLoop")
    /\ call' = "none"
    /\ UNCHANGED <<connectorVars, clientVars, phase, events, batch, history>>

QueueStop ==
    /\ Alive
    /\ \/ call = "stop2" /\ call' = "none"
       \/ call = "destroy2" /\ call' = "destroy3"
    /\ pending' = Append(pending, "stopInLoop")
    /\ stopped' = TRUE
    /\ UNCHANGED <<connectorVars, clientVars, phase, events, batch, connects, stops,
                   raced, hasty, gaveUp, failed>>

(* A connector that is destroyed with its client leaves its functors, and  *)
(* they hold a raw pointer.                                                *)
ConnectorBusy ==
    \/ channel
    \/ \E f \in {"startInLoop", "stopInLoop", "resetChannel"} : Queued(f)

(* Mutation: the connection's close callback stays the client's.           *)
DestroyAttached ==
    /\ Alive /\ Usable
    /\ call = "none" /\ InCallback
    /\ client' = "gone"
    /\ IF connection
       THEN /\ hasty' = (hasty \/ ConnectorBusy)
            /\ Release(TRUE, channel /\ timers = 0)
            /\ UNCHANGED <<want, pending, detached, lingering, stopped>>
       ELSE /\ want' = FALSE
            /\ pending' = Append(pending, "stopInLoop")
            /\ lingering' = 3
            /\ stopped' = TRUE
            /\ UNCHANGED <<detached, hasty, failed>>
    /\ UNCHANGED <<attemptVars, clientWant, retryOn, connection, phase, events, batch,
                   call, connects, stops, raced, gaveUp>>

(* ~TcpClient on the loop's thread: the connection gets another close      *)
(* callback; without one the connector is stopped, and kept for a second.  *)
DestroyHere ==
    /\ Alive /\ Usable
    /\ call = "none" /\ InCallback
    /\ client' = "gone"
    /\ IF connection
       THEN /\ detached' = TRUE
            /\ hasty' = (hasty \/ ConnectorBusy)
            /\ Release(TRUE, channel /\ timers = 0)
            /\ UNCHANGED <<want, pending, lingering, stopped>>
       ELSE /\ want' = FALSE
            /\ pending' = Append(pending, "stopInLoop")
            /\ lingering' = 3
            /\ stopped' = TRUE
            /\ UNCHANGED <<detached, hasty, failed>>
    /\ UNCHANGED <<attemptVars, clientWant, retryOn, connection, phase, events, batch,
                   call, connects, stops, raced, gaveUp>>

(* On the other thread it reads connection_ first.                         *)
BeginDestroy ==
    /\ Alive /\ Usable
    /\ call = "none"
    /\ call' = IF connection THEN "detach" ELSE "destroy1"
    /\ UNCHANGED <<connectorVars, clientVars, phase, events, pending, batch, history>>

Detach ==
    /\ Alive
    /\ call = "detach"
    /\ pending' = Append(pending, "setCloseCallback")
    /\ Release(FALSE, channel /\ timers = 0)
    /\ hasty' = (hasty \/ ConnectorBusy)
    /\ client' = "gone"
    /\ call' = "none"
    /\ UNCHANGED <<connectorVars, clientWant, retryOn, connection, detached, lingering,
                   phase, events, batch, calls, raced, gaveUp>>

Linger ==
    /\ Alive
    /\ call = "destroy3"
    /\ lingering' = 3
    /\ client' = "gone"
    /\ call' = "none"
    /\ UNCHANGED <<connectorVars, clientWant, retryOn, connection, detached, phase, events,
                   pending, batch, history>>

LoopNext ==
    \/ Poll \/ SwapFunctors \/ FinishBatch
    \/ RunTimer \/ handleWrite \/ handleError \/ removeConnection \/ restart
    \/ RunStartInLoop \/ stopInLoop \/ resetChannel \/ RunConnectDestroyed
    \/ setCloseCallback

UserNext ==
    \/ ConnectHere \/ StopHere \/ Disconnect
    \/ BeginConnect \/ BeginStop \/ SetWant \/ QueueStart \/ QueueStop
    \/ DestroyHere \/ BeginDestroy \/ Detach \/ Linger

Next == LoopNext \/ UserNext

Spec == Init /\ [][Next]_vars

-----------------------------------------------------------------------------
(* Properties.                                                             *)

Functors == {"startInLoop", "stopInLoop", "resetChannel", "connectDestroyed",
             "setCloseCallback"}
EventNames == {"timer", "error", "write", "close", "restart"}

(* The variables keep their types; in particular the delay of retry()      *)
(* stays between its two bounds.                                           *)
TypeOK ==
    /\ want \in BOOLEAN
    /\ state \in {"disconnected", "connecting", "connected"}
    /\ channel \in BOOLEAN
    /\ registered \in BOOLEAN
    /\ timers \in Nat
    /\ delay \in kInitRetryDelayMs .. kMaxRetryDelayMs
    /\ clientWant \in BOOLEAN
    /\ retryOn \in BOOLEAN
    /\ connection \in BOOLEAN
    /\ client \in {"alive", "gone"}
    /\ detached \in BOOLEAN
    /\ lingering \in 0 .. 3
    /\ phase \in {"poll", "dispatch", "functors"}
    /\ events \in Seq(EventNames)
    /\ pending \in Seq(Functors)
    /\ batch \in Seq(Functors)
    /\ call \in {"none", "connect1", "connect2", "stop1", "stop2"}
             \union Destroying
    /\ connects \in 0 .. MaxConnects
    /\ stops \in 0 .. MaxStops
    /\ stopped \in BOOLEAN
    /\ raced \in BOOLEAN /\ hasty \in BOOLEAN
    /\ gaveUp \in BOOLEAN
    /\ failed \subseteq {23, 42, 55, 108, 161}

(* Connector: no assertion of startInLoop, connecting or handleWrite       *)
(* fails, the channel is in the Poller exactly while state_ is             *)
(* kConnecting, and the functor that destroys a channel never meets the    *)
(* next attempt's.  The exceptions: a stop() from another thread in the    *)
(* middle of a restart(), and a connect() before everything that earlier   *)
(* calls started is over, which the caller cannot know.  The types, and    *)
(* the bounds of the retry delay, are checked along with it.               *)
OneAttempt ==
    /\ TypeOK
    /\ ~raced /\ ~hasty =>
          /\ failed \subseteq {23, 55}
          /\ registered <=> state = "connecting"
          /\ registered => channel

(* What will make the next attempt, or is making it.                       *)
Count(x, s) == Cardinality({i \in DOMAIN s : s[i] = x})
One(condition) == IF condition THEN 1 ELSE 0

Attempts ==
    One(registered) + timers
    + Count("startInLoop", pending) + Count("startInLoop", batch)
    + One(call = "connect2") + Count("restart", events)

(* Connector: a client that wants a connection and has none, and whose     *)
(* connect(2) has not failed for good, has exactly one attempt under way:  *)
(* a channel that waits, a retry timer, or a call of startInLoop to come.  *)
KeepsTrying ==
    /\ client = "alive" /\ want /\ ~gaveUp /\ ~hasty /\ failed = {}
    /\ state = "connected" => ~connection
    =>
        Attempts = One(state # "connected" \/ Count("restart", events) > 0)

(* TcpClient::stop: once it has returned and its functor has run, no       *)
(* attempt is under way; and from its return on, no attempt becomes a      *)
(* connection, even if connect(2) had succeeded by then.  It takes calls   *)
(* that do not overlap: a stop() in the middle of a restart() or of a      *)
(* connect() (raced) may be overwritten, and a connect() that did not wait *)
(* for the end of what was started before (hasty) may start a second one.  *)
StopIsFinal ==
    [][stopped /\ ~raced /\ ~hasty /\ ~InsideConnect =>
          /\ connection' => connection
          /\ ~Queued("stopInLoop") => state # "connecting"]_vars

(* ~TcpClient, with a connection and without: nothing that is left of the  *)
(* client calls it or its connector once they are destroyed.  The          *)
(* connection has another close callback or is about to get it, connector_ *)
(* is stopped, and it dies when its functors have run and its channel is   *)
(* gone.  The exceptions: the destructor runs on another thread while the  *)
(* loop makes or loses the connection, or another call overlapped (raced); *)
(* a client that has a connection is destroyed while functors of           *)
(* connector_ are queued (hasty), or is the only one to hold the           *)
(* connection, or its connector_ still has a channel (failed).             *)
ConnectorGone == client = "gone" /\ lingering = 0 /\ timers = 0

DestroyedIsNotCalled ==
    client = "gone" /\ ~raced /\ ~hasty /\ failed = {} =>
        /\ connection => detached \/ Queued("setCloseCallback")
        /\ want => state = "connected"
        /\ ConnectorGone => ~registered /\ ~ConnectorBusy
=============================================================================
