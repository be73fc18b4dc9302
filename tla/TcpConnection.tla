---------------------------- MODULE TcpConnection ----------------------------
(***************************************************************************)
(* leanet::TcpConnection (src/leanet/tcpconnection.cc) on its EventLoop:   *)
(* the connection's state_, its channel's interest, the output buffer and  *)
(* the functors that it queues; the owner that removes it when it closes;  *)
(* user code on the loop's thread and on one other thread, which send and  *)
(* shut down; and the socket with its peer.                                *)
(*                                                                         *)
(* The loop is that of module EventLoop: it polls, dispatches, and runs    *)
(* the functors of one swap before it polls again.  The output buffer is   *)
(* the sequence of bytes that module Buffer implements.  Assertions are    *)
(* compiled out; those that fail are recorded by their line.               *)
(***************************************************************************)
EXTENDS Naturals, Sequences, FiniteSets

CONSTANTS
    MaxSends,         \* bound: number of messages
    MessageLen,       \* bytes in a message
    Room,             \* what the kernel's send buffer takes
    HighWaterMark     \* highWaterMark_

ASSUME ConnectionAssumption ==
    /\ MaxSends \in Nat /\ MessageLen \in Nat \ {0}
    /\ Room \in Nat \ {0} /\ HighWaterMark \in Nat

VARIABLES
    state,         \* state_
    interest,      \* the channel's interestedEvents_
    registered,    \* the channel is in the Poller
    output,        \* outputBuffer_
    phase,         \* where the loop is: "poll", "dispatch", "functors"
    revents,       \* handlers that handleEvent still has to call, in order
    pending,       \* the loop's pendingFunctors_, those of this connection
    batch,         \* the functors of the last swap, still to be run
    owner,         \* the client's or server's pointer to the connection
    user,          \* the other thread: its pointer and the call it is in
    peer,          \* "open", "closed" (it sent FIN) or "reset"
    inData,        \* bytes from the peer wait to be read
    soError,       \* the socket's pending error
    room,          \* free bytes in the kernel's send buffer
    fin,           \* the write side of the socket is shut down
    wire,          \* history: bytes written to the socket
    sends,         \* history: number of calls of send()
    raced,         \* history: the other thread acted on an outdated state_
    failed,        \* history: lines whose assertion failed
    late           \* history: the channel or the object was used too late

loopVars == <<phase, revents, batch>>
peerVars == <<peer, inData>>
vars == <<state, interest, registered, output, loopVars, pending, owner, user,
          peerVars, soError, room, fin, wire, sends, raced, failed, late>>

(* The k-th message: bytes that no other message has.                      *)
Message(k) == [i \in 1..MessageLen |-> (k - 1) * MessageLen + i]

NoCall == [at |-> "idle", msg |-> 0]

Functor(call, msg) == [call |-> call, msg |-> msg]

Init ==
    /\ state = "connecting"
    /\ interest = {}
    /\ registered = FALSE
    /\ output = <<>>
    /\ phase = "functors"
    /\ revents = <<>>
    /\ pending = <<>>
    /\ batch = <<>>
    /\ owner = TRUE
    /\ user = [holds |-> FALSE, call |-> NoCall]
    /\ peer = "open"
    /\ inData = FALSE
    /\ soError = FALSE
    /\ room = Room
    /\ fin = FALSE
    /\ wire = <<>>
    /\ sends = 0
    /\ raced = FALSE
    /\ failed = {}
    /\ late = FALSE

isWriting == "write" \in interest

Open == state \in {"connected", "disconnecting"}

(* A TcpConnectionPtr to the object exists: the owner's, the user's, or    *)
(* the one bound in a functor.                                             *)
Exists(functors) ==
    \/ owner
    \/ user.holds
    \/ \E i \in DOMAIN functors :
          functors[i].call \in {"connectDestroyed", "writeComplete", "highWaterMark"}

-----------------------------------------------------------------------------
(* The calls, as the loop's thread makes them.                             *)

connectEstablished ==
    /\ state = "connecting"
    /\ state' = "connected"
    /\ interest' = {"read"}
    /\ registered' = TRUE
    /\ \E holds \in BOOLEAN : user' = [user EXCEPT !.holds = holds]
    /\ UNCHANGED <<output, loopVars, pending, owner, peerVars, soError, room,
                   fin, wire, sends, raced, failed, late>>

(* What one write(2) of n bytes may take; 0 stands for an error.  A        *)
(* pending error is reported, and is no longer pending then.               *)
Written(n) ==
    IF fin \/ peer = "reset" \/ room = 0 THEN {0}
    ELSE {k \in 1..n : k <= room}

If(condition, functor) == IF condition THEN <<functor>> ELSE <<>>

(* Mutation: written directly although bytes wait in the output buffer.    *)
CanWriteDirectlyAlways == TRUE

CanWriteDirectly == ~isWriting /\ output = <<>>

(* Mutation: the rest is buffered and POLLOUT is not asked for.            *)
InterestNotSet(rest) == interest

InterestAfterSend(rest) ==
    IF rest = <<>> THEN interest ELSE interest \union {"write"}

(* sendInLoop: write what the socket takes, append the rest.  No error     *)
(* makes it give up: the test for EPIPE is inside the one for EWOULDBLOCK. *)
sendInLoop(data) ==
    \E n \in IF CanWriteDirectly THEN Written(Len(data)) ELSE {0} :
        LET rest == SubSeq(data, n + 1, Len(data))
        IN  /\ wire' = wire \o SubSeq(data, 1, n)
            /\ room' = room - n
            /\ soError' = (soError /\ ~CanWriteDirectly)
            /\ output' = output \o rest
            /\ interest' = InterestAfterSend(rest)
            /\ pending' = pending
                  \o If(rest = <<>>, Functor("writeComplete", 0))
                  \o If(/\ rest # <<>>
                        /\ Len(output) + Len(rest) >= HighWaterMark
                        /\ Len(output) < HighWaterMark,
                        Functor("highWaterMark", 0))
            /\ late' = (late \/ (rest # <<>> /\ ~registered))

shutdownInLoop ==
    fin' = (fin \/ ~isWriting)

(* Mutation: the functor does not keep the connection.                     *)
handleCloseUnbound ==
    /\ state' = "disconnected"
    /\ interest' = {}
    /\ owner' = FALSE
    /\ failed' = failed \union (IF Open THEN {} ELSE {123})
    /\ UNCHANGED pending

(* handleClose, with the close callback: the owner drops its pointer and   *)
(* queues connectDestroyed.                                                *)
handleClose ==
    /\ state' = "disconnected"
    /\ interest' = {}
    /\ owner' = FALSE
    /\ pending' = Append(pending, Functor("connectDestroyed", 0))
    /\ failed' = failed \union (IF Open THEN {} ELSE {123})

(* read(2): data, or the pending error, or the end of the stream.          *)
handleRead ==
    /\ inData' = FALSE
    /\ soError' = (soError /\ inData)
    /\ IF ~inData /\ ~soError /\ peer # "open"
       THEN handleClose
       ELSE UNCHANGED <<state, interest, owner, pending, failed>>
    /\ UNCHANGED <<output, room, fin, wire>>

(* Mutation: the interest in POLLOUT outlives the last byte.               *)
InterestKept(rest) == interest

InterestAfterWrite(rest) ==
    IF rest = <<>> THEN interest \ {"write"} ELSE interest

(* Mutation: a connection that is shutting down is left half open.         *)
FinAfterWriteNever(rest) == fin

(* shutdownInLoop, once nothing is left to write.                          *)
FinAfterWrite(rest) == fin \/ (rest = <<>> /\ state = "disconnecting")

handleWrite ==
    /\ \E n \in IF isWriting THEN Written(Len(output)) ELSE {0} :
          LET rest == SubSeq(output, n + 1, Len(output))
          IN  /\ wire' = wire \o SubSeq(output, 1, n)
              /\ output' = rest
              /\ room' = room - n
              /\ soError' = (soError /\ ~isWriting)
              /\ IF n = 0
                 THEN UNCHANGED <<interest, pending, fin>>
                 ELSE /\ interest' = InterestAfterWrite(rest)
                      /\ pending' = pending
                            \o If(rest = <<>>, Functor("writeComplete", 0))
                      /\ fin' = FinAfterWrite(rest)
    /\ UNCHANGED <<state, owner, inData, failed>>

(* getsockopt(2) clears the pending error.                                 *)
handleError ==
    /\ soError' = FALSE
    /\ UNCHANGED <<state, interest, output, pending, owner, inData, room, fin,
                   wire, failed>>

-----------------------------------------------------------------------------
(* The loop.                                                               *)

Readable == "read" \in interest /\ (inData \/ soError \/ peer # "open")

Writable == isWriting /\ (room > 0 \/ fin \/ peer = "reset")

HangUp == peer = "reset" \/ (peer = "closed" /\ fin)

(* What poll reports, in the order in which handleEvent tests it.          *)
Events ==
    IF ~registered \/ interest = {} THEN <<>>
    ELSE If(HangUp /\ ~Readable, "close") \o If(soError, "error")
            \o If(Readable, "read") \o If(Writable, "write")

(* poll returns for this channel, for another one, or for its timeout.     *)
Poll ==
    /\ phase = "poll"
    /\ phase' = "dispatch"
    /\ revents' = Events
    /\ UNCHANGED <<state, interest, registered, output, pending, batch, owner,
                   user, peerVars, soError, room, fin, wire, sends, raced,
                   failed, late>>

(* The next of the handlers that the reported events call for.             *)
handleEvent ==
    /\ phase = "dispatch"
    /\ revents # <<>>
    /\ revents' = Tail(revents)
    /\ CASE Head(revents) = "close" ->
              handleClose /\ UNCHANGED <<output, inData, soError, room, fin, wire>>
         [] Head(revents) = "error" -> handleError
         [] Head(revents) = "read"  -> handleRead
         [] Head(revents) = "write" -> handleWrite
    /\ UNCHANGED <<registered, phase, batch, user, peer, sends, raced, late>>

(* doPendingFunctors.                                                      *)
SwapFunctors ==
    /\ phase = "dispatch"
    /\ revents = <<>>
    /\ phase' = "functors"
    /\ batch' = pending
    /\ pending' = <<>>
    /\ UNCHANGED <<state, interest, registered, output, revents, owner, user,
                   peerVars, soError, room, fin, wire, sends, raced, failed,
                   late>>

FinishBatch ==
    /\ phase = "functors"
    /\ batch = <<>>
    /\ phase' = "poll"
    /\ UNCHANGED <<state, interest, registered, output, revents, pending,
                   batch, owner, user, peerVars, soError, room, fin, wire,
                   sends, raced, failed, late>>

NextFunctor(call) ==
    /\ phase = "functors"
    /\ batch # <<>>
    /\ Head(batch).call = call
    /\ batch' = Tail(batch)
    /\ UNCHANGED <<phase, revents, owner, user, peerVars, sends, raced>>

(* sendInLoop and shutdownInLoop are bound to the plain this pointer.      *)
RunSend ==
    /\ NextFunctor("sendInLoop")
    /\ IF Exists(batch \o pending)
       THEN sendInLoop(Message(Head(batch).msg))
       ELSE /\ late' = TRUE
            /\ UNCHANGED <<interest, output, pending, soError, room, wire>>
    /\ UNCHANGED <<state, registered, fin, failed>>

RunShutdown ==
    /\ NextFunctor("shutdownInLoop")
    /\ IF Exists(batch \o pending)
       THEN shutdownInLoop /\ UNCHANGED late
       ELSE late' = TRUE /\ UNCHANGED fin
    /\ UNCHANGED <<state, interest, registered, output, pending, soError, room,
                   wire, failed>>

(* ~TcpConnection asserts that the connection is down.                     *)
Destructor ==
    IF Exists(batch \o pending)' \/ state = "disconnected" THEN {} ELSE {55}

connectDestroyed ==
    /\ NextFunctor("connectDestroyed")
    /\ state' = "disconnected"
    /\ interest' = {}
    /\ registered' = FALSE
    /\ failed' = failed \union (IF Open THEN {} ELSE {69})
    /\ UNCHANGED <<output, pending, soError, room, fin, wire, late>>

(* The user's callbacks; what they do is RunInLoop.                        *)
RunCallback ==
    /\ NextFunctor("writeComplete") \/ NextFunctor("highWaterMark")
    /\ UNCHANGED <<state, interest, registered, output, pending, soError, room,
                   fin, wire, late>>
    /\ failed' = failed \union Destructor

-----------------------------------------------------------------------------
(* User code on the loop's thread, in any callback.                        *)

InCallback ==
    /\ phase # "poll"
    /\ state = "connected"
    /\ UNCHANGED <<registered, loopVars, owner, user, peerVars, raced, failed>>

SendHere ==
    /\ InCallback
    /\ sends < MaxSends
    /\ sends' = sends + 1
    /\ sendInLoop(Message(sends + 1))
    /\ UNCHANGED <<state, fin>>

ShutdownHere ==
    /\ InCallback
    /\ state' = "disconnecting"
    /\ shutdownInLoop
    /\ UNCHANGED <<interest, output, pending, soError, room, wire, sends, late>>

(* The other thread tests state_, sets it and queues, in separate steps.   *)
UserStep(from) ==
    /\ user.call.at = from
    /\ UNCHANGED <<interest, registered, output, loopVars, owner, peerVars,
                   soError, room, fin, wire, late>>

(* What it does once the connection is closed is too late.                 *)
Races == raced' = (raced \/ ~owner)

BeginSend ==
    /\ UserStep("idle")
    /\ user.holds
    /\ state = "connected"
    /\ sends < MaxSends
    /\ sends' = sends + 1
    /\ user' = [user EXCEPT !.call = [at |-> "send", msg |-> sends + 1]]
    /\ UNCHANGED <<state, pending, raced, failed>>

QueueSend ==
    /\ UserStep("send")
    /\ pending' = Append(pending, Functor("sendInLoop", user.call.msg))
    /\ user' = [user EXCEPT !.call = NoCall]
    /\ Races
    /\ UNCHANGED <<state, sends, failed>>

BeginShutdown ==
    /\ UserStep("idle")
    /\ user.holds
    /\ state = "connected"
    /\ user' = [user EXCEPT !.call = [at |-> "setState", msg |-> 0]]
    /\ UNCHANGED <<state, pending, sends, raced, failed>>

SetDisconnecting ==
    /\ UserStep("setState")
    /\ state' = "disconnecting"
    /\ user' = [user EXCEPT !.call = [at |-> "shutdown", msg |-> 0]]
    /\ Races
    /\ UNCHANGED <<pending, sends, failed>>

QueueShutdown ==
    /\ UserStep("shutdown")
    /\ pending' = Append(pending, Functor("shutdownInLoop", 0))
    /\ user' = [user EXCEPT !.call = NoCall]
    /\ Races
    /\ UNCHANGED <<state, sends, failed>>

(* The other thread drops its pointer.                                     *)
Release ==
    /\ UserStep("idle")
    /\ user.holds
    /\ user' = [user EXCEPT !.holds = FALSE]
    /\ UNCHANGED <<state, pending, sends, raced>>
    /\ failed' = failed \union Destructor

-----------------------------------------------------------------------------
(* The peer, while there is a socket.                                      *)

PeerStep ==
    /\ registered
    /\ UNCHANGED <<state, interest, registered, output, loopVars, pending,
                   owner, user, fin, wire, sends, raced, failed, late>>

PeerReads ==
    /\ PeerStep
    /\ peer # "reset"
    /\ room < Room
    /\ room' = Room
    /\ UNCHANGED <<peerVars, soError>>

PeerSends ==
    /\ PeerStep
    /\ peer = "open"
    /\ inData' = TRUE
    /\ UNCHANGED <<peer, soError, room>>

PeerCloses ==
    /\ PeerStep
    /\ peer = "open"
    /\ peer' = "closed"
    /\ UNCHANGED <<inData, soError, room>>

PeerResets ==
    /\ PeerStep
    /\ peer # "reset"
    /\ peer' = "reset"
    /\ soError' = TRUE
    /\ UNCHANGED <<inData, room>>

-----------------------------------------------------------------------------
LoopStep ==
    \/ Poll
    \/ handleEvent
    \/ SwapFunctors
    \/ FinishBatch
    \/ RunSend
    \/ RunShutdown
    \/ connectDestroyed
    \/ RunCallback

Queue == QueueSend \/ SetDisconnecting \/ QueueShutdown

Next ==
    \/ connectEstablished
    \/ LoopStep
    \/ SendHere
    \/ ShutdownHere
    \/ BeginSend
    \/ BeginShutdown
    \/ Queue
    \/ Release
    \/ PeerReads
    \/ PeerSends
    \/ PeerCloses
    \/ PeerResets

Spec == Init /\ [][Next]_vars

(* The loop runs (poll returns after kPollTimeMs at the latest), and a     *)
(* thread that is inside a call goes on with it.                           *)
FairSpec == Spec /\ WF_vars(LoopStep) /\ WF_vars(Queue)

-----------------------------------------------------------------------------
Functors ==
    [call : {"sendInLoop", "shutdownInLoop", "connectDestroyed",
             "writeComplete", "highWaterMark"},
     msg : 0..MaxSends]

(* Every variable has its type, and the lists of handlers and of functors  *)
(* are empty outside the part of the loop that they belong to.             *)
TypeOK ==
    /\ state \in {"connecting", "connected", "disconnecting", "disconnected"}
    /\ interest \subseteq {"read", "write"}
    /\ registered \in BOOLEAN
    /\ output \in Seq(1..(MaxSends * MessageLen))
    /\ phase \in {"poll", "dispatch", "functors"}
    /\ revents \in Seq({"close", "error", "read", "write"})
    /\ pending \in Seq(Functors) /\ batch \in Seq(Functors)
    /\ owner \in BOOLEAN
    /\ user \in [holds : BOOLEAN,
                 call : [at : {"idle", "send", "setState", "shutdown"},
                         msg : 0..MaxSends]]
    /\ peer \in {"open", "closed", "reset"}
    /\ inData \in BOOLEAN /\ soError \in BOOLEAN /\ fin \in BOOLEAN
    /\ room \in 0..Room
    /\ wire \in Seq(1..(MaxSends * MessageLen))
    /\ sends \in 0..MaxSends
    /\ raced \in BOOLEAN /\ late \in BOOLEAN
    /\ failed \subseteq {55, 69, 123}
    /\ phase # "dispatch" => revents = <<>>
    /\ phase # "functors" => batch = <<>>

(* The loop asks for POLLOUT exactly while bytes wait: less would leave    *)
(* them in the buffer, more would make it spin.                            *)
WritingIffWaiting == owner => (isWriting <=> output # <<>>)

(* The bytes reach the socket in the order in which the loop accepted      *)
(* them, each once, through direct, partial and failed writes, and SHUT_WR *)
(* leaves none behind in the buffer.                                       *)
OS == INSTANCE OutputStream
         WITH Messages <- {Message(k) : k \in 1..MaxSends},
              waiting <- output, written <- wire, closed <- fin, lost <- ~owner

ImplementsOutputStream == OS!Spec

(* A close is handled once, the object outlives its functors, and none of  *)
(* them enables a channel that is removed, unless the other thread was     *)
(* between its test of state_ and its queueInLoop when the connection      *)
(* closed.  The assertion at line 69 is the exception: see                 *)
(* DestroyedWhileOpen.                                                     *)
OnlyRacesHurt == ~raced => ~late /\ failed \subseteq {69}

(* "assert(state_ == kConnected || state_ == kDisconnecting)" in           *)
(* connectDestroyed (tcpconnection.cc:69).                                 *)
DestroyedWhileOpen == 69 \notin failed

(* What a connection has accepted is written, if the peer keeps reading.   *)
SentIsWritten ==
    WF_vars(PeerReads) =>
        ((owner /\ ~fin /\ output # <<>>) ~> (~owner \/ fin \/ output = <<>>))

(* shutdown() ends in SHUT_WR, although shutdownInLoop does nothing while  *)
(* bytes wait, if the peer keeps reading.                                  *)
ShutdownCompletes ==
    WF_vars(PeerReads) =>
        ((owner /\ state = "disconnecting") ~> (~owner \/ fin))
=============================================================================
