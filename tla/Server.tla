------------------------------- MODULE Server -------------------------------
(***************************************************************************)
(* The accepting side: leanet::Acceptor on the base loop (src/leanet/      *)
(* acceptor.cc, sockets.cc) and the EventLoopThreadPool that its callback  *)
(* takes loops from, one after the other (src/leanet/                      *)
(* eventloopthreadpool.cc).  The callback is the part of newConnection in  *)
(* tcpserver.cc that chooses a loop, with a pool that somebody made:       *)
(* nothing in tcpserver.cc sets threadPool_.  Without threads the base     *)
(* loop serves.                                                            *)
(*                                                                         *)
(* The kernel completes connections on its own and queues them; a client   *)
(* may reset one that waits, also between poll and accept4.  accept4 can   *)
(* also fail because the process has no free descriptor, and in ways that  *)
(* neither clients nor descriptors bring about, for which the process      *)
(* aborts: the kernel has no memory, or an error is pending on the         *)
(* connection or the network (accept(2)), or other code has closed the     *)
(* listening descriptor or made something else of it.                      *)
(***************************************************************************)
EXTENDS Naturals, Sequences, FiniteSets, SequencesExt

CONSTANTS
    Connections,    \* bound: the connections that clients make
    Threads,        \* the values of numThreads_ considered
    MaxFds          \* descriptors left to the process for connections

VARIABLES
    numThreads,     \* EventLoopThreadPool::numThreads_
    loops,          \* EventLoopThreadPool::loops_, how many
    started,        \* EventLoopThreadPool::started_
    next,           \* EventLoopThreadPool::next_
    listenning,     \* Acceptor::listenning_, its channel enabled for reading
    callback,       \* Acceptor::newConnectionCallback_ is set
    pc,             \* the base loop: "start", "poll", "handleRead", "aborted"
    backlog,        \* the kernel's queue of completed connections
    state,          \* of each connection
    fds,            \* descriptors in use
    served,         \* history: the loop chosen for each connection, in order
    trouble         \* something went wrong that is no client's doing

vars == <<numThreads, loops, started, next, listenning, callback, pc, backlog,
          state, fds, served, trouble>>
pool == <<numThreads, loops, started, next, callback>>

baseLoop == 0       \* the loops of the pool are 1, 2, ...

Init ==
    /\ numThreads \in Threads
    /\ loops = 0
    /\ started = FALSE
    /\ next = 0
    /\ listenning = FALSE
    /\ callback \in BOOLEAN
    /\ pc = "start"
    /\ backlog = <<>>
    /\ state = [c \in Connections |-> "none"]
    /\ fds = 0
    /\ served = <<>>
    /\ trouble = FALSE

-----------------------------------------------------------------------------
(* The base loop's thread, before loop(): EventLoopThreadPool::start adds  *)
(* one loop after the other, each once its thread runs it.                 *)
StartPool ==
    /\ pc = "start" /\ ~started
    /\ started' = TRUE
    /\ UNCHANGED <<numThreads, loops, next, callback, listenning, pc, backlog, state, fds,
                   served, trouble>>

AddLoop ==
    /\ pc = "start" /\ started /\ loops < numThreads
    /\ loops' = loops + 1
    /\ UNCHANGED <<numThreads, started, next, callback, listenning, pc, backlog, state, fds,
                   served, trouble>>

(* TcpServer::start and Acceptor::listen.                                  *)
listen ==
    /\ pc = "start" /\ started /\ loops = numThreads
    /\ listenning' = TRUE
    /\ pc' = "poll"
    /\ UNCHANGED <<pool, backlog, state, fds, served, trouble>>

(* Mutation: only the arrival of a connection is reported.             *)
PollReportsArrival == Len(backlog) = 1

(* The listening socket is readable while a connection waits.              *)
PollReports == backlog # <<>>

Poll ==
    /\ pc = "poll" /\ listenning /\ PollReports
    /\ pc' = "handleRead"
    /\ UNCHANGED <<pool, listenning, backlog, state, fds, served, trouble>>

(* Mutation: the first loop again before the last has had its turn.        *)
AfterEarly(n) == IF n + 2 >= loops THEN 0 ELSE n + 1

(* getNextLoop.                                                            *)
After(n) == IF n + 1 >= loops THEN 0 ELSE n + 1

nextLoop == IF loops = 0 THEN baseLoop ELSE next + 1

(* Acceptor::handleRead when accept4 returns a connection: the callback    *)
(* gives it to a loop; without a callback it is closed.                    *)
Accept ==
    /\ pc = "handleRead" /\ backlog # <<>> /\ fds < MaxFds
    /\ backlog' = Tail(backlog)
    /\ pc' = "poll"
    /\ IF callback
       THEN /\ state' = [state EXCEPT ![Head(backlog)] = "open"]
            /\ fds' = fds + 1
            /\ served' = Append(served, [connection |-> Head(backlog), loop |-> nextLoop])
            /\ next' = IF loops = 0 THEN next ELSE After(next)
       ELSE /\ state' = [state EXCEPT ![Head(backlog)] = "closed"]
            /\ UNCHANGED <<fds, served, next>>
    /\ UNCHANGED <<numThreads, loops, started, listenning, callback, trouble>>

(* What accept4 can fail with.  Trouble is of the kernel, of the network   *)
(* or of the listening descriptor; there is no EFAULT, as the address is a *)
(* variable of the caller.                                                 *)
Errors ==
    {"ECONNABORTED", "EPROTO", "EINTR", "EPERM"}
    \union (IF backlog = <<>> THEN {"EAGAIN"} ELSE {})
    \union (IF fds = MaxFds THEN {"EMFILE"} ELSE {})
    \union (IF trouble THEN {"ENFILE", "ENOBUFS", "ENOMEM", "ENETDOWN", "ENETUNREACH",
                             "ENOPROTOOPT", "EHOSTDOWN", "EHOSTUNREACH", "ENONET",
                             "ENOSR", "ESOCKTNOSUPPORT", "EPROTONOSUPPORT", "ETIMEDOUT",
                             "EOPNOTSUPP", "EBADF", "EINVAL", "ENOTSOCK"}
            ELSE {})

(* Mutation: a connection that has gone is not expected.                   *)
ExpectedWithoutAborted(errno) == errno \in {"EAGAIN", "EINTR", "EPERM", "EMFILE"}

(* The case labels of sockets::accept that go on; the other labels and the *)
(* default are LOG_FATAL.                                                  *)
Expected(errno) ==
    errno \in {"EAGAIN", "ECONNABORTED", "EINTR", "EPROTO", "EPERM", "EMFILE"}

AcceptFails ==
    /\ pc = "handleRead"
    /\ \E errno \in Errors : pc' = IF Expected(errno) THEN "poll" ELSE "aborted"
    /\ UNCHANGED <<pool, listenning, backlog, state, fds, served, trouble>>

-----------------------------------------------------------------------------
(* The clients, and the kernel.                                            *)
Connect(c) ==
    /\ listenning /\ pc # "aborted"
    /\ state[c] = "none"
    /\ state' = [state EXCEPT ![c] = "waiting"]
    /\ backlog' = Append(backlog, c)
    /\ UNCHANGED <<pool, listenning, pc, fds, served, trouble>>

Reset(c) ==
    /\ state[c] = "waiting"
    /\ state' = [state EXCEPT ![c] = "reset"]
    /\ backlog' = Remove(backlog, c)
    /\ UNCHANGED <<pool, listenning, pc, fds, served, trouble>>

(* A connection ends and its descriptor is free again.                     *)
Close(c) ==
    /\ state[c] = "open" /\ pc # "aborted"
    /\ state' = [state EXCEPT ![c] = "closed"]
    /\ fds' = fds - 1
    /\ UNCHANGED <<pool, listenning, pc, backlog, served, trouble>>

GoWrong ==
    /\ trouble' = TRUE
    /\ UNCHANGED <<pool, listenning, pc, backlog, state, fds, served>>

BaseLoop == StartPool \/ AddLoop \/ listen \/ Poll \/ Accept \/ AcceptFails

Next ==
    \/ BaseLoop
    \/ \E c \in Connections : Connect(c) \/ Reset(c) \/ Close(c)
    \/ GoWrong

(* The base loop's thread runs, and an accept4 that could succeed again    *)
(* and again is not interrupted for ever.                                  *)
Fairness == WF_vars(BaseLoop) /\ SF_vars(Accept)

Spec == Init /\ [][Next]_vars /\ Fairness

-----------------------------------------------------------------------------
(* Served by a loop, so far.                                               *)
Load(loop) == Cardinality({i \in DOMAIN served : served[i].loop = loop})

(* getNextLoop: the connections are spread over all the threads that were  *)
(* asked for, none with two more than another, and the base loop takes     *)
(* them only when there are no threads.                                    *)
LoopsAreBalanced ==
    /\ \A i, j \in 1..numThreads : Load(i) <= Load(j) + 1
    /\ numThreads > 0 => Load(baseLoop) = 0

(* One connection is taken at a time from a level-triggered socket: who    *)
(* waits is accepted or leaves, if descriptors come free, whoever resets a *)
(* connection between poll and accept4 and however often descriptors run   *)
(* out; only trouble that is no client's may end the process before.       *)
BacklogIsServed ==
    \A c \in Connections :
        state[c] = "waiting" ~>
            \/ state[c] # "waiting"
            \/ pc = "aborted" /\ trouble
            \/ [](fds = MaxFds)
=============================================================================
