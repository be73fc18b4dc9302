------------------------------ MODULE MCThreads ------------------------------
(***************************************************************************)
(* Four classes that several threads use, side by side for TLC: the thread *)
(* pool, the blocking queues, the accepting side of the server and the     *)
(* logger's time stamps.  They share nothing: a behaviour is one of the    *)
(* class that which names, and the others' variables stay as they are.     *)
(***************************************************************************)
EXTENDS ThreadPool

CONSTANTS Putters, Getters, Items, Capacities, Unbounded, NoItem, Garbage,
          Connections, Counts, MaxFds, LogThreads, Offsets, NoZone, MaxSecond

ASSUME ThreadsAssumption == Counts \subseteq Nat /\ MaxSecond \in Nat

VARIABLES which,
          maxCapacity, bqQueue, bqPc, x, put, got,
          numThreads, loops, started, next, listenning, callback, loopPc,
          backlog, state, fds, served, trouble,
          now, g_timezone, t_lastSecond, t_time, stage, second, crashed, zones, raced

bqVars == <<maxCapacity, bqQueue, bqPc, x, put, got>>
serverVars == <<numThreads, loops, started, next, listenning, callback, loopPc,
                backlog, state, fds, served, trouble>>
loggerVars == <<now, g_timezone, t_lastSecond, t_time, stage, second, crashed,
                zones, raced>>
allVars == <<which, vars, bqVars, serverVars, loggerVars>>

BQ == INSTANCE BlockingQueue WITH
          queue <- bqQueue, pc <- bqPc, accepted <- put, taken <- got

Srv == INSTANCE Server WITH Threads <- Counts, pc <- loopPc

Log == INSTANCE Logger WITH Threads <- LogThreads

MCInit ==
    /\ which \in {"pool", "queue", "server", "logger"}
    /\ Init /\ BQ!Init /\ Srv!Init /\ Log!Init
    /\ which # "pool" => maxQueueSize = 0
    /\ which # "queue" => maxCapacity = Unbounded
    /\ which # "server" => numThreads = 0 /\ ~callback

Pool(A) == which = "pool" /\ A /\ UNCHANGED <<which, bqVars, serverVars, loggerVars>>
Queue(A) == which = "queue" /\ A /\ UNCHANGED <<which, vars, serverVars, loggerVars>>
Accepting(A) == which = "server" /\ A /\ UNCHANGED <<which, vars, bqVars, loggerVars>>
Logging(A) == which = "logger" /\ A /\ UNCHANGED <<which, vars, bqVars, serverVars>>

MCNext == Pool(Next) \/ Queue(BQ!Next) \/ Accepting(Srv!Next) \/ Logging(Log!Next)

(* The fairness of each class, as its own module states it.                *)
MCFairness ==
    /\ \A t \in Threads : WF_allVars(Pool(PoolStep(t)))
    /\ WF_allVars(Pool(Join))
    /\ \A t \in Putters \union Getters : WF_allVars(Queue(BQ!Step(t)))
    /\ \A t \in Getters : WF_allVars(Queue(BQ!CallGet(t)))
    /\ WF_allVars(Accepting(Srv!BaseLoop))
    /\ SF_allVars(Accepting(Srv!Accept))

MCSpec == MCInit /\ [][MCNext]_allVars /\ MCFairness

-----------------------------------------------------------------------------
(* blockingqueue.h, boundedblockingqueue.h: nobody sleeps beside what it   *)
(* waits for.                                                              *)
NobodySleepsInVain == BQ!NobodySleepsInVain

(* While the getters come back, every put() returns and is taken.          *)
PutItemsAreTaken == BQ!PutItemsAreTaken

(* getNextLoop spreads the connections over all the threads asked for.     *)
LoopsAreBalanced == Srv!LoopsAreBalanced

(* Who waits to be accepted is accepted or leaves, whatever other clients  *)
(* do, unless trouble that is no client's ends the process.                *)
BacklogIsServed == Srv!BacklogIsServed

(* A log message's time is that of its second in a zone in force since the *)
(* text was begun, unless setTimeZone overlapped the conversion.           *)
StampIsCurrent == Log!StampIsCurrent
=============================================================================
