--------------------------- MODULE BlockingQueue ---------------------------
(***************************************************************************)
(* leanet::BlockingQueue and BoundedBlockingQueue (src/leanet/             *)
(* blockingqueue.h, boundedblockingqueue.h): a deque behind mutex_, with   *)
(* notEmpty_ for the threads in get() and, in the bounded one, notFull_    *)
(* for those in put().  A critical section, from lock or wakeup to unlock  *)
(* or wait, is one step.                                                   *)
(*                                                                         *)
(* get() takes a reference to the front element, destroys the element with *)
(* pop_front() and copies what the reference then refers to: the copy may  *)
(* be the element or Garbage.                                              *)
(***************************************************************************)
EXTENDS Naturals, Sequences, SequencesExt

CONSTANTS
    Putters,       \* the threads that call put()
    Getters,       \* the threads that call get()
    Items,         \* bound: what put() is given, each at most once
    Capacities,    \* maxCapacity_ of the queues considered
    Unbounded,     \* a queue that is a BlockingQueue
    NoItem,
    Garbage

VARIABLES
    maxCapacity,   \* maxCapacity_, or Unbounded
    queue,         \* queue_
    pc,            \* where each thread is
    x,             \* put()'s argument, get()'s result
    accepted,      \* history: items that were put
    taken          \* history: items that left the queue, in order

vars == <<maxCapacity, queue, pc, x, accepted, taken>>

Threads == Putters \union Getters

Init ==
    /\ maxCapacity \in Capacities \union {Unbounded}
    /\ queue = <<>>
    /\ pc = [t \in Threads |-> "outside"]
    /\ x = [t \in Threads |-> NoItem]
    /\ accepted = {}
    /\ taken = <<>>

full == maxCapacity # Unbounded /\ Len(queue) >= maxCapacity

(* Everyone in wait() goes back to contend for the mutex.                  *)
wakeAll(waiting, states) ==
    [t \in Threads |-> IF states[t] = waiting THEN "inside" ELSE states[t]]

-----------------------------------------------------------------------------
CallPut(t, item) ==
    /\ t \in Putters /\ pc[t] = "outside"
    /\ item \notin accepted /\ \A u \in Putters : x[u] # item
    /\ pc' = [pc EXCEPT ![t] = "inside"]
    /\ x' = [x EXCEPT ![t] = item]
    /\ UNCHANGED <<maxCapacity, queue, accepted, taken>>

CallGet(t) ==
    /\ t \in Getters /\ pc[t] = "outside"
    /\ pc' = [pc EXCEPT ![t] = "inside"]
    /\ x' = [x EXCEPT ![t] = NoItem]
    /\ UNCHANGED <<maxCapacity, queue, accepted, taken>>

WaitNotFull(t) ==
    /\ t \in Putters /\ pc[t] = "inside" /\ full
    /\ pc' = [pc EXCEPT ![t] = "notFull"]
    /\ UNCHANGED <<maxCapacity, queue, x, accepted, taken>>

Put(t) ==
    /\ t \in Putters /\ pc[t] = "inside" /\ ~full
    /\ queue' = Append(queue, x[t])
    /\ accepted' = accepted \union {x[t]}
    /\ x' = [x EXCEPT ![t] = NoItem]
    /\ pc' = wakeAll("notEmpty", [pc EXCEPT ![t] = "outside"])
    /\ UNCHANGED <<maxCapacity, taken>>

WaitNotEmpty(t) ==
    /\ t \in Getters /\ pc[t] = "inside" /\ queue = <<>>
    /\ pc' = [pc EXCEPT ![t] = "notEmpty"]
    /\ UNCHANGED <<maxCapacity, queue, x, accepted, taken>>

(* Mutation: put() is not told that there is room.                         *)
GetSilently(t) ==
    /\ t \in Getters /\ pc[t] = "inside" /\ queue # <<>>
    /\ \E copy \in {Head(queue), Garbage} : x' = [x EXCEPT ![t] = copy]
    /\ taken' = Append(taken, Head(queue))
    /\ queue' = Tail(queue)
    /\ pc' = [pc EXCEPT ![t] = "outside"]
    /\ UNCHANGED <<maxCapacity, accepted>>

Get(t) ==
    /\ t \in Getters /\ pc[t] = "inside" /\ queue # <<>>
    /\ \E copy \in {Head(queue), Garbage} : x' = [x EXCEPT ![t] = copy]
    /\ taken' = Append(taken, Head(queue))
    /\ queue' = Tail(queue)
    /\ pc' = wakeAll("notFull", [pc EXCEPT ![t] = "outside"])
    /\ UNCHANGED <<maxCapacity, accepted>>

(* pthread_cond_wait may return by itself; each wait is in a loop.         *)
WakeSpuriously(t) ==
    /\ pc[t] \in {"notFull", "notEmpty"}
    /\ pc' = [pc EXCEPT ![t] = "inside"]
    /\ UNCHANGED <<maxCapacity, queue, x, accepted, taken>>

Step(t) == WaitNotFull(t) \/ Put(t) \/ WaitNotEmpty(t) \/ Get(t)

Next ==
    \E t \in Threads :
        \/ \E item \in Items : CallPut(t, item)
        \/ CallGet(t)
        \/ Step(t)
        \/ WakeSpuriously(t)

(* A thread inside is scheduled, and the getters call get() again and      *)
(* again, as the threads of test/blockingqueue_unittest.cc do.             *)
Fairness ==
    /\ \A t \in Threads : WF_vars(Step(t))
    /\ \A t \in Getters : WF_vars(CallGet(t))

Spec == Init /\ [][Next]_vars /\ Fairness

-----------------------------------------------------------------------------
(* Nobody sleeps beside what it waits for: put() and get() signal in time, *)
(* at a queue of one and with several threads woken for one place.         *)
NobodySleepsInVain ==
    \A t \in Threads :
        /\ pc[t] = "notEmpty" => queue = <<>>
        /\ pc[t] = "notFull" => full

(* While the getters come back, every call of put() returns and its item   *)
(* is taken.                                                               *)
PutItemsAreTaken ==
    \A item \in Items :
        (\E t \in Putters : x[t] = item) ~> (item \in ToSet(taken))
=============================================================================
