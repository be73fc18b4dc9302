----------------------------- MODULE ThreadPool -----------------------------
(***************************************************************************)
(* leanet::ThreadPool (src/leanet/threadpool.cc) once start() has started  *)
(* its threads: the bounded queue of tasks behind mutex_ with its two      *)
(* conditions, the workers that take and run tasks, threads that call      *)
(* run(), and the owner that calls stop().  A task may itself call run().  *)
(*                                                                         *)
(* A critical section, from lock or wakeup to unlock or wait, is one step. *)
(***************************************************************************)
EXTENDS Naturals, Sequences, FiniteSets, SequencesExt

CONSTANTS
    Workers,      \* the threads in threads_
    Producers,    \* other threads that call run()
    Tasks,        \* bound: what run() is given, each at most once
    Sizes,        \* the values of maxQueueSize_ considered
    NoTask        \* an empty std::function

ASSUME PoolAssumption ==
    /\ Workers # {} /\ Workers \intersect Producers = {}
    /\ Sizes \subseteq Nat
    /\ NoTask \notin Tasks

VARIABLES
    maxQueueSize,   \* maxQueueSize_, fixed before start()
    queue,          \* queue_
    running,        \* running_
    pc,             \* where each thread is
    arg,            \* the task a thread is handing to run()
    stopping,       \* the owner: "no", "joining", "returned"
    accepted,       \* history: tasks pushed so far
    taken           \* history: tasks taken, in order

vars == <<maxQueueSize, queue, running, pc, arg, stopping, accepted, taken>>

Threads == Workers \union Producers

Init ==
    /\ maxQueueSize \in Sizes
    /\ queue = <<>>
    /\ running = TRUE
    /\ pc = [t \in Threads |-> IF t \in Workers THEN "loop" ELSE "idle"]
    /\ arg = [t \in Threads |-> NoTask]
    /\ stopping = "no"
    /\ accepted = {}
    /\ taken = <<>>

isFull == maxQueueSize > 0 /\ Len(queue) >= maxQueueSize

(* Everyone waiting in `from` goes back to contend for the mutex.          *)
WakeAll(from, to, states) ==
    [t \in Threads |-> IF states[t] = from THEN to ELSE states[t]]

WakeNotEmpty(states) == WakeAll("empty", "take", states)
WakeNotFull(states) == WakeAll("full", "put", states)

-----------------------------------------------------------------------------
(* runInThread and take().                                                 *)

(* while (running_), read without the mutex.                               *)
Loop(w) ==
    /\ pc[w] = "loop"
    /\ pc' = [pc EXCEPT ![w] = IF running THEN "take" ELSE "exited"]
    /\ UNCHANGED <<maxQueueSize, queue, running, arg, stopping, accepted, taken>>

WaitForTask(w) ==
    /\ pc[w] = "take"
    /\ queue = <<>> /\ running
    /\ pc' = [pc EXCEPT ![w] = "empty"]
    /\ UNCHANGED <<maxQueueSize, queue, running, arg, stopping, accepted, taken>>

(* Mutation: the newest task first.                                        *)
PopNewest == SubSeq(queue, 1, Len(queue) - 1)

Pop == Tail(queue)

Take(w) ==
    /\ pc[w] = "take"
    /\ queue # <<>>
    /\ queue' = Pop
    /\ taken' = Append(taken, Head(queue))
    /\ LET now == [pc EXCEPT ![w] = "task"]
       IN  pc' = IF maxQueueSize > 0 THEN WakeNotFull(now) ELSE now
    /\ UNCHANGED <<maxQueueSize, running, arg, stopping, accepted>>

(* take() returns an empty function.                                       *)
TakeNothing(w) ==
    /\ pc[w] = "take"
    /\ queue = <<>> /\ ~running
    /\ pc' = [pc EXCEPT ![w] = "loop"]
    /\ UNCHANGED <<maxQueueSize, queue, running, arg, stopping, accepted, taken>>

FinishTask(w) ==
    /\ pc[w] = "task"
    /\ pc' = [pc EXCEPT ![w] = "loop"]
    /\ UNCHANGED <<maxQueueSize, queue, running, arg, stopping, accepted, taken>>

-----------------------------------------------------------------------------
(* run(), called by a producer or by the task that a worker runs.          *)

Caller(t) == pc[t] = (IF t \in Workers THEN "task" ELSE "idle")

Run(t, task) ==
    /\ Caller(t)
    /\ task \notin accepted
    /\ \A u \in Threads : arg[u] # task
    /\ arg' = [arg EXCEPT ![t] = task]
    /\ pc' = [pc EXCEPT ![t] = "put"]
    /\ UNCHANGED <<maxQueueSize, queue, running, stopping, accepted, taken>>

WaitForRoom(t) ==
    /\ pc[t] = "put"
    /\ isFull
    /\ pc' = [pc EXCEPT ![t] = "full"]
    /\ UNCHANGED <<maxQueueSize, queue, running, arg, stopping, accepted, taken>>

Put(t) ==
    /\ pc[t] = "put"
    /\ ~isFull
    /\ queue' = Append(queue, arg[t])
    /\ accepted' = accepted \union {arg[t]}
    /\ arg' = [arg EXCEPT ![t] = NoTask]
    /\ pc' = WakeNotEmpty([pc EXCEPT ![t] = IF t \in Workers THEN "task" ELSE "idle"])
    /\ UNCHANGED <<maxQueueSize, running, stopping, taken>>

(* pthread_cond_wait may return by itself; each wait is in a loop.         *)
WakeSpuriously(t) ==
    /\ \/ pc[t] = "empty" /\ pc' = [pc EXCEPT ![t] = "take"]
       \/ pc[t] = "full" /\ pc' = [pc EXCEPT ![t] = "put"]
    /\ UNCHANGED <<maxQueueSize, queue, running, arg, stopping, accepted, taken>>

-----------------------------------------------------------------------------
(* stop().                                                                 *)

(* Mutation: the waiting workers are not woken.                            *)
StopSilently ==
    /\ stopping = "no"
    /\ running' = FALSE
    /\ stopping' = "joining"
    /\ UNCHANGED <<maxQueueSize, queue, pc, arg, accepted, taken>>

Stop ==
    /\ stopping = "no"
    /\ running' = FALSE
    /\ pc' = WakeNotEmpty(pc)
    /\ stopping' = "joining"
    /\ UNCHANGED <<maxQueueSize, queue, arg, accepted, taken>>

Join ==
    /\ stopping = "joining"
    /\ \A w \in Workers : pc[w] = "exited"
    /\ stopping' = "returned"
    /\ UNCHANGED <<maxQueueSize, queue, running, pc, arg, accepted, taken>>

PoolStep(t) ==
    \/ t \in Workers /\ (\/ Loop(t) \/ WaitForTask(t) \/ Take(t)
                         \/ TakeNothing(t) \/ FinishTask(t))
    \/ WaitForRoom(t)
    \/ Put(t)

Next ==
    \/ \E t \in Threads : PoolStep(t) \/ WakeSpuriously(t)
    \/ \E t \in Threads, task \in Tasks : Run(t, task)
    \/ Stop
    \/ Join

(* Every thread inside the pool is scheduled, and every task ends; nobody  *)
(* has to call run() or stop(), and no wait has to return unwoken.         *)
Spec == Init /\ [][Next]_vars /\ (\A t \in Threads : WF_vars(PoolStep(t))) /\ WF_vars(Join)

-----------------------------------------------------------------------------
(* Properties.                                                             *)

(* threadpool.cc: the variables keep their types, the queue stays within   *)
(* maxQueueSize_, and the tasks in run() are different.                    *)
TypeOK ==
    /\ maxQueueSize \in Sizes
    /\ queue \in Seq(Tasks)
    /\ maxQueueSize > 0 => Len(queue) <= maxQueueSize
    /\ running \in BOOLEAN
    /\ pc \in [Threads -> {"loop", "take", "empty", "task", "exited",
                           "idle", "put", "full"}]
    /\ arg \in [Threads -> Tasks \union {NoTask}]
    /\ \A t, u \in Threads : arg[t] = arg[u] /\ arg[t] # NoTask => t = u
    /\ stopping \in {"no", "joining", "returned"}
    /\ accepted \subseteq Tasks
    /\ taken \in Seq(Tasks)

(* run() and take(): the tasks are taken in the order in which run()       *)
(* accepted them, each at most once.                                       *)
Abstract == INSTANCE FunctorQueue WITH
    Functors <- Tasks, submitted <- accepted, queue <- queue, ran <- taken

ImplementsFunctorQueue == Abstract!Spec

(* A thread is inside run() and finds the queue full.                      *)
Waits(t) == arg[t] # NoTask /\ isFull

(* All the workers wait for room that only they could make.                *)
Stuck == \A w \in Workers : Waits(w)

(* While the pool runs, a task that is queued is taken and a call of run() *)
(* returns, unless every worker has become a producer that waits for room. *)
(* Once stop() is called, it returns, unless a worker is left in run() of  *)
(* a full queue: stop() does not wake notFull_.                            *)
EverybodyMoves ==
    /\ \A task \in Tasks :
           task \in ToSet(queue) ~> task \in ToSet(taken) \/ ~running \/ Stuck
    /\ \A t \in Threads :
           arg[t] # NoTask ~> arg[t] = NoTask \/ ~running \/ Stuck
    /\ stopping = "joining" ~>
           stopping = "returned" \/ [](\E w \in Workers : Waits(w))
=============================================================================
