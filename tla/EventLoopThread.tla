-------------------------- MODULE EventLoopThread ---------------------------
(***************************************************************************)
(* leanet::EventLoopThread (src/leanet/eventloopthread.cc): a thread that  *)
(* constructs an EventLoop on its stack, publishes its address in loop_    *)
(* under mutex_ and runs it, and the owner, which starts the thread, waits *)
(* for the address, uses it, and in the destructor quits the loop and      *)
(* joins the thread.  The reactor is module EventLoop; this module says    *)
(* when each of its steps can happen and whether its object still exists.  *)
(***************************************************************************)
EXTENDS EventLoop

CONSTANT Owner          \* the thread that owns the EventLoopThread

ASSUME OwnerAssumption == Owner \in OtherThreads

VARIABLES
    loopPtr,    \* loop_: "NULL" or "loop"
    exists,     \* the EventLoop on the thread's stack is constructed
    tpc,        \* where the started thread is, outside the EventLoop
    opc,        \* where the owner is, outside the EventLoop
    result,     \* what startLoop() returned
    selfQuits,  \* whether callbacks on the loop thread call quit(), fixed
    dangling    \* history: calls that used an EventLoop that does not exist,
                \* "null" by a null pointer

tvars == <<loopPtr, exists, tpc, opc, result, selfQuits, dangling>>
allVars == <<vars, tvars>>

ThreadInit ==
    /\ Init
    /\ loopPtr = "NULL"
    /\ exists = FALSE
    /\ tpc = "none"
    /\ opc = "new"
    /\ result = "NULL"
    /\ selfQuits \in BOOLEAN
    /\ dangling = {}

(* A call made through a pointer to the EventLoop.  What it does to one    *)
(* that is destroyed is undefined: it may seem to work, or the process     *)
(* ends, then or later (Crash).                                            *)
Touch(call, valid) ==
    dangling' = IF valid THEN dangling ELSE dangling \union {call}

Running == opc # "crashed"

Crash ==
    /\ Running
    /\ dangling # {}
    /\ opc' = "crashed"
    /\ UNCHANGED <<vars, loopPtr, exists, tpc, result, selfQuits, dangling>>

-----------------------------------------------------------------------------
(* The started thread: startThread, then threadFunc.                       *)

(* The latch of Thread::start is counted down before threadFunc runs.      *)
CountDown ==
    /\ tpc = "created"
    /\ tpc' = "running"
    /\ UNCHANGED <<vars, loopPtr, exists, opc, result, selfQuits, dangling>>

ConstructLoop ==
    /\ tpc = "running"
    /\ exists' = TRUE
    /\ tpc' = "init"
    /\ UNCHANGED <<vars, loopPtr, opc, result, selfQuits, dangling>>

(* Mutation: loop_ assigned without cond_.wakeAll().                       *)
PublishSilently ==
    /\ tpc = "init"
    /\ LoopStep
    /\ loopPtr' = "loop"
    /\ tpc' = "published"
    /\ UNCHANGED <<vars, exists, opc, result, selfQuits, dangling>>

(* loop_ = &loop and wakeAll in one critical section.                      *)
Publish ==
    /\ tpc = "init"
    /\ LoopStep
    /\ loopPtr' = "loop"
    /\ opc' = IF opc = "waiting" THEN "checking" ELSE opc
    /\ tpc' = "published"
    /\ UNCHANGED <<vars, exists, result, selfQuits, dangling>>

EnterLoop ==
    /\ tpc = "published"
    /\ Loop
    /\ tpc' = "looping"
    /\ UNCHANGED <<loopPtr, exists, opc, result, selfQuits, dangling>>

(* The reactor, with whatever its callbacks and functors call, and before  *)
(* it the calls that the ThreadInitCallback makes.                         *)
LoopThreadStep ==
    /\ Running
    /\ tpc = "looping"
    /\ pc # "idle"
    /\ LoopProgress \/ PollReady \/ PollTimeout
    /\ UNCHANGED tvars

LoopThreadCall ==
    /\ Running
    /\ tpc \in {"init", "looping"}
    /\ tpc = "looping" => pc # "idle"
    /\ \/ \E f \in Functors : queueInLoop(LoopThread, f)
       \/ selfQuits /\ Quit(LoopThread)
       \/ wakeup(LoopThread)
    /\ UNCHANGED tvars

(* loop() returned; loop_ = NULL is assigned outside the mutex.            *)
ClearLoop ==
    /\ tpc = "looping"
    /\ pc = "idle"
    /\ loopPtr' = "NULL"
    /\ tpc' = "cleared"
    /\ UNCHANGED <<vars, exists, opc, result, selfQuits, dangling>>

DestroyLoop ==
    /\ tpc = "cleared"
    /\ exists' = FALSE
    /\ tpc' = "exited"
    /\ UNCHANGED <<vars, loopPtr, opc, result, selfQuits, dangling>>

-----------------------------------------------------------------------------
(* The owner.                                                              *)

(* startLoop: thread_.start() returns once the latch is counted down.      *)
StartThread ==
    /\ opc = "new"
    /\ tpc' = "created"
    /\ opc' = "started"
    /\ UNCHANGED <<vars, loopPtr, exists, result, selfQuits, dangling>>

(* pthread_create fails: start() returns and tells nobody.                 *)
StartFails ==
    /\ opc = "new"
    /\ opc' = "checking"
    /\ UNCHANGED <<vars, loopPtr, exists, tpc, result, selfQuits, dangling>>

LatchOpens ==
    /\ opc = "started"
    /\ tpc # "created"
    /\ opc' = "checking"
    /\ UNCHANGED <<vars, loopPtr, exists, tpc, result, selfQuits, dangling>>

(* Mutation: no wait for loop_.                                            *)
CheckNothing ==
    /\ opc = "checking"
    /\ opc' = "returning"
    /\ UNCHANGED <<vars, loopPtr, exists, tpc, result, selfQuits, dangling>>

(* while (loop_ == NULL) cond_.wait(), one evaluation under the mutex.     *)
CheckPublished ==
    /\ opc = "checking"
    /\ opc' = IF loopPtr = "NULL" THEN "waiting" ELSE "returning"
    /\ UNCHANGED <<vars, loopPtr, exists, tpc, result, selfQuits, dangling>>

(* return loop_, read again after the mutex is released.                   *)
ReturnLoop ==
    /\ opc = "returning"
    /\ result' = loopPtr
    /\ opc' = "using"
    /\ UNCHANGED <<vars, loopPtr, exists, tpc, selfQuits, dangling>>

(* Between startLoop and the destructor the owner uses the loop.           *)
OwnerCall ==
    /\ opc = "using"
    /\ result # "NULL"
    /\ \/ \E f \in Functors : runInLoop(Owner, f) /\ Touch("runInLoop", exists)
       \/ wakeup(Owner) /\ Touch("wakeup", exists)
    /\ UNCHANGED <<loopPtr, exists, tpc, opc, result, selfQuits>>

(* Mutation: quit() called without the test of loop_.                      *)
DestructorUntested ==
    /\ opc \in {"new", "using"}
    /\ calls[Owner] = "none"
    /\ opc' = "quitting"
    /\ UNCHANGED <<vars, loopPtr, exists, tpc, result, selfQuits, dangling>>

(* ~EventLoopThread: the test of loop_, also when nothing was started.     *)
Destructor ==
    /\ opc \in {"new", "using"}
    /\ calls[Owner] = "none"
    /\ opc' = IF loopPtr = "NULL" THEN "done" ELSE "quitting"
    /\ UNCHANGED <<vars, loopPtr, exists, tpc, result, selfQuits, dangling>>

(* loop_->quit(): loop_ is read once more, and the thread may have cleared *)
(* it since the test.                                                      *)
ReadLoop ==
    /\ opc = "quitting"
    /\ opc' = IF loopPtr = "NULL" THEN "crashed" ELSE "calling"
    /\ Touch("null", loopPtr # "NULL")
    /\ UNCHANGED <<vars, loopPtr, exists, tpc, result, selfQuits>>

(* quit() by the address that was read: quit_ is set, then wakeup() writes *)
(* to wakeupFd_.                                                           *)
QuitLoop ==
    /\ opc = "calling"
    /\ Quit(Owner)
    /\ Touch("quit", exists)
    /\ opc' = "waking"
    /\ UNCHANGED <<loopPtr, exists, tpc, result, selfQuits>>

WakeLoop ==
    /\ opc = "waking"
    /\ wakeup(Owner)
    /\ Touch("wakeupInQuit", exists)
    /\ opc' = "joining"
    /\ UNCHANGED <<loopPtr, exists, tpc, result, selfQuits>>

Join ==
    /\ opc = "joining"
    /\ tpc = "exited"
    /\ opc' = "done"
    /\ UNCHANGED <<vars, loopPtr, exists, tpc, result, selfQuits, dangling>>

-----------------------------------------------------------------------------
ThreadStep ==
    /\ Running
    /\ \/ CountDown
       \/ ConstructLoop
       \/ Publish
       \/ EnterLoop
       \/ ClearLoop
       \/ DestroyLoop

OwnerStep ==
    \/ LatchOpens
    \/ CheckPublished
    \/ ReturnLoop
    \/ ReadLoop
    \/ QuitLoop
    \/ WakeLoop
    \/ Join

(* The thread has exited, and its owner is destroyed, or waits in          *)
(* startLoop() for the address of a loop that has quit already or was      *)
(* never made; or the process has crashed.                                 *)
Finished ==
    /\ \/ ~Running
       \/ tpc \in {"none", "exited"} /\ opc = "done"
       \/ tpc \in {"none", "exited"} /\ opc = "waiting" /\ (selfQuits \/ tpc = "none")
    /\ UNCHANGED allVars

ThreadNext ==
    \/ ThreadStep
    \/ LoopThreadStep
    \/ LoopThreadCall
    \/ StartThread \/ StartFails
    \/ OwnerCall
    \/ Destructor
    \/ OwnerStep
    \/ Crash
    \/ Finished

ThreadSpec == ThreadInit /\ [][ThreadNext]_allVars

(* The reactor's fairness, and that of two threads the kernel schedules.   *)
ThreadFairSpec ==
    /\ ThreadSpec
    /\ WF_allVars(ThreadStep)
    /\ WF_allVars(OwnerStep)
    /\ WF_allVars(LoopProgress /\ LoopThreadStep)
    /\ WF_allVars(LoopThreadCall /\ wakeup(LoopThread))
    /\ WF_allVars(OwnerCall /\ wakeup(Owner))

-----------------------------------------------------------------------------
(* Every variable has its type, those of the reactor included, and the     *)
(* reactor's flags agree with the place where its thread is.               *)
ThreadTypeOK ==
    /\ TypeOK
    /\ loopPtr \in {"NULL", "loop"}
    /\ exists \in BOOLEAN
    /\ tpc \in {"none", "created", "running", "init", "published", "looping",
                "cleared", "exited"}
    /\ opc \in {"new", "started", "checking", "waiting", "returning", "using",
                "quitting", "calling", "waking", "joining", "done", "crashed"}
    /\ result \in {"NULL", "loop"}
    /\ selfQuits \in BOOLEAN
    /\ dangling \subseteq {"runInLoop", "wakeup", "null", "quit", "wakeupInQuit"}

(* startLoop returns the address of an EventLoop that is constructed and   *)
(* stays so until the owner's destructor, although the address is read     *)
(* outside the mutex and the object lives on another thread's stack.  It   *)
(* takes callbacks that leave quit() to the owner: a loop that quits       *)
(* itself may be gone before startLoop() reads its address.  The types are *)
(* checked along with it.                                                  *)
StartLoopReturnsLoop ==
    /\ ThreadTypeOK
    /\ ~selfQuits /\ opc = "using" => result = "loop" /\ exists

(* The owner of a loop that leaves quit() to it never calls into a         *)
(* destroyed EventLoop, but for the "time window" of quit()                *)
(* (eventloop.cc:109): the loop may see quit_, return and be destroyed     *)
(* before quit() goes on to wakeup().  A loop that quits itself voids that,*)
(* the destructor's test of loop_ included.  Whoever quits, the thread     *)
(* does not use the EventLoopThread after its destructor: it is joined, or *)
(* has made its last access, loop_ = NULL.                                 *)
OnlyQuitWindowDangles ==
    /\ ~selfQuits => dangling \subseteq {"wakeupInQuit"}
    /\ opc = "done" => tpc \in {"none", "cleared", "exited"}

(* The monitor of startLoop loses no notification: it returns, unless      *)
(* there is no thread, which start() does not tell, or the loop has quit   *)
(* by itself.                                                              *)
StartLoopReturns ==
    (opc \in {"started", "checking", "waiting"} /\ ~selfQuits) ~>
        (opc = "using" \/ tpc = "none")

(* A destructor that begins once loop() has cleared quit_ returns, if the  *)
(* process does not crash on its way: at a null loop_, cleared after the   *)
(* test by a loop that quits itself, or for having used a destroyed loop.  *)
(* Where the loop leaves quit() to its owner that is quit()'s window only, *)
(* and loop_ is never null.                                                *)
DestructorReturns ==
    (opc = "quitting" /\ looping) ~>
        \/ opc = "done"
        \/ ~Running /\ (selfQuits \/ dangling = {"wakeupInQuit"})

(* "quit() can be called from other thread" (eventloop.cc:110): a          *)
(* destructor that has called quit() gets its join(), or has crashed in it.*)
QuitFromOwnerEndsThread == opc = "joining" ~> (opc = "done" \/ ~Running)
=============================================================================
