----------------------------- MODULE EventLoop ------------------------------
(***************************************************************************)
(* leanet::EventLoop (src/leanet/eventloop.cc): the reactor thread and the *)
(* threads that hand it work.                                              *)
(*                                                                         *)
(* The loop thread runs loop(): poll, dispatch the active channels, run    *)
(* the pending functors, test quit_.  Any thread, the loop thread's own    *)
(* callbacks included, may call queueInLoop, runInLoop and quit.  A call   *)
(* made off the loop thread is two steps, the update of the shared state   *)
(* and the write to the eventfd, and any step of the loop can come between.*)
(*                                                                         *)
(* Abstracted: a functor is a model value, and what it does is any         *)
(* sequence of calls made while the loop thread is in user code; the other *)
(* channels are one timerfd and one I/O channel that the environment makes *)
(* ready at will; the poll's timeout fires whenever nothing is ready.      *)
(***************************************************************************)
EXTENDS Naturals, Sequences, Functions

CONSTANTS LoopThread,      \* the thread that constructed the EventLoop
          OtherThreads,    \* every other thread that holds a pointer to it
          Functors,        \* the functors handed to queueInLoop, once each
          MaxEventfd       \* largest value of the eventfd's counter (2^64-2)

ASSUME LoopAssumption ==
    /\ LoopThread \notin OtherThreads
    /\ MaxEventfd \in Nat \ {0}

Threads == OtherThreads \union {LoopThread}

(* activeChannels_ as fillActiveChannels leaves it, in the order of the    *)
(* poll array: the timer queue's channel is registered by the constructor  *)
(* before the wakeup channel, and every other channel after it.            *)
ActiveChannels(timer, wake, io) ==
    (IF timer THEN <<"timerfd">> ELSE <<>>)
        \o (IF wake THEN <<"wakeup">> ELSE <<>>)
        \o (IF io THEN <<"io">> ELSE <<>>)

VARIABLES
    looping,     \* looping_
    quit,        \* quit_
    calling,     \* callingPendingFunctors_
    pending,     \* pendingFunctors_, guarded by mutex_
    functors,    \* doPendingFunctors' stack vector: those still to be called
    eventfd,     \* counter of wakeupFd_
    active,      \* activeChannels_ not handled yet
    pc,          \* where the loop thread is
    calls,       \* per thread: "none", or "wake": about to call wakeup()
    ran,         \* history: queued functors run, in order
    submitted,   \* history: functors queued
    silent       \* history: functors the loop thread queued outside loop()

vars == <<looping, quit, calling, pending, functors, eventfd, active, pc,
          calls, ran, submitted, silent>>

history == <<ran, submitted, silent>>

(* The loop thread executes caller code before and after loop(), inside a  *)
(* channel's callback and inside a functor.                                *)
InUserCode(t) ==
    /\ calls[t] = "none"
    /\ t = LoopThread => pc \in {"idle", "callback", "functor"}

isInLoopThread(t) == t = LoopThread

(* The loop thread's own steps wait for a wakeup() it is in the middle of. *)
LoopStep == calls[LoopThread] = "none"

Init ==
    /\ looping = FALSE
    /\ quit = FALSE
    /\ calling = FALSE
    /\ pending = <<>>
    /\ functors = <<>>
    /\ eventfd = 0
    /\ active = <<>>
    /\ pc = "idle"
    /\ calls = [t \in Threads |-> "none"]
    /\ ran = <<>>
    /\ submitted = {}
    /\ silent = {}

-----------------------------------------------------------------------------
(* Calls that any thread makes.                                            *)

(* Mutation: the test of callingPendingFunctors_ dropped.                   *)
NeedsWakeupOffThread(t) == ~isInLoopThread(t)

(* queueInLoop: push under the mutex, then decide whether to wake the loop.*)
(* callingPendingFunctors_ is read by the loop thread only: for the others *)
(* the first disjunct is true.                                             *)
NeedsWakeup(t) == ~isInLoopThread(t) \/ calling

queueInLoop(t, f) ==
    /\ InUserCode(t)
    /\ f \notin submitted
    /\ pending' = Append(pending, f)
    /\ calls' = [calls EXCEPT ![t] = IF NeedsWakeup(t) THEN "wake" ELSE "none"]
    /\ submitted' = submitted \union {f}
    /\ silent' = IF isInLoopThread(t) /\ pc = "idle"
                 THEN silent \union {f} ELSE silent
    /\ UNCHANGED <<looping, quit, calling, functors, eventfd, active, pc, ran>>

(* runInLoop: on the loop thread cb() runs at once, inside the user code   *)
(* that called it, and its effects are the calls it makes; elsewhere it is *)
(* queueInLoop.                                                            *)
runInLoop(t, f) == ~isInLoopThread(t) /\ queueInLoop(t, f)

(* Mutation: quit_ set and no wakeup() after it.                           *)
QuitUnannounced(t) ==
    /\ InUserCode(t)
    /\ quit' = TRUE
    /\ UNCHANGED <<looping, calling, pending, functors, eventfd, active, pc,
                   calls, history>>

(* quit                                                                    *)
Quit(t) ==
    /\ InUserCode(t)
    /\ quit' = TRUE
    /\ calls' = [calls EXCEPT ![t] =
                    IF isInLoopThread(t) THEN "none" ELSE "wake"]
    /\ UNCHANGED <<looping, calling, pending, functors, eventfd, active, pc,
                   history>>

(* wakeup: a write to the non-blocking eventfd.  At the counter's limit it *)
(* fails with EAGAIN, which is only logged.                                *)
wakeup(t) ==
    /\ calls[t] = "wake"
    /\ eventfd' = IF eventfd < MaxEventfd THEN eventfd + 1 ELSE eventfd
    /\ calls' = [calls EXCEPT ![t] = "none"]
    /\ UNCHANGED <<looping, quit, calling, pending, functors, active, pc,
                   history>>

-----------------------------------------------------------------------------
(* The loop thread.                                                        *)

(* loop(): assert(!looping_) is the caller's obligation.                   *)
Loop ==
    /\ LoopStep
    /\ pc = "idle"
    /\ looping' = TRUE
    /\ quit' = FALSE
    /\ pc' = "test"
    /\ UNCHANGED <<calling, pending, functors, eventfd, active, calls, history>>

TestQuit ==
    /\ LoopStep
    /\ pc = "test"
    /\ pc' = IF quit THEN "idle" ELSE "poll"
    /\ looping' = ~quit
    /\ active' = IF quit THEN active ELSE <<>>
    /\ UNCHANGED <<quit, calling, pending, functors, eventfd, calls, history>>

(* poll returns the ready channels in the order of the poll array.  The    *)
(* eventfd is ready as long as its counter is not zero.                    *)
PollReady ==
    /\ LoopStep
    /\ pc = "poll"
    /\ \E timer, io \in BOOLEAN :
          active' = ActiveChannels(timer, eventfd > 0, io)
    /\ active' # <<>>
    /\ pc' = "dispatch"
    /\ UNCHANGED <<looping, quit, calling, pending, functors, eventfd, calls,
                   history>>

(* kPollTimeMs elapsed, or a signal interrupted poll(2).                   *)
PollTimeout ==
    /\ LoopStep
    /\ pc = "poll"
    /\ eventfd = 0
    /\ pc' = "dispatch"
    /\ UNCHANGED <<looping, quit, calling, pending, functors, eventfd, active,
                   calls, history>>

(* handleRead: the wakeup channel's read callback takes the whole counter. *)
handleRead ==
    /\ LoopStep
    /\ pc = "dispatch"
    /\ active # <<>> /\ Head(active) = "wakeup"
    /\ active' = Tail(active)
    /\ eventfd' = 0
    /\ UNCHANGED <<looping, quit, calling, pending, functors, pc, calls, history>>

(* Any other active channel: its callback is user code.                    *)
EnterCallback ==
    /\ LoopStep
    /\ pc = "dispatch"
    /\ active # <<>> /\ Head(active) # "wakeup"
    /\ active' = Tail(active)
    /\ pc' = "callback"
    /\ UNCHANGED <<looping, quit, calling, pending, functors, eventfd, calls,
                   history>>

LeaveCallback ==
    /\ LoopStep
    /\ pc = "callback"
    /\ pc' = "dispatch"
    /\ UNCHANGED <<looping, quit, calling, pending, functors, eventfd, active,
                   calls, history>>

(* doPendingFunctors, in three parts: enter, swap under the mutex, and the *)
(* calls one by one.                                                       *)
EnterPendingFunctors ==
    /\ LoopStep
    /\ pc = "dispatch"
    /\ active = <<>>
    /\ calling' = TRUE
    /\ pc' = "swap"
    /\ UNCHANGED <<looping, quit, pending, functors, eventfd, active, calls,
                   history>>

(* Mutation: the vector is copied where the code swaps it.                 *)
CopyPendingFunctors ==
    /\ LoopStep
    /\ pc = "swap"
    /\ functors' = pending
    /\ pc' = "run"
    /\ UNCHANGED <<looping, quit, calling, pending, eventfd, active, calls,
                   history>>

SwapPendingFunctors ==
    /\ LoopStep
    /\ pc = "swap"
    /\ functors' = pending
    /\ pending' = functors
    /\ pc' = "run"
    /\ UNCHANGED <<looping, quit, calling, eventfd, active, calls, history>>

EnterFunctor ==
    /\ LoopStep
    /\ pc = "run"
    /\ functors # <<>>
    /\ ran' = Append(ran, Head(functors))
    /\ functors' = Tail(functors)
    /\ pc' = "functor"
    /\ UNCHANGED <<looping, quit, calling, pending, eventfd, active, calls,
                   submitted, silent>>

LeaveFunctor ==
    /\ LoopStep
    /\ pc = "functor"
    /\ pc' = "run"
    /\ UNCHANGED <<looping, quit, calling, pending, functors, eventfd, active,
                   calls, history>>

LeavePendingFunctors ==
    /\ LoopStep
    /\ pc = "run"
    /\ functors = <<>>
    /\ calling' = FALSE
    /\ pc' = "test"
    /\ UNCHANGED <<looping, quit, pending, functors, eventfd, active, calls,
                   history>>

-----------------------------------------------------------------------------
(* What the loop thread does without the environment's help: a poll       *)
(* returns by itself only when the eventfd is readable.                    *)
PollWoken == eventfd > 0 /\ PollReady

LoopProgress ==
    \/ TestQuit
    \/ PollWoken
    \/ handleRead
    \/ EnterCallback
    \/ LeaveCallback
    \/ EnterPendingFunctors
    \/ SwapPendingFunctors
    \/ EnterFunctor
    \/ LeaveFunctor
    \/ LeavePendingFunctors

Call(t) ==
    \/ \E f \in Functors : queueInLoop(t, f) \/ runInLoop(t, f)
    \/ Quit(t)
    \/ wakeup(t)

Next ==
    \/ \E t \in Threads : Call(t)
    \/ Loop
    \/ PollReady
    \/ PollTimeout
    \/ LoopProgress

Spec == Init /\ [][Next]_vars

(* Callbacks and functors return, the loop thread is scheduled, and a      *)
(* thread that has pushed goes on to its wakeup().  Nobody is obliged to   *)
(* call anything, and no channel to become ready.                          *)
Fairness ==
    /\ WF_vars(LoopProgress)
    /\ \A t \in Threads : WF_vars(wakeup(t))

FairSpec == Spec /\ Fairness

-----------------------------------------------------------------------------
(* looping_ and callingPendingFunctors_ are true exactly between the       *)
(* assignments that bracket loop() and doPendingFunctors(), and the batch  *)
(* is empty outside the latter.                                            *)
Brackets ==
    /\ looping <=> pc # "idle"
    /\ calling <=> pc \in {"swap", "run", "functor"}
    /\ pc \notin {"run", "functor"} => functors = <<>>

VarTypes ==
    /\ looping \in BOOLEAN
    /\ quit \in BOOLEAN
    /\ calling \in BOOLEAN
    /\ pending \in Seq(Functors)
    /\ functors \in Seq(Functors)
    /\ eventfd \in 0..MaxEventfd
    /\ active \in Seq({"timerfd", "wakeup", "io"})
    /\ pc \in {"idle", "test", "poll", "dispatch", "callback", "swap", "run",
               "functor"}
    /\ calls \in [Threads -> {"none", "wake"}]
    /\ ran \in Seq(Functors)
    /\ submitted \subseteq Functors
    /\ silent \subseteq submitted

(* Every variable has its type, and the loop thread's flags agree with the *)
(* place where it is.                                                      *)
TypeOK == VarTypes /\ Brackets

(* The poll will return: the eventfd is readable, or a caller is on its    *)
(* way to write it.                                                        *)
Signalled == eventfd > 0 \/ \E t \in Threads : calls[t] = "wake"

(* wakeup()'s purpose (eventloop.cc:178): the loop thread never blocks in  *)
(* poll with a functor queued, or with quit_ set, that nobody is about to  *)
(* wake it for.  The exception is what the code leaves out: a functor that *)
(* the loop thread queues before loop() has no wakeup and waits for the    *)
(* next event or for kPollTimeMs.                                          *)
NoLostWakeup ==
    pc = "poll" /\ (quit \/ ~(Range(pending) \subseteq silent)) => Signalled

(* doPendingFunctors runs a snapshot: a functor queued while it runs waits *)
(* for the next iteration, after the next poll, so functors that requeue   *)
(* themselves cannot keep the loop from its channels.                      *)
BatchOnlyShrinks ==
    [][calling /\ pc # "swap" =>
          \/ functors' = functors
          \/ functors # <<>> /\ functors' = Tail(functors)]_vars

(* Seen from its callers the loop is a FIFO executor: what is still to run *)
(* is the rest of the batch followed by pendingFunctors_.                  *)
FQ == INSTANCE FunctorQueue WITH queue <- functors \o pending

ImplementsFunctorQueue == FQ!Spec

(* A functor queued while the loop runs is run, unless the loop stops,     *)
(* without help from the poll's timeout or from other channels.            *)
QueuedIsRunPromptly ==
    \A f \in Functors :
        (pc # "idle" /\ f \in Range(pending) /\ f \notin silent)
            ~> (f \in Range(ran) \/ pc = "idle")

(* quit() called on a running loop ends it, whichever thread calls it and  *)
(* wherever the loop is, again without help from the timeout.              *)
QuitEndsLoop == (pc # "idle" /\ quit) ~> (pc = "idle")
=============================================================================
