----------------------------- MODULE TimerQueue -----------------------------
(***************************************************************************)
(* leanet::TimerQueue (src/leanet/timerqueue.cc): the timers of one loop,  *)
(* kept by expiration in timers_ and by identity in activeTimers_, and the *)
(* one timerfd that is armed for the earliest of them.                     *)
(*                                                                         *)
(* A Timer is a heap object behind a raw pointer: its address is given out *)
(* again once it is deleted, so identity is the pair (address, sequence).  *)
(* Calls made on the loop thread act at once; those of another thread go   *)
(* through the loop's queue of functors, which is FIFO (EventLoop          *)
(* implements FunctorQueue).  The clock may advance between any two steps. *)
(***************************************************************************)
EXTENDS Integers, Sequences, FiniteSets

CONSTANTS Addrs,        \* addresses that new Timer can return
          Intervals,    \* the intervals asked for; 0 for a timer run once
          MaxTimers,    \* bound: timers created
          MaxQueue,     \* bound: calls of the other thread not run yet
          Horizon       \* bound: the clock stops there

ASSUME TimerAssumption ==
    /\ Addrs \subseteq Nat
    /\ Intervals \subseteq Nat
    /\ MaxTimers \in Nat /\ MaxQueue \in Nat /\ Horizon \in Nat

Free == [seq |-> 0, when |-> 0, interval |-> 0]   \* no Timer at an address
Disarmed == -1                                    \* timerfd_ never readable
Nobody == <<>>                                    \* no call in progress

(* The first moment of the clock is 1: 0 is Timestamp::invalid().          *)
Times == 0..Horizon

VARIABLES
    now,                \* Timestamp::now()
    heap,               \* the Timer at each address, or Free
    numCreated,         \* Timer::numCreated_
    timers,             \* timers_: pairs <<expiration, address>>
    activeTimers,       \* activeTimers_: pairs <<address, sequence>>
    cancelingTimers,    \* cancelingTimers_
    calling,            \* callingExpiredTimers_
    expired,            \* handleRead's vector, empty outside it
    toRun,              \* the part of expired whose callbacks are to be run
    readAt,             \* handleRead's now
    deadline,           \* when timerfd_ becomes readable, or Disarmed
    pc,                 \* loop thread: "idle", "running" or "callback"
    queue,              \* calls queued to the loop by the other thread
    caller,             \* other thread: in addTimer with this TimerId, or Nobody
    ids,                \* TimerIds that addTimer has returned
    cancelled           \* history: pending timers that were cancelled

loopVars == <<timers, activeTimers, cancelingTimers, calling, expired, toRun,
              readAt, deadline, pc>>
callVars == <<numCreated, queue, caller, ids, cancelled>>
vars == <<now, heap, loopVars, callVars>>

Init ==
    /\ now = 1
    /\ heap = [p \in Addrs |-> Free]
    /\ numCreated = 0
    /\ timers = {}
    /\ activeTimers = {}
    /\ cancelingTimers = {}
    /\ calling \in BOOLEAN        \* left uninitialized by the constructor
    /\ expired = {}
    /\ toRun = {}
    /\ readAt = 0
    /\ deadline = Disarmed
    /\ pc = "idle"
    /\ queue = <<>>
    /\ caller = Nobody
    /\ ids = {}
    /\ cancelled = {}

Allocated == {p \in Addrs : heap[p] # Free}

Later(a, b) == IF a < b THEN b ELSE a

(* Mutation: no minimum, and a time that has passed disarms the timerfd.   *)
DeadlineUnlessPassed(when) == IF when > now THEN when ELSE Disarmed

(* resetTimerfd: howMuchTimeFromNow is never less than 100 microseconds.   *)
DeadlineFor(when) == Later(when, now + 1)

(* getExpired takes an entry that expires at this very moment.             *)
IsDue(entry, at) == entry[1] <= at

(* The order of timers_: by expiration, then by address.                   *)
Before(e1, e2) == e1[1] < e2[1] \/ (e1[1] = e2[1] /\ e1[2] < e2[2])

Earliest(entries) == CHOOSE e \in entries : \A o \in entries \ {e} : Before(e, o)

-----------------------------------------------------------------------------
(* The calls.                                                              *)

(* The loop thread runs caller code in a timer's callback, and in the      *)
(* callbacks and functors between two calls of handleRead.                 *)
InUserCode == pc \in {"idle", "callback"}

(* new Timer(cb, when, interval)                                           *)
NewTimer(p, when, interval) ==
    /\ heap[p] = Free
    /\ numCreated < MaxTimers
    /\ numCreated' = numCreated + 1
    /\ heap' = [heap EXCEPT ![p] =
                  [seq |-> numCreated + 1, when |-> when, interval |-> interval]]

(* addTimerInLoop and insert.                                              *)
addTimerInLoop(p, timer) ==
    /\ timers' = timers \union {<<timer.when, p>>}
    /\ activeTimers' = activeTimers \union {<<p, timer.seq>>}
    /\ deadline' = IF \A e \in timers : timer.when < e[1]
                   THEN DeadlineFor(timer.when) ELSE deadline

addTimer(p, when, interval) ==
    /\ InUserCode
    /\ NewTimer(p, when, interval)
    /\ addTimerInLoop(p, heap'[p])
    /\ ids' = ids \union {<<p, numCreated'>>}
    /\ UNCHANGED <<now, cancelingTimers, calling, expired, toRun, readAt, pc,
                   queue, caller, cancelled>>

(* Mutation: timers_ searched at the present time.                         *)
EntryNow(id) == <<now, id[1]>>

(* The key of a pending timer in timers_.                                  *)
Entry(id) == <<heap[id[1]].when, id[1]>>

(* cancelTimerInLoop: a pending timer is deleted; one that may be in the   *)
(* expired vector is noted, so that reset() does not insert it again.      *)
cancelTimerInLoop(id) ==
    /\ IF id \in activeTimers
       THEN /\ timers' = timers \ {Entry(id)}
            /\ activeTimers' = activeTimers \ {id}
            /\ heap' = [heap EXCEPT ![id[1]] = Free]
            /\ UNCHANGED cancelingTimers
       ELSE /\ cancelingTimers' = IF calling THEN cancelingTimers \union {id}
                                  ELSE cancelingTimers
            /\ UNCHANGED <<timers, activeTimers, heap>>
    /\ cancelled' =
          IF id \in activeTimers \/ \E e \in expired :
                                       id = <<e[2], heap[e[2]].seq>>
          THEN cancelled \union {id} ELSE cancelled

cancelTimer(id) ==
    /\ InUserCode
    /\ cancelTimerInLoop(id)
    /\ UNCHANGED <<now, calling, expired, toRun, readAt, deadline, pc,
                   numCreated, queue, caller, ids>>

(* addTimer on another thread: the Timer is created and queued there; then *)
(* its sequence is read through a pointer that the loop owns by now.  If   *)
(* the loop has deleted the Timer, the TimerId is garbage.                 *)
AddElsewhere(p, when, interval) ==
    /\ caller = Nobody
    /\ Len(queue) < MaxQueue
    /\ NewTimer(p, when, interval)
    /\ queue' = Append(queue, [op |-> "add", timer |-> <<p, numCreated'>>])
    /\ caller' = <<p, numCreated'>>
    /\ UNCHANGED <<now, loopVars, ids, cancelled>>

ReturnTimerId ==
    /\ caller # Nobody
    /\ ids' = IF heap[caller[1]].seq = caller[2] THEN ids \union {caller} ELSE ids
    /\ caller' = Nobody
    /\ UNCHANGED <<now, heap, loopVars, numCreated, queue, cancelled>>

CancelElsewhere(id) ==
    /\ caller = Nobody
    /\ Len(queue) < MaxQueue
    /\ queue' = Append(queue, [op |-> "cancel", timer |-> id])
    /\ UNCHANGED <<now, heap, loopVars, numCreated, caller, ids, cancelled>>

(* The loop runs the oldest queued functor.                                *)
RunQueued ==
    /\ pc = "idle"
    /\ queue # <<>>
    /\ queue' = Tail(queue)
    /\ LET call == Head(queue) IN
       \/ /\ call.op = "add"
          /\ addTimerInLoop(call.timer[1], heap[call.timer[1]])
          /\ UNCHANGED <<heap, cancelingTimers, cancelled>>
       \/ /\ call.op = "cancel"
          /\ cancelTimerInLoop(call.timer)
          /\ UNCHANGED deadline
    /\ UNCHANGED <<now, calling, expired, toRun, readAt, pc, numCreated, caller,
                   ids>>

-----------------------------------------------------------------------------
(* handleRead, in three parts: take the expired timers, run each, reset.   *)

(* At the horizon the clock stands for all the time that is left.          *)
Readable == deadline # Disarmed /\ (now >= deadline \/ now = Horizon)

EnterCallbacks == cancelingTimers' = {} /\ calling' = TRUE

(* The read of the timerfd disarms it; getExpired.                         *)
TakeExpired ==
    /\ pc = "idle"
    /\ Readable
    /\ readAt' = now
    /\ deadline' = Disarmed
    /\ expired' = {e \in timers : IsDue(e, now)}
    /\ toRun' = expired'
    /\ timers' = timers \ expired'
    /\ activeTimers' = {id \in activeTimers : \A e \in expired' : e[2] # id[1]}
    /\ EnterCallbacks
    /\ pc' = "running"
    /\ UNCHANGED <<now, heap, callVars>>

RunTimer ==
    /\ pc = "running"
    /\ toRun # {}
    /\ toRun' = toRun \ {Earliest(toRun)}
    /\ pc' = "callback"
    /\ UNCHANGED <<now, heap, timers, activeTimers, cancelingTimers, calling,
                   expired, readAt, deadline, callVars>>

CallbackReturns ==
    /\ pc = "callback"
    /\ pc' = "running"
    /\ UNCHANGED <<now, heap, timers, activeTimers, cancelingTimers, calling,
                   expired, toRun, readAt, deadline, callVars>>

(* Mutation: cancelingTimers_ is not consulted.                            *)
RestartedAll == {p \in {e[2] : e \in expired} : heap[p].interval > 0}

(* The expired timers that reset() inserts again, and their new time.      *)
Restarted ==
    {p \in {e[2] : e \in expired} :
        heap[p].interval > 0 /\ <<p, heap[p].seq>> \notin cancelingTimers}

restart(p) == [heap[p] EXCEPT !.when = readAt + heap[p].interval]

(* Mutation: a timer that is not inserted again is not deleted.            *)
HeapLeaked == [p \in Addrs |-> IF p \in Restarted THEN restart(p) ELSE heap[p]]

HeapAfterReset ==
    [p \in Addrs |-> IF p \in Restarted THEN restart(p)
                     ELSE IF \E e \in expired : e[2] = p THEN Free ELSE heap[p]]

(* Mutation: the timerfd is not armed again.                               *)
NoNextDeadline(entries) == deadline

(* resetTimerfd for the first timer, unless its time is invalid().         *)
NextDeadline(entries) ==
    IF entries # {} /\ Earliest(entries)[1] > 0
    THEN DeadlineFor(Earliest(entries)[1]) ELSE deadline

reset ==
    /\ pc = "running"
    /\ toRun = {}
    /\ calling' = FALSE
    /\ heap' = HeapAfterReset
    /\ timers' = timers \union {<<restart(p).when, p>> : p \in Restarted}
    /\ activeTimers' = activeTimers \union {<<p, heap[p].seq>> : p \in Restarted}
    /\ deadline' = NextDeadline(timers')
    /\ expired' = {}
    /\ pc' = "idle"
    /\ UNCHANGED <<now, cancelingTimers, toRun, readAt, callVars>>

Tick ==
    /\ now < Horizon
    /\ now' = now + 1
    /\ UNCHANGED <<heap, loopVars, callVars>>

Next ==
    \/ \E p \in Addrs, when \in Times, interval \in Intervals :
          addTimer(p, when, interval) \/ AddElsewhere(p, when, interval)
    \/ \E id \in ids : cancelTimer(id) \/ CancelElsewhere(id)
    \/ ReturnTimerId
    \/ RunQueued
    \/ TakeExpired
    \/ RunTimer
    \/ CallbackReturns
    \/ reset
    \/ Tick

Spec == Init /\ [][Next]_vars

(* Time passes, the loop polls a readable timerfd and callbacks return.    *)
FairSpec ==
    /\ Spec
    /\ WF_vars(Tick)
    /\ WF_vars(TakeExpired)
    /\ WF_vars(RunTimer \/ CallbackReturns \/ reset)

-----------------------------------------------------------------------------
TimerIds == Addrs \X (1..MaxTimers)

Entries == Nat \X Addrs

(* Every variable has its type, and callingExpiredTimers_ is set whenever  *)
(* callbacks of a batch run (timerqueue.cc:151).                           *)
TypeOK ==
    /\ now \in Nat
    /\ heap \in [Addrs -> [seq : Nat, when : Nat, interval : Nat]]
    /\ numCreated \in 0..MaxTimers
    /\ timers \subseteq Entries
    /\ activeTimers \subseteq TimerIds
    /\ cancelingTimers \subseteq TimerIds
    /\ calling \in BOOLEAN
    /\ expired \subseteq Entries
    /\ toRun \subseteq expired
    /\ readAt \in Nat
    /\ deadline \in Nat \union {Disarmed}
    /\ pc \in {"idle", "running", "callback"}
    /\ queue \in Seq([op : {"add", "cancel"}, timer : TimerIds])
    /\ caller \in TimerIds \union {Nobody}
    /\ ids \subseteq TimerIds
    /\ cancelled \subseteq TimerIds
    /\ pc # "idle" => calling

Queued == {queue[i].timer : i \in {j \in DOMAIN queue : queue[j].op = "add"}}

(* timers_ and activeTimers_ are two indexes of one set of live timers:    *)
(* each entry is at the timer's own expiration, also after restart().      *)
(* The types are checked along with it.                                    *)
IndexesAgree ==
    /\ TypeOK
    /\ \A id \in activeTimers : id[1] \in Allocated /\ heap[id[1]].seq = id[2]
    /\ timers = {<<heap[id[1]].when, id[1]>> : id \in activeTimers}

(* Every Timer has one owner: it is pending, or in handleRead's vector, or *)
(* on its way to the loop.  None is leaked, none is freed while referred   *)
(* to, and none is both pending and about to be deleted by reset().        *)
OneOwner ==
    LET pendingTimers == {id[1] : id \in activeTimers}
        runningTimers == {e[2] : e \in expired}
        queuedTimers == {id[1] : id \in Queued}
    IN  /\ Allocated = pendingTimers \union runningTimers \union queuedTimers
        /\ pendingTimers \intersect runningTimers = {}
        /\ pendingTimers \intersect queuedTimers = {}
        /\ runningTimers \intersect queuedTimers = {}

(* Whenever a timer is pending outside handleRead the timerfd is armed,    *)
(* and fires no later than the earliest of them, or 100us from now if that *)
(* one is due: through cancellations, timers added by callbacks, repeated  *)
(* timers and handleRead calls that find nothing expired.                  *)
TimerfdInTime ==
    \A e \in timers : pc = "idle" =>
        deadline # Disarmed /\ deadline <= DeadlineFor(e[1])

(* A pending or running timer that is cancelled is never pending again,    *)
(* not even a repeated one cancelled by its own callback or by another     *)
(* timer's in the same batch, and whatever reuses its address.             *)
CancelledStaysCancelled == cancelled \intersect activeTimers = {}

(* A timer that is due runs: it leaves activeTimers_, by expiring or by    *)
(* being cancelled.                                                        *)
DueTimerExpires ==
    \A id \in TimerIds :
        (id \in activeTimers /\ heap[id[1]].when <= Horizon)
            ~> (id \notin activeTimers)
=============================================================================
