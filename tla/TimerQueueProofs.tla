-------------------------- MODULE TimerQueueProofs --------------------------
(***************************************************************************)
(* Proofs about TimerQueue, for any addresses, intervals and bounds.       *)
(***************************************************************************)
EXTENDS TimerQueue, WellFoundedInduction, TLAPS

(* The three places that a Timer can be in, for one address.               *)
IsPending(p) == \E id \in activeTimers : id[1] = p
IsRunning(p) == \E e \in expired : e[2] = p
IsQueued(p) == \E i \in 1..Len(queue) :
                   queue[i].op = "add" /\ queue[i].timer[1] = p

(* A Timer has a sequence that was given out, and memory without one none. *)
SequencesGiven == \A p \in Addrs : heap[p] = Free \/ heap[p].seq \in 1..numCreated

(* What is in handleRead's vector is allocated, at its time; the vector is *)
(* empty outside handleRead, and the time it is read at is a valid one.    *)
BatchAgrees ==
    /\ now >= 1
    /\ pc # "idle" => readAt >= 1
    /\ expired # {} => pc # "idle"
    /\ \A e \in expired : heap[e[2]] # Free /\ heap[e[2]].when = e[1]

(* A Timer on its way to the loop is in the queue once.                    *)
QueueAgrees ==
    \A i \in 1..Len(queue) : queue[i].op = "add" =>
        /\ heap[queue[i].timer[1]].seq = queue[i].timer[2]
        /\ \A j \in 1..Len(queue) :
              queue[j].op = "add" /\ queue[j].timer[1] = queue[i].timer[1] => i = j

OwnedOnce ==
    \A p \in Addrs :
        /\ heap[p] # Free <=> IsPending(p) \/ IsRunning(p) \/ IsQueued(p)
        /\ ~(IsPending(p) /\ IsRunning(p))
        /\ ~(IsPending(p) /\ IsQueued(p))
        /\ ~(IsRunning(p) /\ IsQueued(p))

(* A cancelled Timer that is not deleted yet waits for reset(), which finds *)
(* it in cancelingTimers_.  Sequences are not given out twice.             *)
CancelledOrNoted ==
    \A id \in cancelled :
        /\ id[2] <= numCreated
        /\ heap[id[1]].seq = id[2] => id \in cancelingTimers /\ IsRunning(id[1])

(* resetTimerfd is skipped for a time that is invalid(), and a Timer may   *)
(* have that time: then the timerfd is armed already.                      *)
ArmedInTime ==
    \A e \in timers : pc = "idle" \/ e[1] = 0 =>
        deadline # Disarmed /\ deadline <= DeadlineFor(e[1])

TimerInv ==
    /\ IndexesAgree
    /\ SequencesGiven
    /\ BatchAgrees
    /\ QueueAgrees
    /\ OwnedOnce
    /\ CancelledOrNoted
    /\ ArmedInTime

-----------------------------------------------------------------------------
(* The order of timers_.                                                   *)

(* A set of numbers has a least one.                                       *)
LEMMA LeastNumber ==
    ASSUME NEW S \in SUBSET Nat, S # {}
    PROVE  \E m \in S : \A n \in S : m <= n
<1> DEFINE less == {ij \in Nat \X Nat : ij[1] < ij[2]}
<1>1. IsWellFoundedOn(less, Nat)
  BY NatLessThanWellFounded DEF OpToRel
<1>2. PICK m \in S : \A n \in S : <<n, m>> \notin less
  BY <1>1, WFMin
<1> SUFFICES ASSUME NEW n \in S PROVE m <= n
  OBVIOUS
<1>3. n \in Nat /\ m \in Nat
  OBVIOUS
<1>4. <<n, m>> \in Nat \X Nat /\ <<n, m>>[1] = n /\ <<n, m>>[2] = m
  BY <1>3
<1>5. ~(n < m)
  BY <1>2, <1>4, Zenon
<1> QED
  BY <1>3, <1>5

(* Earliest, a CHOOSE, is an entry, and none is before it.                 *)
LEMMA EarliestIsFirst ==
    ASSUME NEW S \in SUBSET Entries, S # {}
    PROVE  /\ Earliest(S) \in S
           /\ \A e \in S : Earliest(S)[1] <= e[1]
<1> DEFINE whens == {e[1] : e \in S}
<1>1. PICK when \in whens : \A w \in whens : when <= w
  <2>1. whens \in SUBSET Nat /\ whens # {}
    BY DEF Entries
  <2> QED
    BY <2>1, LeastNumber
<1> DEFINE addrs == {e[2] : e \in {f \in S : f[1] = when}}
<1>2. PICK p \in addrs : \A q \in addrs : p <= q
  <2>1. addrs \in SUBSET Nat /\ addrs # {}
    BY TimerAssumption DEF Entries
  <2> QED
    BY <2>1, LeastNumber
<1>3. PICK first \in S : first[1] = when /\ first[2] = p
  OBVIOUS
<1>4. \A e \in S \ {first} : Before(first, e)
  <2> SUFFICES ASSUME NEW e \in S, e # first PROVE Before(first, e)
    OBVIOUS
  <2>1. e[1] \in Nat /\ e[2] \in Nat /\ first[1] \in Nat /\ first[2] \in Nat
    BY TimerAssumption DEF Entries
  <2>2. e[1] # first[1] \/ e[2] # first[2]
    BY DEF Entries
  <2>3. first[1] <= e[1]
    BY <1>1, <1>3
  <2>4. e[1] = first[1] => first[2] <= e[2]
    BY <1>2, <1>3
  <2> QED
    BY <2>1, <2>2, <2>3, <2>4 DEF Before
<1>5. /\ Earliest(S) \in S
      /\ \A o \in S \ {Earliest(S)} : Before(Earliest(S), o)
  BY <1>4 DEF Earliest
<1>6. \A e \in S : e[1] \in Nat
  BY DEF Entries
<1> QED
  BY <1>5, <1>6 DEF Before
-----------------------------------------------------------------------------
(* What the invariant says of one address.                                 *)

(* Memory holds a Timer exactly if it holds a sequence.                    *)
LEMMA FreeHasNoSequence ==
    ASSUME TypeOK, SequencesGiven, NEW p \in Addrs
    PROVE  heap[p] = Free <=> heap[p].seq = 0
BY DEF SequencesGiven, Free, TypeOK

(* A pending Timer is at its own address with its own sequence, and no     *)
(* other is pending there.                                                 *)
LEMMA PendingTimer ==
    ASSUME IndexesAgree, NEW id \in activeTimers
    PROVE  /\ id[1] \in Addrs /\ id[2] \in 1..MaxTimers
           /\ id = <<id[1], id[2]>>
           /\ heap[id[1]] # Free
           /\ heap[id[1]].seq = id[2]
           /\ <<heap[id[1]].when, id[1]>> \in timers
BY DEF IndexesAgree, TypeOK, TimerIds, Allocated

LEMMA TimersAre ==
    IndexesAgree => timers = {<<heap[id[1]].when, id[1]>> : id \in activeTimers}
BY DEF IndexesAgree

(* An entry of timers_ is the entry of a pending Timer.                    *)
LEMMA TimersEntry ==
    ASSUME IndexesAgree, NEW e \in timers
    PROVE  /\ e[2] \in Addrs
           /\ IsPending(e[2])
           /\ heap[e[2]] # Free
           /\ e[1] = heap[e[2]].when
           /\ e = <<heap[e[2]].when, e[2]>>
<1>1. PICK id \in activeTimers : e = <<heap[id[1]].when, id[1]>>
  BY DEF IndexesAgree
<1> QED
  BY <1>1, PendingTimer DEF IsPending

(* addTimerInLoop keeps the two indexes equal and the timerfd in time,     *)
(* given a Timer that is not pending; only its address may have changed.   *)
LEMMA InsertKeeps ==
    ASSUME TimerInv, TypeOK', NEW p \in Addrs, ~IsPending(p),
           heap'[p].seq \in 1..MaxTimers,
           \A q \in Addrs \ {p} : heap'[q] = heap[q],
           addTimerInLoop(p, heap'[p]),
           UNCHANGED <<now, pc>>
    PROVE  /\ IndexesAgree'
           /\ \A q \in Addrs : IsPending(q)' <=> IsPending(q) \/ q = p
           /\ ArmedInTime'
<1> USE DEF TimerInv
<1>1. /\ timers' = timers \union {<<heap'[p].when, p>>}
      /\ activeTimers' = activeTimers \union {<<p, heap'[p].seq>>}
  BY DEF addTimerInLoop
<1>2. \A id \in activeTimers :
         /\ id[1] \in Addrs /\ id[1] # p
         /\ heap'[id[1]] = heap[id[1]]
         /\ heap[id[1]] # Free /\ heap[id[1]].seq = id[2]
  BY PendingTimer DEF IsPending
<1>3. \A id \in activeTimers' : id[1] \in Allocated' /\ heap'[id[1]].seq = id[2]
  BY <1>1, <1>2 DEF Allocated, Free
<1>4. timers' = {<<heap'[id[1]].when, id[1]>> : id \in activeTimers'}
  <2>1. ASSUME NEW e \in timers'
        PROVE  \E id \in activeTimers' : e = <<heap'[id[1]].when, id[1]>>
    <3>1. CASE e = <<heap'[p].when, p>>
      <4>1. PICK new \in activeTimers' : new = <<p, heap'[p].seq>>
        BY <1>1
      <4>2. new[1] = p
        BY <4>1
      <4> QED
        BY <3>1, <4>2
    <3>2. CASE e \in timers
      <4>1. PICK id \in activeTimers : e = <<heap[id[1]].when, id[1]>>
        BY <3>2, TimersAre
      <4> QED
        BY <1>1, <1>2, <4>1
    <3> QED
      BY <1>1, <3>1, <3>2
  <2>2. ASSUME NEW id \in activeTimers'
        PROVE  <<heap'[id[1]].when, id[1]>> \in timers'
    <3>1. CASE id \in activeTimers
      BY <1>1, <1>2, <3>1, PendingTimer
    <3> QED
      BY <1>1, <3>1
  <2> QED
    BY <2>1, <2>2
<1>5. \A q \in Addrs : IsPending(q)' <=> IsPending(q) \/ q = p
  <2>1. PICK new \in activeTimers' : new = <<p, heap'[p].seq>>
    BY <1>1
  <2> new[1] = p
    BY <2>1
  <2>2. \A id \in activeTimers' : id \in activeTimers \/ id[1] = p
    BY <1>1
  <2> QED
    BY <1>1, <2>1, <2>2 DEF IsPending
<1>6. ArmedInTime'
  <2> SUFFICES ASSUME NEW e \in timers', pc' = "idle" \/ e[1] = 0
               PROVE  deadline' # Disarmed /\ deadline' <= DeadlineFor(e[1])'
    BY DEF ArmedInTime
  <2>1. /\ now \in Nat /\ heap'[p].when \in Nat /\ e[1] \in Nat
        /\ \A o \in timers : o[1] \in Nat
        /\ deadline \in Nat \union {Disarmed}
    BY DEF IndexesAgree, TypeOK, Entries
  <2>2. CASE \A o \in timers : heap'[p].when < o[1]
    <3>1. deadline' = DeadlineFor(heap'[p].when)
      BY <2>2 DEF addTimerInLoop
    <3>2. heap'[p].when <= e[1]
      BY <1>1, <2>1, <2>2
    <3> QED
      BY <2>1, <3>1, <3>2 DEF DeadlineFor, Later, Disarmed
  <2>3. CASE ~(\A o \in timers : heap'[p].when < o[1])
    <3>1. deadline' = deadline
      BY <2>3 DEF addTimerInLoop
    <3>2. PICK o \in timers : o[1] <= heap'[p].when
      BY <2>1, <2>3
    <3>3. CASE e \in timers
      BY <2>1, <3>1, <3>3 DEF ArmedInTime, DeadlineFor, Later
    <3>4. CASE e = <<heap'[p].when, p>>
      <4>1. o[1] <= e[1] /\ (pc = "idle" \/ o[1] = 0)
        BY <2>1, <3>2, <3>4
      <4>2. deadline # Disarmed /\ deadline <= DeadlineFor(o[1])
        BY <4>1 DEF ArmedInTime
      <4> QED
        BY <2>1, <3>1, <4>1, <4>2 DEF DeadlineFor, Later, Disarmed
    <3> QED
      BY <1>1, <3>3, <3>4
  <2> QED
    BY <2>2, <2>3
<1> QED
  BY <1>3, <1>4, <1>5, <1>6 DEF IndexesAgree

(* cancelTimerInLoop of a pending Timer deletes it: its address is free,   *)
(* its entry gone from both indexes, and nothing else changes.             *)
LEMMA CancelPendingKeeps ==
    ASSUME TimerInv, TypeOK', NEW id \in activeTimers, cancelTimerInLoop(id),
           UNCHANGED <<now, calling, expired, readAt, deadline, pc, numCreated>>
    PROVE  /\ IndexesAgree' /\ SequencesGiven' /\ BatchAgrees'
           /\ CancelledOrNoted' /\ ArmedInTime'
           /\ heap'[id[1]] = Free
           /\ \A q \in Addrs \ {id[1]} : heap'[q] = heap[q]
           /\ \A q \in Addrs : IsPending(q)' <=> IsPending(q) /\ q # id[1]
<1> USE DEF TimerInv
<1>1. /\ timers' = timers \ {<<heap[id[1]].when, id[1]>>}
      /\ activeTimers' = activeTimers \ {id}
      /\ heap' = [heap EXCEPT ![id[1]] = Free]
      /\ cancelingTimers' = cancelingTimers
      /\ cancelled' = cancelled \union {id}
  BY DEF cancelTimerInLoop, Entry
<1>2. heap \in [Addrs -> [seq : Nat, when : Nat, interval : Nat]]
  BY DEF IndexesAgree, TypeOK
<1>3. \A x \in activeTimers :
         /\ x[1] \in Addrs /\ x[2] \in 1..MaxTimers /\ x = <<x[1], x[2]>>
         /\ heap[x[1]] # Free /\ heap[x[1]].seq = x[2]
  BY PendingTimer
<1>4. \A x \in activeTimers : x[1] = id[1] => x = id
  <2> SUFFICES ASSUME NEW x \in activeTimers, x[1] = id[1] PROVE x = id
    OBVIOUS
  <2>1. x[2] = id[2]
    BY <1>3
  <2> QED
    BY <1>3, <2>1
<1>5. heap'[id[1]] = Free /\ \A q \in Addrs \ {id[1]} : heap'[q] = heap[q]
  BY <1>1, <1>2, <1>3
<1>6. \A q \in Addrs : IsPending(q)' <=> IsPending(q) /\ q # id[1]
  BY <1>1, <1>4 DEF IsPending
<1>7. \A x \in activeTimers' : x[1] \in Allocated' /\ heap'[x[1]].seq = x[2]
  BY <1>1, <1>3, <1>4, <1>5 DEF Allocated
<1>8. timers' = {<<heap'[x[1]].when, x[1]>> : x \in activeTimers'}
  <2>1. ASSUME NEW e \in timers'
        PROVE  \E x \in activeTimers' : e = <<heap'[x[1]].when, x[1]>>
    <3>1. PICK x \in activeTimers : e = <<heap[x[1]].when, x[1]>>
      BY <1>1, <2>1, TimersAre
    <3>2. x # id
      BY <1>1, <3>1
    <3>3. heap'[x[1]] = heap[x[1]]
      BY <1>3, <1>4, <1>5, <3>2
    <3> QED
      BY <1>1, <3>1, <3>2, <3>3
  <2>2. ASSUME NEW x \in activeTimers'
        PROVE  <<heap'[x[1]].when, x[1]>> \in timers'
    <3>1. x \in activeTimers /\ x # id /\ x[1] # id[1]
      BY <1>1, <1>4
    <3>2. heap'[x[1]] = heap[x[1]]
      BY <1>3, <1>5, <3>1
    <3>3. <<heap[x[1]].when, x[1]>> \in timers
      BY <3>1, PendingTimer
    <3> QED
      BY <1>1, <3>1, <3>2, <3>3
  <2> QED
    BY <2>1, <2>2
<1>9. IndexesAgree'
  BY <1>7, <1>8 DEF IndexesAgree
<1>10. SequencesGiven'
  BY <1>5 DEF SequencesGiven
<1>11. \A q \in Addrs : IsRunning(q) => q # id[1]
  BY <1>3 DEF OwnedOnce, IsPending
<1>12. BatchAgrees'
  <2>1. \A e \in expired : e[2] \in Addrs /\ IsRunning(e[2])
    BY DEF IndexesAgree, TypeOK, Entries, IsRunning
  <2>2. \A e \in expired : heap'[e[2]] = heap[e[2]]
    BY <1>5, <1>11, <2>1
  <2> QED
    BY <2>2 DEF BatchAgrees
<1>13. CancelledOrNoted'
  <2> SUFFICES ASSUME NEW x \in cancelled'
               PROVE  /\ x[2] <= numCreated
                      /\ heap'[x[1]].seq = x[2] => x \in cancelingTimers /\ IsRunning(x[1])
    BY <1>1 DEF CancelledOrNoted, IsRunning
  <2>1. id[2] <= numCreated /\ heap'[id[1]].seq # id[2]
    BY <1>3, <1>5 DEF SequencesGiven, Free
  <2>2. CASE x \in cancelled
    <3>1. x[1] \in Addrs /\ x[2] \in 1..MaxTimers
      BY <2>2 DEF IndexesAgree, TypeOK, TimerIds
    <3>2. heap'[x[1]].seq = x[2] => x[1] # id[1]
      BY <1>5, <3>1 DEF Free
    <3> QED
      BY <1>5, <2>2, <3>1, <3>2 DEF CancelledOrNoted
  <2> QED
    BY <1>1, <2>1, <2>2
<1>14. ArmedInTime'
  BY <1>1 DEF ArmedInTime, DeadlineFor, Later
<1> QED
  BY <1>5, <1>6, <1>9, <1>10, <1>12, <1>13, <1>14

(* Otherwise it deletes nothing, and notes a Timer of the batch that runs. *)
LEMMA CancelOtherKeeps ==
    ASSUME TimerInv, TypeOK', NEW id \in TimerIds, id \notin activeTimers,
           cancelTimerInLoop(id),
           UNCHANGED <<now, calling, expired, readAt, deadline, pc, numCreated>>
    PROVE  /\ IndexesAgree' /\ SequencesGiven' /\ BatchAgrees'
           /\ CancelledOrNoted' /\ ArmedInTime'
           /\ heap' = heap
           /\ \A q \in Addrs : IsPending(q)' <=> IsPending(q)
<1> USE DEF TimerInv
<1>1. UNCHANGED <<timers, activeTimers, heap>>
  BY DEF cancelTimerInLoop
<1>2. IndexesAgree'
  BY <1>1 DEF IndexesAgree, Allocated
<1>3. SequencesGiven' /\ BatchAgrees'
  BY <1>1 DEF SequencesGiven, BatchAgrees
<1>4. ArmedInTime'
  BY <1>1 DEF ArmedInTime, DeadlineFor, Later
<1>5. \A q \in Addrs : IsPending(q)' <=> IsPending(q)
  BY <1>1 DEF IsPending
<1>6. CancelledOrNoted'
  <2>1. cancelingTimers \subseteq cancelingTimers'
    BY DEF cancelTimerInLoop
  <2>2. CASE \E e \in expired : id = <<e[2], heap[e[2]].seq>>
    <3>1. PICK e \in expired : id = <<e[2], heap[e[2]].seq>>
      BY <2>2
    <3>2. e[2] \in Addrs /\ heap[e[2]] # Free /\ id[1] = e[2] /\ id[2] = heap[e[2]].seq
      BY <3>1 DEF IndexesAgree, TypeOK, Entries, BatchAgrees
    <3>3. id[2] <= numCreated
      BY <3>2 DEF SequencesGiven
    <3>4. calling
      BY DEF IndexesAgree, TypeOK, BatchAgrees
    <3>5. id \in cancelingTimers' /\ IsRunning(id[1])
      BY <3>2, <3>4 DEF cancelTimerInLoop, IsRunning
    <3>6. cancelled' \subseteq cancelled \union {id}
      BY DEF cancelTimerInLoop
    <3> QED
      BY <1>1, <2>1, <3>3, <3>5, <3>6 DEF CancelledOrNoted, IsRunning
  <2>3. CASE ~(\E e \in expired : id = <<e[2], heap[e[2]].seq>>)
    <3>1. cancelled' = cancelled
      BY <2>3 DEF cancelTimerInLoop
    <3> QED
      BY <1>1, <2>1, <3>1 DEF CancelledOrNoted, IsRunning
  <2> QED
    BY <2>2, <2>3
<1> QED
  BY <1>1, <1>2, <1>3, <1>4, <1>5, <1>6

-----------------------------------------------------------------------------
(* The queue of functors.                                                  *)

Calls == [op : {"add", "cancel"}, timer : TimerIds]

LEMMA QueueTyped ==
    ASSUME queue \in Seq(Calls), NEW i \in 1..Len(queue)
    PROVE  queue[i] \in Calls /\ queue[i].timer[1] \in Addrs
<1>1. queue[i] \in Calls
  OBVIOUS
<1>2. queue[i].timer \in TimerIds
  BY <1>1 DEF Calls
<1> QED
  BY <1>1, <1>2 DEF TimerIds

(* A queue that is left alone goes on agreeing with the heap as long as    *)
(* the Timers in it are left alone.                                        *)
LEMMA QueueUntouched ==
    ASSUME QueueAgrees, queue \in Seq(Calls), queue' = queue,
           \A q \in Addrs : IsQueued(q) => heap'[q] = heap[q]
    PROVE  /\ QueueAgrees'
           /\ \A q \in Addrs : IsQueued(q)' <=> IsQueued(q)
<1>1. \A i \in 1..Len(queue) : queue[i].timer[1] \in Addrs
  BY QueueTyped
<1>2. \A i \in 1..Len(queue) : queue[i].op = "add" =>
         heap'[queue[i].timer[1]] = heap[queue[i].timer[1]]
  BY <1>1 DEF IsQueued
<1>3. QueueAgrees'
  BY <1>2 DEF QueueAgrees
<1> QED
  BY <1>3 DEF IsQueued

(* A call put at the end: of a Timer, then one that was not in it.         *)
LEMMA QueueAppended ==
    ASSUME QueueAgrees, queue \in Seq(Calls), NEW call \in Calls,
           queue' = Append(queue, call),
           \A q \in Addrs : IsQueued(q) => heap'[q] = heap[q],
           call.op = "add" => /\ ~IsQueued(call.timer[1])
                              /\ heap'[call.timer[1]].seq = call.timer[2]
    PROVE  /\ QueueAgrees'
           /\ \A q \in Addrs : IsQueued(q)' <=>
                 IsQueued(q) \/ (call.op = "add" /\ call.timer[1] = q)
<1>1. \A i \in 1..Len(queue) : queue[i].timer[1] \in Addrs
  BY QueueTyped
<1>2. \A i \in 1..Len(queue) : queue[i].op = "add" =>
         /\ IsQueued(queue[i].timer[1])
         /\ heap'[queue[i].timer[1]] = heap[queue[i].timer[1]]
  BY <1>1 DEF IsQueued
<1>3. /\ Len(queue) \in Nat /\ Len(queue') = Len(queue) + 1
      /\ \A i \in 1..Len(queue) : queue'[i] = queue[i]
      /\ queue'[Len(queue) + 1] = call
  OBVIOUS
<1>4. \A i \in 1..Len(queue') : i \in 1..Len(queue) \/ i = Len(queue) + 1
  BY <1>3
<1>5. QueueAgrees'
  <2> SUFFICES ASSUME NEW i \in 1..Len(queue'), queue'[i].op = "add"
               PROVE  /\ heap'[queue'[i].timer[1]].seq = queue'[i].timer[2]
                      /\ \A j \in 1..Len(queue') :
                            /\ queue'[j].op = "add"
                            /\ queue'[j].timer[1] = queue'[i].timer[1]
                            => i = j
    BY DEF QueueAgrees
  <2>1. CASE i \in 1..Len(queue)
    BY <1>2, <1>3, <1>4, <2>1 DEF QueueAgrees
  <2>2. CASE i = Len(queue) + 1
    BY <1>2, <1>3, <1>4, <2>2
  <2> QED
    BY <1>4, <2>1, <2>2
<1>6. \A q \in Addrs : IsQueued(q)' <=>
         IsQueued(q) \/ (call.op = "add" /\ call.timer[1] = q)
  BY <1>3, <1>4 DEF IsQueued
<1> QED
  BY <1>5, <1>6

(* The oldest call taken out: its Timer is not in the queue a second time. *)
LEMMA QueueTaken ==
    ASSUME QueueAgrees, queue \in Seq(Calls), queue # <<>>,
           queue' = Tail(queue),
           \A q \in Addrs : IsQueued(q) => heap'[q] = heap[q]
    PROVE  /\ QueueAgrees'
           /\ Head(queue) \in Calls
           /\ Head(queue).op = "add" =>
                 /\ IsQueued(Head(queue).timer[1])
                 /\ heap[Head(queue).timer[1]].seq = Head(queue).timer[2]
           /\ \A q \in Addrs : IsQueued(q)' <=>
                 IsQueued(q) /\ ~(Head(queue).op = "add" /\ Head(queue).timer[1] = q)
<1>1. \A i \in 1..Len(queue) : queue[i] \in Calls /\ queue[i].timer[1] \in Addrs
  BY QueueTyped
<1>2. \A i \in 1..Len(queue) : queue[i].op = "add" =>
         /\ IsQueued(queue[i].timer[1])
         /\ heap'[queue[i].timer[1]] = heap[queue[i].timer[1]]
  BY <1>1 DEF IsQueued
<1>3. /\ Len(queue) \in Nat \ {0} /\ Len(queue') = Len(queue) - 1
      /\ \A i \in 1..Len(queue') : i + 1 \in 1..Len(queue) /\ queue'[i] = queue[i + 1]
      /\ Head(queue) = queue[1]
  OBVIOUS
<1>4. \A i \in 1..Len(queue) : i = 1 \/ (i - 1 \in 1..Len(queue') /\ queue'[i - 1] = queue[i])
  BY <1>3
<1>5. 1 \in 1..Len(queue)
  BY <1>3
<1>6. QueueAgrees'
  <2> SUFFICES ASSUME NEW i \in 1..Len(queue'), queue'[i].op = "add"
               PROVE  /\ heap'[queue'[i].timer[1]].seq = queue'[i].timer[2]
                      /\ \A j \in 1..Len(queue') :
                            /\ queue'[j].op = "add"
                            /\ queue'[j].timer[1] = queue'[i].timer[1]
                            => i = j
    BY DEF QueueAgrees
  <2>1. \A j \in 1..Len(queue') : i + 1 = j + 1 => i = j
    OBVIOUS
  <2> QED
    BY <1>2, <1>3, <2>1 DEF QueueAgrees
<1>7. \A q \in Addrs : IsQueued(q)' <=>
         IsQueued(q) /\ ~(queue[1].op = "add" /\ queue[1].timer[1] = q)
  <2> SUFFICES ASSUME NEW q \in Addrs
               PROVE  IsQueued(q)' <=>
                      IsQueued(q) /\ ~(queue[1].op = "add" /\ queue[1].timer[1] = q)
    OBVIOUS
  <2>1. ASSUME NEW i \in 1..Len(queue'), queue'[i].op = "add", queue'[i].timer[1] = q
        PROVE  IsQueued(q) /\ ~(queue[1].op = "add" /\ queue[1].timer[1] = q)
    <3>1. i + 1 # 1 /\ i + 1 \in 1..Len(queue) /\ queue'[i] = queue[i + 1]
      BY <1>3
    <3> QED
      BY <1>5, <2>1, <3>1 DEF QueueAgrees, IsQueued
  <2>2. ASSUME NEW i \in 1..Len(queue), queue[i].op = "add", queue[i].timer[1] = q,
               ~(queue[1].op = "add" /\ queue[1].timer[1] = q)
        PROVE  IsQueued(q)'
    BY <1>4, <2>2 DEF IsQueued
  <2> QED
    BY <2>1, <2>2 DEF IsQueued
<1> QED
  BY <1>1, <1>2, <1>3, <1>5, <1>6, <1>7 DEF QueueAgrees

-----------------------------------------------------------------------------
(* Each action keeps the invariant.                                        *)

(* What the type invariant says of the queue.                              *)
LEMMA TypeQueue == TypeOK => queue \in Seq(Calls)
BY DEF TypeOK, Calls

(* A new Timer gets an address that nothing refers to.                     *)
LEMMA NewTimerIsNew ==
    ASSUME TimerInv, NEW p \in Addrs, NEW when \in Nat, NEW interval \in Nat,
           NewTimer(p, when, interval)
    PROVE  /\ ~IsPending(p) /\ ~IsRunning(p) /\ ~IsQueued(p)
           /\ numCreated \in Nat /\ numCreated' = numCreated + 1
           /\ numCreated' \in 1..MaxTimers
           /\ heap' \in [Addrs -> [seq : Nat, when : Nat, interval : Nat]]
           /\ heap'[p].seq = numCreated' /\ heap'[p].when = when
           /\ heap'[p] # Free
           /\ \A q \in Addrs \ {p} : heap'[q] = heap[q]
           /\ SequencesGiven'
<1> USE DEF TimerInv
<1>1. /\ heap \in [Addrs -> [seq : Nat, when : Nat, interval : Nat]]
      /\ numCreated \in 0..MaxTimers /\ MaxTimers \in Nat
  BY TimerAssumption DEF IndexesAgree, TypeOK
<1>2. ~IsPending(p) /\ ~IsRunning(p) /\ ~IsQueued(p)
  BY DEF NewTimer, OwnedOnce
<1>3. /\ numCreated \in Nat /\ numCreated' = numCreated + 1
      /\ numCreated' \in 1..MaxTimers
  BY <1>1 DEF NewTimer
<1> DEFINE new == [seq |-> numCreated + 1, when |-> when, interval |-> interval]
<1>4. /\ new \in [seq : Nat, when : Nat, interval : Nat]
      /\ new.seq = numCreated' /\ new.when = when
  BY <1>3
<1>5. heap' = [heap EXCEPT ![p] = new]
  BY DEF NewTimer
<1> HIDE DEF new
<1>6. /\ heap' \in [Addrs -> [seq : Nat, when : Nat, interval : Nat]]
      /\ heap'[p] = new
      /\ \A q \in Addrs \ {p} : heap'[q] = heap[q]
  BY <1>1, <1>4, <1>5
<1>7. heap'[p] # Free
  BY <1>3, <1>4, <1>6 DEF Free
<1>8. SequencesGiven'
  BY <1>3, <1>4, <1>6 DEF SequencesGiven
<1> QED
  BY <1>2, <1>3, <1>4, <1>6, <1>7, <1>8

(* A cancelled Timer is not the new one, whose sequence is new.            *)
LEMMA NewTimerKeepsCancelled ==
    ASSUME TimerInv, NEW p \in Addrs, NEW when \in Nat, NEW interval \in Nat,
           NewTimer(p, when, interval), ~IsRunning(p),
           UNCHANGED <<cancelled, cancelingTimers, expired, now, pc, readAt>>
    PROVE  CancelledOrNoted' /\ BatchAgrees'
<1> USE DEF TimerInv
<1>1. /\ numCreated \in Nat /\ numCreated' = numCreated + 1
      /\ heap'[p].seq = numCreated'
      /\ \A q \in Addrs \ {p} : heap'[q] = heap[q]
  BY NewTimerIsNew
<1>2. \A id \in cancelled : id[1] \in Addrs /\ id[2] \in Nat /\ id[2] <= numCreated
  BY DEF IndexesAgree, TypeOK, TimerIds, CancelledOrNoted
<1>3. CancelledOrNoted'
  BY <1>1, <1>2 DEF CancelledOrNoted, IsRunning
<1>4. \A e \in expired : e[2] \in Addrs /\ e[2] # p
  BY DEF IndexesAgree, TypeOK, Entries, IsRunning
<1>5. BatchAgrees'
  BY <1>1, <1>4 DEF BatchAgrees
<1> QED
  BY <1>3, <1>5

LEMMA addTimerKeeps ==
    ASSUME TimerInv, NEW p \in Addrs, NEW when \in Nat, NEW interval \in Nat,
           addTimer(p, when, interval)
    PROVE  TimerInv'
<1>1. /\ NewTimer(p, when, interval)
      /\ addTimerInLoop(p, heap'[p])
      /\ ids' = ids \union {<<p, numCreated'>>}
      /\ UNCHANGED <<now, cancelingTimers, calling, expired, toRun, readAt, pc,
                     queue, caller, cancelled>>
  BY DEF addTimer
<1>2. /\ ~IsPending(p) /\ ~IsRunning(p) /\ ~IsQueued(p)
      /\ numCreated' \in 1..MaxTimers
      /\ heap' \in [Addrs -> [seq : Nat, when : Nat, interval : Nat]]
      /\ heap'[p].seq = numCreated' /\ heap'[p].when = when
      /\ heap'[p] # Free
      /\ \A q \in Addrs \ {p} : heap'[q] = heap[q]
      /\ SequencesGiven'
  BY <1>1, NewTimerIsNew
<1>3. TypeOK
  BY DEF TimerInv, IndexesAgree
<1>4. TypeOK'
  <2>1. timers' \subseteq Entries
    BY <1>1, <1>2, <1>3 DEF addTimerInLoop, TypeOK, Entries
  <2>2. activeTimers' \subseteq TimerIds /\ ids' \subseteq TimerIds
    BY <1>1, <1>2, <1>3 DEF addTimerInLoop, TypeOK, TimerIds
  <2>3. deadline' \in Nat \union {Disarmed}
    BY <1>1, <1>2, <1>3 DEF addTimerInLoop, TypeOK, DeadlineFor, Later
  <2> QED
    BY <1>1, <1>2, <1>3, <2>1, <2>2, <2>3 DEF TypeOK
<1>5. /\ IndexesAgree' /\ ArmedInTime'
      /\ \A q \in Addrs : IsPending(q)' <=> IsPending(q) \/ q = p
  BY <1>1, <1>2, <1>4, InsertKeeps
<1>6. CancelledOrNoted' /\ BatchAgrees'
  BY <1>1, <1>2, NewTimerKeepsCancelled
<1>7. /\ QueueAgrees'
      /\ \A q \in Addrs : IsQueued(q)' <=> IsQueued(q)
  <2>1. QueueAgrees /\ queue \in Seq(Calls)
    BY <1>3, TypeQueue DEF TimerInv
  <2> QED
    BY <1>1, <1>2, <2>1, QueueUntouched
<1>8. \A q \in Addrs : IsRunning(q)' <=> IsRunning(q)
  BY <1>1 DEF IsRunning
<1>9. OwnedOnce'
  BY <1>2, <1>5, <1>7, <1>8 DEF OwnedOnce, TimerInv
<1> QED
  BY <1>2, <1>5, <1>6, <1>7, <1>9 DEF TimerInv

LEMMA AddElsewhereKeeps ==
    ASSUME TimerInv, NEW p \in Addrs, NEW when \in Nat, NEW interval \in Nat,
           AddElsewhere(p, when, interval)
    PROVE  TimerInv'
<1> DEFINE call == [op |-> "add", timer |-> <<p, numCreated'>>]
<1>1. /\ NewTimer(p, when, interval)
      /\ queue' = Append(queue, call)
      /\ caller' = <<p, numCreated'>>
      /\ UNCHANGED <<now, timers, activeTimers, cancelingTimers, calling, expired,
                     toRun, readAt, deadline, pc, ids, cancelled>>
  BY DEF AddElsewhere, loopVars
<1>2. /\ ~IsPending(p) /\ ~IsRunning(p) /\ ~IsQueued(p)
      /\ numCreated' \in 1..MaxTimers
      /\ heap' \in [Addrs -> [seq : Nat, when : Nat, interval : Nat]]
      /\ heap'[p].seq = numCreated'
      /\ heap'[p] # Free
      /\ \A q \in Addrs \ {p} : heap'[q] = heap[q]
      /\ SequencesGiven'
  BY <1>1, NewTimerIsNew
<1>3. TypeOK /\ queue \in Seq(Calls)
  BY TypeQueue DEF TimerInv, IndexesAgree
<1>4. <<p, numCreated'>> \in TimerIds
  BY <1>2 DEF TimerIds
<1>5. /\ call \in Calls /\ call.op = "add"
      /\ call.timer[1] = p /\ call.timer[2] = numCreated'
  BY <1>4 DEF Calls
<1> HIDE DEF call
<1>6. TypeOK'
  <2>1. queue' \in Seq(Calls)
    <3>1. \A S : \A s \in Seq(S), c \in S : Append(s, c) \in Seq(S)
      OBVIOUS
    <3> QED
      BY <1>1, <1>3, <1>5, <3>1
  <2>2. queue' \in Seq([op : {"add", "cancel"}, timer : TimerIds])
    BY <2>1 DEF Calls
  <2>3. numCreated' \in 0..MaxTimers /\ caller' \in TimerIds \union {Nobody}
    BY <1>1, <1>2, <1>4
  <2>4. heap' \in [Addrs -> [seq : Nat, when : Nat, interval : Nat]]
    BY <1>2
  <2> QED
    BY <1>1, <1>3, <2>2, <2>3, <2>4, SMTT(20) DEF TypeOK
<1>7. /\ QueueAgrees'
      /\ \A q \in Addrs : IsQueued(q)' <=> IsQueued(q) \/ q = p
  <2>1. QueueAgrees
    BY DEF TimerInv
  <2>2. \A q \in Addrs : IsQueued(q) => heap'[q] = heap[q]
    BY <1>2
  <2>3. ~IsQueued(call.timer[1]) /\ heap'[call.timer[1]].seq = call.timer[2]
    BY <1>2, <1>5
  <2>4. /\ QueueAgrees'
        /\ \A q \in Addrs : IsQueued(q)' <=>
              IsQueued(q) \/ (call.op = "add" /\ call.timer[1] = q)
    BY <1>1, <1>3, <1>5, <2>1, <2>2, <2>3, QueueAppended
  <2> QED
    BY <1>5, <2>4
<1>8. CancelledOrNoted' /\ BatchAgrees'
  BY <1>1, <1>2, NewTimerKeepsCancelled
<1>9. IndexesAgree'
  <2>1. \A id \in activeTimers : id[1] \in Addrs /\ id[1] # p /\ heap'[id[1]] = heap[id[1]]
    BY <1>2, PendingTimer DEF IsPending, TimerInv
  <2>2. \A id \in activeTimers' : id[1] \in Allocated' /\ heap'[id[1]].seq = id[2]
    BY <1>1, <2>1, PendingTimer DEF Allocated, TimerInv, Free
  <2>3. timers' = {<<heap'[id[1]].when, id[1]>> : id \in activeTimers'}
    <3>1. timers = {<<heap[id[1]].when, id[1]>> : id \in activeTimers}
      BY TimersAre DEF TimerInv
    <3> QED
      BY <1>1, <2>1, <3>1
  <2> QED
    BY <1>6, <2>2, <2>3 DEF IndexesAgree
<1>10. ArmedInTime'
  BY <1>1 DEF ArmedInTime, TimerInv, DeadlineFor, Later
<1>11. OwnedOnce'
  BY <1>1, <1>2, <1>7 DEF OwnedOnce, TimerInv, IsPending, IsRunning
<1> QED
  BY <1>2, <1>7, <1>8, <1>9, <1>10, <1>11 DEF TimerInv

(* The later of two times, when one of them moves on.                      *)
LEMMA LaterGrows ==
    ASSUME NEW at \in Nat, NEW when \in Nat, NEW m \in Nat, NEW n \in Nat,
           m <= n, at <= Later(when, m + 1)
    PROVE  at <= Later(when, n + 1)
BY DEF Later

(* Steps that change neither the Timers nor the two indexes.               *)
LEMMA TimersUntouched ==
    ASSUME TimerInv, TypeOK',
           UNCHANGED <<heap, numCreated, timers, activeTimers, cancelingTimers,
                       expired, cancelled>>,
           now' \in Nat, now' >= now,
           pc' # "idle" => readAt' >= 1,
           expired # {} => pc' # "idle",
           pc' = "idle" => pc = "idle",
           deadline' = deadline
    PROVE  /\ IndexesAgree' /\ SequencesGiven' /\ BatchAgrees'
           /\ CancelledOrNoted' /\ ArmedInTime'
           /\ \A q \in Addrs : /\ IsPending(q)' <=> IsPending(q)
                               /\ IsRunning(q)' <=> IsRunning(q)
<1> USE DEF TimerInv
<1>1. IndexesAgree' /\ SequencesGiven' /\ CancelledOrNoted'
  BY DEF IndexesAgree, Allocated, SequencesGiven, CancelledOrNoted, IsRunning
<1>2. now \in Nat /\ now >= 1
  BY DEF BatchAgrees, IndexesAgree, TypeOK
<1>3. BatchAgrees'
  BY <1>2 DEF BatchAgrees
<1>4. ArmedInTime'
  <2>1. \A e \in timers : e[1] \in Nat
    BY DEF IndexesAgree, TypeOK, Entries
  <2>2. deadline \in Nat \union {Disarmed}
    BY DEF IndexesAgree, TypeOK
  <2> SUFFICES ASSUME NEW e \in timers, pc = "idle" \/ e[1] = 0
               PROVE  deadline # Disarmed /\ deadline <= DeadlineFor(e[1])'
    BY DEF ArmedInTime
  <2>3. deadline # Disarmed /\ deadline <= DeadlineFor(e[1])
    BY DEF ArmedInTime
  <2>4. e[1] \in Nat /\ deadline \in Nat
    BY <2>1, <2>2, <2>3
  <2>5. now \in Nat /\ now' \in Nat /\ now <= now'
    BY <1>2
  <2>6. deadline <= Later(e[1], now' + 1)
    BY <2>3, <2>4, <2>5, LaterGrows DEF DeadlineFor
  <2> QED
    BY <2>3, <2>6 DEF DeadlineFor
<1> QED
  BY <1>1, <1>3, <1>4 DEF IsPending, IsRunning

LEMMA CancelTyped ==
    ASSUME TypeOK, NEW id, cancelTimerInLoop(id)
    PROVE  heap' \in [Addrs -> [seq : Nat, when : Nat, interval : Nat]]
<1> DEFINE Timer == [seq : Nat, when : Nat, interval : Nat]
<1>1. Free \in Timer
  BY DEF Free
<1>2. heap \in [Addrs -> Timer]
  BY DEF TypeOK
<1>3. heap' = heap \/ heap' = [heap EXCEPT ![id[1]] = Free]
  BY DEF cancelTimerInLoop
<1> HIDE DEF Timer
<1>4. heap' \in [Addrs -> Timer]
  BY <1>1, <1>2, <1>3
<1> QED
  BY <1>4 DEF Timer

LEMMA cancelTimerKeeps ==
    ASSUME TimerInv, NEW id \in ids, cancelTimer(id)
    PROVE  TimerInv'
<1> USE DEF TimerInv
<1>1. TypeOK /\ id \in TimerIds /\ queue \in Seq(Calls)
  BY TypeQueue DEF IndexesAgree, TypeOK
<1>2. /\ cancelTimerInLoop(id)
      /\ UNCHANGED <<now, calling, expired, toRun, readAt, deadline, pc,
                     numCreated, queue, caller, ids>>
  BY DEF cancelTimer
<1>3. TypeOK'
  <2>1. heap' \in [Addrs -> [seq : Nat, when : Nat, interval : Nat]]
    BY <1>1, <1>2, CancelTyped
  <2>2. /\ timers' \subseteq Entries /\ activeTimers' \subseteq TimerIds
        /\ cancelingTimers' \subseteq TimerIds /\ cancelled' \subseteq TimerIds
    BY <1>1, <1>2 DEF cancelTimerInLoop, TypeOK
  <2> QED
    BY <1>1, <1>2, <2>1, <2>2 DEF TypeOK
<1>4. CASE id \in activeTimers
  <2>1. /\ IndexesAgree' /\ SequencesGiven' /\ BatchAgrees'
        /\ CancelledOrNoted' /\ ArmedInTime'
        /\ heap'[id[1]] = Free
        /\ \A q \in Addrs \ {id[1]} : heap'[q] = heap[q]
        /\ \A q \in Addrs : IsPending(q)' <=> IsPending(q) /\ q # id[1]
    BY <1>2, <1>3, <1>4, CancelPendingKeeps
  <2>2. id[1] \in Addrs /\ IsPending(id[1])
    BY <1>4, PendingTimer DEF IsPending
  <2>3. \A q \in Addrs : IsQueued(q) => heap'[q] = heap[q]
    BY <2>1, <2>2 DEF OwnedOnce
  <2>4. /\ QueueAgrees'
        /\ \A q \in Addrs : IsQueued(q)' <=> IsQueued(q)
    BY <1>1, <1>2, <2>3, QueueUntouched
  <2>5. \A q \in Addrs : IsRunning(q)' <=> IsRunning(q)
    BY <1>2 DEF IsRunning
  <2>6. OwnedOnce'
    BY <2>1, <2>2, <2>4, <2>5 DEF OwnedOnce
  <2> QED
    BY <2>1, <2>4, <2>6
<1>5. CASE id \notin activeTimers
  <2>1. /\ IndexesAgree' /\ SequencesGiven' /\ BatchAgrees'
        /\ CancelledOrNoted' /\ ArmedInTime'
        /\ heap' = heap
        /\ \A q \in Addrs : IsPending(q)' <=> IsPending(q)
    BY <1>1, <1>2, <1>3, <1>5, CancelOtherKeeps
  <2>2. /\ QueueAgrees'
        /\ \A q \in Addrs : IsQueued(q)' <=> IsQueued(q)
    BY <1>1, <1>2, <2>1, QueueUntouched
  <2>3. OwnedOnce'
    BY <1>2, <2>1, <2>2 DEF OwnedOnce, IsRunning
  <2> QED
    BY <2>1, <2>2, <2>3
<1> QED
  BY <1>4, <1>5

LEMMA ReturnTimerIdKeeps ==
    ASSUME TimerInv, ReturnTimerId
    PROVE  TimerInv'
<1> USE DEF TimerInv
<1>1. TypeOK /\ queue \in Seq(Calls) /\ now \in Nat
  BY TypeQueue DEF IndexesAgree, TypeOK
<1>2. TypeOK'
  BY <1>1 DEF TypeOK, ReturnTimerId, loopVars
<1>3. UNCHANGED <<now, heap, timers, activeTimers, cancelingTimers, calling, expired,
                  toRun, readAt, deadline, pc, numCreated, queue, cancelled>>
  BY DEF ReturnTimerId, loopVars
<1>4. /\ IndexesAgree' /\ SequencesGiven' /\ BatchAgrees'
      /\ CancelledOrNoted' /\ ArmedInTime'
      /\ \A q \in Addrs : (IsPending(q)' <=> IsPending(q)) /\ (IsRunning(q)' <=> IsRunning(q))
  BY <1>1, <1>2, <1>3, TimersUntouched DEF BatchAgrees
<1>5. QueueAgrees' /\ \A q \in Addrs : IsQueued(q)' <=> IsQueued(q)
  BY <1>1, <1>3, QueueUntouched
<1>6. OwnedOnce'
  BY <1>3, <1>4, <1>5 DEF OwnedOnce
<1> QED
  BY <1>4, <1>5, <1>6

LEMMA CancelElsewhereKeeps ==
    ASSUME TimerInv, NEW id \in ids, CancelElsewhere(id)
    PROVE  TimerInv'
<1> USE DEF TimerInv
<1> DEFINE call == [op |-> "cancel", timer |-> id]
<1>1. TypeOK /\ queue \in Seq(Calls) /\ now \in Nat /\ id \in TimerIds
  BY TypeQueue DEF IndexesAgree, TypeOK
<1>2. call \in Calls /\ call.op = "cancel"
  BY <1>1 DEF Calls
<1>3. /\ queue' = Append(queue, call)
      /\ UNCHANGED <<now, heap, timers, activeTimers, cancelingTimers, calling, expired,
                     toRun, readAt, deadline, pc, numCreated, ids, caller, cancelled>>
  BY DEF CancelElsewhere, loopVars
<1> HIDE DEF call
<1>4. TypeOK'
  <2>1. queue' \in Seq([op : {"add", "cancel"}, timer : TimerIds])
    BY <1>1, <1>2, <1>3 DEF Calls
  <2> QED
    BY <1>1, <1>3, <2>1 DEF TypeOK
<1>5. /\ IndexesAgree' /\ SequencesGiven' /\ BatchAgrees'
      /\ CancelledOrNoted' /\ ArmedInTime'
      /\ \A q \in Addrs : (IsPending(q)' <=> IsPending(q)) /\ (IsRunning(q)' <=> IsRunning(q))
  BY <1>1, <1>3, <1>4, TimersUntouched DEF BatchAgrees
<1>6. QueueAgrees' /\ \A q \in Addrs : IsQueued(q)' <=> IsQueued(q)
  <2>1. /\ QueueAgrees'
        /\ \A q \in Addrs : IsQueued(q)' <=>
              IsQueued(q) \/ (call.op = "add" /\ call.timer[1] = q)
    BY <1>1, <1>2, <1>3, QueueAppended
  <2> QED
    BY <1>2, <2>1
<1>7. OwnedOnce'
  BY <1>3, <1>5, <1>6 DEF OwnedOnce
<1> QED
  BY <1>5, <1>6, <1>7

(* A functor of another thread: the Timer goes from the queue to the       *)
(* indexes, or it is cancelled.                                            *)
LEMMA RunQueuedKeeps ==
    ASSUME TimerInv, RunQueued
    PROVE  TimerInv'
<1> USE DEF TimerInv
<1> DEFINE call == Head(queue)
<1>1. TypeOK /\ queue \in Seq(Calls) /\ queue # <<>> /\ queue' = Tail(queue)
  BY TypeQueue DEF IndexesAgree, RunQueued
<1>2. UNCHANGED <<now, calling, expired, toRun, readAt, pc, numCreated, caller, ids>>
  BY DEF RunQueued
<1>3. queue' \in Seq([op : {"add", "cancel"}, timer : TimerIds])
  BY <1>1 DEF Calls
<1>4. ASSUME call.op = "add",
             addTimerInLoop(call.timer[1], heap[call.timer[1]]),
             UNCHANGED <<heap, cancelingTimers, cancelled>>
      PROVE  TimerInv'
  <2> DEFINE p == call.timer[1]
  <2>1. /\ QueueAgrees'
        /\ call \in Calls
        /\ IsQueued(p) /\ heap[p].seq = call.timer[2]
        /\ \A q \in Addrs : IsQueued(q)' <=> IsQueued(q) /\ p # q
    BY <1>1, <1>4, QueueTaken
  <2>2. p \in Addrs /\ call.timer[2] \in 1..MaxTimers
    BY <2>1 DEF Calls, TimerIds
  <2> HIDE DEF p
  <2>3. ~IsPending(p) /\ ~IsRunning(p)
    BY <2>1, <2>2 DEF OwnedOnce
  <2>4. addTimerInLoop(p, heap'[p])
    BY <1>4 DEF p
  <2>5. TypeOK'
    <3>1. heap[p].when \in Nat /\ heap[p].seq \in 1..MaxTimers /\ now \in Nat
      BY <1>1, <2>1, <2>2 DEF TypeOK
    <3>2. timers' \subseteq Entries
      BY <1>1, <1>4, <2>2, <2>4, <3>1 DEF addTimerInLoop, TypeOK, Entries
    <3>3. activeTimers' \subseteq TimerIds
      <4>1. <<p, heap[p].seq>> \in TimerIds
        BY <2>2, <3>1 DEF TimerIds
      <4> QED
        BY <1>1, <1>4, <2>4, <4>1 DEF addTimerInLoop, TypeOK
    <3>4. deadline' \in Nat \union {Disarmed}
      BY <1>1, <1>4, <2>4, <3>1 DEF addTimerInLoop, TypeOK, DeadlineFor, Later
    <3> QED
      BY <1>1, <1>2, <1>3, <1>4, <3>2, <3>3, <3>4 DEF TypeOK
  <2>6. /\ IndexesAgree' /\ ArmedInTime'
        /\ \A q \in Addrs : IsPending(q)' <=> IsPending(q) \/ q = p
    BY <1>2, <1>4, <2>1, <2>2, <2>3, <2>4, <2>5, InsertKeeps
  <2>7. SequencesGiven' /\ BatchAgrees' /\ CancelledOrNoted'
    BY <1>2, <1>4 DEF SequencesGiven, BatchAgrees, CancelledOrNoted, IsRunning
  <2>8. OwnedOnce'
    BY <1>2, <1>4, <2>1, <2>2, <2>3, <2>6 DEF OwnedOnce, IsRunning
  <2> QED
    BY <2>1, <2>6, <2>7, <2>8
<1>5. ASSUME call.op = "cancel", cancelTimerInLoop(call.timer), UNCHANGED deadline
      PROVE  TimerInv'
  <2> DEFINE id == call.timer
  <2>1. call \in Calls
    BY <1>1
  <2>2. id \in TimerIds
    BY <2>1 DEF Calls
  <2> HIDE DEF id
  <2>3. cancelTimerInLoop(id)
    BY <1>5 DEF id
  <2>4. TypeOK'
    <3>1. heap' \in [Addrs -> [seq : Nat, when : Nat, interval : Nat]]
      BY <1>1, <2>3, CancelTyped
    <3>2. /\ timers' \subseteq Entries /\ activeTimers' \subseteq TimerIds
          /\ cancelingTimers' \subseteq TimerIds /\ cancelled' \subseteq TimerIds
      BY <1>1, <2>2, <2>3 DEF cancelTimerInLoop, TypeOK
    <3> QED
      BY <1>1, <1>2, <1>3, <1>5, <3>1, <3>2 DEF TypeOK
  <2>5. CASE id \in activeTimers
    <3>1. /\ IndexesAgree' /\ SequencesGiven' /\ BatchAgrees'
          /\ CancelledOrNoted' /\ ArmedInTime'
          /\ heap'[id[1]] = Free
          /\ \A q \in Addrs \ {id[1]} : heap'[q] = heap[q]
          /\ \A q \in Addrs : IsPending(q)' <=> IsPending(q) /\ q # id[1]
      BY <1>2, <1>5, <2>3, <2>4, <2>5, CancelPendingKeeps
    <3>2. id[1] \in Addrs /\ IsPending(id[1])
      BY <2>5, PendingTimer DEF IsPending
    <3>3. \A q \in Addrs : IsQueued(q) => heap'[q] = heap[q]
      BY <3>1, <3>2 DEF OwnedOnce
    <3>4. QueueAgrees' /\ \A q \in Addrs : IsQueued(q)' <=> IsQueued(q)
      BY <1>1, <1>5, <3>3, QueueTaken
    <3>5. OwnedOnce'
      BY <1>2, <3>1, <3>2, <3>4 DEF OwnedOnce, IsRunning
    <3> QED
      BY <3>1, <3>4, <3>5
  <2>6. CASE id \notin activeTimers
    <3>1. /\ IndexesAgree' /\ SequencesGiven' /\ BatchAgrees'
          /\ CancelledOrNoted' /\ ArmedInTime'
          /\ heap' = heap
          /\ \A q \in Addrs : IsPending(q)' <=> IsPending(q)
      BY <1>2, <1>5, <2>2, <2>3, <2>4, <2>6, CancelOtherKeeps
    <3>2. QueueAgrees' /\ \A q \in Addrs : IsQueued(q)' <=> IsQueued(q)
      BY <1>1, <1>5, <3>1, QueueTaken
    <3>3. OwnedOnce'
      BY <1>2, <3>1, <3>2 DEF OwnedOnce, IsRunning
    <3> QED
      BY <3>1, <3>2, <3>3
  <2> QED
    BY <2>5, <2>6
<1> QED
  BY <1>4, <1>5 DEF RunQueued

(* handleRead takes the Timers that are due, out of both indexes.          *)
LEMMA TakeExpiredKeeps ==
    ASSUME TimerInv, TakeExpired
    PROVE  TimerInv'
<1> USE DEF TimerInv
<1>1. TypeOK /\ now \in Nat /\ now >= 1 /\ queue \in Seq(Calls)
  BY TypeQueue DEF IndexesAgree, TypeOK, BatchAgrees
<1>2. /\ pc = "idle" /\ pc' = "running" /\ readAt' = now /\ deadline' = Disarmed
      /\ expired' = {e \in timers : e[1] <= now}
      /\ toRun' = expired'
      /\ timers' = timers \ expired'
      /\ activeTimers' = {id \in activeTimers : \A e \in expired' : e[2] # id[1]}
      /\ cancelingTimers' = {} /\ calling' = TRUE
      /\ UNCHANGED <<now, heap, numCreated, queue, caller, ids, cancelled>>
  BY DEF TakeExpired, IsDue, EnterCallbacks, callVars
<1>3. expired = {}
  BY <1>2 DEF BatchAgrees
<1>4. TypeOK'
  BY <1>1, <1>2 DEF TypeOK
<1>5. \A e \in timers :
         /\ e[1] \in Nat /\ e[2] \in Addrs /\ IsPending(e[2])
         /\ heap[e[2]] # Free /\ heap[e[2]].when = e[1]
         /\ e = <<heap[e[2]].when, e[2]>>
  BY <1>1, TimersEntry DEF TypeOK, Entries
<1>6. BatchAgrees'
  BY <1>1, <1>2, <1>5 DEF BatchAgrees
<1>7. SequencesGiven'
  BY <1>2 DEF SequencesGiven
<1>8. ArmedInTime'
  BY <1>1, <1>2, <1>5 DEF ArmedInTime
<1>9. CancelledOrNoted'
  BY <1>2, <1>3 DEF CancelledOrNoted, IsRunning
<1>10. \A id \in activeTimers : \A e \in timers :
          e[2] = id[1] <=> e = <<heap[id[1]].when, id[1]>>
  <2> SUFFICES ASSUME NEW id \in activeTimers, NEW e \in timers
               PROVE  e[2] = id[1] <=> e = <<heap[id[1]].when, id[1]>>
    OBVIOUS
  <2>1. e[2] = id[1] => e = <<heap[id[1]].when, id[1]>>
    BY <1>5
  <2> QED
    BY <2>1
<1>11. IndexesAgree'
  <2>1. \A id \in activeTimers' : id[1] \in Allocated' /\ heap'[id[1]].seq = id[2]
    BY <1>2, PendingTimer DEF Allocated
  <2>2. ASSUME NEW e \in timers'
        PROVE  \E id \in activeTimers' : e = <<heap'[id[1]].when, id[1]>>
    <3>1. PICK id \in activeTimers : e = <<heap[id[1]].when, id[1]>>
      BY <1>2, TimersAre
    <3>2. \A o \in expired' : o[2] # id[1]
      BY <1>2, <1>10, <3>1
    <3> QED
      BY <1>2, <3>1, <3>2
  <2>3. ASSUME NEW id \in activeTimers'
        PROVE  <<heap'[id[1]].when, id[1]>> \in timers'
    <3>1. id \in activeTimers /\ <<heap[id[1]].when, id[1]>> \in timers
      BY <1>2, PendingTimer
    <3>2. PICK e \in timers : e = <<heap[id[1]].when, id[1]>>
      BY <3>1
    <3>3. e \notin expired'
      BY <1>2, <1>10, <3>1, <3>2
    <3> QED
      BY <1>2, <3>2, <3>3
  <2>4. timers' = {<<heap'[id[1]].when, id[1]>> : id \in activeTimers'}
    BY <2>2, <2>3
  <2> QED
    BY <1>4, <2>1, <2>4 DEF IndexesAgree
<1>12. QueueAgrees' /\ \A q \in Addrs : IsQueued(q)' <=> IsQueued(q)
  BY <1>1, <1>2, QueueUntouched
<1>13. \A q \in Addrs : /\ ~IsRunning(q)
                        /\ IsRunning(q)' => IsPending(q)
                        /\ IsPending(q)' <=> IsPending(q) /\ ~IsRunning(q)'
  BY <1>2, <1>3, <1>5 DEF IsRunning, IsPending
<1>14. OwnedOnce'
  BY <1>2, <1>12, <1>13 DEF OwnedOnce
<1> QED
  BY <1>6, <1>7, <1>8, <1>9, <1>11, <1>12, <1>14

LEMMA CallbackStepsKeep ==
    ASSUME TimerInv, RunTimer \/ CallbackReturns \/ Tick
    PROVE  TimerInv'
<1> USE DEF TimerInv
<1>1. TypeOK /\ queue \in Seq(Calls) /\ now \in Nat
  BY TypeQueue DEF IndexesAgree, TypeOK
<1>2. /\ UNCHANGED <<heap, timers, activeTimers, cancelingTimers, calling, expired,
                     readAt, deadline, numCreated, queue, caller, ids, cancelled>>
      /\ now' \in Nat /\ now' >= now
      /\ pc' = "idle" <=> pc = "idle"
      /\ toRun' \subseteq toRun /\ pc' \in {"idle", "running", "callback"}
  BY <1>1 DEF RunTimer, CallbackReturns, Tick, callVars, loopVars, TypeOK
<1>3. TypeOK'
  BY <1>1, <1>2 DEF TypeOK
<1>4. /\ IndexesAgree' /\ SequencesGiven' /\ BatchAgrees'
      /\ CancelledOrNoted' /\ ArmedInTime'
      /\ \A q \in Addrs : (IsPending(q)' <=> IsPending(q)) /\ (IsRunning(q)' <=> IsRunning(q))
  BY <1>1, <1>2, <1>3, TimersUntouched DEF BatchAgrees
<1>5. QueueAgrees' /\ \A q \in Addrs : IsQueued(q)' <=> IsQueued(q)
  BY <1>1, <1>2, QueueUntouched
<1>6. OwnedOnce'
  BY <1>2, <1>4, <1>5 DEF OwnedOnce
<1> QED
  BY <1>4, <1>5, <1>6

(* What reset() leaves at each address: a restarted Timer with the same    *)
(* sequence and a later time, free memory for the rest of the batch.       *)
LEMMA ResetHeap ==
    ASSUME TimerInv, reset
    PROVE  /\ \A p \in Restarted :
                 /\ p \in Addrs /\ IsRunning(p)
                 /\ heap'[p] \in [seq : Nat, when : Nat, interval : Nat]
                 /\ heap'[p].seq = heap[p].seq
                 /\ heap'[p].when = restart(p).when /\ heap'[p].when >= 1
                 /\ heap'[p] # Free
                 /\ <<p, heap[p].seq>> \notin cancelingTimers
           /\ \A p \in Addrs :
                 /\ IsRunning(p) /\ p \notin Restarted => heap'[p] = Free
                 /\ ~IsRunning(p) => p \notin Restarted /\ heap'[p] = heap[p]
           /\ heap' \in [Addrs -> [seq : Nat, when : Nat, interval : Nat]]
<1> USE DEF TimerInv
<1>1. /\ TypeOK /\ heap \in [Addrs -> [seq : Nat, when : Nat, interval : Nat]]
      /\ readAt \in Nat /\ readAt >= 1
  BY DEF IndexesAgree, TypeOK, BatchAgrees, reset
<1>2. \A p \in Restarted : p \in Addrs /\ IsRunning(p) /\ heap[p].interval > 0
                           /\ <<p, heap[p].seq>> \notin cancelingTimers
  BY <1>1 DEF Restarted, IsRunning, TypeOK, Entries
<1>3. \A p \in Addrs : /\ p \in Restarted => heap'[p] = restart(p)
                       /\ IsRunning(p) /\ p \notin Restarted => heap'[p] = Free
                       /\ ~IsRunning(p) => p \notin Restarted /\ heap'[p] = heap[p]
  BY <1>2 DEF reset, HeapAfterReset, IsRunning
<1>4. ASSUME NEW p \in Restarted
      PROVE  /\ restart(p) \in [seq : Nat, when : Nat, interval : Nat]
             /\ restart(p).seq = heap[p].seq
             /\ restart(p).when >= 1
             /\ restart(p) # Free
  <2>1. /\ heap[p] \in [seq : Nat, when : Nat, interval : Nat]
        /\ readAt + heap[p].interval \in Nat /\ readAt + heap[p].interval >= 1
    <3>1. heap[p] \in [seq : Nat, when : Nat, interval : Nat]
      BY <1>1, <1>2
    <3>2. heap[p].interval \in Nat
      BY <3>1
    <3> QED
      BY <1>1, <3>1, <3>2
  <2>2. PICK when \in Nat : when = readAt + heap[p].interval /\ when >= 1
    BY <2>1
  <2>3. restart(p) = [heap[p] EXCEPT !.when = when]
    BY <2>2 DEF restart
  <2>4. /\ restart(p) \in [seq : Nat, when : Nat, interval : Nat]
        /\ restart(p).seq = heap[p].seq /\ restart(p).when = when
    BY <2>1, <2>3
  <2> QED
    BY <2>2, <2>4 DEF Free
<1>5. Free \in [seq : Nat, when : Nat, interval : Nat]
  BY DEF Free
<1>6. \A p \in Addrs : heap'[p] \in [seq : Nat, when : Nat, interval : Nat]
  <2>1. \A p \in Addrs : heap[p] \in [seq : Nat, when : Nat, interval : Nat]
    BY <1>1
  <2> QED
    BY <1>3, <1>4, <1>5, <2>1, Zenon
<1>7. heap' \in [Addrs -> [seq : Nat, when : Nat, interval : Nat]]
  <2>1. heap' = [p \in Addrs |-> heap'[p]]
    BY DEF reset, HeapAfterReset
  <2> QED
    BY <1>6, <2>1, Zenon
<1> QED
  BY <1>2, <1>3, <1>4, <1>6, <1>7, Zenon

LEMMA resetKeeps ==
    ASSUME TimerInv, reset
    PROVE  TimerInv'
<1> USE DEF TimerInv
<1>1. TypeOK /\ now \in Nat /\ queue \in Seq(Calls)
  BY TypeQueue DEF IndexesAgree, TypeOK
<1>2. /\ pc = "running" /\ pc' = "idle" /\ toRun = {} /\ calling' = FALSE
      /\ timers' = timers \union {<<restart(p).when, p>> : p \in Restarted}
      /\ activeTimers' = activeTimers \union {<<p, heap[p].seq>> : p \in Restarted}
      /\ deadline' = NextDeadline(timers')
      /\ expired' = {}
      /\ UNCHANGED <<now, cancelingTimers, toRun, readAt, numCreated, queue, caller,
                     ids, cancelled>>
  BY DEF reset, callVars
<1>3. /\ \A p \in Restarted :
            /\ p \in Addrs /\ IsRunning(p)
            /\ heap'[p] \in [seq : Nat, when : Nat, interval : Nat]
            /\ heap'[p].seq = heap[p].seq
            /\ heap'[p].when = restart(p).when /\ heap'[p].when >= 1
            /\ heap'[p] # Free
            /\ <<p, heap[p].seq>> \notin cancelingTimers
      /\ \A p \in Addrs :
            /\ IsRunning(p) /\ p \notin Restarted => heap'[p] = Free
            /\ ~IsRunning(p) => p \notin Restarted /\ heap'[p] = heap[p]
      /\ heap' \in [Addrs -> [seq : Nat, when : Nat, interval : Nat]]
  BY ResetHeap
<1>4. \A id \in activeTimers : /\ id[1] \in Addrs /\ ~IsRunning(id[1])
                               /\ heap'[id[1]] = heap[id[1]]
  BY <1>3, PendingTimer DEF OwnedOnce, IsPending
<1>5. timers' \subseteq Entries
  <2>1. \A p \in Restarted : <<restart(p).when, p>> \in Entries
    BY <1>3 DEF Entries
  <2> QED
    BY <1>1, <1>2, <2>1 DEF TypeOK
<1>6. activeTimers' \subseteq TimerIds
  <2>1. ASSUME NEW p \in Restarted PROVE heap[p].seq \in 1..MaxTimers
    <3>1. p \in Addrs /\ heap[p] # Free
      BY <1>3 DEF OwnedOnce
    <3>2. heap[p].seq \in 1..numCreated /\ numCreated \in 0..MaxTimers
      BY <1>1, <3>1 DEF SequencesGiven, TypeOK
    <3> QED
      BY <3>2, TimerAssumption
  <2>2. \A p \in Restarted : <<p, heap[p].seq>> \in TimerIds
    BY <1>3, <2>1 DEF TimerIds
  <2> QED
    BY <1>1, <1>2, <2>2 DEF TypeOK
<1>7. timers' # {} => /\ Earliest(timers') \in timers'
                      /\ \A e \in timers' : Earliest(timers')[1] <= e[1]
  BY <1>5, EarliestIsFirst
<1>8. \A e \in timers' : e[1] \in Nat
  BY <1>5 DEF Entries
<1>9. deadline' \in Nat \union {Disarmed}
  BY <1>1, <1>2, <1>7, <1>8 DEF NextDeadline, DeadlineFor, Later, TypeOK
<1>10. TypeOK'
  BY <1>1, <1>2, <1>3, <1>5, <1>6, <1>9 DEF TypeOK
<1>11. \A p \in Restarted : <<p, heap[p].seq>> \in activeTimers'
                            /\ <<restart(p).when, p>> \in timers'
  BY <1>2
<1>12. IndexesAgree'
  <2>1. ASSUME NEW id \in activeTimers'
        PROVE  /\ id[1] \in Allocated' /\ heap'[id[1]].seq = id[2]
               /\ <<heap'[id[1]].when, id[1]>> \in timers'
    <3>1. CASE id \in activeTimers
      BY <1>2, <1>4, <3>1, PendingTimer DEF Allocated
    <3>2. CASE id \notin activeTimers
      <4>1. PICK p \in Restarted : id = <<p, heap[p].seq>>
        BY <1>2, <3>2
      <4>2. id[1] = p /\ id[2] = heap[p].seq
        BY <4>1
      <4> QED
        BY <1>3, <1>11, <4>2 DEF Allocated
    <3> QED
      BY <3>1, <3>2
  <2>2. ASSUME NEW e \in timers'
        PROVE  \E id \in activeTimers' : e = <<heap'[id[1]].when, id[1]>>
    <3>1. CASE e \in timers
      <4>1. PICK id \in activeTimers : e = <<heap[id[1]].when, id[1]>>
        BY <3>1, TimersAre
      <4> QED
        BY <1>2, <1>4, <4>1
    <3>2. CASE e \notin timers
      <4>1. PICK p \in Restarted : e = <<restart(p).when, p>>
        BY <1>2, <3>2
      <4>2. PICK new \in activeTimers' : new = <<p, heap[p].seq>>
        BY <1>11
      <4>3. new[1] = p
        BY <4>2
      <4> QED
        BY <1>3, <4>1, <4>3
    <3> QED
      BY <3>1, <3>2
  <2>3. timers' = {<<heap'[id[1]].when, id[1]>> : id \in activeTimers'}
    BY <2>1, <2>2
  <2> QED
    BY <1>10, <2>1, <2>3 DEF IndexesAgree
<1>13. SequencesGiven'
  <2>1. \A p \in Addrs : p \in Restarted \/ heap'[p] = Free \/ heap'[p] = heap[p]
    BY <1>3
  <2>2. \A p \in Restarted : heap[p] # Free
    BY <1>3 DEF OwnedOnce
  <2> QED
    BY <1>2, <1>3, <2>1, <2>2 DEF SequencesGiven
<1>14. BatchAgrees'
  BY <1>2 DEF BatchAgrees
<1>15. \A q \in Addrs : IsQueued(q) => heap'[q] = heap[q]
  BY <1>3 DEF OwnedOnce
<1>16. QueueAgrees' /\ \A q \in Addrs : IsQueued(q)' <=> IsQueued(q)
  BY <1>1, <1>2, <1>15, QueueUntouched
<1>17. \A q \in Addrs : ~IsRunning(q)'
  BY <1>2 DEF IsRunning
<1>18. \A q \in Addrs : IsPending(q)' <=> IsPending(q) \/ q \in Restarted
  <2>1. ASSUME NEW q \in Addrs, IsPending(q)' PROVE IsPending(q) \/ q \in Restarted
    <3>1. PICK id \in activeTimers' : id[1] = q
      BY <2>1 DEF IsPending
    <3>2. CASE id \notin activeTimers
      <4>1. PICK p \in Restarted : id = <<p, heap[p].seq>>
        BY <1>2, <3>2
      <4> QED
        BY <3>1, <4>1
    <3> QED
      BY <3>1, <3>2 DEF IsPending
  <2>2. ASSUME NEW q \in Restarted PROVE IsPending(q)'
    <3>1. PICK new \in activeTimers' : new = <<q, heap[q].seq>>
      BY <1>11
    <3>2. new[1] = q
      BY <3>1
    <3> QED
      BY <3>2 DEF IsPending
  <2>3. \A q \in Addrs : IsPending(q) => IsPending(q)'
    BY <1>2 DEF IsPending
  <2> QED
    BY <2>1, <2>2, <2>3
<1>19. OwnedOnce'
  BY <1>3, <1>16, <1>17, <1>18 DEF OwnedOnce
<1>20. CancelledOrNoted'
  <2> SUFFICES ASSUME NEW id \in cancelled
               PROVE  id[2] <= numCreated /\ heap'[id[1]].seq # id[2]
    BY <1>2 DEF CancelledOrNoted
  <2>1. id[1] \in Addrs /\ id[2] \in 1..MaxTimers /\ id = <<id[1], id[2]>>
    BY <1>1 DEF TypeOK, TimerIds
  <2>2. /\ id[2] <= numCreated
        /\ heap[id[1]].seq = id[2] => id \in cancelingTimers /\ IsRunning(id[1])
    BY DEF CancelledOrNoted
  <2>3. CASE id[1] \in Restarted
    <3> SUFFICES ASSUME heap'[id[1]].seq = id[2] PROVE FALSE
      BY <2>2
    <3>1. heap[id[1]].seq = id[2] /\ <<id[1], heap[id[1]].seq>> \notin cancelingTimers
      BY <1>3, <2>3
    <3>2. id \notin cancelingTimers
      BY <2>1, <3>1
    <3> QED
      BY <2>2, <3>1, <3>2
  <2>4. CASE id[1] \notin Restarted /\ IsRunning(id[1])
    BY <1>3, <2>1, <2>2, <2>4 DEF Free
  <2>5. CASE ~IsRunning(id[1])
    BY <1>3, <2>1, <2>2, <2>5
  <2> QED
    BY <2>3, <2>4, <2>5
<1>21. ArmedInTime'
  <2> SUFFICES ASSUME NEW e \in timers'
               PROVE  deadline' # Disarmed /\ deadline' <= DeadlineFor(e[1])
    BY <1>2 DEF ArmedInTime, DeadlineFor, Later
  <2> DEFINE first == Earliest(timers')
  <2>1. first \in timers' /\ first[1] <= e[1] /\ first[1] \in Nat /\ e[1] \in Nat
    BY <1>7, <1>8
  <2> HIDE DEF first
  <2>2. CASE first[1] > 0
    <3>1. deadline' = DeadlineFor(first[1])
      BY <1>2, <2>2 DEF NextDeadline, first
    <3> QED
      BY <1>1, <2>1, <3>1 DEF DeadlineFor, Later, Disarmed
  <2>3. CASE first[1] = 0
    <3>1. deadline' = deadline
      BY <1>2, <2>3 DEF NextDeadline, first
    <3>2. first \in timers
      <4> SUFFICES ASSUME first \notin timers PROVE FALSE
        OBVIOUS
      <4>1. PICK p \in Restarted : first = <<restart(p).when, p>>
        BY <1>2, <2>1
      <4>2. first[1] = heap'[p].when /\ heap'[p].when >= 1
        BY <1>3, <4>1
      <4> QED
        BY <2>3, <4>2
    <3>3. deadline # Disarmed /\ deadline <= DeadlineFor(0)
      BY <2>3, <3>2 DEF ArmedInTime
    <3>4. deadline \in Nat
      BY <1>1, <3>3 DEF TypeOK
    <3> QED
      BY <1>1, <2>1, <3>1, <3>3, <3>4 DEF DeadlineFor, Later
  <2> QED
    BY <2>1, <2>2, <2>3
<1> QED
  BY <1>12, <1>13, <1>14, <1>16, <1>19, <1>20, <1>21

-----------------------------------------------------------------------------
(* The theorems.                                                           *)

LEMMA InitTimerInv == Init => TimerInv
<1> SUFFICES ASSUME Init PROVE TimerInv
  OBVIOUS
<1>1. Free \in [seq : Nat, when : Nat, interval : Nat]
  BY DEF Free
<1>2. heap \in [Addrs -> [seq : Nat, when : Nat, interval : Nat]]
  BY <1>1 DEF Init
<1>3. TypeOK
  BY <1>2, TimerAssumption DEF Init, TypeOK
<1>4. IndexesAgree
  BY <1>3 DEF Init, IndexesAgree
<1> QED
  BY <1>4 DEF TimerInv, Init, SequencesGiven, BatchAgrees, QueueAgrees, OwnedOnce,
              CancelledOrNoted, ArmedInTime, IsPending, IsRunning, IsQueued

LEMMA NextTimerInv == TimerInv /\ [Next]_vars => TimerInv'
<1> SUFFICES ASSUME TimerInv, [Next]_vars PROVE TimerInv'
  OBVIOUS
<1>1. ASSUME NEW p \in Addrs, NEW when \in Times, NEW interval \in Intervals,
             addTimer(p, when, interval) \/ AddElsewhere(p, when, interval)
      PROVE  TimerInv'
  <2>1. when \in Nat /\ interval \in Nat
    BY TimerAssumption DEF Times
  <2> QED
    BY <1>1, <2>1, addTimerKeeps, AddElsewhereKeeps
<1>2. ASSUME NEW id \in ids, cancelTimer(id) \/ CancelElsewhere(id)
      PROVE  TimerInv'
  BY <1>2, cancelTimerKeeps, CancelElsewhereKeeps
<1>3. CASE ReturnTimerId
  BY <1>3, ReturnTimerIdKeeps
<1>4. CASE RunQueued
  BY <1>4, RunQueuedKeeps
<1>5. CASE TakeExpired
  BY <1>5, TakeExpiredKeeps
<1>6. CASE RunTimer \/ CallbackReturns \/ Tick
  BY <1>6, CallbackStepsKeep
<1>7. CASE reset
  BY <1>7, resetKeeps
<1>8. CASE UNCHANGED vars
  BY <1>8 DEF vars, loopVars, callVars, TimerInv, IndexesAgree, TypeOK, Allocated,
       TimerIds, SequencesGiven, BatchAgrees, QueueAgrees, OwnedOnce, CancelledOrNoted,
       ArmedInTime, DeadlineFor, IsPending, IsRunning, IsQueued
<1> QED
  BY <1>1, <1>2, <1>3, <1>4, <1>5, <1>6, <1>7, <1>8 DEF Next

LEMMA TimersInvariant == Spec => []TimerInv
BY InitTimerInv, NextTimerInv, PTL DEF Spec

(* timerqueue.cc:74-108, 168-230: every variable keeps its type, and       *)
(* timers_ and activeTimers_ hold the same Timers at their expirations.    *)
THEOREM IndexesAlwaysAgree == Spec => []IndexesAgree
<1>1. TimerInv => IndexesAgree
  BY DEF TimerInv
<1> QED
  BY <1>1, TimersInvariant, PTL

(* timerqueue.cc:120-145, 199-230: a Timer is deleted exactly when nothing *)
(* holds it any more, whatever cancels it and whenever.                    *)
THEOREM EveryTimerHasOneOwner == Spec => []OneOwner
<1>1. TimerInv => OneOwner
  <2> SUFFICES ASSUME TimerInv PROVE OneOwner
    OBVIOUS
  <2> DEFINE pendingTimers == {id[1] : id \in activeTimers}
             runningTimers == {e[2] : e \in expired}
             queuedTimers == {id[1] : id \in Queued}
  <2>1. TypeOK /\ queue \in Seq(Calls)
    BY TypeQueue DEF TimerInv, IndexesAgree
  <2>2. \A p : p \in pendingTimers <=> p \in Addrs /\ IsPending(p)
    BY <2>1 DEF TypeOK, TimerIds, IsPending
  <2>3. \A p : p \in runningTimers <=> p \in Addrs /\ IsRunning(p)
    BY <2>1 DEF TypeOK, Entries, IsRunning
  <2>4. \A p : p \in queuedTimers <=> p \in Addrs /\ IsQueued(p)
    <3>1. \A i \in 1..Len(queue) : queue[i].timer[1] \in Addrs
      BY <2>1, QueueTyped
    <3>2. DOMAIN queue = 1..Len(queue)
      BY <2>1
    <3> QED
      BY <3>1, <3>2 DEF Queued, IsQueued
  <2>5. \A p : p \in Allocated <=> p \in Addrs /\ heap[p] # Free
    BY DEF Allocated
  <2> HIDE DEF pendingTimers, runningTimers, queuedTimers
  <2>6. /\ Allocated = pendingTimers \union runningTimers \union queuedTimers
        /\ pendingTimers \intersect runningTimers = {}
        /\ pendingTimers \intersect queuedTimers = {}
        /\ runningTimers \intersect queuedTimers = {}
    BY <2>2, <2>3, <2>4, <2>5 DEF TimerInv, OwnedOnce
  <2> QED
    BY <2>6 DEF OneOwner, pendingTimers, runningTimers, queuedTimers
<1> QED
  BY <1>1, TimersInvariant, PTL

(* timerqueue.cc:62-72, 168-230: the timerfd is never armed too late.      *)
THEOREM TimerfdAlwaysInTime == Spec => []TimerfdInTime
<1>1. TimerInv => TimerfdInTime
  BY DEF TimerInv, ArmedInTime, TimerfdInTime
<1> QED
  BY <1>1, TimersInvariant, PTL

(* timerqueue.cc:120-145, 199-215: a cancelled timer is not inserted again. *)
THEOREM CancelledNeverPending == Spec => []CancelledStaysCancelled
<1>1. TimerInv => CancelledStaysCancelled
  BY PendingTimer DEF TimerInv, CancelledStaysCancelled, CancelledOrNoted, OwnedOnce,
                      IsPending
<1> QED
  BY <1>1, TimersInvariant, PTL
=============================================================================
