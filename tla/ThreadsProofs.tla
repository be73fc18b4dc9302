---------------------------- MODULE ThreadsProofs ----------------------------
(***************************************************************************)
(* What holds of the classes that several threads use, for any threads,    *)
(* tasks, items, sizes, connections and zones: module MCThreads puts them  *)
(* side by side, and what is proved here of a class holds of it alone, and *)
(* so beside the others too.                                               *)
(***************************************************************************)
EXTENDS MCThreads, FiniteSetTheorems, SequenceTheorems, TLAPS

-----------------------------------------------------------------------------
(* ThreadPool.                                                             *)

(* A thread has a task in its hands exactly while it is inside run(), and  *)
(* that task has not been accepted yet.                                    *)
HandsFull ==
    /\ \A t \in Threads : pc[t] \in {"put", "full"} <=> arg[t] # NoTask
    /\ \A t \in Threads : arg[t] \notin accepted

(* A worker sleeps in take() only while the queue is empty and the pool    *)
(* runs, a caller of run() only while the queue is full.                   *)
NobodyWaitsInVain ==
    \A t \in Threads :
        /\ pc[t] = "empty" => queue = <<>> /\ running
        /\ pc[t] = "full" => isFull

PoolInv == TypeOK /\ HandsFull /\ NobodyWaitsInVain

-----------------------------------------------------------------------------

(* Appending keeps the elements in their set.                              *)
LEMMA AppendIsSeq ==
    \A S : \A s \in Seq(S), e \in S : Append(s, e) \in Seq(S)
  OBVIOUS

LEMMA InitHolds == Init => PoolInv
  <1> SUFFICES ASSUME Init PROVE PoolInv
    OBVIOUS
  <1> USE PoolAssumption DEF Init, Threads
  <1>1. TypeOK
    BY DEF TypeOK
  <1>2. HandsFull
    BY DEF HandsFull
  <1>3. NobodyWaitsInVain
    BY DEF NobodyWaitsInVain
  <1> QED
    BY <1>1, <1>2, <1>3 DEF PoolInv

(* The steps that move one thread and touch nothing shared.                *)
LEMMA MoveHolds ==
    ASSUME PoolInv, NEW t \in Threads, NEW to \in {"loop", "take", "task", "exited"},
           pc[t] \in {"loop", "take", "empty", "task"},
           pc' = [pc EXCEPT ![t] = to],
           UNCHANGED <<maxQueueSize, queue, running, arg, stopping, accepted, taken>>
    PROVE  PoolInv'
  <1>1. TypeOK'
    BY DEF PoolInv, TypeOK
  <1>2. HandsFull'
    BY DEF PoolInv, TypeOK, HandsFull
  <1>3. NobodyWaitsInVain'
    BY DEF PoolInv, TypeOK, NobodyWaitsInVain, isFull
  <1> QED
    BY <1>1, <1>2, <1>3 DEF PoolInv

(* A thread that goes to sleep, or wakes up in run().                      *)
LEMMA SleepHolds ==
    ASSUME PoolInv, NEW t \in Threads, NEW to \in {"empty", "put", "full"},
           \/ pc[t] = "take" /\ to = "empty" /\ queue = <<>> /\ running
           \/ pc[t] = "put" /\ to = "full" /\ isFull
           \/ pc[t] = "full" /\ to = "put",
           pc' = [pc EXCEPT ![t] = to],
           UNCHANGED <<maxQueueSize, queue, running, arg, stopping, accepted, taken>>
    PROVE  PoolInv'
  <1>1. TypeOK'
    BY DEF PoolInv, TypeOK
  <1>2. HandsFull'
    BY DEF PoolInv, TypeOK, HandsFull
  <1>3. NobodyWaitsInVain'
    BY DEF PoolInv, TypeOK, NobodyWaitsInVain, isFull
  <1> QED
    BY <1>1, <1>2, <1>3 DEF PoolInv

LEMMA TakeHolds ==
    ASSUME PoolInv, NEW w \in Workers, Take(w)
    PROVE  PoolInv'
  <1> USE PoolAssumption DEF PoolInv, Threads
  <1>1. \A t \in Threads :
            pc'[t] = IF t = w THEN "task"
                     ELSE IF maxQueueSize > 0 /\ pc[t] = "full" THEN "put" ELSE pc[t]
    BY DEF TypeOK, Take, WakeNotFull, WakeAll
  <1>2. pc' \in [Threads -> {"loop", "take", "empty", "task", "exited",
                             "idle", "put", "full"}]
    BY DEF TypeOK, Take, WakeNotFull, WakeAll
  <1>3. queue' \in Seq(Tasks) /\ Len(queue') = Len(queue) - 1 /\ Len(queue) \in Nat
    BY DEF TypeOK, Take, Pop
  <1>4. taken' \in Seq(Tasks)
    <2>1. Head(queue) \in Tasks
      BY DEF TypeOK, Take
    <2>2. taken \in Seq(Tasks) /\ taken' = Append(taken, Head(queue))
      BY DEF TypeOK, Take
    <2> QED
      BY <2>1, <2>2, AppendIsSeq
  <1>5. TypeOK'
    <2>1. maxQueueSize \in Nat /\ maxQueueSize' = maxQueueSize
      BY DEF TypeOK, Take
    <2>2. maxQueueSize > 0 => Len(queue') <= maxQueueSize
      BY <1>3, <2>1 DEF TypeOK
    <2> QED
      BY <1>2, <1>3, <1>4, <2>1, <2>2 DEF TypeOK, Take
  <1>6. HandsFull'
    BY <1>1 DEF TypeOK, HandsFull, Take
  <1>7. NobodyWaitsInVain'
    BY <1>1 DEF TypeOK, NobodyWaitsInVain, isFull, Take
  <1> QED
    BY <1>5, <1>6, <1>7

LEMMA RunHolds ==
    ASSUME PoolInv, NEW t \in Threads, NEW task \in Tasks, Run(t, task)
    PROVE  PoolInv'
  <1> USE PoolAssumption DEF PoolInv
  <1>1. TypeOK'
    BY DEF TypeOK, Run
  <1>2. HandsFull'
    BY DEF TypeOK, HandsFull, Run, Caller
  <1>3. NobodyWaitsInVain'
    BY DEF TypeOK, NobodyWaitsInVain, isFull, Run, Caller
  <1> QED
    BY <1>1, <1>2, <1>3

LEMMA PutHolds ==
    ASSUME PoolInv, NEW t \in Threads, Put(t)
    PROVE  PoolInv'
  <1> USE PoolAssumption DEF PoolInv
  <1>1. \A u \in Threads :
            pc'[u] = IF u = t THEN IF t \in Workers THEN "task" ELSE "idle"
                     ELSE IF pc[u] = "empty" THEN "take" ELSE pc[u]
    BY DEF TypeOK, Put, WakeNotEmpty, WakeAll
  <1>2. pc' \in [Threads -> {"loop", "take", "empty", "task", "exited",
                             "idle", "put", "full"}]
    BY DEF TypeOK, Put, WakeNotEmpty, WakeAll
  <1>3. arg[t] \in Tasks
    BY DEF TypeOK, HandsFull, Put
  <1>4. queue' \in Seq(Tasks) /\ Len(queue') = Len(queue) + 1 /\ Len(queue) \in Nat
    BY <1>3 DEF TypeOK, Put
  <1>5. maxQueueSize \in Nat /\ maxQueueSize' = maxQueueSize
    BY DEF TypeOK, Put
  <1>6. maxQueueSize > 0 => Len(queue') <= maxQueueSize
    BY <1>4, <1>5 DEF Put, isFull
  <1>7. TypeOK'
    BY <1>2, <1>3, <1>4, <1>5, <1>6 DEF TypeOK, Put
  <1>8. HandsFull'
    BY <1>1, <1>3 DEF TypeOK, HandsFull, Put
  <1>9. NobodyWaitsInVain'
    BY <1>1 DEF TypeOK, NobodyWaitsInVain, isFull, Put
  <1> QED
    BY <1>7, <1>8, <1>9

LEMMA StopHolds ==
    ASSUME PoolInv, Stop
    PROVE  PoolInv'
  <1> USE DEF PoolInv
  <1>1. \A t \in Threads : pc'[t] = IF pc[t] = "empty" THEN "take" ELSE pc[t]
    BY DEF TypeOK, Stop, WakeNotEmpty, WakeAll
  <1>2. TypeOK'
    BY DEF TypeOK, Stop, WakeNotEmpty, WakeAll
  <1>3. HandsFull'
    BY <1>1 DEF TypeOK, HandsFull, Stop
  <1>4. NobodyWaitsInVain'
    BY <1>1 DEF TypeOK, NobodyWaitsInVain, isFull, Stop
  <1> QED
    BY <1>2, <1>3, <1>4

LEMMA StutterHolds ==
    ASSUME PoolInv, Join \/ UNCHANGED vars
    PROVE  PoolInv'
  BY DEF PoolInv, TypeOK, HandsFull, NobodyWaitsInVain, isFull, Join, vars

LEMMA NextHolds == PoolInv /\ [Next]_vars => PoolInv'
  <1> SUFFICES ASSUME PoolInv, [Next]_vars PROVE PoolInv'
    OBVIOUS
  <1>1. ASSUME NEW t \in Threads, t \in Workers,
               Loop(t) \/ TakeNothing(t) \/ FinishTask(t)
        PROVE  PoolInv'
    BY <1>1, MoveHolds DEF Loop, TakeNothing, FinishTask
  <1>2. ASSUME NEW t \in Threads, WaitForTask(t) \/ WaitForRoom(t)
        PROVE  PoolInv'
    BY <1>2, SleepHolds DEF WaitForTask, WaitForRoom
  <1>3. ASSUME NEW t \in Threads, WakeSpuriously(t)
        PROVE  PoolInv'
    BY <1>3, MoveHolds, SleepHolds DEF WakeSpuriously
  <1>4. ASSUME NEW t \in Threads, PoolStep(t) PROVE PoolInv'
    BY <1>1, <1>2, <1>4, TakeHolds, PutHolds DEF PoolStep
  <1>5. ASSUME NEW t \in Threads, NEW task \in Tasks, Run(t, task) PROVE PoolInv'
    BY <1>5, RunHolds
  <1> QED
    BY <1>3, <1>4, <1>5, StopHolds, StutterHolds DEF Next

LEMMA PoolInvAlways == Init /\ [][Next]_vars => []PoolInv
  BY InitHolds, NextHolds, PTL

(* threadpool.cc: the queue never holds more than maxQueueSize_ tasks, and *)
(* every variable keeps its type.                                          *)
THEOREM Typing == Spec => []TypeOK
  <1>1. PoolInv => TypeOK
    BY DEF PoolInv
  <1> QED
    BY <1>1, PoolInvAlways, PTL DEF Spec

(* notEmpty_ and notFull_ are signalled whenever what their waiters wait   *)
(* for comes true: no wakeup of take(), run() or stop() is missing, while  *)
(* the waits themselves may return for no reason.                          *)
THEOREM NoWakeupIsMissing == Spec => []NobodyWaitsInVain
  <1>1. PoolInv => NobodyWaitsInVain
    BY DEF PoolInv
  <1> QED
    BY <1>1, PoolInvAlways, PTL DEF Spec

-----------------------------------------------------------------------------

LEMMA InitRefines == Init => Abstract!Init
  BY DEF Init, Abstract!Init

LEMMA StepRefines ==
    PoolInv /\ [Next]_vars => [Abstract!Next]_<<accepted, queue, taken>>
  <1> SUFFICES ASSUME PoolInv, [Next]_vars
               PROVE  Abstract!Next \/ UNCHANGED <<accepted, queue, taken>>
    OBVIOUS
  <1>1. ASSUME NEW t \in Threads, Put(t) PROVE Abstract!Next
    <2>1. arg[t] \in Tasks /\ arg[t] \notin accepted
      BY <1>1 DEF PoolInv, TypeOK, HandsFull, Put
    <2>2. Abstract!Submit(arg[t])
      BY <1>1, <2>1 DEF Put, Abstract!Submit
    <2> QED
      BY <2>1, <2>2 DEF Abstract!Next
  <1>2. ASSUME NEW t \in Threads, Take(t) PROVE Abstract!Next
    BY <1>2 DEF Take, Pop, Abstract!Execute, Abstract!Next
  <1>3. ASSUME NEW t \in Threads, PoolStep(t)
        PROVE  Abstract!Next \/ UNCHANGED <<accepted, queue, taken>>
    BY <1>1, <1>2, <1>3 DEF PoolStep, Loop, WaitForTask, TakeNothing, FinishTask,
       WaitForRoom
  <1> QED
    BY <1>3 DEF Next, WakeSpuriously, Run, Stop, Join, vars

LEMMA PoolRefines == Init /\ [][Next]_vars => ImplementsFunctorQueue
  <1>1. Init /\ [][Next]_vars /\ []PoolInv
            => Abstract!Init /\ [][Abstract!Next]_(Abstract!vars)
    BY InitRefines, StepRefines, PTL DEF Abstract!vars
  <1> QED
    BY <1>1, PoolInvAlways, PTL DEF ImplementsFunctorQueue, Abstract!Spec

(* run() and take(): tasks leave the queue in the order of their           *)
(* acceptance, each once, however workers, callers, tasks that call run()  *)
(* and stop() interleave.                                                  *)
THEOREM PoolImplementsFunctorQueue == Spec => ImplementsFunctorQueue
  BY PoolRefines, PTL DEF Spec

-----------------------------------------------------------------------------
(* BlockingQueue and BoundedBlockingQueue, also for a capacity of zero.    *)

Places == {"outside", "inside", "notFull", "notEmpty"}

(* Everyone is somewhere, and nobody sleeps beside what it waits for.      *)
SleepInv == bqPc \in [BQ!Threads -> Places] /\ BQ!NobodySleepsInVain

(* A broadcast leaves nobody asleep on its condition and sends nobody else *)
(* to sleep.                                                               *)
LEMMA WakeAllWakes ==
    ASSUME NEW states \in [BQ!Threads -> Places], NEW waiting \in {"notFull", "notEmpty"}
    PROVE  /\ BQ!wakeAll(waiting, states) \in [BQ!Threads -> Places]
           /\ \A t \in BQ!Threads :
                 /\ BQ!wakeAll(waiting, states)[t] # waiting
                 /\ BQ!wakeAll(waiting, states)[t] \in {"notFull", "notEmpty"}
                       => BQ!wakeAll(waiting, states)[t] = states[t]
BY DEF BQ!wakeAll, Places

(* Whoever leaves the queue as it was may wake by itself or enter.         *)
LEMMA QueueUntouched ==
    ASSUME SleepInv, UNCHANGED <<maxCapacity, bqQueue>>,
           NEW t \in BQ!Threads, NEW place \in {"inside", "outside"},
           bqPc' = [bqPc EXCEPT ![t] = place]
    PROVE  SleepInv'
BY DEF SleepInv, BQ!NobodySleepsInVain, Places, BQ!full

(* A putter goes to sleep only beside a full queue.                        *)
LEMMA WaitNotFullKeeps ==
    ASSUME SleepInv, NEW t \in BQ!Threads, BQ!WaitNotFull(t)
    PROVE  SleepInv'
BY DEF SleepInv, BQ!NobodySleepsInVain, Places, BQ!full, BQ!WaitNotFull

(* A getter only beside an empty one.                                      *)
LEMMA WaitNotEmptyKeeps ==
    ASSUME SleepInv, NEW t \in BQ!Threads, BQ!WaitNotEmpty(t)
    PROVE  SleepInv'
BY DEF SleepInv, BQ!NobodySleepsInVain, Places, BQ!full, BQ!WaitNotEmpty

(* put() finds no putter asleep, since there is room, and wakes the        *)
(* getters.                                                                *)
LEMMA PutKeeps ==
    ASSUME SleepInv, NEW t \in BQ!Threads, BQ!Put(t)
    PROVE  SleepInv'
<1> DEFINE states == [bqPc EXCEPT ![t] = "outside"]
<1>1. states \in [BQ!Threads -> Places]
  BY DEF SleepInv, Places
<1>2. \A u \in BQ!Threads : states[u] = bqPc[u] \/ states[u] = "outside"
  BY DEF SleepInv
<1> HIDE DEF states
<1>3. bqPc' = BQ!wakeAll("notEmpty", states)
  BY DEF BQ!Put, states
<1>4. \A u \in BQ!Threads : bqPc[u] # "notFull"
  BY DEF BQ!Put, SleepInv, BQ!NobodySleepsInVain
<1>5. /\ bqPc' \in [BQ!Threads -> Places]
      /\ \A u \in BQ!Threads : bqPc'[u] # "notEmpty" /\ bqPc'[u] # "notFull"
  BY <1>1, <1>2, <1>3, <1>4, WakeAllWakes
<1> QED
  BY <1>5 DEF SleepInv, BQ!NobodySleepsInVain

(* get() finds no getter asleep, since there is an element, and wakes the  *)
(* putters.                                                                *)
LEMMA GetKeeps ==
    ASSUME SleepInv, NEW t \in BQ!Threads, BQ!Get(t)
    PROVE  SleepInv'
<1> DEFINE states == [bqPc EXCEPT ![t] = "outside"]
<1>1. states \in [BQ!Threads -> Places]
  BY DEF SleepInv, Places
<1>2. \A u \in BQ!Threads : states[u] = bqPc[u] \/ states[u] = "outside"
  BY DEF SleepInv
<1> HIDE DEF states
<1>3. bqPc' = BQ!wakeAll("notFull", states)
  BY DEF BQ!Get, states
<1>4. \A u \in BQ!Threads : bqPc[u] # "notEmpty"
  BY DEF BQ!Get, SleepInv, BQ!NobodySleepsInVain
<1>5. /\ bqPc' \in [BQ!Threads -> Places]
      /\ \A u \in BQ!Threads : bqPc'[u] # "notEmpty" /\ bqPc'[u] # "notFull"
  BY <1>1, <1>2, <1>3, <1>4, WakeAllWakes
<1> QED
  BY <1>5 DEF SleepInv, BQ!NobodySleepsInVain

LEMMA SleepInvAlways == BQ!Init /\ [][BQ!Next]_(BQ!vars) => []SleepInv
<1>1. BQ!Init => SleepInv
  BY DEF BQ!Init, SleepInv, BQ!NobodySleepsInVain, Places
<1>2. SleepInv /\ [BQ!Next]_(BQ!vars) => SleepInv'
  <2> SUFFICES ASSUME SleepInv, [BQ!Next]_(BQ!vars)
               PROVE  SleepInv'
    OBVIOUS
  <2>1. ASSUME NEW t \in BQ!Threads, NEW item \in Items, BQ!CallPut(t, item)
        PROVE  SleepInv'
    BY <2>1, QueueUntouched DEF BQ!CallPut
  <2>2. ASSUME NEW t \in BQ!Threads, BQ!CallGet(t)
        PROVE  SleepInv'
    BY <2>2, QueueUntouched DEF BQ!CallGet
  <2>3. ASSUME NEW t \in BQ!Threads, BQ!Step(t)
        PROVE  SleepInv'
    BY <2>3, WaitNotFullKeeps, PutKeeps, WaitNotEmptyKeeps, GetKeeps DEF BQ!Step
  <2>4. ASSUME NEW t \in BQ!Threads, BQ!WakeSpuriously(t)
        PROVE  SleepInv'
    BY <2>4, QueueUntouched DEF BQ!WakeSpuriously
  <2>5. CASE UNCHANGED BQ!vars
    BY <2>5 DEF SleepInv, BQ!NobodySleepsInVain, BQ!full, BQ!vars
  <2> QED
    BY <2>1, <2>2, <2>3, <2>4, <2>5 DEF BQ!Next
<1> QED
  BY <1>1, <1>2, PTL

(* boundedblockingqueue.h:22-42, blockingqueue.h:20-38: no signal is       *)
(* missing, whatever the interleaving of puts, gets and spurious wakeups.  *)
THEOREM NoSignalIsMissing == BQ!Spec => []NobodySleepsInVain
<1>1. SleepInv => NobodySleepsInVain
  BY DEF SleepInv, NobodySleepsInVain
<1> QED
  BY <1>1, SleepInvAlways, PTL DEF BQ!Spec

-----------------------------------------------------------------------------
(* Logger.                                                                 *)

(* What is known of a thread's message and of the text that it keeps: the  *)
(* history has every zone since the text was begun, and the text is of one *)
(* of them, unless the conversion was overlapped.                          *)
TextFollows(t) ==
    \/ raced[t]
    \/ \E zone \in zones[t] : t_time[t] = t_lastSecond[t] + Log!Offset(zone)

ThreadFollows(t) ==
    /\ t_lastSecond[t] <= now
    /\ stage[t] # "idle" => second[t] = t_lastSecond[t]
    /\ stage[t] # "test" /\ t_lastSecond[t] # 0 => g_timezone \in zones[t]
    /\ stage[t] = "gmtime" => NoZone \in zones[t]
    /\ stage[t] = "convert" /\ ~raced[t] => zones[t] = {g_timezone}
    /\ stage[t] \in {"idle", "mark"} /\ t_lastSecond[t] # 0 => TextFollows(t)
    /\ stage[t] # "idle" => t_lastSecond[t] # 0

StampInv ==
    /\ now \in Nat /\ now > 0
    /\ t_lastSecond \in [LogThreads -> Nat]
    /\ second \in [LogThreads -> Nat]
    /\ DOMAIN t_time = LogThreads /\ t_time = [t \in LogThreads |-> t_time[t]]
    /\ stage \in [LogThreads -> {"idle", "test", "gmtime", "convert", "mark"}]
    /\ zones = [t \in LogThreads |-> zones[t]]
    /\ raced = [t \in LogThreads |-> raced[t]]
    /\ \A t \in LogThreads : ThreadFollows(t)

(* A step of formatTime touches its own thread's part alone.               *)
LEMMA OthersFollow ==
    ASSUME StampInv, NEW t \in LogThreads, Log!formatTime(t)
    PROVE  /\ now' = now /\ g_timezone' = g_timezone
           /\ \A u \in LogThreads : u # t => ThreadFollows(u)'
<1>1. /\ now' = now /\ g_timezone' = g_timezone
      /\ \A u \in LogThreads : u # t =>
            /\ t_lastSecond'[u] = t_lastSecond[u] /\ t_time'[u] = t_time[u]
            /\ stage'[u] = stage[u] /\ second'[u] = second[u]
            /\ zones'[u] = zones[u] /\ raced'[u] = raced[u]
  BY DEF StampInv, Log!formatTime, Log!Begin, Log!TestZone, Log!gmtime, Log!toLocalTime,
         Log!Crash, Log!Write, Log!MakeText, Log!Goto, Log!cache
<1>2. ASSUME NEW u \in LogThreads, u # t PROVE ThreadFollows(u)'
  <2>1. ThreadFollows(u)
    BY DEF StampInv
  <2> QED
    BY <1>1, <1>2, <2>1 DEF ThreadFollows, TextFollows, Log!Offset
<1> QED
  BY <1>1, <1>2

(* A message begins, with a second of its own, and ends.                   *)
LEMMA MessageKeeps ==
    ASSUME StampInv, NEW t \in LogThreads, Log!Begin(t) \/ Log!Write(t) \/ Log!Crash(t)
    PROVE  StampInv'
<1>1. /\ now' = now /\ g_timezone' = g_timezone /\ now \in Nat /\ now > 0
      /\ \A u \in LogThreads : u # t => ThreadFollows(u)'
  BY OthersFollow DEF Log!formatTime, StampInv
<1>2. ThreadFollows(t)
  BY DEF StampInv
<1>3. CASE Log!Begin(t)
  <2>1. /\ second' = [second EXCEPT ![t] = now]
        /\ t_lastSecond' = [t_lastSecond EXCEPT ![t] = now]
        /\ stage[t] = "idle"
        /\ stage' = [stage EXCEPT ![t] = IF now # t_lastSecond[t] THEN "test" ELSE "mark"]
        /\ UNCHANGED <<t_time, zones, raced>>
    BY <1>3 DEF Log!Begin, Log!Goto, Log!MustFormat
  <2>2. /\ second'[t] = now /\ t_lastSecond'[t] = now
        /\ stage'[t] = IF now # t_lastSecond[t] THEN "test" ELSE "mark"
    BY <2>1 DEF StampInv
  <2>3. CASE now # t_lastSecond[t]
    <3>1. stage'[t] = "test"
      BY <2>2, <2>3
    <3>2. ThreadFollows(t)'
      BY <1>1, <2>2, <3>1 DEF ThreadFollows
    <3> QED
      BY <1>1, <2>1, <3>2 DEF StampInv
  <2>4. CASE now = t_lastSecond[t]
    <3>1. stage'[t] = "mark"
      BY <2>2, <2>4
    <3>2. g_timezone \in zones[t] /\ TextFollows(t)
      BY <1>1, <1>2, <2>1, <2>4 DEF ThreadFollows
    <3>3. TextFollows(t)'
      BY <2>1, <2>2, <2>4, <3>2 DEF TextFollows, Log!Offset
    <3>4. ThreadFollows(t)'
      BY <1>1, <2>1, <2>2, <3>1, <3>2, <3>3 DEF ThreadFollows
    <3> QED
      BY <1>1, <2>1, <3>4 DEF StampInv
  <2> QED
    BY <2>3, <2>4
<1>4. CASE Log!Write(t)
  <2>1. /\ second' = [second EXCEPT ![t] = 0]
        /\ stage[t] = "mark" /\ stage' = [stage EXCEPT ![t] = "idle"]
        /\ UNCHANGED <<t_lastSecond, t_time, zones, raced>>
    BY <1>4 DEF Log!Write, Log!Goto, Log!cache
  <2>2. stage'[t] = "idle"
    BY <2>1 DEF StampInv
  <2>3. TextFollows(t)' <=> TextFollows(t)
    BY <2>1 DEF TextFollows, Log!Offset
  <2>4. ThreadFollows(t)'
    BY <1>1, <1>2, <2>1, <2>2, <2>3 DEF ThreadFollows
  <2> QED
    BY <1>1, <2>1, <2>4 DEF StampInv
<1>5. CASE Log!Crash(t)
  <2>1. UNCHANGED <<t_lastSecond, t_time, stage, second, zones, raced>>
    BY <1>5 DEF Log!Crash, Log!cache
  <2>2. TextFollows(t)' <=> TextFollows(t)
    BY <2>1 DEF TextFollows, Log!Offset
  <2>3. ThreadFollows(t)'
    BY <1>1, <1>2, <2>1, <2>2 DEF ThreadFollows
  <2> QED
    BY <1>1, <2>1, <2>3 DEF StampInv
<1> QED
  BY <1>3, <1>4, <1>5

(* The test begins the text, and the history with it.                      *)
LEMMA TestKeeps ==
    ASSUME StampInv, NEW t \in LogThreads, Log!TestZone(t)
    PROVE  StampInv'
<1>1. /\ now' = now /\ g_timezone' = g_timezone /\ now \in Nat /\ now > 0
      /\ \A u \in LogThreads : u # t => ThreadFollows(u)'
  BY OthersFollow DEF Log!formatTime, StampInv
<1>2. /\ stage[t] = "test"
      /\ stage' = [stage EXCEPT ![t] = IF g_timezone = NoZone THEN "gmtime" ELSE "convert"]
      /\ zones' = [zones EXCEPT ![t] = {g_timezone}]
      /\ raced' = [raced EXCEPT ![t] = FALSE]
      /\ UNCHANGED <<t_lastSecond, t_time, second>>
  BY DEF Log!TestZone, Log!Goto, Log!cache
<1>3. /\ stage'[t] \in {"gmtime", "convert"}
      /\ stage'[t] = "gmtime" => g_timezone = NoZone
      /\ zones'[t] = {g_timezone}
  BY <1>2 DEF StampInv
<1>4. ThreadFollows(t)'
  BY <1>1, <1>2, <1>3 DEF ThreadFollows, StampInv
<1> QED
  BY <1>1, <1>2, <1>4 DEF StampInv

(* The text is made, of a zone that the history has.                       *)
LEMMA TextKeeps ==
    ASSUME StampInv, NEW t \in LogThreads, NEW text,
           stage[t] \in {"gmtime", "convert"}, Log!MakeText(t, text),
           \/ raced[t]
           \/ \E zone \in zones[t] : text = second[t] + Log!Offset(zone)
    PROVE  StampInv'
<1>1. /\ t_time' = [t_time EXCEPT ![t] = text]
      /\ stage' = [stage EXCEPT ![t] = "mark"]
      /\ UNCHANGED <<now, g_timezone, t_lastSecond, second, zones, raced>>
  BY DEF Log!MakeText, Log!Goto
<1>2. t_time'[t] = text /\ stage'[t] = "mark"
  BY <1>1 DEF StampInv
<1>3. ThreadFollows(t)
  BY DEF StampInv
<1>4. TextFollows(t)'
  <2>1. second[t] = t_lastSecond[t]
    BY <1>3 DEF ThreadFollows
  <2> QED
    BY <1>1, <1>2, <2>1 DEF TextFollows, Log!Offset
<1>5. ThreadFollows(t)'
  BY <1>1, <1>2, <1>3, <1>4 DEF ThreadFollows
<1>6. ASSUME NEW u \in LogThreads, u # t PROVE ThreadFollows(u)'
  <2>1. ThreadFollows(u) /\ t_time'[u] = t_time[u] /\ stage'[u] = stage[u]
    BY <1>1, <1>6 DEF StampInv
  <2> QED
    BY <1>1, <2>1 DEF ThreadFollows, TextFollows, Log!Offset
<1> QED
  BY <1>1, <1>5, <1>6 DEF StampInv

LEMMA ConversionKeeps ==
    ASSUME StampInv, NEW t \in LogThreads, Log!gmtime(t) \/ Log!toLocalTime(t)
    PROVE  StampInv'
<1>1. ThreadFollows(t) /\ second[t] \in Nat
  BY DEF StampInv
<1>2. CASE Log!gmtime(t)
  <2>1. NoZone \in zones[t] /\ second[t] = second[t] + Log!Offset(NoZone)
    BY <1>1, <1>2 DEF Log!gmtime, ThreadFollows, Log!Offset
  <2> QED
    BY <1>2, <2>1, TextKeeps DEF Log!gmtime
<1>3. CASE Log!toLocalTime(t)
  <2>1. PICK text : /\ stage[t] = "convert" /\ Log!MakeText(t, text)
                    /\ \/ raced[t]
                       \/ text = second[t] + Log!Offset(g_timezone)
    BY <1>3 DEF Log!toLocalTime
  <2>2. ~raced[t] => g_timezone \in zones[t]
    BY <1>1, <2>1 DEF ThreadFollows
  <2> QED
    BY <2>1, <2>2, TextKeeps
<1> QED
  BY <1>2, <1>3

(* setTimeZone adds to every history, and marks who is converting.         *)
LEMMA SetKeeps ==
    ASSUME StampInv, NEW zone, Log!setTimeZone(zone)
    PROVE  StampInv'
<1>1. /\ g_timezone' = zone
      /\ zones' = [t \in LogThreads |-> zones[t] \union {zone}]
      /\ raced' = [t \in LogThreads |-> raced[t] \/ stage[t] = "convert"]
      /\ UNCHANGED <<now, t_lastSecond, t_time, stage, second>>
  BY DEF Log!setTimeZone, Log!cache
<1>2. ASSUME NEW t \in LogThreads PROVE ThreadFollows(t)'
  <2>1. /\ zones'[t] = zones[t] \union {zone}
        /\ raced'[t] = (raced[t] \/ stage[t] = "convert")
    BY <1>1
  <2>2. ThreadFollows(t)
    BY DEF StampInv
  <2>3. stage[t] # "convert" /\ TextFollows(t) => TextFollows(t)'
    BY <1>1, <2>1 DEF TextFollows, Log!Offset
  <2> QED
    BY <1>1, <2>1, <2>2, <2>3 DEF ThreadFollows
<1> QED
  BY <1>1, <1>2 DEF StampInv

LEMMA TickKeeps ==
    ASSUME StampInv, Log!Tick
    PROVE  StampInv'
<1>1. /\ now' \in Nat /\ now' > now
      /\ UNCHANGED <<g_timezone, t_lastSecond, t_time, stage, second, zones, raced>>
  BY ThreadsAssumption DEF Log!Tick, Log!cache, StampInv
<1>2. ASSUME NEW t \in LogThreads PROVE ThreadFollows(t)'
  <2>1. ThreadFollows(t) /\ t_lastSecond[t] \in Nat /\ now \in Nat
    BY DEF StampInv
  <2>2. TextFollows(t)' <=> TextFollows(t)
    BY <1>1 DEF TextFollows, Log!Offset
  <2> QED
    BY <1>1, <2>1, <2>2 DEF ThreadFollows
<1> QED
  BY <1>1, <1>2 DEF StampInv

LEMMA StampInvAlways == Log!Init /\ [][Log!Next]_(Log!vars) => []StampInv
<1>1. Log!Init => StampInv
  BY DEF Log!Init, StampInv, ThreadFollows
<1>2. StampInv /\ [Log!Next]_(Log!vars) => StampInv'
  <2> SUFFICES ASSUME StampInv, [Log!Next]_(Log!vars) PROVE StampInv'
    OBVIOUS
  <2>1. CASE UNCHANGED Log!vars
    BY <2>1 DEF StampInv, ThreadFollows, TextFollows, Log!Offset, Log!vars
  <2>2. ASSUME NEW t \in LogThreads, Log!formatTime(t) PROVE StampInv'
    BY <2>2, MessageKeeps, TestKeeps, ConversionKeeps DEF Log!formatTime
  <2> QED
    BY <2>1, <2>2, SetKeeps, TickKeeps DEF Log!Next
<1> QED
  BY <1>1, <1>2, PTL

LEMMA StampInvSuffices == StampInv => StampIsCurrent
<1> SUFFICES ASSUME StampInv, NEW t \in LogThreads, stage[t] = "mark", ~raced[t]
             PROVE  \E zone \in zones[t] :
                       /\ Log!Stamp(t).text = second[t] + Log!Offset(zone)
                       /\ zones[t] = {zone} => (Log!Stamp(t).Z <=> zone = NoZone)
  BY DEF StampIsCurrent, Log!StampIsCurrent
<1>1. ThreadFollows(t)
  BY DEF StampInv
<1>2. PICK zone \in zones[t] : t_time[t] = t_lastSecond[t] + Log!Offset(zone)
  BY <1>1 DEF ThreadFollows, TextFollows
<1>3. g_timezone \in zones[t] /\ second[t] = t_lastSecond[t]
  BY <1>1 DEF ThreadFollows
<1>4. Log!Stamp(t).text = t_time[t] /\ (Log!Stamp(t).Z <=> g_timezone = NoZone)
  BY DEF Log!Stamp
<1> QED
  BY <1>2, <1>3, <1>4

(* logger.cc:94-131, 184-186: in whatever places of formatTime other       *)
(* threads set the zone, a stamp shows its message's own second in a zone  *)
(* in force since its text was begun, with that zone's mark if none was set*)
(* since; except in a second whose conversion an assignment overlapped.    *)
THEOREM StampsAreCurrent == Log!Spec => []StampIsCurrent
BY StampInvAlways, StampInvSuffices, PTL DEF Log!Spec

-----------------------------------------------------------------------------
(* Server.                                                                 *)

(* The callers of getNextLoop found the whole pool started, and the loops  *)
(* before next_ have had one turn more than the others.                    *)
ServerInv ==
    /\ numThreads \in Nat /\ loops \in 0..numThreads
    /\ loopPc # "start" => loops = numThreads
    /\ loopPc = "start" => served = <<>>
    /\ next \in Nat /\ (loops > 0 => next < loops) /\ (loops = 0 => next = 0)
    /\ served \in Seq({served[i] : i \in DOMAIN served})
    /\ numThreads > 0 => Srv!Load(Srv!baseLoop) = 0
    /\ \E turns \in Nat : \A j \in 1..numThreads :
          Srv!Load(j) = IF j <= next THEN turns + 1 ELSE turns

(* The cardinality that Server speaks of is that of FiniteSets.            *)
LEMMA CardinalityOfServer == \A S : Srv!Cardinality(S) = Cardinality(S)
  BY DEF Srv!Cardinality, Cardinality

(* While nobody is served, nobody has a load.                              *)
LEMMA NoLoad == served = <<>> => \A j : Srv!Load(j) = 0
<1> SUFFICES ASSUME served = <<>>, NEW j PROVE Srv!Load(j) = 0
  OBVIOUS
<1>1. {i \in DOMAIN served : served[i].loop = j} = {}
  OBVIOUS
<1> QED
  BY <1>1, FS_EmptySet, CardinalityOfServer DEF Srv!Load

LEMMA LoadStays == served' = served => \A j : Srv!Load(j)' = Srv!Load(j)
  BY DEF Srv!Load

(* A sequence is one of its own elements.                                  *)
LEMMA SeqOfItsElements ==
    \A S : \A s \in Seq(S) : s \in Seq({s[i] : i \in DOMAIN s})
<1> SUFFICES ASSUME NEW S, NEW s \in Seq(S) PROVE s \in Seq({s[i] : i \in DOMAIN s})
  OBVIOUS
<1>1. PICK m \in Nat : s \in [1..m -> S]
  BY SeqDef
<1>2. s \in [1..m -> {s[i] : i \in DOMAIN s}]
  BY <1>1
<1> QED
  BY <1>2, SeqDef

(* One more connection is one more for the loop that got it.               *)
LEMMA LoadGrows ==
    ASSUME ServerInv, NEW entry, served' = Append(served, entry)
    PROVE  /\ served' \in Seq({served'[i] : i \in DOMAIN served'})
           /\ \A j : /\ Srv!Load(j) \in Nat
                     /\ Srv!Load(j)' = IF entry.loop = j THEN Srv!Load(j) + 1
                                       ELSE Srv!Load(j)
<1> DEFINE S == {served[i] : i \in DOMAIN served}
           n == Len(served)
           of(j) == {i \in DOMAIN served : served[i].loop = j}
<1>1. /\ served \in Seq(S) /\ n \in Nat /\ DOMAIN served = 1..n
  BY LenProperties DEF ServerInv
<1>2. /\ served' \in Seq(S \union {entry}) /\ DOMAIN served' = 1..(n + 1)
      /\ served'[n + 1] = entry
      /\ \A i \in 1..n : served'[i] = served[i]
  <2>1. served \in Seq(S \union {entry})
    BY <1>1, SeqDef
  <2> HIDE DEF S
  <2> QED
    BY <1>1, <2>1, AppendProperties, LenProperties
<1>3. served' \in Seq({served'[i] : i \in DOMAIN served'})
  <2> HIDE DEF S
  <2> QED
    BY <1>2, SeqOfItsElements
<1>4. ASSUME NEW j
      PROVE  /\ Srv!Load(j) \in Nat
             /\ Srv!Load(j)' = IF entry.loop = j THEN Srv!Load(j) + 1 ELSE Srv!Load(j)
  <2>1. IsFiniteSet(of(j)) /\ Cardinality(of(j)) \in Nat
    <3>1. IsFiniteSet(1..n)
      BY <1>1, FS_Interval
    <3> QED
      BY <1>1, <3>1, FS_Subset, FS_CardinalityType
  <2>2. {i \in DOMAIN served' : served'[i].loop = j} =
           IF entry.loop = j THEN of(j) \union {n + 1} ELSE of(j)
    BY <1>1, <1>2
  <2>3. n + 1 \notin of(j)
    BY <1>1
  <2>4. Cardinality(of(j) \union {n + 1}) = Cardinality(of(j)) + 1
    BY <2>1, <2>3, FS_AddElement
  <2>5. /\ Srv!Load(j) = Cardinality(of(j))
        /\ Srv!Load(j)' = Cardinality({i \in DOMAIN served' : served'[i].loop = j})
    BY CardinalityOfServer DEF Srv!Load
  <2> QED
    BY <2>1, <2>2, <2>4, <2>5
<1> QED
  BY <1>3, <1>4

LEMMA ServerStarts == Srv!Init => ServerInv
<1> SUFFICES ASSUME Srv!Init PROVE ServerInv
  OBVIOUS
<1>1. \A j : Srv!Load(j) = 0
  BY NoLoad DEF Srv!Init
<1>2. served \in Seq({served[i] : i \in DOMAIN served})
  BY DEF Srv!Init
<1>3. \A j \in 1..numThreads : Srv!Load(j) = IF j <= next THEN 0 + 1 ELSE 0
  BY <1>1, ThreadsAssumption DEF Srv!Init
<1>4. \E turns \in Nat : \A j \in 1..numThreads :
          Srv!Load(j) = IF j <= next THEN turns + 1 ELSE turns
  BY <1>3
<1> QED
  BY <1>1, <1>2, <1>4, ThreadsAssumption DEF Srv!Init, ServerInv

(* Acceptor::handleRead gives a connection to the loop whose turn it is.   *)
LEMMA AcceptKeeps ==
    ASSUME ServerInv, Srv!Accept
    PROVE  ServerInv'
<1>1. /\ loopPc = "handleRead" /\ loopPc' = "poll"
      /\ UNCHANGED <<numThreads, loops>>
      /\ numThreads \in Nat /\ loops = numThreads /\ next \in Nat
      /\ loops > 0 => next < loops
      /\ loops = 0 => next = 0
  BY DEF ServerInv, Srv!Accept
<1>2. CASE callback
  <2> DEFINE entry == [connection |-> Head(backlog), loop |-> Srv!nextLoop]
  <2>1. /\ served' = Append(served, entry)
        /\ next' = IF loops = 0 THEN next ELSE Srv!After(next)
        /\ entry.loop = Srv!nextLoop
    BY <1>2 DEF Srv!Accept
  <2> HIDE DEF entry
  <2>2. /\ served' \in Seq({served'[i] : i \in DOMAIN served'})
        /\ \A j : /\ Srv!Load(j) \in Nat
                  /\ Srv!Load(j)' = IF Srv!nextLoop = j THEN Srv!Load(j) + 1
                                    ELSE Srv!Load(j)
    BY <2>1, LoadGrows
  <2>3. numThreads > 0 => Srv!nextLoop = next + 1 /\ Srv!nextLoop \in 1..numThreads
    BY <1>1 DEF Srv!nextLoop
  <2>4. numThreads > 0 => Srv!Load(Srv!baseLoop)' = 0
    <3>1. Srv!baseLoop' = Srv!baseLoop /\ Srv!baseLoop = 0
      BY DEF Srv!baseLoop
    <3>2. numThreads > 0 => Srv!nextLoop # 0
      BY <2>3
    <3>3. Srv!Load(0)' = IF Srv!nextLoop = 0 THEN Srv!Load(0) + 1 ELSE Srv!Load(0)
      BY <2>2
    <3> QED
      BY <3>1, <3>2, <3>3 DEF ServerInv
  <2>5. /\ next' \in Nat
        /\ loops > 0 => next' < loops /\ next' = IF next + 1 = loops THEN 0 ELSE next + 1
        /\ loops = 0 => next' = 0
    BY <1>1, <2>1 DEF Srv!After
  <2>6. \E turns \in Nat : \A j \in 1..numThreads :
           Srv!Load(j)' = IF j <= next' THEN turns + 1 ELSE turns
    <3>1. PICK turns \in Nat : \A j \in 1..numThreads :
             Srv!Load(j) = IF j <= next THEN turns + 1 ELSE turns
      BY DEF ServerInv
    <3>2. \A j \in 1..numThreads : Srv!Load(j)' = IF j <= next + 1 THEN turns + 1 ELSE turns
      <4> TAKE j \in 1..numThreads
      <4>1. Srv!nextLoop = next + 1 /\ j \in Nat /\ numThreads > 0
        BY <1>1, <2>3
      <4>2. Srv!Load(j) = IF j <= next THEN turns + 1 ELSE turns
        BY <3>1
      <4>3. Srv!Load(j)' = IF next + 1 = j THEN Srv!Load(j) + 1 ELSE Srv!Load(j)
        BY <2>2, <4>1
      <4> QED
        BY <1>1, <4>1, <4>2, <4>3
    <3>3. CASE numThreads > 0 /\ next + 1 = loops
      <4>1. \A j \in 1..numThreads :
               Srv!Load(j)' = IF j <= next' THEN (turns + 1) + 1 ELSE turns + 1
        BY <1>1, <2>5, <3>2, <3>3
      <4> QED
        BY <4>1
    <3>4. CASE numThreads > 0 /\ next + 1 # loops
      <4>1. \A j \in 1..numThreads :
               Srv!Load(j)' = IF j <= next' THEN turns + 1 ELSE turns
        BY <1>1, <2>5, <3>2, <3>4
      <4> QED
        BY <4>1
    <3>5. CASE numThreads = 0
      BY <3>5
    <3> QED
      BY <1>1, <3>3, <3>4, <3>5
  <2> QED
    BY <1>1, <2>2, <2>4, <2>5, <2>6 DEF ServerInv
<1>3. CASE ~callback
  <2>1. UNCHANGED <<served, next>>
    BY <1>3 DEF Srv!Accept
  <2> QED
    BY <1>1, <2>1, LoadStays DEF ServerInv, Srv!baseLoop
<1> QED
  BY <1>2, <1>3

(* accept4 fails.                                                          *)
LEMMA AcceptFailsKeeps ==
    ASSUME ServerInv, Srv!AcceptFails
    PROVE  ServerInv'
<1>1. /\ loopPc = "handleRead" /\ loopPc' \in {"poll", "aborted"}
      /\ UNCHANGED <<numThreads, loops, next, served>>
  BY DEF Srv!AcceptFails, Srv!pool
<1> QED
  BY <1>1, LoadStays DEF ServerInv, Srv!baseLoop

(* A loop is added while nobody has been served.                           *)
LEMMA StartsKeep ==
    ASSUME ServerInv, Srv!StartPool \/ Srv!AddLoop \/ Srv!listen
    PROVE  ServerInv'
<1>1. /\ loopPc = "start" /\ loopPc' \in {"start", "poll"}
      /\ loopPc' = "poll" => loops' = numThreads
      /\ loops' \in {loops, loops + 1} /\ loops' <= numThreads
      /\ UNCHANGED <<numThreads, next, served>>
  BY DEF Srv!StartPool, Srv!AddLoop, Srv!listen, Srv!pool, ServerInv
<1>2. next = 0
  <2>1. PICK turns \in Nat : \A j \in 1..numThreads :
             Srv!Load(j) = IF j <= next THEN turns + 1 ELSE turns
    BY DEF ServerInv
  <2>2. \A j : Srv!Load(j) = 0
    BY <1>1, NoLoad DEF ServerInv
  <2>3. next > 0 => 1 \in 1..numThreads /\ 1 <= next
    BY DEF ServerInv
  <2> QED
    BY <2>1, <2>2, <2>3 DEF ServerInv
<1> QED
  BY <1>1, <1>2, LoadStays DEF ServerInv, Srv!baseLoop

LEMMA ServerInvAlways == Srv!Init /\ [][Srv!Next]_(Srv!vars) => []ServerInv
<1>1. ServerInv /\ [Srv!Next]_(Srv!vars) => ServerInv'
  <2> SUFFICES ASSUME ServerInv, [Srv!Next]_(Srv!vars) PROVE ServerInv'
    OBVIOUS
  <2>1. CASE \/ Srv!Poll \/ Srv!GoWrong \/ UNCHANGED Srv!vars
             \/ \E c \in Connections : Srv!Connect(c) \/ Srv!Reset(c) \/ Srv!Close(c)
    <3>1. /\ UNCHANGED <<numThreads, loops, next, served>>
          /\ loopPc' = loopPc \/ (loopPc = "poll" /\ loopPc' = "handleRead")
      BY <2>1 DEF Srv!Poll, Srv!GoWrong, Srv!vars, Srv!Connect, Srv!Reset, Srv!Close,
                  Srv!pool
    <3> QED
      BY <3>1, LoadStays DEF ServerInv, Srv!baseLoop
  <2> QED
    BY <2>1, StartsKeep, AcceptKeeps, AcceptFailsKeeps DEF Srv!Next, Srv!BaseLoop
<1> QED
  BY <1>1, ServerStarts, PTL

LEMMA ServerInvSuffices == ServerInv => LoopsAreBalanced
<1> SUFFICES ASSUME ServerInv PROVE LoopsAreBalanced
  OBVIOUS
<1>1. PICK turns \in Nat : \A j \in 1..numThreads :
         Srv!Load(j) = IF j <= next THEN turns + 1 ELSE turns
  BY DEF ServerInv
<1>2. \A i, j \in 1..numThreads : Srv!Load(i) <= Srv!Load(j) + 1
  <2> TAKE i, j \in 1..numThreads
  <2>1. Srv!Load(i) \in {turns, turns + 1} /\ Srv!Load(j) \in {turns, turns + 1}
    BY <1>1
  <2> QED
    BY <2>1
<1> QED
  BY <1>2 DEF ServerInv, LoopsAreBalanced, Srv!LoopsAreBalanced

(* eventloopthreadpool.cc:49-62: getNextLoop spreads the connections over  *)
(* all the threads asked for, and the base loop serves only without any.   *)
THEOREM ConnectionsAreSpread == Srv!Spec => []LoopsAreBalanced
  BY ServerInvAlways, ServerInvSuffices, PTL DEF Srv!Spec

-----------------------------------------------------------------------------
(* Side by side, each class does what it does alone.                       *)

LEMMA EachAlone ==
    [MCNext]_allVars =>
        /\ [Next]_vars
        /\ [BQ!Next]_(BQ!vars)
        /\ [Srv!Next]_(Srv!vars)
        /\ [Log!Next]_(Log!vars)
  BY DEF MCNext, Pool, Queue, Accepting, Logging, allVars, vars, bqVars, serverVars,
         loggerVars, BQ!vars, Srv!vars, Log!vars

(* What the run of these classes checks, for every value of the constants: *)
(* its specification is that of the four classes together.                 *)
THEOREM ThreadsTogether ==
    MCSpec => /\ ImplementsFunctorQueue
              /\ []NobodySleepsInVain
              /\ []LoopsAreBalanced
              /\ []StampIsCurrent
<1>1. MCSpec => /\ Init /\ [][Next]_vars
                /\ BQ!Init /\ [][BQ!Next]_(BQ!vars)
                /\ Srv!Init /\ [][Srv!Next]_(Srv!vars)
                /\ Log!Init /\ [][Log!Next]_(Log!vars)
  <2>1. MCInit => Init /\ BQ!Init /\ Srv!Init /\ Log!Init
    BY DEF MCInit
  <2> QED
    BY <2>1, EachAlone, PTL DEF MCSpec
<1>2. SleepInv => NobodySleepsInVain
  BY DEF SleepInv, NobodySleepsInVain
<1> QED
  BY <1>1, <1>2, PoolRefines, SleepInvAlways, ServerInvAlways, ServerInvSuffices,
     StampInvAlways, StampInvSuffices, PTL
=============================================================================
