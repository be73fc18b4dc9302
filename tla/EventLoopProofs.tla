-------------------------- MODULE EventLoopProofs ---------------------------
(***************************************************************************)
(* Proofs about EventLoop and EventLoopThread, for any set of threads, any *)
(* set of functors and any limit of the eventfd.  What is proved of the    *)
(* reactor holds of one that EventLoopThread runs, since every step there  *)
(* is one of its steps or leaves it alone.                                 *)
(***************************************************************************)
EXTENDS EventLoopThread, SequenceTheorems, TLAPS

-----------------------------------------------------------------------------
(* Typing.                                                                 *)

(* What a poll can return is a sequence of the three kinds of channel.     *)
LEMMA ActiveChannelsType ==
    ASSUME NEW timer \in BOOLEAN, NEW wake \in BOOLEAN, NEW io \in BOOLEAN
    PROVE  ActiveChannels(timer, wake, io) \in Seq({"timerfd", "wakeup", "io"})
<1> DEFINE C == {"timerfd", "wakeup", "io"}
<1>1. /\ <<>> \in Seq(C) /\ <<"timerfd">> \in Seq(C)
      /\ <<"wakeup">> \in Seq(C) /\ <<"io">> \in Seq(C)
  OBVIOUS
<1> DEFINE a == IF timer THEN <<"timerfd">> ELSE <<>>
           b == IF wake THEN <<"wakeup">> ELSE <<>>
           c == IF io THEN <<"io">> ELSE <<>>
<1>2. a \in Seq(C) /\ b \in Seq(C) /\ c \in Seq(C)
  BY <1>1
<1> HIDE DEF a, b, c, C
<1>3. (a \o b) \o c \in Seq(C)
  BY <1>2, ConcatProperties
<1> QED
  BY <1>3 DEF ActiveChannels, a, b, c, C

(* The constructor's values are in their types.                            *)
LEMMA InitTypes == Init => TypeOK
<1> SUFFICES ASSUME Init PROVE TypeOK
  OBVIOUS
<1> USE DEF Init
<1>1. /\ pending \in Seq(Functors) /\ functors \in Seq(Functors)
      /\ ran \in Seq(Functors) /\ active \in Seq({"timerfd", "wakeup", "io"})
  OBVIOUS
<1>2. eventfd \in 0..MaxEventfd
  BY LoopAssumption
<1>3. calls \in [Threads -> {"none", "wake"}]
  OBVIOUS
<1>4. Brackets
  BY DEF Brackets
<1> QED
  BY <1>1, <1>2, <1>3, <1>4 DEF TypeOK, VarTypes

(* Every call and every step of the loop thread preserves the types.       *)
LEMMA VarTypesStep == VarTypes /\ [Next]_vars => VarTypes'
<1> SUFFICES ASSUME VarTypes, [Next]_vars PROVE VarTypes'
  OBVIOUS
<1> USE LoopAssumption DEF VarTypes, history
<1>1. ASSUME NEW t \in Threads, NEW f \in Functors, queueInLoop(t, f)
      PROVE  VarTypes'
  BY <1>1 DEF queueInLoop
<1>2. ASSUME NEW t \in Threads, Quit(t) PROVE VarTypes'
  BY <1>2 DEF Quit
<1>3. ASSUME NEW t \in Threads, wakeup(t) PROVE VarTypes'
  BY <1>3 DEF wakeup
<1>4. CASE Loop
  BY <1>4 DEF Loop
<1>5. CASE TestQuit
  BY <1>5 DEF TestQuit
<1>6. CASE PollReady
  <2>1. active' \in Seq({"timerfd", "wakeup", "io"})
    <3>1. PICK timer \in BOOLEAN, io \in BOOLEAN :
             active' = ActiveChannels(timer, eventfd > 0, io)
      BY <1>6 DEF PollReady
    <3>2. (eventfd > 0) \in BOOLEAN
      OBVIOUS
    <3> QED
      BY <3>1, <3>2, ActiveChannelsType
  <2> QED
    BY <1>6, <2>1 DEF PollReady
<1>7. CASE PollTimeout
  BY <1>7 DEF PollTimeout
<1>8. CASE handleRead
  BY <1>8 DEF handleRead
<1>9. CASE EnterCallback
  BY <1>9 DEF EnterCallback
<1>10. CASE LeaveCallback
  BY <1>10 DEF LeaveCallback
<1>11. CASE EnterPendingFunctors
  BY <1>11 DEF EnterPendingFunctors
<1>12. CASE SwapPendingFunctors
  BY <1>12 DEF SwapPendingFunctors
<1>13. CASE EnterFunctor
  BY <1>13 DEF EnterFunctor
<1>14. CASE LeaveFunctor
  BY <1>14 DEF LeaveFunctor
<1>15. CASE LeavePendingFunctors
  BY <1>15 DEF LeavePendingFunctors
<1>16. CASE UNCHANGED vars
  BY <1>16 DEF vars
<1> QED
  BY <1>1, <1>2, <1>3, <1>4, <1>5, <1>6, <1>7, <1>8, <1>9, <1>10, <1>11,
     <1>12, <1>13, <1>14, <1>15, <1>16
  DEF Next, Call, runInLoop, LoopProgress, PollWoken

(* looping_ and callingPendingFunctors_ are assigned where the loop thread *)
(* enters and leaves loop() and doPendingFunctors(), and nowhere else.     *)
LEMMA BracketsStep == TypeOK /\ [Next]_vars => Brackets'
<1> SUFFICES ASSUME TypeOK, [Next]_vars PROVE Brackets'
  OBVIOUS
<1> USE DEF TypeOK, Brackets, history
<1>1. ASSUME NEW t \in Threads, NEW f \in Functors, queueInLoop(t, f)
      PROVE  Brackets'
  BY <1>1 DEF queueInLoop
<1>2. ASSUME NEW t \in Threads, Quit(t) \/ wakeup(t) PROVE Brackets'
  BY <1>2 DEF Quit, wakeup
<1>3. CASE Loop
  BY <1>3 DEF Loop
<1>4. CASE TestQuit
  BY <1>4 DEF TestQuit, VarTypes
<1>5. CASE PollReady \/ PollTimeout
  BY <1>5 DEF PollReady, PollTimeout
<1>6. CASE handleRead
  BY <1>6 DEF handleRead
<1>7. CASE EnterCallback
  BY <1>7 DEF EnterCallback
<1>8. CASE LeaveCallback
  BY <1>8 DEF LeaveCallback
<1>9. CASE EnterPendingFunctors
  BY <1>9 DEF EnterPendingFunctors
<1>10. CASE SwapPendingFunctors
  BY <1>10 DEF SwapPendingFunctors
<1>11. CASE EnterFunctor
  BY <1>11 DEF EnterFunctor
<1>12. CASE LeaveFunctor
  BY <1>12 DEF LeaveFunctor
<1>13. CASE LeavePendingFunctors
  BY <1>13 DEF LeavePendingFunctors
<1>14. CASE UNCHANGED vars
  BY <1>14 DEF vars
<1> QED
  BY <1>1, <1>2, <1>3, <1>4, <1>5, <1>6, <1>7, <1>8, <1>9, <1>10, <1>11,
     <1>12, <1>13, <1>14
  DEF Next, Call, runInLoop, LoopProgress, PollWoken

(* Typing: every variable keeps its type, and the loop's flags agree with  *)
(* the place where the loop thread is.                                     *)
THEOREM Typing == Spec => []TypeOK
<1>1. TypeOK /\ [Next]_vars => TypeOK'
  BY VarTypesStep, BracketsStep DEF TypeOK
<1> QED
  BY InitTypes, <1>1, PTL DEF Spec

-----------------------------------------------------------------------------
(* No lost wakeup.                                                         *)

(* The phases in which a functor that is queued and not silent must have   *)
(* its wakeup under way: from the swap to the next poll.  Between the      *)
(* poll's return and the swap it need not, for the swap is still to come.  *)
AfterSwap == {"idle", "test", "poll", "run", "functor"}

(* NoLostWakeup says it of the poll only, which no step can show: the      *)
(* functor may have been queued at any time since the swap.                *)
WakeupInv ==
    /\ pc \in AfterSwap /\ ~(Range(pending) \subseteq silent) => Signalled
    /\ pc = "poll" /\ quit => Signalled

(* A queued functor joins the range of the queue.                          *)
LEMMA RangeAppend ==
    ASSUME NEW S, NEW s \in Seq(S), NEW e \in S
    PROVE  Range(Append(s, e)) = Range(s) \union {e}
<1>1. Append(s, e) = s \o <<e>>
  BY AppendIsConcat
<1>2. <<e>> \in Seq(S)
  OBVIOUS
<1>3. Range(s \o <<e>>) = Range(s) \union Range(<<e>>)
  BY <1>2, RangeConcatenation
<1>4. Range(<<e>>) = {e}
  BY DEF Range
<1> QED
  BY <1>1, <1>3, <1>4

(* queueInLoop either signals, or leaves the obligation empty: off the     *)
(* loop thread it always signals; in a functor callingPendingFunctors_     *)
(* makes it signal; in a callback the swap is still to come; before loop() *)
(* the functor is silent.                                                  *)
LEMMA QueueKeepsWakeup ==
    ASSUME TypeOK, WakeupInv, NEW t \in Threads, NEW f \in Functors,
           queueInLoop(t, f)
    PROVE  WakeupInv'
<1> USE DEF queueInLoop, TypeOK, VarTypes
<1>1. Range(pending') = Range(pending) \union {f}
  BY RangeAppend
<1>2. CASE NeedsWakeup(t)
  <2>1. calls'[t] = "wake"
    BY <1>2
  <2> QED
    BY <2>1 DEF WakeupInv, Signalled
<1>3. CASE ~NeedsWakeup(t)
  <2>1. t = LoopThread /\ ~calling /\ calls[t] = "none"
    BY <1>3 DEF NeedsWakeup, isInLoopThread, InUserCode
  <2>2. pc \in {"idle", "callback"}
    BY <2>1 DEF InUserCode, Brackets
  <2>3. calls' = calls
    BY <1>3, <2>1
  <2>4. Signalled => Signalled'
    BY <2>3 DEF Signalled
  <2>5. CASE pc = "idle"
    <3>1. silent' = silent \union {f}
      BY <2>1, <2>5 DEF isInLoopThread
    <3> QED
      BY <1>1, <2>4, <2>5, <3>1 DEF WakeupInv, AfterSwap
  <2>6. CASE pc = "callback"
    BY <2>6 DEF WakeupInv, AfterSwap
  <2> QED
    BY <2>2, <2>5, <2>6
<1> QED
  BY <1>2, <1>3

(* Every step preserves the invariant.                                     *)
LEMMA WakeupStep == TypeOK /\ WakeupInv /\ [Next]_vars => WakeupInv'
<1> SUFFICES ASSUME TypeOK, WakeupInv, [Next]_vars PROVE WakeupInv'
  OBVIOUS
<1> USE DEF WakeupInv, AfterSwap, history
<1>a. Signalled /\ UNCHANGED <<eventfd, calls>> => Signalled'
  BY DEF Signalled
<1>1. ASSUME NEW t \in Threads, NEW f \in Functors, queueInLoop(t, f)
      PROVE  WakeupInv'
  BY <1>1, QueueKeepsWakeup
<1>2. ASSUME NEW t \in Threads, Quit(t) PROVE WakeupInv'
  <2>1. CASE isInLoopThread(t)
    <3>1. calls' = calls /\ pc # "poll"
      BY <1>2, <2>1 DEF Quit, InUserCode, isInLoopThread, TypeOK, VarTypes
    <3> QED
      BY <1>2, <1>a, <3>1 DEF Quit
  <2>2. CASE ~isInLoopThread(t)
    <3>1. calls'[t] = "wake"
      BY <1>2, <2>2 DEF Quit, TypeOK, VarTypes
    <3> QED
      BY <1>2, <3>1 DEF Quit, Signalled
  <2> QED
    BY <2>1, <2>2
<1>3. ASSUME NEW t \in Threads, wakeup(t) PROVE WakeupInv'
  <2>1. eventfd' > 0
    BY <1>3, LoopAssumption DEF wakeup, TypeOK, VarTypes
  <2> QED
    BY <2>1 DEF Signalled
<1>4. CASE Loop
  BY <1>4, <1>a DEF Loop
<1>5. CASE TestQuit
  <2>1. pc = "test" /\ UNCHANGED <<eventfd, calls, pending, silent, quit>>
    BY <1>5 DEF TestQuit
  <2>2. pc' = "poll" => ~quit
    BY <1>5 DEF TestQuit
  <2> QED
    BY <1>a, <2>1, <2>2
<1>6. CASE PollReady \/ PollTimeout \/ handleRead \/ EnterCallback
           \/ LeaveCallback \/ EnterPendingFunctors
  <2>1. pc' \in {"dispatch", "callback", "swap"}
    BY <1>6 DEF PollReady, PollTimeout, handleRead, EnterCallback,
                LeaveCallback, EnterPendingFunctors
  <2> QED
    BY <2>1
<1>7. CASE SwapPendingFunctors
  <2>1. pc' = "run" /\ pending' = <<>>
    BY <1>7 DEF SwapPendingFunctors, TypeOK, Brackets
  <2>2. Range(pending') = {}
    BY <2>1 DEF Range
  <2> QED
    BY <2>1, <2>2
<1>8. CASE EnterFunctor
  BY <1>8, <1>a DEF EnterFunctor
<1>9. CASE LeaveFunctor
  BY <1>9, <1>a DEF LeaveFunctor
<1>10. CASE LeavePendingFunctors
  BY <1>10, <1>a DEF LeavePendingFunctors
<1>11. CASE UNCHANGED vars
  BY <1>11, <1>a DEF vars
<1> QED
  BY <1>1, <1>2, <1>3, <1>4, <1>5, <1>6, <1>7, <1>8, <1>9, <1>10, <1>11
  DEF Next, Call, runInLoop, LoopProgress, PollWoken

(* The loop thread never blocks in poll with a functor queued by a thread, *)
(* a callback or a functor, or with quit() called, and no wakeup under way.*)
THEOREM NoWakeupIsLost == Spec => []NoLostWakeup
<1>1. Init => WakeupInv
  BY DEF Init, WakeupInv, Range
<1>2. WakeupInv => NoLostWakeup
  BY DEF WakeupInv, AfterSwap, NoLostWakeup
<1> QED
  BY Typing, WakeupStep, <1>1, <1>2, PTL DEF Spec

-----------------------------------------------------------------------------
(* The batch.                                                              *)

(* While callingPendingFunctors_ is set the batch loses its head or stays: *)
(* what the functors queue goes to the next iteration.                     *)
THEOREM BatchIsASnapshot == Spec => BatchOnlyShrinks
<1>1. [Next]_vars => [calling /\ pc # "swap" =>
                          \/ functors' = functors
                          \/ functors # <<>> /\ functors' = Tail(functors)]_vars
  BY DEF Next, Call, queueInLoop, runInLoop, Quit, wakeup, Loop, PollReady,
         PollTimeout, LoopProgress, PollWoken, TestQuit, handleRead,
         EnterCallback, LeaveCallback, EnterPendingFunctors,
         SwapPendingFunctors, EnterFunctor, LeaveFunctor,
         LeavePendingFunctors, vars
<1> QED
  BY <1>1, PTL DEF Spec, BatchOnlyShrinks

-----------------------------------------------------------------------------
(* The loop implements the FIFO executor.                                  *)

(* A push at the end of pendingFunctors_ is a push at the end of the whole.*)
LEMMA ConcatAppend ==
    ASSUME NEW S, NEW s \in Seq(S), NEW t \in Seq(S), NEW e \in S
    PROVE  s \o Append(t, e) = Append(s \o t, e)
<1>1. <<e>> \in Seq(S) /\ s \o t \in Seq(S)
  BY ConcatProperties
<1>2. Append(t, e) = t \o <<e>> /\ Append(s \o t, e) = (s \o t) \o <<e>>
  BY <1>1, AppendIsConcat
<1> QED
  BY <1>1, <1>2, ConcatAssociative

(* The head of a batch that is not empty is the head of the whole.         *)
LEMMA HeadTailConcat ==
    ASSUME NEW S, NEW s \in Seq(S), NEW t \in Seq(S), s # <<>>
    PROVE  /\ s \o t # <<>>
           /\ Head(s \o t) = Head(s)
           /\ Tail(s \o t) = Tail(s) \o t
<1>1. /\ s \o t \in Seq(S) /\ Len(s \o t) = Len(s) + Len(t)
      /\ \A i \in 1 .. Len(s) + Len(t) :
            (s \o t)[i] = IF i <= Len(s) THEN s[i] ELSE t[i - Len(s)]
  BY ConcatProperties
<1>2. Len(s) \in Nat \ {0} /\ Len(t) \in Nat
  BY EmptySeq, LenProperties
<1>3. s \o t # <<>>
  BY <1>1, <1>2
<1>4. Head(s \o t) = Head(s)
  BY <1>1, <1>2
<1>5. /\ Tail(s) \in Seq(S) /\ Len(Tail(s)) = Len(s) - 1
      /\ \A i \in 1 .. Len(Tail(s)) : Tail(s)[i] = s[i + 1]
  BY HeadTailProperties
<1>6. /\ Tail(s \o t) \in Seq(S) /\ Len(Tail(s \o t)) = Len(s \o t) - 1
      /\ \A i \in 1 .. Len(Tail(s \o t)) : Tail(s \o t)[i] = (s \o t)[i + 1]
  BY <1>1, <1>3, HeadTailProperties
<1>7. /\ Tail(s) \o t \in Seq(S)
      /\ Len(Tail(s) \o t) = Len(Tail(s)) + Len(t)
      /\ \A i \in 1 .. Len(Tail(s)) + Len(t) :
            (Tail(s) \o t)[i] = IF i <= Len(Tail(s)) THEN Tail(s)[i]
                                ELSE t[i - Len(Tail(s))]
  BY <1>5, ConcatProperties
<1>8. Len(Tail(s \o t)) = Len(Tail(s) \o t)
  BY <1>1, <1>2, <1>5, <1>6, <1>7
<1>9. ASSUME NEW i \in 1 .. Len(Tail(s \o t))
      PROVE  Tail(s \o t)[i] = (Tail(s) \o t)[i]
  <2>1. i + 1 \in 1 .. Len(s) + Len(t) /\ i \in 1 .. Len(Tail(s)) + Len(t)
    BY <1>1, <1>2, <1>5, <1>6
  <2>2. CASE i + 1 <= Len(s)
    BY <1>1, <1>2, <1>5, <1>6, <1>7, <2>1, <2>2
  <2>3. CASE ~(i + 1 <= Len(s))
    <3>1. i + 1 - Len(s) = i - Len(Tail(s))
      BY <1>2, <1>5
    <3> QED
      BY <1>1, <1>2, <1>5, <1>6, <1>7, <2>1, <2>3, <3>1
  <2> QED
    BY <2>2, <2>3
<1>10. Tail(s \o t) = Tail(s) \o t
  BY <1>6, <1>7, <1>8, <1>9, SeqEqual
<1> QED
  BY <1>3, <1>4, <1>10

(* A push is Submit, the call of a functor is Execute, and every other     *)
(* step of the reactor, the swap included, is invisible.                   *)
THEOREM LoopImplementsFunctorQueue == Spec => ImplementsFunctorQueue
<1>1. Init => FQ!Init
  BY DEF Init, FQ!Init
<1>2. TypeOK /\ [Next]_vars => [FQ!Next]_(FQ!vars)
  <2> SUFFICES ASSUME TypeOK, [Next]_vars PROVE [FQ!Next]_(FQ!vars)
    OBVIOUS
  <2> USE DEF TypeOK, VarTypes, history
  <2>1. ASSUME NEW t \in Threads, NEW f \in Functors, queueInLoop(t, f)
        PROVE  [FQ!Next]_(FQ!vars)
    <3>1. functors \o Append(pending, f) = Append(functors \o pending, f)
      BY ConcatAppend
    <3>2. FQ!Submit(f)
      BY <2>1, <3>1 DEF queueInLoop, FQ!Submit
    <3> QED
      BY <3>2 DEF FQ!Next
  <2>2. CASE EnterFunctor
    <3>1. /\ functors \o pending # <<>>
          /\ Head(functors \o pending) = Head(functors)
          /\ Tail(functors \o pending) = Tail(functors) \o pending
      BY <2>2, HeadTailConcat DEF EnterFunctor
    <3>2. FQ!Execute
      BY <2>2, <3>1 DEF EnterFunctor, FQ!Execute
    <3> QED
      BY <3>2 DEF FQ!Next
  <2>3. CASE SwapPendingFunctors
    <3>1. functors = <<>>
      BY <2>3 DEF SwapPendingFunctors, Brackets
    <3>2. functors' \o pending' = functors \o pending
      BY <2>3, <3>1, ConcatEmptySeq DEF SwapPendingFunctors
    <3> QED
      BY <2>3, <3>2 DEF SwapPendingFunctors, FQ!vars
  <2>4. CASE UNCHANGED <<functors, pending, ran, submitted>>
    BY <2>4 DEF FQ!vars
  <2>5. ASSUME NEW t \in Threads, Quit(t) \/ wakeup(t)
        PROVE  UNCHANGED <<functors, pending, ran, submitted>>
    BY <2>5 DEF Quit, wakeup
  <2>6. Loop \/ PollReady \/ PollTimeout \/ TestQuit \/ handleRead
        \/ EnterCallback \/ LeaveCallback \/ EnterPendingFunctors
        \/ LeaveFunctor \/ LeavePendingFunctors \/ UNCHANGED vars
        => UNCHANGED <<functors, pending, ran, submitted>>
    BY DEF Loop, PollReady, PollTimeout, TestQuit, handleRead, EnterCallback,
           LeaveCallback, EnterPendingFunctors, LeaveFunctor,
           LeavePendingFunctors, vars
  <2> QED
    BY <2>1, <2>2, <2>3, <2>4, <2>5, <2>6
    DEF Next, Call, runInLoop, LoopProgress, PollWoken
<1> QED
  BY Typing, <1>1, <1>2, PTL DEF Spec, ImplementsFunctorQueue, FQ!Spec

-----------------------------------------------------------------------------
(* EventLoopThread.                                                        *)

(* The places of the owner from the return of startLoop()'s wait to join() *)
(* and, of them, those before its quit().                                  *)
HasWaited == {"returning", "using", "quitting", "calling", "waking", "joining"}
BeforeQuit == {"new", "started", "checking", "waiting", "returning", "using",
               "quitting", "calling"}

(* The EventLoop exists, and loop_ points to it, exactly in these phases   *)
(* of the thread, and only in one of them is the loop entered.             *)
PhasesAgree ==
    /\ exists <=> tpc \in {"init", "published", "looping", "cleared"}
    /\ loopPtr = "loop" <=> tpc \in {"published", "looping"}
    /\ pc # "idle" => tpc = "looping"

(* How far the thread is when the owner is somewhere.                      *)
OwnerAgrees ==
    /\ opc = "new" => tpc = "none"
    /\ opc \in HasWaited => tpc \in {"published", "looping", "cleared", "exited"}
    /\ opc = "done" => tpc \in {"none", "cleared", "exited"}

(* A loop that does not quit itself runs until its owner quits it.         *)
RunsUntilQuit ==
    ~selfQuits /\ opc \in BeforeQuit =>
        /\ ~quit
        /\ tpc \notin {"cleared", "exited"}
        /\ tpc = "looping" => pc # "idle"

ThreadInv ==
    /\ ThreadTypeOK
    /\ PhasesAgree
    /\ OwnerAgrees
    /\ RunsUntilQuit
    /\ ~selfQuits /\ opc = "using" => result = "loop"
    /\ ~selfQuits => dangling \subseteq {"wakeupInQuit"}

-----------------------------------------------------------------------------
(* The reactor inside its thread.                                          *)

(* Every step of the two threads is a step of the reactor or leaves it     *)
(* alone.                                                                  *)
LEMMA ReactorSteps == [ThreadNext]_allVars => [Next]_vars
<1> SUFFICES ASSUME [ThreadNext]_allVars PROVE [Next]_vars
  OBVIOUS
<1>1. Owner \in Threads /\ LoopThread \in Threads
  BY OwnerAssumption DEF Threads
<1>2. CASE CountDown \/ ConstructLoop \/ Publish \/ ClearLoop \/ DestroyLoop
  BY <1>2 DEF CountDown, ConstructLoop, Publish, ClearLoop, DestroyLoop
<1>3. CASE EnterLoop
  BY <1>3 DEF EnterLoop, Next
<1>4. CASE LoopThreadStep
  BY <1>4 DEF LoopThreadStep, Next
<1>5. CASE LoopThreadCall
  BY <1>1, <1>5 DEF LoopThreadCall, Next, Call
<1>6. CASE OwnerCall
  BY <1>1, <1>6 DEF OwnerCall, Next, Call
<1>7. CASE QuitLoop
  BY <1>1, <1>7 DEF QuitLoop, Next, Call
<1>8. CASE WakeLoop
  BY <1>1, <1>8 DEF WakeLoop, Next, Call
<1>9. CASE StartThread \/ StartFails \/ Destructor \/ LatchOpens \/ CheckPublished
           \/ ReturnLoop \/ ReadLoop \/ Join \/ Crash
  BY <1>9 DEF StartThread, StartFails, Destructor, LatchOpens, CheckPublished,
              ReturnLoop, ReadLoop, Join, Crash
<1>10. CASE Finished \/ UNCHANGED allVars
  BY <1>10 DEF Finished, allVars
<1> QED
  BY <1>2, <1>3, <1>4, <1>5, <1>6, <1>7, <1>8, <1>9, <1>10
  DEF ThreadNext, ThreadStep, OwnerStep

(* So the reactor keeps its types and its brackets.                        *)
LEMMA ReactorTypes == TypeOK /\ [Next]_vars => TypeOK'
BY VarTypesStep, BracketsStep DEF TypeOK

(* A step of the loop leaves quit_ alone, and loop() returns if it is set. *)
LEMMA LoopReturnsOnQuit ==
    ASSUME LoopProgress \/ PollReady \/ PollTimeout
    PROVE  quit' = quit /\ (pc' = "idle" => quit)
BY DEF LoopProgress, PollReady, PollTimeout, TestQuit, PollWoken, handleRead,
       EnterCallback, LeaveCallback, EnterPendingFunctors, SwapPendingFunctors,
       EnterFunctor, LeaveFunctor, LeavePendingFunctors

(* Calls into the loop leave the loop's thread where it is, and only quit()*)
(* sets quit_.                                                             *)
LEMMA CallsKeepPlace ==
    ASSUME NEW t
    PROVE  /\ wakeup(t) => UNCHANGED <<quit, pc>>
           /\ \A f \in Functors : queueInLoop(t, f) \/ runInLoop(t, f)
                                     => UNCHANGED <<quit, pc>>
           /\ Quit(t) => UNCHANGED pc
BY DEF wakeup, queueInLoop, runInLoop, Quit

-----------------------------------------------------------------------------
(* The owner and its thread.                                               *)

LEMMA InitThreadInv == ThreadInit => ThreadInv
<1> SUFFICES ASSUME ThreadInit PROVE ThreadInv
  OBVIOUS
<1>1. TypeOK
  BY InitTypes DEF ThreadInit
<1> QED
  BY <1>1 DEF ThreadInit, Init, ThreadInv, ThreadTypeOK, PhasesAgree, OwnerAgrees,
              RunsUntilQuit, HasWaited, BeforeQuit

(* The steps of the started thread outside the reactor.                    *)
LEMMA ThreadStepKeeps ==
    ASSUME ThreadInv, TypeOK', ThreadStep
    PROVE  ThreadInv'
<1> USE DEF ThreadInv, ThreadTypeOK, PhasesAgree, OwnerAgrees, RunsUntilQuit,
            HasWaited, BeforeQuit
<1>1. CASE CountDown
  BY <1>1 DEF CountDown, vars
<1>2. CASE ConstructLoop
  BY <1>2 DEF ConstructLoop, vars
<1>3. CASE Publish
  BY <1>3 DEF Publish, vars
<1>4. CASE EnterLoop
  BY <1>4 DEF EnterLoop, Loop
<1>5. CASE ClearLoop
  BY <1>5 DEF ClearLoop, vars
<1>6. CASE DestroyLoop
  BY <1>6 DEF DestroyLoop, vars
<1> QED
  BY <1>1, <1>2, <1>3, <1>4, <1>5, <1>6 DEF ThreadStep

(* The reactor, and what its callbacks call.                               *)
LEMMA ReactorKeeps ==
    ASSUME ThreadInv, TypeOK', LoopThreadStep \/ LoopThreadCall
    PROVE  ThreadInv'
<1> USE DEF ThreadInv, ThreadTypeOK, PhasesAgree, OwnerAgrees, RunsUntilQuit,
            HasWaited, BeforeQuit
<1>1. CASE LoopThreadStep
  BY <1>1, LoopReturnsOnQuit DEF LoopThreadStep, tvars
<1>2. CASE LoopThreadCall
  BY <1>2, CallsKeepPlace DEF LoopThreadCall, tvars
<1> QED
  BY <1>1, <1>2

(* The owner.                                                              *)
LEMMA OwnerKeeps ==
    ASSUME ThreadInv, TypeOK',
           StartThread \/ StartFails \/ OwnerCall \/ Destructor \/ OwnerStep \/ Crash
    PROVE  ThreadInv'
<1> USE DEF ThreadInv, ThreadTypeOK, PhasesAgree, OwnerAgrees, RunsUntilQuit,
            HasWaited, BeforeQuit
<1>1. CASE StartThread
  BY <1>1 DEF StartThread, vars
<1>2. CASE StartFails
  BY <1>2 DEF StartFails, vars
<1>3. CASE OwnerCall
  BY <1>3, CallsKeepPlace DEF OwnerCall, Touch
<1>4. CASE Destructor
  BY <1>4 DEF Destructor, vars
<1>5. CASE LatchOpens
  BY <1>5 DEF LatchOpens, vars
<1>6. CASE CheckPublished
  BY <1>6 DEF CheckPublished, vars
<1>7. CASE ReturnLoop
  BY <1>7 DEF ReturnLoop, vars
<1>8. CASE QuitLoop
  BY <1>8, CallsKeepPlace DEF QuitLoop, Touch
<1>9. CASE WakeLoop
  BY <1>9, CallsKeepPlace DEF WakeLoop, Touch
<1>10. CASE Join
  BY <1>10 DEF Join, vars
<1>11. CASE ReadLoop
  BY <1>11 DEF ReadLoop, Touch, vars
<1>12. CASE Crash
  BY <1>12 DEF Crash, vars
<1> QED
  BY <1>1, <1>2, <1>3, <1>4, <1>5, <1>6, <1>7, <1>8, <1>9, <1>10, <1>11, <1>12
  DEF OwnerStep

LEMMA ThreadInvStep == ThreadInv /\ [ThreadNext]_allVars => ThreadInv'
<1> SUFFICES ASSUME ThreadInv, [ThreadNext]_allVars PROVE ThreadInv'
  OBVIOUS
<1>1. TypeOK'
  BY ReactorSteps, ReactorTypes DEF ThreadInv, ThreadTypeOK
<1>2. CASE Finished \/ UNCHANGED allVars
  <2>1. UNCHANGED vars /\ UNCHANGED tvars
    BY <1>2 DEF Finished, allVars
  <2>2. UNCHANGED <<pc, quit, loopPtr, exists, tpc, opc, result, selfQuits, dangling>>
    BY <2>1 DEF vars, tvars
  <2> QED
    BY <1>1, <2>2 DEF ThreadInv, ThreadTypeOK, PhasesAgree, OwnerAgrees, RunsUntilQuit,
                      HasWaited, BeforeQuit
<1> QED
  BY <1>1, <1>2, ThreadStepKeeps, ReactorKeeps, OwnerKeeps DEF ThreadNext

LEMMA ThreadInvariant == ThreadSpec => []ThreadInv
BY InitThreadInv, ThreadInvStep, PTL DEF ThreadSpec

(* eventloopthread.cc:10-57: the reactor behaves inside its thread as      *)
(* EventLoop says, whenever it is entered, called and left, so what is     *)
(* proved of it holds here: no wakeup is lost, and it is a FIFO executor.  *)
THEOREM ThreadRunsReactor ==
    ThreadSpec => Spec /\ []NoLostWakeup /\ ImplementsFunctorQueue
<1>1. ThreadInit => Init
  BY DEF ThreadInit
<1>2. ThreadSpec => Spec
  BY <1>1, ReactorSteps, PTL DEF ThreadSpec, Spec
<1> QED
  BY <1>2, NoWakeupIsLost, LoopImplementsFunctorQueue, PTL

(* eventloopthread.cc:24-37: if the loop leaves quit() to its owner,       *)
(* startLoop() returns the address of an EventLoop that is constructed and *)
(* exists until the owner's destructor; every variable keeps its type.     *)
THEOREM StartedLoopExists == ThreadSpec => []StartLoopReturnsLoop
<1>1. ThreadInv => StartLoopReturnsLoop
  BY DEF ThreadInv, StartLoopReturnsLoop, OwnerAgrees, PhasesAgree, RunsUntilQuit,
         HasWaited, BeforeQuit
<1> QED
  BY <1>1, ThreadInvariant, PTL

(* eventloopthread.cc:16-22, eventloop.cc:109-117: if the loop leaves      *)
(* quit() to its owner, no call meets a null or destroyed EventLoop but the*)
(* wakeup() inside quit(); and, whoever quits, the thread has made its last*)
(* access to the EventLoopThread when the destructor returns.              *)
THEOREM OnlyQuitDangles == ThreadSpec => []OnlyQuitWindowDangles
<1>1. ThreadInv => OnlyQuitWindowDangles
  BY DEF ThreadInv, OnlyQuitWindowDangles, OwnerAgrees
<1> QED
  BY <1>1, ThreadInvariant, PTL
=============================================================================
