------------------------- MODULE EventLoopTeardown --------------------------
(***************************************************************************)
(* leanet::EventLoop::~EventLoop (src/leanet/eventloop.cc:72-79) and the   *)
(* destruction of its members, last declared first: wakeupChannel_, then   *)
(* timerQueue_, then poller_.  The timer queue's destructor removes its    *)
(* channel from the poller; the wakeup channel was never removed.          *)
(*                                                                         *)
(* The loop may have any other channels, some of them removed before: what *)
(* is in the array is any state that the poller reaches with the two       *)
(* channels of the constructor registered first.                           *)
(***************************************************************************)
EXTENDS Poller

CONSTANTS timerfdChannel,    \* TimerQueue::timerfdChannel_
          wakeupChannel      \* EventLoop::wakeupChannel_

VARIABLES
    phase,      \* how far the construction or the destruction is
    touched     \* history: destroyed channels that removeChannel wrote to

teardownVars == <<phase, touched>>

TeardownInit ==
    /\ Init
    /\ phase = "constructing"
    /\ touched = {}

(* EventLoop's constructor: timerQueue_ first, wakeupChannel_ after it.    *)
ConstructMembers ==
    /\ phase = "constructing"
    /\ \/ timerfdChannel \notin alive /\ Construct(timerfdChannel)
       \/ timerfdChannel \in alive \ Registered /\ enableReading(timerfdChannel)
       \/ timerfdChannel \in Registered /\ Construct(wakeupChannel)
       \/ wakeupChannel \in alive /\ enableReading(wakeupChannel)
    /\ phase' = IF wakeupChannel \in Registered' THEN "running" ELSE phase
    /\ UNCHANGED touched

(* The other channels come and go.                                         *)
Run ==
    /\ phase = "running"
    /\ \E ch \in Channels \ {timerfdChannel, wakeupChannel} :
          \/ Construct(ch)
          \/ enableReading(ch)
          \/ disableAll(ch)
          \/ removeChannel(ch)
          \/ Destruct(ch)
    /\ UNCHANGED teardownVars

(* The body of ~EventLoop, once loop() has returned.                       *)
DisableWakeup ==
    /\ phase = "running"
    /\ disableAll(wakeupChannel)
    /\ phase' = "disabled"
    /\ UNCHANGED touched

(* ~unique_ptr<Channel>: the channel's memory goes, its slot and its entry *)
(* of channels_ stay.                                                      *)
DestroyWakeup ==
    /\ phase = "disabled"
    /\ alive' = alive \ {wakeupChannel}
    /\ phase' = "destroyed"
    /\ UNCHANGED <<pollfds, channels, interested, index, removed, active,
                   failed, touched>>

(* ~TimerQueue: timerfdChannel_.disableAll(), timerfdChannel_.remove().    *)
DisableTimerfd ==
    /\ phase = "destroyed"
    /\ disableAll(timerfdChannel)
    /\ phase' = "timerDisabled"
    /\ UNCHANGED touched

RemoveTimerfd ==
    /\ phase = "timerDisabled"
    /\ touched' = IF index[timerfdChannel] + 1 = Len(pollfds) THEN {}
                  ELSE {LastChannel} \ alive
    /\ removeChannel(timerfdChannel)
    /\ phase' = "timerRemoved"

TeardownNext ==
    \/ ConstructMembers
    \/ Run
    \/ DisableWakeup
    \/ DestroyWakeup
    \/ DisableTimerfd
    \/ RemoveTimerfd

TeardownSpec == TeardownInit /\ [][TeardownNext]_<<vars, teardownVars>>

(* "no need to call wakeupChannel_->remove()" (eventloop.cc:77): leaving   *)
(* the wakeup channel in the poller harms nobody, for nothing writes to it *)
(* after it is destroyed.                                                  *)
NoNeedToRemoveWakeup == touched = {}
=============================================================================
