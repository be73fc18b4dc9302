\* Two timers on two addresses, so that the second may reuse the first's.
SPECIFICATION FairSpec
CONSTANTS
    Addrs = {1, 2}
    Intervals = {0, 1}
    MaxTimers = 2
    MaxQueue = 2
    Horizon = 3
INVARIANTS
    IndexesAgree
    OneOwner
    TimerfdInTime
    CancelledStaysCancelled
PROPERTIES
    DueTimerExpires
CHECK_DEADLOCK FALSE
