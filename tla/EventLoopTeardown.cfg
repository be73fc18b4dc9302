\* A build with NDEBUG: a debug build stops at disableAll (see PollerDebug).
SPECIFICATION TeardownSpec
CONSTANTS
    timerfdChannel = timerfdChannel
    wakeupChannel = wakeupChannel
    other = other
    Channels <- MCChannels
    fd <- MCfd
    NoChannel = NoChannel
    Debug = FALSE
INVARIANTS
    NoNeedToRemoveWakeup
CHECK_DEADLOCK FALSE
