\* A build with NDEBUG.
SPECIFICATION BothSpec
CONSTANTS
    c1 = c1
    c2 = c2
    c3 = c3
    c4 = c4
    Channels <- MCChannels
    fd <- MCfd
    NoChannel = NoChannel
    Debug = FALSE
    kInitEventListSize = 2
INVARIANTS
    EPollNeverRefused
    PollersDifferOnlyIfDisabledAgain
    KernelWatchesInterest
    OnlyLine54Fails
PROPERTIES
    PollReportsInterested
