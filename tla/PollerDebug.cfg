\* A build with assertions, as CMakeLists.txt makes it by default.
SPECIFICATION BothSpec
CONSTANTS
    c1 = c1
    c2 = c2
    c3 = c3
    c4 = c4
    Channels <- MCChannels
    fd <- MCfd
    NoChannel = NoChannel
    Debug = TRUE
    kInitEventListSize = 2
INVARIANTS
    UpdateAssertionHolds
