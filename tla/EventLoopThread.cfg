\* The owner and the started thread; the loop may quit itself or not.
SPECIFICATION ThreadFairSpec
CONSTANTS
    LoopThread = loopThread
    OtherThreads = {owner}
    Owner = owner
    Functors = {f1, f2}
    MaxEventfd = 2
INVARIANTS
    StartLoopReturnsLoop
    OnlyQuitWindowDangles
PROPERTIES
    StartLoopReturns
    DestructorReturns
