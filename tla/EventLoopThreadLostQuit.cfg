\* The owner's destructor against the start of loop().
SPECIFICATION ThreadFairSpec
CONSTANTS
    LoopThread = loopThread
    OtherThreads = {owner}
    Owner = owner
    Functors = {f1, f2}
    MaxEventfd = 2
PROPERTIES
    QuitFromOwnerEndsThread
