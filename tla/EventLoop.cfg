\* Two threads and the loop thread, three functors, an eventfd that saturates.
SPECIFICATION FairSpec
CONSTANTS
    LoopThread = loopThread
    OtherThreads = {t1, t2}
    Functors = {f1, f2, f3}
    MaxEventfd = 2
INVARIANTS
    NoLostWakeup
PROPERTIES
    ImplementsFunctorQueue
    QueuedIsRunPromptly
    QuitEndsLoop
