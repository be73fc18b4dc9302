\* The pool: two workers, two other callers of run(), four tasks.  The queue:
\* two threads on either side, three items, room for one or two or for all.
\* The server: four connections, up to three threads and three descriptors.
\* The logger: two threads, and a zone or none, over two seconds.
SPECIFICATION MCSpec
CONSTANTS
    Workers = {w1, w2}
    Producers = {p1, p2}
    Tasks = {a, b, c, d}
    Sizes = {0, 1}
    NoTask = NoTask
    Putters = {put1, put2}
    Getters = {get1, get2}
    Items = {i, j, k}
    Capacities = {1, 2}
    Unbounded = Unbounded
    NoItem = NoItem
    Garbage = Garbage
    Connections = {c1, c2, c3, c4}
    Counts = {0, 1, 2, 3}
    MaxFds = 3
    LogThreads = {l1, l2}
    Offsets = {5}
    NoZone = NoZone
    MaxSecond = 2
\* Each of them is idle when nobody calls.
CHECK_DEADLOCK FALSE
INVARIANTS
    NobodySleepsInVain
    LoopsAreBalanced
    StampIsCurrent
PROPERTIES
    ImplementsFunctorQueue
    EverybodyMoves
    PutItemsAreTaken
    BacklogIsServed
