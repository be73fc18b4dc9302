# leanet in TLA+

leanet is a C++ network library in the reactor style: one `EventLoop` per
thread, `Channel`s registered with a `Poller`, timers behind a `timerfd`, and
TCP servers and clients on top. This directory holds TLA+ modules translated
from `src/src/leanet`, TLC configurations that check them on small instances,
and TLAPS proofs of the results that hold for every value of the constants.
Paths below are relative to `src/src/leanet`.

## The system

| component | state | operations | how it meets the others |
|---|---|---|---|
| `EventLoop` | `looping_`, `quit_`, `callingPendingFunctors_`, `pendingFunctors_` (under `mutex_`), `wakeupFd_`, `activeChannels_` | `loop`, `quit`, `queueInLoop`, `runInLoop`, `wakeup`, `handleRead`, `doPendingFunctors` | any thread queues functors or quits; the loop calls the callbacks of channels and the functors |
| `EventLoopThread` | `loop_` (under `mutex_`, but not always), `thread_` | `startLoop`, `threadFunc`, destructor | publishes a loop that lives on another thread's stack |
| `EventLoopThreadPool` | threads, loops, `next_` | `start`, `getNextLoop` | hands loops to `TcpServer` |
| `Poller`, `Channel` | `pollfds_`, `channels_`, each channel's interest and index | `updateChannel`, `removeChannel`, `poll`, `enable*`, `disable*`, `handleEvent` | called by every owner of a descriptor, on the loop thread only |
| `EPollPoller` | `events_`, `channels_`, each channel's tag, the kernel's list | the same as `Poller` | nothing constructs it |
| `TimerQueue` | `timers_`, `activeTimers_`, `cancelingTimers_`, `callingExpiredTimers_`, `timerfd_` | `addTimer`, `cancelTimer`, `handleRead`, `reset` | the calls go through `runInLoop`; callbacks call back into it |
| `Connector` | `connected_`, `state_`, `channel_`, `retryDelayMs_` | `start`, `restart`, `stop`, `connect`, `retry`, `handleWrite`, `handleError` | a channel for the connecting socket, a timer for the retry |
| `TcpClient` | `connected_`, `retry_`, `connection_` (under `mutex_`) | `connect`, `disconnect`, `stop`, `newConnection`, `removeConnection`, destructor | owns a `Connector` and at most one connection |
| `TcpConnection` | `state_`, `inputBuffer_`, `outputBuffer_` | `send`, `shutdown`, `handleRead`, `handleWrite`, `handleClose`, `connectEstablished`, `connectDestroyed` | `send` and `shutdown` from any thread |
| `TcpServer`, `Acceptor` | the map of connections, `threadPool_`; the listening channel | `start`, `newConnection`, `removeConnection`; `listen`, `handleRead` | the acceptor's callback takes a loop for each connection; connections live on the pool's loops, the map on the acceptor's |
| `Buffer`, `CircularBuffer` | bytes and two indexes | `append`, `prepend`, `retrieve`, `unwrite`, `readFd` | the connection's buffers |
| `ThreadPool`, `BlockingQueue`, `BoundedBlockingQueue`, `CountdownLatch` | a queue or a count under a mutex, conditions | `start`, `stop`, `runInThread`, `put`, `get`, `wait` | worker threads and their callers |
| `Date`, `TimeZone` | a day number; the transitions of a zone | conversions | `Logger` converts with `TimeZone`, `TimeZone` with `Date` |
| `LogStream`, `Logger`, `Timestamp` | a fixed buffer; each thread's last second and its text; `g_timezone` | formatting, `setTimeZone` | every thread logs |
| `Socket`, `sockets`, `InetAddress`, utilities | a descriptor | system calls | inputs of the above |

What is hard here: the hand-over of functors between threads and the eventfd
that goes with it; `quit` from another thread; a loop whose address is
published to an owner; the poller's array, in which slots move; raw `Timer`
pointers that are owned by a queue, by a pending functor or by a batch in turn;
connections that end on one thread while another one sends; retries that race
with `stop`; and pools whose callers and workers wait for each other.
`PROJECT.json` lists every such place under `hazards`, with the property that
covers it.

## Modules

### FunctorQueue

What `queueInLoop` promises, without the mutex, the eventfd, the swap or the
poll: functors are submitted by any thread and run one at a time, in order, at
most once.

### EventLoop

`eventloop.cc`. One action per call (`queueInLoop`, `runInLoop`, `Quit`,
`wakeup`) and one per step of the loop thread: `Loop`, `TestQuit`, `PollReady`,
`PollTimeout`, `handleRead`, `EnterCallback`, `LeaveCallback`, and
`doPendingFunctors` split at its critical section (`EnterPendingFunctors`,
`SwapPendingFunctors`, `EnterFunctor`, `LeaveFunctor`, `LeavePendingFunctors`).
A call made by another thread is two steps, the update of the shared state and
the write to the eventfd, and the loop may take any number of steps in between.
Callbacks and functors are user code: while the loop thread is inside one it may
make any of the calls. A functor is a model value; what it does is the calls made
while it runs. `ran`, `submitted` and `silent` are history variables; `silent`
is the set of functors that the loop's own thread queued before `loop()`, for
which the code writes no wakeup.

`ImplementsFunctorQueue` is the refinement: the abstract queue is the rest of
the batch followed by `pendingFunctors_`.

Fairness: `WF(LoopProgress)` says that the loop thread is scheduled and that
callbacks and functors return; a poll returns by itself only when the eventfd is
readable. `WF(wakeup(t))` says that a thread that has pushed goes on to the
write. No thread is obliged to make a call, no channel to become ready, and
`poll(2)` need not time out: the liveness properties rest on the eventfd alone.

### EventLoopThread

`eventloopthread.cc`, `Thread::start`, `Thread::join` and the latch, composed
with the whole of `EventLoop` (it extends that module; its actions say when the
reactor's steps can happen). `exists` tells whether the `EventLoop` on the
thread's stack is constructed; a call through a pointer to one that is not is
recorded in `dangling` by `Touch`, and from then on the process may end (`Crash`).
The destructor is the test of `loop_` (`Destructor`), its second read (`ReadLoop`),
which crashes at once if the thread has assigned `NULL` since, `quit()` in its two
halves (`QuitLoop`, `WakeLoop`) and `Join`. `selfQuits`, chosen once at the start,
tells whether callbacks on the loop thread call `quit()` themselves. Then `startLoop`
can miss the loop altogether (the loop ends before the owner looks at `loop_`
again, and `startLoop` waits forever) or return an address that is gone, and the
destructor can meet a null or destroyed loop: the properties of `startLoop` and the
bound of `OnlyQuitWindowDangles` are stated for a loop that does not quit itself, and
`DestructorReturns` says that the destructor returns or the process has crashed, which
without `selfQuits` happens in `quit()`'s own window only.

### Poller

`poller.cc` and the registration half of `Channel`. The actions are the calls
that channels make (`enableReading` ... `removeChannel`), `poll`, and the
constructor and destructor of a channel. The C++ index `i` is the TLA+ index
`i + 1`. An assertion that fails is recorded by its line in `failed`; with
`Debug` the program stops there, without it (a build with `NDEBUG`) it goes on.
The callers' side of the contract is the repository's: a channel is disabled
before it is removed, removed before it is destroyed, and not used in between;
a descriptor belongs to one living channel at a time.

### EPollPoller

`epollpoller.cc`, driven by the same calls as `Poller`: `BothNext` makes each call
of a channel one step of both pollers, so that they can be compared. The kernel's side of `epoll_ctl` is `Accepted`, `WatchedAfter` and
`Refusal`; `refused` collects what it refuses, since the code ignores it (line
118), and the assertions that fail. A second `disableAll` takes the first branch of
`updateChannel` and adds the descriptor again with no events: the kernel accepts that
and reports errors and hangups for it, while `Poller` keeps `-fd-1`, which `poll`
ignores. `again` is the set of these channels, and
`PollersDifferOnlyIfDisabledAgain` says that the two pollers differ in them and in
nothing else. The library disables a channel twice when a connection is destroyed
after `handleClose` in a build with `NDEBUG`. The
constructor does not initialise `loop_`; the assertions that read it are taken to
hold.

### EventLoopTeardown

`~EventLoop` and the destructors of its members in their order, on top of
`Poller`.

### TimerQueue

`timerqueue.cc`, `timer.h` and `timer.cc`. The heap maps addresses to `Timer`
objects and gives an address out again once it is free, so the pair
(address, sequence) matters as it does in the code. `handleRead` is three
actions, `TakeExpired`, `RunTimer`/`CallbackReturns` and `reset`, with calls by
the callbacks and by the other thread in between; the clock ticks between any
two steps. `callingExpiredTimers_` starts with either value, because the
constructor does not initialise it. The other thread's calls are appended to a
FIFO queue that the idle loop consumes, which is what `EventLoop` is shown to
implement. One time unit stands for the 100 microseconds that
`howMuchTimeFromNow` puts as a minimum.

### ByteQueue and Buffer

`ByteQueue` is a sequence of bytes that is appended to, prepended to and
consumed at either end. `Buffer` is `buffer.h` and `buffer.cc`: an array, its
size and the two indexes, one action per group of calls (`CallAppend`,
`CallPrepend`, `CallRetrieve`, `CallRetrieveAll`, `CallUnwrite`,
`CallEnsureWritable`, `CallReadFd`, and `WriteInPlace` for `beginWrite` followed
by `hasWritten`). `extend` is its two branches, `Resized` and `MovedAhead`, and
`readFd` splits what `readv` returns between the array and the extra space. The
abstract content is the cells between the indexes. Callers obey the
preconditions that the code asserts at its entry; the assertions in the middle
of `extend` are recorded in `failed`. `swap` is left out.

### CircularBuffer

`circularbuffer.h`: the ring behind the same abstract `ByteQueue`, with every
operation and the copies. `put` writes in two pieces when the end of the array
comes first, `extend` moves the two pieces to a ring of twice the size.
`retrieveAsString(len)` returns every readable byte although it consumes `len`;
`AsString` says so, and the property says only that what is returned begins with
what is consumed.

### Date, CArithmetic and TimeZone

`Date` is the two conversions of `date.cc`, checked against a calendar that walks
day by day, taken from `test/date_unittest.cc`. `CArithmetic` is C's division.
`TimeZone` is `timezone.cc`: `toUtcTime` and `fromUtcTime`, the binary search of
`findLocaltime` in both of its orders, `toLocalTime`, and `fromLocalTime` with its
correction for a repeated hour. A behaviour looks at one zone at the instants around
its transitions. Taken as given: the process's own zone is UTC (`mktime`), and
daylight saving time is one hour (the code subtracts 3600);
`LocalTimesReadBack` is stated for the zones that put the clock back only by
that hour, and Moscow's change of standard time is an instance to which it does
not apply. `parseTimeZoneFile` returns true also for a file that cannot be read,
after which the list of local times is empty and `findLocaltime` has no first
element to take; the model's files are complete.

### LogStream and Logger

`LogStream` is `convert` for the integers of one type: digits of negative
numbers are taken from negative remainders. `Logger` is `formatTime`, one step for
each read of the unlocked `g_timezone`: the first `valid()` (`TestZone`), the
conversion (`toLocalTime` or `gmtime`) and the second `valid()`, which decides the
mark (`Write`). `setTimeZone` may come between any two. One that comes between the
first test and the conversion races with it (`raced`): the conversion may use either
zone, leave `Garbage` or crash at a null or freed zone. `zones` are the zones that
have been in force since a thread began its text. `StampIsCurrent` says that text and
second agree, in one of these zones, and that the mark is that zone's unless another
was set since; a text whose conversion was overlapped is exempt until its second is
over, and a text of one zone with the mark of another is what the code does when
`setTimeZone` comes within the second.

### BlockingQueue

`blockingqueue.h` and `boundedblockingqueue.h`, the first as a queue whose
capacity is `Unbounded`. As in `ThreadPool` a critical section is one step and
waits may return by themselves. `get()` keeps a reference to the front element
over `pop_front()`; the value that it returns is the element or `Garbage`, and the
properties speak of the elements that left the queue. A capacity of 0, for which
every `put()` waits forever, is not among the instances.

### Server

`Acceptor` on the base loop and the `EventLoopThreadPool` from which its callback
takes loops. The kernel's queue of completed connections, the clients that come
and reset, and the lack of descriptors decide what `accept4` returns; so does
`trouble`, everything that no client brings about: the kernel out of memory or files,
the network errors that accept(2) documents, a listening descriptor that other code has
closed or replaced. The errors of `trouble` reach the fatal arms of `sockets::accept`
(lines 100 to 112) and end the process. `BacklogIsServed` takes this as its only
excuse: an error that a client or a full descriptor table can cause must not abort.
`Accept` is `handleRead` with its callback: of `TcpServer::newConnection` only the
choice of a loop, with a pool that somebody made.

### OutputStream and TcpConnection

`OutputStream` is what `send` and `shutdown` promise: the accepted messages are
written in order, each byte once, and the write side is shut only when nothing
waits. `TcpConnection` is `tcpconnection.cc` with the owner's close callback
(`tcpclient.cc:124`), the part of `Channel::handleEvent` that orders the
handlers, and the loop's three phases. `handleEvent` calls one handler per step,
so user code (`SendHere`, `ShutdownHere`) and the other thread act in between;
the other thread's `send` and `shutdown` are split where the code reads and
writes `state_` (`BeginSend`, `QueueSend`, `BeginShutdown`, `SetDisconnecting`,
`QueueShutdown`). A write takes any part of what fits in the kernel's buffer or
fails. Shared pointers are modelled by who holds one (`Exists`): a functor that
binds `this` (lines 147 and 204) keeps nobody alive. `raced` records that the
other thread was between its test of `state_` and its `queueInLoop` when the
connection closed; then, and only then, does a functor touch a removed channel
or a destroyed object (`OnlyRacesHurt`).

What the module takes as given, and what reading the code shows besides:

- the constructor calls `socket_->bindAddress` (line 46), which on Linux fails
  for a connected socket and aborts in `sockets::bindOrDie`; the model starts
  behind it;
- the test of `EPIPE` (line 176) is inside the one of `EWOULDBLOCK` (line 174),
  so no error makes `sendInLoop` give up: the model has no such outcome;
- bytes accepted after the write side is shut wait forever, and `handleWrite`
  fails on them at every poll;
- the caller keeps a message passed to `send` from another thread alive until
  the functor has run (line 147 binds the pointer).

### TcpClient

`tcpclient.cc` and `connector.cc`. The functors that they queue
(`startInLoop`, `stopInLoop`, `resetChannel`, `connectDestroyed`), the retry
timer and the events of the connecting channel and of the connection are
dispatched by the loop one per step. `removeConnection` and the `restart()` at
its end are two steps, because `stop()` on another thread can come between the
test of `connected_` and `restart()`, which sets it again. `connect()` and
`stop()` by the other thread are three steps each: the client's flag, the
connector's flag, the functor.

A failed assertion ends the program here. `hasty` records a `connect()` made
before everything that earlier calls started is over, and the properties are
stated without it. The behaviours that it excludes contain failed assertions:

- `connect(); stop(); connect();` in one callback, and `connect()` after a
  connection is closed without retry (`state_` stays `kConnected`): the assertion
  at `connector.cc:42`;
- `stop()` while a retry timer runs, then `connect()`: the timer, which `stop()`
  does not cancel, starts an attempt inside the new one, line 42 again;
- `stop(); connect();` from another thread while connecting, with both functors
  in one batch, or in the callback in which an attempt has failed: the channel is
  not destroyed yet, line 108.

`raced` records a `stop()` in the middle of a `restart()` or a `connect()`; after
it the client may go on connecting. `OneAttempt`, `StopIsFinal` and
`DestroyedIsNotCalled` are stated without it, `KeepsTrying` with it.

`~TcpClient` is `DestroyHere` on the loop's thread; on the other one it reads
`connection_` first (`BeginDestroy`) and then redirects the close callback
(`Detach`, whose functor is `setCloseCallback`) or stops the connector in the steps
of `Connector::stop` and leaves it to a timer of one second (`Linger`).
`lingering` counts down the turns of the loop until that timer. `DestroyedIsNotCalled`
says that what is left behind calls neither the client nor the connector once they
are gone, but for its exceptions, which are recorded in `raced` (a destructor on another thread
while the loop makes or loses the connection), `hasty` (functors of the connector
are queued) and `failed`:

- with a connection, `connector_` is destroyed at once, although functors that
  bind its raw `this` (`startInLoop`, `stopInLoop`, `resetChannel`) may be queued;
  if its channel is still there the assertion at `connector.cc:23` fails;
- a connection that nobody else holds is destroyed while it is connected, which
  the assertion at `tcpconnection.cc:55` forbids: the `forceClose` that would
  prevent it is a TODO (`tcpclient.cc:63`);
- a destructor on another thread can overlap `newConnection` and the close
  callback, which bind the client's `this`: the caller has to order them;
- the second of `runAfter(1, ...)` is assumed to outlast the turns of the loop
  that are needed to run the queued functors: `lingering` starts at three.

### ThreadPool

`threadpool.cc` after `start()`. A critical section, up to its `wait` or its end,
is one step; the workers' read of `running_` outside the mutex is a step of its
own. A task may call `run()` any number of times. Waits may return
spuriously. The queue implements `FunctorQueue`. `start()` itself is not
modelled: it asserts `!threads_.empty()` (line 24) before it creates the first
thread, which holds for no pool, so that a pool can be started only in a build
without assertions.

### MCSequential and MCThreads

For TLC, the small components that share nothing are put side by side, one in
each behaviour: `which` names it, and the other variables stay as they are.
`MCSequential` holds what one thread uses alone (`Buffer`, `CircularBuffer`,
`Date`, `TimeZone`, `LogStream`), `MCThreads` what several threads share
(`ThreadPool`, `BlockingQueue`, `Server`, `Logger`). Each property is that of the
component's module.

## The runs

Every passing run explores the whole state space of its instance.

| run | instance | what it shows |
|---|---|---|
| `EventLoop` | two other threads, three functors, an eventfd that saturates at 2 | no wakeup is lost, the loop refines `FunctorQueue`; queued functors run and `quit` ends the loop, without timeouts |
| `EventLoopThread` | owner and thread, two functors, a `pthread_create` that may fail, crashes | if only the owner quits: `startLoop` returns, and returns a living loop, and only `quit()`'s window between `quit_ = true` and its wakeup touches a destroyed loop; whoever quits: the thread does not touch a destroyed owner, the destructor joins unless the process crashes |
| `EventLoopThreadLostQuit` | same | **violated**: a `quit()` before `loop()` clears `quit_` is lost |
| `Poller` | four channels on three descriptors, both pollers, assertions off | slots and tags agree, both pollers watch what channels asked for, and differ only in channels disabled twice, `epoll_ctl` is never refused, polls report only interested channels |
| `PollerDebug` | same, assertions on | **violated**: the assertion at `poller.cc:54` |
| `EventLoopTeardown` | wakeup channel, timer channel, one more | **violated**: `~EventLoop` leaves its wakeup channel in the poller, which then writes to it |
| `TimerQueue` | two timers on two addresses, a queue of two, time up to 3 | the two indexes agree, each `Timer` has one owner, the timerfd is armed in time, cancelled timers stay cancelled, due timers expire |
| `TcpConnection` | two messages of three bytes, room for two, a high-water mark of three | refinement of `OutputStream`, `POLLOUT` exactly while bytes wait, delivery and completion of `shutdown()` |
| `TcpConnectionDestroyed` | one byte | **violated**: the assertion at `tcpconnection.cc:69` |
| `TcpClient` | two `connect()`, two `stop()`, delays 1, 2, 3, one destructor | one attempt at a time, the client keeps trying, `stop()` is final, a destroyed client is not called |
| `Sequential` | bits, an array of up to six cells and a ring of up to seven; 1900 to 2500; three zones, every ten minutes for two hours around each transition; integers of eleven bits | both buffers refine `ByteQueue`, dates follow the calendar, times read back, integers read back |
| `Threads` | two workers, two callers, four tasks, a queue of one or unbounded; two putters, two getters, three items, capacity one, two or unbounded; four connections, up to three loops and three descriptors; two threads, a zone or none, two seconds | FIFO order and progress of the pool, no lost signal and every item taken in the queues, balanced loops, everyone served unless the process meets trouble of its own, current stamps |

Why the bounds are enough. Three functors and two threads let one functor run,
one wait in the batch and one wait in `pendingFunctors_` while a push is half
done; an eventfd of 2 saturates. With three slots `removeChannel` moves
the last one over the first while another stays between them; the fourth channel
shares a descriptor with one of the others, as after a close. Two addresses are
enough for a `Timer` to be freed and its address reused while the other one
lives; configurations with three timers gave the same results. Six cells reach
both branches of `extend`, with the readable bytes anywhere in the array; the ring
grows once, from every position of its two indexes. Six hundred years cover the
calendar's cycle of 400; the zones are one on each hemisphere and one that
changed its standard time. A message
of three with room for two gives a direct partial write and more by
`handleWrite`, with bytes of the second message behind it; the high-water mark of
three is crossed. Two `connect()` and two `stop()`
let each meet the other in every order. With two workers
and a queue of one, all the workers can wait for room, and one can be left behind
by `stop()`. Four tasks fill the queue while both workers and a producer hold
one. Two putters and two getters at a queue of one let both kinds be asleep and be
woken for one place. Four connections to three loops come round to the first loop
again, and three descriptors run out. A zone and none are enough for a test and a
conversion to see different zones and for a text to meet the other one's mark, and
setting the same zone again for the race; the second second shows that a text is made
anew.

Each property of a passing run is paired in `PROJECT.json` with a mutant, a
definition changed as a bug would change it, that makes TLC find the property
violated. The definitions marked *Mutation* in the modules are these; nothing
else uses them.

Fairness elsewhere: in `EventLoopThread` the two threads are scheduled; in
`TimerQueue` the clock goes on and the loop handles a readable timerfd; in
`TcpConnection` the loop runs (its poll returns at the latest after
`kPollTimeMs`) and a thread inside a call goes on, and that the peer reads is a
premise of the two properties that need it; in `ThreadPool` the threads inside the
pool run and tasks end; in `BlockingQueue` the threads inside `put` and `get` run
and the getters call `get` again, as those of the unit test do; in `Server` the base
loop runs, and an `accept4` that could succeed again and again is not interrupted
for ever (the one strong fairness, about the kernel). `MCThreads` takes each
module's fairness over for its own actions. User code is never obliged to call anything.
`CHECK_DEADLOCK FALSE` stands where the instance really stops: a pool that has
nothing to do, a loop that is torn down, a program that an assertion ended, a walk
through a calendar that is over, or the time bound of `TimerQueue`.

## What is proved

The theorems hold for every value of the constants under the assumptions that the
modules name (`LoopAssumption`: the loop's thread is not among the others and the
eventfd's maximum is positive; `PollerAssumption`: descriptors are numbers;
`TimerAssumption`: addresses, intervals and bounds are numbers; `OwnerAssumption`:
the owner is one of the other threads; `BufferAssumption`: the sizes are;
`SequentialAssumption`: years, the ring's bound and the greatest integer are numbers
and `Uninitialized` is no byte; `ZonesAssumption`: the bounds of the instants are
numbers and none is before the year 0; `ConnectionAssumption`: messages and the
kernel's buffer are not empty; `ClientAssumption`: the delays and bounds are
numbers, the initial delay at most the maximal one; `PoolAssumption`: there is a
worker, the callers are not workers and `NoTask` is no task; `ThreadsAssumption`:
counts of threads and seconds are numbers), or that a theorem states itself (sizes
and bounds are numbers; `Uninitialized` is no byte).

- `EventLoopProofs`. `Typing`. `NoWakeupIsLost`: `NoLostWakeup` is about the
  moment at which the loop is in the poll, and is not inductive. `WakeupInv`
  covers all places after the swap: whatever is pending from then on (other
  than functors of the owner's own thread before `loop()`) has a wakeup on its
  way, because the loop's thread cannot push without `callingPendingFunctors_` or
  from elsewhere than a callback. `BatchIsASnapshot`. `LoopImplementsFunctorQueue`:
  each step maps to `Submit`, `Execute` or a stutter; swapping leaves the
  concatenation of batch and pending functors as it is. `ThreadRunsReactor`: each
  step of `EventLoopThread` is one of the reactor's or leaves the reactor alone, so
  the same holds inside it. `StartedLoopExists` and `OnlyQuitDangles`, about a loop that
  leaves `quit()` to its owner, come from
  `ThreadInv`, which ties the places of the owner and of the started thread to each
  other (`PhasesAgree`, `OwnerAgrees`) and keeps the loop until it is told to quit
  (`RunsUntilQuit`).
- `PollerProofs`. `PollerInv` strengthens `IndexConsistent` with what the swap in
  `removeChannel` needs: map and slots agree, an index of -1 is one that was never
  given, registered channels have different descriptors. From it come `Typing`,
  `IndexesAreConsistent`, `PollWatchesInterest`, `OtherAssertionsHold` (all
  assertions but the one at line 54 hold) and `PollsReportInterested`. `EPollInv`
  says of each tag of `EPollPoller` what the kernel's list holds for the
  descriptor; with `PollerInv` it gives `EPollIsNeverRefused` and, with `AgainInv` (the
  channels disabled twice are those that are added and ask for nothing),
  `PollersAgree`.
- `TimerQueueProofs`. `TimerInv` joins `IndexesAgree` to the ownership of every
  address: an allocated `Timer` is pending, in the batch or bound by a functor, never
  two of these (`OwnedOnce`); sequence numbers are given in order, so that an address
  that is used again is not taken for the `Timer` that was there (`SequencesGiven`);
  functors and batch refer to live timers (`QueueAgrees`, `BatchAgrees`); and a
  timer that was cancelled is gone, noted in `cancelingTimers_` while its batch runs,
  or its functor waits (`CancelledOrNoted`). `IndexesAlwaysAgree`,
  `EveryTimerHasOneOwner`, `TimerfdAlwaysInTime` and `CancelledNeverPending` follow.
- `SequentialProofs`, the components of `MCSequential`. `BufferInv` is the order of the
  indexes. The lemmas say of each helper what it does to the readable bytes
  (`StoreCells`, `ResizedKeeps`, `MovedAheadKeeps`, `EnsureKeeps`, `PutAppends`,
  `PrependPrepends`, `RetrieveRetrieves`, `UnwriteUnwrites`, `ReadFdAppends`), and the
  theorems `Typing`, `AssertionsAlwaysHold`, `CheapPrependIsKept` and
  `BufferImplementsByteQueue` follow. For the calendar, `YearsBefore` and
  `MonthsBefore` are the two terms of `getJulianDayNumber`; `DivisionsFind` says that
  the divisions of `getYearMonthDay` recover century, year and day of the year,
  `DayFound` that this is the day whose number it was, and `NextDayCounted` that the
  next day has the next number, over the ends of months, years and centuries.
  `DateInv` (today is a day, with its number and weekday) then gives
  `CalendarAlwaysAgrees` for every range of years. `NumberFound` is the converse
  of `DayFound`: every day number from the year 0 on is that of the valid day that
  `getYearMonthDay` finds. With the division of C (`SplitDivides`) and of a day into
  hours, minutes and seconds (`ClockReadsBack`) it gives `UtcReadsBack`. For local
  times, `IsZone` says what a zone file holds: rules, and transitions in order, at
  least an hour apart by UTC and by local clocks. The binary search of
  `findLocaltime` is a function of the length and the start of the range that is
  left, which exists by a least counterexample (`SearchExists`) and finds the first
  transition that is not before the time (`SearchFinds`), so that the rule of the
  last one that has come is found (`RuleFound`), on the second of a transition,
  before the first and after the last. `fromLocalTime` then either finds the same
  rule (`SameRuleReadsBack`) or, in the first pass of an hour that is repeated, the
  next one (`NextIsLast`), and tries an hour later (`FirstPassReadsBack`).
  `ZoneInv` (the data are those of a zone, the instant is not before the first one)
  gives `TimesAlwaysReadBack`. For integers, `LowestExists` and `LowestIsWritten`
  follow the loop of `convert` by magnitude: the quotient's digits come first, by
  C's division (`TenthsOf`) it is nearer to 0, also from the least integer, and
  `digits[]` has a remainder's digit on either side of its middle (`ZeroIs`).
  `PassesOnce` and `NextDigitSpells` say what digits spell when they are read back;
  `IntegersAlwaysReadBack` follows for every type. `RingAlwaysImplementsByteQueue` is
  `CircularBufferProofs` for the ring of the composition.
- `TcpConnectionProofs`. `ConnInv` adds two things to `TypeOK` and
  `WritingIffWaiting`: `QueuesOK`, that `connectDestroyed` is queued only once the
  owner is gone (otherwise it could clear the interest while bytes wait), and
  `Fresh`, that nothing is queued, held or buffered before `connectEstablished`.
  `SendEffect`, `WriteEffect` and `CloseEffect` say what each call does to the
  stream. `Typing`, `PolloutWhileBytesWait` and `ConnectionImplementsOutputStream`
  follow; in the last, `ShutdownRefines` is where the interest in `POLLOUT` shows
  that the socket is shut down with nothing left in the buffer. `RaceInv` relates
  `state_`, the owner and what is queued, as long as nobody is caught between the
  test of `state_` and `queueInLoop`; `NothingElseHurts` follows.
- `TcpClientProofs`. `ClientInv` has a part that always holds (`TypeOK`, that a
  reported timer has not been run, that a poll's events and a swap's functors are
  over with their phase) and one, `CalmInv`, for as long as calls do not overlap
  (`~raced /\ ~hasty`, which is never regained). `CalmInv` says of each of the
  channel, the timer and the connection in which `state_` it exists; which single
  event may have been reported; that `resetChannel` waits exactly while there is
  a channel that has left the `Poller`, and runs before the next attempt; that
  `startInLoop` finds nothing under way; that after a `stop()` neither flag is set;
  and how far a destroyed client's functors are when its timer has so many polls to go.
  There is one lemma per action (`...Types` and `...Calm`). `AttemptsAreSingle`,
  `StopsAreFinal` and `DestroyedStaysUncalled` follow. `TryInv` counts what may start
  the next attempt (`SourcesAgree`, `OneSource`, `CloseLast`) and also holds when calls
  overlap; `ConnectorKeepsTrying` follows.
- `ThreadsProofs`, the components of `MCThreads`. `PoolInv` is `TypeOK` (with the
  bound of the queue), `HandsFull` (a thread inside `run()` holds a task that nobody
  has accepted) and `NobodyWaitsInVain` (a worker sleeps only beside an empty queue of
  a running pool, a caller only beside a full queue). Each `notify` is needed for the
  last one. `Typing`, `NoWakeupIsMissing` and `PoolImplementsFunctorQueue` follow.
  `NobodySleepsInVain` is inductive once `pc` is known to be a function (`SleepInv`):
  `put` finds no putter asleep because there is room, and its broadcast leaves no
  getter asleep; `NoSignalIsMissing` follows. `StampInv` says of each place in
  `formatTime` what is known there of the message's second, the thread's second, its
  text, unless its conversion was overlapped, and the zones since the text was begun
  (between the test and the conversion, the zone of the test alone);
  `StampsAreCurrent` follows. `ServerInv`: the loops up to `next_` have
  served one connection more than the others, which have served equally many;
  `ConnectionsAreSpread` follows.
  `ThreadsTogether` is the same for the composition.
- `CircularBufferProofs`. `RingInv` says that the ring's cells, from `readerIndex_`
  on and over the end at most once, hold a sequence of bytes (`Holds`); `Pieces`
  that the two pieces which the code reads make up this sequence; `RoundCells` that
  the two stores of `append` write each cell once. `PutAppends`, `ExtendKeeps`,
  `RetrieveRetrieves` and `CopyKeeps` say what each call does to the sequence.
  `RingIsAByteQueue` and `ReturnedIsWritten` follow; `SequentialProofs` takes them
  together.

Only model-checked:

- every liveness property: fairness and `ENABLED` are outside the proof system;
- `EventLoopTeardown`, whose only run shows a violation.

## What the runs found

- `loop()` clears `quit_` on entry, so the destructor of an `EventLoopThread` that
  comes before it waits forever (`eventloop.cc:86`).
- The assertion at `poller.cc:54` fails on the first update of an enabled
  channel; the default build has assertions on.
- `~EventLoop` does not remove the wakeup channel (`eventloop.cc:77`), and
  `~TimerQueue` then makes the poller write to it when it is destroyed.
- `connectDestroyed` asserts that the connection is connected or disconnecting
  (`tcpconnection.cc:69`), and `handleClose` has already set `kDisconnected`.

Besides, without a run of its own: `EPollPoller`'s `loop_` is never initialised;
`circularbuffer.h`'s `retrieveAsString` returns more than it consumes;
`parseTimeZoneFile` cannot fail; `BlockingQueue::get` copies from an element that is
destroyed; `Logger` may write a text of one zone with the mark of another, and its
conversion races with `setTimeZone`; `~EventLoopThread` reads `loop_` twice, and
dereferences a null pointer when a loop that quits itself clears it in between; a
channel disabled twice is back in `EPollPoller`'s kernel list with no events.

## What is not modelled

- `TcpServer` beyond the choice of a loop: `newConnection` dereferences
  `threadPool_`, which nothing sets, since `setThreadNum` has no definition. With a
  pool, its `connectEstablished` would run on the server's thread and fail the check
  of the connection's loop. The map of connections and `removeConnection` are behind
  both.
- The bytes of a zone file, names of zones, and text in general: levels and output
  functions of `Logger`, pointers and floating point in `LogStream` and the space of
  its buffer, `Timestamp`, `Date::toIsoString`.
- System-call wrappers other than `accept`, addresses and name resolution: their
  outcomes are inputs of the modules that call them.
- `Timerfd`, which nothing uses; `Channel::tie`, which nobody calls; `Buffer::swap`;
  thread names and cached ids; `ThreadPool::start` and its destructor; the tests,
  but for the calendar in `test/date_unittest.cc`.

## Plan

Every safety and refinement property of a passing run has its theorem. What could come
next is a change of the code before one of the model: with a definition of
`setThreadNum`, `TcpServer`'s map of connections and `removeConnection` could be
modelled between the modules of the acceptor and of the connection; with a wakeup
channel that is removed, `EventLoopTeardown` could state and prove that nothing
writes to a destroyed one.
