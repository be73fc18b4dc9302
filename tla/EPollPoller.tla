----------------------------- MODULE EPollPoller -----------------------------
(***************************************************************************)
(* leanet::EPollPoller (src/leanet/epollpoller.cc), the poller that keeps  *)
(* the channels' interest in the kernel, driven by the same calls as       *)
(* Poller: each call of a channel is one step of both, so that they can be *)
(* compared.  A channel belongs to one poller; its index_, which this one  *)
(* uses for a tag, is the variable tag here.                               *)
(*                                                                         *)
(* The kernel's side of epoll_ctl is what its manual page says: it refuses *)
(* to add a descriptor twice and to change one that is not there.  A       *)
(* descriptor may stay open when its channel goes, as when Connector hands *)
(* a socket over, so nothing but EPOLL_CTL_DEL takes it out.               *)
(***************************************************************************)
EXTENDS Poller

CONSTANT kInitEventListSize

kNew == -1
kAdded == 1
kDeleted == 2

VARIABLES
    tag,          \* Channel::index_
    registered,   \* channels_
    watched,      \* the kernel's list: events and data.ptr of a descriptor
    events,       \* the size of events_
    refused,      \* history: failed assertions, by line, and calls of epoll_ctl
    again         \* history: channels disabled once more while disabled, or
                  \* any odd number of times

epollVars == <<tag, registered, watched, events, refused, again>>

NotWatched == [events |-> kNoneEvent, ptr |-> NoChannel]

EPollInit ==
    /\ tag = [ch \in Channels |-> kNew]
    /\ registered = [f \in Fds |-> NoChannel]
    /\ watched = [f \in Fds |-> NotWatched]
    /\ events = kInitEventListSize
    /\ refused = {}
    /\ again = {}

-----------------------------------------------------------------------------
(* EPollPoller::update, which goes on when epoll_ctl fails.                *)
Accepted(op, f) == (op = "ADD") <=> (watched[f] = NotWatched)

WatchedAfter(op, ch, interest) ==
    CASE ~Accepted(op, fd[ch]) -> watched
      [] op = "DEL" -> [watched EXCEPT ![fd[ch]] = NotWatched]
      [] OTHER -> [watched EXCEPT ![fd[ch]] = [events |-> interest, ptr |-> ch]]

Refusal(op, ch) == IF Accepted(op, fd[ch]) THEN {} ELSE {op}

Control(op, ch, interest, assertions) ==
    /\ watched' = WatchedAfter(op, ch, interest)
    /\ refused' = refused \union Refusal(op, ch) \union assertions

(* EPollPoller::updateChannel, first branch.                               *)
EPollAdd(ch, interest) ==
    /\ tag[ch] \in {kNew, kDeleted}
    /\ Control("ADD", ch, interest,
               IF tag[ch] = kNew THEN FailedAt(77, registered[fd[ch]] = NoChannel)
               ELSE FailedAt(80, registered[fd[ch]] = ch))
    /\ registered' = [registered EXCEPT ![fd[ch]] = ch]
    /\ tag' = [tag EXCEPT ![ch] = kAdded]

(* Mutation: a disabled channel is not told apart, and stays in the kernel.*)
EPollChangeOnly(ch, interest) ==
    /\ tag[ch] = kAdded
    /\ Control("MOD", ch, interest, {})
    /\ UNCHANGED <<tag, registered>>

(* Second branch.                                                          *)
EPollChange(ch, interest) ==
    /\ tag[ch] = kAdded
    /\ IF interest = kNoneEvent
       THEN /\ Control("DEL", ch, interest, {})
            /\ tag' = [tag EXCEPT ![ch] = kDeleted]
       ELSE /\ Control("MOD", ch, interest, {})
            /\ UNCHANGED tag
    /\ UNCHANGED registered

(* A channel that is disabled once more goes through the first branch, and *)
(* is added for no event; the next time it is deleted again.               *)
AgainAfter(ch) ==
    IF ch \notin again /\ isNoneEvent(ch) /\ isNoneEvent(ch)'
    THEN again \union {ch} ELSE again \ {ch}

EPollUpdate(ch) ==
    /\ EPollAdd(ch, interested'[ch]) \/ EPollChange(ch, interested'[ch])
    /\ again' = AgainAfter(ch)
    /\ UNCHANGED events

(* Mutation: the kernel is told, whether it watches the channel or not.    *)
AlwaysInKernel(ch) == TRUE

InKernel(ch) == tag[ch] = kAdded

EPollRemove(ch) ==
    LET found == FailedAt(102, registered[fd[ch]] # NoChannel) IN
    /\ IF InKernel(ch) THEN Control("DEL", ch, interested[ch], found)
       ELSE refused' = refused \union found /\ UNCHANGED watched
    /\ registered' = [registered EXCEPT ![fd[ch]] = NoChannel]
    /\ tag' = [tag EXCEPT ![ch] = kNew]
    /\ again' = again \ {ch}
    /\ UNCHANGED events

(* fillActiveChannels: the channels that the kernel's list points to.      *)
EPollActive(ready) == {watched[f].ptr : f \in ready}

(* epoll_wait reports as many of the ready descriptors as events_ can      *)
(* take; when all of it was used it is made twice as large.  What it       *)
(* reports is EPollActive(ready).                                          *)
EPollPoll ==
    /\ Running
    /\ \E ready \in SUBSET {f \in Fds : watched[f] # NotWatched} :
          /\ ready # {} /\ Cardinality(ready) = events
          /\ events' = 2 * events
    /\ UNCHANGED <<vars, tag, registered, watched, refused, again>>

(* Channel's constructor sets index_ to -1.                                *)
EPollConstruct(ch) ==
    /\ Construct(ch)
    /\ tag' = [tag EXCEPT ![ch] = kNew]
    /\ UNCHANGED <<registered, watched, events, refused, again>>

BothNext ==
    \/ \E ch \in Channels :
          \/ enableReading(ch) /\ EPollUpdate(ch)
          \/ enableWriting(ch) /\ EPollUpdate(ch)
          \/ disableWriting(ch) /\ EPollUpdate(ch)
          \/ disableAll(ch) /\ EPollUpdate(ch)
          \/ removeChannel(ch) /\ EPollRemove(ch)
          \/ EPollConstruct(ch)
          \/ Destruct(ch) /\ UNCHANGED epollVars
    \/ poll /\ UNCHANGED epollVars
    \/ EPollPoll

BothInit == Init /\ EPollInit

BothSpec == BothInit /\ [][BothNext]_<<vars, epollVars>>

-----------------------------------------------------------------------------
(* The kernel never refuses a call of epoll_ctl, whose failures the code   *)
(* ignores, and every assertion of epollpoller.cc holds: the tag of a      *)
(* channel follows what the kernel and channels_ know of its descriptor.   *)
EPollNeverRefused == refused = {}

(* Poller gives poll(2) exactly what EPollPoller has put in the kernel,    *)
(* for the same events, with one exception: a channel that is disabled     *)
(* while it is disabled already, as connectDestroyed does after handleClose*)
(* in a build with NDEBUG, is back in the kernel for no event, where its   *)
(* errors and hangups are reported and Poller's are not.  And the raw      *)
(* pointers that the kernel gives back are those of channels that are      *)
(* registered, whatever a poll finds ready.                                *)
PollersDifferOnlyIfDisabledAgain ==
    /\ {pollfd(f, watched[f].events) : f \in {g \in Fds : watched[g] # NotWatched}}
         = {pollfds[i] : i \in {j \in 1..Len(pollfds) : pollfds[j].fd >= 0}}
              \union {pollfd(fd[ch], kNoneEvent) : ch \in again}
    /\ EPollActive({f \in Fds : watched[f] # NotWatched}) \subseteq Registered
=============================================================================
