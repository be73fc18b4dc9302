------------------------------- MODULE Poller -------------------------------
(***************************************************************************)
(* leanet::Poller and the registration half of leanet::Channel             *)
(* (src/leanet/poller.cc, src/leanet/channel.h): the array of pollfds that *)
(* poll(2) is given, the map from descriptors to channels, and the index   *)
(* that each channel keeps of its own slot.                                *)
(*                                                                         *)
(* The callers' side is the one the repository's classes follow: the first *)
(* update of a channel enables an event; a channel is disabled before it   *)
(* is removed, removed before it is destroyed, and not used in between; a  *)
(* descriptor belongs to one channel at a time.  Everything happens on the *)
(* loop thread.                                                            *)
(*                                                                         *)
(* An assertion that does not hold is recorded by its line.  It stops a    *)
(* debug build; a build with NDEBUG goes on.                               *)
(***************************************************************************)
EXTENDS Integers, Sequences, FiniteSets

CONSTANTS Channels,    \* the channel objects
          fd,          \* Channel::fd_, fixed at construction
          NoChannel,   \* channels_ has no entry
          Debug        \* assertions are compiled in

ASSUME PollerAssumption ==
    /\ fd \in [Channels -> Nat]
    /\ NoChannel \notin Channels
    /\ Debug \in BOOLEAN

Events == {"in", "out"}
kNoneEvent == {}

Fds == {fd[ch] : ch \in Channels}

VARIABLES
    pollfds,      \* pollfds_: what poll(2) is given
    channels,     \* channels_: the channel registered for a descriptor
    interested,   \* Channel::interestedEvents_
    index,        \* Channel::index_
    alive,        \* the channels that are constructed
    removed,      \* those of them that removeChannel() has seen
    active,       \* activeChannels_ as the last poll left it
    failed        \* history: the lines of poller.cc whose assertion failed

vars == <<pollfds, channels, interested, index, alive, removed, active, failed>>

Init ==
    /\ pollfds = <<>>
    /\ channels = [f \in Fds |-> NoChannel]
    /\ interested = [ch \in Channels |-> kNoneEvent]
    /\ index = [ch \in Channels |-> -1]
    /\ alive = {}
    /\ removed = {}
    /\ active = {}
    /\ failed = {}

Running == Debug => failed = {}

(* An assertion: its line is recorded when it does not hold.               *)
FailedAt(line, holds) == IF holds THEN {} ELSE {line}

Registered == {ch \in alive : channels[fd[ch]] = ch}

isNoneEvent(ch) == interested[ch] = kNoneEvent

(* A descriptor that poll(2) must skip is stored as -fd - 1.               *)
Ignored(f) == -f - 1

(* Mutation: the slot of a disabled channel keeps its descriptor.          *)
StoredPositive(f, events) == f

StoredFd(f, events) == IF events = kNoneEvent THEN Ignored(f) ELSE f

pollfd(f, events) == [fd |-> f, events |-> events]

-----------------------------------------------------------------------------
(* Poller::updateChannel, first branch: the channel has no slot yet.       *)
addChannel(ch, events) ==
    /\ failed' = failed \union FailedAt(40, channels[fd[ch]] = NoChannel)
    /\ pollfds' = Append(pollfds, pollfd(fd[ch], events))
    /\ index' = [index EXCEPT ![ch] = Len(pollfds)]
    /\ channels' = [channels EXCEPT ![fd[ch]] = ch]

(* Second branch: the slot is rewritten in place.                          *)
changeChannel(ch, events) ==
    LET slot == index[ch] + 1 IN
    /\ failed' = failed
          \union FailedAt(51, channels[fd[ch]] # NoChannel)
          \union FailedAt(54, pollfds[slot].fd = Ignored(fd[ch]))
    /\ pollfds' = [pollfds EXCEPT ![slot] =
          pollfd(StoredFd(fd[ch], events), events)]
    /\ UNCHANGED <<index, channels>>

updateChannel(ch, events) ==
    IF index[ch] < 0 THEN addChannel(ch, events) ELSE changeChannel(ch, events)

(* Channel::enableReading, enableWriting, disableWriting and disableAll:   *)
(* interestedEvents_ is set, then update() hands it to the poller.         *)
update(ch, events) ==
    /\ Running
    /\ ch \in alive \ removed
    /\ interested' = [interested EXCEPT ![ch] = events]
    /\ updateChannel(ch, events)
    /\ UNCHANGED <<alive, removed, active>>

enableReading(ch) == update(ch, interested[ch] \union {"in"})

enableWriting(ch) == update(ch, interested[ch] \union {"out"})

disableWriting(ch) == ch \in Registered /\ update(ch, interested[ch] \ {"out"})

disableAll(ch) == ch \in Registered /\ update(ch, kNoneEvent)

(* The last slot moves into the one that is given up, and its channel is   *)
(* told; the removed channel keeps its index.                              *)
SwapOut(slot) ==
    SubSeq([pollfds EXCEPT ![slot] = pollfds[Len(pollfds)]], 1, Len(pollfds) - 1)

LastChannel ==
    LET f == pollfds[Len(pollfds)].fd
    IN  channels[IF f < 0 THEN Ignored(f) ELSE f]

IndexAfterRemove(ch) ==
    IF index[ch] + 1 = Len(pollfds) THEN index
    ELSE [index EXCEPT ![LastChannel] = index[ch]]

(* Channel::remove and Poller::removeChannel; that the channel is          *)
(* registered (lines 69 and 70) and disabled (line 72) is the caller's     *)
(* side of the contract.                                                   *)
removeChannel(ch) ==
    LET slot == index[ch] + 1 IN
    /\ Running
    /\ ch \in Registered
    /\ isNoneEvent(ch)
    /\ failed' = failed
          \union FailedAt(75, slot \in 1..Len(pollfds))
          \union FailedAt(78, pollfds[slot] = pollfd(Ignored(fd[ch]), interested[ch]))
    /\ pollfds' = SwapOut(slot)
    /\ index' = IndexAfterRemove(ch)
    /\ channels' = [channels EXCEPT ![fd[ch]] = NoChannel]
    /\ removed' = removed \union {ch}
    /\ UNCHANGED <<interested, alive, active>>

(* poll and fillActiveChannels: the kernel reports some of the descriptors *)
(* it was given (a hangup or an error needs no interest), and those found  *)
(* in channels_ become active.                                             *)
poll ==
    /\ Running
    /\ \E ready \in SUBSET {f \in Fds : \E i \in DOMAIN pollfds : pollfds[i].fd = f} :
          active' = {channels[f] : f \in ready} \ {NoChannel}
    /\ UNCHANGED <<pollfds, channels, interested, index, alive, removed, failed>>

(* Channel's constructor, once the descriptor is free, and its destructor. *)
Construct(ch) ==
    /\ Running
    /\ ch \notin alive
    /\ \A other \in alive : fd[other] # fd[ch]
    /\ alive' = alive \union {ch}
    /\ interested' = [interested EXCEPT ![ch] = kNoneEvent]
    /\ index' = [index EXCEPT ![ch] = -1]
    /\ UNCHANGED <<pollfds, channels, removed, active, failed>>

Destruct(ch) ==
    /\ Running
    /\ ch \in alive \ Registered
    /\ alive' = alive \ {ch}
    /\ removed' = removed \ {ch}
    /\ UNCHANGED <<pollfds, channels, interested, index, active, failed>>

Next ==
    \/ \E ch \in Channels :
          \/ enableReading(ch)
          \/ enableWriting(ch)
          \/ disableWriting(ch)
          \/ disableAll(ch)
          \/ removeChannel(ch)
          \/ Construct(ch)
          \/ Destruct(ch)
    \/ poll

Spec == Init /\ [][Next]_vars

-----------------------------------------------------------------------------
(* Every variable has its type, and a registered channel has an index.     *)
TypeOK ==
    /\ pollfds \in Seq([fd : Int, events : SUBSET Events])
    /\ channels \in [Fds -> Channels \union {NoChannel}]
    /\ interested \in [Channels -> SUBSET Events]
    /\ index \in [Channels -> Nat \union {-1}]
    /\ \A ch \in Registered : index[ch] # -1
    /\ removed \subseteq alive
    /\ alive \subseteq Channels
    /\ active \subseteq Channels
    /\ failed \subseteq {40, 51, 54, 75, 78}

(* The slot that a registered channel should have.                         *)
Slot(ch) ==
    pollfd(IF isNoneEvent(ch) THEN -fd[ch] - 1 ELSE fd[ch], interested[ch])

(* Each registered channel's index is that of a slot holding its own       *)
(* descriptor and interest, through every swap of removeChannel, and there *)
(* is no slot that belongs to nobody.                                      *)
IndexConsistent ==
    /\ \A ch \in Registered :
          /\ index[ch] + 1 \in 1..Len(pollfds)
          /\ pollfds[index[ch] + 1] = Slot(ch)
    /\ \A i \in 1..Len(pollfds) : \E ch \in Registered : index[ch] + 1 = i

(* What poll(2) watches is what the channels asked for: a channel that is  *)
(* disabled is skipped, one that was removed has left nothing behind.      *)
KernelWatchesInterest ==
    {pollfds[i] : i \in {j \in 1..Len(pollfds) : pollfds[j].fd >= 0}}
        = {pollfd(fd[ch], interested[ch]) :
              ch \in {c \in Registered : ~isNoneEvent(c)}}

(* Poller's poll makes active only channels registered at that moment and  *)
(* interested in something: no callback runs for a channel that is gone or *)
(* that was disabled before the poll.                                      *)
PollReportsInterested ==
    [][active' # active =>
          active' \subseteq {ch \in Registered : ~isNoneEvent(ch)}]_vars

(* The assertions of poller.cc are invariants of the calls that the        *)
(* repository makes, all but the one of line 54.                           *)
OnlyLine54Fails == failed \subseteq {54}

(* "invariant: -X - 1  == -(-X - 1)" and the assertion under it            *)
(* (poller.cc:53): a slot that is updated is one that was disabled.        *)
UpdateAssertionHolds == 54 \notin failed
=============================================================================
