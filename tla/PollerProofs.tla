---------------------------- MODULE PollerProofs ----------------------------
(***************************************************************************)
(* Proofs about Poller and EPollPoller, for any set of channels, any       *)
(* assignment of descriptors to them, and both kinds of build: what one    *)
(* poller keeps true of itself, and that the two agree.                    *)
(***************************************************************************)
EXTENDS EPollPoller, SequenceTheorems, TLAPS

(* What channels_ holds for a descriptor is a live channel with that       *)
(* descriptor, and not one that was removed.                               *)
MapConsistent ==
    \A f \in Fds : channels[f] # NoChannel =>
        channels[f] \in alive \ removed /\ fd[channels[f]] = f

(* A channel that may be used and has no slot has the constructor's index. *)
FreshIndex == \A ch \in alive \ (removed \union Registered) : index[ch] = -1

(* A descriptor belongs to one live channel.                               *)
DistinctFds == \A c, d \in alive : fd[c] = fd[d] => c = d

(* The inductive invariant: IndexConsistent alone says nothing of the map  *)
(* through which removeChannel finds the channel that moves.               *)
PollerInv ==
    /\ TypeOK
    /\ IndexConsistent
    /\ MapConsistent
    /\ FreshIndex
    /\ DistinctFds
    /\ OnlyLine54Fails

(* The descriptor of a channel is in the map's domain.                     *)
LEMMA FdInFds == \A ch \in Channels : fd[ch] \in Fds /\ fd[ch] \in Nat
BY PollerAssumption DEF Fds

(* Two registered channels never have the same slot.                       *)
LEMMA SlotsDisjoint ==
    ASSUME PollerInv, NEW c \in Registered, NEW d \in Registered,
           index[c] = index[d]
    PROVE  c = d
<1>1. c \in Channels /\ d \in Channels /\ c \in alive /\ d \in alive
  BY DEF PollerInv, TypeOK, Registered
<1>2. Slot(c) = Slot(d)
  BY DEF PollerInv, IndexConsistent
<1>3. Slot(c).fd = Slot(d).fd
  BY <1>2
<1>4. fd[c] = fd[d]
  BY <1>1, <1>3, FdInFds DEF Slot, pollfd
<1> QED
  BY <1>1, <1>4 DEF PollerInv, DistinctFds

(* The empty poller satisfies the invariant.                               *)
LEMMA InitInv == Init => PollerInv
<1> SUFFICES ASSUME Init PROVE PollerInv
  OBVIOUS
<1> USE DEF Init
<1>1. TypeOK
  <2>1. pollfds \in Seq([fd : Int, events : SUBSET Events])
    OBVIOUS
  <2>2. channels \in [Fds -> Channels \union {NoChannel}]
    OBVIOUS
  <2>3. /\ interested \in [Channels -> SUBSET Events]
        /\ index \in [Channels -> Nat \union {-1}]
    BY DEF kNoneEvent
  <2>4. Registered = {}
    BY DEF Registered
  <2> QED
    BY <2>1, <2>2, <2>3, <2>4 DEF TypeOK
<1>2. Len(pollfds) = 0 /\ Registered = {}
  BY DEF Registered
<1>3. IndexConsistent
  BY <1>2 DEF IndexConsistent
<1>4. MapConsistent /\ FreshIndex /\ DistinctFds /\ OnlyLine54Fails
  BY DEF MapConsistent, FreshIndex, DistinctFds, OnlyLine54Fails
<1> QED
  BY <1>1, <1>3, <1>4 DEF PollerInv

(* The first update of a channel gives it a slot at the end of the array.  *)
LEMMA AddKeepsInv ==
    ASSUME PollerInv, NEW ch \in Channels, NEW wanted \in SUBSET Events,
           wanted # kNoneEvent, update(ch, wanted), index[ch] < 0
    PROVE  PollerInv'
<1> USE DEF PollerInv
<1>1. /\ ch \in alive \ removed
      /\ interested' = [interested EXCEPT ![ch] = wanted]
      /\ UNCHANGED <<alive, removed, active>>
      /\ addChannel(ch, wanted)
  BY DEF update, updateChannel
<1>2. ch \notin Registered
  BY <1>1 DEF TypeOK
<1>3. channels[fd[ch]] = NoChannel
  <2> SUFFICES ASSUME channels[fd[ch]] # NoChannel PROVE FALSE
    OBVIOUS
  <2>1. channels[fd[ch]] \in alive /\ fd[channels[fd[ch]]] = fd[ch]
    BY FdInFds DEF MapConsistent
  <2>2. channels[fd[ch]] = ch
    BY <1>1, <2>1 DEF DistinctFds
  <2> QED
    BY <1>1, <1>2, <2>2 DEF Registered
<1> DEFINE n == Len(pollfds)
<1>4. /\ pollfds' = Append(pollfds, pollfd(fd[ch], wanted))
      /\ index' = [index EXCEPT ![ch] = n]
      /\ channels' = [channels EXCEPT ![fd[ch]] = ch]
      /\ failed' = failed
  BY <1>1, <1>3 DEF addChannel, FailedAt
<1>5. pollfd(fd[ch], wanted) \in [fd : Int, events : SUBSET Events]
  BY FdInFds DEF pollfd
<1>6. /\ pollfds' \in Seq([fd : Int, events : SUBSET Events])
      /\ Len(pollfds') = n + 1
      /\ \A i \in 1..n : pollfds'[i] = pollfds[i]
      /\ pollfds'[n + 1] = pollfd(fd[ch], wanted)
  BY <1>4, <1>5, AppendProperties DEF TypeOK
<1>7. n \in Nat
  BY LenProperties DEF TypeOK
<1>8. Registered' = Registered \union {ch}
  <2>1. ASSUME NEW c \in alive, c # ch PROVE fd[c] # fd[ch]
    BY <1>1, <2>1 DEF DistinctFds
  <2>2. \A c \in alive : c \in Channels
    BY DEF TypeOK
  <2> QED
    BY <1>1, <1>3, <1>4, <2>1, <2>2, FdInFds DEF Registered, TypeOK
<1>9. \A c \in Registered : c # ch /\ index'[c] = index[c] /\ Slot(c)' = Slot(c)
  BY <1>1, <1>2, <1>4 DEF Slot, isNoneEvent, TypeOK, Registered
<1>10. index'[ch] = n /\ Slot(ch)' = pollfd(fd[ch], wanted)
  BY <1>1, <1>4 DEF Slot, isNoneEvent, TypeOK
<1>11. TypeOK'
  BY <1>1, <1>4, <1>6, <1>7, <1>8, <1>9, <1>10, FdInFds DEF TypeOK
<1>12. IndexConsistent'
  <2>1. ASSUME NEW c \in Registered'
        PROVE  /\ index'[c] + 1 \in 1..Len(pollfds')
               /\ pollfds'[index'[c] + 1] = Slot(c)'
    <3>1. CASE c = ch
      BY <1>6, <1>7, <1>10, <3>1
    <3>2. CASE c # ch
      BY <1>6, <1>7, <1>8, <1>9, <3>2 DEF IndexConsistent
    <3> QED
      BY <3>1, <3>2
  <2>2. ASSUME NEW i \in 1..Len(pollfds')
        PROVE  \E c \in Registered' : index'[c] + 1 = i
    <3>1. CASE i = n + 1
      BY <1>7, <1>8, <1>10, <3>1
    <3>2. CASE i # n + 1
      <4>1. i \in 1..n
        BY <1>6, <1>7, <3>2
      <4> QED
        BY <1>8, <1>9, <4>1 DEF IndexConsistent
    <3> QED
      BY <3>1, <3>2
  <2> QED
    BY <2>1, <2>2 DEF IndexConsistent
<1>13. MapConsistent'
  BY <1>1, <1>4, FdInFds DEF MapConsistent, TypeOK
<1>14. FreshIndex'
  BY <1>1, <1>4, <1>8 DEF FreshIndex, TypeOK
<1>15. DistinctFds' /\ OnlyLine54Fails'
  BY <1>1, <1>4 DEF DistinctFds, OnlyLine54Fails
<1> QED
  BY <1>11, <1>12, <1>13, <1>14, <1>15

(* A later update rewrites the channel's own slot and no other.            *)
LEMMA ChangeKeepsInv ==
    ASSUME PollerInv, NEW ch \in Channels, NEW wanted \in SUBSET Events,
           update(ch, wanted), ~(index[ch] < 0)
    PROVE  PollerInv'
<1> USE DEF PollerInv
<1>1. /\ ch \in alive \ removed
      /\ interested' = [interested EXCEPT ![ch] = wanted]
      /\ UNCHANGED <<alive, removed, active>>
      /\ changeChannel(ch, wanted)
  BY DEF update, updateChannel
<1>2. ch \in Registered
  BY <1>1 DEF FreshIndex
<1> DEFINE n == Len(pollfds)
           slot == index[ch] + 1
           entry == pollfd(StoredFd(fd[ch], wanted), wanted)
<1>3. slot \in 1..n /\ channels[fd[ch]] # NoChannel
  BY <1>2, PollerAssumption DEF IndexConsistent, Registered, TypeOK
<1>4. /\ pollfds' = [pollfds EXCEPT ![slot] = entry]
      /\ UNCHANGED <<index, channels>>
      /\ failed' \subseteq failed \union {54}
  BY <1>1, <1>3 DEF changeChannel, FailedAt
<1>5. entry \in [fd : Int, events : SUBSET Events]
  BY FdInFds DEF pollfd, StoredFd, Ignored
<1>6. /\ pollfds' \in Seq([fd : Int, events : SUBSET Events])
      /\ Len(pollfds') = n
      /\ \A i \in 1..n : pollfds'[i] = IF i = slot THEN entry ELSE pollfds[i]
  BY <1>3, <1>4, <1>5, ExceptSeq DEF TypeOK
<1>7. Registered' = Registered
  BY <1>1, <1>4 DEF Registered
<1>8. \A c \in Registered : c # ch => Slot(c)' = Slot(c) /\ index[c] + 1 # slot
  <2>1. \A c \in Registered : c # ch => Slot(c)' = Slot(c)
    BY <1>1 DEF Slot, isNoneEvent, TypeOK, Registered
  <2>2. ASSUME NEW c \in Registered, c # ch PROVE index[c] + 1 # slot
    <3>1. index[c] \in Int /\ index[ch] \in Int
      BY <1>2 DEF TypeOK, Registered
    <3> QED
      BY <1>2, <2>2, <3>1, SlotsDisjoint
  <2> QED
    BY <2>1, <2>2
<1>9. Slot(ch)' = entry
  BY <1>1 DEF Slot, isNoneEvent, StoredFd, Ignored, TypeOK
<1>10. TypeOK'
  BY <1>1, <1>4, <1>6, <1>7 DEF TypeOK
<1>11. IndexConsistent'
  <2>1. ASSUME NEW c \in Registered'
        PROVE  /\ index'[c] + 1 \in 1..Len(pollfds')
               /\ pollfds'[index'[c] + 1] = Slot(c)'
    <3>1. CASE c = ch
      BY <1>3, <1>4, <1>6, <1>9, <3>1
    <3>2. CASE c # ch
      BY <1>4, <1>6, <1>7, <1>8, <3>2 DEF IndexConsistent
    <3> QED
      BY <3>1, <3>2
  <2>2. \A i \in 1..Len(pollfds') : \E c \in Registered' : index'[c] + 1 = i
    BY <1>4, <1>6, <1>7 DEF IndexConsistent
  <2> QED
    BY <2>1, <2>2 DEF IndexConsistent
<1>12. MapConsistent' /\ FreshIndex' /\ DistinctFds' /\ OnlyLine54Fails'
  BY <1>1, <1>4, <1>7
  DEF MapConsistent, FreshIndex, DistinctFds, OnlyLine54Fails
<1> QED
  BY <1>10, <1>11, <1>12

(* removeChannel: the slots keep their owners when the last one moves into *)
(* the one that is given up.                                               *)
LEMMA RemoveKeepsInv ==
    ASSUME PollerInv, NEW ch \in Channels, removeChannel(ch)
    PROVE  PollerInv'
<1> USE DEF PollerInv
<1> DEFINE n == Len(pollfds)
           slot == index[ch] + 1
           P == [fd : Int, events : SUBSET Events]
<1>1. /\ ch \in Registered /\ isNoneEvent(ch)
      /\ pollfds' = SwapOut(slot)
      /\ index' = IndexAfterRemove(ch)
      /\ channels' = [channels EXCEPT ![fd[ch]] = NoChannel]
      /\ removed' = removed \union {ch}
      /\ UNCHANGED <<interested, alive, active>>
  BY DEF removeChannel
<1>2. /\ slot \in 1..n /\ pollfds[slot] = Slot(ch) /\ n \in Nat
      /\ pollfds \in Seq(P)
  BY <1>1, LenProperties DEF IndexConsistent, TypeOK
<1>3. failed' = failed
  <2>1. pollfds[slot] = pollfd(Ignored(fd[ch]), interested[ch])
    BY <1>1, <1>2 DEF Slot, Ignored
  <2> QED
    BY <1>2, <2>1 DEF removeChannel, FailedAt
<1> DEFINE swapped == [pollfds EXCEPT ![slot] = pollfds[n]]
<1>4. /\ swapped \in Seq(P) /\ Len(swapped) = n
      /\ \A i \in 1..n : swapped[i] = IF i = slot THEN pollfds[n] ELSE pollfds[i]
  <2>1. n \in 1..n
    BY <1>2
  <2> HIDE DEF P
  <2>2. pollfds[n] \in P
    BY <1>2, <2>1, ElementOfSeq
  <2> QED
    BY <1>2, <2>2, ExceptSeq
<1>5. /\ pollfds' \in Seq(P) /\ Len(pollfds') = n - 1
      /\ \A i \in 1..(n - 1) :
            pollfds'[i] = IF i = slot THEN pollfds[n] ELSE pollfds[i]
  <2>1. pollfds' = SubSeq(swapped, 1, n - 1)
    BY <1>1 DEF SwapOut
  <2> HIDE DEF swapped, P
  <2>2. \A i \in 1..(n - 1) : swapped[i] \in P
    <3> SUFFICES ASSUME NEW i \in 1..(n - 1) PROVE swapped[i] \in P
      OBVIOUS
    <3>1. i \in 1..Len(swapped)
      BY <1>2, <1>4
    <3> QED
      BY <1>4, <3>1, ElementOfSeq
  <2> QED
    BY <1>2, <1>4, <2>1, <2>2, SubSeqProperties
<1>6. Registered' = Registered \ {ch}
  <2>1. \A c \in Registered : c # ch => fd[c] # fd[ch]
    BY <1>1 DEF DistinctFds, Registered
  <2>2. \A c \in alive : c \in Channels
    BY DEF TypeOK
  <2> QED
    BY <1>1, <2>1, <2>2, FdInFds, PollerAssumption DEF Registered, TypeOK
<1>7. \A c \in Registered : Slot(c)' = Slot(c) /\ index[c] \in Int
  BY <1>1 DEF Slot, isNoneEvent, TypeOK, Registered
<1>8. \A c \in Registered : c # ch => index[c] + 1 # slot
  <2>1. index[ch] \in Int
    BY <1>1, <1>7
  <2> QED
    BY <1>1, <1>7, <2>1, SlotsDisjoint
<1>9. PICK last \in Registered : index[last] + 1 = n
  BY <1>2 DEF IndexConsistent
<1>10. LastChannel = last
  <2>1. last \in Channels /\ channels[fd[last]] = last
    BY DEF Registered, TypeOK
  <2>2. pollfds[n] = Slot(last)
    BY <1>9 DEF IndexConsistent
  <2>3. pollfds[n].fd = IF isNoneEvent(last) THEN -fd[last] - 1 ELSE fd[last]
    BY <2>2 DEF Slot, pollfd
  <2>4. fd[last] \in Nat
    BY <2>1, FdInFds
  <2>5. (IF pollfds[n].fd < 0 THEN Ignored(pollfds[n].fd) ELSE pollfds[n].fd)
           = fd[last]
    BY <2>3, <2>4 DEF Ignored
  <2> QED
    BY <2>1, <2>5 DEF LastChannel
<1>11. index' = IF slot = n THEN index ELSE [index EXCEPT ![last] = index[ch]]
  BY <1>1, <1>10 DEF IndexAfterRemove
<1>12. \A c \in Registered : c # last => index[c] + 1 # n
  <2>1. index[last] \in Int
    BY <1>7
  <2> QED
    BY <1>7, <1>9, <2>1, SlotsDisjoint
<1>13. TypeOK'
  <2>1. index' \in [Channels -> Nat \union {-1}]
    BY <1>11 DEF TypeOK
  <2>2. \A c \in Registered' : index'[c] # -1
    BY <1>1, <1>6, <1>11 DEF TypeOK, Registered
  <2>3. channels' \in [Fds -> Channels \union {NoChannel}]
    BY <1>1 DEF TypeOK
  <2>4. removed' \subseteq alive'
    BY <1>1 DEF TypeOK, Registered
  <2> QED
    BY <1>1, <1>3, <1>5, <2>1, <2>2, <2>3, <2>4 DEF TypeOK
<1>14. IndexConsistent'
  <2>1. ASSUME NEW c \in Registered'
        PROVE  /\ index'[c] + 1 \in 1..Len(pollfds')
               /\ pollfds'[index'[c] + 1] = Slot(c)'
    <3>1. /\ c \in Registered /\ c # ch /\ c \in Channels
          /\ index[c] + 1 \in 1..n /\ pollfds[index[c] + 1] = Slot(c)
      BY <1>6, <2>1 DEF IndexConsistent, Registered, TypeOK
    <3>2. CASE slot = n
      BY <1>2, <1>5, <1>7, <1>8, <1>11, <3>1, <3>2
    <3>3. CASE slot # n /\ c = last
      <4>1. index'[c] = index[ch]
        BY <1>11, <3>1, <3>3 DEF TypeOK
      <4>2. slot \in 1..(n - 1) /\ pollfds[n] = Slot(c)
        BY <1>2, <1>9, <3>1, <3>3
      <4>3. pollfds'[slot] = Slot(c)'
        BY <1>5, <1>7, <3>1, <4>2
      <4> QED
        BY <1>5, <4>1, <4>2, <4>3
    <3>4. CASE slot # n /\ c # last
      <4>1. index'[c] = index[c]
        BY <1>11, <3>1, <3>4 DEF TypeOK
      <4>2. index[c] + 1 # n /\ index[c] + 1 # slot
        BY <1>8, <1>12, <3>1, <3>4
      <4>3. index[c] \in Int
        BY <1>7, <3>1
      <4>4. index[c] + 1 \in 1..(n - 1)
        BY <1>2, <3>1, <4>2, <4>3
      <4> HIDE DEF P, slot, n
      <4>5. pollfds'[index[c] + 1] = pollfds[index[c] + 1]
        BY <1>5, <4>2, <4>4
      <4>6. index'[c] + 1 \in 1..Len(pollfds')
        BY <1>5, <4>1, <4>4
      <4>7. pollfds'[index'[c] + 1] = pollfds[index[c] + 1]
        BY <4>1, <4>5
      <4>8. pollfds'[index'[c] + 1] = Slot(c)'
        BY <1>7, <3>1, <4>7
      <4> QED
        BY <4>6, <4>8
    <3> QED
      BY <3>2, <3>3, <3>4
  <2>2. ASSUME NEW i \in 1..Len(pollfds')
        PROVE  \E c \in Registered' : index'[c] + 1 = i
    <3>1. i \in 1..n /\ i # n
      BY <1>2, <1>5
    <3>2. CASE i = slot
      <4>1. slot # n /\ last # ch
        BY <1>9, <3>1, <3>2
      <4>2. last \in Registered' /\ index'[last] = index[ch]
        BY <1>6, <1>11, <4>1 DEF TypeOK, Registered
      <4> QED
        BY <3>2, <4>2
    <3>3. CASE i # slot
      <4>1. PICK c \in Registered : index[c] + 1 = i
        BY <3>1 DEF IndexConsistent
      <4>2. c # ch /\ c # last
        BY <1>9, <3>1, <3>3, <4>1
      <4>3. c \in Registered' /\ index'[c] = index[c]
        BY <1>6, <1>11, <4>2 DEF TypeOK, Registered
      <4> QED
        BY <4>1, <4>3
    <3> QED
      BY <3>2, <3>3
  <2> QED
    BY <2>1, <2>2 DEF IndexConsistent
<1>15. MapConsistent'
  <2> SUFFICES ASSUME NEW f \in Fds, channels'[f] # NoChannel
               PROVE  /\ channels'[f] \in alive' \ removed'
                      /\ fd[channels'[f]] = f
    BY DEF MapConsistent
  <2>1. f # fd[ch] /\ channels'[f] = channels[f]
    BY <1>1 DEF TypeOK
  <2>2. channels[f] # ch
    BY <2>1 DEF MapConsistent
  <2> QED
    BY <1>1, <2>1, <2>2 DEF MapConsistent
<1>16. FreshIndex'
  <2> SUFFICES ASSUME NEW c \in alive' \ (removed' \union Registered')
               PROVE  index'[c] = -1
    BY DEF FreshIndex
  <2>1. c # ch /\ c \in alive \ (removed \union Registered)
    BY <1>1, <1>6
  <2>2. index'[c] = index[c]
    BY <1>11, <2>1 DEF TypeOK
  <2> QED
    BY <2>1, <2>2 DEF FreshIndex
<1>17. DistinctFds' /\ OnlyLine54Fails'
  BY <1>1, <1>3 DEF DistinctFds, OnlyLine54Fails
<1> QED
  BY <1>13, <1>14, <1>15, <1>16, <1>17

(* The constructor and the destructor of a channel.                        *)
LEMMA LifetimeKeepsInv ==
    ASSUME PollerInv, NEW ch \in Channels, Construct(ch) \/ Destruct(ch)
    PROVE  PollerInv'
<1> USE DEF PollerInv
<1>1. ch \notin Registered
  BY DEF Construct, Destruct, Registered
<1>2. CASE Construct(ch)
  <2>1. /\ ch \notin alive /\ alive' = alive \union {ch}
        /\ \A other \in alive : fd[other] # fd[ch]
        /\ interested' = [interested EXCEPT ![ch] = kNoneEvent]
        /\ index' = [index EXCEPT ![ch] = -1]
        /\ UNCHANGED <<pollfds, channels, removed, active, failed>>
    BY <1>2 DEF Construct
  <2>2. channels[fd[ch]] # ch
    BY <2>1, FdInFds, PollerAssumption DEF MapConsistent
  <2>3. Registered' = Registered
    BY <2>1, <2>2 DEF Registered
  <2>4. \A c \in Registered :
           c # ch /\ c \in Channels /\ index'[c] = index[c] /\ Slot(c)' = Slot(c)
    BY <2>1 DEF Registered, Slot, isNoneEvent, TypeOK
  <2>5. TypeOK'
    BY <2>1, <2>3, <2>4 DEF TypeOK, kNoneEvent
  <2>6. IndexConsistent'
    BY <2>1, <2>3, <2>4 DEF IndexConsistent
  <2>7. FreshIndex'
    BY <2>1, <2>3 DEF FreshIndex, TypeOK
  <2>8. MapConsistent' /\ DistinctFds' /\ OnlyLine54Fails'
    BY <2>1 DEF MapConsistent, DistinctFds, OnlyLine54Fails, TypeOK
  <2> QED
    BY <2>5, <2>6, <2>7, <2>8
<1>3. CASE Destruct(ch)
  <2>1. /\ alive' = alive \ {ch} /\ removed' = removed \ {ch}
        /\ UNCHANGED <<pollfds, channels, interested, index, active, failed>>
    BY <1>3 DEF Destruct
  <2>2. Registered' = Registered
    BY <1>1, <2>1 DEF Registered
  <2>3. \A c \in Registered : Slot(c)' = Slot(c)
    BY <2>1 DEF Slot, isNoneEvent
  <2>4. TypeOK'
    <3>1. alive' \subseteq Channels /\ removed' \subseteq alive'
      BY <2>1 DEF TypeOK
    <3>2. \A c \in Registered' : index'[c] # -1
      BY <2>1, <2>2 DEF TypeOK
    <3> QED
      BY <2>1, <3>1, <3>2, Zenon DEF TypeOK
  <2>5. IndexConsistent'
    BY <2>1, <2>2, <2>3 DEF IndexConsistent
  <2>6. FreshIndex'
    BY <2>1, <2>2 DEF FreshIndex
  <2>7. MapConsistent'
    BY <1>1, <2>1 DEF MapConsistent, Registered
  <2>8. DistinctFds' /\ OnlyLine54Fails'
    BY <2>1 DEF DistinctFds, OnlyLine54Fails, TypeOK
  <2> QED
    BY <2>4, <2>5, <2>6, <2>7, <2>8
<1> QED
  BY <1>2, <1>3

(* A poll, or nothing, changes no registration.                            *)
LEMMA PollKeepsInv ==
    ASSUME PollerInv, poll \/ UNCHANGED vars
    PROVE  PollerInv'
<1> USE DEF PollerInv
<1>1. UNCHANGED <<pollfds, channels, interested, index, alive, removed, failed>>
  BY DEF poll, vars
<1>2. Registered' = Registered /\ \A c \in Registered : Slot(c)' = Slot(c)
  BY <1>1 DEF Registered, Slot, isNoneEvent
<1>3. active' \subseteq Channels
  BY DEF poll, vars, TypeOK
<1>4. TypeOK' /\ IndexConsistent'
  BY <1>1, <1>2, <1>3 DEF TypeOK, IndexConsistent
<1>5. MapConsistent' /\ FreshIndex' /\ DistinctFds' /\ OnlyLine54Fails'
  BY <1>1, <1>2 DEF MapConsistent, FreshIndex, DistinctFds, OnlyLine54Fails
<1> QED
  BY <1>4, <1>5

(* Every call preserves the invariant.                                     *)
LEMMA NextKeepsInv == PollerInv /\ [Next]_vars => PollerInv'
<1> SUFFICES ASSUME PollerInv, [Next]_vars PROVE PollerInv'
  OBVIOUS
<1>1. ASSUME NEW ch \in Channels, NEW wanted \in SUBSET Events,
             update(ch, wanted), wanted # kNoneEvent \/ ch \in Registered
      PROVE  PollerInv'
  <2>1. CASE index[ch] < 0
    <3>1. ch \notin Registered
      BY <2>1 DEF PollerInv, TypeOK
    <3> QED
      BY <1>1, <2>1, <3>1, AddKeepsInv
  <2>2. CASE ~(index[ch] < 0)
    BY <1>1, <2>2, ChangeKeepsInv
  <2> QED
    BY <2>1, <2>2
<1>2. \A ch \in Channels : interested[ch] \in SUBSET Events
  BY DEF PollerInv, TypeOK
<1>3. ASSUME NEW ch \in Channels, enableReading(ch) \/ enableWriting(ch)
      PROVE  PollerInv'
  BY <1>1, <1>2, <1>3 DEF enableReading, enableWriting, Events, kNoneEvent
<1>4. ASSUME NEW ch \in Channels, disableWriting(ch) \/ disableAll(ch)
      PROVE  PollerInv'
  <2>1. interested[ch] \ {"out"} \in SUBSET Events /\ kNoneEvent \in SUBSET Events
    BY <1>2 DEF kNoneEvent
  <2> QED
    BY <1>1, <1>4, <2>1 DEF disableWriting, disableAll
<1>5. ASSUME NEW ch \in Channels,
             removeChannel(ch) \/ Construct(ch) \/ Destruct(ch)
      PROVE  PollerInv'
  BY <1>5, RemoveKeepsInv, LifetimeKeepsInv
<1>6. CASE poll \/ UNCHANGED vars
  BY <1>6, PollKeepsInv
<1> QED
  BY <1>3, <1>4, <1>5, <1>6 DEF Next

(* What poll(2) is given follows from the slots and their owners.          *)
LEMMA InvGivesKernelView == PollerInv => KernelWatchesInterest
<1> SUFFICES ASSUME PollerInv PROVE KernelWatchesInterest
  OBVIOUS
<1> DEFINE Watching == {i \in 1..Len(pollfds) : pollfds[i].fd >= 0}
           Asking == {c \in Registered : ~isNoneEvent(c)}
<1>1. \A c \in Registered : fd[c] \in Nat /\ index[c] + 1 \in 1..Len(pollfds)
                            /\ pollfds[index[c] + 1] = Slot(c)
  BY FdInFds DEF PollerInv, TypeOK, IndexConsistent, Registered
<1>2. \A c \in Registered : (Slot(c).fd >= 0) <=> ~isNoneEvent(c)
  <2> SUFFICES ASSUME NEW c \in Registered
               PROVE  (Slot(c).fd >= 0) <=> ~isNoneEvent(c)
    OBVIOUS
  <2>1. Slot(c).fd = IF isNoneEvent(c) THEN -fd[c] - 1 ELSE fd[c]
    BY DEF Slot, pollfd
  <2>2. fd[c] \in Nat
    BY <1>1
  <2> QED
    BY <2>1, <2>2
<1>3. \A c \in Asking : Slot(c) = pollfd(fd[c], interested[c])
  BY DEF Slot
<1>4. ASSUME NEW i \in Watching
      PROVE  \E c \in Asking : pollfds[i] = pollfd(fd[c], interested[c])
  <2>1. PICK c \in Registered : index[c] + 1 = i
    BY DEF PollerInv, IndexConsistent
  <2>2. pollfds[i] = Slot(c) /\ c \in Asking
    BY <1>1, <1>2, <2>1
  <2> QED
    BY <1>3, <2>2
<1>5. ASSUME NEW c \in Asking
      PROVE  \E i \in Watching : pollfds[i] = pollfd(fd[c], interested[c])
  <2>1. index[c] + 1 \in Watching
    BY <1>1, <1>2
  <2> QED
    BY <1>1, <1>3, <2>1
<1> QED
  BY <1>4, <1>5 DEF KernelWatchesInterest

-----------------------------------------------------------------------------
(* The poller keeps its inductive invariant.                               *)
THEOREM PollerInvariance == Spec => []PollerInv
BY InitInv, NextKeepsInv, PTL DEF Spec

(* Typing: the array, the map and the channels' fields keep their types.   *)
THEOREM Typing == Spec => []TypeOK
<1>1. PollerInv => TypeOK
  BY DEF PollerInv
<1> QED
  BY PollerInvariance, <1>1, PTL

(* Each registered channel's index is its slot's, each slot is a           *)
(* registered channel's.                                                   *)
THEOREM IndexesAreConsistent == Spec => []IndexConsistent
<1>1. PollerInv => IndexConsistent
  BY DEF PollerInv
<1> QED
  BY PollerInvariance, <1>1, PTL

(* poll(2) watches what the channels asked for, and nothing else.          *)
THEOREM PollWatchesInterest == Spec => []KernelWatchesInterest
BY PollerInvariance, InvGivesKernelView, PTL

(* The callers of the repository never violate an assertion of poller.cc   *)
(* other than the one of line 54.                                          *)
THEOREM OtherAssertionsHold == Spec => []OnlyLine54Fails
<1>1. PollerInv => OnlyLine54Fails
  BY DEF PollerInv
<1> QED
  BY PollerInvariance, <1>1, PTL

-----------------------------------------------------------------------------
(* The second poller, beside the first.                                    *)

(* Both maps are the same; the tag of a channel says what the kernel has   *)
(* of it.  A channel that was disabled and is updated again without an     *)
(* interest is with the kernel all the same, asked for nothing.            *)
EPollInv ==
    /\ registered = channels
    /\ tag \in [Channels -> {kNew, kAdded, kDeleted}]
    /\ watched \in [Fds -> [events : SUBSET Events, ptr : Channels \union {NoChannel}]]
    /\ \A ch \in alive \ Registered : tag[ch] = kNew
    /\ \A ch \in Registered :
          \/ /\ tag[ch] = kAdded
             /\ watched[fd[ch]] = [events |-> interested[ch], ptr |-> ch]
          \/ /\ tag[ch] = kDeleted
             /\ interested[ch] = kNoneEvent
             /\ watched[fd[ch]] = NotWatched
    /\ \A f \in Fds : channels[f] = NoChannel => watched[f] = NotWatched
    /\ refused = {}

(* Each step of the two is a step of the first, or leaves it alone.        *)
LEMMA BothSteps == [BothNext]_<<vars, epollVars>> => [Next]_vars
BY DEF BothNext, Next, EPollConstruct, EPollPoll

(* What an update does to the map: the channel is registered, if it was    *)
(* not before.                                                             *)
LEMMA UpdateRegisters ==
    ASSUME PollerInv, NEW ch \in Channels, NEW wanted \in SUBSET Events,
           update(ch, wanted)
    PROVE  /\ ch \in alive
           /\ interested' = [interested EXCEPT ![ch] = wanted]
           /\ alive' = alive
           /\ channels' = [channels EXCEPT ![fd[ch]] = ch]
           /\ Registered' = Registered \union {ch}
           /\ ch \notin Registered => channels[fd[ch]] = NoChannel
<1> USE DEF PollerInv
<1>1. /\ ch \in alive \ removed
      /\ interested' = [interested EXCEPT ![ch] = wanted]
      /\ UNCHANGED <<alive, removed, active>>
      /\ updateChannel(ch, wanted)
  BY DEF update
<1>2. ch \notin Registered => channels[fd[ch]] = NoChannel
  <2> SUFFICES ASSUME ch \notin Registered, channels[fd[ch]] # NoChannel PROVE FALSE
    OBVIOUS
  <2>1. channels[fd[ch]] \in alive /\ fd[channels[fd[ch]]] = fd[ch]
    BY FdInFds DEF MapConsistent
  <2>2. channels[fd[ch]] = ch
    BY <1>1, <2>1 DEF DistinctFds
  <2> QED
    BY <1>1, <2>2 DEF Registered
<1>3. channels' = [channels EXCEPT ![fd[ch]] = ch]
  <2>1. CASE index[ch] < 0
    BY <1>1, <2>1 DEF updateChannel, addChannel
  <2>2. CASE ~(index[ch] < 0)
    <3>1. ch \in Registered
      BY <1>1, <2>2 DEF FreshIndex
    <3>2. channels[fd[ch]] = ch /\ channels' = channels
      BY <1>1, <2>2, <3>1 DEF Registered, updateChannel, changeChannel
    <3> QED
      BY <3>2, FdInFds DEF TypeOK
  <2> QED
    BY <2>1, <2>2
<1>4. Registered' = Registered \union {ch}
  <2>1. \A c \in alive : c \in Channels /\ (c # ch => fd[c] # fd[ch])
    BY <1>1 DEF DistinctFds, TypeOK
  <2> QED
    BY <1>1, <1>3, <2>1, FdInFds DEF Registered, TypeOK
<1> QED
  BY <1>1, <1>2, <1>3, <1>4

(* After an update the tag and the kernel's entry of the channel agree,    *)
(* and those of the others were not touched.                               *)
LEMMA EntryWritten ==
    ASSUME PollerInv, EPollInv, NEW ch \in Channels, NEW wanted \in SUBSET Events,
           update(ch, wanted), NEW entry, NEW mark,
           watched' = [watched EXCEPT ![fd[ch]] = entry],
           tag' = [tag EXCEPT ![ch] = mark],
           \/ mark = kAdded /\ entry = [events |-> wanted, ptr |-> ch]
           \/ mark = kDeleted /\ wanted = kNoneEvent /\ entry = NotWatched,
           registered' = channels', refused' = {}
    PROVE  EPollInv'
<1> USE DEF EPollInv
<1>1. /\ ch \in alive
      /\ interested' = [interested EXCEPT ![ch] = wanted]
      /\ alive' = alive
      /\ channels' = [channels EXCEPT ![fd[ch]] = ch]
      /\ Registered' = Registered \union {ch}
  BY UpdateRegisters
<1>2. /\ fd[ch] \in Fds /\ interested \in [Channels -> SUBSET Events]
      /\ channels \in [Fds -> Channels \union {NoChannel}]
      /\ alive \subseteq Channels /\ Registered \subseteq alive
  BY FdInFds DEF PollerInv, TypeOK, Registered
<1>3. entry \in [events : SUBSET Events, ptr : Channels \union {NoChannel}]
  BY DEF NotWatched, kNoneEvent
<1>4. mark \in {kNew, kAdded, kDeleted}
  OBVIOUS
<1>5. /\ tag' \in [Channels -> {kNew, kAdded, kDeleted}]
      /\ watched' \in [Fds -> [events : SUBSET Events, ptr : Channels \union {NoChannel}]]
  BY <1>2, <1>3, <1>4
<1>6. \A c \in Registered : c # ch =>
         /\ fd[c] # fd[ch] /\ fd[c] \in Fds
         /\ tag'[c] = tag[c] /\ watched'[fd[c]] = watched[fd[c]]
         /\ interested'[c] = interested[c]
  BY <1>1, <1>2, FdInFds DEF PollerInv, DistinctFds
<1>7. tag'[ch] = mark /\ watched'[fd[ch]] = entry /\ interested'[ch] = wanted
  BY <1>1, <1>2
<1>8. \A c \in Registered' :
         \/ /\ tag'[c] = kAdded
            /\ watched'[fd[c]] = [events |-> interested'[c], ptr |-> c]
         \/ /\ tag'[c] = kDeleted
            /\ interested'[c] = kNoneEvent
            /\ watched'[fd[c]] = NotWatched
  <2> SUFFICES ASSUME NEW c \in Registered'
               PROVE  \/ /\ tag'[c] = kAdded
                         /\ watched'[fd[c]] = [events |-> interested'[c], ptr |-> c]
                      \/ /\ tag'[c] = kDeleted
                         /\ interested'[c] = kNoneEvent
                         /\ watched'[fd[c]] = NotWatched
    OBVIOUS
  <2>1. CASE c = ch
    BY <1>7, <2>1
  <2>2. CASE c # ch
    BY <1>1, <1>6, <2>2
  <2> QED
    BY <2>1, <2>2
<1>9. \A c \in alive' \ Registered' : tag'[c] = kNew
  BY <1>1, <1>2
<1>10. \A f \in Fds : channels'[f] = NoChannel => watched'[f] = NotWatched
  BY <1>1, <1>2, PollerAssumption
<1> QED
  BY <1>5, <1>8, <1>9, <1>10

(* EPollPoller::updateChannel: no assertion fails, no call is refused.     *)
LEMMA EPollUpdateKeeps ==
    ASSUME PollerInv, EPollInv, NEW ch \in Channels, NEW wanted \in SUBSET Events,
           update(ch, wanted), EPollUpdate(ch)
    PROVE  EPollInv'
<1> DEFINE entry == [events |-> wanted, ptr |-> ch]
<1>1. /\ ch \in alive
      /\ channels' = [channels EXCEPT ![fd[ch]] = ch]
      /\ ch \notin Registered => channels[fd[ch]] = NoChannel
      /\ interested'[ch] = wanted
  BY UpdateRegisters DEF PollerInv, TypeOK
<1>2. ch \in Registered => channels[fd[ch]] = ch
  BY DEF Registered
<1>3. channels \in [Fds -> Channels \union {NoChannel}] /\ fd[ch] \in Fds
  BY FdInFds DEF PollerInv, TypeOK
<1>4. registered = channels /\ refused = {}
  BY DEF EPollInv
<1>5. CASE ch \notin Registered \/ tag[ch] = kDeleted
  <2>1. /\ tag[ch] \in {kNew, kDeleted} /\ watched[fd[ch]] = NotWatched
        /\ tag[ch] = kNew <=> ch \notin Registered
    <3>1. kNew # kAdded /\ kNew # kDeleted /\ kDeleted # kAdded
      BY DEF kNew, kAdded, kDeleted
    <3>2. CASE ch \notin Registered
      <4>1. tag[ch] = kNew
        BY <1>1, <3>2 DEF EPollInv
      <4>2. watched[fd[ch]] = NotWatched
        BY <1>1, <1>3, <3>2 DEF EPollInv
      <4> QED
        BY <3>2, <4>1, <4>2
    <3>3. CASE ch \in Registered /\ tag[ch] = kDeleted
      <4>1. watched[fd[ch]] = NotWatched
        BY <3>1, <3>3 DEF EPollInv
      <4> QED
        BY <3>1, <3>3, <4>1
    <3> QED
      BY <1>5, <3>2, <3>3
  <2>2. EPollAdd(ch, wanted)
    BY <1>1, <2>1 DEF EPollUpdate, EPollChange, kNew, kAdded, kDeleted
  <2>3. /\ watched' = [watched EXCEPT ![fd[ch]] = entry]
        /\ refused' = {}
    <3>1. Accepted("ADD", fd[ch])
      BY <2>1 DEF Accepted
    <3>2. watched' = [watched EXCEPT ![fd[ch]] = entry] /\ Refusal("ADD", ch) = {}
      BY <2>2, <3>1 DEF EPollAdd, Control, WatchedAfter, Refusal
    <3>3. refused' = refused \union Refusal("ADD", ch) \union
             (IF tag[ch] = kNew THEN FailedAt(77, registered[fd[ch]] = NoChannel)
              ELSE FailedAt(80, registered[fd[ch]] = ch))
      BY <2>2 DEF EPollAdd, Control
    <3> QED
      BY <1>1, <1>2, <1>4, <2>1, <3>2, <3>3 DEF FailedAt
  <2>4. tag' = [tag EXCEPT ![ch] = kAdded] /\ registered' = channels'
    BY <1>1, <1>4, <2>2 DEF EPollAdd
  <2> HIDE DEF entry
  <2>5. entry = [events |-> wanted, ptr |-> ch]
    BY DEF entry
  <2> QED
    BY <2>3, <2>4, <2>5, EntryWritten
<1>6. CASE ch \in Registered /\ tag[ch] # kDeleted
  <2>1. tag[ch] = kAdded /\ watched[fd[ch]] = [events |-> interested[ch], ptr |-> ch]
    BY <1>6 DEF EPollInv
  <2>2. watched[fd[ch]] # NotWatched
    BY <2>1, PollerAssumption DEF NotWatched
  <2>3. EPollChange(ch, wanted)
    BY <1>1, <2>1 DEF EPollUpdate, EPollAdd, kNew, kAdded, kDeleted
  <2>4. channels' = channels /\ registered' = channels'
    BY <1>1, <1>2, <1>3, <1>4, <1>6, <2>3 DEF EPollChange
  <2>5. CASE wanted = kNoneEvent
    <3>1. Accepted("DEL", fd[ch])
      BY <2>2 DEF Accepted
    <3>2. Control("DEL", ch, wanted, {}) /\ tag' = [tag EXCEPT ![ch] = kDeleted]
      BY <2>3, <2>5 DEF EPollChange
    <3>3. watched' = [watched EXCEPT ![fd[ch]] = NotWatched] /\ refused' = {}
      BY <1>4, <3>1, <3>2 DEF Control, WatchedAfter, Refusal
    <3> QED
      BY <2>4, <2>5, <3>2, <3>3, EntryWritten
  <2>6. CASE wanted # kNoneEvent
    <3>1. Accepted("MOD", fd[ch])
      BY <2>2 DEF Accepted
    <3>2. Control("MOD", ch, wanted, {}) /\ tag' = tag
      BY <2>3, <2>6 DEF EPollChange
    <3>3. watched' = [watched EXCEPT ![fd[ch]] = entry] /\ refused' = {}
      BY <1>4, <3>1, <3>2 DEF Control, WatchedAfter, Refusal
    <3>4. tag' = [tag EXCEPT ![ch] = kAdded]
      BY <2>1, <3>2 DEF EPollInv
    <3> HIDE DEF entry
    <3>5. entry = [events |-> wanted, ptr |-> ch]
      BY DEF entry
    <3> QED
      BY <2>4, <3>3, <3>4, <3>5, EntryWritten
  <2> QED
    BY <2>5, <2>6
<1> QED
  BY <1>5, <1>6

(* EPollPoller::removeChannel: it takes the descriptor out exactly if the  *)
(* kernel has it.                                                          *)
LEMMA EPollRemoveKeeps ==
    ASSUME PollerInv, EPollInv, NEW ch \in Channels, removeChannel(ch), EPollRemove(ch)
    PROVE  EPollInv'
<1> USE DEF EPollInv
<1>1. /\ ch \in Registered /\ channels[fd[ch]] = ch
      /\ channels' = [channels EXCEPT ![fd[ch]] = NoChannel]
      /\ UNCHANGED <<interested, alive>>
  BY DEF removeChannel, Registered
<1>2. /\ fd[ch] \in Fds /\ alive \subseteq Channels /\ Registered \subseteq alive
      /\ channels \in [Fds -> Channels \union {NoChannel}]
  BY FdInFds DEF PollerInv, TypeOK, Registered
<1>3. registered' = channels' /\ tag' = [tag EXCEPT ![ch] = kNew]
  BY <1>1 DEF EPollRemove
<1>4. /\ watched' = [watched EXCEPT ![fd[ch]] = NotWatched]
      /\ refused' = {}
  <2>1. FailedAt(102, registered[fd[ch]] # NoChannel) = {}
    BY <1>1, PollerAssumption DEF FailedAt
  <2>2. CASE tag[ch] = kAdded
    <3>0. watched[fd[ch]] = [events |-> interested[ch], ptr |-> ch]
      BY <1>1, <2>2 DEF kAdded, kDeleted
    <3>1. watched[fd[ch]] # NotWatched
      BY <3>0, PollerAssumption DEF NotWatched
    <3>2. Accepted("DEL", fd[ch])
      BY <3>1 DEF Accepted
    <3>3. Control("DEL", ch, interested[ch], {})
      BY <2>1, <2>2 DEF EPollRemove, InKernel
    <3> QED
      BY <3>2, <3>3 DEF Control, WatchedAfter, Refusal
  <2>3. CASE tag[ch] # kAdded
    <3>1. watched[fd[ch]] = NotWatched
      BY <1>1, <2>3
    <3>2. watched' = watched /\ refused' = refused
      BY <2>1, <2>3 DEF EPollRemove, InKernel
    <3> QED
      BY <1>2, <3>1, <3>2
  <2> QED
    BY <2>2, <2>3
<1>5. \A c \in Registered : c # ch =>
         /\ c \in Channels /\ fd[c] # fd[ch] /\ fd[c] \in Fds
         /\ tag'[c] = tag[c] /\ watched'[fd[c]] = watched[fd[c]]
  BY <1>1, <1>2, <1>3, <1>4, FdInFds DEF PollerInv, DistinctFds
<1>6. Registered' = Registered \ {ch}
  BY <1>1, <1>2, <1>5, PollerAssumption, FdInFds DEF Registered
<1>7. NotWatched \in [events : SUBSET Events, ptr : Channels \union {NoChannel}]
  BY DEF NotWatched, kNoneEvent
<1>8. /\ tag' \in [Channels -> {kNew, kAdded, kDeleted}]
      /\ watched' \in [Fds -> [events : SUBSET Events, ptr : Channels \union {NoChannel}]]
  BY <1>2, <1>3, <1>4, <1>7
<1>9. \A c \in alive' \ Registered' : tag'[c] = kNew
  BY <1>1, <1>2, <1>3, <1>6
<1>10. \A f \in Fds : channels'[f] = NoChannel => watched'[f] = NotWatched
  BY <1>1, <1>2, <1>4
<1>11. \A c \in Registered' :
          \/ /\ tag'[c] = kAdded
             /\ watched'[fd[c]] = [events |-> interested'[c], ptr |-> c]
          \/ /\ tag'[c] = kDeleted
             /\ interested'[c] = kNoneEvent
             /\ watched'[fd[c]] = NotWatched
  BY <1>1, <1>5, <1>6
<1> QED
  BY <1>3, <1>4, <1>8, <1>9, <1>10, <1>11

(* A channel is constructed or destroyed without the poller.               *)
LEMMA EPollLifetimeKeeps ==
    ASSUME PollerInv, EPollInv, NEW ch \in Channels,
           EPollConstruct(ch) \/ (Destruct(ch) /\ UNCHANGED epollVars)
    PROVE  EPollInv'
<1> USE DEF EPollInv
<1>1. alive \subseteq Channels /\ interested \in [Channels -> SUBSET Events]
  BY DEF PollerInv, TypeOK
<1>2. CASE EPollConstruct(ch)
  <2>1. /\ ch \notin alive /\ alive' = alive \union {ch}
        /\ interested' = [interested EXCEPT ![ch] = kNoneEvent]
        /\ tag' = [tag EXCEPT ![ch] = kNew]
        /\ UNCHANGED <<channels, registered, watched, refused>>
    BY <1>2 DEF EPollConstruct, Construct
  <2>2. channels[fd[ch]] # ch
    BY <2>1, FdInFds, PollerAssumption DEF PollerInv, MapConsistent
  <2>3. Registered' = Registered
    BY <2>1, <2>2 DEF Registered
  <2>4. \A c \in Registered : c # ch /\ interested'[c] = interested[c] /\ tag'[c] = tag[c]
    BY <1>1, <2>1 DEF Registered
  <2> QED
    BY <1>1, <2>1, <2>3, <2>4
<1>3. CASE Destruct(ch) /\ UNCHANGED epollVars
  <2>1. /\ alive' = alive \ {ch} /\ ch \notin Registered
        /\ UNCHANGED <<channels, interested, registered, watched, refused, tag>>
    BY <1>3 DEF Destruct, epollVars
  <2>2. Registered' = Registered
    BY <2>1 DEF Registered
  <2> QED
    BY <2>1, <2>2
<1> QED
  BY <1>2, <1>3

LEMMA BothInvStep ==
    PollerInv /\ EPollInv /\ [BothNext]_<<vars, epollVars>> => EPollInv'
<1> SUFFICES ASSUME PollerInv, EPollInv, [BothNext]_<<vars, epollVars>>
             PROVE  EPollInv'
  OBVIOUS
<1>1. \A ch \in Channels : interested[ch] \in SUBSET Events
  BY DEF PollerInv, TypeOK
<1>2. ASSUME NEW ch \in Channels,
             \/ enableReading(ch) \/ enableWriting(ch)
             \/ disableWriting(ch) \/ disableAll(ch),
             EPollUpdate(ch)
      PROVE  EPollInv'
  <2>1. PICK wanted \in SUBSET Events : update(ch, wanted)
    BY <1>1, <1>2 DEF enableReading, enableWriting, disableWriting, disableAll, Events,
                      kNoneEvent
  <2> QED
    BY <1>2, <2>1, EPollUpdateKeeps
<1>3. ASSUME NEW ch \in Channels, removeChannel(ch), EPollRemove(ch)
      PROVE  EPollInv'
  BY <1>3, EPollRemoveKeeps
<1>4. ASSUME NEW ch \in Channels,
             EPollConstruct(ch) \/ (Destruct(ch) /\ UNCHANGED epollVars)
      PROVE  EPollInv'
  BY <1>4, EPollLifetimeKeeps
<1>5. CASE \/ poll /\ UNCHANGED epollVars
           \/ EPollPoll
           \/ UNCHANGED <<vars, epollVars>>
  <2>1. UNCHANGED <<channels, interested, alive, tag, registered, watched, refused>>
    BY <1>5 DEF poll, EPollPoll, vars, epollVars
  <2>2. Registered' = Registered
    BY <2>1 DEF Registered
  <2> QED
    BY <2>1, <2>2 DEF EPollInv
<1> QED
  BY <1>2, <1>3, <1>4, <1>5 DEF BothNext

-----------------------------------------------------------------------------
(* A channel is disabled once more exactly when it is with the kernel and  *)
(* asked for nothing.                                                      *)
Idle(ch) == ch \in Registered /\ interested[ch] = kNoneEvent /\ tag[ch] = kAdded

AgainInv ==
    /\ again \subseteq Channels
    /\ \A ch \in Channels : ch \in again <=> Idle(ch)

(* An update adds a channel that is idle again, or is not idle any more.   *)
LEMMA AgainUpdateKeeps ==
    ASSUME PollerInv, EPollInv, AgainInv, NEW ch \in Channels,
           NEW wanted \in SUBSET Events, update(ch, wanted), EPollUpdate(ch),
           ch \notin Registered => wanted # kNoneEvent
    PROVE  AgainInv'
<1>1. /\ interested' = [interested EXCEPT ![ch] = wanted]
      /\ Registered' = Registered \union {ch}
  BY UpdateRegisters
<1>2. /\ interested \in [Channels -> SUBSET Events]
      /\ tag \in [Channels -> {kNew, kAdded, kDeleted}]
  BY DEF PollerInv, TypeOK, EPollInv
<1>3. interested'[ch] = wanted /\ (isNoneEvent(ch)' <=> wanted = kNoneEvent)
  BY <1>1, <1>2 DEF isNoneEvent
<1>4. again' = IF ch \notin again /\ isNoneEvent(ch) /\ wanted = kNoneEvent
               THEN again \union {ch} ELSE again \ {ch}
  BY <1>3 DEF EPollUpdate, AgainAfter
<1>5. EPollAdd(ch, wanted) \/ EPollChange(ch, wanted)
  BY <1>3 DEF EPollUpdate
<1>6. \A c \in Channels : c # ch => tag'[c] = tag[c] /\ interested'[c] = interested[c]
  BY <1>1, <1>2, <1>5 DEF EPollAdd, EPollChange
<1>7. \A c \in Channels : c # ch => (c \in again' <=> Idle(c)')
  BY <1>1, <1>4, <1>6 DEF AgainInv, Idle
<1>8. ch \in again' <=> Idle(ch)'
  <2>1. kNew # kAdded /\ kNew # kDeleted /\ kDeleted # kAdded
    BY DEF kNew, kAdded, kDeleted
  <2>2. Idle(ch)' <=> wanted = kNoneEvent /\ tag'[ch] = kAdded
    BY <1>1, <1>3 DEF Idle
  <2>3. CASE ch \notin Registered
    BY <1>4, <2>2, <2>3
  <2>4. CASE ch \in Registered /\ tag[ch] = kDeleted
    <3>1. interested[ch] = kNoneEvent /\ ch \notin again
      BY <2>1, <2>4 DEF EPollInv, AgainInv, Idle
    <3>2. tag'[ch] = kAdded
      BY <1>2, <1>5, <2>1, <2>4 DEF EPollAdd, EPollChange
    <3> QED
      BY <1>4, <2>2, <3>1, <3>2 DEF isNoneEvent
  <2>5. CASE ch \in Registered /\ tag[ch] # kDeleted
    <3>1. tag[ch] = kAdded
      BY <2>5 DEF EPollInv
    <3>2. isNoneEvent(ch) => ch \in again
      BY <2>5, <3>1 DEF AgainInv, Idle, isNoneEvent
    <3>3. ch \notin again'
      BY <1>4, <3>2
    <3>4. wanted = kNoneEvent => tag'[ch] = kDeleted
      BY <1>2, <1>5, <2>1, <3>1 DEF EPollAdd, EPollChange
    <3> QED
      BY <2>1, <2>2, <3>3, <3>4
  <2> QED
    BY <2>3, <2>4, <2>5
<1>9. again' \subseteq Channels
  BY <1>4 DEF AgainInv
<1> QED
  BY <1>7, <1>8, <1>9 DEF AgainInv

(* A channel that goes is not registered, and one that is constructed is   *)
(* not yet.                                                                *)
LEMMA AgainLifetimeKeeps ==
    ASSUME PollerInv, EPollInv, AgainInv, NEW ch \in Channels,
           \/ removeChannel(ch) /\ EPollRemove(ch)
           \/ EPollConstruct(ch)
           \/ Destruct(ch) /\ UNCHANGED epollVars
    PROVE  AgainInv'
<1>1. /\ interested \in [Channels -> SUBSET Events] /\ alive \subseteq Channels
      /\ tag \in [Channels -> {kNew, kAdded, kDeleted}]
      /\ channels \in [Fds -> Channels \union {NoChannel}] /\ fd[ch] \in Fds
  BY FdInFds DEF PollerInv, TypeOK, EPollInv
<1>2. CASE removeChannel(ch) /\ EPollRemove(ch)
  <2>1. /\ channels' = [channels EXCEPT ![fd[ch]] = NoChannel]
        /\ UNCHANGED <<interested, alive>>
        /\ tag' = [tag EXCEPT ![ch] = kNew] /\ again' = again \ {ch}
        /\ ch \in Registered
    BY <1>2 DEF removeChannel, EPollRemove
  <2>2. \A c \in alive : c # ch => fd[c] # fd[ch] /\ fd[c] \in Fds
    BY <1>1, <2>1, FdInFds DEF PollerInv, DistinctFds, Registered
  <2>3. Registered' = Registered \ {ch}
    BY <1>1, <2>1, <2>2, PollerAssumption DEF Registered
  <2>4. \A c \in Channels : c # ch => tag'[c] = tag[c]
    BY <1>1, <2>1
  <2> QED
    BY <2>1, <2>3, <2>4 DEF AgainInv, Idle
<1>3. CASE EPollConstruct(ch)
  <2>1. /\ ch \notin alive /\ alive' = alive \union {ch}
        /\ interested' = [interested EXCEPT ![ch] = kNoneEvent]
        /\ tag' = [tag EXCEPT ![ch] = kNew]
        /\ UNCHANGED <<channels, again>>
    BY <1>3 DEF EPollConstruct, Construct
  <2>2. channels[fd[ch]] # ch
    BY <2>1, FdInFds, PollerAssumption DEF PollerInv, MapConsistent
  <2>3. Registered' = Registered /\ ch \notin Registered
    BY <2>1, <2>2 DEF Registered
  <2>4. \A c \in Registered : interested'[c] = interested[c] /\ tag'[c] = tag[c]
    BY <1>1, <2>1 DEF Registered
  <2> QED
    BY <2>1, <2>3, <2>4 DEF AgainInv, Idle
<1>4. CASE Destruct(ch) /\ UNCHANGED epollVars
  <2>1. /\ alive' = alive \ {ch} /\ ch \notin Registered
        /\ UNCHANGED <<channels, interested, tag, again>>
    BY <1>4 DEF Destruct, epollVars
  <2>2. Registered' = Registered
    BY <2>1 DEF Registered
  <2> QED
    BY <2>1, <2>2 DEF AgainInv, Idle
<1> QED
  BY <1>2, <1>3, <1>4

LEMMA AgainInvStep ==
    PollerInv /\ EPollInv /\ AgainInv /\ [BothNext]_<<vars, epollVars>> => AgainInv'
<1> SUFFICES ASSUME PollerInv, EPollInv, AgainInv, [BothNext]_<<vars, epollVars>>
             PROVE  AgainInv'
  OBVIOUS
<1>1. \A ch \in Channels : interested[ch] \in SUBSET Events
  BY DEF PollerInv, TypeOK
<1>2. ASSUME NEW ch \in Channels, EPollUpdate(ch),
             \/ enableReading(ch) \/ enableWriting(ch)
             \/ disableWriting(ch) \/ disableAll(ch)
      PROVE  AgainInv'
  <2>1. PICK wanted \in SUBSET Events :
           update(ch, wanted) /\ (ch \notin Registered => wanted # kNoneEvent)
    BY <1>1, <1>2 DEF enableReading, enableWriting, disableWriting, disableAll, Events,
                      kNoneEvent
  <2> QED
    BY <1>2, <2>1, AgainUpdateKeeps
<1>3. CASE \/ poll /\ UNCHANGED epollVars
           \/ EPollPoll
           \/ UNCHANGED <<vars, epollVars>>
  <2>1. UNCHANGED <<channels, interested, alive, tag, again>>
    BY <1>3 DEF poll, EPollPoll, vars, epollVars
  <2>2. Registered' = Registered
    BY <2>1 DEF Registered
  <2> QED
    BY <2>1, <2>2 DEF AgainInv, Idle
<1> QED
  BY <1>2, <1>3, AgainLifetimeKeeps DEF BothNext

LEMMA BothInvariant == BothSpec => [](PollerInv /\ EPollInv /\ AgainInv)
<1>1. BothInit => PollerInv
  BY InitInv DEF BothInit
<1>2. BothInit => EPollInv
  <2> SUFFICES ASSUME BothInit PROVE EPollInv
    OBVIOUS
  <2>1. NotWatched \in [events : SUBSET Events, ptr : Channels \union {NoChannel}]
    BY DEF NotWatched, kNoneEvent
  <2> QED
    BY <2>1 DEF BothInit, Init, EPollInit, EPollInv, Registered
<1>3. BothInit => AgainInv
  BY DEF BothInit, Init, EPollInit, AgainInv, Idle, Registered
<1>4. PollerInv /\ [BothNext]_<<vars, epollVars>> => PollerInv'
  BY BothSteps, NextKeepsInv
<1> QED
  BY <1>1, <1>2, <1>3, <1>4, BothInvStep, AgainInvStep, PTL DEF BothSpec

(* What the two pollers watch follows from what each keeps.                *)
LEMMA SameWatched ==
    PollerInv /\ EPollInv /\ AgainInv => PollersDifferOnlyIfDisabledAgain
<1> SUFFICES ASSUME PollerInv, EPollInv, AgainInv
             PROVE  PollersDifferOnlyIfDisabledAgain
  OBVIOUS
<1> DEFINE Watching == {f \in Fds : watched[f] # NotWatched}
           Asking == {c \in Registered : ~isNoneEvent(c)}
<1>1. ASSUME NEW f \in Fds, watched[f] # NotWatched
      PROVE  /\ channels[f] \in Registered /\ fd[channels[f]] = f
             /\ watched[f] = [events |-> interested[channels[f]], ptr |-> channels[f]]
             /\ tag[channels[f]] = kAdded
  <2>1. channels[f] # NoChannel
    BY <1>1 DEF EPollInv
  <2>2. channels[f] \in Registered /\ fd[channels[f]] = f
    BY <2>1 DEF PollerInv, MapConsistent, Registered
  <2> QED
    BY <1>1, <2>2 DEF EPollInv
<1>2. ASSUME NEW f \in Watching
      PROVE  \/ \E c \in Asking :
                    pollfd(f, watched[f].events) = pollfd(fd[c], interested[c])
             \/ \E c \in again :
                    pollfd(f, watched[f].events) = pollfd(fd[c], kNoneEvent)
  <2>1. PICK c \in Registered :
           /\ fd[c] = f /\ watched[f] = [events |-> interested[c], ptr |-> c]
           /\ tag[c] = kAdded
    BY <1>1
  <2>2. watched[f].events = interested[c]
    BY <2>1
  <2>3. CASE isNoneEvent(c)
    <3>1. c \in Channels
      BY DEF PollerInv, TypeOK, Registered
    <3>2. c \in again
      BY <2>1, <2>3, <3>1 DEF AgainInv, Idle, isNoneEvent
    <3> QED
      BY <2>1, <2>2, <2>3, <3>2 DEF isNoneEvent
  <2>4. CASE ~isNoneEvent(c)
    BY <2>1, <2>2, <2>4
  <2> QED
    BY <2>3, <2>4
<1>3. ASSUME NEW c \in Registered, tag[c] = kAdded
      PROVE  \E f \in Watching : pollfd(f, watched[f].events) = pollfd(fd[c], interested[c])
  <2>1. fd[c] \in Fds
    BY FdInFds DEF PollerInv, TypeOK, Registered
  <2>2. kAdded # kDeleted
    BY DEF kAdded, kDeleted
  <2>3. watched[fd[c]] = [events |-> interested[c], ptr |-> c]
    BY <1>3, <2>2 DEF EPollInv
  <2>4. watched[fd[c]] # NotWatched
    <3>1. c # NoChannel
      BY PollerAssumption DEF PollerInv, TypeOK, Registered
    <3> QED
      BY <2>3, <3>1 DEF NotWatched
  <2> QED
    BY <2>1, <2>3, <2>4
<1>4. {pollfd(f, watched[f].events) : f \in Watching}
         = {pollfd(fd[c], interested[c]) : c \in Asking}
              \union {pollfd(fd[c], kNoneEvent) : c \in again}
  <2>1. \A c \in Asking : tag[c] = kAdded
    BY DEF EPollInv, isNoneEvent
  <2>2. \A c \in again : c \in Registered /\ tag[c] = kAdded /\ interested[c] = kNoneEvent
    BY DEF AgainInv, Idle
  <2>3. \A c \in Asking :
           \E f \in Watching : pollfd(f, watched[f].events) = pollfd(fd[c], interested[c])
    BY <1>3, <2>1
  <2>4. \A c \in again :
           \E f \in Watching : pollfd(f, watched[f].events) = pollfd(fd[c], kNoneEvent)
    BY <1>3, <2>2
  <2> HIDE DEF Watching, Asking
  <2> QED
    BY <1>2, <2>3, <2>4
<1>5. {pollfds[i] : i \in {j \in 1..Len(pollfds) : pollfds[j].fd >= 0}}
         = {pollfd(fd[c], interested[c]) : c \in Asking}
  <2>1. KernelWatchesInterest
    BY InvGivesKernelView
  <2> QED
    BY <2>1, Zenon DEF KernelWatchesInterest, Asking
<1>6. EPollActive({f \in Fds : watched[f] # NotWatched}) \subseteq Registered
  <2>1. ASSUME NEW f \in Fds, watched[f] # NotWatched
        PROVE  watched[f].ptr \in Registered
    <3>1. PICK c \in Registered : watched[f] = [events |-> interested[c], ptr |-> c]
      BY <1>1, <2>1
    <3> QED
      BY <3>1
  <2> QED
    BY <2>1 DEF EPollActive
<1> QED
  BY <1>4, <1>5, <1>6 DEF PollersDifferOnlyIfDisabledAgain

(* poll() and fillActiveChannels: what the kernel was given it was given   *)
(* for a channel that is interested.                                       *)
LEMMA PollFindsInterested ==
    ASSUME PollerInv, poll
    PROVE  active' \subseteq {ch \in Registered : ~isNoneEvent(ch)}
<1>1. PICK ready \in SUBSET {f \in Fds : \E i \in DOMAIN pollfds : pollfds[i].fd = f} :
         active' = {channels[f] : f \in ready} \ {NoChannel}
  BY DEF poll
<1>2. ASSUME NEW f \in ready, channels[f] # NoChannel
      PROVE  channels[f] \in Registered /\ ~isNoneEvent(channels[f])
  <2>1. f \in Nat /\ f \in Fds
    BY <1>1, PollerAssumption DEF Fds
  <2>2. PICK i \in 1..Len(pollfds) : pollfds[i].fd = f
    BY <1>1 DEF PollerInv, TypeOK
  <2>3. PICK c \in Registered : index[c] + 1 = i /\ pollfds[i] = Slot(c)
    BY DEF PollerInv, IndexConsistent
  <2>4. fd[c] \in Nat /\ channels[fd[c]] = c
    BY FdInFds DEF Registered, PollerInv, TypeOK
  <2>5. f = IF isNoneEvent(c) THEN -fd[c] - 1 ELSE fd[c]
    BY <2>2, <2>3 DEF Slot, pollfd
  <2>6. ~isNoneEvent(c) /\ f = fd[c]
    BY <2>1, <2>4, <2>5
  <2> QED
    BY <2>4, <2>6
<1> QED
  BY <1>1, <1>2

(* epollpoller.cc:65-131: no call of epoll_ctl is refused and no assertion *)
(* fails, in any order of updates, removals and channels that come and go. *)
THEOREM EPollIsNeverRefused == BothSpec => []EPollNeverRefused
<1>1. EPollInv => EPollNeverRefused
  BY DEF EPollInv, EPollNeverRefused
<1> QED
  BY <1>1, BothInvariant, PTL

(* epollpoller.cc:65-131, poller.cc:33-107: what EPollPoller has put in    *)
(* the kernel is what Poller gives to poll(2), and besides, for no event,  *)
(* the channels that were disabled while they were disabled.               *)
THEOREM PollersAgree == BothSpec => []PollersDifferOnlyIfDisabledAgain
BY SameWatched, BothInvariant, PTL

(* poller.cc:15-31, 92-107: what Poller's poll adds to activeChannels_ are *)
(* channels that are registered and interested in some event.              *)
THEOREM PollsReportInterested == BothSpec => PollReportsInterested
<1>1. PollerInv /\ [BothNext]_<<vars, epollVars>>
         => [active' # active =>
                active' \subseteq {ch \in Registered : ~isNoneEvent(ch)}]_vars
  <2> SUFFICES ASSUME PollerInv, [BothNext]_<<vars, epollVars>>, active' # active
               PROVE  active' \subseteq {ch \in Registered : ~isNoneEvent(ch)}
    OBVIOUS
  <2>1. [Next]_vars
    BY BothSteps
  <2>2. poll
    BY <2>1 DEF Next, vars, enableReading, enableWriting, disableWriting, disableAll,
                update, removeChannel, Construct, Destruct
  <2> QED
    BY <2>2, PollFindsInterested
<1> QED
  BY <1>1, BothInvariant, PTL DEF BothSpec, PollReportsInterested
=============================================================================
