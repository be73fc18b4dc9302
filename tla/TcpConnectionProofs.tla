------------------------- MODULE TcpConnectionProofs -------------------------
(***************************************************************************)
(* What holds of TcpConnection for any number and length of messages, any  *)
(* kernel buffer and any high-water mark: the types, the interest in       *)
(* POLLOUT, that the connection is the byte stream OutputStream, and that  *)
(* it is harmed only in the races the invariant names.                     *)
(***************************************************************************)
EXTENDS TcpConnection, SequenceTheorems, TLAPS

Bytes == 1..(MaxSends * MessageLen)

(* The functors that can be queued while the owner does (or does not) hold *)
(* the connection: connectDestroyed only follows the close callback.       *)
ValidFunctors(o) ==
    {f \in Functors :
        /\ f.call = "sendInLoop" => f.msg # 0
        /\ f.call = "connectDestroyed" => ~o}

QueuesOK ==
    /\ pending \in Seq(ValidFunctors(owner))
    /\ batch \in Seq(ValidFunctors(owner))
    /\ user.call.at = "send" => user.call.msg # 0

(* Nothing happens to a connection before connectEstablished.              *)
Fresh ==
    state = "connecting" =>
        /\ interest = {}
        /\ output = <<>>
        /\ pending = <<>> /\ batch = <<>> /\ revents = <<>>
        /\ ~user.holds /\ user.call.at = "idle"

ConnInv == TypeOK /\ WritingIffWaiting /\ QueuesOK /\ Fresh

-----------------------------------------------------------------------------
(* Sequences and messages.                                                 *)

(* Cutting a sequence in two.                                              *)
LEMMA Cut ==
    ASSUME NEW S, NEW s \in Seq(S), NEW n \in 0..Len(s)
    PROVE  /\ SubSeq(s, 1, n) \in Seq(S)
           /\ SubSeq(s, n + 1, Len(s)) \in Seq(S)
           /\ Len(SubSeq(s, n + 1, Len(s))) = Len(s) - n
           /\ SubSeq(s, n + 1, Len(s)) = <<>> <=> n = Len(s)
           /\ n = 0 => SubSeq(s, 1, n) = <<>> /\ SubSeq(s, n + 1, Len(s)) = s
  <1>1. Len(s) \in Nat /\ \A i \in 1..Len(s) : s[i] \in S
    OBVIOUS
  <1>2. SubSeq(s, 1, n) \in Seq(S)
    BY <1>1, SubSeqProperties
  <1>3. /\ SubSeq(s, n + 1, Len(s)) \in Seq(S)
        /\ Len(SubSeq(s, n + 1, Len(s))) = Len(s) - n
    <2>1. \A i \in (n + 1)..Len(s) : s[i] \in S
      BY <1>1
    <2>2. /\ SubSeq(s, n + 1, Len(s)) \in Seq(S)
          /\ Len(SubSeq(s, n + 1, Len(s))) =
                 IF n + 1 <= Len(s) THEN Len(s) - (n + 1) + 1 ELSE 0
      BY <1>1, <2>1, SubSeqProperties
    <2> QED
      BY <1>1, <2>2
  <1>4. SubSeq(s, n + 1, Len(s)) = <<>> <=> n = Len(s)
    <2> DEFINE rest == SubSeq(s, n + 1, Len(s))
    <2>1. rest \in Seq(S) /\ Len(rest) = Len(s) - n
      BY <1>3
    <2> HIDE DEF rest
    <2>2. rest = <<>> <=> Len(rest) = 0
      BY <2>1, EmptySeq
    <2>3. rest = <<>> <=> n = Len(s)
      BY <1>1, <2>1, <2>2
    <2> QED
      BY <2>3 DEF rest
  <1>5. n = 0 => SubSeq(s, 1, n) = <<>> /\ SubSeq(s, n + 1, Len(s)) = s
    BY <1>1, SubSeqEmpty, SubSeqFull
  <1> QED
    BY <1>2, <1>3, <1>4, <1>5

(* A message is a piece of the stream.                                     *)
LEMMA MessageType ==
    ASSUME NEW k \in 1..MaxSends
    PROVE  Message(k) \in Seq(Bytes) /\ Len(Message(k)) = MessageLen
  <1>1. MaxSends \in Nat /\ MessageLen \in Nat \ {0}
    BY ConnectionAssumption
  <1>2. ASSUME NEW i \in 1..MessageLen
        PROVE  (k - 1) * MessageLen + i \in Bytes
    <2>1. (k - 1) * MessageLen \in Nat
      BY <1>1
    <2>2. (k - 1) * MessageLen + MessageLen = k * MessageLen
      BY <1>1
    <2>3. k * MessageLen + (MaxSends - k) * MessageLen = MaxSends * MessageLen
      BY <1>1
    <2>4. (MaxSends - k) * MessageLen \in Nat /\ MaxSends * MessageLen \in Nat
      BY <1>1
    <2> QED
      BY <1>1, <2>1, <2>2, <2>3, <2>4 DEF Bytes
  <1> QED
    BY <1>1, <1>2 DEF Message

(* write(2) takes no more than it is given or has room for, and nothing    *)
(* once the write side is shut down.                                       *)
LEMMA WrittenBounds ==
    ASSUME room \in Nat, NEW n \in Nat, NEW k \in Written(n)
    PROVE  k \in 0..n /\ k <= room /\ (fin => k = 0)
  BY DEF Written

(* What may be queued with the owner there may be queued without it.       *)
LEMMA ValidWeakens ==
    ASSUME NEW o, NEW q \in Seq(ValidFunctors(o))
    PROVE  q \in Seq(ValidFunctors(FALSE)) /\ q \in Seq(Functors)
  <1>1. ValidFunctors(o) \subseteq ValidFunctors(FALSE)
    BY DEF ValidFunctors
  <1>2. ValidFunctors(o) \subseteq Functors
    BY DEF ValidFunctors
  <1>3. \A S, T : S \subseteq T => Seq(S) \subseteq Seq(T)
    OBVIOUS
  <1> QED
    BY <1>1, <1>2, <1>3

(* The functors that the code queues.                                      *)
LEMMA FunctorTypes ==
    ASSUME NEW o
    PROVE  /\ Functor("writeComplete", 0) \in ValidFunctors(o)
           /\ Functor("highWaterMark", 0) \in ValidFunctors(o)
           /\ Functor("shutdownInLoop", 0) \in ValidFunctors(o)
           /\ \A k \in 1..MaxSends : Functor("sendInLoop", k) \in ValidFunctors(o)
           /\ Functor("connectDestroyed", 0) \in ValidFunctors(FALSE)
  BY ConnectionAssumption DEF ValidFunctors, Functors, Functor

(* Queueing on a condition.                                                *)
LEMMA IfIsSeq ==
    ASSUME NEW S, NEW e \in S, NEW condition
    PROVE  If(condition, e) \in Seq(S)
  BY DEF If

LEMMA QueueWith ==
    ASSUME NEW o, NEW q \in Seq(ValidFunctors(o)), NEW f \in ValidFunctors(o),
           NEW condition
    PROVE  q \o If(condition, f) \in Seq(ValidFunctors(o))
  <1>1. If(condition, f) \in Seq(ValidFunctors(o))
    BY IfIsSeq
  <1> QED
    BY <1>1, ConcatProperties

-----------------------------------------------------------------------------
(* The calls.                                                              *)

(* What sendInLoop does to the stream, and what it keeps.                  *)
LEMMA SendEffect ==
    ASSUME ConnInv, NEW k \in 1..MaxSends, sendInLoop(Message(k))
    PROVE  /\ wire' \in Seq(Bytes) /\ output' \in Seq(Bytes)
           /\ room' \in 0..Room
           /\ soError' \in BOOLEAN /\ late' \in BOOLEAN
           /\ interest' \subseteq {"read", "write"}
           /\ pending' \in Seq(ValidFunctors(owner))
           /\ owner => ("write" \in interest' <=> output' # <<>>)
           /\ \E n \in 0..(Len(output) + Len(Message(k))) :
                 /\ fin => n = 0
                 /\ wire' = wire \o SubSeq(output \o Message(k), 1, n)
                 /\ output' = SubSeq(output \o Message(k), n + 1,
                                     Len(output \o Message(k)))
  <1> DEFINE data == Message(k)
  <1>1. data \in Seq(Bytes) /\ Len(data) \in Nat \ {0}
    BY MessageType, ConnectionAssumption
  <1>2. /\ output \in Seq(Bytes) /\ wire \in Seq(Bytes) /\ Len(output) \in Nat
        /\ room \in 0..Room /\ Room \in Nat
        /\ pending \in Seq(ValidFunctors(owner))
    BY ConnectionAssumption DEF ConnInv, TypeOK, QueuesOK, Bytes
  <1> HIDE DEF data
  <1>3. PICK n \in IF CanWriteDirectly THEN Written(Len(data)) ELSE {0} :
           LET rest == SubSeq(data, n + 1, Len(data))
           IN  /\ wire' = wire \o SubSeq(data, 1, n)
               /\ room' = room - n
               /\ soError' = (soError /\ ~CanWriteDirectly)
               /\ output' = output \o rest
               /\ interest' = InterestAfterSend(rest)
               /\ pending' = pending
                     \o If(rest = <<>>, Functor("writeComplete", 0))
                     \o If(/\ rest # <<>>
                           /\ Len(output) + Len(rest) >= HighWaterMark
                           /\ Len(output) < HighWaterMark,
                           Functor("highWaterMark", 0))
               /\ late' = (late \/ (rest # <<>> /\ ~registered))
    BY DEF sendInLoop, data
  <1> DEFINE rest == SubSeq(data, n + 1, Len(data))
  <1>4. n \in 0..Len(data) /\ n <= room /\ (fin => n = 0)
    <2>1. CASE CanWriteDirectly
      <3>1. n \in Written(Len(data))
        BY <1>3, <2>1
      <3>2. room \in Nat /\ Len(data) \in Nat
        BY <1>1, <1>2
      <3> QED
        BY <3>1, <3>2, WrittenBounds
    <2>2. CASE ~CanWriteDirectly
      <3>1. n = 0
        BY <1>3, <2>2
      <3> QED
        BY <1>1, <1>2, <3>1
    <2> QED
      BY <2>1, <2>2
  <1>5. /\ SubSeq(data, 1, n) \in Seq(Bytes) /\ rest \in Seq(Bytes)
        /\ rest = <<>> <=> n = Len(data)
        /\ n = 0 => SubSeq(data, 1, n) = <<>> /\ rest = data
    BY <1>1, <1>4, Cut
  <1> HIDE DEF rest
  <1>6. wire' \in Seq(Bytes) /\ output' \in Seq(Bytes)
    BY <1>2, <1>3, <1>5, ConcatProperties DEF rest
  <1>7. room' \in 0..Room /\ soError' \in BOOLEAN /\ late' \in BOOLEAN
    BY <1>2, <1>3, <1>4 DEF ConnInv, TypeOK
  <1>8. interest' \subseteq {"read", "write"}
    BY <1>3 DEF InterestAfterSend, ConnInv, TypeOK
  <1>9. pending' \in Seq(ValidFunctors(owner))
    BY <1>2, <1>3, QueueWith, FunctorTypes
  <1>10. "write" \in interest' <=> output' # <<>>
    <2>1. CASE CanWriteDirectly
      <3>1. output' = rest
        BY <1>3, <1>5, <2>1, ConcatEmptySeq DEF CanWriteDirectly, rest
      <3> QED
        BY <1>3, <2>1, <3>1 DEF CanWriteDirectly, InterestAfterSend, isWriting, rest
    <2>2. CASE ~CanWriteDirectly
      <3>1. rest # <<>>
        BY <1>1, <1>3, <1>5, <2>2
      <3>2. output' # <<>>
        BY <1>2, <1>3, <1>5, <3>1, ConcatEqualIffEmpty DEF rest
      <3> QED
        BY <1>3, <3>1, <3>2 DEF InterestAfterSend, rest
    <2> QED
      BY <2>1, <2>2
  <1>11. /\ n \in 0..(Len(output) + Len(data))
         /\ wire' = wire \o SubSeq(output \o data, 1, n)
         /\ output' = SubSeq(output \o data, n + 1, Len(output \o data))
    <2>1. n \in 0..(Len(output) + Len(data))
      BY <1>1, <1>2, <1>4
    <2>2. CASE CanWriteDirectly
      <3>1. output \o data = data /\ output \o rest = rest
        BY <1>1, <1>5, <2>2, ConcatEmptySeq DEF CanWriteDirectly
      <3> QED
        BY <1>3, <2>1, <3>1 DEF rest
    <2>3. CASE ~CanWriteDirectly
      <3>1. n = 0
        BY <1>3, <2>3
      <3>2. output \o data \in Seq(Bytes)
        BY <1>1, <1>2, ConcatProperties
      <3>3. /\ SubSeq(output \o data, 1, n) = <<>>
            /\ SubSeq(output \o data, n + 1, Len(output \o data)) = output \o data
        BY <3>1, <3>2, Cut
      <3>4. wire' = wire \o <<>> /\ output' = output \o data
        BY <1>3, <1>5, <3>1 DEF rest
      <3> QED
        BY <2>1, <3>3, <3>4
    <2> QED
      BY <2>2, <2>3
  <1> QED
    BY <1>4, <1>6, <1>7, <1>8, <1>9, <1>10, <1>11 DEF data

(* What handleWrite does to the stream, and what it keeps.                 *)
LEMMA WriteEffect ==
    ASSUME ConnInv, handleWrite
    PROVE  /\ wire' \in Seq(Bytes) /\ output' \in Seq(Bytes)
           /\ room' \in 0..Room
           /\ soError' \in BOOLEAN /\ fin' \in BOOLEAN
           /\ interest' \subseteq {"read", "write"}
           /\ pending' \in Seq(ValidFunctors(owner))
           /\ owner => ("write" \in interest' <=> output' # <<>>)
           /\ \/ UNCHANGED <<wire, output, fin>>
              \/ \E n \in 1..Len(output) :
                    /\ ~fin
                    /\ wire' = wire \o SubSeq(output, 1, n)
                    /\ output' = SubSeq(output, n + 1, Len(output))
                    /\ fin' = fin \/ (fin' = TRUE /\ output' = <<>>)
  <1>1. /\ output \in Seq(Bytes) /\ wire \in Seq(Bytes) /\ Len(output) \in Nat
        /\ room \in 0..Room /\ Room \in Nat
        /\ pending \in Seq(ValidFunctors(owner))
    BY ConnectionAssumption DEF ConnInv, TypeOK, QueuesOK, Bytes
  <1>2. PICK n \in IF isWriting THEN Written(Len(output)) ELSE {0} :
           LET rest == SubSeq(output, n + 1, Len(output))
           IN  /\ wire' = wire \o SubSeq(output, 1, n)
               /\ output' = rest
               /\ room' = room - n
               /\ soError' = (soError /\ ~isWriting)
               /\ IF n = 0
                  THEN UNCHANGED <<interest, pending, fin>>
                  ELSE /\ interest' = InterestAfterWrite(rest)
                       /\ pending' = pending
                             \o If(rest = <<>>, Functor("writeComplete", 0))
                       /\ fin' = FinAfterWrite(rest)
    BY DEF handleWrite
  <1> DEFINE rest == SubSeq(output, n + 1, Len(output))
  <1>3. n \in 0..Len(output) /\ n <= room /\ (fin => n = 0)
    <2>1. CASE isWriting
      <3>1. n \in Written(Len(output))
        BY <1>2, <2>1
      <3>2. room \in Nat
        BY <1>1
      <3> QED
        BY <1>1, <3>1, <3>2, WrittenBounds
    <2>2. CASE ~isWriting
      BY <1>1, <1>2, <2>2
    <2> QED
      BY <2>1, <2>2
  <1>4. /\ SubSeq(output, 1, n) \in Seq(Bytes) /\ rest \in Seq(Bytes)
        /\ n = 0 => SubSeq(output, 1, n) = <<>> /\ rest = output
    BY <1>1, <1>3, Cut
  <1> HIDE DEF rest
  <1>5. /\ wire' = wire \o SubSeq(output, 1, n) /\ output' = rest
        /\ room' = room - n /\ soError' = (soError /\ ~isWriting)
        /\ n = 0 => UNCHANGED <<interest, pending, fin>>
        /\ n # 0 => /\ interest' = InterestAfterWrite(rest)
                    /\ pending' = pending
                          \o If(rest = <<>>, Functor("writeComplete", 0))
                    /\ fin' = FinAfterWrite(rest)
    BY <1>2 DEF rest
  <1>6. wire' \in Seq(Bytes) /\ output' \in Seq(Bytes)
    BY <1>1, <1>4, <1>5, ConcatProperties
  <1>7. room' \in 0..Room /\ soError' \in BOOLEAN /\ fin' \in BOOLEAN
    <2>1. soError \in BOOLEAN /\ fin \in BOOLEAN
      BY DEF ConnInv, TypeOK
    <2>2. room' \in 0..Room
      BY <1>1, <1>3, <1>5
    <2>3. soError' \in BOOLEAN
      BY <1>5, <2>1
    <2>4. fin' \in BOOLEAN
      BY <1>5, <2>1 DEF FinAfterWrite
    <2> QED
      BY <2>2, <2>3, <2>4
  <1>8. interest' \subseteq {"read", "write"}
    <2>1. interest \subseteq {"read", "write"}
      BY DEF ConnInv, TypeOK
    <2>2. interest' = interest \/ interest' = interest \ {"write"}
      BY <1>5 DEF InterestAfterWrite
    <2> QED
      BY <2>1, <2>2
  <1>9. pending' \in Seq(ValidFunctors(owner))
    <2>1. CASE n = 0
      BY <1>1, <1>5, <2>1
    <2>2. CASE n # 0
      <3>1. pending' = pending \o If(rest = <<>>, Functor("writeComplete", 0))
        BY <1>5, <2>2
      <3>2. Functor("writeComplete", 0) \in ValidFunctors(owner)
        BY FunctorTypes
      <3>3. pending \o If(rest = <<>>, Functor("writeComplete", 0))
                \in Seq(ValidFunctors(owner))
        BY <1>1, <3>2, QueueWith
      <3> QED
        BY <3>1, <3>3
    <2> QED
      BY <2>1, <2>2
  <1>10. CASE n = 0
    <2>1. UNCHANGED <<wire, output, fin, interest>>
      BY <1>1, <1>4, <1>5, <1>10, ConcatEmptySeq
    <2> QED
      BY <1>6, <1>7, <1>8, <1>9, <2>1 DEF ConnInv, WritingIffWaiting, isWriting
  <1>11. CASE n # 0
    <2>1. isWriting /\ n \in 1..Len(output) /\ ~fin
      BY <1>1, <1>2, <1>3, <1>11
    <2>2. "write" \in interest' <=> output' # <<>>
      BY <1>5, <1>11, <2>1 DEF InterestAfterWrite, isWriting
    <2>3. fin' = fin \/ (fin' = TRUE /\ output' = <<>>)
      BY <1>5, <1>11 DEF FinAfterWrite, ConnInv, TypeOK
    <2>4. output' = SubSeq(output, n + 1, Len(output))
      BY <1>5 DEF rest
    <2> QED
      BY <1>5, <1>6, <1>7, <1>8, <1>9, <2>1, <2>2, <2>3, <2>4
  <1> QED
    BY <1>10, <1>11

-----------------------------------------------------------------------------
(* The steps.                                                              *)

LEMMA InitHolds == Init => ConnInv
  <1> SUFFICES ASSUME Init PROVE ConnInv
    OBVIOUS
  <1> USE ConnectionAssumption DEF Init
  <1>1. TypeOK
    <2>1. user \in [holds : BOOLEAN,
                   call : [at : {"idle", "send", "setState", "shutdown"},
                           msg : 0..MaxSends]]
      BY DEF NoCall
    <2>2. room \in 0..Room /\ sends \in 0..MaxSends
      OBVIOUS
    <2>3. output \in Seq(Bytes) /\ wire \in Seq(Bytes)
      OBVIOUS
    <2>4. phase = "functors" /\ revents \in Seq({"close", "error", "read", "write"})
      OBVIOUS
    <2>5. pending \in Seq(Functors) /\ batch \in Seq(Functors)
      OBVIOUS
    <2> QED
      BY <2>1, <2>2, <2>3, <2>4, <2>5 DEF TypeOK, Bytes
  <1>2. WritingIffWaiting
    BY DEF WritingIffWaiting, isWriting
  <1>3. QueuesOK
    BY DEF QueuesOK, NoCall
  <1>4. Fresh
    BY DEF Fresh, NoCall
  <1> QED
    BY <1>1, <1>2, <1>3, <1>4 DEF ConnInv

LEMMA EstablishHolds ==
    ASSUME ConnInv, connectEstablished
    PROVE  ConnInv'
  <1> USE DEF ConnInv, connectEstablished, loopVars, peerVars
  <1>1. TypeOK'
    <2> HIDE DEF ConnInv
    <2>1. TypeOK
      BY DEF ConnInv
    <2>2. user' \in [holds : BOOLEAN,
                    call : [at : {"idle", "send", "setState", "shutdown"},
                            msg : 0..MaxSends]]
      BY <2>1 DEF TypeOK
    <2> QED
      BY <2>1, <2>2 DEF TypeOK
  <1>2. WritingIffWaiting'
    BY DEF WritingIffWaiting, isWriting, Fresh
  <1>3. QueuesOK'
    BY DEF TypeOK, QueuesOK, Fresh, ValidFunctors
  <1>4. Fresh'
    BY DEF Fresh
  <1> QED
    BY <1>1, <1>2, <1>3, <1>4

LEMMA PollHolds ==
    ASSUME ConnInv, Poll
    PROVE  ConnInv'
  <1> USE DEF ConnInv, Poll, peerVars
  <1>1. Events \in Seq({"close", "error", "read", "write"})
    <2> DEFINE S == {"close", "error", "read", "write"}
    <2>1. /\ If(HangUp /\ ~Readable, "close") \in Seq(S)
          /\ If(soError, "error") \in Seq(S)
          /\ If(Readable, "read") \in Seq(S)
          /\ If(Writable, "write") \in Seq(S)
      <3>1. "close" \in S /\ "error" \in S /\ "read" \in S /\ "write" \in S
        OBVIOUS
      <3> QED
        BY <3>1, IfIsSeq
    <2> HIDE DEF S
    <2>2. \A s, u \in Seq(S) : s \o u \in Seq(S)
      BY ConcatProperties
    <2>3. Events \in Seq(S)
      BY <2>1, <2>2 DEF Events
    <2> QED
      BY <2>3 DEF S
  <1>2. TypeOK'
    BY <1>1 DEF TypeOK
  <1>3. WritingIffWaiting' /\ QueuesOK'
    BY DEF WritingIffWaiting, isWriting, QueuesOK, ValidFunctors
  <1>4. Fresh'
    BY DEF Fresh, Events
  <1> QED
    BY <1>2, <1>3, <1>4

LEMMA BatchHolds ==
    ASSUME ConnInv, SwapFunctors \/ FinishBatch
    PROVE  ConnInv'
  <1> USE DEF ConnInv, SwapFunctors, FinishBatch, peerVars
  <1>1. TypeOK'
    <2>1. CASE SwapFunctors
      BY <2>1 DEF TypeOK
    <2>2. CASE FinishBatch
      BY <2>2 DEF TypeOK
    <2> QED
      BY <2>1, <2>2
  <1>2. WritingIffWaiting' /\ QueuesOK'
    <2>1. CASE SwapFunctors
      BY <2>1 DEF WritingIffWaiting, isWriting, QueuesOK, ValidFunctors
    <2>2. CASE FinishBatch
      BY <2>2 DEF WritingIffWaiting, isWriting, QueuesOK, ValidFunctors
    <2> QED
      BY <2>1, <2>2
  <1>3. Fresh'
    BY DEF Fresh
  <1> QED
    BY <1>1, <1>2, <1>3

(* handleClose, and the variables that its callers keep.                   *)
LEMMA CloseEffect ==
    ASSUME ConnInv, handleClose
    PROVE  /\ state' = "disconnected" /\ interest' = {} /\ owner' = FALSE
           /\ pending' \in Seq(ValidFunctors(FALSE))
           /\ batch \in Seq(ValidFunctors(FALSE))
           /\ failed' \subseteq {55, 69, 123}
  <1>1. pending \in Seq(ValidFunctors(FALSE)) /\ batch \in Seq(ValidFunctors(FALSE))
    BY ValidWeakens DEF ConnInv, QueuesOK
  <1>2. Append(pending, Functor("connectDestroyed", 0)) \in Seq(ValidFunctors(FALSE))
    BY <1>1, FunctorTypes, AppendProperties
  <1> QED
    BY <1>1, <1>2 DEF handleClose, ConnInv, TypeOK

(* What the invariant asks of the variables that the handlers change, once *)
(* the connection is established.                                          *)
HandlerEffect ==
    /\ state' \in {"connected", "disconnecting", "disconnected"}
    /\ interest' \subseteq {"read", "write"}
    /\ output' \in Seq(Bytes) /\ wire' \in Seq(Bytes)
    /\ owner' \in BOOLEAN
    /\ pending' \in Seq(ValidFunctors(owner'))
    /\ batch \in Seq(ValidFunctors(owner'))
    /\ owner' => ("write" \in interest' <=> output' # <<>>)
    /\ inData' \in BOOLEAN /\ soError' \in BOOLEAN /\ fin' \in BOOLEAN
    /\ room' \in 0..Room
    /\ failed' \subseteq {55, 69, 123}

LEMMA EventEffect ==
    ASSUME ConnInv, handleEvent
    PROVE  HandlerEffect
  <1>1. state \in {"connected", "disconnecting", "disconnected"}
    BY DEF ConnInv, TypeOK, Fresh, handleEvent
  <1>2. /\ interest \subseteq {"read", "write"} /\ owner \in BOOLEAN
        /\ output \in Seq(Bytes) /\ wire \in Seq(Bytes)
        /\ inData \in BOOLEAN /\ soError \in BOOLEAN /\ fin \in BOOLEAN
        /\ room \in 0..Room /\ failed \subseteq {55, 69, 123}
    BY DEF ConnInv, TypeOK, Bytes
  <1>3. pending \in Seq(ValidFunctors(owner)) /\ batch \in Seq(ValidFunctors(owner))
    BY DEF ConnInv, QueuesOK
  <1>4. owner => ("write" \in interest <=> output # <<>>)
    BY DEF ConnInv, WritingIffWaiting, isWriting
  <1>5. revents # <<>> /\ revents \in Seq({"close", "error", "read", "write"})
    BY DEF handleEvent, ConnInv, TypeOK
  <1>6. Head(revents) \in {"close", "error", "read", "write"}
    BY <1>5, HeadTailProperties
  <1>7. CASE Head(revents) = "close"
    <2>1. handleClose /\ UNCHANGED <<output, inData, soError, room, fin, wire>>
      BY <1>7 DEF handleEvent
    <2> QED
      BY <1>2, <2>1, CloseEffect DEF HandlerEffect
  <1>8. CASE Head(revents) = "error"
    <2>1. handleError
      BY <1>8 DEF handleEvent
    <2> QED
      BY <1>1, <1>2, <1>3, <1>4, <2>1 DEF HandlerEffect, handleError
  <1>9. CASE Head(revents) = "read"
    <2>1. handleRead
      BY <1>9 DEF handleEvent
    <2>2. inData' \in BOOLEAN /\ soError' \in BOOLEAN
      BY <1>2, <2>1 DEF handleRead
    <2>3. UNCHANGED <<output, room, fin, wire>>
      BY <2>1 DEF handleRead
    <2>4. CASE handleClose
      BY <1>2, <2>2, <2>3, <2>4, CloseEffect DEF HandlerEffect
    <2>5. CASE UNCHANGED <<state, interest, owner, pending, failed>>
      BY <1>1, <1>2, <1>3, <1>4, <2>2, <2>3, <2>5 DEF HandlerEffect
    <2> QED
      BY <2>1, <2>4, <2>5 DEF handleRead
  <1>10. CASE Head(revents) = "write"
    <2>1. handleWrite
      BY <1>10 DEF handleEvent
    <2>2. UNCHANGED <<state, owner, inData, failed>>
      BY <2>1 DEF handleWrite
    <2> QED
      BY <1>1, <1>2, <1>3, <2>1, <2>2, WriteEffect DEF HandlerEffect
  <1> QED
    BY <1>6, <1>7, <1>8, <1>9, <1>10

LEMMA EventHolds ==
    ASSUME ConnInv, handleEvent
    PROVE  ConnInv'
  <1>1. HandlerEffect
    BY EventEffect
  <1>2. UNCHANGED <<registered, phase, batch, user, peer, sends, raced, late>>
    BY DEF handleEvent
  <1>3. TypeOK'
    <2>1. /\ phase = "dispatch"
          /\ revents' \in Seq({"close", "error", "read", "write"})
      BY HeadTailProperties DEF handleEvent, ConnInv, TypeOK
    <2>2. pending' \in Seq(Functors)
      BY <1>1, ValidWeakens DEF HandlerEffect
    <2> QED
      BY <1>1, <1>2, <2>1, <2>2 DEF HandlerEffect, ConnInv, TypeOK, Bytes
  <1>4. WritingIffWaiting'
    BY <1>1 DEF HandlerEffect, WritingIffWaiting, isWriting
  <1>5. QueuesOK'
    BY <1>1, <1>2 DEF HandlerEffect, ConnInv, QueuesOK, ValidFunctors
  <1>6. Fresh'
    BY <1>1 DEF HandlerEffect, Fresh
  <1> QED
    BY <1>3, <1>4, <1>5, <1>6 DEF ConnInv

(* The functor that runs next, and those that are left.                    *)
LEMMA HeadOfBatch ==
    ASSUME ConnInv, NEW call, NextFunctor(call)
    PROVE  /\ Head(batch) \in ValidFunctors(owner)
           /\ Head(batch).call = call
           /\ Tail(batch) \in Seq(ValidFunctors(owner))
           /\ batch' = Tail(batch)
           /\ phase = "functors" /\ revents = <<>>
           /\ state # "connecting"
           /\ UNCHANGED <<phase, revents, owner, user, peer, inData, sends, raced>>
  <1>1. batch # <<>> /\ batch \in Seq(ValidFunctors(owner))
    BY DEF NextFunctor, ConnInv, QueuesOK
  <1>2. Head(batch) \in ValidFunctors(owner) /\ Tail(batch) \in Seq(ValidFunctors(owner))
    BY <1>1, HeadTailProperties
  <1>3. phase = "functors" /\ revents = <<>> /\ state # "connecting"
    BY <1>1 DEF NextFunctor, ConnInv, TypeOK, Fresh
  <1> QED
    BY <1>2, <1>3 DEF NextFunctor, peerVars

(* ConnInv', from the variables that a functor changes.                    *)
LEMMA FunctorKeeps ==
    ASSUME ConnInv, NEW call, NextFunctor(call),
           state' \in {"connected", "disconnecting", "disconnected"},
           interest' \subseteq {"read", "write"}, registered' \in BOOLEAN,
           output' \in Seq(Bytes), wire' \in Seq(Bytes),
           pending' \in Seq(ValidFunctors(owner)),
           owner => ("write" \in interest' <=> output' # <<>>),
           soError' \in BOOLEAN, fin' \in BOOLEAN, late' \in BOOLEAN,
           room' \in 0..Room, failed' \subseteq {55, 69, 123}
    PROVE  ConnInv'
  <1>1. /\ batch' \in Seq(ValidFunctors(owner))
        /\ phase = "functors" /\ revents = <<>>
        /\ UNCHANGED <<phase, revents, owner, user, peer, inData, sends, raced>>
    BY HeadOfBatch
  <1>2. TypeOK'
    <2>1. pending' \in Seq(Functors) /\ batch' \in Seq(Functors)
      BY <1>1, ValidWeakens
    <2> QED
      BY <1>1, <2>1 DEF ConnInv, TypeOK, Bytes
  <1>3. WritingIffWaiting'
    BY <1>1 DEF WritingIffWaiting, isWriting
  <1>4. QueuesOK'
    BY <1>1 DEF ConnInv, QueuesOK, ValidFunctors
  <1>5. Fresh'
    BY DEF Fresh
  <1> QED
    BY <1>2, <1>3, <1>4, <1>5 DEF ConnInv

(* What ConnInv says of the variables, in the form of these lemmas.        *)
LEMMA Parts ==
    ASSUME ConnInv
    PROVE  /\ interest \subseteq {"read", "write"} /\ registered \in BOOLEAN
           /\ output \in Seq(Bytes) /\ wire \in Seq(Bytes)
           /\ pending \in Seq(ValidFunctors(owner))
           /\ owner => ("write" \in interest <=> output # <<>>)
           /\ soError \in BOOLEAN /\ fin \in BOOLEAN /\ late \in BOOLEAN
           /\ room \in 0..Room /\ failed \subseteq {55, 69, 123}
           /\ state # "connecting" =>
                 state \in {"connected", "disconnecting", "disconnected"}
  BY DEF ConnInv, TypeOK, QueuesOK, WritingIffWaiting, isWriting, Bytes

LEMMA SendFunctorHolds ==
    ASSUME ConnInv, RunSend
    PROVE  ConnInv'
  <1>1. NextFunctor("sendInLoop") /\ UNCHANGED <<state, registered, fin, failed>>
    BY DEF RunSend
  <1>2. Head(batch).msg \in 1..MaxSends /\ state # "connecting"
    <2>1. /\ Head(batch) \in ValidFunctors(owner)
          /\ Head(batch).call = "sendInLoop"
          /\ state # "connecting"
      BY <1>1, HeadOfBatch
    <2> QED
      BY <2>1, ConnectionAssumption DEF ValidFunctors, Functors
  <1>3. CASE Exists(batch \o pending)
    <2>1. sendInLoop(Message(Head(batch).msg))
      BY <1>3 DEF RunSend
    <2> DEFINE k == Head(batch).msg
    <2>2. k \in 1..MaxSends /\ sendInLoop(Message(k))
      BY <1>2, <2>1
    <2> HIDE DEF k
    <2>3. /\ wire' \in Seq(Bytes) /\ output' \in Seq(Bytes)
          /\ room' \in 0..Room
          /\ soError' \in BOOLEAN /\ late' \in BOOLEAN
          /\ interest' \subseteq {"read", "write"}
          /\ pending' \in Seq(ValidFunctors(owner))
          /\ owner => ("write" \in interest' <=> output' # <<>>)
      BY <2>2, SendEffect
    <2>4. /\ state' \in {"connected", "disconnecting", "disconnected"}
          /\ registered' \in BOOLEAN /\ fin' \in BOOLEAN
          /\ failed' \subseteq {55, 69, 123}
      BY <1>1, <1>2, Parts
    <2> QED
      BY <1>1, <2>3, <2>4, FunctorKeeps
  <1>4. CASE ~Exists(batch \o pending)
    <2>1. /\ late' \in BOOLEAN
          /\ UNCHANGED <<interest, output, pending, soError, room, wire>>
      BY <1>4 DEF RunSend
    <2> QED
      BY <1>1, <1>2, <2>1, Parts, FunctorKeeps
  <1> QED
    BY <1>3, <1>4

LEMMA OtherFunctorsHold ==
    ASSUME ConnInv, RunShutdown \/ connectDestroyed \/ RunCallback
    PROVE  ConnInv'
  <1>1. CASE RunShutdown
    <2>1. /\ NextFunctor("shutdownInLoop")
          /\ UNCHANGED <<state, interest, registered, output, pending, soError,
                         room, wire, failed>>
      BY <1>1 DEF RunShutdown
    <2>2. fin' \in BOOLEAN /\ late' \in BOOLEAN
      BY <1>1, Parts DEF RunShutdown, shutdownInLoop
    <2>3. state # "connecting"
      BY <2>1, HeadOfBatch
    <2> QED
      BY <2>1, <2>2, <2>3, Parts, FunctorKeeps
  <1>2. CASE connectDestroyed
    <2>1. /\ NextFunctor("connectDestroyed")
          /\ state' = "disconnected" /\ interest' = {} /\ registered' = FALSE
          /\ failed' \subseteq {55, 69, 123}
          /\ UNCHANGED <<output, pending, soError, room, fin, wire, late>>
      BY <1>2, Parts DEF connectDestroyed
    <2>2. ~owner
      BY <2>1, HeadOfBatch DEF ValidFunctors
    <2> QED
      BY <2>1, <2>2, Parts, FunctorKeeps
  <1>3. CASE RunCallback
    <2>1. /\ UNCHANGED <<state, interest, registered, output, pending, soError,
                         room, fin, wire, late>>
          /\ failed' \subseteq {55, 69, 123}
      BY <1>3, Parts DEF RunCallback, Destructor
    <2>2. PICK call \in {"writeComplete", "highWaterMark"} : NextFunctor(call)
      BY <1>3 DEF RunCallback
    <2>3. state # "connecting"
      BY <2>2, HeadOfBatch
    <2> QED
      BY <2>1, <2>2, <2>3, Parts, FunctorKeeps
  <1> QED
    BY <1>1, <1>2, <1>3

LEMMA SendHereHolds ==
    ASSUME ConnInv, SendHere
    PROVE  ConnInv'
  <1>1. /\ state = "connected" /\ sends + 1 \in 1..MaxSends /\ sends' = sends + 1
        /\ sendInLoop(Message(sends + 1))
        /\ UNCHANGED <<state, fin, registered, phase, revents, batch, owner, user,
                       peer, inData, raced, failed>>
    BY ConnectionAssumption DEF SendHere, InCallback, ConnInv, TypeOK, loopVars, peerVars
  <1> DEFINE k == sends + 1
  <1>2. k \in 1..MaxSends /\ sendInLoop(Message(k))
    BY <1>1
  <1> HIDE DEF k
  <1>3. /\ wire' \in Seq(Bytes) /\ output' \in Seq(Bytes)
        /\ room' \in 0..Room
        /\ soError' \in BOOLEAN /\ late' \in BOOLEAN
        /\ interest' \subseteq {"read", "write"}
        /\ pending' \in Seq(ValidFunctors(owner))
        /\ owner => ("write" \in interest' <=> output' # <<>>)
    BY <1>2, SendEffect
  <1>4. TypeOK'
    <2>1. pending' \in Seq(Functors)
      BY <1>3, ValidWeakens
    <2>2. sends' \in 0..MaxSends
      BY <1>1, ConnectionAssumption
    <2> QED
      BY <1>1, <1>3, <2>1, <2>2 DEF ConnInv, TypeOK, Bytes
  <1>5. WritingIffWaiting'
    BY <1>1, <1>3 DEF WritingIffWaiting, isWriting
  <1>6. QueuesOK'
    BY <1>1, <1>3 DEF ConnInv, QueuesOK, ValidFunctors
  <1>7. Fresh'
    BY <1>1 DEF Fresh
  <1> QED
    BY <1>4, <1>5, <1>6, <1>7 DEF ConnInv

LEMMA ShutdownHereHolds ==
    ASSUME ConnInv, ShutdownHere
    PROVE  ConnInv'
  <1> USE DEF ConnInv, ShutdownHere, InCallback, loopVars, peerVars
  <1>1. TypeOK'
    BY DEF TypeOK, shutdownInLoop
  <1>2. WritingIffWaiting' /\ QueuesOK'
    BY DEF WritingIffWaiting, isWriting, QueuesOK, ValidFunctors
  <1>3. Fresh'
    BY DEF Fresh
  <1> QED
    BY <1>1, <1>2, <1>3

(* The call that the other thread is in.                                   *)
LEMMA CallType ==
    ASSUME ConnInv, NEW at \in {"idle", "send", "setState", "shutdown"},
           NEW msg \in 0..MaxSends, at = "send" => msg # 0,
           user' = [user EXCEPT !.call = [at |-> at, msg |-> msg]]
    PROVE  /\ user' \in [holds : BOOLEAN,
                         call : [at : {"idle", "send", "setState", "shutdown"},
                                 msg : 0..MaxSends]]
           /\ user'.call.at = "send" => user'.call.msg # 0
  <1> DEFINE c == [at |-> at, msg |-> msg]
  <1>1. /\ c \in [at : {"idle", "send", "setState", "shutdown"}, msg : 0..MaxSends]
        /\ c.at = "send" => c.msg # 0
    OBVIOUS
  <1>2. user' = [user EXCEPT !.call = c]
    OBVIOUS
  <1> HIDE DEF c
  <1>3. user \in [holds : BOOLEAN,
                 call : [at : {"idle", "send", "setState", "shutdown"},
                         msg : 0..MaxSends]]
    BY DEF ConnInv, TypeOK
  <1>4. user'.call = c
    BY <1>2, <1>3
  <1> QED
    BY <1>1, <1>2, <1>3, <1>4

(* The other thread's steps.                                               *)
LEMMA UserHolds ==
    ASSUME ConnInv,
           \/ BeginSend \/ QueueSend \/ BeginShutdown \/ SetDisconnecting
           \/ QueueShutdown \/ Release
    PROVE  ConnInv'
  <1>1. /\ UNCHANGED <<interest, registered, output, phase, revents, batch, owner,
                       peer, inData, soError, room, fin, wire, late>>
        /\ state # "connecting"
    BY DEF BeginSend, QueueSend, BeginShutdown, SetDisconnecting, QueueShutdown,
       Release, UserStep, ConnInv, Fresh, loopVars, peerVars
  <1>2. /\ state' \in {"connected", "disconnecting", "disconnected"}
        /\ raced' \in BOOLEAN /\ sends' \in 0..MaxSends
        /\ failed' \subseteq {55, 69, 123}
    <2>1. /\ raced \in BOOLEAN /\ owner \in BOOLEAN /\ sends \in 0..MaxSends
          /\ failed \subseteq {55, 69, 123}
          /\ state \in {"connected", "disconnecting", "disconnected"}
      BY <1>1 DEF ConnInv, TypeOK
    <2>2. state' = state \/ state' = "disconnecting"
      BY DEF BeginSend, QueueSend, BeginShutdown, SetDisconnecting, QueueShutdown,
         Release
    <2>3. raced' = raced \/ Races
      BY DEF BeginSend, QueueSend, BeginShutdown, SetDisconnecting, QueueShutdown,
         Release
    <2>4. raced' \in BOOLEAN
      BY <2>1, <2>3 DEF Races
    <2>5. sends' = sends \/ (sends < MaxSends /\ sends' = sends + 1)
      BY DEF BeginSend, QueueSend, BeginShutdown, SetDisconnecting, QueueShutdown,
         Release
    <2>6. failed' = failed \/ failed' = failed \union Destructor
      BY DEF BeginSend, QueueSend, BeginShutdown, SetDisconnecting, QueueShutdown,
         Release
    <2>7. sends' \in 0..MaxSends
      BY <2>1, <2>5, ConnectionAssumption
    <2> QED
      BY <2>1, <2>2, <2>4, <2>6, <2>7 DEF Destructor
  <1>3. /\ user' \in [holds : BOOLEAN,
                      call : [at : {"idle", "send", "setState", "shutdown"},
                              msg : 0..MaxSends]]
        /\ user'.call.at = "send" => user'.call.msg # 0
    <2>1. sends \in 0..MaxSends /\ MaxSends \in Nat /\ 0 \in 0..MaxSends
      BY ConnectionAssumption DEF ConnInv, TypeOK
    <2>2. CASE BeginSend
      <3> DEFINE k == sends + 1
      <3>1. k \in 0..MaxSends /\ k # 0
        BY <2>1, <2>2 DEF BeginSend
      <3>2. user' = [user EXCEPT !.call = [at |-> "send", msg |-> k]]
        BY <2>2 DEF BeginSend
      <3> HIDE DEF k
      <3> QED
        BY <3>1, <3>2, CallType
    <2>3. CASE QueueSend \/ QueueShutdown
      <3>1. user' = [user EXCEPT !.call = [at |-> "idle", msg |-> 0]]
        BY <2>3 DEF QueueSend, QueueShutdown, NoCall
      <3> QED
        BY <2>1, <3>1, CallType
    <2>4. CASE BeginShutdown
      <3>1. user' = [user EXCEPT !.call = [at |-> "setState", msg |-> 0]]
        BY <2>4 DEF BeginShutdown
      <3> QED
        BY <2>1, <3>1, CallType
    <2>5. CASE SetDisconnecting
      <3>1. user' = [user EXCEPT !.call = [at |-> "shutdown", msg |-> 0]]
        BY <2>5 DEF SetDisconnecting
      <3> QED
        BY <2>1, <3>1, CallType
    <2>6. CASE Release
      BY <2>6 DEF Release, UserStep, ConnInv, TypeOK, QueuesOK
    <2> QED
      BY <2>2, <2>3, <2>4, <2>5, <2>6
  <1>4. pending' \in Seq(ValidFunctors(owner))
    <2>1. pending \in Seq(ValidFunctors(owner))
      BY DEF ConnInv, QueuesOK
    <2>2. CASE UNCHANGED pending
      BY <2>1, <2>2
    <2>3. CASE QueueSend
      <3>1. user.call.msg \in 1..MaxSends
        BY <2>3 DEF QueueSend, UserStep, ConnInv, TypeOK, QueuesOK
      <3>2. Functor("sendInLoop", user.call.msg) \in ValidFunctors(owner)
        BY <3>1, FunctorTypes
      <3> QED
        BY <2>1, <2>3, <3>2, AppendProperties DEF QueueSend
    <2>4. CASE QueueShutdown
      <3>1. Functor("shutdownInLoop", 0) \in ValidFunctors(owner)
        BY FunctorTypes
      <3> QED
        BY <2>1, <2>4, <3>1, AppendProperties DEF QueueShutdown
    <2> QED
      BY <2>2, <2>3, <2>4 DEF BeginSend, BeginShutdown, SetDisconnecting, Release
  <1>5. TypeOK'
    <2>1. pending' \in Seq(Functors)
      BY <1>4, ValidWeakens
    <2> QED
      BY <1>1, <1>2, <1>3, <2>1 DEF ConnInv, TypeOK
  <1>6. WritingIffWaiting'
    BY <1>1 DEF ConnInv, WritingIffWaiting, isWriting
  <1>7. QueuesOK'
    BY <1>1, <1>3, <1>4 DEF ConnInv, QueuesOK, ValidFunctors
  <1>8. Fresh'
    BY <1>2 DEF Fresh
  <1> QED
    BY <1>5, <1>6, <1>7, <1>8 DEF ConnInv

LEMMA PeerHolds ==
    ASSUME ConnInv,
           PeerReads \/ PeerSends \/ PeerCloses \/ PeerResets \/ UNCHANGED vars
    PROVE  ConnInv'
  <1>1. UNCHANGED <<state, interest, registered, output, phase, revents, batch,
                    pending, owner, user, fin, wire, sends, raced, failed, late>>
    BY DEF PeerReads, PeerSends, PeerCloses, PeerResets, PeerStep, vars, loopVars
  <1>2. /\ peer' \in {"open", "closed", "reset"} /\ inData' \in BOOLEAN
        /\ soError' \in BOOLEAN /\ room' \in 0..Room
    <2>1. /\ peer \in {"open", "closed", "reset"} /\ inData \in BOOLEAN
          /\ soError \in BOOLEAN /\ room \in 0..Room /\ Room \in 0..Room
      BY ConnectionAssumption DEF ConnInv, TypeOK
    <2>2. CASE PeerReads
      BY <2>1, <2>2 DEF PeerReads, peerVars
    <2>3. CASE PeerSends
      BY <2>1, <2>3 DEF PeerSends
    <2>4. CASE PeerCloses
      BY <2>1, <2>4 DEF PeerCloses
    <2>5. CASE PeerResets
      BY <2>1, <2>5 DEF PeerResets
    <2>6. CASE UNCHANGED vars
      BY <2>1, <2>6 DEF vars, peerVars
    <2> QED
      BY <2>2, <2>3, <2>4, <2>5, <2>6
  <1>3. TypeOK'
    BY <1>1, <1>2 DEF ConnInv, TypeOK
  <1>4. WritingIffWaiting' /\ QueuesOK'
    BY <1>1 DEF ConnInv, WritingIffWaiting, isWriting, QueuesOK, ValidFunctors
  <1>5. Fresh'
    BY <1>1 DEF ConnInv, Fresh
  <1> QED
    BY <1>3, <1>4, <1>5 DEF ConnInv

LEMMA NextHolds == ConnInv /\ [Next]_vars => ConnInv'
  <1> SUFFICES ASSUME ConnInv, [Next]_vars PROVE ConnInv'
    OBVIOUS
  <1>1. CASE LoopStep
    BY <1>1, PollHolds, EventHolds, BatchHolds, SendFunctorHolds,
       OtherFunctorsHold DEF LoopStep
  <1>2. CASE BeginSend \/ BeginShutdown \/ Queue \/ Release
    BY <1>2, UserHolds DEF Queue
  <1> QED
    BY <1>1, <1>2, EstablishHolds, SendHereHolds, ShutdownHereHolds, PeerHolds
    DEF Next

LEMMA ConnInvAlways == Spec => []ConnInv
  BY InitHolds, NextHolds, PTL DEF Spec

(* tcpconnection.cc: every variable keeps its type, and the handlers and   *)
(* functors that are left over from one part of the loop never reach the   *)
(* next.                                                                   *)
THEOREM Typing == Spec => []TypeOK
  <1>1. ConnInv => TypeOK
    BY DEF ConnInv
  <1> QED
    BY <1>1, ConnInvAlways, PTL

(* sendInLoop and handleWrite enable and disable POLLOUT so that, while    *)
(* the connection has its owner, the channel is writing exactly while the  *)
(* output buffer holds bytes.                                              *)
THEOREM PolloutWhileBytesWait == Spec => []WritingIffWaiting
  <1>1. ConnInv => WritingIffWaiting
    BY DEF ConnInv
  <1> QED
    BY <1>1, ConnInvAlways, PTL

-----------------------------------------------------------------------------
(* The connection is an OutputStream.                                      *)

LEMMA InitRefines == Init => OS!Init
  BY DEF Init, OS!Init

LEMMA SendRefines ==
    ASSUME ConnInv, NEW k \in 1..MaxSends, sendInLoop(Message(k)), UNCHANGED <<fin, owner>>
    PROVE  OS!Next
  <1>1. PICK n \in 0..(Len(output) + Len(Message(k))) :
           /\ fin => n = 0
           /\ wire' = wire \o SubSeq(output \o Message(k), 1, n)
           /\ output' = SubSeq(output \o Message(k), n + 1, Len(output \o Message(k)))
    BY SendEffect
  <1>2. OS!Accept(Message(k))
    BY <1>1 DEF OS!Accept, OS!Transfer
  <1> QED
    BY <1>2 DEF OS!Next

LEMMA WriteRefines ==
    ASSUME ConnInv, handleWrite
    PROVE  OS!Next \/ UNCHANGED <<output, wire, fin, owner>>
  <1>1. UNCHANGED owner
    BY DEF handleWrite
  <1>2. CASE UNCHANGED <<wire, output, fin>>
    BY <1>1, <1>2
  <1>3. ASSUME NEW n \in 1..Len(output),
               ~fin,
               wire' = wire \o SubSeq(output, 1, n),
               output' = SubSeq(output, n + 1, Len(output)),
               fin' = fin \/ (fin' = TRUE /\ output' = <<>>)
        PROVE  OS!Next
    <2>1. OS!Transfer(output, n)
      BY <1>3 DEF OS!Transfer
    <2>2. OS!Write
      BY <1>1, <1>3, <2>1 DEF OS!Write
    <2> QED
      BY <2>2 DEF OS!Next
  <1> QED
    BY <1>2, <1>3, WriteEffect

LEMMA EventRefines ==
    ASSUME ConnInv, handleEvent
    PROVE  OS!Next \/ UNCHANGED <<output, wire, fin, owner>>
  <1>1. ASSUME handleClose, UNCHANGED <<output, wire, fin>> PROVE OS!Next
    BY <1>1 DEF handleClose, OS!Lose, OS!Next
  <1>2. \/ handleClose /\ UNCHANGED <<output, wire, fin>>
        \/ UNCHANGED <<output, wire, fin, owner>>
        \/ handleWrite
    <2>1. Head(revents) \in {"close", "error", "read", "write"}
      BY HeadTailProperties DEF handleEvent, ConnInv, TypeOK
    <2> QED
      BY <2>1 DEF handleEvent, handleError, handleRead
  <1> QED
    BY <1>1, <1>2, WriteRefines

(* shutdownInLoop shuts the socket only while it is not writing, and then  *)
(* nothing waits: this is what the interest in POLLOUT is needed for.      *)
LEMMA ShutdownRefines ==
    ASSUME ConnInv, shutdownInLoop, UNCHANGED <<output, wire, owner>>
    PROVE  OS!Next \/ UNCHANGED <<output, wire, fin, owner>>
  <1>1. CASE isWriting
    BY <1>1 DEF shutdownInLoop, ConnInv, TypeOK
  <1>2. CASE ~isWriting
    <2>1. fin' = TRUE
      BY <1>2 DEF shutdownInLoop
    <2>2. output = <<>> \/ ~owner
      BY <1>2 DEF ConnInv, WritingIffWaiting
    <2> QED
      BY <2>1, <2>2 DEF OS!ShutDown, OS!Next
  <1> QED
    BY <1>1, <1>2

LEMMA StepRefines ==
    ConnInv /\ [Next]_vars => [OS!Next]_<<output, wire, fin, ~owner>>
  <1> SUFFICES ASSUME ConnInv, [Next]_vars
               PROVE  OS!Next \/ UNCHANGED <<output, wire, fin, owner>>
    OBVIOUS
  <1>1. CASE RunSend
    <2>1. NextFunctor("sendInLoop") /\ UNCHANGED <<fin, owner>>
      BY <1>1 DEF RunSend, NextFunctor
    <2> DEFINE k == Head(batch).msg
    <2>2. k \in 1..MaxSends
      <3>1. Head(batch) \in ValidFunctors(owner) /\ Head(batch).call = "sendInLoop"
        BY <2>1, HeadOfBatch
      <3> QED
        BY <3>1, ConnectionAssumption DEF ValidFunctors, Functors
    <2>3. sendInLoop(Message(k)) \/ UNCHANGED <<output, wire>>
      BY <1>1 DEF RunSend
    <2> HIDE DEF k
    <2> QED
      BY <2>1, <2>2, <2>3, SendRefines
  <1>2. CASE SendHere
    <2> DEFINE k == sends + 1
    <2>1. k \in 1..MaxSends /\ sendInLoop(Message(k)) /\ UNCHANGED <<fin, owner>>
      BY <1>2, ConnectionAssumption DEF SendHere, InCallback, ConnInv, TypeOK
    <2> HIDE DEF k
    <2> QED
      BY <2>1, SendRefines
  <1>3. CASE RunShutdown \/ ShutdownHere
    BY <1>3, ShutdownRefines DEF RunShutdown, ShutdownHere, InCallback, NextFunctor
  <1>4. CASE \/ connectEstablished \/ Poll \/ SwapFunctors \/ FinishBatch
             \/ connectDestroyed \/ RunCallback
    BY <1>4 DEF connectEstablished, Poll, SwapFunctors, FinishBatch,
       connectDestroyed, RunCallback, NextFunctor
  <1>5. CASE \/ BeginSend \/ BeginShutdown \/ Queue \/ Release \/ PeerReads
             \/ PeerSends \/ PeerCloses \/ PeerResets \/ UNCHANGED vars
    BY <1>5 DEF BeginSend, BeginShutdown, Queue, QueueSend, SetDisconnecting,
       QueueShutdown, Release, UserStep, PeerReads, PeerSends, PeerCloses,
       PeerResets, PeerStep, vars
  <1> QED
    BY <1>1, <1>2, <1>3, <1>4, <1>5, EventRefines DEF Next, LoopStep

(* tcpconnection.cc: the bytes reach the socket in the order in which      *)
(* sendInLoop accepted them, each once, through direct, partial and failed *)
(* writes, and unless the connection is lost the socket is shut down for   *)
(* writing only when the output buffer is empty.                           *)
THEOREM ConnectionImplementsOutputStream == Spec => ImplementsOutputStream
  <1>1. Init /\ [][Next]_vars /\ []ConnInv => OS!Init /\ [][OS!Next]_(OS!vars)
    BY InitRefines, StepRefines, PTL DEF OS!vars
  <1> QED
    BY <1>1, ConnInvAlways, PTL DEF Spec, ImplementsOutputStream, OS!Spec

-----------------------------------------------------------------------------
(* Who keeps the object while functors that are bound to it wait.          *)

(* The handlers that may call handleClose, and the functors that hold no   *)
(* pointer to the connection.                                              *)
Closing == {"close", "read"}
Bare == {"sendInLoop", "shutdownInLoop"}

Without(calls, functors) == \A i \in DOMAIN functors : functors[i].call \notin calls

(* connectDestroyed is there once, behind every other functor.             *)
DestroyedLast(functors) ==
    /\ functors # <<>>
    /\ functors[Len(functors)].call = "connectDestroyed"
    /\ \A i \in DOMAIN functors :
          functors[i].call = "connectDestroyed" => i = Len(functors)

(* Of the handlers that one poll calls for, one may close the connection.  *)
ClosesOnce ==
    \A i, j \in DOMAIN revents :
        revents[i] \in Closing /\ revents[j] \in Closing => i = j

(* With its owner the connection is up, and registered once established.   *)
Owned ==
    /\ state # "disconnected"
    /\ registered <=> state # "connecting"

(* Without it, connectDestroyed is on its way, behind what was queued      *)
(* before the close, and arrives before the next poll; what comes after it *)
(* holds a pointer of its own.                                             *)
NoneLeft(functors) == Without(Bare \union {"connectDestroyed"}, functors)

Disowned ==
    /\ state = "disconnected"
    /\ \A i \in DOMAIN revents : revents[i] \notin Closing
    /\ phase = "poll" => ~registered
    /\ phase # "dispatch" => NoneLeft(pending)
    /\ registered /\ phase = "dispatch" => interest = {} /\ DestroyedLast(pending)
    /\ registered /\ phase = "functors" => DestroyedLast(batch)
    /\ ~registered => NoneLeft(pending) /\ NoneLeft(batch)

RaceInv ==
    ~raced =>
        /\ ~late /\ failed \subseteq {69}
        /\ ClosesOnce
        /\ owner => Owned
        /\ ~owner => Disowned


(* A functor leaves the front of a batch or joins the end of a queue.      *)
LEMMA TailOf ==
    ASSUME NEW S, NEW q \in Seq(S), q # <<>>
    PROVE  /\ Tail(q) \in Seq(S) /\ DOMAIN Tail(q) = 1..(Len(q) - 1)
           /\ DOMAIN q = 1..Len(q) /\ Len(q) \in Nat \ {0}
           /\ Len(Tail(q)) = Len(q) - 1
           /\ Head(q) = q[1]
           /\ \A i \in 1..(Len(q) - 1) : Tail(q)[i] = q[i + 1]
  OBVIOUS

LEMMA TailWithout ==
    ASSUME NEW S, NEW q \in Seq(S), q # <<>>, NEW calls, Without(calls, q)
    PROVE  Without(calls, Tail(q))
  BY TailOf DEF Without

LEMMA JoinWithout ==
    ASSUME NEW S, NEW q \in Seq(S), NEW f \in S, NEW condition, NEW calls,
           Without(calls, q), f.call \notin calls
    PROVE  Without(calls, q \o If(condition, f)) /\ q \o If(condition, f) \in Seq(S)
  <1>1. CASE condition
    <2>1. If(condition, f) = <<f>>
      BY <1>1 DEF If
    <2>2. /\ q \o <<f>> \in Seq(S) /\ Len(q) \in Nat
          /\ DOMAIN (q \o <<f>>) = 1..(Len(q) + 1)
          /\ \A i \in 1..Len(q) : (q \o <<f>>)[i] = q[i]
          /\ (q \o <<f>>)[Len(q) + 1] = f
      OBVIOUS
    <2> QED
      BY <2>1, <2>2 DEF Without
  <1>2. CASE ~condition
    <2>1. q \o If(condition, f) = q
      BY <1>2 DEF If
    <2> QED
      BY <2>1
  <1> QED
    BY <1>1, <1>2

LEMMA TailDestroyed ==
    ASSUME NEW S, NEW q \in Seq(S), DestroyedLast(q)
    PROVE  /\ Head(q).call # "connectDestroyed" => DestroyedLast(Tail(q))
           /\ Head(q).call = "connectDestroyed" => Tail(q) = <<>>
  <1>1. q # <<>>
    BY DEF DestroyedLast
  <1>2. /\ Tail(q) \in Seq(S) /\ DOMAIN Tail(q) = 1..(Len(q) - 1)
        /\ DOMAIN q = 1..Len(q) /\ Len(q) \in Nat \ {0}
        /\ Len(Tail(q)) = Len(q) - 1
        /\ Head(q) = q[1]
        /\ \A i \in 1..(Len(q) - 1) : Tail(q)[i] = q[i + 1]
    BY <1>1, TailOf
  <1>3. CASE Head(q).call = "connectDestroyed"
    <2>1. Len(q) = 1
      BY <1>2, <1>3 DEF DestroyedLast
    <2> QED
      BY <1>2, <1>3, <2>1, EmptySeq
  <1>4. CASE Head(q).call # "connectDestroyed"
    <2>1. Len(q) # 1
      BY <1>2, <1>4 DEF DestroyedLast
    <2>2. Tail(q) # <<>> /\ Tail(q)[Len(Tail(q))].call = "connectDestroyed"
      BY <1>2, <2>1 DEF DestroyedLast
    <2>3. \A i \in DOMAIN Tail(q) :
             Tail(q)[i].call = "connectDestroyed" => i = Len(Tail(q))
      BY <1>2 DEF DestroyedLast
    <2> QED
      BY <1>4, <2>2, <2>3 DEF DestroyedLast
  <1> QED
    BY <1>3, <1>4

LEMMA AppendDestroyed ==
    ASSUME NEW S, NEW q \in Seq(S), Without({"connectDestroyed"}, q),
           NEW f, f.call = "connectDestroyed"
    PROVE  DestroyedLast(Append(q, f))
  <1>1. /\ Len(q) \in Nat /\ DOMAIN q = 1..Len(q)
        /\ Len(Append(q, f)) = Len(q) + 1
        /\ DOMAIN Append(q, f) = 1..(Len(q) + 1)
        /\ \A i \in 1..Len(q) : Append(q, f)[i] = q[i]
        /\ Append(q, f)[Len(q) + 1] = f
        /\ Append(q, f) # <<>>
    OBVIOUS
  <1> QED
    BY <1>1 DEF DestroyedLast, Without

(* While the owner is there nothing destroys the connection.               *)
LEMMA OwnedQueues ==
    ASSUME ConnInv, owner
    PROVE  /\ Without({"connectDestroyed"}, pending)
           /\ Without({"connectDestroyed"}, batch)
  <1>1. ASSUME NEW q \in Seq(ValidFunctors(TRUE)), NEW i \in DOMAIN q
        PROVE  q[i].call # "connectDestroyed"
    <2>1. q[i] \in ValidFunctors(TRUE)
      <3>1. \A S : \A s \in Seq(S) : \A k \in DOMAIN s : s[k] \in S
        OBVIOUS
      <3> QED
        BY <3>1
    <2> QED
      BY <2>1 DEF ValidFunctors
  <1>2. pending \in Seq(ValidFunctors(TRUE)) /\ batch \in Seq(ValidFunctors(TRUE))
    BY DEF ConnInv, QueuesOK, TypeOK
  <1> QED
    BY <1>1, <1>2 DEF Without

LEMMA QueueTypes ==
    ASSUME ConnInv
    PROVE  /\ pending \in Seq(Functors) /\ batch \in Seq(Functors)
           /\ revents \in Seq({"close", "error", "read", "write"})
           /\ owner \in BOOLEAN /\ registered \in BOOLEAN /\ late \in BOOLEAN
           /\ raced \in BOOLEAN
  BY DEF ConnInv, TypeOK

(* What is queued beside the calls of the other thread keeps the object.   *)
LEMMA CallbacksHold ==
    ASSUME NEW q \in Seq(Functors), NEW b, NEW c, NoneLeft(q)
    PROVE  NoneLeft(q \o If(b, Functor("writeComplete", 0))
                      \o If(c, Functor("highWaterMark", 0)))
  <1>1. /\ Functor("writeComplete", 0) \in Functors
        /\ Functor("highWaterMark", 0) \in Functors
        /\ Functor("writeComplete", 0).call \notin Bare \union {"connectDestroyed"}
        /\ Functor("highWaterMark", 0).call \notin Bare \union {"connectDestroyed"}
    BY ConnectionAssumption DEF Functors, Functor, Bare
  <1> QED
    BY <1>1, JoinWithout DEF NoneLeft

-----------------------------------------------------------------------------
(* The steps keep RaceInv.                                                 *)

LEMMA InitRace == Init => RaceInv
  BY DEF Init, RaceInv, ClosesOnce, Owned

(* Nothing takes a race back.                                              *)
LEMMA RacedStays ==
    ASSUME raced, [Next]_vars
    PROVE  raced'
  <1>1. CASE LoopStep
    BY <1>1 DEF LoopStep, Poll, handleEvent, SwapFunctors, FinishBatch, RunSend,
       RunShutdown, connectDestroyed, RunCallback, NextFunctor
  <1>2. CASE Queue
    BY <1>2 DEF Queue, QueueSend, SetDisconnecting, QueueShutdown, Races
  <1> QED
    BY <1>1, <1>2 DEF Next, connectEstablished, SendHere, ShutdownHere, InCallback,
       BeginSend, BeginShutdown, Release, PeerReads, PeerSends, PeerCloses, PeerResets,
       PeerStep, vars

(* The handlers that one poll reports close the connection once.           *)
LEMMA EventsCloseOnce ==
    \A i, j \in DOMAIN Events : Events[i] \in Closing /\ Events[j] \in Closing => i = j
  <1>1. CASE ~registered \/ interest = {}
    BY <1>1 DEF Events
  <1>2. CASE registered /\ interest # {} /\ Readable
    <2>1. Events = If(soError, "error") \o <<"read">> \o If(Writable, "write")
      BY <1>2 DEF Events, If
    <2> QED
      BY <2>1 DEF If, Closing
  <1>3. CASE registered /\ interest # {} /\ ~Readable
    <2>1. Events = If(HangUp, "close") \o If(soError, "error") \o If(Writable, "write")
      BY <1>3 DEF Events, If
    <2> QED
      BY <2>1 DEF If, Closing
  <1> QED
    BY <1>1, <1>2, <1>3

LEMMA PollRace ==
    ASSUME ConnInv, RaceInv, ~raced, Poll
    PROVE  RaceInv'
  <1>1. /\ phase = "poll" /\ phase' = "dispatch" /\ revents' = Events
        /\ UNCHANGED <<state, registered, interest, pending, batch, owner, raced,
                       failed, late>>
    BY DEF Poll
  <1>2. ClosesOnce'
    BY <1>1, EventsCloseOnce DEF ClosesOnce
  <1>3. owner => Owned'
    BY <1>1 DEF RaceInv, Owned
  <1>4. ASSUME ~owner PROVE Disowned'
    <2>1. ~registered /\ revents' = <<>>
      BY <1>1, <1>4 DEF RaceInv, Disowned, Events
    <2> QED
      BY <1>1, <1>4, <2>1 DEF RaceInv, Disowned, NoneLeft, Without
  <1> QED
    BY <1>1, <1>2, <1>3, <1>4 DEF RaceInv

LEMMA BatchRace ==
    ASSUME ConnInv, RaceInv, ~raced, SwapFunctors \/ FinishBatch
    PROVE  RaceInv'
  <1>1. UNCHANGED <<state, registered, interest, revents, owner, raced, failed, late>>
    BY DEF SwapFunctors, FinishBatch
  <1>2. ClosesOnce'
    BY <1>1 DEF RaceInv, ClosesOnce
  <1>3. owner => Owned'
    BY <1>1 DEF RaceInv, Owned
  <1>4. ASSUME ~owner PROVE Disowned'
    <2>1. Disowned
      BY <1>4 DEF RaceInv
    <2>2. CASE SwapFunctors
      <3>1. /\ phase = "dispatch" /\ phase' = "functors"
            /\ batch' = pending /\ pending' = <<>>
        BY <2>2 DEF SwapFunctors
      <3>2. NoneLeft(pending)'
        BY <3>1 DEF NoneLeft, Without
      <3>3. registered => DestroyedLast(batch)'
        BY <2>1, <3>1 DEF Disowned, DestroyedLast
      <3>4. ~registered => NoneLeft(batch)'
        BY <2>1, <3>1 DEF Disowned, NoneLeft, Without
      <3> QED
        BY <1>1, <2>1, <3>1, <3>2, <3>3, <3>4 DEF Disowned
    <2>3. CASE FinishBatch
      <3>1. /\ phase = "functors" /\ phase' = "poll" /\ batch = <<>>
            /\ batch' = batch /\ pending' = pending
        BY <2>3 DEF FinishBatch
      <3>2. ~registered
        BY <2>1, <3>1 DEF Disowned, DestroyedLast
      <3> QED
        BY <1>1, <2>1, <3>1, <3>2 DEF Disowned, NoneLeft, Without
    <2> QED
      BY <2>2, <2>3
  <1> QED
    BY <1>1, <1>2, <1>3, <1>4 DEF RaceInv

(* handleEvent: the handler that closes the connection finds it up.        *)
LEMMA EventRace ==
    ASSUME ConnInv, RaceInv, ~raced, handleEvent
    PROVE  RaceInv'
  <1>1. /\ phase = "dispatch" /\ revents # <<>> /\ revents' = Tail(revents)
        /\ UNCHANGED <<registered, phase, batch, raced, late>>
        /\ batch = <<>>
    BY DEF handleEvent, ConnInv, TypeOK
  <1>2. /\ DOMAIN revents' = 1..(Len(revents) - 1) /\ DOMAIN revents = 1..Len(revents)
        /\ Len(revents) \in Nat \ {0} /\ Head(revents) = revents[1]
        /\ \A i \in 1..(Len(revents) - 1) : revents'[i] = revents[i + 1]
    BY <1>1, QueueTypes, TailOf
  <1>3. ClosesOnce'
    <2> SUFFICES ASSUME NEW i \in DOMAIN revents', NEW j \in DOMAIN revents',
                        revents'[i] \in Closing, revents'[j] \in Closing
                 PROVE  i = j
      BY DEF ClosesOnce
    <2>1. i + 1 \in DOMAIN revents /\ j + 1 \in DOMAIN revents
      BY <1>2
    <2>2. revents[i + 1] \in Closing /\ revents[j + 1] \in Closing
      BY <1>2
    <2>3. i + 1 = j + 1
      BY <2>1, <2>2 DEF RaceInv, ClosesOnce
    <2> QED
      BY <1>2, <2>3
  <1>4. ~owner => \A i \in DOMAIN revents' : revents'[i] \notin Closing
    BY <1>2 DEF RaceInv, Disowned
  <1>5. CASE handleClose /\ Head(revents) \in Closing
    <2>1. owner
      BY <1>2, <1>5 DEF RaceInv, Disowned
    <2>2. Open /\ registered
      <3>1. state # "connecting"
        BY <1>1 DEF ConnInv, Fresh
      <3> QED
        BY <2>1, <3>1 DEF RaceInv, Owned, Open, ConnInv, TypeOK
    <2>3. /\ state' = "disconnected" /\ interest' = {} /\ owner' = FALSE
          /\ pending' = Append(pending, Functor("connectDestroyed", 0))
          /\ failed' = failed
      BY <1>5, <2>2 DEF handleClose
    <2>4. DestroyedLast(pending')
      <3>1. Functor("connectDestroyed", 0).call = "connectDestroyed"
        BY DEF Functor
      <3> QED
        BY <2>1, <2>3, <3>1, OwnedQueues, QueueTypes, AppendDestroyed
    <2>5. \A i \in DOMAIN revents' : revents'[i] \notin Closing
      <3> SUFFICES ASSUME NEW i \in DOMAIN revents', revents'[i] \in Closing PROVE FALSE
        OBVIOUS
      <3>1. 1 \in DOMAIN revents /\ i + 1 \in DOMAIN revents /\ i + 1 # 1
        BY <1>2
      <3>2. revents[1] \in Closing /\ revents[i + 1] \in Closing
        BY <1>2, <1>5
      <3> QED
        BY <3>1, <3>2 DEF RaceInv, ClosesOnce
    <2>6. Disowned'
      BY <1>1, <2>2, <2>3, <2>4, <2>5 DEF Disowned
    <2> QED
      BY <1>1, <1>3, <2>3, <2>6 DEF RaceInv
  <1>6. CASE UNCHANGED <<state, interest, owner, failed, pending>>
    <2>1. owner => Owned'
      BY <1>1, <1>6 DEF RaceInv, Owned
    <2>2. ~owner => Disowned'
      BY <1>1, <1>4, <1>6 DEF RaceInv, Disowned, NoneLeft, Without, DestroyedLast
    <2> QED
      BY <1>1, <1>3, <1>6, <2>1, <2>2 DEF RaceInv
  <1>7. CASE handleWrite
    <2>1. UNCHANGED <<state, owner, failed>>
      BY <1>7 DEF handleWrite
    <2>2. owner => Owned'
      BY <1>1, <2>1 DEF RaceInv, Owned
    <2>3. CASE ~owner /\ registered
      <3>1. ~isWriting
        BY <1>1, <2>3 DEF RaceInv, Disowned, isWriting
      <3>2. UNCHANGED <<interest, pending>>
        BY <1>7, <3>1 DEF handleWrite
      <3> QED
        BY <1>6, <2>1, <3>2
    <2>4. CASE ~owner /\ ~registered
      <3>1. \E b : pending' = pending \o If(b, Functor("writeComplete", 0))
                                 \o If(FALSE, Functor("highWaterMark", 0))
        <4>1. \A b : pending \o If(b, Functor("writeComplete", 0))
                        \o If(FALSE, Functor("highWaterMark", 0))
                      = pending \o If(b, Functor("writeComplete", 0))
          <5>1. \A b : pending \o If(b, Functor("writeComplete", 0)) \in Seq(Functors)
            <6>1. Functor("writeComplete", 0) \in Functors
              BY ConnectionAssumption DEF Functor, Functors
            <6> QED
              BY <6>1, QueueTypes, IfIsSeq, ConcatProperties
          <5> QED
            BY <5>1, ConcatEmptySeq DEF If
        <4>2. pending \o If(FALSE, Functor("writeComplete", 0)) = pending
          BY QueueTypes, ConcatEmptySeq DEF If
        <4>3. \E b : pending' = pending \o If(b, Functor("writeComplete", 0))
          BY <1>7, <4>2 DEF handleWrite
        <4> QED
          BY <4>1, <4>3
      <3>2. NoneLeft(pending')
        BY <2>4, <3>1, QueueTypes, CallbacksHold DEF RaceInv, Disowned
      <3>3. Disowned'
        BY <1>1, <1>4, <2>1, <2>4, <3>2 DEF RaceInv, Disowned, NoneLeft, Without
      <3> QED
        BY <1>1, <1>3, <2>1, <2>4, <3>3 DEF RaceInv
    <2>5. CASE owner
      BY <1>1, <1>3, <2>1, <2>2, <2>5 DEF RaceInv
    <2> QED
      BY <2>3, <2>4, <2>5
  <1>8. CASE Head(revents) = "close"
    <2>1. handleClose
      BY <1>8 DEF handleEvent
    <2> QED
      BY <1>5, <1>8, <2>1 DEF Closing
  <1>9. CASE Head(revents) = "error"
    <2>1. handleError
      BY <1>9 DEF handleEvent
    <2> QED
      BY <1>6, <2>1 DEF handleError
  <1>10. CASE Head(revents) = "read"
    <2>1. handleRead
      BY <1>10 DEF handleEvent
    <2> QED
      BY <1>5, <1>6, <1>10, <2>1 DEF handleRead, Closing
  <1>11. CASE Head(revents) = "write"
    <2>1. handleWrite
      BY <1>11 DEF handleEvent
    <2> QED
      BY <1>7, <2>1
  <1>12. Head(revents) \in {"close", "error", "read", "write"}
    BY <1>1, QueueTypes
  <1> QED
    BY <1>8, <1>9, <1>10, <1>11, <1>12


(* sendInLoop, run by the loop or in a callback, disturbs nobody's pointer *)
(* and uses the channel while it is registered.                            *)
LEMMA SendRace ==
    ASSUME ConnInv, registered, NEW data, sendInLoop(data), NEW q \in Seq(Functors),
           q = pending, NoneLeft(q)
    PROVE  late' = late /\ NoneLeft(pending')
  <1>1. late' = late
    BY QueueTypes DEF sendInLoop
  <1>2. \E b, c : pending' = pending \o If(b, Functor("writeComplete", 0))
                                \o If(c, Functor("highWaterMark", 0))
    BY DEF sendInLoop
  <1> QED
    BY <1>1, <1>2, CallbacksHold

LEMMA SendStaysInTime ==
    ASSUME ConnInv, registered, NEW data, sendInLoop(data)
    PROVE  late' = late
  BY QueueTypes DEF sendInLoop

(* What a functor finds when it is run, and leaves.                        *)
LEMMA FunctorFinds ==
    ASSUME ConnInv, RaceInv, ~raced, NEW call, NextFunctor(call)
    PROVE  /\ phase = "functors" /\ phase' = phase /\ revents' = revents
           /\ owner' = owner /\ raced' = raced
           /\ ClosesOnce'
           /\ owner => registered /\ call # "connectDestroyed"
           /\ ~owner /\ call \in Bare \union {"connectDestroyed"} => registered
           /\ ~owner /\ registered =>
                 /\ \E i \in DOMAIN batch : batch[i].call = "connectDestroyed"
                 /\ call # "connectDestroyed" => DestroyedLast(batch')
                 /\ call = "connectDestroyed" => batch' = <<>>
           /\ ~owner /\ ~registered => NoneLeft(batch')
  <1>1. /\ phase = "functors" /\ batch # <<>> /\ Head(batch).call = call
        /\ batch' = Tail(batch) /\ phase' = phase /\ revents' = revents
        /\ owner' = owner /\ raced' = raced
        /\ Head(batch) = batch[1] /\ 1 \in DOMAIN batch /\ Len(batch) \in DOMAIN batch
        /\ batch \in Seq(Functors)
    BY QueueTypes, TailOf DEF NextFunctor
  <1>2. ClosesOnce'
    BY <1>1 DEF RaceInv, ClosesOnce
  <1>3. owner => registered /\ call # "connectDestroyed"
    <2>1. state # "connecting"
      BY <1>1 DEF ConnInv, Fresh
    <2> QED
      BY <1>1, <2>1, OwnedQueues DEF RaceInv, Owned, Without
  <1>4. ~owner /\ call \in Bare \union {"connectDestroyed"} => registered
    BY <1>1 DEF RaceInv, Disowned, NoneLeft, Without
  <1>5. ~owner /\ registered =>
           /\ \E i \in DOMAIN batch : batch[i].call = "connectDestroyed"
           /\ call # "connectDestroyed" => DestroyedLast(batch')
           /\ call = "connectDestroyed" => batch' = <<>>
    <2> SUFFICES ASSUME ~owner, registered
                 PROVE  /\ \E i \in DOMAIN batch : batch[i].call = "connectDestroyed"
                        /\ call # "connectDestroyed" => DestroyedLast(batch')
                        /\ call = "connectDestroyed" => batch' = <<>>
      OBVIOUS
    <2>1. DestroyedLast(batch)
      BY <1>1 DEF RaceInv, Disowned
    <2>2. batch[Len(batch)].call = "connectDestroyed"
      BY <2>1 DEF DestroyedLast
    <2>3. /\ Head(batch).call # "connectDestroyed" => DestroyedLast(Tail(batch))
          /\ Head(batch).call = "connectDestroyed" => Tail(batch) = <<>>
      BY <1>1, <2>1, TailDestroyed
    <2> QED
      BY <1>1, <2>2, <2>3
  <1>6. ~owner /\ ~registered => NoneLeft(batch')
    BY <1>1, TailWithout DEF RaceInv, Disowned, NoneLeft
  <1> QED
    BY <1>1, <1>2, <1>3, <1>4, <1>5, <1>6

(* A functor finds the object alive: its owner's pointer, or the one that  *)
(* connectDestroyed, still to come, is bound to.                           *)
LEMMA FoundAlive ==
    ASSUME ConnInv, RaceInv, ~raced, NEW call \in Bare, NextFunctor(call)
    PROVE  Exists(batch \o pending) /\ registered
  <1>1. CASE owner
    BY <1>1, FunctorFinds DEF Exists
  <1>2. CASE ~owner
    <2>1. registered /\ \E i \in DOMAIN batch : batch[i].call = "connectDestroyed"
      BY <1>2, FunctorFinds
    <2>2. PICK i \in DOMAIN batch : batch[i].call = "connectDestroyed"
      BY <2>1
    <2>3. i \in DOMAIN (batch \o pending) /\ (batch \o pending)[i] = batch[i]
      <3>1. \A S : \A q, r \in Seq(S) : \A k \in DOMAIN q :
               k \in DOMAIN (q \o r) /\ (q \o r)[k] = q[k]
        OBVIOUS
      <3> QED
        BY <3>1, QueueTypes
    <2> QED
      BY <2>1, <2>2, <2>3 DEF Exists
  <1> QED
    BY <1>1, <1>2

LEMMA FunctorRace ==
    ASSUME ConnInv, RaceInv, ~raced, RunSend \/ RunShutdown
    PROVE  RaceInv'
  <1>1. PICK call \in Bare : NextFunctor(call)
    BY DEF RunSend, RunShutdown, Bare
  <1>2. Exists(batch \o pending) /\ registered
    BY <1>1, FoundAlive
  <1>3. UNCHANGED <<state, registered, failed>> /\ late' = late
    <2>1. RunSend => sendInLoop(Message(Head(batch).msg))
      BY <1>2 DEF RunSend
    <2>2. RunSend => late' = late
      BY <1>2, <2>1, SendStaysInTime
    <2> QED
      BY <1>2, <2>2 DEF RunSend, RunShutdown
  <1>4. owner => Owned'
    BY <1>3 DEF RaceInv, Owned
  <1>5. ASSUME ~owner PROVE Disowned'
    <2>1. Disowned /\ phase = "functors" /\ phase' = phase /\ revents' = revents
      BY <1>1, <1>5, FunctorFinds DEF RaceInv
    <2>2. DestroyedLast(batch')
      BY <1>1, <1>2, <1>5, FunctorFinds DEF Bare
    <2>3. NoneLeft(pending')
      <3>1. NoneLeft(pending)
        BY <2>1 DEF Disowned
      <3>2. CASE RunSend
        BY <1>2, <3>1, <3>2, QueueTypes, SendRace DEF RunSend
      <3>3. CASE RunShutdown
        BY <3>1, <3>3 DEF RunShutdown, NoneLeft, Without
      <3> QED
        BY <3>2, <3>3
    <2> QED
      BY <1>2, <1>3, <2>1, <2>2, <2>3 DEF Disowned, NoneLeft, Without, DestroyedLast
  <1> QED
    BY <1>1, <1>3, <1>4, <1>5, FunctorFinds DEF RaceInv

LEMMA DestroyedRace ==
    ASSUME ConnInv, RaceInv, ~raced, connectDestroyed
    PROVE  RaceInv'
  <1>1. NextFunctor("connectDestroyed")
    BY DEF connectDestroyed
  <1>2. /\ state' = "disconnected" /\ ~registered'
        /\ failed' \subseteq failed \union {69}
        /\ pending' = pending /\ late' = late
    BY DEF connectDestroyed
  <1>3. ~owner /\ registered /\ batch' = <<>>
    BY <1>1, FunctorFinds, QueueTypes
  <1>4. /\ phase = "functors" /\ phase' = phase /\ revents' = revents
        /\ owner' = owner /\ raced' = raced /\ ClosesOnce'
    BY <1>1, FunctorFinds
  <1>5. NoneLeft(pending') /\ NoneLeft(batch')
    <2>1. NoneLeft(pending)
      BY <1>3, <1>4 DEF RaceInv, Disowned
    <2> QED
      BY <1>2, <1>3, <2>1 DEF NoneLeft, Without
  <1>6. Disowned'
    BY <1>2, <1>3, <1>4, <1>5 DEF RaceInv, Disowned, NoneLeft, Without
  <1> QED
    BY <1>2, <1>3, <1>4, <1>6 DEF RaceInv

(* The connection that a callback's last pointer destroys is down.         *)
LEMMA DestructorHolds ==
    ASSUME RaceInv, ~raced, owner' = owner
    PROVE  Destructor = {}
  BY DEF RaceInv, Disowned, Destructor, Exists

LEMMA CallbackRace ==
    ASSUME ConnInv, RaceInv, ~raced, RunCallback
    PROVE  RaceInv'
  <1>1. PICK call : NextFunctor(call) /\ call \notin Bare \union {"connectDestroyed"}
    BY DEF RunCallback, Bare
  <1>2. UNCHANGED <<state, registered, interest, pending, owner, late>> /\ failed' = failed
    <2>1. owner' = owner
      BY <1>1, FunctorFinds
    <2> QED
      BY <2>1, DestructorHolds DEF RunCallback
  <1>3. owner => Owned'
    BY <1>2 DEF RaceInv, Owned
  <1>4. ASSUME ~owner PROVE Disowned'
    <2>1. Disowned /\ phase = "functors" /\ phase' = phase /\ revents' = revents
      BY <1>1, <1>4, FunctorFinds DEF RaceInv
    <2>2. registered => DestroyedLast(batch')
      BY <1>1, <1>4, FunctorFinds
    <2>3. ~registered => NoneLeft(batch')
      BY <1>1, <1>4, QueueTypes, FunctorFinds
    <2> QED
      BY <1>2, <2>1, <2>2, <2>3 DEF Disowned, NoneLeft, Without, DestroyedLast
  <1> QED
    BY <1>1, <1>2, <1>3, <1>4, FunctorFinds DEF RaceInv

(* User code, on the loop's thread or on the other one.                    *)
LEMMA UserRace ==
    ASSUME ConnInv, RaceInv, ~raced, ~raced',
           \/ SendHere \/ ShutdownHere \/ BeginSend \/ BeginShutdown \/ Queue \/ Release
    PROVE  RaceInv'
  <1>1. UNCHANGED <<registered, phase, revents, batch, owner, late>> /\ failed' = failed
    <2>1. CASE SendHere
      <3>1. registered
        BY <2>1 DEF SendHere, InCallback, RaceInv, Owned, Disowned
      <3>2. late' = late
        BY <2>1, <3>1, SendStaysInTime DEF SendHere
      <3> QED
        BY <2>1, <3>2 DEF SendHere, InCallback, loopVars
    <2>2. CASE Release
      <3>1. owner' = owner
        BY <2>2 DEF Release, UserStep
      <3> QED
        BY <2>2, <3>1, DestructorHolds DEF Release, UserStep, loopVars
    <2> QED
      BY <2>1, <2>2 DEF ShutdownHere, InCallback, BeginSend, BeginShutdown, Queue,
         QueueSend, SetDisconnecting, QueueShutdown, UserStep, loopVars
  <1>2. ClosesOnce'
    BY <1>1 DEF RaceInv, ClosesOnce
  <1>3. CASE Release
    <2>1. UNCHANGED <<state, interest, pending>>
      BY <1>3 DEF Release, UserStep
    <2> QED
      BY <1>1, <1>2, <2>1 DEF RaceInv, Owned, Disowned, NoneLeft, Without, DestroyedLast
  <1>4. CASE ~Release
    <2>1. owner
      BY <1>4 DEF SendHere, ShutdownHere, InCallback, BeginSend, BeginShutdown, Queue,
         QueueSend, SetDisconnecting, QueueShutdown, Races, RaceInv, Disowned
    <2>2. state' = state \/ (state # "connecting" /\ state' = "disconnecting")
      BY <1>4 DEF SendHere, ShutdownHere, InCallback, BeginSend, BeginShutdown, Queue,
         QueueSend, SetDisconnecting, QueueShutdown, UserStep, ConnInv, Fresh
    <2> QED
      BY <1>1, <1>2, <2>1, <2>2 DEF RaceInv, Owned
  <1> QED
    BY <1>3, <1>4

(* The peer, and connectEstablished.                                       *)
LEMMA OthersRace ==
    ASSUME ConnInv, RaceInv, ~raced,
           \/ PeerReads \/ PeerSends \/ PeerCloses \/ PeerResets
           \/ connectEstablished \/ UNCHANGED vars
    PROVE  RaceInv'
  <1>1. CASE connectEstablished
    <2>1. /\ state = "connecting" /\ state' = "connected" /\ registered'
          /\ UNCHANGED <<revents, owner, raced, failed, late>>
      BY <1>1 DEF connectEstablished, loopVars
    <2>2. owner
      BY <2>1 DEF RaceInv, Disowned
    <2> QED
      BY <2>1, <2>2 DEF RaceInv, Owned, ClosesOnce
  <1>2. CASE ~connectEstablished
    <2>1. UNCHANGED <<state, interest, registered, pending, batch, phase, revents, owner,
                      raced, failed, late>>
      BY <1>2 DEF PeerReads, PeerSends, PeerCloses, PeerResets, PeerStep, vars, loopVars
    <2> QED
      BY <2>1 DEF RaceInv, Owned, Disowned, ClosesOnce, NoneLeft, Without, DestroyedLast
  <1> QED
    BY <1>1, <1>2

LEMMA NextRace == ConnInv /\ RaceInv /\ [Next]_vars => RaceInv'
  <1> SUFFICES ASSUME ConnInv, RaceInv, [Next]_vars, ~raced' PROVE RaceInv'
    BY DEF RaceInv
  <1>1. ~raced
    BY RacedStays
  <1>2. CASE LoopStep
    BY <1>1, <1>2, PollRace, EventRace, BatchRace, FunctorRace, DestroyedRace,
       CallbackRace DEF LoopStep
  <1>3. CASE \/ SendHere \/ ShutdownHere \/ BeginSend \/ BeginShutdown \/ Queue
             \/ Release
    BY <1>1, <1>3, UserRace
  <1>4. CASE \/ PeerReads \/ PeerSends \/ PeerCloses \/ PeerResets
             \/ connectEstablished \/ UNCHANGED vars
    BY <1>1, <1>4, OthersRace
  <1> QED
    BY <1>2, <1>3, <1>4 DEF Next

(* tcpconnection.cc: the connection is closed once, outlives the functors  *)
(* that are bound to the plain this pointer and does not touch its channel *)
(* once it is removed, but for another thread whose call of send() or      *)
(* shutdown() the close overtakes.                                         *)
THEOREM NothingElseHurts == Spec => []OnlyRacesHurt
  <1>1. RaceInv => OnlyRacesHurt
    BY DEF RaceInv, OnlyRacesHurt
  <1> QED
    BY <1>1, InitRace, NextRace, ConnInvAlways, PTL DEF Spec
=============================================================================
