-------------------------- MODULE SequentialProofs ---------------------------
(***************************************************************************)
(* Proofs about the classes of MCSequential: module Buffer, by what each   *)
(* operation does to the readable bytes; the ring, from the theorems of    *)
(* CircularBufferProofs; the calendar of module Date, by the arithmetic of *)
(* its divisions; the zones of module TimeZone, by what the binary search  *)
(* finds among their transitions; and the integers of module LogStream, by *)
(* their quotients and digits.                                             *)
(***************************************************************************)
EXTENDS MCSequential, SequenceTheorems, NaturalsInduction, WellFoundedInduction, TLAPS

(* The readable bytes of b, cell by cell.                                  *)
Holds(b, s) ==
    /\ readableBytes(b) = Len(s)
    /\ \A i \in 1..Len(s) : b.mem[b.reader + i - 1] = s[i]

(* What is written is a sequence of bytes.                                 *)
LEMMA DataAreBytes ==
    \A bytes \in Data : bytes \in Seq(Bytes) /\ Len(bytes) \in Nat
<1> SUFFICES ASSUME NEW bytes \in Data
             PROVE  bytes \in Seq(Bytes) /\ Len(bytes) \in Nat
  OBVIOUS
<1>1. PICK n \in 0..MaxLen : bytes \in [1..n -> Bytes]
  BY DEF Data
<1>2. n \in Nat
  BY <1>1, BufferAssumption
<1>3. bytes \in Seq(Bytes)
  BY <1>1, <1>2, SeqDef
<1> QED
  BY <1>3, LenProperties

(* peek(b) is the sequence that b's readable cells hold.                   *)
LEMMA PeekHolds ==
    ASSUME NEW b, IsBuffer(b)
    PROVE  /\ peek(b) \in Seq(Bytes)
           /\ Len(peek(b)) = b.writer - b.reader
           /\ b.writer - b.reader \in Nat
           /\ Holds(b, peek(b))
<1> DEFINE n == readableBytes(b)
<1>1. n \in Nat
  BY DEF IsBuffer, readableBytes
<1>2. \A i \in 1..n : b.reader + i - 1 \in 0..(b.size - 1)
  BY DEF IsBuffer, readableBytes
<1>3. peek(b) \in [1..n -> Bytes]
  BY <1>2 DEF peek, IsBuffer
<1>4. peek(b) \in Seq(Bytes)
  BY <1>1, <1>3, SeqDef
<1>5. Len(peek(b)) = n
  BY <1>1, <1>3, <1>4, LenProperties
<1>6. \A i \in 1..n : peek(b)[i] = b.mem[b.reader + i - 1]
  BY DEF peek
<1> QED
  BY <1>1, <1>4, <1>5, <1>6 DEF Holds, readableBytes

(* And it is the only one.                                                 *)
LEMMA HoldsIsPeek ==
    ASSUME NEW b, IsBuffer(b), NEW s \in Seq(Bytes), Holds(b, s)
    PROVE  peek(b) = s
<1>1. /\ peek(b) \in Seq(Bytes) /\ Holds(b, peek(b))
  BY PeekHolds
<1>2. Len(peek(b)) = Len(s)
  BY <1>1 DEF Holds
<1>3. \A i \in 1..Len(s) : peek(b)[i] = s[i]
  BY <1>1, <1>2 DEF Holds
<1> QED
  BY <1>1, <1>2, <1>3, SeqEqual

(* The copy changes the cells that it writes and no other.                 *)
LEMMA StoreCells ==
    ASSUME NEW size \in Nat, NEW mem \in [0..(size - 1) -> Bytes],
           NEW at \in Int, NEW bytes \in Seq(Bytes)
    PROVE  /\ Store(mem, at, bytes) \in [0..(size - 1) -> Bytes]
           /\ \A i \in 0..(size - 1) :
                 i \notin at..(at + Len(bytes) - 1)
                    => Store(mem, at, bytes)[i] = mem[i]
           /\ \A i \in 0..(size - 1) : \A j \in 1..Len(bytes) :
                 i = at + j - 1 => Store(mem, at, bytes)[i] = bytes[j]
<1>1. Len(bytes) \in Nat
  BY LenProperties
<1>2. DOMAIN mem = 0..(size - 1)
  OBVIOUS
<1>3. \A i \in at..(at + Len(bytes) - 1) : bytes[i - at + 1] \in Bytes
  <2> SUFFICES ASSUME NEW i \in at..(at + Len(bytes) - 1)
               PROVE  bytes[i - at + 1] \in Bytes
    OBVIOUS
  <2>1. i - at + 1 \in 1..Len(bytes)
    BY <1>1
  <2> QED
    BY <2>1, ElementOfSeq
<1>4. \A i \in 0..(size - 1) :
         Store(mem, at, bytes)[i] =
            IF i \in at..(at + Len(bytes) - 1) THEN bytes[i - at + 1] ELSE mem[i]
  BY <1>2 DEF Store
<1>5. Store(mem, at, bytes) \in [0..(size - 1) -> Bytes]
  BY <1>2, <1>3 DEF Store
<1>6. \A i \in 0..(size - 1) : \A j \in 1..Len(bytes) :
         i = at + j - 1 => Store(mem, at, bytes)[i] = bytes[j]
  <2> SUFFICES ASSUME NEW i \in 0..(size - 1), NEW j \in 1..Len(bytes),
                      i = at + j - 1
               PROVE  Store(mem, at, bytes)[i] = bytes[j]
    OBVIOUS
  <2>1. i \in at..(at + Len(bytes) - 1) /\ i - at + 1 = j
    BY <1>1
  <2> QED
    BY <1>4, <2>1
<1> QED
  BY <1>4, <1>5, <1>6

(* The same, one fact at a time.                                           *)
LEMMA StoreType ==
    ASSUME NEW size \in Nat, NEW mem \in [0..(size - 1) -> Bytes],
           NEW at \in Int, NEW bytes \in Seq(Bytes)
    PROVE  Store(mem, at, bytes) \in [0..(size - 1) -> Bytes]
BY StoreCells

LEMMA StoreOld ==
    ASSUME NEW size \in Nat, NEW mem \in [0..(size - 1) -> Bytes],
           NEW at \in Int, NEW bytes \in Seq(Bytes),
           NEW i \in 0..(size - 1), i \notin at..(at + Len(bytes) - 1)
    PROVE  Store(mem, at, bytes)[i] = mem[i]
BY StoreCells

LEMMA StoreNew ==
    ASSUME NEW size \in Nat, NEW mem \in [0..(size - 1) -> Bytes],
           NEW at \in Int, NEW bytes \in Seq(Bytes),
           NEW j \in 1..Len(bytes), at + j - 1 \in 0..(size - 1)
    PROVE  Store(mem, at, bytes)[at + j - 1] = bytes[j]
BY StoreCells

-----------------------------------------------------------------------------
(* Making room.                                                            *)

(* A larger array keeps every cell that there was.                         *)
LEMMA ResizedKeeps ==
    ASSUME NEW b, IsBuffer(b), NEW len \in Nat, writableBytes(b) < len
    PROVE  /\ IsBuffer(Resized(b, len))
           /\ peek(Resized(b, len)) = peek(b)
           /\ writableBytes(Resized(b, len)) = len
           /\ Resized(b, len).reader = b.reader
<1> DEFINE r == Resized(b, len)
           m == [i \in 0..(b.writer + len - 1) |->
                    IF i < b.size THEN b.mem[i] ELSE 0]
<1>1. r = [mem |-> m, size |-> b.writer + len, reader |-> b.reader,
           writer |-> b.writer]
  BY DEF Resized, IsBuffer
<1>2. b.size < b.writer + len
  BY DEF IsBuffer, writableBytes
<1>3. m \in [0..(b.writer + len - 1) -> Bytes]
  BY <1>2, BufferAssumption DEF IsBuffer
<1>4. \A i \in 0..(b.size - 1) : m[i] = b.mem[i]
  BY <1>2 DEF IsBuffer
<1> HIDE DEF m
<1>5. IsBuffer(r)
  <2>1. /\ b.writer + len \in Nat /\ b.writer <= b.writer + len
        /\ b.reader \in Nat /\ b.writer \in Nat /\ b.reader <= b.writer
        /\ kCheapPrepend <= b.writer + len
    BY <1>2, BufferAssumption DEF IsBuffer
  <2> QED
    BY <1>1, <1>3, <2>1 DEF IsBuffer
<1>6. Holds(r, peek(b))
  <2>1. Holds(b, peek(b)) /\ Len(peek(b)) = b.writer - b.reader
    BY PeekHolds
  <2>2. \A i \in 1..Len(peek(b)) : b.reader + i - 1 \in 0..(b.size - 1)
    BY <2>1 DEF IsBuffer
  <2> QED
    BY <1>1, <1>4, <2>1, <2>2 DEF Holds, readableBytes
<1>7. peek(r) = peek(b)
  BY <1>5, <1>6, PeekHolds, HoldsIsPeek
<1> QED
  BY <1>1, <1>5, <1>7 DEF writableBytes, IsBuffer

(* The move ahead keeps the readable bytes and frees the rest.             *)
LEMMA MovedAheadKeeps ==
    ASSUME NEW b, IsBuffer(b), kCheapPrepend <= b.reader
    PROVE  /\ IsBuffer(MovedAhead(b))
           /\ peek(MovedAhead(b)) = peek(b)
           /\ MovedAhead(b).reader = kCheapPrepend
           /\ MovedAhead(b).size = b.size
           /\ MovedAhead(b).writer = kCheapPrepend + b.writer - b.reader
<1>1. PICK s \in Seq(Bytes) :
         /\ s = peek(b) /\ Len(s) = b.writer - b.reader
         /\ b.writer - b.reader \in Nat
  BY PeekHolds
<1> DEFINE r == MovedAhead(b)
           m == Store(b.mem, kCheapPrepend, s)
<1>2. r = [mem |-> m, size |-> b.size, reader |-> kCheapPrepend,
           writer |-> kCheapPrepend + (b.writer - b.reader)]
  BY <1>1 DEF MovedAhead, readableBytes
<1>3. kCheapPrepend \in Nat
  BY BufferAssumption
<1>4. /\ m \in [0..(b.size - 1) -> Bytes]
      /\ \A j \in 1..Len(s) : kCheapPrepend + j - 1 \in 0..(b.size - 1)
            => m[kCheapPrepend + j - 1] = s[j]
  <2>1. /\ b.size \in Nat /\ b.mem \in [0..(b.size - 1) -> Bytes]
        /\ kCheapPrepend \in Int
    BY <1>3 DEF IsBuffer
  <2>2. m \in [0..(b.size - 1) -> Bytes]
    BY <2>1, StoreType
  <2> QED
    BY <2>1, <2>2, StoreNew
<1> HIDE DEF m
<1>5. IsBuffer(r)
  BY <1>1, <1>2, <1>3, <1>4 DEF IsBuffer
<1>6. Holds(r, s)
  <2>1. \A j \in 1..Len(s) : kCheapPrepend + j - 1 \in 0..(b.size - 1)
    BY <1>1, <1>2, <1>3 DEF IsBuffer
  <2>2. \A j \in 1..Len(s) : m[kCheapPrepend + j - 1] = s[j]
    BY <1>4, <2>1
  <2> QED
    BY <1>1, <1>2, <1>3, <2>2 DEF Holds, readableBytes
<1>7. peek(r) = s
  BY <1>1, <1>2, <1>5, <1>6, HoldsIsPeek
<1> QED
  BY <1>1, <1>2, <1>3, <1>5, <1>7 DEF IsBuffer

(* There is room afterwards, both assertions hold, and the bytes that can  *)
(* be prepended become fewer only as far as kCheapPrepend.                 *)
LEMMA EnsureKeeps ==
    ASSUME NEW b, IsBuffer(b), NEW len \in Nat
    PROVE  /\ IsBuffer(ensureWritableBytes(b, len))
           /\ peek(ensureWritableBytes(b, len)) = peek(b)
           /\ writableBytes(ensureWritableBytes(b, len)) >= len
           /\ \/ ensureWritableBytes(b, len).reader = b.reader
              \/ ensureWritableBytes(b, len).reader = kCheapPrepend
           /\ FailedIn(b, len) = {}
<1> DEFINE r == ensureWritableBytes(b, len)
<1>1. kCheapPrepend \in Nat
  BY BufferAssumption
<1>2. CASE writableBytes(b) >= len
  <2>1. r = b
    BY <1>2 DEF ensureWritableBytes, writableBytes, IsBuffer
  <2>2. ~(writableBytes(b) < len)
    BY <1>2 DEF writableBytes, IsBuffer
  <2> QED
    BY <1>2, <2>1, <2>2 DEF FailedIn
<1>3. CASE writableBytes(b) < len /\ TooSmall(b, len)
  <2>1. r = Resized(b, len)
    BY <1>3 DEF ensureWritableBytes, extend
  <2>2. /\ IsBuffer(r) /\ peek(r) = peek(b) /\ writableBytes(r) = len
        /\ r.reader = b.reader
    BY <1>3, <2>1, ResizedKeeps
  <2>3. FailedIn(b, len) = {}
    BY <1>3, <2>2 DEF FailedIn
  <2> QED
    BY <2>2, <2>3
<1>4. CASE writableBytes(b) < len /\ ~TooSmall(b, len)
  <2>1. r = MovedAhead(b)
    BY <1>4 DEF ensureWritableBytes, extend
  <2>2. kCheapPrepend < b.reader
    BY <1>1, <1>4 DEF TooSmall, writableBytes, prependableBytes, IsBuffer
  <2>3. /\ IsBuffer(r) /\ peek(r) = peek(b) /\ r.reader = kCheapPrepend
        /\ r.size = b.size /\ r.writer = kCheapPrepend + b.writer - b.reader
    BY <1>1, <2>1, <2>2, MovedAheadKeeps DEF IsBuffer
  <2>4. writableBytes(r) >= len
    BY <1>1, <1>4, <2>3
    DEF TooSmall, writableBytes, prependableBytes, IsBuffer
  <2>5. FailedIn(b, len) = {}
    BY <2>2, <2>4 DEF FailedIn
  <2> QED
    BY <2>3, <2>4, <2>5
<1>5. writableBytes(b) \in Int
  BY DEF writableBytes, IsBuffer
<1> QED
  BY <1>2, <1>3, <1>4, <1>5

-----------------------------------------------------------------------------
(* The operations on the bytes.                                            *)

(* A copy to beginWrite() lengthens the readable bytes at their end.       *)
LEMMA PutAppends ==
    ASSUME NEW b, IsBuffer(b), NEW bytes \in Seq(Bytes),
           Len(bytes) <= writableBytes(b)
    PROVE  /\ IsBuffer(put(b, bytes))
           /\ peek(put(b, bytes)) = peek(b) \o bytes
           /\ put(b, bytes).reader = b.reader
           /\ writableBytes(put(b, bytes)) = writableBytes(b) - Len(bytes)
<1> DEFINE r == put(b, bytes)
           m == Store(b.mem, b.writer, bytes)
           s == peek(b) \o bytes
           n == Len(bytes)
<1>1. n \in Nat
  BY LenProperties
<1>2. r = [mem |-> m, size |-> b.size, reader |-> b.reader,
           writer |-> b.writer + n]
  <2> DEFINE c == [b EXCEPT !.mem = m]
  <2>1. c = [mem |-> m, size |-> b.size, reader |-> b.reader,
             writer |-> b.writer]
    BY DEF IsBuffer
  <2> HIDE DEF c, m, n
  <2>2. hasWritten(c, n) = [mem |-> m, size |-> b.size, reader |-> b.reader,
                            writer |-> b.writer + n]
    BY <2>1 DEF hasWritten
  <2> QED
    BY <2>2 DEF put, c, m, n
<1>3. /\ m \in [0..(b.size - 1) -> Bytes]
      /\ \A i \in 0..(b.size - 1) :
            i \notin b.writer..(b.writer + Len(bytes) - 1) => m[i] = b.mem[i]
      /\ \A j \in 1..Len(bytes) : b.writer + j - 1 \in 0..(b.size - 1)
            => m[b.writer + j - 1] = bytes[j]
  <2>1. /\ b.size \in Nat /\ b.mem \in [0..(b.size - 1) -> Bytes]
        /\ b.writer \in Int
    BY DEF IsBuffer
  <2>2. m \in [0..(b.size - 1) -> Bytes]
    BY <2>1, StoreType
  <2>3. \A i \in 0..(b.size - 1) :
           i \notin b.writer..(b.writer + Len(bytes) - 1) => m[i] = b.mem[i]
    BY <2>1, StoreOld
  <2> QED
    BY <2>1, <2>2, <2>3, StoreNew
<1>4. /\ peek(b) \in Seq(Bytes) /\ Len(peek(b)) = b.writer - b.reader
      /\ b.writer - b.reader \in Nat
      /\ \A i \in 1..Len(peek(b)) : b.mem[b.reader + i - 1] = peek(b)[i]
  BY PeekHolds DEF Holds
<1>5. /\ s \in Seq(Bytes) /\ Len(s) = Len(peek(b)) + n
      /\ \A i \in 1..(Len(peek(b)) + n) :
            s[i] = IF i <= Len(peek(b)) THEN peek(b)[i]
                   ELSE bytes[i - Len(peek(b))]
  BY <1>4, ConcatProperties
<1> HIDE DEF m, s, n
<1>6. /\ b.size \in Nat /\ b.reader \in Nat /\ b.writer \in Nat
      /\ b.reader <= b.writer /\ b.writer + n <= b.size
  BY <1>1 DEF IsBuffer, writableBytes, n
<1>7. IsBuffer(r)
  BY <1>1, <1>2, <1>3, <1>6 DEF IsBuffer
<1>8. Holds(r, s)
  <2>1. readableBytes(r) = Len(s)
    BY <1>1, <1>2, <1>4, <1>5, <1>6 DEF readableBytes
  <2>2. ASSUME NEW i \in 1..Len(s)
        PROVE  r.mem[r.reader + i - 1] = s[i]
    <3>1. i \in Int /\ b.reader + i - 1 \in 0..(b.size - 1)
      <4>1. /\ Len(s) = b.writer - b.reader + n
            /\ i \in 1..(b.writer - b.reader + n)
        BY <1>4, <1>5
      <4> QED
        BY <1>1, <1>6, <4>1, SMTT(20)
    <3>2. CASE i <= Len(peek(b))
      <4>1. b.reader + i - 1 \notin b.writer..(b.writer + n - 1)
        BY <1>1, <1>4, <1>6, <3>1, <3>2, SMTT(20)
      <4>2. m[b.reader + i - 1] = b.mem[b.reader + i - 1]
        BY <1>3, <3>1, <4>1 DEF n
      <4>3. b.mem[b.reader + i - 1] = peek(b)[i] /\ s[i] = peek(b)[i]
        BY <1>1, <1>4, <1>5, <3>1, <3>2
      <4> QED
        BY <1>2, <4>2, <4>3
    <3>3. CASE ~(i <= Len(peek(b)))
      <4>1. i - Len(peek(b)) \in 1..n
        BY <1>1, <1>4, <1>5, <3>1, <3>3
      <4>2. b.reader + i - 1 = b.writer + (i - Len(peek(b))) - 1
        BY <1>4, <1>6, <3>1, SMTT(20)
      <4>3. m[b.reader + i - 1] = bytes[i - Len(peek(b))]
        BY <1>3, <3>1, <4>1, <4>2 DEF n
      <4>4. s[i] = bytes[i - Len(peek(b))]
        BY <1>1, <1>4, <1>5, <3>1, <3>3
      <4> QED
        BY <1>2, <4>3, <4>4
    <3> QED
      BY <3>2, <3>3
  <2> QED
    BY <2>1, <2>2 DEF Holds
<1>9. peek(r) = s
  BY <1>5, <1>7, <1>8, HoldsIsPeek
<1>10. writableBytes(r) = writableBytes(b) - n
  BY <1>1, <1>2, <1>6 DEF writableBytes
<1> QED
  BY <1>2, <1>7, <1>9, <1>10 DEF s, n

(* append() writes at the end, whatever it does to make room.              *)
LEMMA AppendAppends ==
    ASSUME NEW b, IsBuffer(b), NEW bytes \in Seq(Bytes)
    PROVE  /\ IsBuffer(append(b, bytes))
           /\ peek(append(b, bytes)) = peek(b) \o bytes
           /\ append(b, bytes).reader \in {b.reader, kCheapPrepend}
           /\ FailedIn(b, Len(bytes)) = {}
<1> DEFINE e == ensureWritableBytes(b, Len(bytes))
<1>1. Len(bytes) \in Nat
  BY LenProperties
<1>2. /\ IsBuffer(e) /\ peek(e) = peek(b) /\ writableBytes(e) >= Len(bytes)
      /\ e.reader = b.reader \/ e.reader = kCheapPrepend
      /\ FailedIn(b, Len(bytes)) = {}
  BY <1>1, EnsureKeeps
<1> HIDE DEF e
<1>3. Len(bytes) <= writableBytes(e)
  BY <1>1, <1>2 DEF IsBuffer, writableBytes
<1>4. /\ IsBuffer(put(e, bytes)) /\ peek(put(e, bytes)) = peek(b) \o bytes
      /\ put(e, bytes).reader = e.reader
  BY <1>2, <1>3, PutAppends
<1> QED
  BY <1>2, <1>4 DEF append, e

(* prepend() lengthens them at their front.                                *)
LEMMA PrependPrepends ==
    ASSUME NEW b, IsBuffer(b), NEW bytes \in Seq(Bytes),
           Len(bytes) <= prependableBytes(b)
    PROVE  /\ IsBuffer(prepend(b, bytes))
           /\ peek(prepend(b, bytes)) = bytes \o peek(b)
<1> DEFINE n == Len(bytes)
<1>1. n \in Nat
  BY LenProperties
<1>0. PICK at \in Int : at = b.reader - Len(bytes)
  BY <1>1 DEF IsBuffer
<1> DEFINE m == Store(b.mem, at, bytes)
           r == prepend(b, bytes)
           s == bytes \o peek(b)
<1>2. r = [mem |-> m, size |-> b.size, reader |-> at, writer |-> b.writer]
  BY <1>0 DEF prepend
<1>3. /\ b.size \in Nat /\ b.reader \in Nat /\ b.writer \in Nat
      /\ b.reader <= b.writer /\ b.writer <= b.size
      /\ at \in Nat /\ at <= b.reader
      /\ b.mem \in [0..(b.size - 1) -> Bytes]
  BY <1>0, <1>1 DEF IsBuffer, prependableBytes
<1>4. m \in [0..(b.size - 1) -> Bytes]
  BY <1>3, StoreType
<1>5. \A i \in 0..(b.size - 1) :
         i \notin at..(at + Len(bytes) - 1) => m[i] = b.mem[i]
  BY <1>3, StoreOld
<1>6. \A j \in 1..Len(bytes) :
         at + j - 1 \in 0..(b.size - 1) => m[at + j - 1] = bytes[j]
  BY <1>3, StoreNew
<1>7. /\ peek(b) \in Seq(Bytes) /\ Len(peek(b)) = b.writer - b.reader
      /\ b.writer - b.reader \in Nat
      /\ \A i \in 1..Len(peek(b)) : b.mem[b.reader + i - 1] = peek(b)[i]
  BY PeekHolds DEF Holds
<1>8. /\ s \in Seq(Bytes) /\ Len(s) = n + Len(peek(b))
      /\ \A i \in 1..(n + Len(peek(b))) :
            s[i] = IF i <= n THEN bytes[i] ELSE peek(b)[i - n]
  BY <1>7, ConcatProperties
<1>9. at + n = b.reader
  BY <1>0, <1>1, <1>3
<1> HIDE DEF m, s
<1>10. IsBuffer(r)
  BY <1>2, <1>3, <1>4 DEF IsBuffer
<1>11. Holds(r, s)
  <2>1. readableBytes(r) = Len(s)
    BY <1>1, <1>2, <1>3, <1>7, <1>8, <1>9 DEF readableBytes
  <2>2. ASSUME NEW i \in 1..Len(s)
        PROVE  r.mem[r.reader + i - 1] = s[i]
    <3>1. i \in 1..(n + (b.writer - b.reader)) /\ i \in 1..(n + Len(peek(b)))
      BY <1>7, <1>8
    <3>2. at + i - 1 \in 0..(b.size - 1)
      BY <1>1, <1>3, <1>9, <3>1, SMTT(20)
    <3>3. CASE i <= n
      <4>1. i \in 1..Len(bytes)
        BY <1>1, <3>1, <3>3
      <4>2. m[at + i - 1] = bytes[i]
        BY <1>6, <3>2, <4>1
      <4> QED
        BY <1>2, <1>8, <3>1, <3>3, <4>2
    <3>4. CASE ~(i <= n)
      <4>1. at + i - 1 \notin at..(at + Len(bytes) - 1)
        BY <1>1, <1>3, <3>1, <3>4
      <4>2. m[at + i - 1] = b.mem[at + i - 1]
        BY <1>5, <3>2, <4>1
      <4>3. i - n \in 1..Len(peek(b)) /\ at + i - 1 = b.reader + (i - n) - 1
        <5> DEFINE k == Len(peek(b))
        <5>1. k \in Nat /\ i \in 1..(n + k)
          BY <1>7, <3>1
        <5> HIDE DEF k, n
        <5>2. i - n \in 1..k
          BY <1>1, <3>4, <5>1
        <5>3. at + i - 1 = b.reader + (i - n) - 1
          BY <1>1, <1>3, <1>9, <5>1
        <5> QED
          BY <5>2, <5>3 DEF k
      <4>4. b.mem[at + i - 1] = peek(b)[i - n]
        BY <1>7, <4>3
      <4> QED
        BY <1>2, <1>8, <3>1, <3>4, <4>2, <4>4
    <3> QED
      BY <3>3, <3>4
  <2> QED
    BY <2>1, <2>2 DEF Holds
<1> QED
  BY <1>8, <1>10, <1>11, HoldsIsPeek DEF s

(* retrieve() shortens them at their front.                                *)
LEMMA RetrieveRetrieves ==
    ASSUME NEW b, IsBuffer(b), NEW len \in 0..readableBytes(b)
    PROVE  /\ IsBuffer(retrieve(b, len))
           /\ peek(retrieve(b, len)) = SubSeq(peek(b), len + 1, Len(peek(b)))
<1> DEFINE s == SubSeq(peek(b), len + 1, Len(peek(b)))
           r == retrieve(b, len)
<1>1. /\ peek(b) \in Seq(Bytes) /\ Len(peek(b)) = b.writer - b.reader
      /\ b.writer - b.reader \in Nat
      /\ \A i \in 1..Len(peek(b)) : b.mem[b.reader + i - 1] = peek(b)[i]
  BY PeekHolds DEF Holds
<1>2. /\ b.size \in Nat /\ b.reader \in Nat /\ b.writer \in Nat
      /\ b.reader <= b.writer /\ b.writer <= b.size /\ len \in Nat
      /\ len <= b.writer - b.reader /\ kCheapPrepend \in Nat
  BY BufferAssumption DEF IsBuffer, readableBytes
<1>3. \A i \in (len + 1)..Len(peek(b)) : peek(b)[i] \in Bytes
  BY <1>1, <1>2, ElementOfSeq
<1>4. /\ s \in Seq(Bytes)
      /\ Len(s) = b.writer - b.reader - len
      /\ \A i \in 1..Len(s) : s[i] = peek(b)[len + i]
  <2>1. /\ s \in Seq(Bytes)
        /\ Len(s) = IF len + 1 <= Len(peek(b))
                    THEN Len(peek(b)) - (len + 1) + 1 ELSE 0
        /\ \A i \in 1..(Len(peek(b)) - (len + 1) + 1) :
              s[i] = peek(b)[len + 1 + i - 1]
    <3>1. len + 1 \in Int /\ Len(peek(b)) \in Int
      BY <1>1, <1>2
    <3> QED
      BY <1>3, <3>1, SubSeqProperties, SMTT(30)
  <2> HIDE DEF s
  <2>2. Len(s) = b.writer - b.reader - len
    BY <1>1, <1>2, <2>1
  <2>3. ASSUME NEW i \in 1..Len(s) PROVE s[i] = peek(b)[len + i]
    <3>1. i \in 1..(Len(peek(b)) - (len + 1) + 1) /\ len + 1 + i - 1 = len + i
      BY <1>1, <1>2, <2>2
    <3> QED
      BY <2>1, <3>1
  <2> QED
    BY <2>1, <2>2, <2>3
<1> HIDE DEF s
<1>5. CASE len < readableBytes(b)
  <2>1. r = [mem |-> b.mem, size |-> b.size, reader |-> b.reader + len,
             writer |-> b.writer]
    BY <1>5 DEF retrieve, IsBuffer
  <2>2. IsBuffer(r)
    BY <1>2, <2>1 DEF IsBuffer
  <2>3. Holds(r, s)
    <3>1. readableBytes(r) = Len(s)
      BY <1>2, <1>4, <2>1 DEF readableBytes
    <3>2. ASSUME NEW i \in 1..Len(s)
          PROVE  r.mem[r.reader + i - 1] = s[i]
      <4>1. /\ len + i \in 1..Len(peek(b))
            /\ b.reader + len + i - 1 = b.reader + (len + i) - 1
        BY <1>1, <1>2, <1>4, SMTT(20)
      <4> QED
        BY <1>1, <1>4, <2>1, <4>1
    <3> QED
      BY <3>1, <3>2 DEF Holds
  <2> QED
    BY <1>4, <2>2, <2>3, HoldsIsPeek DEF s
<1>6. CASE ~(len < readableBytes(b))
  <2>1. r = [mem |-> b.mem, size |-> b.size, reader |-> kCheapPrepend,
             writer |-> kCheapPrepend]
    BY <1>6 DEF retrieve, retrieveAll
  <2>2. IsBuffer(r)
    BY <1>2, <2>1 DEF IsBuffer
  <2>3. Len(s) = 0
    BY <1>2, <1>4, <1>6 DEF readableBytes
  <2>4. Holds(r, s)
    BY <1>2, <2>1, <2>3 DEF Holds, readableBytes
  <2> QED
    BY <1>4, <2>2, <2>4, HoldsIsPeek DEF s
<1> QED
  BY <1>5, <1>6

(* unwrite() shortens them at their end.                                   *)
LEMMA UnwriteUnwrites ==
    ASSUME NEW b, IsBuffer(b), NEW len \in 0..readableBytes(b)
    PROVE  /\ IsBuffer(unwrite(b, len))
           /\ peek(unwrite(b, len)) = SubSeq(peek(b), 1, Len(peek(b)) - len)
<1> DEFINE s == SubSeq(peek(b), 1, Len(peek(b)) - len)
           r == unwrite(b, len)
<1>1. /\ peek(b) \in Seq(Bytes) /\ Len(peek(b)) = b.writer - b.reader
      /\ b.writer - b.reader \in Nat
      /\ \A i \in 1..Len(peek(b)) : b.mem[b.reader + i - 1] = peek(b)[i]
  BY PeekHolds DEF Holds
<1>2. /\ len \in Nat /\ len <= b.writer - b.reader
      /\ b.size \in Nat /\ b.reader \in Nat /\ b.writer \in Nat
      /\ b.writer <= b.size /\ b.reader <= b.writer
  BY DEF IsBuffer, readableBytes
<1>3. r = [mem |-> b.mem, size |-> b.size, reader |-> b.reader,
           writer |-> b.writer - len]
  BY DEF unwrite, IsBuffer
<1>4. IsBuffer(r)
  BY <1>2, <1>3 DEF IsBuffer
<1>5. /\ s \in Seq(Bytes)
      /\ Len(s) = b.writer - b.reader - len
      /\ \A i \in 1..Len(s) : s[i] = peek(b)[i]
  <2>1. /\ 1 \in Int /\ Len(peek(b)) - len \in Int
        /\ \A i \in 1..(Len(peek(b)) - len) : peek(b)[i] \in Bytes
    BY <1>1, <1>2, ElementOfSeq
  <2>2. /\ s \in Seq(Bytes)
        /\ Len(s) = IF 1 <= Len(peek(b)) - len
                    THEN Len(peek(b)) - len - 1 + 1 ELSE 0
        /\ \A i \in 1..(Len(peek(b)) - len - 1 + 1) : s[i] = peek(b)[1 + i - 1]
    BY <2>1, SubSeqProperties
  <2> HIDE DEF s
  <2>3. Len(s) = b.writer - b.reader - len
    BY <1>1, <1>2, <2>2
  <2>4. ASSUME NEW i \in 1..Len(s) PROVE s[i] = peek(b)[i]
    <3>1. i \in 1..(Len(peek(b)) - len - 1 + 1) /\ 1 + i - 1 = i
      BY <1>1, <1>2, <2>3
    <3> QED
      BY <2>2, <3>1
  <2> QED
    BY <2>2, <2>3, <2>4
<1> HIDE DEF s
<1>6. Holds(r, s)
  <2>1. readableBytes(r) = Len(s)
    BY <1>2, <1>3, <1>5 DEF readableBytes
  <2>2. ASSUME NEW i \in 1..Len(s)
        PROVE  r.mem[r.reader + i - 1] = s[i]
    <3>1. i \in 1..Len(peek(b))
      BY <1>1, <1>2, <1>5
    <3> QED
      BY <1>1, <1>3, <1>5, <3>1
  <2> QED
    BY <2>1, <2>2 DEF Holds
<1> QED
  BY <1>4, <1>5, <1>6, HoldsIsPeek DEF s

(* A sequence is its first n elements followed by the others.              *)
LEMMA SplitConcat ==
    ASSUME NEW S, NEW s \in Seq(S), NEW n \in 0..Len(s)
    PROVE  /\ SubSeq(s, 1, n) \in Seq(S) /\ Len(SubSeq(s, 1, n)) = n
           /\ SubSeq(s, n + 1, Len(s)) \in Seq(S)
           /\ Len(SubSeq(s, n + 1, Len(s))) = Len(s) - n
           /\ SubSeq(s, 1, n) \o SubSeq(s, n + 1, Len(s)) = s
<1> DEFINE t == SubSeq(s, 1, n)
           u == SubSeq(s, n + 1, Len(s))
<1>1. Len(s) \in Nat /\ n \in Nat /\ n <= Len(s)
  BY LenProperties
<1>2. \A i \in 1..Len(s) : s[i] \in S
  BY ElementOfSeq
<1>3. /\ t \in Seq(S) /\ Len(t) = n
      /\ \A i \in 1..n : t[i] = s[i]
  <2>1. \A i \in 1..n : s[i] \in S
    BY <1>1, <1>2
  <2>2. /\ t \in Seq(S) /\ Len(t) = IF 1 <= n THEN n - 1 + 1 ELSE 0
        /\ \A i \in 1..(n - 1 + 1) : t[i] = s[1 + i - 1]
    BY <1>1, <2>1, SubSeqProperties
  <2> HIDE DEF t
  <2>3. n - 1 + 1 = n /\ \A i \in 1..n : 1 + i - 1 = i
    BY <1>1
  <2> QED
    BY <1>1, <2>2, <2>3
<1>4. /\ u \in Seq(S) /\ Len(u) = Len(s) - n
      /\ \A i \in 1..(Len(s) - n) : u[i] = s[n + i]
  <2>1. \A i \in (n + 1)..Len(s) : s[i] \in S
    BY <1>1, <1>2
  <2>2. /\ u \in Seq(S)
        /\ Len(u) = IF n + 1 <= Len(s) THEN Len(s) - (n + 1) + 1 ELSE 0
        /\ \A i \in 1..(Len(s) - (n + 1) + 1) : u[i] = s[n + 1 + i - 1]
    BY <1>1, <2>1, SubSeqProperties
  <2> HIDE DEF u
  <2>3. Len(s) - (n + 1) + 1 = Len(s) - n
    BY <1>1
  <2>4. Len(u) = Len(s) - n
    <3>1. CASE n + 1 <= Len(s)
      BY <2>2, <2>3, <3>1
    <3>2. CASE ~(n + 1 <= Len(s))
      <4>1. Len(s) - n = 0
        BY <1>1, <3>2
      <4> QED
        BY <2>2, <3>2, <4>1
    <3> QED
      BY <3>1, <3>2
  <2>5. ASSUME NEW i \in 1..(Len(s) - n) PROVE u[i] = s[n + i]
    <3>1. i \in 1..(Len(s) - (n + 1) + 1) /\ n + 1 + i - 1 = n + i
      BY <1>1, <2>3
    <3> QED
      BY <2>2, <3>1
  <2> QED
    BY <2>2, <2>4, <2>5
<1> HIDE DEF t, u
<1>5. /\ t \o u \in Seq(S) /\ Len(t \o u) = Len(t) + Len(u)
      /\ \A i \in 1..(Len(t) + Len(u)) :
            (t \o u)[i] = IF i <= Len(t) THEN t[i] ELSE u[i - Len(t)]
  BY <1>3, <1>4, ConcatProperties
<1>6. Len(t \o u) = Len(s)
  BY <1>1, <1>3, <1>4, <1>5
<1>7. ASSUME NEW i \in 1..Len(s) PROVE (t \o u)[i] = s[i]
  <2>1. i \in 1..(Len(t) + Len(u))
    BY <1>1, <1>3, <1>4
  <2>2. CASE i <= n
    <3>1. i \in 1..n
      BY <1>1, <2>2
    <3> QED
      BY <1>3, <1>5, <2>1, <2>2, <3>1
  <2>3. CASE ~(i <= n)
    <3>1. i - n \in 1..(Len(s) - n) /\ n + (i - n) = i
      BY <1>1, <2>3
    <3>2. u[i - n] = s[i]
      BY <1>4, <3>1
    <3> QED
      BY <1>3, <1>5, <2>1, <2>3, <3>2
  <2> QED
    BY <2>2, <2>3
<1>8. t \o u = s
  BY <1>5, <1>6, <1>7, SeqEqual
<1> QED
  BY <1>3, <1>4, <1>8 DEF t, u

(* readFd() writes what the two arrays of readv received, in order.        *)
LEMMA ReadFdAppends ==
    ASSUME NEW b, IsBuffer(b), NEW bytes \in Seq(Bytes)
    PROVE  /\ IsBuffer(readFd(b, bytes))
           /\ peek(readFd(b, bytes)) = peek(b) \o bytes
           /\ readFd(b, bytes).reader \in {b.reader, kCheapPrepend}
           /\ ~(Len(bytes) <= writableBytes(b)) =>
                 FailedIn(put(b, SubSeq(bytes, 1, writableBytes(b))),
                          Len(bytes) - writableBytes(b)) = {}
<1>1. CASE Len(bytes) <= writableBytes(b)
  BY <1>1, PutAppends DEF readFd
<1>2. CASE ~(Len(bytes) <= writableBytes(b))
  <2> DEFINE w == writableBytes(b)
             d1 == SubSeq(bytes, 1, w)
             d2 == SubSeq(bytes, w + 1, Len(bytes))
             c == put(b, d1)
  <2>1. w \in 0..Len(bytes)
    BY <1>2, LenProperties DEF writableBytes, IsBuffer
  <2> HIDE DEF w
  <2>2. /\ d1 \in Seq(Bytes) /\ Len(d1) = w
        /\ d2 \in Seq(Bytes) /\ Len(d2) = Len(bytes) - w
        /\ d1 \o d2 = bytes
    BY <2>1, SplitConcat
  <2> HIDE DEF d1, d2
  <2>3. /\ IsBuffer(c) /\ peek(c) = peek(b) \o d1 /\ c.reader = b.reader
    BY <2>1, <2>2, PutAppends DEF w
  <2> HIDE DEF c
  <2>4. /\ IsBuffer(append(c, d2)) /\ peek(append(c, d2)) = peek(c) \o d2
        /\ append(c, d2).reader \in {c.reader, kCheapPrepend}
        /\ FailedIn(c, Len(d2)) = {}
    BY <2>2, <2>3, AppendAppends
  <2>5. peek(b) \in Seq(Bytes)
    BY PeekHolds
  <2>6. peek(append(c, d2)) = peek(b) \o bytes
    <3>1. PICK x \in Seq(Bytes), y \in Seq(Bytes), z \in Seq(Bytes) :
             x = peek(b) /\ y = d1 /\ z = d2
      BY <2>2, <2>5
    <3>2. (x \o y) \o z = x \o (y \o z)
      BY ConcatAssociative
    <3> QED
      BY <2>2, <2>3, <2>4, <3>1, <3>2
  <2>7. readFd(b, bytes) = append(c, d2)
    BY <1>2 DEF readFd, c, d1, d2, w
  <2> QED
    BY <2>2, <2>3, <2>4, <2>6, <2>7 DEF c, d1, w
<1> QED
  BY <1>1, <1>2

-----------------------------------------------------------------------------
(* The calls.                                                              *)

(* What holds between two calls.                                           *)
BufferInv == IsBuffer(buf) /\ failed = {}

(* The constructor's buffer is well formed and has nothing to read.        *)
LEMMA InitHolds == Init => BufferInv /\ peek(buf) = <<>>
<1> SUFFICES ASSUME Init PROVE BufferInv /\ peek(buf) = <<>>
  OBVIOUS
<1> USE BufferAssumption
<1>1. PICK k \in Nat, n \in Nat : k = kCheapPrepend /\ n = kCheapPrepend + kInitialSize
                                  /\ k <= n
  OBVIOUS
<1>2. buf = [mem |-> [i \in 0..(n - 1) |-> 0], size |-> n, reader |-> k, writer |-> k]
  BY <1>1 DEF Init, Buffer
<1>3. IsBuffer(buf)
  BY <1>1, <1>2 DEF IsBuffer
<1>4. readableBytes(buf) = 0
  BY <1>1, <1>2 DEF readableBytes
<1>5. Holds(buf, <<>>)
  BY <1>4, EmptySeq DEF Holds
<1>6. peek(buf) = <<>>
  BY <1>3, <1>5, EmptySeq, HoldsIsPeek
<1> QED
  BY <1>3, <1>6 DEF BufferInv, Init

(* A step of the program keeps the buffer well formed, fails no assertion, *)
(* keeps the prepend area unless it prepends, and is a step of the queue.  *)
LEMMA StepHolds ==
    ASSUME BufferInv, Next
    PROVE  /\ BufferInv'
           /\ call'[1] = "prepend" \/ buf'.reader >= kCheapPrepend
                                   \/ buf'.reader >= buf.reader
           /\ BQ!Next
<1> USE DEF BufferInv
<1>b. /\ IsBuffer(buf) /\ failed = {}
      /\ buf.reader \in Nat /\ buf.writer \in Nat /\ buf.size \in Nat
      /\ kCheapPrepend \in Nat /\ kExtraSize \in Nat
  BY BufferAssumption DEF IsBuffer
<1>p. /\ peek(buf) \in Seq(Bytes)
      /\ Len(peek(buf)) = readableBytes(buf)
      /\ Len(peek(buf)) \in Nat
  BY <1>b, PeekHolds DEF readableBytes
<1>1. ASSUME NEW bytes \in Data, CallAppend(bytes)
      PROVE  BufferInv' /\ (buf'.reader >= kCheapPrepend \/ buf'.reader >= buf.reader)
             /\ BQ!Write(bytes)
  <2>1. bytes \in Seq(Bytes)
    BY DataAreBytes
  <2>2. /\ IsBuffer(append(buf, bytes))
        /\ peek(append(buf, bytes)) = peek(buf) \o bytes
        /\ append(buf, bytes).reader \in {buf.reader, kCheapPrepend}
        /\ FailedIn(buf, Len(bytes)) = {}
    BY <1>b, <2>1, AppendAppends
  <2> QED
    BY <1>1, <1>b, <2>2 DEF CallAppend, BQ!Write
<1>2. ASSUME NEW bytes \in Data, CallPrepend(bytes)
      PROVE  BufferInv' /\ call'[1] = "prepend" /\ BQ!Prepend(bytes)
  <2>1. bytes \in Seq(Bytes) /\ Len(bytes) <= prependableBytes(buf)
    BY <1>2, DataAreBytes DEF CallPrepend
  <2>2. /\ IsBuffer(prepend(buf, bytes))
        /\ peek(prepend(buf, bytes)) = bytes \o peek(buf)
    BY <1>b, <2>1, PrependPrepends
  <2> QED
    BY <1>2, <1>b, <2>2 DEF CallPrepend, BQ!Prepend
<1>3. ASSUME NEW len \in 0..readableBytes(buf), CallRetrieve(len)
      PROVE  BufferInv' /\ (buf'.reader >= kCheapPrepend \/ buf'.reader >= buf.reader)
             /\ BQ!Read(len)
  <2>1. /\ IsBuffer(retrieve(buf, len))
        /\ peek(retrieve(buf, len)) = SubSeq(peek(buf), len + 1, Len(peek(buf)))
    BY <1>b, RetrieveRetrieves
  <2>2. retrieve(buf, len).reader \in {buf.reader + len, kCheapPrepend}
    BY <1>b DEF retrieve, retrieveAll, IsBuffer
  <2>3. len \in Nat
    BY <1>p
  <2> QED
    BY <1>3, <1>b, <2>1, <2>2, <2>3 DEF CallRetrieve, BQ!Read
<1>4. ASSUME CallRetrieveAll
      PROVE  BufferInv' /\ buf'.reader >= kCheapPrepend /\ BQ!Read(Len(peek(buf)))
  <2>1. PICK n \in 0..readableBytes(buf) : n = readableBytes(buf)
    BY <1>p
  <2>2. retrieve(buf, n) = retrieveAll(buf)
    BY <1>p, <2>1 DEF retrieve
  <2>3. /\ IsBuffer(retrieve(buf, n))
        /\ peek(retrieve(buf, n)) = SubSeq(peek(buf), n + 1, Len(peek(buf)))
    BY <1>b, RetrieveRetrieves
  <2>4. retrieveAll(buf).reader = kCheapPrepend
    BY DEF retrieveAll
  <2>5. SubSeq(peek(buf), 1, n) = peek(buf)
    BY <1>p, <2>1, SubSeqFull
  <2> QED
    BY <1>4, <1>b, <1>p, <2>1, <2>2, <2>3, <2>4, <2>5 DEF CallRetrieveAll, BQ!Read
<1>5. ASSUME NEW len \in 0..readableBytes(buf), CallUnwrite(len)
      PROVE  BufferInv' /\ buf'.reader >= buf.reader /\ BQ!Unwrite(len)
  <2>1. /\ IsBuffer(unwrite(buf, len))
        /\ peek(unwrite(buf, len)) = SubSeq(peek(buf), 1, Len(peek(buf)) - len)
    BY <1>b, UnwriteUnwrites
  <2>2. unwrite(buf, len).reader = buf.reader
    BY <1>b DEF unwrite, IsBuffer
  <2> QED
    BY <1>5, <1>b, <2>1, <2>2 DEF CallUnwrite, BQ!Unwrite
<1>6. ASSUME NEW len \in 0..MaxLen, CallEnsureWritable(len)
      PROVE  BufferInv' /\ (buf'.reader >= kCheapPrepend \/ buf'.reader >= buf.reader)
             /\ BQ!Unwrite(0)
  <2>1. len \in Nat
    BY BufferAssumption
  <2>2. /\ IsBuffer(ensureWritableBytes(buf, len))
        /\ peek(ensureWritableBytes(buf, len)) = peek(buf)
        /\ ensureWritableBytes(buf, len).reader \in {buf.reader, kCheapPrepend}
        /\ FailedIn(buf, len) = {}
    BY <1>b, <2>1, EnsureKeeps
  <2>3. SubSeq(peek(buf), 1, Len(peek(buf)) - 0) = peek(buf)
    BY <1>p, SubSeqFull
  <2> QED
    BY <1>6, <1>b, <2>2, <2>3 DEF CallEnsureWritable, BQ!Unwrite
<1>7. ASSUME NEW bytes \in Data, WriteInPlace(bytes)
      PROVE  BufferInv' /\ buf'.reader >= buf.reader /\ BQ!Write(bytes)
  <2>1. bytes \in Seq(Bytes) /\ Len(bytes) <= writableBytes(buf)
    BY <1>7, DataAreBytes DEF WriteInPlace
  <2>2. /\ IsBuffer(put(buf, bytes))
        /\ peek(put(buf, bytes)) = peek(buf) \o bytes
        /\ put(buf, bytes).reader = buf.reader
    BY <1>b, <2>1, PutAppends
  <2> QED
    BY <1>7, <1>b, <2>2 DEF WriteInPlace, BQ!Write
<1>8. ASSUME NEW bytes \in Data, CallReadFd(bytes)
      PROVE  BufferInv' /\ (buf'.reader >= kCheapPrepend \/ buf'.reader >= buf.reader)
             /\ BQ!Write(bytes)
  <2>1. bytes \in Seq(Bytes)
    BY DataAreBytes
  <2>2. /\ IsBuffer(readFd(buf, bytes))
        /\ peek(readFd(buf, bytes)) = peek(buf) \o bytes
        /\ readFd(buf, bytes).reader \in {buf.reader, kCheapPrepend}
        /\ ~(Len(bytes) <= writableBytes(buf)) =>
              FailedIn(put(buf, SubSeq(bytes, 1, writableBytes(buf))),
                       Len(bytes) - writableBytes(buf)) = {}
    BY <1>b, <2>1, ReadFdAppends
  <2> QED
    BY <1>8, <1>b, <2>2 DEF CallReadFd, BQ!Write
<1>9. 0 \in 0..Len(peek(buf)) /\ Len(peek(buf)) \in 0..Len(peek(buf))
  BY <1>p
<1> HIDE DEF BufferInv
<1> QED
  BY <1>1, <1>2, <1>3, <1>4, <1>5, <1>6, <1>7, <1>8, <1>9, <1>p DEF Next, BQ!Next

(* A stuttering step changes none of it.                                   *)
LEMMA StutterHolds ==
    ASSUME BufferInv, UNCHANGED vars
    PROVE  /\ BufferInv'
           /\ UNCHANGED <<buf, call, failed, peek(buf)>>
BY DEF vars, BufferInv, IsBuffer, peek, readableBytes

LEMMA BufferInvAlways == Spec => []BufferInv
<1>1. Init => BufferInv
  BY InitHolds
<1>2. BufferInv /\ [Next]_vars => BufferInv'
  BY StepHolds, StutterHolds
<1> QED
  BY <1>1, <1>2, PTL DEF Spec

(* The buffer is well formed: 0 <= readerIndex_ <= writerIndex_ <= the     *)
(* array's size through every call, and every cell is a byte.              *)
THEOREM Typing == Spec => []TypeOK
<1>1. BufferInv => TypeOK
  BY DEF BufferInv, TypeOK
<1> QED
  BY <1>1, BufferInvAlways, PTL

(* The assertions of ensureWritableBytes and extend hold: there is room    *)
(* ahead whenever the code moves the bytes and does not grow the array.    *)
THEOREM AssertionsAlwaysHold == Spec => []AssertionsHold
<1>1. BufferInv => AssertionsHold
  BY DEF BufferInv, AssertionsHold
<1> QED
  BY <1>1, BufferInvAlways, PTL

(* Only prepend() uses up the first kCheapPrepend bytes.                   *)
THEOREM CheapPrependIsKept == Spec => CheapPrependKept
<1>1. BufferInv /\ [Next]_vars =>
         [buf'.reader < buf.reader =>
             call'[1] = "prepend" \/ buf'.reader >= kCheapPrepend]_vars
  <2> SUFFICES ASSUME BufferInv, Next, buf'.reader < buf.reader
               PROVE  call'[1] = "prepend" \/ buf'.reader >= kCheapPrepend
    OBVIOUS
  <2>1. /\ BufferInv'
        /\ \/ call'[1] = "prepend" \/ buf'.reader >= kCheapPrepend
           \/ buf'.reader >= buf.reader
    BY StepHolds
  <2>2. buf.reader \in Nat /\ buf'.reader \in Nat
    BY <2>1 DEF BufferInv, IsBuffer
  <2> QED
    BY <2>1, <2>2
<1> QED
  BY <1>1, BufferInvAlways, PTL DEF Spec, CheapPrependKept

(* The buffer is a queue of bytes: through growing, moving ahead and       *)
(* reading in two pieces, what is read is what was written, in order.      *)
THEOREM BufferImplementsByteQueue == Spec => ImplementsByteQueue
<1>1. Init => BQ!Init
  BY InitHolds DEF Init, BQ!Init
<1>2. BufferInv /\ [Next]_vars => [BQ!Next]_(BQ!vars)
  BY StepHolds, StutterHolds DEF BQ!vars
<1> QED
  BY <1>1, <1>2, BufferInvAlways, PTL DEF Spec, BQ!Spec, ImplementsByteQueue

-----------------------------------------------------------------------------
(* A day's number counts the years that begin in March, the days of their  *)
(* months before this one, and the days of the month.                      *)
MonthsBefore(m) == (153 * m + 2) \div 5

YearsBefore(y) == y * 365 + y \div 4 - y \div 100 + y \div 400

(* A day from the year 0 on.                                               *)
IsDay(d) ==
    /\ d = [year |-> d.year, month |-> d.month, day |-> d.day]
    /\ d.year \in Nat
    /\ d.month \in 1..12
    /\ d.day \in 1..Cal!daysOfMonth(d.year, d.month)

(* The months from March on, those of 30 and of 31 days.                   *)
LEMMA MonthsBeforeIs ==
    /\ MonthsBefore(0) = 0    /\ MonthsBefore(1) = 31   /\ MonthsBefore(2) = 61
    /\ MonthsBefore(3) = 92   /\ MonthsBefore(4) = 122  /\ MonthsBefore(5) = 153
    /\ MonthsBefore(6) = 184  /\ MonthsBefore(7) = 214  /\ MonthsBefore(8) = 245
    /\ MonthsBefore(9) = 275  /\ MonthsBefore(10) = 306
    /\ MonthsBefore(11) = 337
BY DEF MonthsBefore

(* A year that begins in March has the leap day of the next year.          *)
LEMMA YearsBeforeNext ==
    ASSUME NEW y \in Nat
    PROVE  YearsBefore(y + 1)
              = YearsBefore(y) + (IF Cal!isLeapYear(y + 1) THEN 366 ELSE 365)
<1>1. (y + 1) \div 4 - y \div 4 = IF (y + 1) % 4 = 0 THEN 1 ELSE 0
  OBVIOUS
<1>2. (y + 1) \div 100 - y \div 100 = IF (y + 1) % 100 = 0 THEN 1 ELSE 0
  OBVIOUS
<1>3. (y + 1) \div 400 - y \div 400 = IF (y + 1) % 400 = 0 THEN 1 ELSE 0
  OBVIOUS
<1>4. (y + 1) % 400 = 0 => (y + 1) % 100 = 0
  OBVIOUS
<1>5. (y + 1) % 100 = 0 => (y + 1) % 4 = 0
  OBVIOUS
<1> QED
  BY <1>1, <1>2, <1>3, <1>4, <1>5 DEF YearsBefore, Cal!isLeapYear

(* 4800 years are a whole number of cycles.                                *)
LEMMA LeapYearsRecur ==
    ASSUME NEW y \in Nat
    PROVE  Cal!isLeapYear(y + 4800) <=> Cal!isLeapYear(y)
<1>1. /\ (y + 4800) % 400 = y % 400
      /\ (y + 4800) % 100 = y % 100
      /\ (y + 4800) % 4 = y % 4
  OBVIOUS
<1> QED
  BY <1>1 DEF Cal!isLeapYear

(* The divisions by 4 go through the sums.                                 *)
LEMMA QuartersOf ==
    \A x \in Nat :
       /\ x \div 4 \in Nat /\ x % 4 = x - 4 * (x \div 4) /\ x % 4 \in 0..3
       /\ (1461 * x) \div 4 = 365 * x + x \div 4
       /\ (x * 146097) \div 4 = 36524 * x + x \div 4
<1> SUFFICES ASSUME NEW x \in Nat
             PROVE  /\ x \div 4 \in Nat
                    /\ x % 4 = x - 4 * (x \div 4) /\ x % 4 \in 0..3
                    /\ (1461 * x) \div 4 = 365 * x + x \div 4
                    /\ (x * 146097) \div 4 = 36524 * x + x \div 4
  OBVIOUS
<1>1. x \div 4 \in Nat
  OBVIOUS
<1>4. x % 4 \in 0..3
  OBVIOUS
<1>5. x % 4 = x - 4 * (x \div 4)
  OBVIOUS
<1>2. (1461 * x) \div 4 = 365 * x + x \div 4
  OBVIOUS
<1>3. (x * 146097) \div 4 = 36524 * x + x \div 4
  OBVIOUS
<1> QED
  BY <1>1, <1>2, <1>3, <1>4, <1>5

(* A year and the day in it, by the centuries b and the years d of date.cc.*)
LEMMA CenturiesAndYears ==
    ASSUME NEW b \in Nat, NEW d \in 0..99
    PROVE  YearsBefore(100 * b + d)
              = (b * 146097) \div 4 + (1461 * d) \div 4
<1>1. (100 * b + d) \div 4 = 25 * b + d \div 4
  OBVIOUS
<1>2. (100 * b + d) \div 100 = b
  OBVIOUS
<1>3. (100 * b + d) \div 400 = b \div 4
  OBVIOUS
<1> QED
  BY <1>1, <1>2, <1>3, QuartersOf DEF YearsBefore

(* The divisions of date.cc: the days of b centuries and of d years, and   *)
(* the century and the year of a day.                                      *)
DaysOfCenturies(b) == (b * 146097) \div 4

DaysOfYears(d) == (1461 * d) \div 4

CenturyOf(a) == (4 * a + 3) \div 146097

YearOf(c) == (4 * c + 3) \div 1461

(* They find the century, the year and the day in it.                      *)
LEMMA DivisionsFind ==
    ASSUME NEW b \in Nat, NEW d \in 0..99, NEW e \in 0..365,
           e = 365 => Cal!isLeapYear(100 * b + d + 1)
    PROVE  /\ CenturyOf(DaysOfCenturies(b) + (DaysOfYears(d) + e)) = b
           /\ YearOf(DaysOfYears(d) + e) = d
<1> DEFINE c == DaysOfYears(d) + e
           a == DaysOfCenturies(b) + c
<1>11. c = (1461 * d) \div 4 + e /\ a = (b * 146097) \div 4 + c
  BY DEF DaysOfCenturies, DaysOfYears
<1> HIDE DEF c, a
<1>1. /\ (1461 * d) \div 4 = 365 * d + d \div 4
      /\ d \div 4 \in Nat /\ d % 4 = d - 4 * (d \div 4)
  BY QuartersOf
<1>2. /\ (b * 146097) \div 4 = 36524 * b + b \div 4
      /\ b \div 4 \in Nat /\ b % 4 = b - 4 * (b \div 4)
  BY QuartersOf
<1>3. d % 4 \in 0..3 /\ b % 4 \in 0..3
  BY QuartersOf
<1>4. e = 365 => d % 4 = 3
  <2>1. (100 * b + d + 1) % 4 = (d + 1) % 4
    OBVIOUS
  <2>2. (100 * b + d + 1) % 400 = 0 => (100 * b + d + 1) % 4 = 0
    OBVIOUS
  <2>3. (d + 1) % 4 = 0 => d % 4 = 3
    OBVIOUS
  <2> QED
    BY <2>1, <2>2, <2>3 DEF Cal!isLeapYear
<1>5. e = 365 /\ d = 99 => b % 4 = 3
  <2>1. (100 * b + 100) % 100 = 0
    OBVIOUS
  <2>2. (100 * b + 100) % 400 = 0 => b % 4 = 3
    OBVIOUS
  <2>3. 100 * b + 99 + 1 = 100 * b + 100
    OBVIOUS
  <2> QED
    BY <2>1, <2>2, <2>3 DEF Cal!isLeapYear
<1>6. c \in Nat /\ a \in Nat
  BY <1>1, <1>2, <1>11
<1>7. 1461 * d <= 4 * c + 3 /\ 4 * c + 3 < 1461 * (d + 1)
  BY <1>1, <1>3, <1>4, <1>11
<1>8. 146097 * b <= 4 * a + 3 /\ 4 * a + 3 < 146097 * (b + 1)
  BY <1>1, <1>2, <1>3, <1>4, <1>5, <1>11
<1>9. (4 * c + 3) \div 1461 = d
  BY <1>6, <1>7
<1>10. (4 * a + 3) \div 146097 = b
  BY <1>6, <1>8
<1> QED
  BY <1>9, <1>10 DEF c, a, CenturyOf, YearOf

(* The months of a year that begins in March are found from the day in it. *)
LEMMA MonthFound ==
    ASSUME NEW m \in 0..11, NEW day \in Nat \ {0},
           day <= (IF m = 11 THEN 29 ELSE IF m \in {1, 3, 6, 8} THEN 30 ELSE 31),
           NEW e, e = MonthsBefore(m) + day - 1
    PROVE  /\ (5 * e + 2) \div 153 = m
           /\ e \in 0..365
           /\ e = 365 => m = 11 /\ day = 29
<1>0. CASE m = 0
  BY <1>0, MonthsBeforeIs
<1>1. CASE m = 1
  BY <1>1, MonthsBeforeIs
<1>2. CASE m = 2
  BY <1>2, MonthsBeforeIs
<1>3. CASE m = 3
  BY <1>3, MonthsBeforeIs
<1>4. CASE m = 4
  BY <1>4, MonthsBeforeIs
<1>5. CASE m = 5
  BY <1>5, MonthsBeforeIs
<1>6. CASE m = 6
  BY <1>6, MonthsBeforeIs
<1>7. CASE m = 7
  BY <1>7, MonthsBeforeIs
<1>8. CASE m = 8
  BY <1>8, MonthsBeforeIs
<1>9. CASE m = 9
  BY <1>9, MonthsBeforeIs
<1>10. CASE m = 10
  BY <1>10, MonthsBeforeIs
<1>11. CASE m = 11
  BY <1>11, MonthsBeforeIs
<1> QED
  BY <1>0, <1>1, <1>2, <1>3, <1>4, <1>5, <1>6, <1>7, <1>8, <1>9, <1>10, <1>11

(* The month as date.cc counts it, and the year that begins in March.      *)
Ago(month) == IF month <= 2 THEN 1 ELSE 0

LEMMA NumberOfDay ==
    ASSUME NEW d, IsDay(d)
    PROVE  /\ Cal!getJulianDayNumber(d.year, d.month, d.day)
                 = d.day + MonthsBefore(d.month + 12 * Ago(d.month) - 3)
                     + YearsBefore(d.year + 4800 - Ago(d.month)) - 32045
           /\ d.year + 4800 - Ago(d.month) \in Nat
           /\ d.month + 12 * Ago(d.month) - 3 \in 0..11
<1>1. (14 - d.month) \div 12 = Ago(d.month)
  BY DEF IsDay, Ago
<1>2. d.month + 12 * Ago(d.month) - 3 \in 0..11
  BY DEF IsDay, Ago
<1>3. d.year + 4800 - Ago(d.month) \in Nat
  BY DEF IsDay, Ago
<1>4. Cal!getJulianDayNumber(d.year, d.month, d.day)
         = LET a == Ago(d.month)
               y == d.year + 4800 - a
               m == d.month + 12 * a - 3
           IN  d.day + (153 * m + 2) \div 5 + y * 365
                   + y \div 4 - y \div 100 + y \div 400 - 32045
  BY <1>1, SMT DEF Cal!getJulianDayNumber
<1>5. d.day \in Int
  BY DEF IsDay, Cal!daysOfMonth
<1> DEFINE y == d.year + 4800 - Ago(d.month)
           n == MonthsBefore(d.month + 12 * Ago(d.month) - 3)
<1>6. Cal!getJulianDayNumber(d.year, d.month, d.day)
         = d.day + n + y * 365 + y \div 4 - y \div 100 + y \div 400 - 32045
  BY <1>4 DEF MonthsBefore
<1>7. n \in Int
  BY <1>2 DEF MonthsBefore
<1>8. y \in Nat
  BY <1>3
<1> HIDE DEF y, n
<1>9. Cal!getJulianDayNumber(d.year, d.month, d.day)
         = d.day + n + YearsBefore(y) - 32045
  BY <1>5, <1>6, <1>7, <1>8 DEF YearsBefore
<1> QED
  BY <1>2, <1>3, <1>9 DEF y, n

(* What getJulianDayNumber counts, getYearMonthDay finds.                  *)
LEMMA DayFound ==
    ASSUME NEW d, IsDay(d)
    PROVE  Cal!getYearMonthDay(Cal!getJulianDayNumber(d.year, d.month, d.day)) = d
<1> DEFINE ago == Ago(d.month)
           y == d.year + 4800 - ago
           m == d.month + 12 * ago - 3
           e == MonthsBefore(m) + d.day - 1
           b == y \div 100
           z == y % 100
           c == DaysOfYears(z) + e
           a == DaysOfCenturies(b) + c
           julian == Cal!getJulianDayNumber(d.year, d.month, d.day)
<1> HIDE DEF ago, y, m, e, b, z, c, a, julian
<1>1. ago \in {0, 1} /\ (ago = 1 <=> d.month <= 2)
  BY DEF ago, Ago
<1>2. y \in Nat /\ m \in 0..11
  BY NumberOfDay DEF y, m, ago
<1>3. b \in Nat /\ z \in 0..99 /\ y = 100 * b + z
  BY <1>2 DEF b, z
<1>4. d.day \in Nat \ {0} /\ d.month \in 1..12 /\ d.year \in Nat
  BY DEF IsDay, Cal!daysOfMonth
<1>5. d.day <= (IF m = 11 THEN 29 ELSE IF m \in {1, 3, 6, 8} THEN 30 ELSE 31)
  BY <1>1, <1>4 DEF m, IsDay, Cal!daysOfMonth
<1>6. /\ (5 * e + 2) \div 153 = m /\ e \in 0..365
      /\ e = 365 => m = 11 /\ d.day = 29
  BY <1>2, <1>4, <1>5, MonthFound DEF e
<1>7. e = 365 => Cal!isLeapYear(100 * b + z + 1)
  <2> SUFFICES ASSUME e = 365
               PROVE  Cal!isLeapYear(100 * b + z + 1)
    OBVIOUS
  <2>1. d.month = 2 /\ d.day = 29
    BY <1>1, <1>4, <1>6 DEF m
  <2>2. Cal!isLeapYear(d.year)
    BY <2>1 DEF IsDay, Cal!daysOfMonth
  <2>3. 100 * b + z + 1 = d.year + 4800
    BY <1>1, <1>3, <1>4, <2>1 DEF y
  <2> QED
    BY <1>4, <2>2, <2>3, LeapYearsRecur
<1>8. CenturyOf(a) = b /\ YearOf(c) = z
  <2>1. b \in Nat /\ z \in 0..99 /\ e \in 0..365
    BY <1>3, <1>6
  <2> QED
    BY <1>7, <2>1, DivisionsFind DEF c, a
<1>9. DaysOfCenturies(b) \in Int /\ DaysOfYears(z) \in Int
  BY <1>3 DEF DaysOfCenturies, DaysOfYears
<1>10. YearsBefore(y) = DaysOfCenturies(b) + DaysOfYears(z)
  BY <1>3, CenturiesAndYears DEF DaysOfCenturies, DaysOfYears
<1>11. julian = d.day + MonthsBefore(m) + YearsBefore(y) - 32045
  BY NumberOfDay DEF y, m, ago, julian
<1>12. MonthsBefore(m) \in Int
  BY <1>2 DEF MonthsBefore
<1>13. julian + 32044 = a
  BY <1>4, <1>9, <1>10, <1>11, <1>12 DEF a, c, e
<1>14. a - DaysOfCenturies(b) = c /\ c - DaysOfYears(z) = e
  BY <1>6, <1>9 DEF a, c
<1>15. /\ b * 100 + z - 4800 + m \div 10 = d.year
       /\ m + 3 - 12 * (m \div 10) = d.month
  <2>1. m \div 10 = ago
    BY <1>1, <1>4 DEF m
  <2>2. b * 100 + z - 4800 = d.year - ago
    BY <1>1, <1>3, <1>4 DEF y
  <2> QED
    BY <1>1, <1>3, <1>4, <2>1, <2>2 DEF m
<1>16. e - (153 * m + 2) \div 5 + 1 = d.day
  BY <1>4, <1>12 DEF e, MonthsBefore
<1>17. /\ a = julian + 32044
       /\ b = (4 * a + 3) \div 146097
       /\ c = a - (b * 146097) \div 4
       /\ z = (4 * c + 3) \div 1461
       /\ e = c - (1461 * z) \div 4
       /\ m = (5 * e + 2) \div 153
  BY <1>6, <1>8, <1>13, <1>14
     DEF CenturyOf, DaysOfCenturies, YearOf, DaysOfYears
<1>18. /\ a \in Int /\ b \in Int /\ c \in Int /\ z \in Int /\ e \in Int
       /\ m \in Int /\ julian \in Int
  BY <1>2, <1>3, <1>4, <1>6, <1>9, <1>10, <1>11, <1>12 DEF a, c
<1>19. Cal!getYearMonthDay(julian)
          = [year |-> b * 100 + z - 4800 + m \div 10,
             month |-> m + 3 - 12 * (m \div 10),
             day |-> e - (153 * m + 2) \div 5 + 1]
  BY <1>17, <1>18 DEF Cal!getYearMonthDay
<1> QED
  BY <1>15, <1>16, <1>19 DEF IsDay, julian

(* The day after has the next number.                                      *)
LEMMA NextDayCounted ==
    ASSUME NEW d, IsDay(d)
    PROVE  LET next == Cal!DayAfter(d) IN
           /\ IsDay(next)
           /\ Cal!getJulianDayNumber(next.year, next.month, next.day)
                 = Cal!getJulianDayNumber(d.year, d.month, d.day) + 1
<1> DEFINE next == Cal!DayAfter(d)
           length == Cal!daysOfMonth(d.year, d.month)
           ago == Ago(d.month)
           y == d.year + 4800 - ago
           m == d.month + 12 * ago - 3
           julian == Cal!getJulianDayNumber(d.year, d.month, d.day)
<1> HIDE DEF ago, y, m, julian, next, length
<1>1. /\ d.day \in Nat \ {0} /\ d.month \in 1..12 /\ d.year \in Nat
      /\ length \in 28..31 /\ d.day <= length
  BY DEF IsDay, Cal!daysOfMonth, length
<1>2. julian = d.day + MonthsBefore(m) + YearsBefore(y) - 32045
  BY NumberOfDay DEF y, m, ago, julian
<1>3. y \in Nat /\ m \in 0..11 /\ ago \in {0, 1} /\ (ago = 1 <=> d.month <= 2)
  BY NumberOfDay DEF y, m, ago, Ago
<1>4. MonthsBefore(m) \in Int /\ YearsBefore(y) \in Int
  BY <1>3 DEF MonthsBefore, YearsBefore
<1>5. CASE d.day < length
  <2>1. next = [year |-> d.year, month |-> d.month, day |-> d.day + 1]
    BY <1>5 DEF next, Cal!DayAfter, length, IsDay
  <2>2. IsDay(next)
    BY <1>1, <1>5, <2>1 DEF IsDay, length
  <2>3. Cal!getJulianDayNumber(next.year, next.month, next.day)
           = d.day + 1 + MonthsBefore(m) + YearsBefore(y) - 32045
    BY <2>1, <2>2, NumberOfDay DEF y, m, ago
  <2> QED
    BY <1>1, <1>2, <1>4, <2>2, <2>3 DEF next, julian
<1>6. CASE d.day = length /\ d.month < 12
  <2>1. next = [year |-> d.year, month |-> d.month + 1, day |-> 1]
    BY <1>1, <1>6 DEF next, Cal!DayAfter, Cal!TheDay, length
  <2>2. IsDay(next)
    BY <1>1, <1>6, <2>1 DEF IsDay, Cal!daysOfMonth
  <2> DEFINE ago2 == Ago(d.month + 1)
             y2 == d.year + 4800 - ago2
             m2 == d.month + 1 + 12 * ago2 - 3
  <2>3. Cal!getJulianDayNumber(next.year, next.month, next.day)
           = 1 + MonthsBefore(m2) + YearsBefore(y2) - 32045
    BY <2>1, <2>2, NumberOfDay
  <2> HIDE DEF ago2, y2, m2
  <2>4. CASE d.month = 2
    <3>1. y2 = y + 1 /\ m2 = 0 /\ m = 11
      BY <1>1, <1>3, <2>4 DEF y, m, y2, m2, ago2, Ago
    <3>2. length = IF Cal!isLeapYear(y + 1) THEN 29 ELSE 28
      <4>1. y + 1 = d.year + 4800
        BY <1>1, <1>3, <2>4 DEF y
      <4> QED
        BY <1>1, <2>4, <4>1, LeapYearsRecur DEF length, Cal!daysOfMonth
    <3>3. YearsBefore(y2)
             = YearsBefore(y) + (IF Cal!isLeapYear(y + 1) THEN 366 ELSE 365)
      BY <1>3, <3>1, YearsBeforeNext
    <3>4. Cal!getJulianDayNumber(next.year, next.month, next.day) = julian + 1
      BY <1>2, <1>3, <1>4, <1>6, <2>3, <3>1, <3>2, <3>3, MonthsBeforeIs
    <3> QED
      BY <2>2, <3>4 DEF next, julian
  <2>5. CASE d.month # 2
    <3>1. y2 = y /\ m2 = m + 1
      BY <1>1, <1>3, <2>5 DEF y, m, y2, m2, ago2, Ago
    <3>2. m # 11 /\ m # 9
      BY <1>1, <1>3, <1>6, <2>5 DEF m
    <3>3. length = IF m \in {1, 3, 6, 8} THEN 30 ELSE 31
      BY <1>1, <1>3, <2>5 DEF m, length, Cal!daysOfMonth
    <3>4. MonthsBefore(m + 1) = MonthsBefore(m) + length
      BY <1>3, <3>2, <3>3, MonthsBeforeIs
    <3>5. Cal!getJulianDayNumber(next.year, next.month, next.day) = julian + 1
      BY <1>1, <1>2, <1>4, <1>6, <2>3, <3>1, <3>4
    <3> QED
      BY <2>2, <3>5 DEF next, julian
  <2> QED
    BY <2>4, <2>5
<1>7. CASE d.day = length /\ d.month = 12
  <2>1. next = [year |-> d.year + 1, month |-> 1, day |-> 1]
    BY <1>1, <1>7 DEF next, Cal!DayAfter, Cal!TheDay, length
  <2>2. IsDay(next)
    BY <1>1, <2>1 DEF IsDay, Cal!daysOfMonth
  <2>3. Ago(1) = 1 /\ ago = 0 /\ length = 31
    BY <1>3, <1>7 DEF Ago, length, Cal!daysOfMonth
  <2>4. d.year + 1 + 4800 - 1 = y /\ 1 + 12 * 1 - 3 = 10 /\ m = 9
    BY <1>1, <1>7, <2>3 DEF y, m
  <2>5. Cal!getJulianDayNumber(next.year, next.month, next.day)
           = 1 + MonthsBefore(10) + YearsBefore(y) - 32045
    BY <2>1, <2>2, <2>3, <2>4, NumberOfDay
  <2>6. Cal!getJulianDayNumber(next.year, next.month, next.day) = julian + 1
    BY <1>2, <1>4, <1>7, <2>3, <2>4, <2>5, MonthsBeforeIs
  <2> QED
    BY <2>2, <2>6 DEF next, julian
<1> QED
  BY <1>1, <1>5, <1>6, <1>7

-----------------------------------------------------------------------------
(* The calendar's date has its number, and the week goes on with it.       *)
DateInv ==
    which = "date" =>
        /\ IsDay(today)
        /\ julianDateNumber
              = Cal!getJulianDayNumber(today.year, today.month, today.day)
        /\ weekday = Cal!weekDay(julianDateNumber)

LEMMA DayNumberIsNumber ==
    ASSUME NEW d, IsDay(d)
    PROVE  Cal!getJulianDayNumber(d.year, d.month, d.day) \in Int
<1> DEFINE y == d.year + 4800 - Ago(d.month)
           m == d.month + 12 * Ago(d.month) - 3
<1>1. /\ Cal!getJulianDayNumber(d.year, d.month, d.day)
            = d.day + MonthsBefore(m) + YearsBefore(y) - 32045
      /\ y \in Nat /\ m \in 0..11
  BY NumberOfDay
<1> HIDE DEF y, m
<1>2. MonthsBefore(m) \in Int /\ YearsBefore(y) \in Int
  BY <1>1 DEF MonthsBefore, YearsBefore
<1>3. d.day \in Int
  BY DEF IsDay, Cal!daysOfMonth
<1> QED
  BY <1>1, <1>2, <1>3

LEMMA DateInvInit == MCInit => DateInv
<1> SUFFICES ASSUME MCInit, which = "date"
             PROVE  DateInv
  BY DEF DateInv
<1>1. Cal!Init
  BY DEF MCInit
<1>2. PICK year \in FirstYear..LastYear :
         /\ today = Cal!TheDay(year, 1, 1)
         /\ julianDateNumber = Cal!getJulianDayNumber(year, 1, 1)
         /\ weekday = Cal!weekDay(Cal!getJulianDayNumber(year, 1, 1))
  BY <1>1 DEF Cal!Init
<1>3. year \in Nat
  BY SequentialAssumption
<1>4. /\ today = [year |-> today.year, month |-> today.month, day |-> today.day]
      /\ today.year = year /\ today.month = 1 /\ today.day = 1
  BY <1>2 DEF Cal!TheDay
<1>5. IsDay(today)
  BY <1>3, <1>4 DEF IsDay, Cal!daysOfMonth
<1> QED
  BY <1>2, <1>4, <1>5 DEF DateInv

LEMMA DateInvNext == DateInv /\ [MCNext]_mcVars => DateInv'
<1> SUFFICES ASSUME DateInv, [MCNext]_mcVars, which' = "date"
             PROVE  DateInv'
  BY DEF DateInv
<1>1. CASE UNCHANGED mcVars
  BY <1>1 DEF DateInv, mcVars, dateVars
<1>2. CASE MCNext
  <2>1. which = "date" /\ Cal!NextDay
    BY <1>2 DEF MCNext
  <2>2. /\ today' = Cal!DayAfter(today)
        /\ julianDateNumber' = julianDateNumber + 1
        /\ weekday' = (weekday + 1) % 7
    BY <2>1 DEF Cal!NextDay
  <2>3. /\ IsDay(today)
        /\ julianDateNumber
              = Cal!getJulianDayNumber(today.year, today.month, today.day)
        /\ weekday = Cal!weekDay(julianDateNumber)
    BY <2>1 DEF DateInv
  <2>4. /\ IsDay(today')
        /\ Cal!getJulianDayNumber(today'.year, today'.month, today'.day)
              = julianDateNumber + 1
    BY <2>2, <2>3, NextDayCounted
  <2>5. julianDateNumber \in Int
    BY <2>3, DayNumberIsNumber
  <2>6. (((julianDateNumber + 1) % 7) + 1) % 7 = (julianDateNumber + 1 + 1) % 7
    BY <2>5
  <2>7. weekday' = Cal!weekDay(julianDateNumber')
    BY <2>2, <2>3, <2>6 DEF Cal!weekDay, Cal!kDaysPerWeek
  <2> QED
    BY <2>2, <2>4, <2>7 DEF DateInv, IsDay
<1> QED
  BY <1>1, <1>2

(* The date of the test: Thursday 2018-05-17.                              *)
LEMMA TheTestsDay == Cal!weekDay(Cal!getJulianDayNumber(2018, 5, 17)) = 4
<1>1. (14 - 5) \div 12 = 0
  OBVIOUS
<1>2. Cal!getJulianDayNumber(2018, 5, 17) = 2458256
  BY <1>1 DEF Cal!getJulianDayNumber
<1> QED
  BY <1>2 DEF Cal!weekDay, Cal!kDaysPerWeek

LEMMA DateInvAgrees == DateInv => CalendarAgrees
<1> SUFFICES ASSUME DateInv, which = "date"
             PROVE  Cal!CalendarAgrees
  BY DEF CalendarAgrees
<1>1. /\ IsDay(today)
      /\ julianDateNumber
            = Cal!getJulianDayNumber(today.year, today.month, today.day)
      /\ weekday = Cal!weekDay(julianDateNumber)
  BY DEF DateInv
<1>2. Cal!getYearMonthDay(julianDateNumber) = today
  BY <1>1, DayFound
<1>3. today = Cal!TheDay(2018, 5, 17) => weekday = 4
  BY <1>1, TheTestsDay DEF Cal!TheDay
<1> QED
  BY <1>1, <1>2, <1>3 DEF Cal!CalendarAgrees

(* date.cc: Julian day numbers and dates are each other's inverses, and    *)
(* successive, on every day of any years.                                  *)
THEOREM CalendarAlwaysAgrees == MCSpec => []CalendarAgrees
<1> QED
  BY DateInvInit, DateInvNext, DateInvAgrees, PTL DEF MCSpec

-----------------------------------------------------------------------------
(* The ring of MCSequential is the one of CircularBufferProofs: its         *)
(* operators are the same.                                                 *)
RingP == INSTANCE CircularBufferProofs WITH
            buf <- ring, call <- ringCall, returned <- ringReturned,
            MaxLen <- MaxRingLen, MaxSize <- MaxRingSize

LEMMA RingInitSame == Ring!Init => RingP!Init
BY DEF Ring!Init, Ring!Buffer, RingP!Init, RingP!Buffer

LEMMA SameReading ==
    ASSUME NEW b
    PROVE  /\ Ring!readableBytes(b) = RingP!readableBytes(b)
           /\ Ring!FirstPiece(b) = RingP!FirstPiece(b)
           /\ Ring!SecondPiece(b) = RingP!SecondPiece(b)
           /\ Ring!Readable(b) = RingP!Readable(b)
           /\ Ring!Copy(b) = RingP!Copy(b)
<1>1. Ring!readableBytes(b) = RingP!readableBytes(b)
  BY DEF Ring!readableBytes, RingP!readableBytes
<1>2. Ring!FirstPiece(b) = RingP!FirstPiece(b)
  BY DEF Ring!FirstPiece, Ring!Cells, Ring!needRewind,
         RingP!FirstPiece, RingP!Cells, RingP!needRewind
<1>3. Ring!SecondPiece(b) = RingP!SecondPiece(b)
  BY DEF Ring!SecondPiece, Ring!Cells, Ring!needRewind,
         RingP!SecondPiece, RingP!Cells, RingP!needRewind
<1>4. Ring!Readable(b) = RingP!Readable(b)
  BY <1>2, <1>3 DEF Ring!Readable, RingP!Readable
<1>5. Ring!Copy(b) = RingP!Copy(b)
  BY DEF Ring!Copy, Ring!needRewind, RingP!Copy, RingP!needRewind
<1> QED
  BY <1>1, <1>2, <1>3, <1>4, <1>5

LEMMA SamePut ==
    ASSUME NEW b, NEW x
    PROVE  Ring!put(b, x) = RingP!put(b, x)
BY DEF Ring!put, Ring!Store, RingP!put, RingP!Store

LEMMA SameWriting ==
    ASSUME NEW b, NEW x, NEW len
    PROVE  /\ Ring!ensureWritableBytes(b, len) = RingP!ensureWritableBytes(b, len)
           /\ Ring!append(b, x) = RingP!append(b, x)
           /\ Ring!retrieve(b, len) = RingP!retrieve(b, len)
<1>1. \A n : Ring!extend(b, n) = RingP!extend(b, n)
  BY SameReading, SamePut DEF Ring!extend, Ring!Buffer, RingP!extend, RingP!Buffer
<1>2. \A n : Ring!ensureWritableBytes(b, n) = RingP!ensureWritableBytes(b, n)
  BY <1>1, SameReading DEF Ring!ensureWritableBytes, Ring!writableBytes,
     RingP!ensureWritableBytes, RingP!writableBytes
<1>3. Ring!append(b, x) = RingP!append(b, x)
  BY <1>2, SamePut DEF Ring!append, RingP!append
<1>4. Ring!retrieve(b, len) = RingP!retrieve(b, len)
  BY SameReading DEF Ring!retrieve, RingP!retrieve
<1> QED
  BY <1>2, <1>3, <1>4

LEMMA RingNextSame == Ring!Next => RingP!Next
<1>1. ASSUME NEW x, Ring!CallAppend(x)
      PROVE  RingP!CallAppend(x)
  BY <1>1, SameWriting DEF Ring!CallAppend, RingP!CallAppend
<1>2. ASSUME NEW len, Ring!CallRetrieve(len)
      PROVE  RingP!CallRetrieve(len)
  BY <1>2, SameWriting, SameReading DEF Ring!CallRetrieve, RingP!CallRetrieve
<1>3. ASSUME NEW len, Ring!CallRetrieveAsString(len)
      PROVE  RingP!CallRetrieveAsString(len)
  <2>1. \A n : Ring!retrieve(ring, n) = RingP!retrieve(ring, n)
    BY SameWriting
  <2>2. /\ Ring!Readable(ring) = RingP!Readable(ring)
        /\ Ring!readableBytes(ring) = RingP!readableBytes(ring)
    BY SameReading
  <2> QED
    BY <1>3, <2>1, <2>2
       DEF Ring!CallRetrieveAsString, Ring!AsString,
           RingP!CallRetrieveAsString, RingP!AsString
<1>4. ASSUME NEW len, Ring!CallEnsureWritable(len)
      PROVE  RingP!CallEnsureWritable(len)
  BY <1>4, SameWriting DEF Ring!CallEnsureWritable, RingP!CallEnsureWritable
<1>5. ASSUME Ring!CallCopy
      PROVE  RingP!CallCopy
  BY <1>5, SameReading DEF Ring!CallCopy, RingP!CallCopy
<1>6. Ring!Data = RingP!Data
  BY DEF Ring!Data, RingP!Data
<1>7. Ring!readableBytes(ring) = RingP!readableBytes(ring)
  BY SameReading
<1> QED
  BY <1>1, <1>2, <1>3, <1>4, <1>5, <1>6, <1>7 DEF Ring!Next, RingP!Next

(* A step of the composition is one of the ring's or leaves it alone.      *)
LEMMA RingStepsAreTheRings ==
    [MCNext]_mcVars => [RingP!Next]_(RingP!vars)
<1>1. ASSUME MCNext
      PROVE  RingP!Next \/ UNCHANGED RingP!vars
  BY <1>1, RingNextSame DEF MCNext, ringVars, RingP!vars
<1> QED
  BY <1>1 DEF mcVars, ringVars, RingP!vars

LEMMA MCSpecIsRingSpec == MCSpec => RingP!Spec
<1>1. MCInit => RingP!Init
  BY RingInitSame DEF MCInit
<1> QED
  BY <1>1, RingStepsAreTheRings, PTL DEF MCSpec, RingP!Spec

(* The queue's content is the same, too.                                   *)
LEMMA SameQueue ==
    RingP!ImplementsByteQueue /\ RingP!ReturnedStartsWithRead
       => RingImplementsByteQueue
<1>1. Ring!Readable(ring) = RingP!Readable(ring)
  BY SameReading
<1>2. Ring!Readable(ring') = RingP!Readable(ring')
  BY SameReading
<1>3. RingP!BQ!Init => Ring!BQ!Init
  BY <1>1 DEF RingP!BQ!Init, Ring!BQ!Init
<1>4. [RingP!BQ!Next]_(RingP!BQ!vars) => [Ring!BQ!Next]_(Ring!BQ!vars)
  <2>1. ASSUME UNCHANGED RingP!BQ!vars
        PROVE  UNCHANGED Ring!BQ!vars
    BY <1>1, <1>2, <2>1 DEF RingP!BQ!vars, Ring!BQ!vars
  <2>2. ASSUME NEW x, RingP!BQ!Write(x)
        PROVE  Ring!BQ!Write(x)
    BY <1>1, <1>2, <2>2 DEF RingP!BQ!Write, Ring!BQ!Write
  <2>3. ASSUME NEW x, RingP!BQ!Prepend(x)
        PROVE  Ring!BQ!Prepend(x)
    BY <1>1, <1>2, <2>3 DEF RingP!BQ!Prepend, Ring!BQ!Prepend
  <2>4. ASSUME NEW len, RingP!BQ!Read(len)
        PROVE  Ring!BQ!Read(len)
    BY <1>1, <1>2, <2>4 DEF RingP!BQ!Read, Ring!BQ!Read
  <2>5. ASSUME NEW len, RingP!BQ!Unwrite(len)
        PROVE  Ring!BQ!Unwrite(len)
    BY <1>1, <1>2, <2>5 DEF RingP!BQ!Unwrite, Ring!BQ!Unwrite
  <2>6. Ring!Data = RingP!Data
    BY DEF Ring!Data, RingP!Data
  <2>7. RingP!BQ!Next => Ring!BQ!Next
    BY <1>1, <2>2, <2>3, <2>4, <2>5, <2>6 DEF RingP!BQ!Next, Ring!BQ!Next
  <2> QED
    BY <2>1, <2>7
<1>5. RingP!ImplementsByteQueue => Ring!ImplementsByteQueue
  BY <1>3, <1>4, PTL DEF RingP!ImplementsByteQueue, Ring!ImplementsByteQueue,
                         RingP!BQ!Spec, Ring!BQ!Spec
<1>6. RingP!ReturnedStartsWithRead => Ring!ReturnedStartsWithRead
  BY DEF RingP!ReturnedStartsWithRead, Ring!ReturnedStartsWithRead,
         RingP!vars, Ring!vars
<1> QED
  BY <1>5, <1>6, PTL DEF RingImplementsByteQueue

(* circularbuffer.h: wrapping around, growing and copying lose, repeat or  *)
(* reorder no byte, and what retrieveAsString returns begins with what it  *)
(* consumes, for any initial size, bytes and bounds.                       *)
THEOREM RingAlwaysImplementsByteQueue == MCSpec => RingImplementsByteQueue
<1>1. kInitialSize \in Nat /\ MaxRingLen \in Nat /\ Uninitialized \notin Bytes
  BY BufferAssumption, SequentialAssumption
<1>2. RingP!Spec => RingP!ImplementsByteQueue
  BY <1>1, RingP!RingIsAByteQueue
<1>3. RingP!Spec => RingP!ReturnedStartsWithRead
  BY <1>1, RingP!ReturnedIsWritten
<1> QED
  BY <1>2, <1>3, MCSpecIsRingSpec, SameQueue, PTL

-----------------------------------------------------------------------------
(* The other direction: every day number from the year 0 on is a day's.    *)

(* 1 January of the year 0.                                                *)
FirstNumber == 1721060

LEMMA DivisionBounds ==
    \A x \in Nat : /\ 146097 * (x \div 146097) <= x
                   /\ x < 146097 * (x \div 146097) + 146097
                   /\ x \div 146097 \in Nat
                   /\ 1461 * (x \div 1461) <= x
                   /\ x < 1461 * (x \div 1461) + 1461
                   /\ x \div 1461 \in Nat
                   /\ 153 * (x \div 153) <= x
                   /\ x < 153 * (x \div 153) + 153
                   /\ x \div 153 \in Nat
<1> SUFFICES ASSUME NEW x \in Nat
             PROVE  /\ 146097 * (x \div 146097) <= x
                    /\ x < 146097 * (x \div 146097) + 146097
                    /\ x \div 146097 \in Nat
                    /\ 1461 * (x \div 1461) <= x
                    /\ x < 1461 * (x \div 1461) + 1461
                    /\ x \div 1461 \in Nat
                    /\ 153 * (x \div 153) <= x
                    /\ x < 153 * (x \div 153) + 153
                    /\ x \div 153 \in Nat
  OBVIOUS
<1>1. 146097 * (x \div 146097) <= x /\ x < 146097 * (x \div 146097) + 146097
  OBVIOUS
<1>2. 1461 * (x \div 1461) <= x /\ x < 1461 * (x \div 1461) + 1461
  OBVIOUS
<1>3. 153 * (x \div 153) <= x /\ x < 153 * (x \div 153) + 153
  OBVIOUS
<1>4. x \div 146097 \in Nat /\ x \div 1461 \in Nat /\ x \div 153 \in Nat
  OBVIOUS
<1> QED
  BY <1>1, <1>2, <1>3, <1>4

(* What is left of a day number without its centuries, by the quarters q   *)
(* and r of the century, and of that without its years.                    *)
LEMMA CenturyLeaves ==
    ASSUME NEW a \in Int, NEW b \in Int, NEW q \in Int, NEW r \in 0..3, NEW c \in Int,
           146097 * b <= 4 * a + 3, 4 * a + 3 < 146097 * b + 146097,
           r = b - 4 * q, c = a - (36524 * b + q)
    PROVE  c \in Nat /\ c <= 36524 /\ (c = 36524 => r = 3)
<1>1. 4 * c = 4 * a - 146097 * b + r
  OBVIOUS
<1>2. 0 <= 4 * c + 3 /\ 4 * c <= 146093 + r
  BY <1>1
<1> QED
  BY <1>2

LEMMA YearLeaves ==
    ASSUME NEW c \in Nat, NEW d \in Nat, NEW q \in Int, NEW r \in 0..3, NEW e \in Int,
           c <= 36524,
           1461 * d <= 4 * c + 3, 4 * c + 3 < 1461 * d + 1461,
           r = d - 4 * q, e = c - (365 * d + q)
    PROVE  /\ d \in 0..99 /\ e \in 0..365
           /\ e = 365 => r = 3
           /\ e = 365 /\ d = 99 => c = 36524
<1>1. 4 * e = 4 * c - 1461 * d + r
  OBVIOUS
<1>2. 0 <= 4 * e + 3 /\ 4 * e <= 1457 + r
  BY <1>1
<1>3. e \in 0..365 /\ (e = 365 => r = 3)
  BY <1>2
<1>4. d <= 99
  OBVIOUS
<1>5. e = 365 /\ d = 99 => c = 36524
  BY <1>1, <1>3
<1> QED
  BY <1>3, <1>4, <1>5

(* What date.cc finds is a century, a year in it and a day in the year.    *)
LEMMA DivisionsLeave ==
    ASSUME NEW a \in Nat
    PROVE  LET b == CenturyOf(a)
               c == a - DaysOfCenturies(b)
               d == YearOf(c)
               e == c - DaysOfYears(d)
           IN  /\ b \in Nat /\ c \in Nat /\ d \in 0..99 /\ e \in 0..365
               /\ e = 365 => Cal!isLeapYear(100 * b + d + 1)
               /\ YearsBefore(100 * b + d) + e = a
<1> DEFINE b == CenturyOf(a)
           c == a - DaysOfCenturies(b)
           d == YearOf(c)
           e == c - DaysOfYears(d)
<1>1. b \in Nat /\ 146097 * b <= 4 * a + 3 /\ 4 * a + 3 < 146097 * b + 146097
  <2>1. 4 * a + 3 \in Nat
    OBVIOUS
  <2> QED
    BY <2>1, DivisionBounds DEF CenturyOf
<1> HIDE DEF b
<1>2. /\ DaysOfCenturies(b) = 36524 * b + b \div 4
      /\ b \div 4 \in Nat /\ b % 4 = b - 4 * (b \div 4) /\ b % 4 \in 0..3
  <2>1. (b * 146097) \div 4 = 36524 * b + b \div 4
    BY <1>1, QuartersOf
  <2>2. b \div 4 \in Nat /\ b % 4 = b - 4 * (b \div 4) /\ b % 4 \in 0..3
    BY <1>1, QuartersOf
  <2> QED
    BY <2>1, <2>2 DEF DaysOfCenturies
<1>3. c \in Nat /\ c <= 36524 /\ (c = 36524 => b % 4 = 3)
  <2>1. /\ c = a - (36524 * b + b \div 4) /\ c \in Int
        /\ a \in Int /\ b \in Int /\ b \div 4 \in Int
    BY <1>1, <1>2
  <2> HIDE DEF c
  <2> QED
    BY <1>1, <1>2, <2>1, CenturyLeaves
<1> HIDE DEF c
<1>4. d \in Nat /\ 1461 * d <= 4 * c + 3 /\ 4 * c + 3 < 1461 * d + 1461
  <2>1. 4 * c + 3 \in Nat
    BY <1>3
  <2> QED
    BY <2>1, DivisionBounds DEF YearOf
<1> HIDE DEF d
<1>5. /\ DaysOfYears(d) = 365 * d + d \div 4
      /\ d \div 4 \in Nat /\ d % 4 = d - 4 * (d \div 4) /\ d % 4 \in 0..3
  <2>1. (1461 * d) \div 4 = 365 * d + d \div 4
    BY <1>4, QuartersOf
  <2>2. d \div 4 \in Nat /\ d % 4 = d - 4 * (d \div 4) /\ d % 4 \in 0..3
    BY <1>4, QuartersOf
  <2> QED
    BY <2>1, <2>2 DEF DaysOfYears
<1>6. /\ d \in 0..99 /\ e \in 0..365 /\ (e = 365 => d % 4 = 3)
      /\ e = 365 /\ d = 99 => c = 36524
  <2>1. /\ e = c - (365 * d + d \div 4) /\ e \in Int /\ d \div 4 \in Int
    BY <1>3, <1>4, <1>5
  <2> HIDE DEF e
  <2> QED
    BY <1>3, <1>4, <1>5, <2>1, YearLeaves
<1>7. e = 365 => Cal!isLeapYear(100 * b + d + 1)
  <2> SUFFICES ASSUME e = 365
               PROVE  Cal!isLeapYear(100 * b + d + 1)
    OBVIOUS
  <2> HIDE DEF e
  <2>1. CASE d = 99
    <3>1. b % 4 = 3
      BY <1>3, <1>6, <2>1
    <3>2. (100 * b + 100) % 400 = 0
      BY <1>1, <3>1
    <3>3. 100 * b + d + 1 = 100 * b + 100
      BY <1>1, <2>1
    <3> QED
      BY <3>2, <3>3 DEF Cal!isLeapYear
  <2>2. CASE d # 99
    <3>1. d % 4 = 3
      BY <1>6
    <3>2. (100 * b + d + 1) % 4 = (d + 1) % 4 /\ (100 * b + d + 1) % 100 = (d + 1) % 100
      BY <1>1, <1>6
    <3>3. (d + 1) % 4 = 0 /\ (d + 1) % 100 # 0
      BY <1>6, <2>2, <3>1
    <3> QED
      BY <3>2, <3>3 DEF Cal!isLeapYear
  <2> QED
    BY <2>1, <2>2
<1>8. YearsBefore(100 * b + d) = DaysOfCenturies(b) + DaysOfYears(d)
  BY <1>1, <1>6, CenturiesAndYears DEF DaysOfCenturies, DaysOfYears
<1>9. YearsBefore(100 * b + d) + e = a
  <2>1. DaysOfCenturies(b) \in Int /\ DaysOfYears(d) \in Int
    BY <1>1, <1>2, <1>4, <1>5
  <2>2. e = a - DaysOfCenturies(b) - DaysOfYears(d)
    BY <2>1 DEF c
  <2> HIDE DEF e
  <2> QED
    BY <1>8, <2>1, <2>2
<1> QED
  BY <1>1, <1>3, <1>6, <1>7, <1>9 DEF b, c, d

LEMMA MonthLeaves ==
    ASSUME NEW e \in 0..365, NEW m, m = (5 * e + 2) \div 153,
           NEW day, day = e - MonthsBefore(m) + 1
    PROVE  /\ m \in 0..11
           /\ day \in 1..(IF m = 11 THEN 29 ELSE IF m \in {1, 3, 6, 8} THEN 30 ELSE 31)
           /\ m = 11 /\ day = 29 => e = 365
<1>1. 5 * e + 2 \in Nat
  OBVIOUS
<1>2. m \in Nat /\ 153 * m <= 5 * e + 2 /\ 5 * e + 2 < 153 * m + 153
  BY <1>1, DivisionBounds
<1>3. m \in 0..11
  BY <1>2
<1>4. CASE m = 0
  BY <1>2, <1>4, MonthsBeforeIs
<1>5. CASE m = 1
  BY <1>2, <1>5, MonthsBeforeIs
<1>6. CASE m = 2
  BY <1>2, <1>6, MonthsBeforeIs
<1>7. CASE m = 3
  BY <1>2, <1>7, MonthsBeforeIs
<1>8. CASE m = 4
  BY <1>2, <1>8, MonthsBeforeIs
<1>9. CASE m = 5
  BY <1>2, <1>9, MonthsBeforeIs
<1>10. CASE m = 6
  BY <1>2, <1>10, MonthsBeforeIs
<1>11. CASE m = 7
  BY <1>2, <1>11, MonthsBeforeIs
<1>12. CASE m = 8
  BY <1>2, <1>12, MonthsBeforeIs
<1>13. CASE m = 9
  BY <1>2, <1>13, MonthsBeforeIs
<1>14. CASE m = 10
  BY <1>2, <1>14, MonthsBeforeIs
<1>15. CASE m = 11
  BY <1>2, <1>15, MonthsBeforeIs
<1> QED
  BY <1>3, <1>4, <1>5, <1>6, <1>7, <1>8, <1>9, <1>10, <1>11, <1>12, <1>13, <1>14, <1>15

(* Every number from the year 0 on is the number of the day that           *)
(* getYearMonthDay finds.                                                  *)
LEMMA NumberFound ==
    ASSUME NEW julian \in Int, julian >= FirstNumber
    PROVE  LET d == Cal!getYearMonthDay(julian) IN
           /\ IsDay(d)
           /\ Cal!getJulianDayNumber(d.year, d.month, d.day) = julian
<1> DEFINE a == julian + 32044
           b == CenturyOf(a)
           c == a - DaysOfCenturies(b)
           z == YearOf(c)
           e == c - DaysOfYears(z)
           m == (5 * e + 2) \div 153
           day == e - MonthsBefore(m) + 1
           y == 100 * b + z
           d == Cal!getYearMonthDay(julian)
<1>1. a \in Nat /\ a >= 1753104 /\ a = julian + 32044
  BY DEF FirstNumber
<1> HIDE DEF a, b, c, z, e, m, day, y, d
<1>2. /\ b \in Nat /\ z \in 0..99 /\ e \in 0..365
      /\ e = 365 => Cal!isLeapYear(y + 1)
      /\ YearsBefore(y) + e = a
  BY <1>1, DivisionsLeave DEF b, c, z, e, y
<1>3. /\ m \in 0..11
      /\ day \in 1..(IF m = 11 THEN 29 ELSE IF m \in {1, 3, 6, 8} THEN 30 ELSE 31)
      /\ m = 11 /\ day = 29 => e = 365
  BY <1>2, MonthLeaves DEF m, day
<1>4. y \in Nat /\ MonthsBefore(m) \in Int /\ c \in Int
      /\ DaysOfCenturies(b) \in Int /\ DaysOfYears(z) \in Int
  BY <1>1, <1>2, <1>3 DEF y, MonthsBefore, c, DaysOfCenturies, DaysOfYears
<1>5. d = [year |-> b * 100 + z - 4800 + m \div 10,
           month |-> m + 3 - 12 * (m \div 10),
           day |-> day]
  <2>1. /\ b = (4 * a + 3) \div 146097
        /\ c = a - (b * 146097) \div 4
        /\ z = (4 * c + 3) \div 1461
        /\ e = c - (1461 * z) \div 4
        /\ m = (5 * e + 2) \div 153
    BY DEF b, c, z, e, m, CenturyOf, DaysOfCenturies, YearOf, DaysOfYears
  <2>2. /\ a \in Int /\ b \in Int /\ c \in Int /\ z \in Int /\ e \in Int
        /\ m \in Int /\ julian \in Int
    BY <1>1, <1>2, <1>3, <1>4
  <2>3. d = [year |-> b * 100 + z - 4800 + m \div 10,
             month |-> m + 3 - 12 * (m \div 10),
             day |-> e - (153 * m + 2) \div 5 + 1]
    BY <1>1, <2>1, <2>2 DEF d, Cal!getYearMonthDay
  <2>4. day = e - (153 * m + 2) \div 5 + 1
    BY DEF day, MonthsBefore
  <2> QED
    BY <2>3, <2>4
<1>6. (m \div 10 = 1 /\ m \in {10, 11}) \/ (m \div 10 = 0 /\ m \in 0..9)
  BY <1>3
<1>7. /\ d.day = day /\ d.month \in 1..12 /\ d.day \in 1..31
      /\ \/ d.month = m + 3 /\ d.year = y - 4800 /\ m \in 0..9
         \/ d.month = m - 9 /\ d.year = y - 4799 /\ m \in {10, 11}
  BY <1>2, <1>3, <1>5, <1>6 DEF y
<1>8. d.year >= 0
  <2> SUFFICES ASSUME d.year < 0
               PROVE  FALSE
    BY <1>4, <1>7
  <2>1. YearsBefore(y) = DaysOfCenturies(b) + DaysOfYears(z)
    BY <1>2, CenturiesAndYears DEF DaysOfCenturies, DaysOfYears, y
  <2>2. b <= 47 /\ (b = 47 /\ z = 99 => m \in 0..9) /\ y < 4800
    BY <1>2, <1>4, <1>7 DEF y
  <2>3. m \in 0..9 => e < 306
    BY <1>2 DEF m
  <2>4. DaysOfCenturies(b) = 36524 * b + b \div 4 /\ DaysOfYears(z) = 365 * z + z \div 4
    BY <1>2, QuartersOf DEF DaysOfCenturies, DaysOfYears
  <2>5. b \div 4 <= 11 /\ z \div 4 <= 24
    BY <1>2, <2>2
  <2>6. b \div 4 \in Nat /\ z \div 4 \in Nat
    BY <1>2
  <2>7. CASE b <= 46
    BY <1>1, <1>2, <2>1, <2>4, <2>5, <2>6, <2>7
  <2>8. CASE b = 47 /\ z <= 98
    BY <1>1, <1>2, <2>1, <2>4, <2>5, <2>6, <2>8
  <2>9. CASE b = 47 /\ z = 99
    BY <1>1, <1>2, <2>1, <2>2, <2>3, <2>4, <2>5, <2>6, <2>9
  <2> QED
    BY <1>2, <2>2, <2>7, <2>8, <2>9
<1>9. IsDay(d)
  <2>1. d = [year |-> d.year, month |-> d.month, day |-> d.day]
    BY <1>5
  <2>2. d.year \in Nat
    BY <1>4, <1>7, <1>8
  <2>3. d.day \in 1..Cal!daysOfMonth(d.year, d.month)
    <3>1. CASE d.month = 2
      <4>1. m = 11 /\ y + 1 = d.year + 4800
        BY <1>3, <1>4, <1>7, <3>1
      <4>2. day = 29 => Cal!isLeapYear(d.year)
        BY <1>2, <1>3, <2>2, <4>1, LeapYearsRecur
      <4>3. day \in 1..29
        BY <1>3, <4>1
      <4> QED
        BY <1>7, <3>1, <4>2, <4>3 DEF Cal!daysOfMonth
    <3>2. CASE d.month # 2
      BY <1>3, <1>7, <3>2 DEF Cal!daysOfMonth
    <3> QED
      BY <3>1, <3>2
  <2> QED
    BY <1>7, <2>1, <2>2, <2>3 DEF IsDay
<1>10. Cal!getJulianDayNumber(d.year, d.month, d.day) = julian
  <2>1. Ago(d.month) \in {0, 1} /\ (Ago(d.month) = 1 <=> d.month <= 2)
    BY DEF Ago
  <2>2. d.month + 12 * Ago(d.month) - 3 = m /\ d.year + 4800 - Ago(d.month) = y
    BY <1>3, <1>4, <1>7, <2>1
  <2>3. Cal!getJulianDayNumber(d.year, d.month, d.day)
           = d.day + MonthsBefore(m) + YearsBefore(y) - 32045
    BY <1>9, <2>2, NumberOfDay
  <2>4. YearsBefore(y) \in Int
    BY <1>4 DEF YearsBefore
  <2> QED
    BY <1>1, <1>2, <1>4, <1>7, <2>3, <2>4 DEF day
<1> QED
  BY <1>9, <1>10 DEF d

-----------------------------------------------------------------------------
(* UTC times.                                                              *)

(* The day of an instant and the seconds in it, also before the epoch.     *)
LEMMA SplitDivides ==
    ASSUME NEW t \in Int
    PROVE  /\ Cal!Split(t).days \in Int /\ Cal!Split(t).seconds \in Int
           /\ 0 <= Cal!Split(t).seconds /\ Cal!Split(t).seconds < 86400
           /\ t = 86400 * Cal!Split(t).days + Cal!Split(t).seconds
<1>1. CASE t >= 0
  <2> DEFINE q == t \div 86400
             r == t - 86400 * q
  <2>1. q \in Int /\ r \in Int /\ 0 <= r /\ r < 86400
    BY <1>1
  <2>2. Cal!Quotient(t, Cal!kSecondsPerDay) = q
    BY <1>1, SMT DEF Cal!Quotient, Cal!kSecondsPerDay
  <2> HIDE DEF q
  <2>3. Cal!Remainder(t, Cal!kSecondsPerDay) = r
    BY <2>2, SMT DEF Cal!Remainder, Cal!kSecondsPerDay
  <2>4. t = 86400 * q + r
    BY <2>1
  <2> HIDE DEF r
  <2>5. Cal!Split(t).days = q /\ Cal!Split(t).seconds = r
    BY <2>1, <2>2, <2>3, SMT DEF Cal!Split
  <2> QED
    BY <2>1, <2>4, <2>5
<1>2. CASE t < 0
  <2> DEFINE q == (-t) \div 86400
             r == t + 86400 * q
  <2>1. q \in Int /\ r \in Int /\ -86400 < r /\ r <= 0
    BY <1>2
  <2>2. Cal!Quotient(t, Cal!kSecondsPerDay) = -q
    BY <1>2, SMT DEF Cal!Quotient, Cal!kSecondsPerDay
  <2> HIDE DEF q
  <2>3. Cal!Remainder(t, Cal!kSecondsPerDay) = r
    BY <2>1, <2>2, SMT DEF Cal!Remainder, Cal!kSecondsPerDay
  <2>4. t = 86400 * (-q) + r /\ t = 86400 * (-q - 1) + (r + 86400)
    BY <2>1
  <2> HIDE DEF r
  <2>5. CASE r < 0
    <3>1. Cal!Split(t).days = -q - 1 /\ Cal!Split(t).seconds = r + 86400
      BY <2>2, <2>3, <2>5, SMT DEF Cal!Split, Cal!kSecondsPerDay
    <3>2. -q - 1 \in Int /\ r + 86400 \in Int /\ 0 <= r + 86400 /\ r + 86400 < 86400
      BY <2>1, <2>5
    <3> QED
      BY <2>4, <3>1, <3>2
  <2>6. CASE r = 0
    <3>1. Cal!Split(t).days = -q /\ Cal!Split(t).seconds = r
      BY <2>2, <2>3, <2>6, SMT DEF Cal!Split, Cal!kSecondsPerDay
    <3>2. -q \in Int /\ r \in Int /\ 0 <= r /\ r < 86400
      BY <2>1, <2>6
    <3> QED
      BY <2>4, <3>1, <3>2
  <2> QED
    BY <2>1, <2>5, <2>6
<1>3. t >= 0 \/ t < 0
  OBVIOUS
<1> QED
  BY <1>1, <1>2, <1>3

(* A number divided by sixty.                                              *)
LEMMA SixtiethsOf ==
    \A x \in Nat : /\ x \div 60 \in Nat /\ x % 60 \in 0..59
                   /\ x % 60 = x - 60 * (x \div 60)
<1> SUFFICES ASSUME NEW x \in Nat
             PROVE  /\ x \div 60 \in Nat /\ x % 60 \in 0..59
                    /\ x % 60 = x - 60 * (x \div 60)
  OBVIOUS
<1>1. x \div 60 \in Nat
  OBVIOUS
<1>2. x % 60 \in 0..59
  OBVIOUS
<1>3. x % 60 = x - 60 * (x \div 60)
  OBVIOUS
<1> QED
  BY <1>1, <1>2, <1>3

LEMMA ClockReadsBack ==
    ASSUME NEW s \in Nat, s < 86400
    PROVE  LET hms == Cal!fillHMS(s) IN
           /\ hms.hour \in 0..23 /\ hms.min \in 0..59 /\ hms.sec \in 0..59
           /\ hms.hour * 3600 + hms.min * 60 + hms.sec = s
<1> DEFINE minutes == s \div 60
           hour == minutes \div 60
           min == minutes % 60
           sec == s % 60
           hms == Cal!fillHMS(s)
<1>1. hms = [sec |-> sec, min |-> min, hour |-> hour]
  BY DEF Cal!fillHMS
<1>2. minutes \in Nat /\ sec \in 0..59 /\ sec = s - 60 * minutes
  BY SixtiethsOf
<1> HIDE DEF minutes, sec
<1>3. hour \in Nat /\ min \in 0..59 /\ min = minutes - 60 * hour
  BY <1>2, SixtiethsOf
<1> HIDE DEF hour, min, hms
<1>4. hour \in 0..23
  BY <1>2, <1>3
<1>5. hour * 3600 + min * 60 + sec = s
  BY <1>2, <1>3
<1>6. hms.hour = hour /\ hms.min = min /\ hms.sec = sec
  BY <1>1
<1>7. /\ hms.hour \in 0..23 /\ hms.min \in 0..59 /\ hms.sec \in 0..59
      /\ hms.hour * 3600 + hms.min * 60 + hms.sec = s
  BY <1>2, <1>3, <1>4, <1>5, <1>6
<1> QED
  BY <1>7 DEF hms

EpochDay == 2440588

LEMMA EpochIs == Cal!kJulianDayOf1970_01_01 = EpochDay
<1>1. (14 - 1) \div 12 = 1
  OBVIOUS
<1> QED
  BY <1>1, SMT DEF Cal!kJulianDayOf1970_01_01, Cal!getJulianDayNumber, EpochDay

LEMMA EpochWeekday ==
    \A days \in Int : (days + EpochDay + 1) % 7 = (4 + days) % 7
BY SMT DEF EpochDay

(* The day in the year.                                                    *)
LEMMA DayInYear ==
    ASSUME NEW d, IsDay(d)
    PROVE  Cal!getJulianDayNumber(d.year, d.month, d.day)
              - Cal!getJulianDayNumber(d.year, 1, 1) \in 0..365
<1> DEFINE first == Cal!TheDay(d.year, 1, 1)
           y == d.year + 4799
           m == d.month + 12 * Ago(d.month) - 3
           number == Cal!getJulianDayNumber(d.year, d.month, d.day)
           newYear == Cal!getJulianDayNumber(d.year, 1, 1)
<1>1. d.year \in Nat /\ d.month \in 1..12 /\ d.day \in 1..31
  BY DEF IsDay, Cal!daysOfMonth
<1>2. /\ first = [year |-> d.year, month |-> 1, day |-> 1]
      /\ IsDay(first) /\ Ago(1) = 1
  BY <1>1 DEF Cal!TheDay, IsDay, Cal!daysOfMonth, Ago
<1>3. /\ newYear = 1 + MonthsBefore(1 + 12 * 1 - 3)
                     + YearsBefore(d.year + 4800 - 1) - 32045
  BY <1>2, NumberOfDay
<1>4. 1 + 12 * 1 - 3 = 10 /\ d.year + 4800 - 1 = y /\ y \in Nat
  BY <1>1
<1>5. newYear = 1 + 306 + YearsBefore(y) - 32045
  BY <1>3, <1>4, MonthsBeforeIs
<1>6. number = d.day + MonthsBefore(m)
                 + YearsBefore(d.year + 4800 - Ago(d.month)) - 32045
  BY NumberOfDay
<1>7. YearsBefore(y) \in Int
  BY <1>4 DEF YearsBefore
<1> HIDE DEF number, newYear
<1>8. CASE d.month <= 2
  <2>1. d.year + 4800 - Ago(d.month) = y /\ m \in {10, 11}
    BY <1>1, <1>8 DEF Ago
  <2>2. MonthsBefore(m) \in {306, 337}
    BY <2>1, MonthsBeforeIs
  <2> HIDE DEF y, m
  <2>3. number - newYear = d.day + MonthsBefore(m) - 307
    BY <1>1, <1>5, <1>6, <1>7, <2>1, <2>2
  <2> QED
    BY <1>1, <2>2, <2>3 DEF number, newYear
<1>9. CASE d.month > 2
  <2>1. d.year + 4800 - Ago(d.month) = y + 1 /\ m \in 0..9
    BY <1>1, <1>9 DEF Ago
  <2>2. MonthsBefore(m) \in Int /\ 0 <= MonthsBefore(m) /\ MonthsBefore(m) <= 275
    BY <2>1, MonthsBeforeIs
  <2>3. \/ YearsBefore(y + 1) = YearsBefore(y) + 365
        \/ YearsBefore(y + 1) = YearsBefore(y) + 366
    BY <1>4, <1>7, YearsBeforeNext
  <2>4. YearsBefore(y + 1) \in Int
    BY <1>4 DEF YearsBefore
  <2> HIDE DEF y, m
  <2> DEFINE diff == number - newYear
  <2>5. diff = d.day + MonthsBefore(m) - 307
                 + (YearsBefore(y + 1) - YearsBefore(y))
    BY <1>1, <1>5, <1>6, <1>7, <2>1, <2>2, <2>4
  <2> HIDE DEF diff
  <2>6. \/ diff = d.day + MonthsBefore(m) + 58
        \/ diff = d.day + MonthsBefore(m) + 59
    BY <1>1, <1>7, <2>2, <2>3, <2>4, <2>5
  <2>7. diff \in Int /\ 0 <= diff /\ diff <= 365
    BY <1>1, <2>2, <2>6
  <2>8. diff \in 0..365
    BY <2>7
  <2> QED
    BY <2>8 DEF diff, number, newYear
<1> QED
  BY <1>1, <1>8, <1>9

LEMMA UtcReadsBack ==
    ASSUME now \in Int, Cal!Split(now).days >= FirstNumber - EpochDay
    PROVE  Cal!UtcAgrees
<1> DEFINE days == Cal!Split(now).days
           seconds == Cal!Split(now).seconds
           julian == days + EpochDay
           ymd == Cal!getYearMonthDay(julian)
           hms == Cal!fillHMS(seconds)
           utc == Cal!toUtcTime(now)
<1>0. EpochDay \in Int /\ FirstNumber \in Int
  BY SMT DEF EpochDay, FirstNumber
<1>1. days \in Int /\ seconds \in Nat /\ seconds < 86400 /\ now = 86400 * days + seconds
  BY SplitDivides
<1>2. julian \in Int /\ julian >= FirstNumber
  BY <1>0, <1>1
<1>3. /\ IsDay(ymd)
      /\ Cal!getJulianDayNumber(ymd.year, ymd.month, ymd.day) = julian
  BY <1>2, NumberFound
<1>4. /\ hms.hour \in 0..23 /\ hms.min \in 0..59 /\ hms.sec \in 0..59
      /\ hms.hour * 3600 + hms.min * 60 + hms.sec = seconds
  BY <1>1, ClockReadsBack
<1>5. utc = [date |-> ymd, hms |-> hms, wday |-> Cal!weekDay(julian),
             yday |-> julian - Cal!getJulianDayNumber(ymd.year, 1, 1)]
  BY EpochIs DEF Cal!toUtcTime
<1> HIDE DEF days, seconds, julian, ymd, hms, utc
<1>6. utc.yday \in 0..365
  BY <1>3, <1>5, DayInYear
<1>7. utc.wday = (4 + days) % 7
  <2>1. utc.wday = (days + EpochDay + 1) % 7
    BY <1>5 DEF Cal!weekDay, Cal!kDaysPerWeek, julian
  <2> QED
    BY <1>1, <2>1, EpochWeekday
<1>8. Cal!fromUtcTime(utc) = now
  <2>1. Cal!fromUtcTime(utc)
           = (julian - EpochDay) * 86400 + seconds
    BY <1>3, <1>4, <1>5, EpochIs DEF Cal!fromUtcTime, Cal!kSecondsPerDay
  <2>2. julian - EpochDay = days
    BY <1>0, <1>1 DEF julian
  <2> QED
    BY <1>1, <2>1, <2>2
<1> QED
  BY <1>4, <1>5, <1>6, <1>7, <1>8 DEF Cal!UtcAgrees, utc, days

-----------------------------------------------------------------------------
(* Local times.  What the binary search computes for count transitions     *)
(* from each of the first ones on, when f computes it for fewer.           *)
SearchRow(transitions, time, compareGmt, f, count) ==
    [low \in 1..(Len(transitions) + 1 - count) |->
        IF count = 0 THEN low
        ELSE IF Cal!Key(compareGmt, transitions[low + count \div 2]) < time
        THEN f[count - count \div 2 - 1][low + count \div 2 + 1]
        ELSE f[count \div 2][low]]

SearchesUpTo(transitions, time, compareGmt, f, n) ==
    f = [count \in 0..n |-> SearchRow(transitions, time, compareGmt, f, count)]

(* A range that is halved is a smaller one.                                *)
LEMMA HalfIsLess ==
    \A count \in Nat \ {0} : /\ count \div 2 \in 0..(count - 1)
                             /\ count - count \div 2 - 1 \in 0..(count - 1)
OBVIOUS

LEMMA LeastNumber ==
    ASSUME NEW S \in SUBSET Nat, S # {}
    PROVE  \E m \in S : \A n \in S : m <= n
<1> DEFINE less == {ij \in Nat \X Nat : ij[1] < ij[2]}
<1>1. IsWellFoundedOn(less, Nat)
  BY NatLessThanWellFounded DEF OpToRel
<1>2. PICK m \in S : \A n \in S : <<n, m>> \notin less
  BY <1>1, WFMin
<1> SUFFICES ASSUME NEW n \in S PROVE m <= n
  OBVIOUS
<1>3. n \in Nat /\ m \in Nat
  OBVIOUS
<1>4. <<n, m>> \in Nat \X Nat /\ <<n, m>>[1] = n /\ <<n, m>>[2] = m
  BY <1>3
<1>5. ~(n < m)
  BY <1>2, <1>4, Zenon
<1> QED
  BY <1>3, <1>5

(* The recursion is well-founded: there is such a function.                *)
LEMMA SearchExists ==
    ASSUME NEW transitions, Len(transitions) \in Nat, NEW time, NEW compareGmt
    PROVE  \A n \in Nat :
              \E f : SearchesUpTo(transitions, time, compareGmt, f, n)
<1> DEFINE Row(f, count) == SearchRow(transitions, time, compareGmt, f, count)
           Upto(f, n) == f = [count \in 0..n |-> Row(f, count)]
           Bad == {n \in Nat : ~ \E f : Upto(f, n)}
<1>1. \A f, g, count : (\A c \in 0..(count - 1) : f[c] = g[c]) /\ count \in Nat
                         => Row(f, count) = Row(g, count)
  <2> SUFFICES ASSUME NEW f, NEW g, NEW count \in Nat,
                      \A c \in 0..(count - 1) : f[c] = g[c]
               PROVE  Row(f, count) = Row(g, count)
    OBVIOUS
  <2>1. count # 0 => /\ f[count \div 2] = g[count \div 2]
                     /\ f[count - count \div 2 - 1] = g[count - count \div 2 - 1]
    BY HalfIsLess
  <2> QED
    BY <2>1, Zenon DEF SearchRow
<1> HIDE DEF Row
<1>2. SUFFICES Bad = {}
  BY DEF SearchesUpTo, Row
<1>3. SUFFICES ASSUME Bad # {}
               PROVE  FALSE
  OBVIOUS
<1>4. PICK n \in Bad : \A m \in Bad : n <= m
  BY <1>3, LeastNumber
<1>5. \E f : Upto(f, n)
  <2>1. CASE n = 0
    <3> DEFINE f == [count \in 0..0 |-> Row(<<>>, count)]
    <3>1. \A count \in 0..0 : Row(<<>>, count) = Row(f, count)
      <4>1. \A count \in 0..0 : count \in Nat /\ (\A c \in 0..(count - 1) : FALSE)
        OBVIOUS
      <4> QED
        BY <1>1, <4>1
    <3>2. Upto(f, 0)
      BY <3>1
    <3> QED
      BY <2>1, <3>2
  <2>2. CASE n # 0
    <3>1. n \in Nat /\ n - 1 \in Nat /\ n - 1 \notin Bad
      BY <1>4, <2>2
    <3>2. PICK f : Upto(f, n - 1)
      BY <3>1
    <3> DEFINE g == [count \in 0..n |-> Row(f, count)]
    <3>3. \A count \in 0..(n - 1) : f[count] = Row(f, count)
      BY <3>2
    <3>4. \A count \in 0..n : Row(f, count) = Row(g, count)
      <4> SUFFICES ASSUME NEW count \in 0..n
                   PROVE  Row(f, count) = Row(g, count)
        OBVIOUS
      <4>1. \A c \in 0..(count - 1) : c \in 0..(n - 1) /\ c \in 0..n
        BY <3>1
      <4>2. \A c \in 0..(count - 1) : f[c] = g[c]
        BY <3>3, <4>1
      <4>3. count \in Nat
        OBVIOUS
      <4> HIDE DEF g
      <4> QED
        BY <1>1, <4>2, <4>3
    <3>5. Upto(g, n)
      BY <3>4
    <3> QED
      BY <3>5
  <2> QED
    BY <2>1, <2>2
<1> QED
  BY <1>4, <1>5

LEMMA LowerBoundSearches ==
    ASSUME NEW transitions, Len(transitions) \in Nat, NEW time, NEW compareGmt
    PROVE  \E f : /\ SearchesUpTo(transitions, time, compareGmt, f, Len(transitions))
                  /\ Cal!lowerBound(transitions, time, compareGmt)
                        = f[Len(transitions)][1]
<1> DEFINE f == CHOOSE g :
                   SearchesUpTo(transitions, time, compareGmt, g, Len(transitions))
<1>1. SearchesUpTo(transitions, time, compareGmt, f, Len(transitions))
  BY SearchExists
<1>2. Cal!lowerBound(transitions, time, compareGmt) = f[Len(transitions)][1]
  BY Zenon DEF SearchesUpTo, SearchRow, Cal!lowerBound
<1> QED
  BY <1>1, <1>2

(* The search finds r, where the transitions up to r are before the time   *)
(* and those from r on are not.                                            *)
LEMMA SearchFinds ==
    ASSUME NEW transitions, Len(transitions) \in Nat, NEW time, NEW compareGmt,
           NEW r \in 1..(Len(transitions) + 1),
           \A i \in 1..(r - 1) : Cal!Key(compareGmt, transitions[i]) < time,
           \A i \in r..Len(transitions) : ~(Cal!Key(compareGmt, transitions[i]) < time)
    PROVE  Cal!lowerBound(transitions, time, compareGmt) = r
<1> DEFINE last == Len(transitions)
           IsBefore(i) == Cal!Key(compareGmt, transitions[i]) < time
<1>1. PICK f : /\ SearchesUpTo(transitions, time, compareGmt, f, last)
               /\ Cal!lowerBound(transitions, time, compareGmt) = f[last][1]
  BY LowerBoundSearches
<1> DEFINE Bad == {count \in 0..last : \E low \in 1..(last + 1 - count) :
                      low <= r /\ r <= low + count /\ f[count][low] # r}
<1> HIDE DEF last
<1>2. last \in Nat /\ r \in 1..(last + 1)
  BY DEF last
<1>3. /\ \A i \in 1..(r - 1) : IsBefore(i)
      /\ \A i \in r..last : ~IsBefore(i)
  BY DEF last
<1>4. ASSUME NEW count \in 0..last, NEW low \in 1..(last + 1 - count)
      PROVE  f[count][low] = IF count = 0 THEN low
                             ELSE IF IsBefore(low + count \div 2)
                             THEN f[count - count \div 2 - 1][low + count \div 2 + 1]
                             ELSE f[count \div 2][low]
  <2>1. f[count] = SearchRow(transitions, time, compareGmt, f, count)
    BY <1>1, Zenon DEF SearchesUpTo
  <2> QED
    BY <2>1, Zenon DEF SearchRow, last
<1> HIDE DEF IsBefore
<1>5. Bad = {}
  <2> SUFFICES ASSUME Bad # {}
               PROVE  FALSE
    OBVIOUS
  <2>1. Bad \in SUBSET Nat
    BY <1>2
  <2>2. PICK n \in Bad : \A m \in Bad : n <= m
    BY <2>1, LeastNumber
  <2>3. n \in 0..last
    OBVIOUS
  <2>4. PICK low \in 1..(last + 1 - n) :
           low <= r /\ r <= low + n /\ f[n][low] # r
    OBVIOUS
  <2>5. \A m \in 0..(n - 1) : m \in 0..last /\ m \notin Bad
    BY <1>2, <2>2, <2>3
  <2>6. n # 0
    BY <1>2, <1>4, <2>3, <2>4
  <2> DEFINE half == n \div 2
             rest == n - n \div 2 - 1
  <2>7. half \in 0..(n - 1) /\ rest \in 0..(n - 1) /\ n = half + rest + 1
    <3>1. n \in Nat \ {0}
      BY <2>3, <2>6
    <3>2. half \in 0..(n - 1) /\ rest \in 0..(n - 1)
      BY <3>1, HalfIsLess
    <3> QED
      BY <3>1, <3>2
  <2>8. f[n][low] = IF IsBefore(low + half) THEN f[rest][low + half + 1]
                    ELSE f[half][low]
    BY <1>4, <2>3, <2>6
  <2> HIDE DEF half, rest, Bad
  <2>9. half \in 0..last /\ half \notin Bad /\ rest \in 0..last /\ rest \notin Bad
    BY <2>5, <2>7
  <2>10. low \in Int /\ n \in Int /\ half \in Int /\ rest \in Int
         /\ 1 <= low /\ low <= last + 1 - n
    BY <1>2, <2>3, <2>7
  <2>11. CASE IsBefore(low + half)
    <3>1. low + half \notin r..last
      BY <1>3, <2>11
    <3>2. low + half \in 1..last
      BY <1>2, <2>7, <2>10
    <3>3. /\ low + half + 1 \in 1..(last + 1 - rest)
          /\ low + half + 1 <= r /\ r <= low + half + 1 + rest
      BY <1>2, <2>4, <2>7, <2>10, <3>1, <3>2
    <3>4. f[rest][low + half + 1] = r
      BY <2>9, <3>3 DEF Bad
    <3> QED
      BY <2>4, <2>8, <2>11, <3>4
  <2>12. CASE ~IsBefore(low + half)
    <3>1. low + half \notin 1..(r - 1)
      BY <1>3, <2>12
    <3>2. low \in 1..(last + 1 - half) /\ r <= low + half
      BY <1>2, <2>4, <2>7, <2>10, <3>1
    <3>3. f[half][low] = r
      BY <2>4, <2>9, <3>2 DEF Bad
    <3> QED
      BY <2>4, <2>8, <2>12, <3>3
  <2> QED
    BY <2>11, <2>12
<1>6. last \in 0..last /\ 1 \in 1..(last + 1 - last) /\ 1 <= r /\ r <= 1 + last
  BY <1>2
<1>7. f[last][1] = r
  BY <1>5, <1>6
<1> QED
  BY <1>1, <1>7

(* The rule that transition i sets, and before all of them the zone's      *)
(* first.                                                                  *)
Rule(zone, i) ==
    IF i = 0 THEN zone.localtimes[1]
    ELSE zone.localtimes[zone.transitions[i].localtimeIdx]

(* An hour later, for times and offsets.                                   *)
HourAfter(time) == time + 3600

(* What a zone file holds: the rules and the transitions to them, in the   *)
(* order of time, and an hour or more apart for UTC and local clocks alike. *)
IsZone(zone) ==
    LET transitions == zone.transitions IN
    /\ transitions \in Seq([gmtime : Int, localtime : Int, localtimeIdx : Nat])
    /\ \A i \in 0..Len(transitions) :
          Rule(zone, i).gmtOffset \in Int /\ Rule(zone, i).isDst \in BOOLEAN
    /\ \A i \in 1..Len(transitions) :
          transitions[i].localtime = transitions[i].gmtime + Rule(zone, i).gmtOffset
    /\ \A i, j \in 1..Len(transitions) :
          i < j => /\ HourAfter(transitions[i].gmtime) <= transitions[j].gmtime
                   /\ HourAfter(transitions[i].localtime) <= transitions[j].localtime

(* The transitions up to k have come at the time, the others have not.     *)
IsLast(zone, time, compareGmt, k) ==
    /\ \A i \in 1..k : Cal!Key(compareGmt, zone.transitions[i]) <= time
    /\ \A i \in (k + 1)..Len(zone.transitions) :
          time < Cal!Key(compareGmt, zone.transitions[i])

LEMMA KeysAscend ==
    ASSUME NEW zone, IsZone(zone), NEW compareGmt \in BOOLEAN
    PROVE  /\ Len(zone.transitions) \in Nat
           /\ Len(zone.transitions) = 0 <=> zone.transitions = <<>>
           /\ \A i \in 1..Len(zone.transitions) :
                 Cal!Key(compareGmt, zone.transitions[i]) \in Int
           /\ \A i, j \in 1..Len(zone.transitions) :
                 i < j => Cal!Key(compareGmt, zone.transitions[i])
                             < Cal!Key(compareGmt, zone.transitions[j])
<1> DEFINE transitions == zone.transitions
           Records == [gmtime : Int, localtime : Int, localtimeIdx : Nat]
<1>1. transitions \in Seq(Records)
  BY DEF IsZone
<1> HIDE DEF transitions, Records
<1>2. /\ Len(transitions) \in Nat
      /\ Len(transitions) = 0 <=> transitions = <<>>
      /\ \A i \in 1..Len(transitions) : transitions[i] \in Records
  BY <1>1
<1>3. \A i \in 1..Len(transitions) :
         transitions[i].gmtime \in Int /\ transitions[i].localtime \in Int
  BY <1>2 DEF Records
<1>4. \A i, j \in 1..Len(transitions) :
         i < j => /\ transitions[i].gmtime + 3600 <= transitions[j].gmtime
                  /\ transitions[i].localtime + 3600 <= transitions[j].localtime
  BY DEF IsZone, HourAfter, transitions
<1>5. \A i, j \in 1..Len(transitions) :
         i < j => /\ transitions[i].gmtime < transitions[j].gmtime
                  /\ transitions[i].localtime < transitions[j].localtime
  BY <1>3, <1>4
<1> QED
  BY <1>2, <1>3, <1>5 DEF transitions, Cal!Key

(* There is always a last one that has come, or none.                      *)
LEMMA LastExists ==
    ASSUME NEW zone, IsZone(zone), NEW time \in Int, NEW compareGmt \in BOOLEAN
    PROVE  \E k \in 0..Len(zone.transitions) : IsLast(zone, time, compareGmt, k)
<1> DEFINE last == Len(zone.transitions)
           Time(i) == Cal!Key(compareGmt, zone.transitions[i])
           later == {i \in 1..last : time < Time(i)}
<1>1. /\ last \in Nat /\ \A i \in 1..last : Time(i) \in Int
      /\ \A i, j \in 1..last : i < j => Time(i) < Time(j)
  BY KeysAscend
<1> HIDE DEF last, Time
<1>2. CASE later = {}
  <2>1. \A i \in 1..last : Time(i) <= time
    BY <1>1, <1>2
  <2>2. last \in 0..last /\ (last + 1)..last = {}
    BY <1>1
  <2> QED
    BY <2>1, <2>2 DEF IsLast, last, Time
<1>3. CASE later # {}
  <2>1. later \in SUBSET Nat
    BY <1>1
  <2>2. PICK m \in later : \A i \in later : m <= i
    BY <1>3, <2>1, LeastNumber
  <2>3. m \in 1..last /\ time < Time(m)
    OBVIOUS
  <2>4. \A i \in 1..(m - 1) : i \in 1..last /\ ~(m <= i)
    BY <1>1, <2>3
  <2>5. \A i \in 1..(m - 1) : Time(i) <= time
    BY <1>1, <2>2, <2>4
  <2>6. \A i \in (m - 1 + 1)..last : time < Time(i)
    BY <1>1, <2>3
  <2>7. m - 1 \in 0..last
    BY <1>1, <2>3
  <2> QED
    BY <2>5, <2>6, <2>7 DEF IsLast, last, Time
<1> QED
  BY <1>2, <1>3

(* Its rule is found.                                                      *)
LEMMA RuleFound ==
    ASSUME NEW zone, IsZone(zone), NEW time \in Int, NEW compareGmt \in BOOLEAN,
           NEW k \in 0..Len(zone.transitions), IsLast(zone, time, compareGmt, k)
    PROVE  Cal!findLocaltime(zone, time, compareGmt) = Rule(zone, k)
<1> DEFINE transitions == zone.transitions
           last == Len(transitions)
           Time(i) == Cal!Key(compareGmt, transitions[i])
           at == Cal!lowerBound(transitions, time, compareGmt)
<1>1. /\ last \in Nat /\ (last = 0 <=> transitions = <<>>)
      /\ \A i \in 1..last : Time(i) \in Int
      /\ \A i, j \in 1..last : i < j => Time(i) < Time(j)
  BY KeysAscend
<1>2. /\ \A i \in 1..k : Time(i) <= time
      /\ \A i \in (k + 1)..last : time < Time(i)
  BY DEF IsLast
<1>3. Cal!findLocaltime(zone, time, compareGmt)
         = IF transitions = <<>> \/ time < Time(1) THEN zone.localtimes[1]
           ELSE IF at <= last /\ Time(at) = time
           THEN zone.localtimes[transitions[at].localtimeIdx]
           ELSE zone.localtimes[transitions[at - 1].localtimeIdx]
  BY Zenon DEF Cal!findLocaltime
<1>4. ASSUME NEW r \in 1..(last + 1),
             \A i \in 1..(r - 1) : Time(i) < time,
             \A i \in r..last : ~(Time(i) < time)
      PROVE  at = r
  BY <1>1, <1>4, SearchFinds
<1> HIDE DEF transitions, last, Time, at
<1>5. k \in 0..last
  BY DEF last, transitions
<1>6. CASE k = 0
  <2>1. transitions = <<>> \/ time < Time(1)
    BY <1>1, <1>2, <1>6
  <2> QED
    BY <1>3, <1>6, <2>1 DEF Rule
<1>7. CASE k # 0
  <2>1. k \in 1..last /\ 1 \in 1..k /\ k \in 1..k
    BY <1>1, <1>5, <1>7
  <2>2. Time(1) <= time /\ Time(k) <= time /\ Time(1) \in Int /\ Time(k) \in Int
    BY <1>1, <1>2, <2>1
  <2>3. transitions # <<>> /\ ~(time < Time(1))
    BY <1>1, <2>1, <2>2
  <2>4. CASE Time(k) = time
    <3>1. \A i \in 1..(k - 1) : Time(i) < time
      BY <1>1, <2>1, <2>4
    <3>2. \A i \in k..last : ~(Time(i) < time)
      BY <1>1, <1>2, <2>1, <2>4
    <3>3. at = k
      BY <1>1, <1>4, <2>1, <3>1, <3>2
    <3>4. k <= last
      BY <2>1
    <3> QED
      BY <1>3, <1>7, <2>3, <2>4, <3>3, <3>4 DEF Rule, transitions
  <2>5. CASE Time(k) # time
    <3>1. \A i \in 1..k : i \in 1..last /\ (i < k \/ i = k)
      BY <1>1, <2>1
    <3>2. \A i \in 1..(k + 1 - 1) : Time(i) < time
      BY <1>1, <2>1, <2>2, <2>5, <3>1
    <3>3. \A i \in (k + 1)..last : ~(Time(i) < time) /\ Time(i) # time
      BY <1>1, <1>2, <2>1
    <3>4. k + 1 \in 1..(last + 1) /\ k + 1 - 1 = k
      BY <1>1, <2>1
    <3>5. at = k + 1
      BY <1>4, <3>2, <3>3, <3>4
    <3>6. ~(at <= last /\ Time(at) = time)
      BY <1>1, <2>1, <3>3, <3>5
    <3> QED
      BY <1>3, <1>7, <2>3, <3>4, <3>5, <3>6 DEF Rule, transitions
  <2> QED
    BY <2>4, <2>5
<1> QED
  BY <1>6, <1>7

(* The instants of the transitions up to k have come at now.               *)
NowIsAfter(k) ==
    k \in 0..Len(data.transitions) /\ IsLast(data, now, TRUE, k)

LEMMA InForceIsLast ==
    ASSUME IsZone(data), now \in Int, NEW k, NowIsAfter(k)
    PROVE  Cal!InForce = Rule(data, k)
<1> DEFINE last == Len(data.transitions)
           past == {i \in DOMAIN data.transitions : data.transitions[i].gmtime <= now}
<1>1. last \in Nat /\ DOMAIN data.transitions = 1..last
  <2>1. data.transitions \in Seq([gmtime : Int, localtime : Int, localtimeIdx : Nat])
    BY DEF IsZone
  <2> QED
    BY <2>1
<1>2. \A i \in 1..last : data.transitions[i].gmtime \in Int
  BY KeysAscend DEF Cal!Key
<1>3. /\ \A i \in 1..k : data.transitions[i].gmtime <= now
      /\ \A i \in (k + 1)..last : now < data.transitions[i].gmtime
      /\ k \in 0..last
  BY DEF NowIsAfter, IsLast, Cal!Key
<1> HIDE DEF last
<1>4. past = 1..k
  <2>1. \A i \in 1..last : i \in 1..k \/ i \in (k + 1)..last
    BY <1>1, <1>3
  <2>2. \A i \in 1..k : i \in 1..last
    BY <1>1, <1>3
  <2>3. \A i \in (k + 1)..last : i \in 1..last /\ ~(data.transitions[i].gmtime <= now)
    BY <1>1, <1>2, <1>3
  <2> QED
    BY <1>1, <1>3, <2>1, <2>2, <2>3
<1>5. CASE k = 0
  <2>1. past = {}
    BY <1>4, <1>5
  <2> QED
    BY <1>5, <2>1 DEF Cal!InForce, Rule
<1>6. CASE k # 0
  <2>1. k \in 1..k /\ \A j \in 1..k : j <= k
    BY <1>1, <1>3, <1>6
  <2>2. \A i \in 1..k : (\A j \in 1..k : j <= i) => i = k
    BY <1>1, <1>3, <2>1
  <2>3. (CHOOSE i \in 1..k : \A j \in 1..k : j <= i) = k
    BY <2>1, <2>2
  <2> HIDE DEF past
  <2>4. past # {}
    BY <1>4, <2>1
  <2>5. Cal!InForce = data.localtimes[data.transitions[
                         CHOOSE i \in past : \A j \in past : j <= i].localtimeIdx]
    BY <2>4 DEF Cal!InForce, past
  <2>6. (CHOOSE i \in past : \A j \in past : j <= i) = k
    BY <1>4, <2>3, Zenon
  <2>7. Rule(data, k) = data.localtimes[data.transitions[k].localtimeIdx]
    BY <1>6 DEF Rule
  <2> QED
    BY <2>5, <2>6, <2>7
<1> QED
  BY <1>5, <1>6

LEMMA LocalTimeIs ==
    ASSUME NEW zone, IsZone(zone), NEW time \in Int,
           NEW k \in 0..Len(zone.transitions), IsLast(zone, time, TRUE, k)
    PROVE  Cal!toLocalTime(zone, time)
              = [time |-> time + Rule(zone, k).gmtOffset, isdst |-> Rule(zone, k).isDst]
<1>1. Cal!findLocaltime(zone, time, TRUE) = Rule(zone, k)
  BY RuleFound
<1> QED
  BY <1>1, Zenon DEF Cal!toLocalTime

LEMMA LocalTimeFollows ==
    ASSUME IsZone(data), now \in Int
    PROVE  Cal!LocalTimeFollowsRules
<1>1. PICK k \in 0..Len(data.transitions) : IsLast(data, now, TRUE, k)
  BY LastExists
<1>2. Cal!InForce = Rule(data, k)
  BY <1>1, InForceIsLast DEF NowIsAfter
<1> QED
  BY <1>1, <1>2, LocalTimeIs DEF Cal!LocalTimeFollowsRules

(* What fromLocalTime makes of the seconds that mktime gives, of the        *)
(* offset that it finds and of the local time that it tries.               *)
FromTry(tm, seconds, offset, try) ==
    IF tm.isdst /\ ~try.isdst /\ Cal!hourAndMinute(try) = Cal!hourAndMinute(tm)
    THEN seconds - 3600 - offset ELSE seconds - offset

Tries(zone, tm, seconds, offset, try) ==
    /\ seconds = Cal!mktime(tm)
    /\ offset = Cal!findLocaltime(zone, seconds, FALSE).gmtOffset
    /\ try = Cal!toLocalTime(zone, seconds - offset)

LEMMA FromLocalTimeIs ==
    ASSUME NEW zone, NEW tm, NEW seconds \in Int, NEW offset \in Int, NEW try,
           Tries(zone, tm, seconds, offset, try)
    PROVE  Cal!fromLocalTime(zone, tm) = FromTry(tm, seconds, offset, try)
BY SMT DEF Tries, Cal!fromLocalTime, FromTry

(* A local time before the one that the next transition sets: it is that   *)
(* transition's predecessor which fromLocalTime finds, and its offset.     *)
LEMMA SameRuleReadsBack ==
    ASSUME NEW zone, IsZone(zone), NEW time \in Int,
           NEW k \in 0..Len(zone.transitions), IsLast(zone, time, TRUE, k),
           IsLast(zone, time + Rule(zone, k).gmtOffset, FALSE, k)
    PROVE  Cal!fromLocalTime(zone, Cal!toLocalTime(zone, time)) = time
<1> DEFINE rule == Rule(zone, k)
           tm == Cal!toLocalTime(zone, time)
           seconds == time + rule.gmtOffset
<1>1. rule.gmtOffset \in Int /\ rule.isDst \in BOOLEAN
  BY DEF IsZone
<1>2. tm = [time |-> seconds, isdst |-> rule.isDst]
  BY LocalTimeIs
<1>3. Cal!findLocaltime(zone, seconds, FALSE) = rule
  <2>1. seconds \in Int
    BY <1>1
  <2>2. IsLast(zone, seconds, FALSE, k)
    OBVIOUS
  <2> HIDE DEF seconds
  <2> QED
    BY <2>1, <2>2, RuleFound
<1> HIDE DEF tm, rule
<1>4. seconds \in Int /\ seconds - rule.gmtOffset = time
  BY <1>1
<1> HIDE DEF seconds
<1>5. Cal!mktime(tm) = seconds
  BY <1>2 DEF Cal!mktime
<1>6. Cal!toLocalTime(zone, seconds - rule.gmtOffset) = tm
  BY <1>4 DEF tm
<1> DEFINE offset == rule.gmtOffset
<1>7. offset \in Int /\ offset = Cal!findLocaltime(zone, seconds, FALSE).gmtOffset
  BY <1>1, <1>3
<1>8. PICK try : try = Cal!toLocalTime(zone, seconds - offset)
  OBVIOUS
<1>9. try = tm /\ seconds - offset = time
  BY <1>4, <1>6, <1>8
<1>10. seconds \in Int /\ seconds = Cal!mktime(tm)
  BY <1>4, <1>5
<1> HIDE DEF offset
<1>11. Cal!fromLocalTime(zone, tm) = FromTry(tm, seconds, offset, try)
  <2>1. Tries(zone, tm, seconds, offset, try)
    BY <1>7, <1>8, <1>10, Zenon DEF Tries
  <2>2. seconds \in Int /\ offset \in Int
    BY <1>7, <1>10, Zenon
  <2> QED
    BY <2>1, <2>2, FromLocalTimeIs
<1>12. FromTry(tm, seconds, offset, tm) = seconds - offset
  BY SMT DEF FromTry
<1> QED
  BY <1>9, <1>11, <1>12, Zenon DEF tm

(* The clock is put back by an hour, from daylight saving time, if at all. *)
PutBackOneHour(zone, i) ==
    Rule(zone, i).gmtOffset < Rule(zone, i - 1).gmtOffset
        => /\ Rule(zone, i - 1).isDst /\ ~Rule(zone, i).isDst
           /\ Rule(zone, i - 1).gmtOffset - Rule(zone, i).gmtOffset = 3600

LEMMA ZoneTimes ==
    ASSUME NEW zone, IsZone(zone)
    PROVE  /\ Len(zone.transitions) \in Nat
           /\ \A i \in 1..Len(zone.transitions) :
                 /\ zone.transitions[i].gmtime \in Int
                 /\ zone.transitions[i].localtime \in Int
<1>1. /\ Len(zone.transitions) \in Nat
      /\ \A i \in 1..Len(zone.transitions) :
            Cal!Key(TRUE, zone.transitions[i]) \in Int
  BY KeysAscend
<1>2. \A i \in 1..Len(zone.transitions) :
         Cal!Key(FALSE, zone.transitions[i]) \in Int
  BY KeysAscend
<1> QED
  BY <1>1, <1>2 DEF Cal!Key

(* The instant is under rule k, and n is the next one; seconds is its local *)
(* time, and later the instant an hour later.                              *)
IsPass(zone, time, k, n, seconds, later) ==
    /\ k \in 0..Len(zone.transitions) /\ IsLast(zone, time, TRUE, k)
    /\ n = k + 1
    /\ seconds = time + Rule(zone, k).gmtOffset /\ later = HourAfter(time)

(* When, by local times, another transition is the last, it is the next    *)
(* one, which puts the clock back: this is the first pass of the hour.     *)
LEMMA NextIsLast ==
    ASSUME NEW zone, IsZone(zone),
           \A i \in 1..Len(zone.transitions) : PutBackOneHour(zone, i),
           NEW time \in Int, NEW k \in Int, NEW n \in Int,
           NEW seconds \in Int, NEW later \in Int,
           IsPass(zone, time, k, n, seconds, later),
           ~IsLast(zone, seconds, FALSE, k)
    PROVE  /\ n \in 0..Len(zone.transitions)
           /\ IsLast(zone, seconds, FALSE, n) /\ IsLast(zone, later, TRUE, n)
           /\ Rule(zone, k).isDst /\ ~Rule(zone, n).isDst
           /\ Rule(zone, k).gmtOffset = HourAfter(Rule(zone, n).gmtOffset)
<1> DEFINE last == Len(zone.transitions)
           Gmt(i) == zone.transitions[i].gmtime
           Local(i) == zone.transitions[i].localtime
           Offset(i) == Rule(zone, i).gmtOffset
<1>1. last \in Nat /\ k \in 0..last /\ n = k + 1
  BY ZoneTimes DEF IsPass
<1>2. \A i \in 1..last : Gmt(i) \in Int /\ Local(i) \in Int
  BY ZoneTimes
<1>3. /\ \A i \in 0..last : Offset(i) \in Int
      /\ \A i \in 1..last : Local(i) = Gmt(i) + Offset(i)
      /\ \A i, j \in 1..last :
            i < j => Gmt(i) + 3600 <= Gmt(j) /\ Local(i) + 3600 <= Local(j)
  BY DEF IsZone, HourAfter
<1>4. /\ \A i \in 1..k : Gmt(i) <= time
      /\ \A i \in (k + 1)..last : time < Gmt(i)
  BY DEF IsLast, IsPass, Cal!Key
<1>5. n \in 1..last
         => (Offset(n) < Offset(k)
                => /\ Rule(zone, k).isDst /\ ~Rule(zone, n).isDst
                   /\ Offset(k) - Offset(n) = 3600)
  <2>1. n - 1 = k
    BY <1>1
  <2> QED
    BY <2>1 DEF PutBackOneHour
<1> HIDE DEF last, Gmt, Local, Offset
<1>6. Offset(k) \in Int /\ seconds = time + Offset(k) /\ later = HourAfter(time)
  BY <1>1, <1>3 DEF Offset, IsPass
<1>7. \A i \in 1..k : Local(i) <= seconds
  <2> SUFFICES ASSUME NEW i \in 1..k
               PROVE  Local(i) <= seconds
    OBVIOUS
  <2>1. i \in 1..last /\ k \in 1..last /\ k \in 1..k /\ (i = k \/ i < k)
    BY <1>1
  <2>2. Gmt(k) <= time /\ Local(k) = Gmt(k) + Offset(k) /\ Gmt(k) \in Int
    BY <1>2, <1>3, <1>4, <2>1
  <2>3. Local(k) <= seconds
    BY <1>6, <2>2
  <2>4. Local(i) \in Int /\ Local(k) \in Int /\ (i < k => Local(i) + 3600 <= Local(k))
    BY <1>2, <1>3, <2>1
  <2> QED
    BY <1>6, <2>1, <2>3, <2>4
<1>8. PICK i \in n..last : ~(seconds < Local(i))
  BY <1>1, <1>7 DEF IsLast, Cal!Key, last, Local
<1>9. n \in 1..last /\ i \in 1..last /\ (i = n \/ n < i) /\ n \in (k + 1)..last
  BY <1>1, <1>8
<1>10. Local(n) <= seconds
  <2>1. Local(i) \in Int /\ Local(n) \in Int /\ (n < i => Local(n) + 3600 <= Local(i))
    BY <1>2, <1>3, <1>9
  <2> QED
    BY <1>6, <1>8, <1>9, <2>1
<1>11. /\ Local(n) = Gmt(n) + Offset(n) /\ time < Gmt(n)
       /\ Gmt(n) \in Int /\ Offset(n) \in Int /\ Local(n) \in Int
  BY <1>2, <1>3, <1>4, <1>9
<1>12. Offset(n) < Offset(k)
  BY <1>6, <1>10, <1>11
<1>13. Rule(zone, k).isDst /\ ~Rule(zone, n).isDst
  BY <1>5, <1>9, <1>12
<1>14. Offset(k) = Offset(n) + 3600
  BY <1>5, <1>6, <1>9, <1>11, <1>12
<1>15. /\ seconds < Local(n) + 3600 /\ Gmt(n) <= later
       /\ time < later
  BY <1>6, <1>10, <1>11, <1>14 DEF HourAfter
<1>16. ASSUME NEW j \in (n + 1)..last
       PROVE  seconds < Local(j) /\ later < Gmt(j)
  <2>1. j \in 1..last /\ n < j
    BY <1>1, <1>9
  <2>2. /\ Gmt(n) + 3600 <= Gmt(j) /\ Local(n) + 3600 <= Local(j)
        /\ Gmt(j) \in Int /\ Local(j) \in Int
    BY <1>2, <1>3, <1>9, <2>1
  <2> QED
    BY <1>6, <1>11, <1>15, <2>2 DEF HourAfter
<1>17. ASSUME NEW j \in 1..n
       PROVE  Local(j) <= seconds /\ Gmt(j) <= later
  <2>1. CASE j = n
    BY <1>10, <1>15, <2>1
  <2>2. CASE j \in 1..k
    <3>1. Gmt(j) <= time /\ Gmt(j) \in Int
      BY <1>1, <1>2, <1>4, <2>2
    <3> QED
      BY <1>7, <1>15, <2>2, <3>1
  <2> QED
    BY <1>1, <2>1, <2>2
<1>18. IsLast(zone, seconds, FALSE, n)
  BY <1>16, <1>17 DEF IsLast, Cal!Key, last, Local
<1>19. IsLast(zone, later, TRUE, n)
  BY <1>16, <1>17 DEF IsLast, Cal!Key, last, Gmt
<1>20. n \in 0..last
  BY <1>9
<1>21. Rule(zone, k).gmtOffset = HourAfter(Rule(zone, n).gmtOffset)
  BY <1>14, SMT DEF Offset, HourAfter
<1>22. n \in 0..Len(zone.transitions)
  BY <1>20 DEF last
<1> QED
  BY <1>13, <1>18, <1>19, <1>21, <1>22, Zenon

(* In that hour fromLocalTime, misled by the offset of the transition that *)
(* ends it, tries the local time an hour later, which spells the same hour *)
(* and minute without daylight saving time: it goes back by the hour.      *)
LEMMA FirstPassTries ==
    ASSUME NEW zone, IsZone(zone),
           NEW time \in Int, NEW seconds \in Int, NEW later \in Int,
           NEW n \in 0..Len(zone.transitions), ~Rule(zone, n).isDst,
           later = HourAfter(time), seconds = later + Rule(zone, n).gmtOffset,
           IsLast(zone, seconds, FALSE, n), IsLast(zone, later, TRUE, n)
    PROVE  Cal!fromLocalTime(zone, [time |-> seconds, isdst |-> TRUE]) = time
<1>1. Rule(zone, n).gmtOffset \in Int
  BY DEF IsZone
<1>2. PICK offset \in Int : offset = Rule(zone, n).gmtOffset
  BY <1>1
<1>3. seconds - offset = later
  BY <1>1, <1>2
<1>4. offset = Cal!findLocaltime(zone, seconds, FALSE).gmtOffset
  BY <1>2, RuleFound
<1>5. PICK tm : tm = [time |-> seconds, isdst |-> TRUE]
  OBVIOUS
<1>6. PICK try : try = Cal!toLocalTime(zone, later)
  OBVIOUS
<1>7. try = [time |-> seconds, isdst |-> Rule(zone, n).isDst]
  BY <1>6, LocalTimeIs
<1>8. try.time = tm.time /\ ~try.isdst /\ tm.isdst
  BY <1>5, <1>7
<1>9. Cal!hourAndMinute(try) = Cal!hourAndMinute(tm)
  BY <1>8, Zenon DEF Cal!hourAndMinute
<1>10. seconds = Cal!mktime(tm)
  BY <1>5, Zenon DEF Cal!mktime
<1>11. try = Cal!toLocalTime(zone, seconds - offset)
  BY <1>3, <1>6, Zenon
<1>12. Cal!fromLocalTime(zone, tm) = FromTry(tm, seconds, offset, try)
  <2>1. Tries(zone, tm, seconds, offset, try)
    BY <1>4, <1>10, <1>11, Zenon DEF Tries
  <2> QED
    BY <2>1, FromLocalTimeIs
<1>13. FromTry(tm, seconds, offset, try) = seconds - 3600 - offset
  BY <1>8, <1>9, SMT DEF FromTry
<1>14. seconds - 3600 - offset = time
  BY <1>1, <1>2, SMT DEF HourAfter
<1> QED
  BY <1>5, <1>12, <1>13, <1>14, SMT

LEMMA FirstPassReadsBack ==
    ASSUME NEW zone, IsZone(zone),
           \A i \in 1..Len(zone.transitions) : PutBackOneHour(zone, i),
           NEW time \in Int, NEW k \in Int, NEW n \in Int,
           NEW seconds \in Int, NEW later \in Int,
           IsPass(zone, time, k, n, seconds, later),
           ~IsLast(zone, seconds, FALSE, k)
    PROVE  Cal!fromLocalTime(zone, Cal!toLocalTime(zone, time)) = time
<1>1. /\ n \in 0..Len(zone.transitions)
      /\ IsLast(zone, seconds, FALSE, n) /\ IsLast(zone, later, TRUE, n)
      /\ Rule(zone, k).isDst /\ ~Rule(zone, n).isDst
      /\ Rule(zone, k).gmtOffset = HourAfter(Rule(zone, n).gmtOffset)
  BY NextIsLast
<1>2. /\ k \in 0..Len(zone.transitions) /\ IsLast(zone, time, TRUE, k)
      /\ seconds = time + Rule(zone, k).gmtOffset /\ later = HourAfter(time)
  BY DEF IsPass
<1>3. /\ Rule(zone, k).gmtOffset \in Int /\ Rule(zone, n).gmtOffset \in Int
      /\ Rule(zone, k).isDst \in BOOLEAN
  BY <1>1, <1>2 DEF IsZone
<1>4. seconds = later + Rule(zone, n).gmtOffset
  BY <1>1, <1>2, <1>3, SMT DEF HourAfter
<1>5. Cal!fromLocalTime(zone, [time |-> seconds, isdst |-> TRUE]) = time
  BY <1>1, <1>2, <1>4, FirstPassTries
<1>6. Cal!toLocalTime(zone, time)
         = [time |-> time + Rule(zone, k).gmtOffset, isdst |-> Rule(zone, k).isDst]
  BY <1>2, LocalTimeIs
<1>7. Rule(zone, k).isDst = TRUE
  BY <1>1, <1>3
<1> QED
  BY <1>2, <1>5, <1>6, <1>7, Zenon

LEMMA LocalTimeReadsBack ==
    ASSUME IsZone(data), now \in Int
    PROVE  Cal!LocalTimesReadBack
<1> SUFFICES ASSUME \A i \in DOMAIN data.transitions : Cal!PutBackOneHour(i)
             PROVE  Cal!fromLocalTime(data, Cal!toLocalTime(data, now)) = now
  BY DEF Cal!LocalTimesReadBack
<1>1. DOMAIN data.transitions = 1..Len(data.transitions)
      /\ Len(data.transitions) \in Nat
  <2>1. data.transitions \in Seq([gmtime : Int, localtime : Int, localtimeIdx : Nat])
    BY DEF IsZone
  <2> QED
    BY <2>1
<1>2. \A i \in 1..Len(data.transitions) : PutBackOneHour(data, i)
  BY <1>1, SMT DEF Cal!PutBackOneHour, PutBackOneHour, Rule
<1>3. PICK k \in 0..Len(data.transitions) : IsLast(data, now, TRUE, k)
  BY LastExists
<1>4. CASE IsLast(data, now + Rule(data, k).gmtOffset, FALSE, k)
  BY <1>3, <1>4, SameRuleReadsBack
<1>5. CASE ~IsLast(data, now + Rule(data, k).gmtOffset, FALSE, k)
  <2>1. now + Rule(data, k).gmtOffset \in Int /\ k \in Int /\ k + 1 \in Int
    BY <1>1, <1>3 DEF IsZone
  <2>2. HourAfter(now) \in Int
    BY SMT DEF HourAfter
  <2>3. IsPass(data, now, k, k + 1, now + Rule(data, k).gmtOffset, HourAfter(now))
    BY <1>3, Zenon DEF IsPass
  <2> QED
    BY <1>2, <1>5, <2>1, <2>2, <2>3, FirstPassReadsBack, Zenon
<1> QED
  BY <1>4, <1>5

-----------------------------------------------------------------------------
(* The zones of the behaviours.                                            *)

(* What IsZone says, of the file.                                          *)
IsZoneFile(file) ==
    /\ file.types \in Seq([gmtOffset : Int, isDst : BOOLEAN]) /\ 1 \in DOMAIN file.types
    /\ file.trans \in Seq(Nat)
    /\ \A i \in DOMAIN file.trans :
          file.idx[i] \in Nat /\ file.idx[i] \in DOMAIN file.types
    /\ \A i, j \in DOMAIN file.trans :
          i < j => /\ HourAfter(file.trans[i]) <= file.trans[j]
                   /\ HourAfter(file.trans[i] + file.types[file.idx[i]].gmtOffset)
                         <= file.trans[j] + file.types[file.idx[j]].gmtOffset

LEMMA ParsedIsZone ==
    ASSUME NEW file, IsZoneFile(file)
    PROVE  IsZone(Cal!parseTimeZoneFile(file))
<1> DEFINE zone == Cal!parseTimeZoneFile(file)
           last == Len(file.trans)
           Trans(i) == file.trans[i]
           Offset(i) == file.types[file.idx[i]].gmtOffset
           Transition(i) == [gmtime |-> Trans(i), localtime |-> Trans(i) + Offset(i),
                             localtimeIdx |-> file.idx[i]]
<1>1. DOMAIN file.trans = 1..last /\ last \in Nat
  <2>1. file.trans \in Seq(Nat)
    BY DEF IsZoneFile
  <2> QED
    BY <2>1
<1>2. /\ zone.localtimes = file.types
      /\ zone.transitions = [i \in 1..last |-> Transition(i)]
  BY <1>1, Zenon DEF Cal!parseTimeZoneFile
<1>3. \A t \in DOMAIN file.types :
         file.types[t].gmtOffset \in Int /\ file.types[t].isDst \in BOOLEAN
  <2>1. file.types \in Seq([gmtOffset : Int, isDst : BOOLEAN])
    BY DEF IsZoneFile
  <2> SUFFICES ASSUME NEW t \in DOMAIN file.types
               PROVE  /\ file.types[t].gmtOffset \in Int
                      /\ file.types[t].isDst \in BOOLEAN
    OBVIOUS
  <2>2. file.types[t] \in [gmtOffset : Int, isDst : BOOLEAN]
    BY <2>1, Zenon, ElementOfSeq, LenProperties
  <2> QED
    BY <2>2
<1>4. \A i \in 1..last :
         Trans(i) \in Int /\ Offset(i) \in Int
         /\ file.idx[i] \in Nat /\ file.idx[i] \in DOMAIN file.types
  <2>1. \A i \in 1..last : file.idx[i] \in Nat /\ file.idx[i] \in DOMAIN file.types
    <3>1. \A i \in DOMAIN file.trans :
             file.idx[i] \in Nat /\ file.idx[i] \in DOMAIN file.types
      BY Zenon DEF IsZoneFile
    <3> QED
      BY <1>1, <3>1, Zenon
  <2>2. \A i \in 1..last : Offset(i) \in Int
    BY <1>3, <2>1, Zenon
  <2>3. file.trans \in Seq(Nat)
    BY DEF IsZoneFile
  <2>4. \A i \in 1..last : Trans(i) \in Int
    BY <2>3
  <2> QED
    BY <2>1, <2>2, <2>4, Zenon
<1>5. \A i, j \in 1..last :
         i < j => /\ HourAfter(Trans(i)) <= Trans(j)
                  /\ HourAfter(Trans(i) + Offset(i)) <= Trans(j) + Offset(j)
  <2>1. \A i, j \in DOMAIN file.trans :
           i < j => /\ HourAfter(Trans(i)) <= Trans(j)
                    /\ HourAfter(Trans(i) + Offset(i)) <= Trans(j) + Offset(j)
    BY SMT DEF IsZoneFile
  <2> QED
    BY <1>1, <2>1, SMT
<1>6. 1 \in DOMAIN file.types
  BY DEF IsZoneFile
<1> HIDE DEF zone, last, Trans, Offset
<1>7. \A i \in 1..last :
         Transition(i) \in [gmtime : Int, localtime : Int, localtimeIdx : Nat]
  BY <1>4
<1> HIDE DEF Transition
<1>8. zone.transitions \in Seq([gmtime : Int, localtime : Int, localtimeIdx : Nat])
  BY <1>1, <1>2, <1>7
<1>9. Len(zone.transitions) = last
  BY <1>1, <1>2
<1>10. \A i \in 1..last :
          /\ zone.transitions[i].gmtime = Trans(i)
          /\ zone.transitions[i].localtime = Trans(i) + Offset(i)
          /\ zone.transitions[i].localtimeIdx = file.idx[i]
  BY <1>2 DEF Transition
<1>11. \A i \in 1..last : Rule(zone, i) = file.types[file.idx[i]]
  BY <1>1, <1>2, <1>10 DEF Rule
<1>12. Rule(zone, 0) = file.types[1]
  BY <1>2 DEF Rule
<1>13. \A i \in 0..last : i = 0 \/ i \in 1..last
  BY <1>1
<1>14. \A i \in 0..last :
          Rule(zone, i).gmtOffset \in Int /\ Rule(zone, i).isDst \in BOOLEAN
  BY <1>3, <1>4, <1>6, <1>11, <1>12, <1>13
<1>15. \A i \in 1..last : Rule(zone, i).gmtOffset = Offset(i)
  BY <1>11 DEF Offset
<1>16. \A i \in 1..last :
          zone.transitions[i].localtime
             = zone.transitions[i].gmtime + Rule(zone, i).gmtOffset
  BY <1>10, <1>15
<1>17. \A i, j \in 1..last :
          i < j => /\ HourAfter(zone.transitions[i].gmtime) <= zone.transitions[j].gmtime
                   /\ HourAfter(zone.transitions[i].localtime)
                         <= zone.transitions[j].localtime
  BY <1>5, <1>10
<1> QED
  BY <1>8, <1>9, <1>14, <1>16, <1>17, Zenon DEF IsZone, zone

(* The same, by the numbers of rules and of transitions.                   *)
LEMMA ZoneFileOf ==
    ASSUME NEW file, NEW last \in Nat, NEW rules \in Nat \ {0},
           file.types \in Seq([gmtOffset : Int, isDst : BOOLEAN]),
           DOMAIN file.types = 1..rules,
           file.trans \in Seq(Nat), DOMAIN file.trans = 1..last,
           \A i \in 1..last : file.idx[i] \in 1..rules,
           \A i, j \in 1..last :
              i < j => /\ HourAfter(file.trans[i]) <= file.trans[j]
                       /\ HourAfter(file.trans[i] + file.types[file.idx[i]].gmtOffset)
                             <= file.trans[j] + file.types[file.idx[j]].gmtOffset
    PROVE  IsZoneFile(file)
<1>1. \A i \in 1..last : file.idx[i] \in Nat /\ file.idx[i] \in 1..rules
  OBVIOUS
<1>2. 1 \in DOMAIN file.types
  OBVIOUS
<1>3. \A i \in DOMAIN file.trans :
         file.idx[i] \in Nat /\ file.idx[i] \in DOMAIN file.types
  BY <1>1, Zenon
<1>4. \A i, j \in DOMAIN file.trans :
         i < j => /\ HourAfter(file.trans[i]) <= file.trans[j]
                  /\ HourAfter(file.trans[i] + file.types[file.idx[i]].gmtOffset)
                        <= file.trans[j] + file.types[file.idx[j]].gmtOffset
  BY Zenon
<1> QED
  BY <1>2, <1>3, <1>4, Zenon DEF IsZoneFile

LEMMA NewYorkIsAFile == IsZoneFile(NewYork)
<1>1. /\ NewYork.types \in Seq([gmtOffset : Int, isDst : BOOLEAN])
      /\ DOMAIN NewYork.types = 1..2
  BY SMT DEF NewYork, HourAfter, Standard, Summer
<1>2. NewYork.trans \in Seq(Nat) /\ DOMAIN NewYork.trans = 1..4
  BY SMT DEF NewYork
<1>3. \A i \in 1..4 : NewYork.idx[i] \in 1..2
  BY SMT DEF NewYork
<1>4. \A i, j \in 1..4 :
         i < j => /\ HourAfter(NewYork.trans[i]) <= NewYork.trans[j]
                  /\ HourAfter(NewYork.trans[i] + NewYork.types[NewYork.idx[i]].gmtOffset)
                         <= NewYork.trans[j] + NewYork.types[NewYork.idx[j]].gmtOffset
  BY SMT DEF NewYork, HourAfter, Standard, Summer
<1>5. 4 \in Nat /\ 2 \in Nat \ {0}
  OBVIOUS
<1> QED
  BY <1>1, <1>2, <1>3, <1>4, <1>5, ZoneFileOf, Zenon

LEMMA SydneyIsAFile == IsZoneFile(Sydney)
<1>1. /\ Sydney.types \in Seq([gmtOffset : Int, isDst : BOOLEAN])
      /\ DOMAIN Sydney.types = 1..2
  BY SMT DEF Sydney, HourAfter, Standard, Summer
<1>2. Sydney.trans \in Seq(Nat) /\ DOMAIN Sydney.trans = 1..2
  BY SMT DEF Sydney
<1>3. \A i \in 1..2 : Sydney.idx[i] \in 1..2
  BY SMT DEF Sydney
<1>4. \A i, j \in 1..2 :
         i < j => /\ HourAfter(Sydney.trans[i]) <= Sydney.trans[j]
                  /\ HourAfter(Sydney.trans[i] + Sydney.types[Sydney.idx[i]].gmtOffset)
                         <= Sydney.trans[j] + Sydney.types[Sydney.idx[j]].gmtOffset
  BY SMT DEF Sydney, HourAfter, Standard, Summer
<1>5. 2 \in Nat /\ 2 \in Nat \ {0}
  OBVIOUS
<1> QED
  BY <1>1, <1>2, <1>3, <1>4, <1>5, ZoneFileOf, Zenon

LEMMA MoscowIsAFile == IsZoneFile(Moscow)
<1>1. /\ Moscow.types \in Seq([gmtOffset : Int, isDst : BOOLEAN])
      /\ DOMAIN Moscow.types = 1..2
  BY SMT DEF Moscow, HourAfter, Standard
<1>2. Moscow.trans \in Seq(Nat) /\ DOMAIN Moscow.trans = 1..2
  BY SMT DEF Moscow
<1>3. \A i \in 1..2 : Moscow.idx[i] \in 1..2
  BY SMT DEF Moscow
<1>4. \A i, j \in 1..2 :
         i < j => /\ HourAfter(Moscow.trans[i]) <= Moscow.trans[j]
                  /\ HourAfter(Moscow.trans[i] + Moscow.types[Moscow.idx[i]].gmtOffset)
                         <= Moscow.trans[j] + Moscow.types[Moscow.idx[j]].gmtOffset
  BY SMT DEF Moscow, HourAfter, Standard
<1>5. 2 \in Nat /\ 2 \in Nat \ {0}
  OBVIOUS
<1> QED
  BY <1>1, <1>2, <1>3, <1>4, <1>5, ZoneFileOf, Zenon

LEMMA FixedIsZone ==
    ASSUME NEW eastOfUTC \in Int
    PROVE  IsZone(Cal!FixedZone(eastOfUTC))
<1> DEFINE zone == Cal!FixedZone(eastOfUTC)
<1>1. /\ zone.transitions = <<>>
      /\ zone.localtimes = <<[gmtOffset |-> eastOfUTC, isDst |-> FALSE]>>
  BY DEF Cal!FixedZone, Cal!Localtime
<1> HIDE DEF zone
<1>2. /\ zone.transitions \in Seq([gmtime : Int, localtime : Int, localtimeIdx : Nat])
      /\ Len(zone.transitions) = 0
  BY <1>1
<1>3. Rule(zone, 0).gmtOffset = eastOfUTC /\ Rule(zone, 0).isDst = FALSE
  BY <1>1 DEF Rule
<1> DEFINE transitions == zone.transitions
<1>4. \A i \in 0..Len(transitions) :
         Rule(zone, i).gmtOffset \in Int /\ Rule(zone, i).isDst \in BOOLEAN
  <2>1. \A i \in 0..Len(transitions) : i = 0
    BY <1>2
  <2> QED
    BY <1>3, <2>1
<1>5. \A i \in 1..Len(transitions) : FALSE
  BY <1>2
<1> QED
  BY <1>2, <1>4, <1>5, Zenon DEF IsZone, zone

-----------------------------------------------------------------------------
(* The invariant: the data are those of a zone, which Tick keeps, and the  *)
(* instants start no earlier than Around before the epoch.                 *)
ZoneInv == which = "zone" => IsZone(data) /\ now \in Int /\ -Around <= now

LEMMA ZoneInvInit == MCInit => ZoneInv
<1> SUFFICES ASSUME Cal!ZoneInit
             PROVE  IsZone(data) /\ now \in Int /\ -Around <= now
  BY DEF MCInit, ZoneInv
<1>1. Around \in Nat
  BY ZonesAssumption
<1>2. CASE \E file \in {NewYork, Sydney, Moscow} :
              /\ data = Cal!parseTimeZoneFile(file)
              /\ \E i \in DOMAIN file.trans : now = file.trans[i] - Around
  <2>1. PICK file \in {NewYork, Sydney, Moscow} :
              /\ data = Cal!parseTimeZoneFile(file)
              /\ \E i \in DOMAIN file.trans : now = file.trans[i] - Around
    BY <1>2, Zenon
  <2>2. IsZoneFile(file)
    BY <2>1, NewYorkIsAFile, SydneyIsAFile, MoscowIsAFile, Zenon
  <2>3. IsZone(data)
    BY <2>1, <2>2, ParsedIsZone, Zenon
  <2>4. PICK i \in DOMAIN file.trans : now = file.trans[i] - Around
    BY <2>1, Zenon
  <2>5. file.trans[i] \in Nat
    <3>1. file.trans \in Seq(Nat)
      BY <2>2 DEF IsZoneFile
    <3> QED
      BY <3>1, <2>4, Zenon, ElementOfSeq, LenProperties
  <2> QED
    BY <1>1, <2>3, <2>4, <2>5
<1>3. CASE \E hours \in {-5, 0, 8} :
              data = Cal!FixedZone(hours * 3600) /\ now = -Around
  <2>1. PICK hours \in Int : data = Cal!FixedZone(hours * 3600) /\ now = -Around
    BY <1>3
  <2>2. PICK east \in Int : east = hours * 3600
    OBVIOUS
  <2>3. data = Cal!FixedZone(east) /\ now = -Around
    BY <2>1, <2>2, SMT
  <2>4. IsZone(data)
    BY <2>3, FixedIsZone, Zenon
  <2> QED
    BY <1>1, <2>3, <2>4
<1> QED
  BY <1>2, <1>3, SMT DEF Cal!ZoneInit

LEMMA ZoneInvNext == ZoneInv /\ [MCNext]_mcVars => ZoneInv'
<1> SUFFICES ASSUME IsZone(data), now \in Int, -Around <= now, which' = which,
                    [MCNext]_mcVars, which = "zone"
             PROVE  IsZone(data') /\ now' \in Int /\ -Around <= now'
  BY DEF ZoneInv, MCNext, mcVars
<1>1. CASE Cal!Tick
  <2>1. now' = now + Step /\ data' = data /\ Step \in Nat /\ Around \in Nat
    BY <1>1, ZonesAssumption DEF Cal!Tick
  <2> QED
    BY <2>1
<1>2. CASE UNCHANGED zoneVars
  BY <1>2 DEF zoneVars
<1> QED
  BY <1>1, <1>2 DEF MCNext, mcVars

(* The first instant is in the year 0 or later, by its day number.         *)
LEMMA DaysFromYearZero ==
    ASSUME now \in Int, -Around <= now
    PROVE  Cal!Split(now).days >= FirstNumber - EpochDay
<1>1. Cal!getJulianDayNumber(0, 1, 1) = FirstNumber
  <2>1. (14 - 1) \div 12 = 1
    OBVIOUS
  <2> QED
    BY <2>1, SMT DEF Cal!getJulianDayNumber, FirstNumber
<1>2. Around \in Nat /\ Around \div 86400 < EpochDay - FirstNumber
  BY <1>1, EpochIs, ZonesAssumption, SMT DEF Cal!kSecondsPerDay
<1> DEFINE days == Cal!Split(now).days
           seconds == Cal!Split(now).seconds
<1>3. /\ days \in Int /\ seconds \in Int /\ seconds < 86400
      /\ now = 86400 * days + seconds
  BY SplitDivides
<1> HIDE DEF days, seconds
<1>4. PICK q \in Nat : q = Around \div 86400 /\ Around < 86400 * q + 86400
  <2>1. Around \div 86400 \in Nat /\ Around < 86400 * (Around \div 86400) + 86400
    BY <1>2
  <2> QED
    BY <2>1
<1>5. days > -(q + 2)
  BY <1>2, <1>3, <1>4
<1>6. days >= -(q + 1)
  BY <1>3, <1>4, <1>5
<1>7. q + 1 <= EpochDay - FirstNumber /\ EpochDay \in Int /\ FirstNumber \in Int
  BY <1>2, <1>4, SMT DEF EpochDay, FirstNumber
<1> QED
  BY <1>3, <1>6, <1>7 DEF days

(* timezone.cc: UTC fields lead back to the instant, also before the       *)
(* epoch; local fields follow the rule in force, and lead back to the      *)
(* instant also from a repeated hour, for any Around and Step.             *)
THEOREM TimesAlwaysReadBack == MCSpec => []TimesReadBack
<1>1. ZoneInv => TimesReadBack
  <2> SUFFICES ASSUME IsZone(data), now \in Int, -Around <= now
               PROVE  /\ Cal!UtcAgrees
                      /\ Cal!LocalTimeFollowsRules /\ Cal!LocalTimesReadBack
    BY DEF ZoneInv, TimesReadBack
  <2>1. Cal!Split(now).days >= FirstNumber - EpochDay
    BY DaysFromYearZero
  <2> QED
    BY <2>1, UtcReadsBack, LocalTimeFollows, LocalTimeReadsBack
<1> QED
  BY <1>1, ZoneInvInit, ZoneInvNext, PTL DEF MCSpec

-----------------------------------------------------------------------------
(* Integers: what the digits spell is found by the recursion from the      *)
(* left, that they are there by the recursion from the right.              *)
Magnitude(i) == IF i < 0 THEN -i ELSE i

(* The division by ten of C, towards zero.                                 *)
LEMMA TenthsOf ==
    ASSUME NEW i \in Int
    PROVE  /\ Digits!Quotient(i, 10) \in Int /\ Digits!Remainder(i, 10) \in Int
           /\ i = 10 * Digits!Quotient(i, 10) + Digits!Remainder(i, 10)
           /\ -9 <= Digits!Remainder(i, 10) /\ Digits!Remainder(i, 10) <= 9
           /\ i >= 0 => /\ Digits!Quotient(i, 10) >= 0
                        /\ Digits!Remainder(i, 10) >= 0
           /\ i <= 0 => /\ Digits!Quotient(i, 10) <= 0
                        /\ Digits!Remainder(i, 10) <= 0
<1>1. CASE i >= 0
  <2> DEFINE q == i \div 10
  <2>1. q \in Int /\ q >= 0 /\ 10 * q <= i /\ i <= 10 * q + 9
    BY <1>1
  <2>2. Digits!Quotient(i, 10) = q
    BY <1>1 DEF Digits!Quotient
  <2> HIDE DEF q
  <2>3. Digits!Remainder(i, 10) = i - 10 * q
    BY <2>2 DEF Digits!Remainder
  <2> QED
    BY <1>1, <2>1, <2>2, <2>3
<1>2. CASE i < 0
  <2> DEFINE q == (-i) \div 10
  <2>1. q \in Int /\ q >= 0 /\ 10 * q <= -i /\ -i <= 10 * q + 9
    <3>1. PICK j \in Nat : j = -i
      BY <1>2
    <3>2. j \div 10 \in Int /\ j \div 10 >= 0
          /\ 10 * (j \div 10) <= j /\ j <= 10 * (j \div 10) + 9
      OBVIOUS
    <3> QED
      BY <3>1, <3>2
  <2>2. Digits!Quotient(i, 10) = -q
    BY <1>2 DEF Digits!Quotient
  <2> HIDE DEF q
  <2>3. Digits!Remainder(i, 10) = i - 10 * (-q)
    BY <2>2 DEF Digits!Remainder
  <2> QED
    BY <1>2, <2>1, <2>2, <2>3
<1> QED
  BY <1>1, <1>2

(* digits[] has the digit of a remainder on either side of its middle.     *)
LEMMA ZeroIs ==
    ASSUME NEW lsd \in Int, -9 <= lsd, lsd <= 9
    PROVE  Digits!zero(lsd) = Magnitude(lsd) /\ Digits!zero(lsd) \in 0..9
BY DEF Digits!zero, Digits!digits, Magnitude

(* An integer by its quotient and its digit.                               *)
LEMMA MagnitudeOf ==
    ASSUME NEW i \in Int
    PROVE  /\ Magnitude(i) \in Nat /\ Magnitude(Digits!Quotient(i, 10)) \in Nat
           /\ Magnitude(i) = 10 * Magnitude(Digits!Quotient(i, 10))
                                + Digits!zero(Digits!Remainder(i, 10))
           /\ Digits!Quotient(i, 10) # 0
                 => Magnitude(Digits!Quotient(i, 10)) < Magnitude(i)
           /\ Digits!zero(Digits!Remainder(i, 10)) \in 0..9
<1> DEFINE q == Digits!Quotient(i, 10)
           r == Digits!Remainder(i, 10)
<1>1. /\ q \in Int /\ r \in Int /\ i = 10 * q + r /\ -9 <= r /\ r <= 9
      /\ i >= 0 => q >= 0 /\ r >= 0
      /\ i <= 0 => q <= 0 /\ r <= 0
  BY TenthsOf
<1> HIDE DEF q, r
<1>2. Digits!zero(r) = Magnitude(r) /\ Digits!zero(r) \in 0..9
  BY <1>1, ZeroIs
<1>3. Magnitude(i) \in Nat /\ Magnitude(q) \in Nat
  BY <1>1 DEF Magnitude
<1>4. Magnitude(i) = 10 * Magnitude(q) + Magnitude(r)
  BY <1>1 DEF Magnitude
<1>5. q # 0 => Magnitude(q) < Magnitude(i)
  BY <1>1 DEF Magnitude
<1> QED
  BY <1>2, <1>3, <1>4, <1>5 DEF q, r

-----------------------------------------------------------------------------
(* The values that Spelled passes through, one for each digit.             *)
Passes(text, f) ==
    f = [n \in 0..Len(text) |-> IF n = 0 THEN 0 ELSE 10 * f[n - 1] + text[n]]

Spells(text, v) ==
    \E f : Passes(text, f) /\ f[Len(text)] = v

LEMMA PassesOnce ==
    ASSUME NEW text, Len(text) \in Nat, NEW f, NEW g, Passes(text, f), Passes(text, g)
    PROVE  f[Len(text)] = g[Len(text)]
<1> DEFINE last == Len(text)
           Bad == {n \in 0..last : f[n] # g[n]}
<1>1. \A n \in 0..last : f[n] = IF n = 0 THEN 0 ELSE 10 * f[n - 1] + text[n]
  BY Zenon DEF Passes
<1>2. \A n \in 0..last : g[n] = IF n = 0 THEN 0 ELSE 10 * g[n - 1] + text[n]
  BY Zenon DEF Passes
<1> HIDE DEF last
<1>3. last \in Nat
  BY DEF last
<1>4. CASE Bad = {}
  <2>1. last \in 0..last
    BY <1>3
  <2> QED
    BY <1>4, <2>1 DEF last
<1>5. CASE Bad # {}
  <2>1. Bad \in SUBSET Nat
    BY <1>3
  <2>2. PICK n \in Bad : \A m \in Bad : n <= m
    BY <1>5, <2>1, LeastNumber
  <2>3. n \in 0..last /\ n # 0
    BY <1>1, <1>2
  <2>4. n - 1 \in 0..last /\ ~(n <= n - 1)
    BY <1>3, <2>3
  <2>5. f[n - 1] = g[n - 1]
    BY <2>2, <2>4
  <2> QED
    BY <1>1, <1>2, <2>2, <2>3, <2>5, Zenon
<1> QED
  BY <1>4, <1>5

LEMMA SpelledIs ==
    ASSUME NEW text, Len(text) \in Nat, NEW v, Spells(text, v)
    PROVE  Digits!Spelled(text) = v
<1>1. PICK f : Passes(text, f) /\ f[Len(text)] = v
  BY DEF Spells
<1> DEFINE g == CHOOSE h : Passes(text, h)
<1>2. Passes(text, g)
  BY <1>1, Zenon
<1>3. Digits!Spelled(text) = g[Len(text)]
  BY Zenon DEF Digits!Spelled, Passes
<1> HIDE DEF g
<1> QED
  BY <1>1, <1>2, <1>3, PassesOnce, Zenon

(* One digit, and one digit more.                                          *)
LEMMA DigitSpells ==
    ASSUME NEW d \in Int
    PROVE  Spells(<<d>>, d)
<1> DEFINE f == [n \in 0..1 |-> IF n = 0 THEN 0 ELSE d]
<1>1. Len(<<d>>) = 1 /\ <<d>>[1] = d
  OBVIOUS
<1>2. f[0] = 0 /\ f[1] = d
  OBVIOUS
<1>3. \A n \in 0..1 : (IF n = 0 THEN 0 ELSE d)
                        = IF n = 0 THEN 0 ELSE 10 * f[n - 1] + <<d>>[n]
  <2>1. \A n \in 0..1 : n = 0 \/ n = 1
    OBVIOUS
  <2>2. 10 * f[1 - 1] + <<d>>[1] = d
    BY <1>1, <1>2
  <2> QED
    BY <2>1, <2>2
<1>4. f = [n \in 0..1 |-> IF n = 0 THEN 0 ELSE 10 * f[n - 1] + <<d>>[n]]
  BY <1>3, Zenon
<1>5. Passes(<<d>>, f)
  BY <1>1, <1>4 DEF Passes
<1> QED
  BY <1>1, <1>2, <1>5 DEF Spells

LEMMA NextDigitSpells ==
    ASSUME NEW text, Len(text) \in Nat, NEW v, Spells(text, v), NEW d,
           NEW more, Len(more) = Len(text) + 1,
           \A n \in 1..Len(text) : more[n] = text[n], more[Len(more)] = d
    PROVE  Spells(more, 10 * v + d)
<1> DEFINE last == Len(text)
<1>1. PICK f : Passes(text, f) /\ f[last] = v
  BY DEF Spells
<1>2. \A n \in 0..last : f[n] = IF n = 0 THEN 0 ELSE 10 * f[n - 1] + text[n]
  BY <1>1, Zenon DEF Passes
<1> DEFINE g == [n \in 0..(last + 1) |-> IF n = last + 1 THEN 10 * v + d ELSE f[n]]
<1> HIDE DEF last
<1>3. last \in Nat /\ Len(more) = last + 1
  BY DEF last
<1>4. /\ \A n \in 0..last : n # last + 1 /\ n \in 0..(last + 1)
      /\ last + 1 \in 0..(last + 1) /\ last + 1 # 0 /\ last + 1 - 1 = last
      /\ last \in 0..last
  BY <1>3
<1>5. /\ \A n \in 0..last : g[n] = f[n]
      /\ g[last + 1] = 10 * v + d
  BY <1>4, Zenon
<1>6. \A n \in 0..(last + 1) :
         g[n] = IF n = 0 THEN 0 ELSE 10 * g[n - 1] + more[n]
  <2> SUFFICES ASSUME NEW n \in 0..(last + 1)
               PROVE  g[n] = IF n = 0 THEN 0 ELSE 10 * g[n - 1] + more[n]
    OBVIOUS
  <2> HIDE DEF g
  <2>1. CASE n = last + 1
    <3>1. n - 1 = last /\ n # 0
      BY <1>3, <2>1
    <3>2. g[n - 1] = v
      BY <1>1, <1>4, <1>5, <3>1, Zenon
    <3>3. more[n] = d
      BY <1>3, <2>1, Zenon
    <3>4. g[n] = 10 * v + d
      BY <1>5, <2>1, Zenon
    <3> QED
      BY <3>1, <3>2, <3>3, <3>4, Zenon
  <2>2. CASE n # last + 1 /\ n # 0
    <3>1. n \in 0..last /\ n - 1 \in 0..last /\ n \in 1..last
      BY <1>3, <2>2
    <3>2. more[n] = text[n]
      BY <3>1 DEF last
    <3> QED
      BY <1>2, <1>5, <2>2, <3>1, <3>2, Zenon
  <2>3. CASE n # last + 1 /\ n = 0
    <3>1. n \in 0..last
      BY <1>3, <2>3
    <3> QED
      BY <1>2, <1>5, <2>3, <3>1, Zenon
  <2> QED
    BY <2>1, <2>2, <2>3
<1>7. g = [n \in 0..(last + 1) |-> IF n = 0 THEN 0 ELSE 10 * g[n - 1] + more[n]]
  BY <1>6, Zenon
<1>8. Passes(more, g)
  BY <1>3, <1>7, Zenon DEF Passes
<1> HIDE DEF g
<1> QED
  BY <1>3, <1>5, <1>8, Zenon DEF Spells

-----------------------------------------------------------------------------
(* The digits from the lowest on.                                          *)
LowestOf(f, i) ==
    <<Digits!zero(Digits!Remainder(i, 10))>>
        \o (IF Digits!Quotient(i, 10) = 0 THEN <<>> ELSE f[Digits!Quotient(i, 10)])

(* The integers of the type up to a magnitude, and the recursion for them. *)
Upto(m) == {i \in Digits!least..Greatest : Magnitude(i) <= m}
LowestUpto(f, m) == f = [i \in Upto(m) |-> LowestOf(f, i)]

LEMMA QuotientUpto ==
    ASSUME NEW m \in Nat, NEW i \in Upto(m), Digits!Quotient(i, 10) # 0
    PROVE  m # 0 /\ Digits!Quotient(i, 10) \in Upto(m - 1)
<1> DEFINE q == Digits!Quotient(i, 10)
<1>1. Greatest \in Nat
  BY SequentialAssumption
<1>2. i \in Int /\ -Greatest - 1 <= i /\ i <= Greatest /\ Magnitude(i) <= m
  BY <1>1 DEF Upto, Digits!least
<1>3. /\ q \in Int /\ Magnitude(q) < Magnitude(i)
      /\ Magnitude(q) \in Nat /\ Magnitude(i) \in Nat
      /\ (i >= 0 => q >= 0) /\ (i <= 0 => q <= 0)
  BY <1>2, TenthsOf, MagnitudeOf
<1> HIDE DEF q
<1>4. m # 0 /\ Magnitude(q) <= m - 1
  BY <1>2, <1>3
<1>5. -Greatest - 1 <= q /\ q <= Greatest
  BY <1>1, <1>2, <1>3 DEF Magnitude
<1> QED
  BY <1>1, <1>3, <1>4, <1>5 DEF Upto, Digits!least, q

LEMMA LowestExists == \A m \in Nat : \E f : LowestUpto(f, m)
<1> DEFINE Bad == {m \in Nat : ~ \E f : LowestUpto(f, m)}
<1>1. SUFFICES ASSUME Bad # {}
               PROVE  FALSE
  OBVIOUS
<1>2. PICK m \in Bad : \A n \in Bad : m <= n
  BY <1>1, LeastNumber
<1>3. PICK f : m # 0 => LowestUpto(f, m - 1)
  <2>1. CASE m # 0
    <3>1. m \in Nat /\ m - 1 \in Nat /\ ~(m <= m - 1)
      BY <2>1
    <3> QED
      BY <1>2, <3>1
  <2> QED
    BY <2>1
<1> DEFINE g == [i \in Upto(m) |-> LowestOf(f, i)]
<1>4. \A i \in Upto(m) : LowestOf(f, i) = LowestOf(g, i)
  <2> SUFFICES ASSUME NEW i \in Upto(m)
               PROVE  LowestOf(f, i) = LowestOf(g, i)
    OBVIOUS
  <2> DEFINE q == Digits!Quotient(i, 10)
  <2>1. CASE q = 0
    BY <2>1, Zenon DEF LowestOf
  <2>2. CASE q # 0
    <3>1. m \in Nat
      OBVIOUS
    <3>2. m # 0 /\ q \in Upto(m - 1)
      BY <2>2, <3>1, QuotientUpto
    <3>3. q \in Upto(m)
      <4>1. m - 1 \in Nat /\ m - 1 <= m
        BY <3>1, <3>2
      <4>2. q \in Digits!least..Greatest /\ Magnitude(q) <= m - 1
        BY <3>2 DEF Upto
      <4>3. q \in Int
        BY <4>2, SequentialAssumption DEF Digits!least
      <4>4. Magnitude(q) \in Int
        BY <4>3 DEF Magnitude
      <4>5. Magnitude(q) <= m
        BY <3>1, <4>2, <4>4
      <4> QED
        BY <4>2, <4>5 DEF Upto
    <3>4. f[q] = LowestOf(f, q)
      BY <1>3, <3>2, Zenon DEF LowestUpto
    <3>5. g[q] = LowestOf(f, q)
      BY <3>3, Zenon
    <3> QED
      BY <3>4, <3>5, Zenon DEF LowestOf
  <2> QED
    BY <2>1, <2>2
<1>5. LowestUpto(g, m)
  BY <1>4, Zenon DEF LowestUpto
<1> QED
  BY <1>5

(* The digits of an integer in the order of reading: they spell its        *)
(* magnitude, and the first is no zero, unless it is the only one.         *)
Written(i, text) ==
    /\ text \in Seq(0..9) /\ Len(text) >= 1
    /\ Spells(text, Magnitude(i))
    /\ i # 0 => text[1] # 0
    /\ i = 0 => Len(text) = 1

LEMMA LowestIsWritten ==
    ASSUME NEW f, \A i \in Digits!least..Greatest : f[i] = LowestOf(f, i)
    PROVE  \A i \in Digits!least..Greatest :
              f[i] \in Seq(0..9) /\ Written(i, Digits!Reverse(f[i]))
<1> DEFINE Good(i) == f[i] \in Seq(0..9) /\ Written(i, Digits!Reverse(f[i]))
           Type == Digits!least..Greatest
           Bad == {m \in Nat : \E i \in Type : Magnitude(i) = m /\ ~Good(i)}
<1>0. \A i \in Type : i \in Int
  BY SequentialAssumption DEF Digits!least
<1> HIDE DEF Good
<1>1. SUFFICES ASSUME NEW j \in Type, ~Good(j)
               PROVE  FALSE
  BY DEF Good
<1>2. Magnitude(j) \in Bad
  BY <1>0, <1>1, MagnitudeOf
<1>3. PICK m \in Bad : \A n \in Bad : m <= n
  BY <1>2, LeastNumber
<1>4. PICK i \in Type : Magnitude(i) = m /\ ~Good(i)
  BY <1>3
<1> DEFINE q == Digits!Quotient(i, 10)
           d == Digits!zero(Digits!Remainder(i, 10))
<1>5. /\ i \in Int /\ q \in Int /\ d \in 0..9
      /\ Magnitude(i) \in Nat /\ Magnitude(q) \in Nat
      /\ Magnitude(i) = 10 * Magnitude(q) + d
      /\ q # 0 => Magnitude(q) < Magnitude(i)
  BY <1>0, <1>4, MagnitudeOf, TenthsOf
<1>6. f[i] = <<d>> \o (IF q = 0 THEN <<>> ELSE f[q])
  BY <1>4, Zenon DEF LowestOf
<1>7. q # 0 => q \in Type
  <2> SUFFICES ASSUME q # 0
               PROVE  q \in Type
    OBVIOUS
  <2>1. i \in Upto(m) /\ m \in Nat
    BY <1>4, <1>5 DEF Upto
  <2> QED
    BY <2>1, QuotientUpto DEF Upto
<1> HIDE DEF q, d, Type
<1>8. CASE q = 0
  <2>1. f[i] = <<d>>
    BY <1>6, <1>8
  <2>2. Digits!Reverse(f[i]) = <<d>>
    <3>1. Digits!Reverse(<<d>>) = <<d>>
      BY DEF Digits!Reverse
    <3> QED
      BY <2>1, <3>1
  <2>3. Magnitude(i) = d /\ (i # 0 => d # 0)
    BY <1>5, <1>8 DEF Magnitude
  <2>4. Spells(<<d>>, d)
    BY <1>5, DigitSpells
  <2>5. <<d>> \in Seq(0..9) /\ Len(<<d>>) = 1 /\ <<d>>[1] = d
    BY <1>5
  <2>6. Written(i, <<d>>)
    <3>1. Spells(<<d>>, Magnitude(i)) /\ Len(<<d>>) >= 1
      BY <2>3, <2>4, <2>5
    <3>2. i # 0 => <<d>>[1] # 0
      BY <2>3, <2>5, Zenon
    <3> QED
      BY <2>5, <3>1, <3>2, Zenon DEF Written
  <2>7. Good(i)
    BY <2>1, <2>2, <2>5, <2>6, Zenon DEF Good
  <2> QED
    BY <1>4, <2>7
<1>9. CASE q # 0
  <2>1. Magnitude(q) \in Nat /\ ~(m <= Magnitude(q))
    BY <1>4, <1>5, <1>9
  <2>2. Good(q)
    BY <1>3, <1>7, <1>9, <2>1
  <2> DEFINE low == f[q]
             text == Digits!Reverse(low)
             more == Digits!Reverse(f[i])
  <2>3. low \in Seq(0..9) /\ Written(q, text)
    BY <2>2 DEF Good
  <2>4. f[i] = <<d>> \o low
    BY <1>6, <1>9
  <2> HIDE DEF low
  <2>5. /\ f[i] \in Seq(0..9) /\ Len(f[i]) = Len(low) + 1 /\ f[i][1] = d
        /\ \A n \in 1..Len(low) : f[i][n + 1] = low[n]
        /\ Len(low) \in Nat
    BY <1>5, <2>3, <2>4
  <2>6. /\ Len(text) = Len(low)
        /\ \A n \in 1..Len(low) : text[n] = low[Len(low) - n + 1]
        /\ Len(more) = Len(low) + 1
        /\ \A n \in 1..(Len(low) + 1) : more[n] = f[i][Len(low) + 1 - n + 1]
        /\ more \in Seq(0..9)
    <3>1. /\ text = [n \in 1..Len(low) |-> low[Len(low) - n + 1]]
          /\ more = [n \in 1..(Len(low) + 1) |-> f[i][Len(low) + 1 - n + 1]]
      <4>1. more = [n \in 1..Len(f[i]) |-> f[i][Len(f[i]) - n + 1]]
        BY Zenon DEF Digits!Reverse
      <4>2. text = [n \in 1..Len(low) |-> low[Len(low) - n + 1]]
        BY Zenon DEF Digits!Reverse
      <4> HIDE DEF text, more
      <4>3. more = [n \in 1..(Len(low) + 1) |-> f[i][Len(low) + 1 - n + 1]]
        BY <2>5, <4>1
      <4> QED
        BY <4>2, <4>3, Zenon
    <3>2. \A n \in 1..(Len(low) + 1) : f[i][Len(low) + 1 - n + 1] \in 0..9
      <4> SUFFICES ASSUME NEW n \in 1..(Len(low) + 1)
                   PROVE  f[i][Len(low) + 1 - n + 1] \in 0..9
        OBVIOUS
      <4>1. Len(low) + 1 - n + 1 \in 1..Len(f[i])
        BY <2>5
      <4> QED
        BY <2>5, <4>1, ElementOfSeq
    <3>3. more \in [1..(Len(low) + 1) -> 0..9]
      BY <3>1, <3>2, Zenon
    <3> HIDE DEF text, more
    <3>4. Len(low) \in Nat /\ Len(low) + 1 \in Nat
      BY <2>5
    <3>5. more \in Seq(0..9)
      BY <3>3, <3>4, SeqDef
    <3>6. Len(text) = Len(low) /\ Len(more) = Len(low) + 1
      BY <3>1, <3>4
    <3> QED
      BY <3>1, <3>5, <3>6
  <2> HIDE DEF text, more
  <2>7. /\ \A n \in 1..Len(text) : more[n] = text[n]
        /\ more[Len(more)] = d
    <3>1. \A n \in 1..Len(text) : more[n] = text[n]
      <4> SUFFICES ASSUME NEW n \in 1..Len(text)
                   PROVE  more[n] = text[n]
        OBVIOUS
      <4>1. /\ n \in 1..(Len(low) + 1) /\ n \in 1..Len(low)
            /\ Len(low) - n + 1 \in 1..Len(low)
            /\ Len(low) + 1 - n + 1 = (Len(low) - n + 1) + 1
        BY <2>5, <2>6
      <4> QED
        BY <2>5, <2>6, <4>1, Zenon
    <3>2. Len(low) + 1 \in 1..(Len(low) + 1) /\ Len(low) + 1 - (Len(low) + 1) + 1 = 1
      BY <2>5
    <3> QED
      BY <2>5, <2>6, <3>1, <3>2
  <2>8. /\ Len(text) \in Nat /\ Len(more) = Len(text) + 1 /\ Len(text) >= 1
        /\ text[1] # 0 /\ Spells(text, Magnitude(q))
    BY <1>9, <2>3, <2>5, <2>6 DEF Written
  <2>9. Spells(more, 10 * Magnitude(q) + d)
    BY <2>7, <2>8, NextDigitSpells, Zenon
  <2>10. more[1] # 0 /\ Len(more) >= 1
    <3>1. 1 \in 1..Len(text)
      BY <2>8
    <3> QED
      BY <2>7, <2>8, <3>1
  <2>11. i # 0
    BY <1>5, <1>9 DEF Magnitude
  <2>12. Written(i, more)
    BY <1>5, <2>6, <2>9, <2>10, <2>11 DEF Written
  <2>13. Good(i)
    BY <2>5, <2>12 DEF Good, more
  <2> QED
    BY <1>4, <2>13
<1> QED
  BY <1>8, <1>9

LEMMA ConvertIsWritten ==
    ASSUME NEW i \in Digits!least..Greatest
    PROVE  Written(i, Digits!convert(i).digits)
<1> DEFINE Type == Digits!least..Greatest
           f == CHOOSE g : g = [j \in Type |-> LowestOf(g, j)]
<1>1. \E g : g = [j \in Type |-> LowestOf(g, j)]
  <2>1. Greatest \in Nat /\ Greatest + 1 \in Nat
    BY SequentialAssumption
  <2>2. Upto(Greatest + 1) = Type
    <3>1. \A j \in Type : j \in Int /\ -Greatest - 1 <= j /\ j <= Greatest
      BY <2>1 DEF Digits!least
    <3>2. \A j \in Type : Magnitude(j) <= Greatest + 1
      BY <2>1, <3>1 DEF Magnitude
    <3> QED
      BY <3>2 DEF Upto
  <2>3. PICK g : LowestUpto(g, Greatest + 1)
    BY <2>1, LowestExists
  <2> HIDE DEF Type
  <2> QED
    BY <2>2, <2>3, Zenon DEF LowestUpto
<1>2. f = [j \in Type |-> LowestOf(f, j)]
  BY <1>1, Zenon
<1>3. Digits!Lowest(i) = f[i]
  BY Zenon DEF Digits!Lowest, LowestOf
<1> HIDE DEF f
<1>4. \A j \in Type : f[j] = LowestOf(f, j)
  BY <1>2, Zenon
<1>5. Written(i, Digits!Reverse(f[i]))
  BY <1>4, LowestIsWritten
<1> QED
  BY <1>3, <1>5, Zenon DEF Digits!convert

-----------------------------------------------------------------------------
(* The value is one of the type's, which NextValue does not leave.         *)
ValueInv == which = "integer" => val \in Digits!least..Greatest

LEMMA ValueInvInit == MCInit => ValueInv
<1>1. Digits!least \in Digits!least..Greatest
  BY SequentialAssumption DEF Digits!least
<1> QED
  BY <1>1 DEF MCInit, Digits!Init, ValueInv

LEMMA ValueInvNext == ValueInv /\ [MCNext]_mcVars => ValueInv'
<1> SUFFICES ASSUME val \in Digits!least..Greatest, which' = which,
                    [MCNext]_mcVars, which = "integer"
             PROVE  val' \in Digits!least..Greatest
  BY DEF ValueInv, MCNext, mcVars
<1>1. CASE Digits!NextValue
  BY <1>1, SequentialAssumption DEF Digits!NextValue, Digits!least
<1>2. CASE UNCHANGED val
  BY <1>2
<1> QED
  BY <1>1, <1>2 DEF MCNext, mcVars

(* logstream.cc: the digits of an integer, each taken by the C division of *)
(* a number that is never negated, read back as it, the least one too, for *)
(* every type.                                                             *)
THEOREM IntegersAlwaysReadBack == MCSpec => []IntegersReadBack
<1>1. ValueInv => IntegersReadBack
  <2> SUFFICES ASSUME val \in Digits!least..Greatest
               PROVE  Digits!IntegersReadBack
    BY DEF ValueInv, IntegersReadBack
  <2> DEFINE text == Digits!convert(val).digits
  <2>1. Written(val, text)
    BY ConvertIsWritten
  <2>2. Digits!convert(val).minus = (val < 0)
    BY DEF Digits!convert
  <2> HIDE DEF text
  <2>3. val \in Int
    BY SequentialAssumption DEF Digits!least
  <2>4. text \in Seq(0..9) /\ Len(text) \in Nat /\ Len(text) >= 1
    BY <2>1 DEF Written
  <2>5. Digits!Spelled(text) = Magnitude(val)
    BY <2>1, <2>4, SpelledIs DEF Written
  <2>6. Digits!ToSet(text) \subseteq 0..9
    <3>1. DOMAIN text = 1..Len(text) /\ \A n \in 1..Len(text) : text[n] \in 0..9
      BY <2>4, ElementOfSeq
    <3> QED
      BY <3>1 DEF Digits!ToSet
  <2>7. Head(text) = 0 => Len(text) = 1
    <3>1. Head(text) = text[1]
      BY <2>4
    <3> QED
      BY <2>1, <3>1 DEF Written
  <2>8. val = IF val < 0 THEN -Magnitude(val) ELSE Magnitude(val)
    BY <2>3 DEF Magnitude
  <2> QED
    BY <2>2, <2>5, <2>6, <2>7, <2>8, Zenon DEF Digits!IntegersReadBack, text
<1> QED
  BY <1>1, ValueInvInit, ValueInvNext, PTL DEF MCSpec
=============================================================================
