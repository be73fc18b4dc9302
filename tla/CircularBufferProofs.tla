------------------------ MODULE CircularBufferProofs -------------------------
(***************************************************************************)
(* Proofs about module CircularBuffer, for any initial size, bytes and     *)
(* bounds.  Each operation is characterised by the sequence of bytes that  *)
(* the ring holds before and after it, and the theorems follow.            *)
(***************************************************************************)
EXTENDS CircularBuffer, SequenceTheorems, TLAPS

Cell == Bytes \union {Uninitialized}

(* Indexes within the ring, and where its p-th cell from 0 on is.          *)
IsRing(b) ==
    /\ b.size \in Nat \ {0}
    /\ b.mem \in [0..(b.size - 1) -> Cell]
    /\ b.reader \in 0..(b.size - 1)
    /\ b.writer \in 0..(b.size - 1)
    /\ b = [mem |-> b.mem, size |-> b.size, reader |-> b.reader,
            writer |-> b.writer]

Around(size, p) == IF p < size THEN p ELSE p - size
Wrap(b, p) == Around(b.size, p)

(* The ring holds the bytes of s, cell by cell.                            *)
Holds(b, s) ==
    /\ IsRing(b)
    /\ s \in Seq(Bytes)
    /\ readableBytes(b) = Len(s)
    /\ \A i \in 1..Len(s) : b.mem[Wrap(b, b.reader + i - 1)] = s[i]

(* An index runs over the end of the ring at most once.                    *)
LEMMA ModOnce ==
    ASSUME NEW b, IsRing(b), NEW p \in Nat, p < 2 * b.size
    PROVE  p % b.size = Wrap(b, p) /\ Wrap(b, p) \in 0..(b.size - 1)
<1>1. b.size \in Nat
  BY DEF IsRing
<1>2. CASE p < b.size
  <2>1. p % b.size = p
    BY <1>1, <1>2, SMTT(20)
  <2> QED
    BY <1>1, <1>2, <2>1 DEF Wrap, Around
<1>3. CASE b.size <= p
  <2>1. p % b.size = p - b.size
    BY <1>1, <1>3, SMTT(20)
  <2> QED
    BY <1>1, <1>3, <2>1 DEF Wrap, Around
<1> QED
  BY <1>1, <1>2, <1>3

(* The readable bytes lie behind one another from readerIndex_ on, and     *)
(* writerIndex_ follows them.                                              *)
LEMMA IndexesOf ==
    ASSUME NEW b, NEW s, Holds(b, s)
    PROVE  /\ Len(s) \in 0..(b.size - 1)
           /\ b.writer = Wrap(b, b.reader + Len(s))
           /\ needRewind(b) <=> b.reader + Len(s) >= b.size
           /\ writableBytes(b) = b.size - 1 - Len(s)
<1>1. /\ Len(s) \in Nat /\ b.size \in Nat \ {0}
      /\ b.reader \in 0..(b.size - 1) /\ b.writer \in 0..(b.size - 1)
  BY LenProperties DEF Holds, IsRing
<1>2. /\ b.writer >= b.reader => Len(s) = b.writer - b.reader
      /\ b.writer < b.reader => Len(s) = b.writer - b.reader + b.size
  BY <1>1 DEF Holds, readableBytes
<1>3. writableBytes(b) = b.size - 1 - Len(s)
  BY DEF Holds, writableBytes
<1>4. CASE b.writer >= b.reader
  BY <1>1, <1>2, <1>3, <1>4 DEF needRewind, Wrap, Around
<1>5. CASE b.writer < b.reader
  BY <1>1, <1>2, <1>3, <1>5 DEF needRewind, Wrap, Around
<1> QED
  BY <1>1, <1>4, <1>5

(* The two pieces that the readable bytes lie in make up the sequence.     *)
LEMMA Pieces ==
    ASSUME NEW b, NEW s, Holds(b, s)
    PROVE  /\ FirstPiece(b) \in Seq(Bytes)
           /\ SecondPiece(b) \in Seq(Bytes)
           /\ FirstPiece(b) \o SecondPiece(b) = s
           /\ Len(FirstPiece(b)) + Len(SecondPiece(b)) = Len(s)
<1> DEFINE n == Len(s)
           k == IF needRewind(b) THEN b.size - b.reader ELSE n
<1>0. /\ n \in Nat /\ b.size \in Nat \ {0} /\ s \in Seq(Bytes)
      /\ b.reader \in 0..(b.size - 1) /\ b.writer \in 0..(b.size - 1)
  BY LenProperties DEF Holds, IsRing
<1>1. /\ n \in Nat /\ s \in Seq(Bytes)
      /\ \A i \in 1..n : s[i] \in Bytes
  BY LenProperties, ElementOfSeq DEF Holds
<1>2. /\ k \in 0..n
      /\ ~needRewind(b) => b.writer = b.reader + n
      /\ needRewind(b) => b.writer = n - k
      /\ b.size \in Nat /\ b.reader \in Nat /\ b.writer \in Nat
  <2>1. /\ b.writer = Wrap(b, b.reader + n)
        /\ needRewind(b) <=> b.reader + n >= b.size
        /\ n <= b.size - 1
    BY <1>0, IndexesOf
  <2> QED
    BY <1>0, <2>1 DEF Wrap, Around
<1>3. /\ FirstPiece(b) = [i \in 1..k |-> s[i]]
      /\ k \in Nat
  <2>1. FirstPiece(b) = [i \in 1..k |-> b.mem[b.reader + i - 1]]
    BY <1>1, <1>2 DEF FirstPiece, Cells
  <2>2. \A i \in 1..k : b.mem[b.reader + i - 1] = s[i]
    <3> SUFFICES ASSUME NEW i \in 1..k
                 PROVE  b.mem[b.reader + i - 1] = s[i]
      OBVIOUS
    <3>1. i \in 1..n /\ b.reader + i - 1 < b.size
      BY <1>1, <1>2, IndexesOf DEF Holds, IsRing
    <3> QED
      BY <3>1 DEF Holds, Wrap, Around
  <2> HIDE DEF k
  <2> QED
    BY <1>2, <2>1, <2>2
<1>4. SecondPiece(b) = [i \in 1..(n - k) |-> s[k + i]]
  <2>1. CASE needRewind(b)
    <3>1. SecondPiece(b) = [i \in 1..(n - k) |-> b.mem[i - 1]]
      BY <1>1, <1>2, <2>1 DEF SecondPiece, Cells
    <3>2. \A i \in 1..(n - k) : b.mem[i - 1] = s[k + i]
      <4> SUFFICES ASSUME NEW i \in 1..(n - k)
                   PROVE  b.mem[i - 1] = s[k + i]
        OBVIOUS
      <4>1. /\ k + i \in 1..n
            /\ Wrap(b, b.reader + (k + i) - 1) = i - 1
        BY <1>1, <1>2, <2>1, SMTT(30) DEF Wrap, Around
      <4> QED
        BY <4>1 DEF Holds
    <3> HIDE DEF k
    <3> QED
      BY <3>1, <3>2
  <2>2. CASE ~needRewind(b)
    BY <1>1, <2>2 DEF SecondPiece
  <2> QED
    BY <2>1, <2>2
<1> HIDE DEF k
<1>5. /\ FirstPiece(b) \in Seq(Bytes) /\ Len(FirstPiece(b)) = k
      /\ \A i \in 1..k : FirstPiece(b)[i] = s[i]
  BY <1>1, <1>2, <1>3, SeqDef, LenProperties
<1>6. n - k \in Nat
  BY <1>1, <1>2
<1>7. \A i \in 1..(n - k) : k + i \in 1..n
  BY <1>1, <1>2
<1>8. /\ SecondPiece(b) \in [1..(n - k) -> Bytes]
      /\ \A i \in 1..(n - k) : SecondPiece(b)[i] = s[k + i]
  BY <1>1, <1>4, <1>7
<1>9. SecondPiece(b) \in Seq(Bytes) /\ Len(SecondPiece(b)) = n - k
  BY <1>6, <1>8, SeqDef, LenProperties
<1>10. FirstPiece(b) \o SecondPiece(b) = s
  <2> DEFINE c == FirstPiece(b) \o SecondPiece(b)
  <2>1. c \in Seq(Bytes) /\ Len(c) = n
    <3>1. n = k + (n - k)
      BY <1>1, <1>2
    <3> QED
      BY <1>5, <1>9, <3>1, ConcatProperties
  <2>2. \A i \in 1..n : c[i] = s[i]
    <3> SUFFICES ASSUME NEW i \in 1..n
                 PROVE  c[i] = s[i]
      OBVIOUS
    <3>1. i \in 1..(k + (n - k)) /\ k \in Nat
      BY <1>1, <1>2
    <3>2. c[i] = IF i <= k THEN FirstPiece(b)[i] ELSE SecondPiece(b)[i - k]
      BY <1>5, <1>9, <3>1, ConcatProperties
    <3>3. CASE i <= k
      <4>1. i \in 1..k
        BY <3>1, <3>3
      <4> QED
        BY <1>5, <3>2, <3>3, <4>1
    <3>4. CASE ~(i <= k)
      <4>1. i - k \in 1..(n - k) /\ k + (i - k) = i
        BY <1>1, <1>2, <3>4
      <4> QED
        BY <1>8, <3>2, <3>4, <4>1
    <3> QED
      BY <3>3, <3>4
  <2> HIDE DEF c
  <2>3. c = s
    BY <1>1, <2>1, <2>2, SeqEqual
  <2> QED
    BY <2>3 DEF c
<1> QED
  BY <1>1, <1>2, <1>5, <1>9, <1>10

(* So there is only one, the readable bytes.                               *)
LEMMA HoldsReadable ==
    ASSUME NEW b, NEW s, Holds(b, s)
    PROVE  Readable(b) = s
BY Pieces DEF Readable

-----------------------------------------------------------------------------
(* A copy changes the cells that it writes and no other.                   *)
LEMMA StoreCells ==
    ASSUME NEW size \in Nat, NEW mem \in [0..(size - 1) -> Cell],
           NEW at \in Nat, NEW data \in Seq(Bytes)
    PROVE  /\ Store(mem, at, data) \in [0..(size - 1) -> Cell]
           /\ \A i \in 0..(size - 1) :
                 Store(mem, at, data)[i] =
                    IF i \in at..(at + Len(data) - 1) THEN data[i - at + 1] ELSE mem[i]
<1>1. Len(data) \in Nat /\ DOMAIN mem = 0..(size - 1)
  BY LenProperties
<1>2. \A i \in at..(at + Len(data) - 1) : data[i - at + 1] \in Cell
  <2> SUFFICES ASSUME NEW i \in at..(at + Len(data) - 1)
               PROVE  data[i - at + 1] \in Cell
    OBVIOUS
  <2>1. i - at + 1 \in 1..Len(data)
    BY <1>1
  <2> QED
    BY <2>1, ElementOfSeq DEF Cell
<1> QED
  BY <1>1, <1>2 DEF Store

(* The same, one fact at a time.                                           *)
LEMMA StoreType ==
    ASSUME NEW size \in Nat, NEW mem \in [0..(size - 1) -> Cell],
           NEW at \in Nat, NEW data \in Seq(Bytes)
    PROVE  Store(mem, at, data) \in [0..(size - 1) -> Cell]
BY StoreCells

LEMMA StoreOld ==
    ASSUME NEW size \in Nat, NEW mem \in [0..(size - 1) -> Cell],
           NEW at \in Nat, NEW data \in Seq(Bytes),
           NEW i \in 0..(size - 1), i < at \/ i >= at + Len(data)
    PROVE  Store(mem, at, data)[i] = mem[i]
<1>1. Len(data) \in Nat
  BY LenProperties
<1>2. i \notin at..(at + Len(data) - 1)
  BY <1>1
<1> QED
  BY <1>2, StoreCells

LEMMA StoreNew ==
    ASSUME NEW size \in Nat, NEW mem \in [0..(size - 1) -> Cell],
           NEW at \in Nat, NEW data \in Seq(Bytes),
           NEW j \in 1..Len(data), at + j - 1 \in 0..(size - 1)
    PROVE  Store(mem, at, data)[at + j - 1] = data[j]
<1>1. Len(data) \in Nat
  BY LenProperties
<1>2. /\ at + j - 1 \in at..(at + Len(data) - 1)
      /\ (at + j - 1) - at + 1 = j
  BY <1>1
<1> QED
  BY <1>2, StoreCells

(* Where append puts the j-th byte.                                        *)
Place(b, j) == Wrap(b, b.writer + j - 1)

(* The array of size cells after it, the first byte going to cell at.      *)
StoreRound(size, at, mem, data) ==
    IF at + Len(data) <= size THEN Store(mem, at, data)
    ELSE Store(Store(mem, at, SubSeq(data, 1, size - at)),
               0, SubSeq(data, size - at + 1, Len(data)))

Put(b, data) == StoreRound(b.size, b.writer, b.mem, data)

(* append moves writerIndex_ behind the bytes, past the end to the front.  *)
LEMMA PutIs ==
    ASSUME NEW b, IsRing(b), NEW data \in Seq(Bytes), Len(data) < b.size
    PROVE  put(b, data) = [mem |-> Put(b, data), size |-> b.size,
                           reader |-> b.reader,
                           writer |-> Wrap(b, b.writer + Len(data))]
<1> DEFINE m == Put(b, data)
           w == (b.writer + Len(data)) % b.size
<1>1. Len(data) \in Nat
  BY LenProperties
<1>2. w = Wrap(b, b.writer + Len(data))
  <2>1. /\ b.writer + Len(data) \in Nat
        /\ b.writer + Len(data) < 2 * b.size
    BY <1>1 DEF IsRing
  <2> QED
    BY <2>1, ModOnce
<1>3. put(b, data) = [b EXCEPT !.mem = m, !.writer = w]
  BY DEF put, Put, StoreRound
<1> HIDE DEF m, w
<1>4. [b EXCEPT !.mem = m, !.writer = w] =
         [mem |-> m, size |-> b.size, reader |-> b.reader, writer |-> w]
  <2> DEFINE c == [b EXCEPT !.mem = m]
  <2>1. c = [mem |-> m, size |-> b.size, reader |-> b.reader,
             writer |-> b.writer]
    BY DEF IsRing
  <2>2. [b EXCEPT !.mem = m, !.writer = w] = [c EXCEPT !.writer = w]
    OBVIOUS
  <2> HIDE DEF c
  <2>3. [c EXCEPT !.writer = w] =
           [mem |-> m, size |-> b.size, reader |-> b.reader, writer |-> w]
    BY <2>1
  <2> QED
    BY <2>2, <2>3
<1> QED
  BY <1>2, <1>3, <1>4 DEF m

(* The bytes that fit behind writerIndex_ go there, the others to the      *)
(* front, and no cell is written twice.                                    *)
LEMMA RoundCells ==
    ASSUME NEW z \in Nat \ {0}, NEW mem \in [0..(z - 1) -> Cell],
           NEW w \in 0..(z - 1), NEW data \in Seq(Bytes),
           Len(data) < z
    PROVE  /\ StoreRound(z, w, mem, data) \in [0..(z - 1) -> Cell]
           /\ \A j \in 1..Len(data) :
                 StoreRound(z, w, mem, data)[Around(z, w + j - 1)] = data[j]
           /\ \A i \in 0..(z - 1) :
                 (\A j \in 1..Len(data) : i # Around(z, w + j - 1))
                    => StoreRound(z, w, mem, data)[i] = mem[i]
<1> DEFINE m == StoreRound(z, w, mem, data)
           d == Len(data)
<1>1. w \in Nat /\ z \in Nat /\ w < z /\ d \in Nat /\ d < z
  BY LenProperties
<1>2. d = Len(data)
  OBVIOUS
<1>3. /\ w + d <= z => m = Store(mem, w, data)
      /\ ~(w + d <= z) => m = Store(Store(mem, w, SubSeq(data, 1, z - w)),
                                    0, SubSeq(data, z - w + 1, d))
  BY DEF StoreRound
<1> SUFFICES /\ m \in [0..(z - 1) -> Cell]
             /\ \A j \in 1..d : m[Around(z, w + j - 1)] = data[j]
             /\ \A i \in 0..(z - 1) :
                   (\A j \in 1..d : i # Around(z, w + j - 1)) => m[i] = mem[i]
  OBVIOUS
<1> HIDE DEF m, d
<1>4. CASE w + d <= z
  <2>1. m = Store(mem, w, data)
    BY <1>3, <1>4
  <2>2. m \in [0..(z - 1) -> Cell]
    BY <1>1, <2>1, StoreType
  <2>3. \A j \in 1..d : m[Around(z, w + j - 1)] = data[j]
    <3> SUFFICES ASSUME NEW j \in 1..d
                 PROVE  m[Around(z, w + j - 1)] = data[j]
      OBVIOUS
    <3>1. w + j - 1 \in 0..(z - 1)
      BY <1>1, <1>4
    <3>2. Around(z, w + j - 1) = w + j - 1
      BY <1>1, <3>1 DEF Around
    <3>3. m[w + j - 1] = data[j]
      BY <1>1, <1>2, <2>1, <3>1, StoreNew
    <3> QED
      BY <3>2, <3>3
  <2>4. \A i \in 0..(z - 1) :
           (\A j \in 1..d : i # Around(z, w + j - 1)) => m[i] = mem[i]
    <3> SUFFICES ASSUME NEW i \in 0..(z - 1), \A j \in 1..d : i # Around(z, w + j - 1)
                 PROVE  m[i] = mem[i]
      OBVIOUS
    <3>1. i \notin w..(w + d - 1)
      <4> SUFFICES ASSUME i \in w..(w + d - 1)
                   PROVE  FALSE
        OBVIOUS
      <4>1. i - w + 1 \in 1..d
        BY <1>1
      <4>2. w + (i - w + 1) - 1 = i /\ i < z
        BY <1>1
      <4>3. Around(z, w + (i - w + 1) - 1) = i
        BY <4>2 DEF Around
      <4> QED
        BY <4>1, <4>3
    <3>2. i < w \/ i >= w + Len(data)
      BY <1>1, <1>2, <3>1
    <3> QED
      BY <1>1, <2>1, <3>2, StoreOld
  <2> QED
    BY <2>2, <2>3, <2>4
<1>5. CASE ~(w + d <= z)
  <2> DEFINE fits == z - w
             front == SubSeq(data, 1, fits)
             back == SubSeq(data, fits + 1, d)
             m1 == Store(mem, w, front)
  <2>0. fits \in 1..(d - 1) /\ z - 1 = w + fits - 1 /\ fits \in Int /\ fits + 1 \in Int
    BY <1>1, <1>5
  <2> HIDE DEF fits
  <2>1. /\ front \in Seq(Bytes) /\ Len(front) = fits
        /\ \A j \in 1..fits : front[j] = data[j]
    <3>1. \A j \in 1..fits : data[j] \in Bytes
      BY <1>1, <2>0, <1>2, ElementOfSeq
    <3>2. /\ front \in Seq(Bytes)
          /\ Len(front) = IF 1 <= fits THEN fits - 1 + 1 ELSE 0
          /\ \A j \in 1..(fits - 1 + 1) : front[j] = data[1 + j - 1]
      BY <2>0, <3>1, SubSeqProperties
    <3> HIDE DEF front
    <3> QED
      BY <1>1, <2>0, <3>2
  <2>2. /\ back \in Seq(Bytes) /\ Len(back) = d - fits
        /\ \A j \in 1..(d - fits) : back[j] = data[fits + j]
    <3>1. \A j \in (fits + 1)..d : data[j] \in Bytes
      BY <1>1, <2>0, <1>2, ElementOfSeq
    <3>2. /\ back \in Seq(Bytes)
          /\ Len(back) = IF fits + 1 <= d THEN d - (fits + 1) + 1 ELSE 0
          /\ \A j \in 1..(d - (fits + 1) + 1) : back[j] = data[fits + 1 + j - 1]
      BY <1>1, <2>0, <3>1, SubSeqProperties
    <3> HIDE DEF back
    <3>3. d - (fits + 1) + 1 = d - fits /\ fits + 1 <= d
      BY <1>1, <2>0
    <3>4. \A j \in 1..(d - fits) : fits + 1 + j - 1 = fits + j
      BY <1>1, <2>0
    <3> QED
      BY <3>2, <3>3, <3>4
  <2>3. m = Store(m1, 0, back)
    BY <1>3, <1>5 DEF fits
  <2>9. m1 = Store(mem, w, front)
    OBVIOUS
  <2> HIDE DEF front, back, m1
  <2>10. front \in Seq(Bytes) /\ back \in Seq(Bytes)
    BY <2>1, <2>2
  <2>11. Len(front) = fits /\ Len(back) = d - fits
    BY <2>1, <2>2
  <2>4. m1 \in [0..(z - 1) -> Cell]
    BY <1>1, <2>9, <2>10, StoreType
  <2>5. m \in [0..(z - 1) -> Cell]
    <3>1. Store(m1, 0, back) \in [0..(z - 1) -> Cell]
      BY <1>1, <2>4, <2>10, StoreType
    <3> QED
      BY <2>3, <3>1
  <2>12. DOMAIN mem = 0..(z - 1) /\ DOMAIN m1 = 0..(z - 1)
    BY <2>4
  <2>6. d - fits < w
    BY <1>1, <2>0
  <2>7. \A j \in 1..d : m[Around(z, w + j - 1)] = data[j]
    <3> SUFFICES ASSUME NEW j \in 1..d
                 PROVE  m[Around(z, w + j - 1)] = data[j]
      OBVIOUS
    <3>1. CASE j <= fits
      <4>1. /\ w + j - 1 \in 0..(z - 1) /\ j \in 1..fits
            /\ w + j - 1 \notin 0..(d - fits - 1)
        BY <1>1, <2>0, <2>6, <3>1
      <4>2. Around(z, w + j - 1) = w + j - 1
        BY <1>1, <4>1 DEF Around
      <4>6. j \in 1..Len(front)
        BY <2>11, <4>1
      <4>3. Store(mem, w, front)[w + j - 1] = front[j]
        <5>1. /\ w + j - 1 \in w..(w + Len(front) - 1)
              /\ (w + j - 1) - w + 1 = j
          BY <1>1, <2>0, <2>11, <4>1
        <5> QED
          BY <2>12, <4>1, <5>1 DEF Store
      <4>4. w + j - 1 >= Len(back)
        BY <1>1, <2>0, <2>11, <4>1
      <4>5. Store(m1, 0, back)[w + j - 1] = m1[w + j - 1]
        <5>1. w + j - 1 \notin 0..(0 + Len(back) - 1)
          BY <1>1, <2>11, <4>1, <4>4
        <5> QED
          BY <2>12, <4>1, <5>1 DEF Store
      <4> QED
        BY <2>1, <2>3, <2>9, <4>1, <4>2, <4>3, <4>5
    <3>2. CASE j > fits
      <4>1. /\ ~(w + j - 1 < z) /\ w + j - 1 - z = (j - fits) - 1
            /\ (j - fits) - 1 \in 0..(z - 1)
            /\ j - fits \in 1..(d - fits) /\ fits + (j - fits) = j
        BY <1>1, <2>0, <2>6, <3>2
      <4>2. Around(z, w + j - 1) = (j - fits) - 1
        BY <4>1 DEF Around
      <4>4. j - fits \in 1..Len(back)
        BY <2>11, <4>1
      <4>3. Store(m1, 0, back)[(j - fits) - 1] = back[j - fits]
        <5>1. /\ (j - fits) - 1 \in 0..(0 + Len(back) - 1)
              /\ ((j - fits) - 1) - 0 + 1 = j - fits
          BY <1>1, <2>0, <2>11, <4>1
        <5> QED
          BY <2>12, <4>1, <5>1 DEF Store
      <4> QED
        BY <2>2, <2>3, <4>1, <4>2, <4>3
    <3> QED
      BY <1>1, <2>0, <3>1, <3>2
  <2>8. \A i \in 0..(z - 1) :
           (\A j \in 1..d : i # Around(z, w + j - 1)) => m[i] = mem[i]
    <3> SUFFICES ASSUME NEW i \in 0..(z - 1), \A j \in 1..d : i # Around(z, w + j - 1)
                 PROVE  m[i] = mem[i]
      OBVIOUS
    <3>1. i \notin w..(w + Len(front) - 1)
      <4> SUFFICES ASSUME i \in w..(w + fits - 1)
                   PROVE  FALSE
        BY <2>11
      <4>1. i - w + 1 \in 1..d /\ w + (i - w + 1) - 1 = i /\ i < z
        BY <1>1, <2>0
      <4>3. Around(z, w + (i - w + 1) - 1) = i
        BY <4>1 DEF Around
      <4> QED
        BY <4>1, <4>3
    <3>2. i \notin 0..(0 + Len(back) - 1)
      <4> SUFFICES ASSUME i \in 0..(d - fits - 1)
                   PROVE  FALSE
        BY <1>1, <2>0, <2>11
      <4>1. /\ i + fits + 1 \in 1..d
            /\ ~(w + (i + fits + 1) - 1 < z) /\ w + (i + fits + 1) - 1 - z = i
        BY <1>1, <2>0
      <4>3. Around(z, w + (i + fits + 1) - 1) = i
        BY <4>1 DEF Around
      <4> QED
        BY <4>1, <4>3
    <3>3. Store(mem, w, front)[i] = mem[i]
      BY <2>12, <3>1 DEF Store
    <3>4. Store(m1, 0, back)[i] = m1[i]
      BY <2>12, <3>2 DEF Store
    <3> QED
      BY <2>3, <2>9, <3>3, <3>4
  <2> QED
    BY <2>5, <2>7, <2>8
<1> QED
  BY <1>4, <1>5

LEMMA PutCells ==
    ASSUME NEW b, IsRing(b), NEW data \in Seq(Bytes), Len(data) < b.size
    PROVE  /\ Put(b, data) \in [0..(b.size - 1) -> Cell]
           /\ \A j \in 1..Len(data) : Put(b, data)[Place(b, j)] = data[j]
           /\ \A i \in 0..(b.size - 1) :
                 (\A j \in 1..Len(data) : i # Place(b, j))
                    => Put(b, data)[i] = b.mem[i]
<1>1. /\ b.size \in Nat \ {0} /\ b.mem \in [0..(b.size - 1) -> Cell]
      /\ b.writer \in 0..(b.size - 1)
  BY DEF IsRing
<1>2. \A j : Place(b, j) = Around(b.size, b.writer + j - 1)
  BY DEF Place, Wrap
<1>3. /\ Put(b, data) \in [0..(b.size - 1) -> Cell]
      /\ \A j \in 1..Len(data) :
            Put(b, data)[Around(b.size, b.writer + j - 1)] = data[j]
      /\ \A i \in 0..(b.size - 1) :
            (\A j \in 1..Len(data) : i # Around(b.size, b.writer + j - 1))
               => Put(b, data)[i] = b.mem[i]
  BY <1>1, RoundCells, ZenonT(40) DEF Put
<1> QED
  BY <1>2, <1>3, Zenon
(* Once there is room, append adds the bytes at the end.                   *)
LEMMA PutAppends ==
    ASSUME NEW b, NEW s, Holds(b, s),
           NEW data \in Seq(Bytes), Len(data) <= writableBytes(b)
    PROVE  /\ Holds(put(b, data), s \o data)
           /\ put(b, data).size = b.size
<1> DEFINE r == put(b, data)
           m == Put(b, data)
           n == Len(s)
           d == Len(data)
           c == s \o data
<1>1. /\ n \in Nat /\ d \in Nat /\ n + d < b.size /\ d < b.size
      /\ b.size \in Nat \ {0}
      /\ b.reader \in 0..(b.size - 1) /\ b.writer \in 0..(b.size - 1)
      /\ b.writer = Around(b.size, b.reader + n)
      /\ IsRing(b)
  <2>1. n \in Nat /\ d \in Nat
    BY LenProperties DEF Holds
  <2>2. /\ writableBytes(b) = b.size - 1 - n
        /\ b.writer = Around(b.size, b.reader + n)
    BY IndexesOf DEF Wrap
  <2>3. /\ b.size \in Nat \ {0} /\ IsRing(b)
        /\ b.reader \in 0..(b.size - 1) /\ b.writer \in 0..(b.size - 1)
    BY DEF Holds, IsRing
  <2> QED
    BY <2>1, <2>2, <2>3
<1>2. r = [mem |-> m, size |-> b.size, reader |-> b.reader,
           writer |-> Around(b.size, b.writer + d)]
  BY <1>1, PutIs DEF Wrap
<1>3. /\ m \in [0..(b.size - 1) -> Cell]
      /\ \A j \in 1..d : m[Place(b, j)] = data[j]
      /\ \A i \in 0..(b.size - 1) :
            (\A j \in 1..d : i # Place(b, j)) => m[i] = b.mem[i]
  BY <1>1, PutCells
<1>4. /\ c \in Seq(Bytes) /\ Len(c) = n + d
      /\ \A i \in 1..(n + d) : c[i] = IF i <= n THEN s[i] ELSE data[i - n]
  BY ConcatProperties DEF Holds
<1>5. \A i \in 1..n : b.mem[Around(b.size, b.reader + i - 1)] = s[i]
  BY DEF Holds, Wrap
<1> DEFINE w == Around(b.size, b.writer + d)
<1>6. /\ w \in 0..(b.size - 1)
      /\ w >= b.reader => w - b.reader = n + d
      /\ w < b.reader => w - b.reader + b.size = n + d
      /\ \A i \in 1..n :
            /\ Around(b.size, b.reader + i - 1) \in 0..(b.size - 1)
            /\ \A j \in 1..d :
                  Around(b.size, b.reader + i - 1) # Around(b.size, b.writer + j - 1)
      /\ \A j \in 1..d : Around(b.size, b.reader + (n + j) - 1)
                           = Around(b.size, b.writer + j - 1)
  <2>1. PICK z \in Nat \ {0}, r0 \in Nat, w0 \in Nat, n0 \in Nat, d0 \in Nat :
           z = b.size /\ r0 = b.reader /\ w0 = b.writer /\ n0 = n /\ d0 = d
    BY <1>1
  <2>2. r0 \in 0..(z - 1) /\ n0 + d0 < z /\ w0 = Around(z, r0 + n0)
    BY <1>1, <2>1
  <2>3. /\ Around(z, w0 + d0) \in 0..(z - 1)
        /\ Around(z, w0 + d0) >= r0 => Around(z, w0 + d0) - r0 = n0 + d0
        /\ Around(z, w0 + d0) < r0 => Around(z, w0 + d0) - r0 + z = n0 + d0
        /\ \A i \in 1..n0 :
              /\ Around(z, r0 + i - 1) \in 0..(z - 1)
              /\ \A j \in 1..d0 : Around(z, r0 + i - 1) # Around(z, w0 + j - 1)
        /\ \A j \in 1..d0 :
              Around(z, r0 + (n0 + j) - 1) = Around(z, w0 + j - 1)
    <3>1. CASE r0 + n0 < z
      <4>1. w0 = r0 + n0
        BY <2>2, <3>1 DEF Around
      <4> QED
        BY <2>2, <3>1, <4>1 DEF Around
    <3>2. CASE ~(r0 + n0 < z)
      <4>1. w0 = r0 + n0 - z
        BY <2>2, <3>2 DEF Around
      <4> QED
        BY <2>2, <3>2, <4>1 DEF Around
    <3> QED
      BY <3>1, <3>2
  <2> QED
    BY <2>1, <2>3
<1> HIDE DEF r, m, n, d, c
<1>7. /\ r.mem = m /\ r.size = b.size /\ r.reader = b.reader /\ r.writer = w
      /\ r = [mem |-> r.mem, size |-> r.size, reader |-> r.reader,
              writer |-> r.writer]
  BY <1>2
<1>8. IsRing(r)
  BY <1>1, <1>3, <1>6, <1>7 DEF IsRing
<1>9. readableBytes(r) = n + d
  <2> HIDE DEF w
  <2> QED
    BY <1>1, <1>6, <1>7 DEF readableBytes
<1>10. ASSUME NEW i \in 1..(n + d)
       PROVE  m[Around(b.size, b.reader + i - 1)] = c[i]
  <2>1. CASE i <= n
    <3>1. i \in 1..n
      BY <1>1, <2>1
    <3>2. Around(b.size, b.reader + i - 1) \in 0..(b.size - 1)
      BY <1>6, <3>1
    <3>3. \A j \in 1..d : Around(b.size, b.reader + i - 1) # Place(b, j)
      BY <1>6, <3>1 DEF Place, Wrap
    <3> QED
      BY <1>3, <1>4, <1>5, <2>1, <3>1, <3>2, <3>3
  <2>2. CASE ~(i <= n)
    <3>1. i - n \in 1..d /\ n + (i - n) = i
      BY <1>1, <2>2
    <3>2. Around(b.size, b.reader + i - 1) = Place(b, i - n)
      BY <1>6, <3>1 DEF Place, Wrap
    <3> QED
      BY <1>3, <1>4, <2>2, <3>1, <3>2
  <2> QED
    BY <2>1, <2>2
<1>11. \A i \in 1..Len(c) : r.mem[Wrap(r, r.reader + i - 1)] = c[i]
  BY <1>4, <1>7, <1>10 DEF Wrap
<1>12. Holds(r, c)
  BY <1>4, <1>8, <1>9, <1>11 DEF Holds
<1> QED
  BY <1>7, <1>12 DEF r, c

(* A new ring is empty, and holds as many bytes as it was made for.        *)
LEMMA NewIsEmpty ==
    ASSUME NEW n \in Nat
    PROVE  Holds(Buffer(n), <<>>) /\ writableBytes(Buffer(n)) = n
<1> DEFINE b == Buffer(n)
<1>1. /\ b.size = n + 1 /\ b.reader = 0 /\ b.writer = 0
      /\ b.mem = [i \in 0..n |-> Uninitialized]
      /\ b = [mem |-> b.mem, size |-> b.size, reader |-> b.reader,
              writer |-> b.writer]
  BY DEF Buffer
<1> HIDE DEF b
<1>2. (n + 1) - 1 = n /\ n + 1 \in Nat \ {0} /\ 0 \in 0..n
  OBVIOUS
<1>3. b.mem \in [0..(b.size - 1) -> Cell]
  BY <1>1, <1>2 DEF Cell
<1>4. IsRing(b)
  BY <1>1, <1>2, <1>3 DEF IsRing
<1>5. readableBytes(b) = 0
  BY <1>1 DEF readableBytes
<1>6. <<>> \in Seq(Bytes) /\ Len(<<>>) = 0
  BY EmptySeq
<1>7. Holds(b, <<>>)
  BY <1>4, <1>5, <1>6 DEF Holds
<1>8. writableBytes(b) = n
  BY <1>1, <1>5 DEF writableBytes
<1> QED
  BY <1>7, <1>8 DEF b

(* The larger ring holds the same bytes, and has room for len more.        *)
LEMMA ExtendKeeps ==
    ASSUME NEW b, NEW s, Holds(b, s), NEW len \in Nat
    PROVE  /\ Holds(extend(b, len), s)
           /\ len <= writableBytes(extend(b, len))
<1> DEFINE n == Len(s)
           r0 == Buffer(2 * (len + readableBytes(b)))
           r1 == put(r0, FirstPiece(b))
           r2 == put(r1, SecondPiece(b))
<1>1. readableBytes(b) = n /\ n \in Nat /\ s \in Seq(Bytes)
  BY LenProperties DEF Holds
<1>2. Holds(r0, <<>>) /\ writableBytes(r0) = 2 * (len + n)
  <2>1. 2 * (len + n) \in Nat
    BY <1>1
  <2> QED
    BY <1>1, <2>1, NewIsEmpty
<1>3. /\ FirstPiece(b) \in Seq(Bytes) /\ SecondPiece(b) \in Seq(Bytes)
      /\ FirstPiece(b) \o SecondPiece(b) = s
      /\ Len(FirstPiece(b)) + Len(SecondPiece(b)) = n
      /\ Len(FirstPiece(b)) \in Nat /\ Len(SecondPiece(b)) \in Nat
  BY Pieces, LenProperties
<1>4. extend(b, len) = r2
  BY DEF extend
<1> HIDE DEF r0
<1>5. Holds(r1, FirstPiece(b)) /\ r1.size = r0.size
  <2>1. Len(FirstPiece(b)) <= writableBytes(r0)
    BY <1>1, <1>2, <1>3
  <2>2. Holds(r1, <<>> \o FirstPiece(b)) /\ r1.size = r0.size
    BY <1>2, <1>3, <2>1, PutAppends
  <2> QED
    BY <1>3, <2>2, ConcatEmptySeq
<1> HIDE DEF r1
<1>6. /\ writableBytes(r0) = r0.size - 1 /\ r0.size \in Nat
      /\ writableBytes(r1) = r1.size - 1 - Len(FirstPiece(b))
  <2>1. Len(<<>>) = 0
    BY EmptySeq
  <2>2. r0.size \in Nat
    BY <1>2 DEF Holds, IsRing
  <2>3. /\ writableBytes(r0) = r0.size - 1 - Len(<<>>)
        /\ writableBytes(r1) = r1.size - 1 - Len(FirstPiece(b))
    BY <1>2, <1>5, IndexesOf
  <2> QED
    BY <2>1, <2>2, <2>3
<1>7. Holds(r2, s) /\ r2.size = r1.size
  <2>1. Len(SecondPiece(b)) <= writableBytes(r1)
    BY <1>1, <1>2, <1>3, <1>5, <1>6
  <2> QED
    BY <1>3, <1>5, <2>1, PutAppends
<1> HIDE DEF r2
<1>8. writableBytes(r2) = r2.size - 1 - n
  BY <1>7, IndexesOf
<1>9. len <= writableBytes(r2)
  BY <1>1, <1>2, <1>5, <1>6, <1>7, <1>8
<1> QED
  BY <1>4, <1>7, <1>9

LEMMA EnsureKeeps ==
    ASSUME NEW b, NEW s, Holds(b, s), NEW len \in Nat
    PROVE  /\ Holds(ensureWritableBytes(b, len), s)
           /\ len <= writableBytes(ensureWritableBytes(b, len))
<1>1. CASE writableBytes(b) < len
  BY <1>1, ExtendKeeps DEF ensureWritableBytes
<1>2. CASE ~(writableBytes(b) < len)
  <2>1. writableBytes(b) \in Int
    <3>1. /\ writableBytes(b) = b.size - 1 - Len(s)
          /\ b.size \in Nat /\ Len(s) \in Nat
      BY IndexesOf, LenProperties DEF Holds, IsRing
    <3> QED
      BY <3>1
  <2>2. len <= writableBytes(b)
    BY <1>2, <2>1
  <2> QED
    BY <1>2, <2>2 DEF ensureWritableBytes
<1> QED
  BY <1>1, <1>2

LEMMA AppendAppends ==
    ASSUME NEW b, NEW s, Holds(b, s), NEW data \in Seq(Bytes)
    PROVE  Holds(append(b, data), s \o data)
<1>1. Len(data) \in Nat
  BY LenProperties
<1>2. /\ Holds(ensureWritableBytes(b, Len(data)), s)
      /\ Len(data) <= writableBytes(ensureWritableBytes(b, Len(data)))
  BY <1>1, EnsureKeeps
<1> QED
  BY <1>2, PutAppends DEF append
-----------------------------------------------------------------------------
(* retrieve takes bytes from the front.                                    *)
LEMMA RetrieveRetrieves ==
    ASSUME NEW b, NEW s, Holds(b, s), NEW len \in 0..Len(s)
    PROVE  Holds(retrieve(b, len), SubSeq(s, len + 1, Len(s)))
<1> DEFINE r == retrieve(b, len)
           n == Len(s)
           c == SubSeq(s, len + 1, n)
<1>1. /\ n \in Nat /\ s \in Seq(Bytes) /\ n < b.size /\ readableBytes(b) = n
      /\ b.size \in Nat \ {0} /\ b.mem \in [0..(b.size - 1) -> Cell]
      /\ b.reader \in 0..(b.size - 1) /\ b.writer \in 0..(b.size - 1)
      /\ IsRing(b)
  <2>1. n \in 0..(b.size - 1)
    BY IndexesOf
  <2> QED
    BY <2>1, LenProperties DEF Holds, IsRing
<1>2. /\ c \in Seq(Bytes) /\ Len(c) = n - len
      /\ \A i \in 1..(n - len) : c[i] = s[len + i]
  <2>1. \A i \in (len + 1)..n : s[i] \in Bytes
    BY <1>1, ElementOfSeq
  <2>2. /\ c \in Seq(Bytes)
        /\ Len(c) = IF len + 1 <= n THEN n - (len + 1) + 1 ELSE 0
        /\ \A i \in 1..(n - (len + 1) + 1) : c[i] = s[(len + 1) + i - 1]
    BY <1>1, <2>1, SubSeqProperties, SMTT(30)
  <2> HIDE DEF c
  <2>3. n - (len + 1) + 1 = n - len
    BY <1>1
  <2>4. \A i \in 1..(n - len) : (len + 1) + i - 1 = len + i
    BY <1>1
  <2>5. Len(c) = n - len
    BY <1>1, <2>2
  <2> QED
    BY <2>2, <2>3, <2>4, <2>5
<1> HIDE DEF c, n
<1>3. CASE len < n
  <2> DEFINE q == Around(b.size, b.reader + len)
  <2>1. (b.reader + len) % b.size = q /\ q \in 0..(b.size - 1)
    <3>1. b.reader + len \in Nat /\ b.reader + len < 2 * b.size
      BY <1>1 DEF n
    <3> QED
      BY <1>1, <3>1, ModOnce DEF Wrap
  <2>2. r = [mem |-> b.mem, size |-> b.size, reader |-> q, writer |-> b.writer]
    <3>1. r = [b EXCEPT !.reader = q]
      BY <1>1, <1>3, <2>1 DEF retrieve
    <3> HIDE DEF q
    <3> QED
      BY <1>1, <3>1 DEF IsRing
  <2>3. /\ b.writer >= b.reader => n = b.writer - b.reader
        /\ b.writer < b.reader => n = b.writer - b.reader + b.size
    BY <1>1 DEF readableBytes
  <2>4. /\ b.writer >= q => b.writer - q = n - len
        /\ b.writer < q => b.writer - q + b.size = n - len
        /\ \A i \in 1..(n - len) :
              Around(b.size, q + i - 1) = Around(b.size, b.reader + (len + i) - 1)
    <3>1. PICK z \in Nat \ {0}, r0 \in Nat, w0 \in Nat, n0 \in Nat, l0 \in Nat :
             z = b.size /\ r0 = b.reader /\ w0 = b.writer /\ n0 = n /\ l0 = len
      BY <1>1 DEF n
    <3>2. /\ r0 \in 0..(z - 1) /\ w0 \in 0..(z - 1) /\ l0 < n0
          /\ w0 >= r0 => n0 = w0 - r0
          /\ w0 < r0 => n0 = w0 - r0 + z
      BY <1>1, <1>3, <2>3, <3>1
    <3>3. /\ w0 >= Around(z, r0 + l0) => w0 - Around(z, r0 + l0) = n0 - l0
          /\ w0 < Around(z, r0 + l0) => w0 - Around(z, r0 + l0) + z = n0 - l0
          /\ \A i \in 1..(n0 - l0) :
                Around(z, Around(z, r0 + l0) + i - 1) = Around(z, r0 + (l0 + i) - 1)
      <4> DEFINE q0 == Around(z, r0 + l0)
      <4>1. CASE r0 + l0 < z
        <5>1. q0 = r0 + l0
          BY <4>1 DEF Around
        <5> HIDE DEF q0
        <5> QED
          BY <3>2, <4>1, <5>1 DEF Around, q0
      <4>2. CASE ~(r0 + l0 < z)
        <5>1. q0 = r0 + l0 - z
          BY <4>2 DEF Around
        <5> HIDE DEF q0
        <5> QED
          BY <3>2, <4>2, <5>1 DEF Around, q0
      <4> QED
        BY <4>1, <4>2
    <3> QED
      BY <3>1, <3>3
  <2> HIDE DEF q, r
  <2>6. /\ r.mem = b.mem /\ r.size = b.size /\ r.reader = q /\ r.writer = b.writer
        /\ r = [mem |-> r.mem, size |-> r.size, reader |-> r.reader,
                writer |-> r.writer]
    BY <2>2
  <2>7. IsRing(r)
    BY <1>1, <2>1, <2>6 DEF IsRing
  <2>8. readableBytes(r) = n - len
    BY <1>1, <2>1, <2>4, <2>6 DEF readableBytes
  <2>9. \A i \in 1..(n - len) : len + i \in 1..n
    BY <1>1 DEF n
  <2>10. \A i \in 1..n : b.mem[Around(b.size, b.reader + i - 1)] = s[i]
    BY DEF Holds, Wrap, n
  <2>11. \A i \in 1..(n - len) : r.mem[Wrap(r, r.reader + i - 1)] = c[i]
    BY <1>2, <2>4, <2>6, <2>9, <2>10 DEF Wrap
  <2>12. Holds(r, c)
    BY <1>2, <2>7, <2>8, <2>11 DEF Holds
  <2> QED
    BY <2>12 DEF r, c, n
<1>4. CASE ~(len < n)
  <2>1. len = n
    BY <1>1, <1>4 DEF n
  <2>2. r = [b EXCEPT !.reader = 0, !.writer = 0]
    BY <1>1, <1>4 DEF retrieve
  <2>3. r = [mem |-> b.mem, size |-> b.size, reader |-> 0, writer |-> 0]
    <3> DEFINE e == [b EXCEPT !.reader = 0]
    <3>1. e = [mem |-> b.mem, size |-> b.size, reader |-> 0,
               writer |-> b.writer]
      <4>1. b = [mem |-> b.mem, size |-> b.size, reader |-> b.reader,
                 writer |-> b.writer]
        BY <1>1 DEF IsRing
      <4> QED
        BY <4>1
    <3>2. r = [e EXCEPT !.writer = 0]
      BY <2>2
    <3> HIDE DEF e, r
    <3> QED
      BY <3>1, <3>2
  <2> HIDE DEF r
  <2>4. /\ r.mem = b.mem /\ r.size = b.size /\ r.reader = 0 /\ r.writer = 0
        /\ r = [mem |-> r.mem, size |-> r.size, reader |-> r.reader,
                writer |-> r.writer]
    BY <2>3
  <2>5. IsRing(r)
    BY <1>1, <2>4 DEF IsRing
  <2>6. readableBytes(r) = 0
    BY <2>4 DEF readableBytes
  <2>7. Len(c) = 0
    BY <1>1, <1>2, <2>1
  <2>8. Holds(r, c)
    BY <1>2, <2>5, <2>6, <2>7 DEF Holds
  <2> QED
    BY <2>8 DEF r, c, n
<1> QED
  BY <1>3, <1>4

(* A copy holds the same bytes.                                            *)
LEMMA CopyKeeps ==
    ASSUME NEW b, NEW s, Holds(b, s)
    PROVE  Holds(Copy(b), s)
<1> DEFINE held(i) == IF needRewind(b) THEN i >= b.reader \/ i < b.writer
                      ELSE i \in b.reader..(b.writer - 1)
           m == [i \in DOMAIN b.mem |-> IF held(i) THEN b.mem[i] ELSE Uninitialized]
           r == Copy(b)
           n == Len(s)
<1>1. /\ n \in Nat /\ n < b.size
      /\ b.size \in Nat \ {0} /\ b.mem \in [0..(b.size - 1) -> Cell]
      /\ b.reader \in 0..(b.size - 1) /\ b.writer \in 0..(b.size - 1)
      /\ b.writer = Around(b.size, b.reader + n)
      /\ needRewind(b) <=> b.reader + n >= b.size
      /\ IsRing(b)
  <2>1. /\ n \in 0..(b.size - 1)
        /\ b.writer = Around(b.size, b.reader + n)
        /\ needRewind(b) <=> b.reader + n >= b.size
    BY IndexesOf DEF Wrap
  <2> QED
    BY <2>1 DEF Holds, IsRing
<1>2. m \in [0..(b.size - 1) -> Cell]
  BY <1>1 DEF Cell
<1>3. r = [mem |-> m, size |-> b.size, reader |-> b.reader, writer |-> b.writer]
  <2>1. r = [b EXCEPT !.mem = m]
    BY DEF Copy
  <2> HIDE DEF m, r
  <2> QED
    BY <1>1, <2>1 DEF IsRing
<1>4. ASSUME NEW i \in 1..n
      PROVE  m[Around(b.size, b.reader + i - 1)] = s[i]
  <2> DEFINE p == Around(b.size, b.reader + i - 1)
  <2>1. p \in 0..(b.size - 1)
    BY <1>1 DEF Around
  <2>2. held(p)
    <3>1. CASE needRewind(b)
      BY <1>1, <3>1, SMTT(30) DEF Around
    <3>2. CASE ~needRewind(b)
      BY <1>1, <3>2, SMTT(30) DEF Around
    <3> QED
      BY <3>1, <3>2
  <2>3. b.mem[p] = s[i]
    BY DEF Holds, Wrap
  <2> HIDE DEF p, held
  <2>4. m[p] = b.mem[p]
    BY <1>1, <2>1, <2>2
  <2> QED
    BY <2>3, <2>4 DEF p
<1> HIDE DEF m, r
<1>5. /\ r.mem = m /\ r.size = b.size /\ r.reader = b.reader /\ r.writer = b.writer
      /\ r = [mem |-> r.mem, size |-> r.size, reader |-> r.reader,
              writer |-> r.writer]
  BY <1>3
<1>6. IsRing(r)
  BY <1>1, <1>2, <1>5 DEF IsRing
<1>7. readableBytes(r) = n /\ s \in Seq(Bytes)
  BY <1>5 DEF Holds, readableBytes
<1>8. \A i \in 1..n : r.mem[Wrap(r, r.reader + i - 1)] = s[i]
  BY <1>4, <1>5 DEF Wrap
<1>9. Holds(r, s)
  BY <1>6, <1>7, <1>8 DEF Holds
<1> QED
  BY <1>9 DEF r

-----------------------------------------------------------------------------
(* The steps.                                                              *)

RingInv == Holds(buf, Readable(buf))

(* What is written is a sequence of bytes.                                 *)
LEMMA DataAreBytes ==
    ASSUME MaxLen \in Nat, NEW data \in Data
    PROVE  data \in Seq(Bytes)
<1>1. PICK n \in 0..MaxLen : data \in [1..n -> Bytes]
  BY DEF Data
<1> QED
  BY <1>1, SeqDef

LEMMA InitHolds ==
    ASSUME kInitialSize \in Nat, Init
    PROVE  RingInv /\ Readable(buf) = <<>>
BY NewIsEmpty, HoldsReadable DEF Init, RingInv

(* A step keeps the ring well formed and is a step of the queue; a string  *)
(* that it returns is what the ring held.                                  *)
LEMMA StepHolds ==
    ASSUME MaxLen \in Nat, RingInv, Next
    PROVE  /\ RingInv'
           /\ BQ!Next \/ UNCHANGED BQ!vars
           /\ \/ returned' = <<>>
              \/ /\ returned' = Readable(buf)
                 /\ \E n \in 0..Len(returned') :
                       call' = <<"read", SubSeq(returned', 1, n)>>
<1> DEFINE s == Readable(buf)
<1>1. /\ Holds(buf, s) /\ s \in Seq(Bytes)
      /\ readableBytes(buf) = Len(s) /\ Len(s) \in Nat
  BY LenProperties DEF RingInv, Holds
<1>2. \A t : Holds(buf', t) => RingInv' /\ Readable(buf)' = t
  BY HoldsReadable DEF RingInv
<1>3. ASSUME NEW data \in Data, CallAppend(data)
      PROVE  RingInv' /\ BQ!Write(data) /\ returned' = <<>>
  <2>1. Holds(buf', s \o data)
    BY <1>1, <1>3, DataAreBytes, AppendAppends DEF CallAppend
  <2> QED
    BY <1>2, <1>3, <2>1 DEF CallAppend, BQ!Write
<1>4. ASSUME NEW len \in 0..readableBytes(buf), CallRetrieve(len)
      PROVE  RingInv' /\ BQ!Read(len) /\ len \in 0..Len(s) /\ returned' = <<>>
  <2>1. len \in 0..Len(s)
    BY <1>1
  <2>2. Holds(buf', SubSeq(s, len + 1, Len(s)))
    BY <1>1, <1>4, <2>1, RetrieveRetrieves DEF CallRetrieve
  <2> QED
    BY <1>2, <1>4, <2>1, <2>2 DEF CallRetrieve, BQ!Read
<1>5. ASSUME NEW len \in 0..(readableBytes(buf) + 1), CallRetrieveAsString(len)
      PROVE  /\ RingInv'
             /\ returned' = s
             /\ \E n \in 0..Len(s) :
                   BQ!Read(n) /\ call' = <<"read", SubSeq(returned', 1, n)>>
  <2> DEFINE n == IF len < readableBytes(buf) THEN len ELSE readableBytes(buf)
  <2>1. n \in 0..Len(s)
    BY <1>1
  <2>2. /\ returned' = s
        /\ buf' = retrieve(buf, n)
        /\ call' = <<"read", SubSeq(s, 1, n)>>
    BY <1>5 DEF CallRetrieveAsString, AsString
  <2> HIDE DEF n
  <2>3. Holds(buf', SubSeq(s, n + 1, Len(s)))
    BY <1>1, <2>1, <2>2, RetrieveRetrieves
  <2>4. RingInv' /\ BQ!Read(n)
    BY <1>2, <2>2, <2>3 DEF BQ!Read
  <2> QED
    BY <2>1, <2>2, <2>4
<1>6. ASSUME NEW len \in 0..MaxLen, CallEnsureWritable(len)
      PROVE  RingInv' /\ UNCHANGED BQ!vars /\ returned' = <<>>
  <2>1. Holds(buf', s)
    BY <1>1, <1>6, EnsureKeeps DEF CallEnsureWritable
  <2> QED
    BY <1>2, <1>6, <2>1 DEF CallEnsureWritable, BQ!vars
<1>7. ASSUME CallCopy
      PROVE  RingInv' /\ UNCHANGED BQ!vars /\ returned' = <<>>
  <2>1. Holds(buf', s)
    BY <1>1, <1>7, CopyKeeps DEF CallCopy
  <2> QED
    BY <1>2, <1>7, <2>1 DEF CallCopy, BQ!vars
<1> QED
  BY <1>3, <1>4, <1>5, <1>6, <1>7 DEF Next, BQ!Next

(* A stuttering step changes none of it.                                   *)
LEMMA StutterHolds ==
    ASSUME RingInv, UNCHANGED vars
    PROVE  RingInv' /\ UNCHANGED <<call, returned, Readable(buf)>>
<1>1. buf' = buf /\ call' = call /\ returned' = returned
  BY DEF vars
<1>2. Readable(buf)' = Readable(buf)
  BY <1>1 DEF Readable, FirstPiece, SecondPiece, Cells, needRewind
<1>3. Holds(buf, Readable(buf))' = Holds(buf, Readable(buf))
  BY <1>1, <1>2 DEF Holds, IsRing, readableBytes, Wrap, Around
<1> QED
  BY <1>1, <1>2, <1>3 DEF RingInv

LEMMA RingInvAlways ==
    ASSUME kInitialSize \in Nat, MaxLen \in Nat
    PROVE  Spec => []RingInv
<1>1. Init => RingInv
  BY InitHolds
<1>2. RingInv /\ [Next]_vars => RingInv'
  BY StepHolds, StutterHolds
<1> QED
  BY <1>1, <1>2, PTL DEF Spec

(* The ring is a queue of bytes: wrapping around, growing and copying      *)
(* lose, repeat or reorder none (circularbuffer.h:86-128, 151-212).        *)
THEOREM RingIsAByteQueue ==
    ASSUME kInitialSize \in Nat, MaxLen \in Nat
    PROVE  Spec => ImplementsByteQueue
<1>1. Init => BQ!Init
  BY InitHolds DEF Init, BQ!Init
<1>2. RingInv /\ [Next]_vars => [BQ!Next]_(BQ!vars)
  BY StepHolds, StutterHolds DEF BQ!vars
<1> QED
  BY <1>1, <1>2, RingInvAlways, PTL DEF Spec, BQ!Spec, ImplementsByteQueue

(* A string that retrieveAsString returns begins with what the call        *)
(* consumes and has only bytes that were written (circularbuffer.h:132).   *)
THEOREM ReturnedIsWritten ==
    ASSUME kInitialSize \in Nat, MaxLen \in Nat, Uninitialized \notin Bytes
    PROVE  Spec => ReturnedStartsWithRead
<1>1. RingInv /\ [Next]_vars =>
         [returned' # <<>> =>
            /\ \E n \in 0..Len(returned') :
                  call' = <<"read", SubSeq(returned', 1, n)>>
            /\ \A i \in DOMAIN returned' : returned'[i] # Uninitialized]_vars
  <2> SUFFICES ASSUME RingInv, Next, returned' # <<>>
               PROVE  /\ \E n \in 0..Len(returned') :
                            call' = <<"read", SubSeq(returned', 1, n)>>
                      /\ \A i \in DOMAIN returned' : returned'[i] # Uninitialized
    OBVIOUS
  <2>1. /\ returned' = Readable(buf)
        /\ \E n \in 0..Len(returned') :
              call' = <<"read", SubSeq(returned', 1, n)>>
    BY StepHolds
  <2>2. Readable(buf) \in Seq(Bytes)
    BY DEF RingInv, Holds
  <2>3. \A i \in DOMAIN returned' : returned'[i] \in Bytes
    BY <2>1, <2>2, LenProperties, ElementOfSeq
  <2> QED
    BY <2>1, <2>3
<1> QED
  BY <1>1, RingInvAlways, PTL DEF Spec, ReturnedStartsWithRead
=============================================================================
