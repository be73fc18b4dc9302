--------------------------- MODULE CircularBuffer ---------------------------
(***************************************************************************)
(* The other Buffer of leanet (src/leanet/circularbuffer.h): a ring of     *)
(* size_ cells, one of which always stays free, so that equal indexes mean *)
(* that nothing is readable.  Like the linear buffer it is used by one     *)
(* thread, and every call is one step.                                     *)
(***************************************************************************)
EXTENDS Integers, Sequences

CONSTANTS
    kInitialSize,     \* the constructor's argument
    Bytes,            \* what a byte can be
    Uninitialized,    \* what new char[] leaves in a cell
    MaxLen,           \* bound: bytes written by one call
    MaxSize           \* bound: size of the ring

Data == UNION {[1..n -> Bytes] : n \in 0..MaxLen}

VARIABLES buf,        \* size_, buffer_, writerIndex_, readerIndex_
          call,       \* history: the last call and the bytes that it moved
          returned    \* history: the string that the last call gave back

vars == <<buf, call, returned>>

Buffer(initialSize) ==
    [mem |-> [i \in 0..initialSize |-> Uninitialized],
     size |-> initialSize + 1, reader |-> 0, writer |-> 0]

Init ==
    /\ buf = Buffer(kInitialSize)
    /\ call = <<"none", <<>>>>
    /\ returned = <<>>

readableBytes(b) ==
    LET diff == b.writer - b.reader
    IN  IF diff < 0 THEN diff + b.size ELSE diff

writableBytes(b) == b.size - 1 - readableBytes(b)

needRewind(b) == b.reader > b.writer

Cells(b, from, to) == [i \in 1..(to - from) |-> b.mem[from + i - 1]]

(* The readable bytes, in the one or two pieces that they lie in.          *)
FirstPiece(b) == Cells(b, b.reader, IF needRewind(b) THEN b.size ELSE b.writer)

SecondPiece(b) == IF needRewind(b) THEN Cells(b, 0, b.writer) ELSE <<>>

Readable(b) == FirstPiece(b) \o SecondPiece(b)

-----------------------------------------------------------------------------
(* std::copy of data to the cells from at on, as far as there are any.     *)
Store(mem, at, data) ==
    [i \in DOMAIN mem |->
        IF i \in at..(at + Len(data) - 1) THEN data[i - at + 1] ELSE mem[i]]

(* append once there is room: what does not fit behind writerIndex_ goes   *)
(* to the cells from 0 on.                                                 *)
put(b, data) ==
    LET fits == b.size - b.writer IN
    [b EXCEPT
        !.mem = IF b.writer + Len(data) <= b.size
                THEN Store(@, b.writer, data)
                ELSE Store(Store(@, b.writer, SubSeq(data, 1, fits)),
                           0, SubSeq(data, fits + 1, Len(data))),
        !.writer = (@ + Len(data)) % b.size]

(* Mutation: only the bytes up to the end of the array move over.          *)
extendFirstPiece(b, len) ==
    put(Buffer(2 * (len + readableBytes(b))), FirstPiece(b))

(* A larger ring takes the pieces in order and is swapped in.              *)
extend(b, len) ==
    put(put(Buffer(2 * (len + readableBytes(b))), FirstPiece(b)), SecondPiece(b))

ensureWritableBytes(b, len) ==
    IF writableBytes(b) < len THEN extend(b, len) ELSE b

append(b, data) == put(ensureWritableBytes(b, Len(data)), data)

retrieve(b, len) ==
    IF len < readableBytes(b) THEN [b EXCEPT !.reader = (@ + len) % b.size]
    ELSE [b EXCEPT !.reader = 0, !.writer = 0]

(* retrieveAsString copies every readable byte, whatever it consumes.      *)
AsString(b) == Readable(b)

(* The copy constructor (operator= swaps a copy in): size and indexes are  *)
(* copied, and of the cells only those that hold readable bytes.           *)
Copy(b) ==
    LET held(i) == IF needRewind(b) THEN i >= b.reader \/ i < b.writer
                   ELSE i \in b.reader..(b.writer - 1)
    IN  [b EXCEPT !.mem = [i \in DOMAIN b.mem |->
                              IF held(i) THEN b.mem[i] ELSE Uninitialized]]

-----------------------------------------------------------------------------
CallAppend(data) ==
    /\ buf' = append(buf, data)
    /\ buf'.size <= MaxSize
    /\ call' = <<"write", data>>
    /\ returned' = <<>>

CallRetrieve(len) ==
    /\ buf' = retrieve(buf, len)
    /\ call' = <<"read", SubSeq(Readable(buf), 1, len)>>
    /\ returned' = <<>>

(* retrieveAsString, and retrieveAllAsString.                              *)
CallRetrieveAsString(len) ==
    LET n == IF len < readableBytes(buf) THEN len ELSE readableBytes(buf) IN
    /\ returned' = AsString(buf)
    /\ buf' = retrieve(buf, n)
    /\ call' = <<"read", SubSeq(Readable(buf), 1, n)>>

CallEnsureWritable(len) ==
    /\ buf' = ensureWritableBytes(buf, len)
    /\ buf'.size <= MaxSize
    /\ returned' = <<>>
    /\ UNCHANGED call

CallCopy ==
    /\ buf' = Copy(buf)
    /\ returned' = <<>>
    /\ UNCHANGED call

Next ==
    \/ \E data \in Data : CallAppend(data)
    \/ \E len \in 0..readableBytes(buf) : CallRetrieve(len)
    \/ \E len \in 0..(readableBytes(buf) + 1) : CallRetrieveAsString(len)
    \/ \E len \in 0..MaxLen : CallEnsureWritable(len)
    \/ CallCopy

Spec == Init /\ [][Next]_vars

-----------------------------------------------------------------------------
(* The string that a retrieving call returns begins with the bytes that    *)
(* the call consumes, in order, and has no cell that was never written.    *)
ReturnedStartsWithRead ==
    [][returned' # <<>> =>
          /\ \E n \in 0..Len(returned') :
                call' = <<"read", SubSeq(returned', 1, n)>>
          /\ \A i \in DOMAIN returned' : returned'[i] # Uninitialized]_vars

(* Wrapping around, growing and copying lose, repeat or reorder no byte,   *)
(* and "assert(writableBytes() >= len)" holds when append comes to copy.   *)
BQ == INSTANCE ByteQueue WITH content <- Readable(buf)

ImplementsByteQueue == BQ!Spec
=============================================================================
