------------------------------- MODULE Buffer --------------------------------
(***************************************************************************)
(* leanet::Buffer (src/leanet/buffer.h, buffer.cc): one array, cut by two  *)
(* indexes into the prependable, the readable and the writable bytes.  A   *)
(* buffer belongs to one connection and is used on its loop's thread only, *)
(* so every call is one step.                                              *)
(*                                                                         *)
(* The calls are operators from a buffer to a buffer; the integers that    *)
(* appendInt32 and its kind write are byte sequences like any other.       *)
(* The assertions on an argument (len <= readableBytes()) are the caller's *)
(* obligations and guards here; those that the code makes about its own    *)
(* arithmetic are recorded by their line when they fail.                   *)
(***************************************************************************)
EXTENDS Integers, Sequences

CONSTANTS
    kCheapPrepend,    \* Buffer::kCheapPrepend
    kInitialSize,     \* the constructor's argument
    kExtraSize,       \* sizeof extrabuf in readFd
    Bytes,            \* what a byte can be
    MaxLen,           \* bound: bytes written by one call
    MaxSize           \* bound: size of the array

ASSUME BufferAssumption ==
    /\ kCheapPrepend \in Nat /\ kInitialSize \in Nat /\ kExtraSize \in Nat
    /\ MaxLen \in Nat /\ MaxSize \in Nat
    /\ 0 \in Bytes

Data == UNION {[1..n -> Bytes] : n \in 0..MaxLen}

VARIABLES buf,       \* buffer_, its size, readerIndex_, writerIndex_
          call,      \* history: the last call and the bytes that it moved
          failed     \* history: the lines whose assertion failed

vars == <<buf, call, failed>>

Buffer(size) ==
    [mem |-> [i \in 0..(size - 1) |-> 0], size |-> size,
     reader |-> kCheapPrepend, writer |-> kCheapPrepend]

Init ==
    /\ buf = Buffer(kCheapPrepend + kInitialSize)
    /\ call = <<"none", <<>>>>
    /\ failed = {}

readableBytes(b) == b.writer - b.reader
writableBytes(b) == b.size - b.writer
prependableBytes(b) == b.reader

(* The bytes from readerIndex_ to writerIndex_.                            *)
peek(b) == [i \in 1..readableBytes(b) |-> b.mem[b.reader + i - 1]]

-----------------------------------------------------------------------------
(* The operations.                                                         *)

(* std::copy of data to the cells from at on.                              *)
Store(mem, at, data) ==
    [i \in DOMAIN mem |->
        IF i \in at..(at + Len(data) - 1) THEN data[i - at + 1] ELSE mem[i]]

hasWritten(b, len) == [b EXCEPT !.writer = @ + len]

unwrite(b, len) == [b EXCEPT !.writer = @ - len]

retrieveAll(b) ==
    [mem |-> b.mem, size |-> b.size,
     reader |-> kCheapPrepend, writer |-> kCheapPrepend]

retrieve(b, len) ==
    IF len < readableBytes(b) THEN [b EXCEPT !.reader = @ + len]
    ELSE retrieveAll(b)

(* buffer_.resize(writerIndex_ + len), new cells zero.                     *)
Resized(b, len) ==
    [mem |-> [i \in 0..(b.writer + len - 1) |->
                 IF i < b.size THEN b.mem[i] ELSE 0],
     size |-> b.writer + len, reader |-> b.reader, writer |-> b.writer]

(* The readable bytes are moved ahead, to kCheapPrepend.                   *)
MovedAhead(b) ==
    [mem |-> Store(b.mem, kCheapPrepend, peek(b)), size |-> b.size,
     reader |-> kCheapPrepend, writer |-> kCheapPrepend + readableBytes(b)]

TooSmall(b, len) ==
    writableBytes(b) + prependableBytes(b) < len + kCheapPrepend

extend(b, len) == IF TooSmall(b, len) THEN Resized(b, len) ELSE MovedAhead(b)

ensureWritableBytes(b, len) ==
    IF writableBytes(b) < len THEN extend(b, len) ELSE b

(* A copy to beginWrite(), then hasWritten.                                *)
put(b, data) ==
    hasWritten([b EXCEPT !.mem = Store(b.mem, b.writer, data)], Len(data))

append(b, data) == put(ensureWritableBytes(b, Len(data)), data)

prepend(b, data) ==
    LET at == b.reader - Len(data)
    IN  [mem |-> Store(b.mem, at, data), size |-> b.size,
         reader |-> at, writer |-> b.writer]

(* Mutation: writerIndex_ is not moved to the end of the array.            *)
readFdShort(b, data) ==
    IF Len(data) <= writableBytes(b) THEN put(b, data)
    ELSE append([b EXCEPT !.mem = Store(b.mem, b.writer,
                                        SubSeq(data, 1, writableBytes(b)))],
                SubSeq(data, writableBytes(b) + 1, Len(data)))

(* readFd: readv fills the writable bytes, which puts writerIndex_ at the  *)
(* end of the array, then the array on the stack, which is appended.       *)
readFd(b, data) ==
    IF Len(data) <= writableBytes(b) THEN put(b, data)
    ELSE append(put(b, SubSeq(data, 1, writableBytes(b))),
                SubSeq(data, writableBytes(b) + 1, Len(data)))

(* What one readv can return.                                              *)
ReadableFromFd(b, n) ==
    n <= writableBytes(b) +
            (IF writableBytes(b) < kExtraSize THEN kExtraSize ELSE 0)

(* The assertions in ensureWritableBytes and extend.                       *)
FailedIn(b, len) ==
    (IF writableBytes(ensureWritableBytes(b, len)) >= len THEN {} ELSE {270})
    \union (IF /\ writableBytes(b) < len
               /\ ~TooSmall(b, len)
               /\ ~(kCheapPrepend < b.reader)
            THEN {287} ELSE {})

-----------------------------------------------------------------------------
(* The calls.                                                              *)

CallAppend(data) ==
    /\ buf' = append(buf, data)
    /\ buf'.size <= MaxSize
    /\ call' = <<"write", data>>
    /\ failed' = failed \union FailedIn(buf, Len(data))

CallPrepend(data) ==
    /\ Len(data) <= prependableBytes(buf)
    /\ buf' = prepend(buf, data)
    /\ call' = <<"prepend", data>>
    /\ UNCHANGED failed

(* retrieveAsString, the readInts and, with peek, the plain retrieve.      *)
CallRetrieve(len) ==
    /\ len <= readableBytes(buf)
    /\ buf' = retrieve(buf, len)
    /\ call' = <<"read", SubSeq(peek(buf), 1, len)>>
    /\ UNCHANGED failed

CallRetrieveAll ==
    /\ buf' = retrieveAll(buf)
    /\ call' = <<"read", peek(buf)>>
    /\ UNCHANGED failed

CallUnwrite(len) ==
    /\ len <= readableBytes(buf)
    /\ buf' = unwrite(buf, len)
    /\ UNCHANGED <<call, failed>>

(* The caller reserves room, and later writes at beginWrite().             *)
CallEnsureWritable(len) ==
    /\ buf' = ensureWritableBytes(buf, len)
    /\ buf'.size <= MaxSize
    /\ failed' = failed \union FailedIn(buf, len)
    /\ UNCHANGED call

WriteInPlace(data) ==
    /\ Len(data) <= writableBytes(buf)
    /\ buf' = put(buf, data)
    /\ call' = <<"write", data>>
    /\ UNCHANGED failed

(* An error of readv changes nothing.                                      *)
CallReadFd(data) ==
    /\ ReadableFromFd(buf, Len(data))
    /\ buf' = readFd(buf, data)
    /\ buf'.size <= MaxSize
    /\ call' = <<"write", data>>
    /\ failed' = failed \union
          (IF Len(data) <= writableBytes(buf) THEN {}
           ELSE FailedIn(put(buf, SubSeq(data, 1, writableBytes(buf))),
                         Len(data) - writableBytes(buf)))

Next ==
    \/ \E data \in Data :
          CallAppend(data) \/ CallPrepend(data) \/ WriteInPlace(data) \/ CallReadFd(data)
    \/ \E len \in 0..readableBytes(buf) : CallRetrieve(len) \/ CallUnwrite(len)
    \/ CallRetrieveAll
    \/ \E len \in 0..MaxLen : CallEnsureWritable(len)

Spec == Init /\ [][Next]_vars

-----------------------------------------------------------------------------
IsBuffer(b) ==
    /\ b.size \in Nat /\ b.reader \in Nat /\ b.writer \in Nat
    /\ b.reader <= b.writer /\ b.writer <= b.size /\ kCheapPrepend <= b.size
    /\ b = [mem |-> b.mem, size |-> b.size, reader |-> b.reader,
            writer |-> b.writer]
    /\ b.mem \in [0..(b.size - 1) -> Bytes]

(* The indexes are in order and inside the array, through every call.      *)
TypeOK == IsBuffer(buf) /\ failed \subseteq {270, 287}

(* "assert(writableBytes() >= len)" after growing or moving, and           *)
(* "assert(kCheapPrepend < readerIndex_)" before moving: there is always   *)
(* room ahead when the code decides not to grow the array, also after      *)
(* prepend() has used some of the first kCheapPrepend bytes.               *)
AssertionsHold == failed = {}

(* Only prepend() uses up the prependable bytes: every other call that     *)
(* moves the readable bytes leaves kCheapPrepend of them.                  *)
CheapPrependKept ==
    [][buf'.reader < buf.reader =>
          call'[1] = "prepend" \/ buf'.reader >= kCheapPrepend]_vars

(* Through growing, moving ahead and reading in two pieces the buffer is a *)
(* queue of bytes: what is read is what was written, in order, once.       *)
BQ == INSTANCE ByteQueue WITH content <- peek(buf)

ImplementsByteQueue == BQ!Spec
=============================================================================
