------------------------------ MODULE ByteQueue ------------------------------
(***************************************************************************)
(* What leanet::Buffer promises its users, without the array, the indexes  *)
(* or the growth: a sequence of bytes that is written at its end, read at  *)
(* its front, put back at either end, and never loses, repeats or reorders *)
(* a byte.  call is the last call and the bytes that it moved.             *)
(***************************************************************************)
EXTENDS Naturals, Sequences

CONSTANT Data          \* the byte sequences that are written

VARIABLES content,     \* the readable bytes
          call

vars == <<content, call>>

Init ==
    /\ content = <<>>
    /\ call = <<"none", <<>>>>

Write(data) ==
    /\ content' = content \o data
    /\ call' = <<"write", data>>

Prepend(data) ==
    /\ content' = data \o content
    /\ call' = <<"prepend", data>>

Read(len) ==
    /\ content' = SubSeq(content, len + 1, Len(content))
    /\ call' = <<"read", SubSeq(content, 1, len)>>

Unwrite(len) ==
    /\ content' = SubSeq(content, 1, Len(content) - len)
    /\ UNCHANGED call

Next ==
    \/ \E data \in Data : Write(data) \/ Prepend(data)
    \/ \E len \in 0..Len(content) : Read(len) \/ Unwrite(len)

Spec == Init /\ [][Next]_vars
=============================================================================
