----------------------------- MODULE OutputStream ----------------------------
(***************************************************************************)
(* What a TcpConnection promises the code that sends, without the output   *)
(* buffer, the interest in POLLOUT or the functors: the bytes of the       *)
(* messages reach the socket in the order in which the loop accepted them, *)
(* each once, and, unless the connection is lost, the write side is shut   *)
(* down only when none is left.  A message accepted after that stays where *)
(* it is.                                                                  *)
(***************************************************************************)
EXTENDS Naturals, Sequences

CONSTANT Messages     \* what send() is given, sequences of bytes

VARIABLES waiting,    \* accepted and not written yet
          written,    \* written to the socket
          closed,     \* the write side is shut down
          lost        \* the peer has closed or reset the connection

vars == <<waiting, written, closed, lost>>

Init ==
    /\ waiting = <<>>
    /\ written = <<>>
    /\ closed = FALSE
    /\ lost = FALSE

(* n of the bytes that wait are written; none once the socket is shut.     *)
Transfer(bytes, n) ==
    /\ closed => n = 0
    /\ written' = written \o SubSeq(bytes, 1, n)
    /\ waiting' = SubSeq(bytes, n + 1, Len(bytes))

Accept(m) ==
    /\ \E n \in 0..(Len(waiting) + Len(m)) : Transfer(waiting \o m, n)
    /\ UNCHANGED <<closed, lost>>

(* Writing the last byte may shut the write side in the same step.         *)
Write ==
    /\ \E n \in 1..Len(waiting) : Transfer(waiting, n)
    /\ \/ UNCHANGED closed
       \/ closed' = TRUE /\ waiting' = <<>>
    /\ UNCHANGED lost

ShutDown ==
    /\ waiting = <<>> \/ lost
    /\ closed' = TRUE
    /\ UNCHANGED <<waiting, written, lost>>

Lose ==
    /\ lost' = TRUE
    /\ UNCHANGED <<waiting, written, closed>>

Next ==
    \/ \E m \in Messages : Accept(m)
    \/ Write
    \/ ShutDown
    \/ Lose

Spec == Init /\ [][Next]_vars
=============================================================================
