---------------------------- MODULE FunctorQueue ----------------------------
(***************************************************************************)
(* What EventLoop::queueInLoop promises its callers, without the mutex,    *)
(* the eventfd, the swap or the poll: functors are submitted by any        *)
(* thread, and one executor runs them one at a time, in the order of their *)
(* submission, each at most once.                                          *)
(***************************************************************************)
EXTENDS Sequences

CONSTANT Functors

VARIABLES submitted,    \* functors handed in so far
          queue,        \* submitted and not run yet, oldest first
          ran           \* run, in the order in which they ran

vars == <<submitted, queue, ran>>

Init ==
    /\ submitted = {}
    /\ queue = <<>>
    /\ ran = <<>>

Submit(f) ==
    /\ f \notin submitted
    /\ submitted' = submitted \union {f}
    /\ queue' = Append(queue, f)
    /\ UNCHANGED ran

Execute ==
    /\ queue # <<>>
    /\ ran' = Append(ran, Head(queue))
    /\ queue' = Tail(queue)
    /\ UNCHANGED submitted

Next ==
    \/ \E f \in Functors : Submit(f)
    \/ Execute

Spec == Init /\ [][Next]_vars
=============================================================================
