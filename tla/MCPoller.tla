------------------------------ MODULE MCPoller ------------------------------
(***************************************************************************)
(* Values for TLC: four channels on the descriptors 0, 1 and 2.  0 is      *)
(* there for the sign flip -fd - 1, and two channels share descriptor 1,   *)
(* as when a socket is closed and its number given out again.              *)
(***************************************************************************)
EXTENDS EPollPoller, TLC

CONSTANTS c1, c2, c3, c4

MCChannels == {c1, c2, c3, c4}
MCfd == c1 :> 0 @@ c2 :> 1 @@ c3 :> 2 @@ c4 :> 1
=============================================================================
