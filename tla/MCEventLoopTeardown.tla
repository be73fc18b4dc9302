------------------------ MODULE MCEventLoopTeardown -------------------------
(***************************************************************************)
(* Values for TLC: the loop's two channels and one more.                   *)
(***************************************************************************)
EXTENDS EventLoopTeardown, TLC

CONSTANT other

MCChannels == {timerfdChannel, wakeupChannel, other}
MCfd == timerfdChannel :> 0 @@ wakeupChannel :> 1 @@ other :> 2
=============================================================================
