--------------------------- MODULE MCChannelHopping ---------------------------
(***************************************************************************)
(* A station between two access points, on one channel or on two.  The      *)
(* delays are scaled down and keep their order: a roam's 50 ms, the retry   *)
(* of a request, the watchdog, the buffer of the grace period, its length.  *)
(***************************************************************************)
EXTENDS ChannelHopping, TLC

CONSTANTS a1, a2

OneChannel == (a1 :> 1) @@ (a2 :> 1)
TwoChannels == (a1 :> 1) @@ (a2 :> 6)
===============================================================================
