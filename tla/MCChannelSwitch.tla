--------------------------- MODULE MCChannelSwitch ---------------------------
(***************************************************************************)
(* Two access points and a station.  The 500 ms of the flag are two ticks:  *)
(* what matters is that they outlast a switch and end before the next.      *)
(***************************************************************************)
EXTENDS ChannelSwitch, TLC

CONSTANTS a1, a2, s1

Apart == (a1 :> 1) @@ (a2 :> 6) @@ (s1 :> 1)
=============================================================================
