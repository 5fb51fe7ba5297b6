---------------------------- MODULE MCStaWifiMac ----------------------------
(***************************************************************************)
(* A station between two access points, on one channel or on two.          *)
(***************************************************************************)
EXTENDS StaWifiMac, TLC

CONSTANTS a1, a2, a3

OneChannel == (a1 :> 1) @@ (a2 :> 1)
ThreeAps == (a1 :> 1) @@ (a2 :> 1) @@ (a3 :> 6)
TwoChannels == (a1 :> 1) @@ (a2 :> 6)
=============================================================================
