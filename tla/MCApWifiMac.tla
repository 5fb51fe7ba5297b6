----------------------------- MODULE MCApWifiMac -----------------------------
(***************************************************************************)
(* One access point with as many association IDs as stations, one of them  *)
(* without HT.  The 10 ms of a switch are one tick and the 500 ms of the    *)
(* coordinated flag two: all that matters is which of two events is first.  *)
(***************************************************************************)
EXTENDS ApWifiMac, TLC

CONSTANTS s1, s2, s3
=============================================================================
