----------------------------- MODULE MCBssTm11v -----------------------------
(***************************************************************************)
(* A station steered between two access points of different channels, with *)
(* the delays of the code in ticks of 50 ms.                               *)
(***************************************************************************)
EXTENDS BssTm11v, TLC

CONSTANTS a1, a2

TwoChannels == (a1 :> 1) @@ (a2 :> 6)
=============================================================================
