---------------------------- MODULE MCLoadBalance ----------------------------
(***************************************************************************)
(* Three APs and two stations, so that the two can hear different APs.      *)
(***************************************************************************)
EXTENDS LoadBalance, TLC

CONSTANTS a1, a2, a3, s1, s2

Symmetry == Permutations(AP) \cup Permutations(Sta)
=============================================================================
