----------------------------- MODULE MCLeverApi -----------------------------
(***************************************************************************)
(* Two nodes, three channels and two levels: three channels, so that a      *)
(* retry can bring back one that is neither the first nor the latest.       *)
(***************************************************************************)
EXTENDS LeverApi, TLC

CONSTANTS n1, n2, c1, c2, c3, low, high

Symmetry == Permutations(Node) \cup Permutations(Channel) \cup Permutations(Level)
=============================================================================
