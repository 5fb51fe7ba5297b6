-------------------------- MODULE MCRollbackManager --------------------------
(***************************************************************************)
(* A small instance of RollbackManager for TLC.  The scores are a healthy  *)
(* network and one that lost 95 percent of its score (the drop of the      *)
(* example), under the default threshold of 10.  An evaluation comes two   *)
(* ticks after its change, so that a second change, a forced rollback or a *)
(* Reset fits in between, and the cooldown outlasts it.  Nothing tells two *)
(* APs apart.                                                              *)
(***************************************************************************)
EXTENDS RollbackManager, TLC

APSymmetry == Permutations(AP)
=============================================================================
