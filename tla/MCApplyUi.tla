----------------------------- MODULE MCApplyUi ------------------------------
(***************************************************************************)
(* ApplyUi with one config that is installed and one that can be created.  *)
(***************************************************************************)
EXTENDS ApplyUi, TLC

RunSymmetry == Permutations(Runs)
=============================================================================
