---------------------------- MODULE MCApprovals ----------------------------
(* Model-checking instance of Approvals: interchangeable rows, the          *)
(* anonymous caller and one other identity, and tokens that die before the  *)
(* clock stops.                                                             *)
EXTENDS Approvals, TLC

IdSymmetry == Permutations(Ids)
=============================================================================
