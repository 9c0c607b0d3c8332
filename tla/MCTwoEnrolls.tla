----------------------------- MODULE MCTwoEnrolls -----------------------------
(***************************************************************************)
(* TwoEnrolls for TLC: the keys are interchangeable.                       *)
(***************************************************************************)
EXTENDS TwoEnrolls, TLC

KeySymmetry == Permutations(Key)
=============================================================================
