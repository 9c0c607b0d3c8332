-------------------------------- MODULE MCTess --------------------------------
(***************************************************************************)
(* Tess for TLC: the keys are interchangeable.                             *)
(***************************************************************************)
EXTENDS Tess, TLC

KeySymmetry == Permutations(Key)
=============================================================================
