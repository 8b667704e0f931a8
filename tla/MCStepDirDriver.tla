-------------------------- MODULE MCStepDirDriver ---------------------------
(* An instance of StepDirDriver: no step, one step, several, both ways. *)
EXTENDS StepDirDriver

SmallMoves == {-2, 0, 1}
=============================================================================
