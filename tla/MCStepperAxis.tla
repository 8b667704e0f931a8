--------------------------- MODULE MCStepperAxis ----------------------------
(* An instance of StepperAxis: no step, one step, several, both ways. *)
EXTENDS StepperAxis

SmallMoves == {-2, 0, 1}
=============================================================================
