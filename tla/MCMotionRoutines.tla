-------------------------- MODULE MCMotionRoutines --------------------------
(* An instance of MotionRoutines. *)
EXTENDS MotionRoutines

Goal(p, y, s) ==
  [m \in {"pitch", "yaw", "slide"} |->
     CASE m = "pitch" -> p [] m = "yaw" -> y [] OTHER -> s]

TwoGoals == {Goal(0, 1, 0), Goal(1, -1, 1)}
Diameters == {0, 2, 3}
=============================================================================
