--------------------------- MODULE MotorContract ----------------------------
(***************************************************************************)
(* What one motor promises the routines of main.c: a movement begun is     *)
(* carried out step by step to its goal and then reported, and the         *)
(* position is exact whenever none is in progress.  StepperAxis is the     *)
(* code that keeps the promise; MotionRoutines relies on it.               *)
(***************************************************************************)
EXTENDS Integers

CONSTANT Positions \* where a motor may be sent, integers

VARIABLES
  state,    \* stepper_state_t: "DISABLED", "ENABLED", "MOVING"
  position, \* what stepper_get_actual_position returns
  goal      \* where the movement in progress ends

vars == <<state, position, goal>>

TypeOK ==
  /\ state \in {"DISABLED", "ENABLED", "MOVING"}
  /\ position \in Int
  /\ goal \in Int

Init == state = "ENABLED" /\ position = 0 /\ goal = 0

Begin(target) ==
  /\ state # "MOVING"
  /\ state' = "MOVING"
  /\ goal' = target
  /\ UNCHANGED position

Step ==
  /\ state = "MOVING"
  /\ position # goal
  /\ position' = IF position < goal THEN position + 1 ELSE position - 1
  /\ UNCHANGED <<state, goal>>

Finish ==
  /\ state = "MOVING"
  /\ position = goal
  /\ state' = "ENABLED"
  /\ UNCHANGED <<position, goal>>

SetReference(value) ==
  /\ state # "MOVING"
  /\ position' = value
  /\ goal' = value
  /\ UNCHANGED state

Configure(new) ==
  /\ state # "MOVING"
  /\ new \in {"DISABLED", "ENABLED"}
  /\ state' = new
  /\ UNCHANGED <<position, goal>>

Progress == Step \/ Finish

Next ==
  \/ Progress
  \/ \E target \in Positions : Begin(target) \/ SetReference(target)
  \/ \E new \in {"DISABLED", "ENABLED"} : Configure(new)

Spec == Init /\ [][Next]_vars /\ WF_vars(Progress)
=============================================================================
