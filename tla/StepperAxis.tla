---------------------------- MODULE StepperAxis -----------------------------
(***************************************************************************)
(* One motor as main.c uses it: the state of its stepper_ctx_t, shared     *)
(* without a lock by the command thread (move_savely_by, move_savely_to,   *)
(* wait_for_movement_to_finish) and by stepper_callback, which runs in the *)
(* work queue, or in the thread itself for a movement of no steps.  The    *)
(* driver and its counter run underneath, edge by edge.                    *)
(*                                                                         *)
(* The command thread is any routine that sets the reference or configures *)
(* the motor only after a wait, as those of main.c do: MotionRoutines has  *)
(* the routines themselves.                                                *)
(***************************************************************************)
EXTENDS StepDirDriver

VARIABLES
  ctx_state, \* stepper_ctx_t.state
  pc,        \* stage of the move_savely call, "routine" outside one
  call       \* its kind, "by" or "to", and its argument

thread == <<ctx_state, pc, call>>
axis == <<driver, thread>>

Calls == [kind : {"by", "to"}, steps : MoveSizes]

AxisTypeOK ==
  /\ DriverTypeOK
  /\ ctx_state \in {"DISABLED", "ENABLED", "MOVING"}
  /\ pc \in {"routine", "wait", "mark", "move"}
  /\ call \in Calls

\* After init_steppers: interval set, reference zero, motor enabled.
AxisInit ==
  /\ counter_en = FALSE /\ alarm_en = TRUE
  /\ intr_en = TRUE /\ intr_st = FALSE /\ isr = "idle"
  /\ step_high = 0 /\ step_count = 0 /\ actual_position = 0
  /\ direction = 1 /\ run_mode = "hold"
  /\ interval = "usable" /\ api = "idle"
  /\ msgq = <<>> /\ work_pending = FALSE
  /\ phys = 0 /\ goal = 0 /\ outstanding = 0
  /\ ctx_state = "ENABLED" /\ pc = "routine" /\ call \in Calls

\* The distance the movement will be asked to go.
Distance ==
  IF call.kind = "by" THEN call.steps ELSE call.steps - actual_position

-----------------------------------------------------------------------------
(* The command thread; api # "idle" is the driver call it is in. *)

AppRuns(at) == ThreadRuns /\ api = "idle" /\ pc = at

\* move_savely_by and move_savely_to: a disabled motor is skipped.
MoveSavely(c) ==
  /\ AppRuns("routine")
  /\ ctx_state # "DISABLED"
  /\ c.kind = "by" => goal + c.steps \in -MaxPosition..MaxPosition
  /\ call' = c
  /\ pc' = "wait"
  /\ UNCHANGED <<driver, ctx_state>>

\* wait_for_movement_to_finish inside a move_savely.
WaitForMovementToFinish ==
  /\ AppRuns("wait")
  /\ ctx_state # "MOVING"
  /\ pc' = "mark"
  /\ UNCHANGED <<driver, ctx_state, call>>

\* Mutant: MOVING is not set.
MarkForgotten ==
  /\ AppRuns("mark")
  /\ pc' = "move"
  /\ UNCHANGED <<driver, ctx_state, call>>

\* MOVING is set before the driver is called, for the callback to reset.
MarkMoving ==
  /\ AppRuns("mark")
  /\ ctx_state' = "MOVING"
  /\ pc' = "move"
  /\ UNCHANGED <<driver, call>>

\* Mutant: MOVING is set after the driver was called.
CallDriverThenMark ==
  /\ AppRuns("move")
  /\ MoveBy(Distance)
  /\ ctx_state' = "MOVING"
  /\ pc' = "routine"
  /\ UNCHANGED call

\* stepper_move_by or stepper_move_to, up to the lock; no steps call back here.
CallDriver ==
  /\ AppRuns("move")
  /\ MoveBy(Distance)
  /\ ctx_state' = IF Distance = 0 THEN "ENABLED" ELSE ctx_state
  /\ pc' = "routine"
  /\ UNCHANGED call

\* The rest of the driver call; stepper_callback if it ends the movement.
CallContinues ==
  /\ StartStep
  /\ ctx_state' = IF api = "signal" /\ LastEdge THEN "ENABLED" ELSE ctx_state
  /\ UNCHANGED <<pc, call>>

\* stepper_callback in the work queue.
StepperCallback ==
  /\ WorkHandler
  /\ ctx_state' = IF Head(msgq) = "completed" THEN "ENABLED" ELSE ctx_state
  /\ UNCHANGED <<pc, call>>

\* handle_homing, after its waits.
SetHome ==
  /\ AppRuns("routine")
  /\ ctx_state # "MOVING"
  /\ SetReference(0)
  /\ UNCHANGED thread

\* handle_setup, which starts with no movement pending.
Configure(enable) ==
  /\ AppRuns("routine")
  /\ ctx_state # "MOVING"
  /\ SetInterval("usable")
  /\ ctx_state' = IF enable THEN "ENABLED" ELSE "DISABLED"
  /\ UNCHANGED <<pc, call>>

CommandThread ==
  \/ \E c \in Calls : MoveSavely(c)
  \/ WaitForMovementToFinish \/ MarkMoving \/ CallDriver \/ CallContinues
  \/ SetHome
  \/ \E enable \in BOOLEAN : Configure(enable)

Interrupts == (Alarm \/ IsrStep) /\ UNCHANGED thread

AxisNext == CommandThread \/ Interrupts \/ StepperCallback

\* As the driver, and the thread goes on with a move_savely it has entered.
AxisFairness ==
  /\ WF_axis(Alarm /\ UNCHANGED thread)
  /\ WF_axis(IsrStep /\ UNCHANGED thread)
  /\ WF_axis(StepperCallback)
  /\ WF_axis(CallContinues)
  /\ WF_axis(WaitForMovementToFinish \/ MarkMoving \/ CallDriver)

AxisSpec == AxisInit /\ [][AxisNext]_axis /\ AxisFairness

-----------------------------------------------------------------------------
(* Properties. *)

\* Once a wait is over the motor really stands: no pulse to come, no event
\* left to arrive late, the position exact.  SETUP, the reference of the
\* homings and the timed laser rely on it.
WaitedMeansStill ==
  ctx_state # "MOVING" =>
    /\ ~counter_en /\ ~InterruptPending
    /\ api = "idle" /\ step_high = 0
    /\ msgq = <<>>
    /\ actual_position = phys

\* MOVING is never left behind by a movement that is over: some step that
\* will reset it is still to come.
MovingMeansPending ==
  ctx_state = "MOVING" => pc = "move" \/ outstanding = 1

\* The event queue never holds two completions, however short the movements.
OneEventQueued == Len(msgq) <= 1

\* No movement stays in progress for ever, one of no steps included.
WaitsEnd == (ctx_state = "MOVING") ~> (ctx_state # "MOVING")

\* The axis keeps MotorContract.  A movement counts from the driver call.
Motor == INSTANCE MotorContract WITH
  Positions <- -MaxPosition..MaxPosition,
  state <- IF pc = "move" THEN "ENABLED" ELSE ctx_state,
  position <- actual_position,
  goal <- goal

ImplementsMotor == Motor!Spec
=============================================================================
