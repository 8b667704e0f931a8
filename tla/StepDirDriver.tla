--------------------------- MODULE StepDirDriver ----------------------------
(***************************************************************************)
(* The step/direction driver (src/code_adaptions/step_dir_stepper_common.c)*)
(* of one motor, on its counter.  A thread calls the API; the interrupt    *)
(* handler produces one edge of the step pin per alarm; the end of a       *)
(* movement is an event queued for the system work queue.                  *)
(*                                                                         *)
(* One core: the handler preempts the thread except under the spin lock,   *)
(* and the work queue, which is cooperative, runs before the thread does.  *)
(* A movement is begun in the four stages of move_by and start_stepping,   *)
(* all under the lock; stop is not locked and has two.                     *)
(***************************************************************************)
EXTENDS Integers, Sequences, Esp32Counter

CONSTANTS
  MoveSizes,   \* the distances callers ask for
  MaxPosition, \* bound on the positions callers ask for
  QueueLen     \* CONFIG_STEPPER_STEP_DIR_EVENT_QUEUE_LEN

ASSUME MoveSizesAssumption == MoveSizes \subseteq Int
ASSUME BoundAssumption == MaxPosition \in Nat
ASSUME QueueLenAssumption == QueueLen \in Nat \ {0}

VARIABLES
  step_high, step_count, actual_position, direction, run_mode,
  interval,     \* microstep_interval_ns by what the counter makes of it
  api,          \* stage of the API call in progress, "idle" when none
  msgq,         \* event_msgq
  work_pending, \* event_callback_work is submitted
  phys,         \* history: where the rotor is, in the frame of actual_position
  goal,         \* history: where the last movement asked for ends
  outstanding   \* history: movements whose completion was not called back

motion == <<step_high, step_count, actual_position, direction, run_mode, phys>>
events == <<msgq, work_pending>>
driver == <<counter, motion, interval, api, events, goal, outstanding>>

Directions == {1, -1}
Locked == {"update", "start", "signal"}

\* The ranges of the driver's state; event_msgq never holds two events, so none
\* is lost to a full queue.
DriverTypeOK ==
  /\ CounterTypeOK
  /\ step_high \in {0, 1}
  /\ step_count \in Int
  /\ actual_position \in Int
  /\ direction \in Directions
  /\ run_mode \in {"hold", "position", "velocity"}
  /\ interval \in {"unset", "usable", "unusable"}
  /\ api \in Locked \cup {"idle", "stop"}
  /\ msgq \in Seq({"completed"}) /\ Len(msgq) <= 1
  /\ work_pending \in BOOLEAN
  /\ phys \in Int
  /\ goal \in Int
  /\ outstanding \in Int

DriverInit ==
  /\ CounterInit
  /\ step_high = 0 /\ step_count = 0 /\ actual_position = 0
  /\ direction = 1 /\ run_mode = "hold"
  /\ interval = "unset" /\ api = "idle"
  /\ msgq = <<>> /\ work_pending = FALSE
  /\ phys = 0 /\ goal = 0 /\ outstanding = 0

\* The thread gets the core: no handler, no pending interrupt, no work item.
ThreadRuns == isr = "idle" /\ ~InterruptPending /\ ~work_pending

-----------------------------------------------------------------------------
(* stepper_handle_timing_signal *)

\* update_remaining_steps, after a falling edge.
OneStepLess(n) == IF n > 0 THEN n - 1 ELSE IF n < 0 THEN n + 1 ELSE 0

\* Mutant: both edges of a pulse count as steps.
LastEdgeOfTwo == run_mode = "position" /\ OneStepLess(step_count) = 0

\* Mutant: the run mode is not asked.
LastEdgeAnyMode ==
  (IF step_high = 1 THEN OneStepLess(step_count) ELSE step_count) = 0

\* The signal about to be handled ends the movement.
LastEdge ==
  /\ run_mode = "position"
  /\ (IF step_high = 1 THEN OneStepLess(step_count) ELSE step_count) = 0

\* Toggle the step pin.  The rotor moves at the rising edge, the books at the
\* falling one.
TimingSignal ==
  /\ step_high' = 1 - step_high
  /\ phys' = IF step_high = 0 THEN phys + direction ELSE phys
  /\ actual_position' =
       IF step_high = 1 THEN actual_position + direction ELSE actual_position
  /\ step_count' =
       IF step_high = 1 /\ run_mode = "position" THEN OneStepLess(step_count)
       ELSE step_count
  /\ IF LastEdge THEN CounterStop ELSE UNCHANGED registers
  /\ UNCHANGED <<direction, run_mode>>

\* Mutant: the work item is not submitted.
QueueEventOnly(event) ==
  /\ msgq' = IF Len(msgq) < QueueLen THEN Append(msgq, event) ELSE msgq
  /\ UNCHANGED work_pending

\* stepper_trigger_callback in the handler; a full queue loses the event.
QueueEvent(event) ==
  /\ msgq' = IF Len(msgq) < QueueLen THEN Append(msgq, event) ELSE msgq
  /\ work_pending' = TRUE

\* The top callback of the counter.
TopInterrupt ==
  /\ isr = "callback" /\ isr' = "rearm"
  /\ TimingSignal
  /\ IF LastEdge THEN QueueEvent("completed") ELSE UNCHANGED events
  /\ UNCHANGED <<interval, api, goal, outstanding>>

\* stepper_work_event_handler, calling the user's callback.
WorkHandler ==
  /\ isr = "idle" /\ work_pending
  /\ msgq # <<>>
  /\ msgq' = Tail(msgq)
  /\ work_pending' = (Len(msgq) > 1)
  /\ outstanding' = outstanding - 1
  /\ UNCHANGED <<counter, motion, interval, api, goal>>

-----------------------------------------------------------------------------
(* The API. *)

\* step_dir_stepper_common_move_by of no steps: the callback, then stop.
MoveByZero ==
  /\ ThreadRuns /\ api = "idle"
  /\ interval # "unset"
  /\ goal' = actual_position
  /\ CounterStop
  /\ UNCHANGED <<isr, motion, interval, api, events, outstanding>>

\* Mutant: the steps left of a stopped movement are added.
MoveByMoreSteps(n) ==
  /\ ThreadRuns /\ api = "idle"
  /\ interval # "unset"
  /\ n # 0
  /\ run_mode' = "position"
  /\ step_count' = step_count + n
  /\ direction' = IF n > 0 THEN 1 ELSE -1
  /\ api' = "update"
  /\ goal' = actual_position + n
  /\ outstanding' = outstanding + 1
  /\ UNCHANGED <<counter, step_high, actual_position, phys, interval, events>>

\* Mutant: the distance stands in for its sign.
MoveByDistance(n) ==
  /\ ThreadRuns /\ api = "idle"
  /\ interval # "unset"
  /\ n # 0
  /\ run_mode' = "position"
  /\ step_count' = n
  /\ direction' = n
  /\ api' = "update"
  /\ goal' = actual_position + n
  /\ outstanding' = outstanding + 1
  /\ UNCHANGED <<counter, step_high, actual_position, phys, interval, events>>

\* move_by up to start_stepping.
MoveBySteps(n) ==
  /\ ThreadRuns /\ api = "idle"
  /\ interval # "unset"
  /\ n # 0
  /\ run_mode' = "position"
  /\ step_count' = n
  /\ direction' = IF n > 0 THEN 1 ELSE -1
  /\ api' = "update"
  /\ goal' = actual_position + n
  /\ outstanding' = outstanding + 1
  /\ UNCHANGED <<counter, step_high, actual_position, phys, interval, events>>

MoveBy(n) == IF n = 0 THEN MoveByZero ELSE MoveBySteps(n)

\* move_to reads the position without the lock; no edge can come between, the
\* callers do not move a motor that is moving.
MoveTo(value) == MoveBy(value - actual_position)

\* step_dir_stepper_common_run up to start_stepping.
Run(dir) ==
  /\ ThreadRuns /\ api = "idle"
  /\ interval # "unset"
  /\ run_mode' = "velocity"
  /\ direction' = dir
  /\ api' = "update"
  /\ UNCHANGED <<counter, step_high, step_count, actual_position, phys,
                 interval, events, goal, outstanding>>

\* start_stepping: timing_source->update; an interval the counter cannot
\* count makes the call return an error with nothing started.
StartUpdate ==
  /\ api = "update"
  /\ IF interval = "usable"
     THEN SetTopValue /\ api' = "start" /\ UNCHANGED outstanding
     ELSE /\ api' = "idle"
          /\ outstanding' = IF run_mode = "position" THEN outstanding - 1
                            ELSE outstanding
          /\ UNCHANGED registers
  /\ UNCHANGED <<isr, motion, interval, events, goal>>

StartCounter ==
  /\ api = "start" /\ api' = "signal"
  /\ CounterStart
  /\ UNCHANGED <<isr, motion, interval, events, goal, outstanding>>

\* The first edge; here a last edge would call back from the thread.
FirstSignal ==
  /\ api = "signal" /\ api' = "idle"
  /\ TimingSignal
  /\ outstanding' = IF LastEdge THEN outstanding - 1 ELSE outstanding
  /\ UNCHANGED <<isr, interval, events, goal>>

\* step_dir_stepper_common_stop: the alarm may have fired just before.
StopCounter ==
  /\ isr = "idle" /\ ~work_pending /\ api = "idle"
  /\ api' = "stop"
  /\ CounterStop
  /\ UNCHANGED <<isr, motion, interval, events, goal, outstanding>>

\* Mutant: a pulse that was cut short is not counted.
StopSettleUncounted ==
  /\ ThreadRuns /\ api = "stop" /\ api' = "idle"
  /\ step_high' = 0
  /\ outstanding' = 0
  /\ UNCHANGED <<counter, step_count, actual_position, direction, run_mode, phys,
                 interval, events, goal>>

\* A pulse that was cut short still counts; the movement is forgotten.
StopSettle ==
  /\ ThreadRuns /\ api = "stop" /\ api' = "idle"
  /\ step_high' = 0
  /\ actual_position' =
       IF step_high = 1 THEN actual_position + direction ELSE actual_position
  /\ outstanding' = 0
  /\ UNCHANGED <<counter, step_count, direction, run_mode, phys, interval,
                 events, goal>>

SetReference(value) ==
  /\ ThreadRuns /\ api = "idle"
  /\ actual_position' = value
  /\ phys' = value
  /\ goal' = value
  /\ UNCHANGED <<counter, step_high, step_count, direction, run_mode, interval,
                 api, events, outstanding>>

\* set_microstep_interval: zero and too short ones are refused (no change);
\* what the counter answers to the others is not looked at.
SetInterval(new) ==
  /\ ThreadRuns /\ api = "idle"
  /\ interval' = new
  /\ IF new = "usable" THEN SetTopValue ELSE UNCHANGED registers
  /\ UNCHANGED <<isr, motion, api, events, goal, outstanding>>

-----------------------------------------------------------------------------
(* The hardware and the handlers; the lock keeps the handler out. *)

\* A motor that runs freely (velocity mode, unused here) is bounded.
Alarm ==
  /\ AlarmFires
  /\ run_mode = "velocity" => phys \in -MaxPosition..MaxPosition
  /\ UNCHANGED <<motion, interval, api, events, goal, outstanding>>

IsrStep ==
  /\ api \notin Locked
  /\ \/ (IsrEnter \/ IsrRearm \/ IsrReturn)
        /\ UNCHANGED <<motion, interval, api, events, goal, outstanding>>
     \/ TopInterrupt

StartStep == StartUpdate \/ StartCounter \/ FirstSignal

\* Fairness of what no caller decides: hardware, interrupts, the work queue,
\* and a call that has taken the lock.
DriverFairness ==
  /\ WF_driver(Alarm)
  /\ WF_driver(IsrStep)
  /\ WF_driver(WorkHandler)
  /\ WF_driver(StartStep)

-----------------------------------------------------------------------------
(* A caller that keeps the rule of stepper.h: one movement at a time, the
   reference set when the motor stands. *)

Standing == ~counter_en

CallerMoves ==
  /\ Standing
  /\ \/ \E n \in MoveSizes :
          actual_position + n \in -MaxPosition..MaxPosition /\ MoveBy(n)
     \/ \E value \in MoveSizes : MoveTo(value)
     \/ phys \in -MaxPosition..MaxPosition /\ \E dir \in Directions : Run(dir)

CallerConfigures ==
  \/ \E new \in {"usable", "unusable"} : SetInterval(new)
  \/ Standing /\ \E value \in MoveSizes : SetReference(value)

Stop == StopCounter \/ StopSettle

Next ==
  \/ Alarm \/ IsrStep \/ WorkHandler \/ StartStep
  \/ CallerMoves \/ CallerConfigures \/ Stop

Spec == DriverInit /\ [][Next]_driver
FairSpec == Spec /\ DriverFairness /\ WF_driver(StopSettle)

-----------------------------------------------------------------------------
(* Properties. *)

\* The books differ from the rotor by at most the pulse in progress, and in
\* its direction; no path loses or invents a step.
PositionIsTrue == actual_position + step_high * direction = phys

\* A motor that stands has its step pin low: the next movement begins with a
\* rising edge, whatever ended the last one (completion, stop, an error).
PinLowAtRest ==
  ~counter_en /\ api \notin {"stop"} /\ isr \in {"idle", "rearm", "return"}
    => step_high = 0

\* A movement in progress is still headed for the position it was asked for,
\* and when its completion is queued to be called back it is there.
GoalKept ==
  /\ run_mode = "position" /\ outstanding > 0
       => actual_position + step_count = goal
  /\ msgq # <<>> => actual_position = goal

\* Each movement is called back once: nothing lost to the queue, nothing twice.
CompletionsExact ==
  api # "stop" =>
    outstanding = Len(msgq)
                  + (IF run_mode = "position" /\ (counter_en \/ api \in Locked)
                     THEN 1 ELSE 0)

\* A movement begun is eventually called back or stopped.
MovementsEnd == (outstanding > 0) ~> (outstanding = 0)
=============================================================================
