----------------------------- MODULE HallHoming -----------------------------
(***************************************************************************)
(* Hard homing of one axis (handle_homing in src/src/main.c): turn once,   *)
(* let hall_isr file the positions where the magnet's field is entered and *)
(* left, go to the middle and make it the reference.  Pitch and yaw run    *)
(* the same lines, each with its own pin, positions and steps per          *)
(* revolution, and the other one at rest.                                  *)
(*                                                                         *)
(* The sensor pulls its pin low while the rotor stands in the field.  The  *)
(* rotor moves at the rising edge of a step pulse and actual_position is   *)
(* counted at the falling one; hall_isr may run up to Latency steps late,  *)
(* but always before a thread.  magn_pos_hl and magn_pos_lh are filed in   *)
(* every movement, not only in homings.                                    *)
(***************************************************************************)
EXTENDS Integers

CONSTANTS
  Revolution,   \* PITCH_STEPS_PER_REV * current_res
  Field,        \* steps the field of the magnet is wide
  Latency,      \* steps made before hall_isr runs
  Goals,        \* positions the other commands move to
  Modulus,      \* 2^32, the values of uint32_t
  HallsReady    \* what init_halls may come to: a subset of BOOLEAN

ASSUME RevolutionAssumption ==
  /\ Revolution \in Nat /\ Field \in Nat /\ Latency \in Nat
  /\ Latency + 1 < Field /\ Field + Latency < Revolution
ASSUME ModulusAssumption == Modulus \in Nat /\ 4 * Revolution < Modulus

Int32 == -(Modulus \div 2) .. (Modulus \div 2) - 1
ASSUME GoalsAssumption == Goals \subseteq Int32
ASSUME HallsAssumption == HallsReady \subseteq BOOLEAN

VARIABLES
  rotor,     \* angle in steps, the field is at 0..Field-1
  pulse,     \* the step pin
  position,  \* actual_position of the driver
  goal,      \* where the movement in progress ends
  state,     \* stepper_ctx_t.state
  magn_pos_hl, magn_pos_lh,
  halls,     \* init_halls has connected hall_isr
  edge,      \* an edge of the hall pin is not served yet
  late,      \* steps since that edge
  pc         \* "idle", "turn" and "home" in hard homing, "homed" right after

motor == <<rotor, pulse, position, goal, state>>
sensor == <<magn_pos_hl, magn_pos_lh, edge, late>>
vars == <<motor, sensor, halls, pc>>

TypeOK ==
  /\ rotor \in 0..Revolution - 1 /\ pulse \in {0, 1}
  /\ position \in Int32 /\ goal \in Int32
  /\ state \in {"DISABLED", "ENABLED", "MOVING"}
  /\ magn_pos_hl \in Int32 /\ magn_pos_lh \in Int32
  /\ halls \in BOOLEAN /\ edge \in BOOLEAN /\ late \in 0..Latency
  /\ pc \in {"idle", "turn", "home", "homed"}

\* The rotor may have been left anywhere; init_steppers enables the motor.
Init ==
  /\ rotor \in 0..Revolution - 1 /\ pulse = 0 /\ position = 0 /\ goal = 0
  /\ state = "ENABLED"
  /\ magn_pos_hl = 0 /\ magn_pos_lh = 0
  /\ halls \in HallsReady /\ edge = FALSE /\ late = 0
  /\ pc = "idle"

-----------------------------------------------------------------------------
(* The rotor and the sensor. *)

Low(angle) == angle < Field

\* The rotor turns by one step; an edge of the pin raises the interrupt.
Turn(d) ==
  /\ late < Latency \/ ~edge
  /\ rotor' = (rotor + d) % Revolution
  /\ edge' = (edge \/ (halls /\ Low(rotor) # Low((rotor + d) % Revolution)))
  /\ late' = IF edge THEN late + 1 ELSE 0
  /\ UNCHANGED <<magn_pos_hl, magn_pos_lh>>

\* Mutant: the level before the edge is taken for the one after it.
hall_isr_swapped ==
  /\ edge
  /\ edge' = FALSE /\ late' = 0
  /\ magn_pos_hl' = IF Low(rotor) THEN magn_pos_hl ELSE position
  /\ magn_pos_lh' = IF Low(rotor) THEN position ELSE magn_pos_lh
  /\ UNCHANGED <<motor, halls, pc>>

\* The interrupt handler reads the level and the position when it runs, not
\* those of the edge.
hall_isr ==
  /\ edge
  /\ edge' = FALSE /\ late' = 0
  /\ magn_pos_hl' = IF Low(rotor) THEN position ELSE magn_pos_hl
  /\ magn_pos_lh' = IF Low(rotor) THEN magn_pos_lh ELSE position
  /\ UNCHANGED <<motor, halls, pc>>

\* The driver, one edge of the step pin at a time.
Direction == IF goal > position THEN 1 ELSE -1

RisingEdge ==
  /\ state = "MOVING" /\ pulse = 0 /\ position # goal
  /\ pulse' = 1
  /\ Turn(Direction)
  /\ UNCHANGED <<position, goal, state, halls, pc>>

FallingEdge ==
  /\ pulse = 1
  /\ pulse' = 0
  /\ position' = position + Direction
  /\ state' = IF position' = goal THEN "ENABLED" ELSE state
  /\ UNCHANGED <<rotor, goal, sensor, halls, pc>>

\* A disabled motor "can be moved freely" (docu/src/code.md).
TurnByHand(d) ==
  /\ state = "DISABLED" /\ pc \in {"idle", "homed"}
  /\ Turn(d)
  /\ pc' = "idle"
  /\ UNCHANGED <<pulse, position, goal, state, halls>>

-----------------------------------------------------------------------------
(* The command thread. *)

\* A thread runs when no interrupt waits; each of these steps follows a
\* wait_for_movement_to_finish.
ThreadRuns == ~edge /\ state # "MOVING"

\* move_savely_to; no steps are over at once.
MoveTo(target) ==
  IF state = "DISABLED" \/ target = position
  THEN UNCHANGED <<goal, state>>
  ELSE goal' = target /\ state' = "MOVING"

\* Any TARGET or HOMING before.
OtherMovement ==
  /\ ThreadRuns /\ pc \in {"idle", "homed"}
  /\ \E target \in Goals : MoveTo(target)
  /\ pc' = "idle"
  /\ UNCHANGED <<rotor, pulse, position, sensor, halls>>

\* SETUP.
Configure ==
  /\ ThreadRuns /\ pc \in {"idle", "homed"}
  /\ state' \in {"DISABLED", "ENABLED"}
  /\ pc' = "idle"
  /\ UNCHANGED <<rotor, pulse, position, goal, sensor, halls>>

\* Reset of one of the two positions, new reference, one revolution.
BeginHardHoming ==
  /\ ThreadRuns /\ pc \in {"idle", "homed"}
  /\ magn_pos_hl' = 0
  /\ position' = 0
  /\ IF state = "DISABLED" THEN UNCHANGED <<goal, state>>
     ELSE goal' = Revolution /\ state' = "MOVING"
  /\ pc' = "turn"
  /\ UNCHANGED <<rotor, pulse, magn_pos_lh, edge, late, halls>>

\* C's division of an int; half of a uint32_t is an int32_t again.
Half(n) == IF n < 0 THEN -((-n) \div 2) ELSE n \div 2

\* Mutant: the case of a start inside the field is taken for the other one.
HomeGoalSwapped ==
  IF magn_pos_lh < magn_pos_hl
  THEN Half(magn_pos_lh + magn_pos_hl)
  ELSE ((magn_pos_hl + magn_pos_lh + Revolution) % Modulus) \div 2

\* The middle between the edges; started inside the field, the revolution ends
\* in it again and the edge that left it counts one revolution later.  The
\* second sum is unsigned: current_res is an enum of no negative values.
HomeGoal ==
  IF magn_pos_lh > magn_pos_hl
  THEN Half(magn_pos_lh + magn_pos_hl)
  ELSE ((magn_pos_hl + magn_pos_lh + Revolution) % Modulus) \div 2

MoveHome ==
  /\ ThreadRuns /\ pc = "turn"
  /\ MoveTo(HomeGoal)
  /\ pc' = "home"
  /\ UNCHANGED <<rotor, pulse, position, sensor, halls>>

SetHome ==
  /\ ThreadRuns /\ pc = "home"
  /\ position' = 0
  /\ pc' = "homed"
  /\ UNCHANGED <<rotor, pulse, goal, state, sensor, halls>>

Next ==
  \/ hall_isr \/ RisingEdge \/ FallingEdge
  \/ \E d \in {1, -1} : TurnByHand(d)
  \/ OtherMovement \/ Configure
  \/ BeginHardHoming \/ MoveHome \/ SetHome

Spec == Init /\ [][Next]_vars

-----------------------------------------------------------------------------
(* Properties. *)

\* Twice the distance from the middle of the field, the short way round.
OffMiddle(angle) ==
  LET once == 2 * angle - (Field - 1)
  IN IF once > Revolution THEN once - 2 * Revolution ELSE once

\* docu/src/code.md, HARD_HOMING: "After one full revolution, it moves to the
\* middle between these two positions": where the motor started, what the
\* edges of earlier movements left on file and when the handler ran make a
\* difference of the latency at most, and one step for the pulse.  This is with
\* sensors; HomeFound is without.
HomedAtMiddle ==
  halls /\ pc = "homed" /\ state = "ENABLED" =>
    OffMiddle(rotor) \in -2 .. 2 * Latency + 1

\* docu/src/code.md: HARD_HOMING "does not need an external reference. It uses
\* magnets [...] and hall sensors to find a certain hard-manufactured home
\* position": with sensors or without.  Nothing checks that there were edges.
HomeFound ==
  pc = "homed" /\ state = "ENABLED" => OffMiddle(rotor) \in -2 .. 2 * Latency + 1

\* The same of every motor, one that a SETUP has disabled included: move_savely
\* refuses to move it, and handle_homing makes the place where it stands the
\* reference.
HomeFoundByAll ==
  pc = "homed" => OffMiddle(rotor) \in -2 .. 2 * Latency + 1

\* The search takes one revolution and ends inside the field, or without
\* sensors between the two: cables are not wound up, whatever was on file.
HomingStaysClose ==
  pc \in {"turn", "home"} /\ state = "MOVING" =>
    position \in 0 .. Revolution + (Field + Latency) \div 2 - 1
=============================================================================
