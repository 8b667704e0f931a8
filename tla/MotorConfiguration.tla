------------------------- MODULE MotorConfiguration -------------------------
(***************************************************************************)
(* What the motors are set to and what the feedback says of it:            *)
(* init_steppers and handle_setup in src/src/main.c, on the driver chip of *)
(* code_adaptions/tmc22xx.c.  The two microstep pins are shared by the     *)
(* three chips (app.overlay); enable pins and intervals are their own.     *)
(***************************************************************************)
EXTENDS Integers

CONSTANTS
  ReadyDevices,  \* which drivers device_is_ready may find at start-up
  Resolutions,   \* the resolution field of SETUP commands
  Frequencies,   \* their frequency_goals
  Goals,         \* the step_goals of TARGET commands, for every motor
  HandTurns,     \* how far a disabled motor is turned by hand, as away below
  MaxError       \* bound on what such turns and new resolutions add up to

PITCH_IDX == 0
SLIDE_IDX == 2
Motors == PITCH_IDX..SLIDE_IDX

ASSUME ReadyAssumption == ReadyDevices \subseteq SUBSET Motors
ASSUME SetupAssumption == Resolutions \subseteq Nat /\ Frequencies \subseteq Nat
ASSUME ConfigurationGoals == Goals \subseteq Int /\ HandTurns \subseteq Int
ASSUME ErrorAssumption == MaxError \in Nat

VARIABLES
  pc,        \* the routine at work, "ready" when there is none
  idx,       \* the motor it is at
  goal,      \* of the TARGET or HOMING at work
  ctx_state, \* stepper_ctx_t.state
  callback,  \* the driver knows stepper_callback
  enabled,   \* logical level of the enable pin
  ms,        \* MS1 and MS2
  res,       \* resolution in the driver's data
  rate,      \* steps per second its interval gives, 0: it cannot move
  position,  \* actual_position
  step_count,\* steps left of a movement
  away,      \* true distance from the reference, in 64ths of a full step
  current_res, current_frequencies

chips == <<callback, enabled, ms, res, rate>>
globals == <<current_res, current_frequencies>>
travel == <<position, step_count, away>>
vars == <<pc, idx, goal, ctx_state, chips, travel, globals>>

-----------------------------------------------------------------------------
(* The driver chip. *)

MsxResolutions == <<8, 32, 64, 16>>   \* indexed from 1 here, from 0 in C

\* The TMC2209 reads MS2 and MS1 as a number.
MicrostepsOf(pins) == MsxResolutions[2 * pins[2] + pins[1] + 1]

\* Mutant: the two pins are swapped.
PinsForSwapped(r) ==
  LET i == CHOOSE i \in 0..3 : MsxResolutions[i + 1] = r
  IN <<i \div 2, i % 2>>

PinsFor(r) ==
  LET i == CHOOSE i \in 0..3 : MsxResolutions[i + 1] = r
  IN <<i % 2, i \div 2>>

\* 1000000000.0 / 0 is no uint64_t: the driver gets an interval it refuses,
\* and keeps the old one, or one in which nothing moves.
RatesFor(m, f) == IF f = 0 THEN {rate[m], 0} ELSE {f}

-----------------------------------------------------------------------------
(* Start-up: init_steppers gives up at the first driver that is not ready. *)

Init ==
  /\ pc = "ready" /\ idx = PITCH_IDX /\ goal = 0
  /\ current_res = 16 /\ current_frequencies = [m \in Motors |-> 100]
  /\ \E ready \in ReadyDevices :
       LET Reached(m) == PITCH_IDX..m \subseteq ready IN
       /\ callback = [m \in Motors |-> Reached(m)]
       /\ ctx_state = [m \in Motors |->
                         IF Reached(m) THEN "ENABLED" ELSE "DISABLED"]
       /\ rate = [m \in Motors |-> IF Reached(m) THEN 100 ELSE 0]
       \* a pin made an output keeps whatever level it had
       /\ enabled \in [Motors -> BOOLEAN]
       /\ \A m \in Motors : Reached(m) => enabled[m]
       /\ ms \in IF ready = {} THEN {0, 1} \X {0, 1} ELSE {PinsFor(16)}
  /\ res = [m \in Motors |-> 16]
  /\ position = [m \in Motors |-> 0] /\ step_count = position /\ away = position

-----------------------------------------------------------------------------
(* The routines; one step per motor. *)

Resolution(r) == IF r \in {8, 16, 32, 64} THEN r ELSE 16

\* How far the steps, scaled by the resolution of the feedback, are from the
\* truth.
Error(m) == away[m] - position[m] * (64 \div current_res)

\* The other fields of the message are read motor by motor.
BeginSetup ==
  /\ pc = "ready"
  /\ \A m \in Motors : Error(m) \in -MaxError..MaxError
  /\ \E r \in Resolutions : current_res' = Resolution(r)
  /\ pc' = "setup" /\ idx' = PITCH_IDX
  /\ UNCHANGED <<goal, ctx_state, chips, travel, current_frequencies>>

NextMotor(done) ==
  IF idx < SLIDE_IDX THEN idx' = idx + 1 /\ pc' = pc
  ELSE idx' = PITCH_IDX /\ pc' = done

SetUpMotor ==
  /\ pc = "setup"
  /\ \E f \in Frequencies, on \in BOOLEAN :
     /\ ms' = PinsFor(current_res)
     /\ res' = [res EXCEPT ![idx] = current_res]
     /\ current_frequencies' = [current_frequencies EXCEPT ![idx] = f]
     /\ \E r \in RatesFor(idx, f) : rate' = [rate EXCEPT ![idx] = r]
     /\ enabled' = [enabled EXCEPT ![idx] = on]
     /\ ctx_state' = [ctx_state EXCEPT ![idx] =
                        IF on THEN "ENABLED" ELSE "DISABLED"]
  /\ NextMotor("ready")
  /\ UNCHANGED <<goal, callback, travel, current_res>>

\* TARGET and HOMING: the same goals for all motors are enough here.
BeginMove ==
  /\ pc = "ready"
  /\ goal' \in Goals \cup {0}
  /\ pc' = "move" /\ idx' = PITCH_IDX
  /\ UNCHANGED <<ctx_state, chips, travel, globals>>

\* move_savely_to; the answer of stepper_move_to is not looked at.
MoveSavelyTo ==
  /\ pc = "move"
  /\ IF ctx_state[idx] = "DISABLED" THEN UNCHANGED <<ctx_state, step_count>>
     ELSE /\ ctx_state' = [ctx_state EXCEPT ![idx] = "MOVING"]
          /\ step_count' = [step_count EXCEPT ![idx] = goal - position[idx]]
  /\ NextMotor("wait")
  /\ UNCHANGED <<goal, chips, position, away, globals>>

\* The movement comes to its end and the driver calls back, if it can; one of
\* no steps needs no interval in which the motor moves.
Complete(m) ==
  /\ ctx_state[m] = "MOVING"
  /\ rate[m] > 0 \/ step_count[m] = 0
  /\ position' = [position EXCEPT ![m] = @ + step_count[m]]
  /\ step_count' = [step_count EXCEPT ![m] = 0]
  /\ away' = [away EXCEPT ![m] =
                @ + step_count[m] * (64 \div MicrostepsOf(ms))]
  /\ callback[m] \/ step_count[m] # 0
  /\ ctx_state' = IF callback[m] THEN [ctx_state EXCEPT ![m] = "ENABLED"]
                  ELSE ctx_state
  /\ UNCHANGED <<pc, idx, goal, chips, globals>>

\* Mutant: the routine does not wait for the slide.
WaitForTwo ==
  /\ pc = "wait"
  /\ pc' = IF \A m \in Motors \ {SLIDE_IDX} : ctx_state[m] # "MOVING"
           THEN "ready" ELSE pc
  /\ UNCHANGED <<idx, goal, ctx_state, chips, travel, globals>>

\* Polled every 10 ms.
WaitForAll ==
  /\ pc = "wait"
  /\ pc' = IF \A m \in Motors : ctx_state[m] # "MOVING" THEN "ready" ELSE pc
  /\ UNCHANGED <<idx, goal, ctx_state, chips, travel, globals>>

SoftHoming ==
  /\ pc = "ready"
  /\ position' = [m \in Motors |-> 0]
  /\ away' = [m \in Motors |-> 0]
  /\ UNCHANGED <<pc, idx, goal, ctx_state, chips, step_count, globals>>

\* docu/src/code.md: a disabled motor "can be moved freely".
TurnByHand(m) ==
  /\ ~enabled[m]
  /\ \E h \in HandTurns : away' = [away EXCEPT ![m] = @ + h]
  /\ UNCHANGED <<pc, idx, goal, ctx_state, chips, position, step_count, globals>>
  /\ Error(m)' \in -MaxError..MaxError

CommandThread == SetUpMotor \/ MoveSavelyTo \/ WaitForAll
Next ==
  \/ BeginSetup \/ BeginMove \/ SoftHoming
  \/ CommandThread
  \/ \E m \in Motors : Complete(m) \/ TurnByHand(m)

Spec == Init /\ [][Next]_vars
\* The thread runs and motors turn; a master owes no command.
FairSpec ==
  Spec /\ WF_vars(CommandThread) /\ \A m \in Motors : WF_vars(Complete(m))

-----------------------------------------------------------------------------
(* Properties. *)

TypeOK ==
  /\ pc \in {"ready", "setup", "move", "wait"} /\ idx \in Motors /\ goal \in Int
  /\ ctx_state \in [Motors -> {"DISABLED", "ENABLED", "MOVING"}]
  /\ callback \in [Motors -> BOOLEAN] /\ enabled \in [Motors -> BOOLEAN]
  /\ ms \in {0, 1} \X {0, 1}
  /\ res \in [Motors -> {8, 16, 32, 64}] /\ current_res \in {8, 16, 32, 64}
  /\ rate \in [Motors -> Nat] /\ current_frequencies \in [Motors -> Nat]
  /\ {position, step_count} \subseteq [Motors -> Int] /\ away \in [Motors -> Int]

\* docu/src/tops_mes.md: frequencies, en_motors and resolution of a feedback
\* "can be used to ensure the proper configuration": at READY they are what
\* pins and intervals are set to, of every motor init_steppers has reached.
\* A frequency of 0 breaks it.
FeedbackIsTrue ==
  pc = "ready" => \A m \in Motors : callback[m] =>
    /\ MicrostepsOf(ms) = current_res /\ res[m] = current_res
    /\ current_frequencies[m] = rate[m]
    /\ enabled[m] <=> ctx_state[m] # "DISABLED"

\* The shared microstep pins do not change under a motor that moves: the rest
\* of its steps would have another length.
MicrostepsAtRest ==
  [][ms' # ms => \A m \in Motors : ctx_state[m] # "MOVING"]_vars

\* A movement takes a motor as far as its steps, scaled by the resolution of
\* the feedback, say: neither a new resolution nor the pins of another motor
\* reach into it.  So an error has other causes.
MovesAreDegrees ==
  [][\A m \in Motors :
       ctx_state[m] = "MOVING" /\ position'[m] # position[m]
         => Error(m)' = Error(m)]_vars

\* docu/src/code.md: "Use the resolution provided in the Feedback [...] to
\* calculate the correct absolute step goals accordingly": at READY the steps
\* of the feedback, scaled by its resolution, are the true distance from the
\* reference.  A resolution changed elsewhere than there leaves the steps
\* already counted as they are: then position 0 is another place.
StepsAreDegrees == pc = "ready" => \A m \in Motors : Error(m) = 0

\* stepper_ctx_t.state, main.c: "reset in stepper callback": a motor marked
\* MOVING is released.  One that cannot move, or has no callback, is not, and
\* stops the command thread.
MovingIsReset ==
  \A m \in Motors : ctx_state[m] = "MOVING" ~> ctx_state[m] # "MOVING"
=============================================================================
