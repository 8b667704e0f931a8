---------------------- MODULE MotorConfigurationProofs ----------------------
(***************************************************************************)
(* Proved of MotorConfiguration for all resolutions, frequencies, goals    *)
(* and drivers found: the shared microstep pins change at rest only and    *)
(* every movement is as long as its steps say; and, as long as no          *)
(* frequency is 0, the feedback is true at READY.                          *)
(***************************************************************************)
EXTENDS MotorConfiguration, TLAPS

ValidResolutions == {8, 16, 32, 64}

Ranges ==
  /\ pc \in {"ready", "setup", "move", "wait"} /\ idx \in Motors
  /\ current_res \in ValidResolutions
  /\ ctx_state \in [Motors -> {"DISABLED", "ENABLED", "MOVING"}]
  /\ DOMAIN enabled = Motors /\ DOMAIN res = Motors
  /\ DOMAIN rate = Motors /\ DOMAIN current_frequencies = Motors

\* Enable pin and interval follow the feedback motor by motor at any time; what
\* INTV_FROM_FREQ makes of a frequency of 0 may leave the old interval.
OwnPins ==
  \A m \in Motors : callback[m] =>
    /\ 0 \notin Frequencies => current_frequencies[m] = rate[m]
    /\ enabled[m] <=> ctx_state[m] # "DISABLED"

\* A SETUP has reached motor idx; the first motor sets the shared pins.
SharedPins ==
  /\ pc = "setup" =>
       /\ \A m \in PITCH_IDX..idx - 1 : res[m] = current_res
       /\ idx > PITCH_IDX => ms = PinsFor(current_res)
  /\ pc # "setup" => \A m \in Motors : callback[m] =>
       res[m] = current_res /\ ms = PinsFor(current_res)

Still == pc \in {"ready", "setup"} => \A m \in Motors : ctx_state[m] # "MOVING"

IInv == Ranges /\ OwnPins /\ SharedPins /\ Still

\* Two levels select each valid resolution.
LEMMA PinsTyped == ASSUME NEW r \in ValidResolutions PROVE PinsFor(r) \in {0, 1} \X {0, 1}
<1> DEFINE i == CHOOSE i \in 0..3 : MsxResolutions[i + 1] = r
<1>1. \E j \in 0..3 : MsxResolutions[j + 1] = r
  <2>1. /\ MsxResolutions[0 + 1] = 8 /\ MsxResolutions[1 + 1] = 32
        /\ MsxResolutions[2 + 1] = 64 /\ MsxResolutions[3 + 1] = 16
    BY DEF MsxResolutions
  <2> QED
    BY <2>1 DEF ValidResolutions
<1>2. i \in 0..3
  BY <1>1
<1>3. PinsFor(r) = <<i % 2, i \div 2>>
  BY DEF PinsFor
<1> HIDE DEF i
<1>4. i % 2 \in {0, 1} /\ i \div 2 \in {0, 1}
  BY <1>2
<1> QED
  BY <1>3, <1>4

\* The pins of a valid resolution select it.
LEMMA PinsSelect == ASSUME NEW r \in ValidResolutions PROVE MicrostepsOf(PinsFor(r)) = r
<1> DEFINE i == CHOOSE i \in 0..3 : MsxResolutions[i + 1] = r
<1>1. \E j \in 0..3 : MsxResolutions[j + 1] = r
  <2>1. /\ MsxResolutions[0 + 1] = 8 /\ MsxResolutions[1 + 1] = 32
        /\ MsxResolutions[2 + 1] = 64 /\ MsxResolutions[3 + 1] = 16
    BY DEF MsxResolutions
  <2> QED
    BY <2>1 DEF ValidResolutions
<1>2. i \in 0..3 /\ MsxResolutions[i + 1] = r
  BY <1>1
<1>3. PinsFor(r) = <<i % 2, i \div 2>>
  BY DEF PinsFor
<1> HIDE DEF i
<1>4. 2 * (i \div 2) + (i % 2) = i
  BY <1>2
<1>5. PinsFor(r)[1] = i % 2 /\ PinsFor(r)[2] = i \div 2
  BY <1>3
<1> QED
  BY <1>2, <1>4, <1>5 DEF MicrostepsOf

LEMMA Sixteen == Resolution(16) = 16 /\ \A r : Resolution(r) \in ValidResolutions
  BY DEF Resolution, ValidResolutions

LEMMA Starts == Init => IInv
<1> SUFFICES ASSUME Init PROVE IInv
  OBVIOUS
<1> DEFINE Reached(ready, m) == PITCH_IDX..m \subseteq ready
<1>1. PICK ready \in ReadyDevices :
        /\ callback = [m \in Motors |-> Reached(ready, m)]
        /\ ctx_state = [m \in Motors |->
                          IF Reached(ready, m) THEN "ENABLED" ELSE "DISABLED"]
        /\ rate = [m \in Motors |-> IF Reached(ready, m) THEN 100 ELSE 0]
        /\ enabled \in [Motors -> BOOLEAN]
        /\ \A m \in Motors : Reached(ready, m) => enabled[m]
        /\ ms \in IF ready = {} THEN {0, 1} \X {0, 1} ELSE {PinsFor(16)}
  BY Zenon DEF Init
<1>2. \A m \in Motors : callback[m] => ms = PinsFor(16)
  <2> SUFFICES ASSUME NEW m \in Motors, callback[m] PROVE ms = PinsFor(16)
    OBVIOUS
  <2>1. Reached(ready, m)
    BY <1>1
  <2>2. PITCH_IDX \in PITCH_IDX..m
    BY DEF Motors, PITCH_IDX, SLIDE_IDX
  <2> QED
    BY <1>1, <2>1, <2>2
<1>3. Ranges
  BY <1>1 DEF Init, Ranges, ValidResolutions, Motors, PITCH_IDX, SLIDE_IDX
<1>4. OwnPins
  BY <1>1 DEF Init, OwnPins
<1>5. SharedPins
  BY <1>2 DEF Init, SharedPins
<1>6. Still
  BY <1>1 DEF Still
<1> QED
  BY <1>3, <1>4, <1>5, <1>6 DEF IInv

LEMMA Goes == IInv /\ [Next]_vars => IInv'
<1> SUFFICES ASSUME IInv, [Next]_vars PROVE IInv'
  OBVIOUS
<1> USE DEF IInv, Ranges, OwnPins, SharedPins, Still, chips, travel, globals
<1>1. CASE BeginSetup
  BY <1>1, Sixteen DEF BeginSetup, Motors, PITCH_IDX, SLIDE_IDX
<1>2. CASE SetUpMotor
  BY <1>2 DEF SetUpMotor, NextMotor, RatesFor, Motors, PITCH_IDX, SLIDE_IDX
<1>3. CASE BeginMove
  BY <1>3 DEF BeginMove, Motors, PITCH_IDX, SLIDE_IDX
<1>4. CASE MoveSavelyTo
  BY <1>4 DEF MoveSavelyTo, NextMotor, Motors, PITCH_IDX, SLIDE_IDX
<1>5. CASE WaitForAll
  BY <1>5 DEF WaitForAll
<1>6. CASE SoftHoming
  BY <1>6 DEF SoftHoming
<1>7. ASSUME NEW m \in Motors, Complete(m) PROVE IInv'
  BY <1>7 DEF Complete
<1>8. ASSUME NEW m \in Motors, TurnByHand(m) PROVE IInv'
  BY <1>8 DEF TurnByHand
<1>9. CASE UNCHANGED vars
  BY <1>9 DEF vars
<1> QED
  BY <1>1, <1>2, <1>3, <1>4, <1>5, <1>6, <1>7, <1>8, <1>9
     DEF Next, CommandThread

\* Every behaviour keeps the invariant.
LEMMA Keeps == Spec => []IInv
  BY Starts, Goes, PTL DEF Spec

\* If no SETUP has a frequency of 0, the feedback at READY is what pins and
\* intervals are set to, whatever else the messages hold.
THEOREM FeedbackTrue == 0 \notin Frequencies => (Spec => []FeedbackIsTrue)
<1> SUFFICES ASSUME 0 \notin Frequencies PROVE Spec => []FeedbackIsTrue
  OBVIOUS
<1>1. IInv => FeedbackIsTrue
  BY PinsSelect DEF IInv, Ranges, OwnPins, SharedPins, FeedbackIsTrue
<1> QED
  BY <1>1, Keeps, PTL

\* The shared microstep pins do not change under a motor that moves.
THEOREM PinsChangeAtRest == Spec => MicrostepsAtRest
<1>1. IInv /\ [Next]_vars =>
        [ms' # ms => \A m \in Motors : ctx_state[m] # "MOVING"]_vars
  <2> SUFFICES ASSUME IInv, [Next]_vars, ms' # ms
               PROVE  \A m \in Motors : ctx_state[m] # "MOVING"
    OBVIOUS
  <2>1. SetUpMotor
    BY DEF Next, CommandThread, BeginSetup, BeginMove, MoveSavelyTo, WaitForAll,
           SoftHoming, Complete, TurnByHand, chips, vars
  <2> QED
    BY <2>1 DEF SetUpMotor, IInv, Still
<1> QED
  BY <1>1, Keeps, PTL DEF Spec, MicrostepsAtRest

-----------------------------------------------------------------------------
(* Steps and degrees. *)

\* 64ths of a full step in a microstep.
LEMMA StepLength ==
  ASSUME NEW r \in ValidResolutions
  PROVE  /\ 64 \div r \in Int
         /\ \A x, y \in Int : x * (64 \div r) + y * (64 \div r)
                              = (x + y) * (64 \div r)
  BY DEF ValidResolutions

\* Outside a SETUP a motor that may move has the pins of the feedback, one
\* init_steppers has not reached too: only a SETUP enables it.
PinsAreOurs ==
  pc # "setup" => \A m \in Motors :
    ctx_state[m] # "DISABLED" => ms = PinsFor(current_res)

LEMMA OurPinsStart == Init => PinsAreOurs
<1> SUFFICES ASSUME Init PROVE PinsAreOurs
  OBVIOUS
<1>1. \A m \in Motors : ctx_state[m] # "DISABLED" => callback[m]
  BY DEF Init
<1>2. \A m \in Motors : callback[m] => ms = PinsFor(current_res)
  BY Starts DEF IInv, SharedPins, Init
<1> QED
  BY <1>1, <1>2 DEF PinsAreOurs

LEMMA OurPinsStay == IInv /\ PinsAreOurs /\ [Next]_vars => PinsAreOurs'
<1> SUFFICES ASSUME IInv, PinsAreOurs, [Next]_vars PROVE PinsAreOurs'
  OBVIOUS
<1> USE DEF PinsAreOurs, chips, travel, globals
<1>1. CASE BeginSetup
  BY <1>1 DEF BeginSetup
<1>2. CASE SetUpMotor
  BY <1>2 DEF SetUpMotor
<1>3. CASE BeginMove
  BY <1>3 DEF BeginMove
<1>4. CASE MoveSavelyTo
  BY <1>4 DEF MoveSavelyTo, NextMotor, IInv, Ranges
<1>5. CASE WaitForAll
  BY <1>5 DEF WaitForAll
<1>6. CASE SoftHoming
  BY <1>6 DEF SoftHoming
<1>7. ASSUME NEW m \in Motors, Complete(m) PROVE PinsAreOurs'
  BY <1>7 DEF Complete, IInv, Ranges
<1>8. ASSUME NEW m \in Motors, TurnByHand(m) PROVE PinsAreOurs'
  BY <1>8 DEF TurnByHand
<1>9. CASE UNCHANGED vars
  BY <1>9 DEF vars
<1> QED
  BY <1>1, <1>2, <1>3, <1>4, <1>5, <1>6, <1>7, <1>8, <1>9
     DEF Next, CommandThread

\* handle_setup, move_savely_to and init_steppers keep the types of what the
\* chips and the feedback hold, whatever fields the messages have.
THEOREM TypeCorrect == Spec => []TypeOK
<1>1. Init => TypeOK
  <2> SUFFICES ASSUME Init PROVE TypeOK
    OBVIOUS
  <2>1. PinsFor(16) \in {0, 1} \X {0, 1}
    BY PinsTyped, Sixteen
  <2> QED
    BY <2>1 DEF Init, TypeOK, Motors, PITCH_IDX, SLIDE_IDX
<1>2. IInv /\ TypeOK /\ [Next]_vars => TypeOK'
  <2> SUFFICES ASSUME IInv, TypeOK, [Next]_vars PROVE TypeOK'
    OBVIOUS
  <2> USE SetupAssumption, ConfigurationGoals DEF TypeOK, chips, travel, globals
  <2>1. CASE BeginSetup
    BY <2>1, Sixteen DEF BeginSetup, Motors, PITCH_IDX, SLIDE_IDX, ValidResolutions
  <2>2. CASE SetUpMotor
    <3>1. PinsFor(current_res) \in {0, 1} \X {0, 1}
      BY PinsTyped DEF ValidResolutions
    <3> QED
      BY <2>2, <3>1 DEF SetUpMotor, NextMotor, RatesFor, Motors, PITCH_IDX, SLIDE_IDX
  <2>3. CASE BeginMove
    BY <2>3 DEF BeginMove, Motors, PITCH_IDX, SLIDE_IDX
  <2>4. CASE MoveSavelyTo
    BY <2>4 DEF MoveSavelyTo, NextMotor, Motors, PITCH_IDX, SLIDE_IDX
  <2>5. CASE WaitForAll
    BY <2>5 DEF WaitForAll
  <2>6. CASE SoftHoming
    BY <2>6 DEF SoftHoming
  <2>7. ASSUME NEW m \in Motors, Complete(m) PROVE TypeOK'
    <3>1. MicrostepsOf(ms) \in ValidResolutions
      <4>1. ms[1] \in {0, 1} /\ ms[2] \in {0, 1}
        OBVIOUS
      <4>2. 2 * ms[2] + ms[1] + 1 \in 1..4
        BY <4>1
      <4> QED
        BY <4>2 DEF MicrostepsOf, MsxResolutions, ValidResolutions
    <3> DEFINE length == 64 \div MicrostepsOf(ms)
    <3>2. length \in Int
      BY <3>1 DEF ValidResolutions
    <3>3. /\ position' = [position EXCEPT ![m] = @ + step_count[m]]
          /\ step_count' = [step_count EXCEPT ![m] = 0]
          /\ away' = [away EXCEPT ![m] = @ + step_count[m] * length]
          /\ ctx_state' \in [Motors -> {"DISABLED", "ENABLED", "MOVING"}]
          /\ UNCHANGED <<pc, idx, goal, chips, globals>>
      BY <2>7 DEF Complete
    <3> HIDE DEF length
    <3>4. step_count[m] * length \in Int
      BY <3>2
    <3> QED
      BY <3>3, <3>4
  <2>8. ASSUME NEW m \in Motors, TurnByHand(m) PROVE TypeOK'
    BY <2>8 DEF TurnByHand
  <2>9. CASE UNCHANGED vars
    BY <2>9 DEF vars
  <2> QED
    BY <2>1, <2>2, <2>3, <2>4, <2>5, <2>6, <2>7, <2>8, <2>9
       DEF Next, CommandThread
<1> QED
  BY <1>1, <1>2, Keeps, PTL DEF Spec

\* Every movement is as long as its steps say at the resolution of the feedback,
\* for every master and with motors turned by hand.
THEOREM MovesScale == Spec => MovesAreDegrees
<1> DEFINE Faithful(m) ==
      ctx_state[m] = "MOVING" /\ position'[m] # position[m]
        => Error(m)' = Error(m)
<1>1. IInv /\ PinsAreOurs /\ TypeOK /\ [Next]_vars
        => [\A m \in Motors : Faithful(m)]_vars
  <2> SUFFICES ASSUME IInv, PinsAreOurs, TypeOK, [Next]_vars,
                      NEW m \in Motors, ctx_state[m] = "MOVING",
                      position'[m] # position[m]
               PROVE  Error(m)' = Error(m)
    OBVIOUS
  <2>1. pc # "ready"
    BY DEF IInv, Still
  <2>2. PICK n \in Motors : Complete(n)
    BY <2>1 DEF Next, CommandThread, BeginSetup, BeginMove, SetUpMotor,
       MoveSavelyTo, WaitForAll, SoftHoming, TurnByHand, travel, vars
  <2>3. n = m
    BY <2>2 DEF Complete, TypeOK
  <2>4. MicrostepsOf(ms) = current_res /\ current_res \in ValidResolutions
    BY PinsSelect DEF IInv, Still, Ranges, PinsAreOurs
  <2>5. /\ position'[m] = position[m] + step_count[m]
        /\ away'[m] = away[m] + step_count[m] * (64 \div current_res)
        /\ current_res' = current_res
    BY <2>2, <2>3, <2>4 DEF Complete, TypeOK, globals
  <2>6. /\ position[m] \in Int /\ step_count[m] \in Int /\ away[m] \in Int
    BY DEF TypeOK
  <2> DEFINE length == 64 \div current_res
  <2>7. /\ length \in Int
        /\ position[m] * length + step_count[m] * length
             = (position[m] + step_count[m]) * length
    BY <2>4, <2>6, StepLength
  <2>8. Error(m) = away[m] - position[m] * length
    BY DEF Error
  <2>9. Error(m)' = away'[m] - (position[m] + step_count[m]) * length
    BY <2>5 DEF Error
  <2>10. away'[m] = away[m] + step_count[m] * length
    BY <2>5
  <2> HIDE DEF length
  <2>11. position[m] * length \in Int /\ step_count[m] * length \in Int
    BY <2>6, <2>7
  <2> QED
    BY <2>6, <2>7, <2>8, <2>9, <2>10, <2>11
<1>2. MovesAreDegrees <=> [][\A m \in Motors : Faithful(m)]_vars
  BY DEF MovesAreDegrees
<1> HIDE DEF Faithful
<1> QED
  BY <1>1, <1>2, Keeps, TypeCorrect, OurPinsStart, OurPinsStay, PTL DEF Spec
=============================================================================
