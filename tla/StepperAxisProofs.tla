------------------------- MODULE StepperAxisProofs --------------------------
(***************************************************************************)
(* One motor as main.c uses it, proved for all distances and positions: a  *)
(* wait ends with a motor that stands, MOVING is always reset by somebody, *)
(* and each step is one of MotorContract or none.                          *)
(***************************************************************************)
EXTENDS StepperAxis, StepDirDriverProofs

\* main.c uses positioning with valid intervals only and never stops.
Used == interval = "usable" /\ run_mode # "velocity" /\ api # "stop"

\* Out of a movement nothing of the last one is left.
Waited ==
  ctx_state # "MOVING" \/ pc = "move" =>
    /\ ~Active /\ isr = "idle" /\ ~work_pending /\ outstanding = 0
    /\ goal = actual_position

Pending == ctx_state = "MOVING" /\ pc # "move" => outstanding = 1

\* A completion is queued at the goal.
Arrived == work_pending => goal = actual_position

\* What a move_savely has found holds until it calls the driver.
Entered ==
  /\ pc = "mark" => ctx_state # "MOVING"
  /\ pc = "move" => ctx_state = "MOVING"
  /\ pc # "routine" => ctx_state # "DISABLED"
  /\ pc # "routine" /\ call.kind = "by" =>
       goal + call.steps \in -MaxPosition..MaxPosition

AxisInv ==
  /\ IInv /\ AxisTypeOK
  /\ Used /\ Waited /\ Pending /\ Arrived /\ Entered

-----------------------------------------------------------------------------
LEMMA AxisStarts == AxisInit => AxisInv
<1> SUFFICES ASSUME AxisInit PROVE AxisInv
  OBVIOUS
<1> USE DEF AxisInit
<1>1. CounterTypeOK
  BY Zenon DEF CounterTypeOK
<1>2. msgq \in Seq({"completed"}) /\ work_pending \in BOOLEAN
  BY OneEvent
<1>3. DriverTypeOK
  BY <1>1, <1>2 DEF DriverTypeOK, Directions
<1>4. Registers /\ Lock /\ SignalsCount /\ StepsLeft /\ Queue
  BY DEF Registers, Lock, SignalsCount, StepsLeft, Queue, Active, Ticking, Locked
<1>5. NoDeadTimer /\ PinLowAtRest /\ GoalKept /\ Books /\ Ledger
  BY DEF NoDeadTimer, PinLowAtRest, GoalKept, Books, Ledger, Locked
<1>6. AxisTypeOK
  BY <1>3 DEF AxisTypeOK
<1>7. Used /\ Waited /\ Pending /\ Arrived /\ Entered
  BY DEF Used, Waited, Pending, Arrived, Entered, Active, Ticking, Locked
<1> QED
  BY <1>3, <1>4, <1>5, <1>6, <1>7 DEF AxisInv, IInv

LEMMA DistanceIsInt == AxisInv => Distance \in Int
<1> SUFFICES ASSUME AxisInv PROVE Distance \in Int
  OBVIOUS
<1>1. call.steps \in Int
  BY MoveSizesAssumption DEF AxisInv, AxisTypeOK, Calls
<1>2. actual_position \in Int
  BY DEF AxisInv, AxisTypeOK, DriverTypeOK
<1> QED
  BY <1>1, <1>2 DEF Distance

LEMMA MoveSavelyKeeps ==
  ASSUME AxisInv, NEW c \in Calls, MoveSavely(c) PROVE AxisInv'
<1> USE DEF MoveSavely, AppRuns
<1>1. IInv'
  BY StutterKeeps DEF AxisInv
<1>2. AxisTypeOK' /\ Used' /\ Waited' /\ Pending' /\ Arrived' /\ Entered'
  BY <1>1 DEF AxisInv, IInv, AxisTypeOK, Used, Waited, Pending, Arrived,
              Entered, driver, motion, counter, registers, events, Active, Ticking
<1> QED
  BY <1>1, <1>2 DEF AxisInv

LEMMA WaitKeeps == ASSUME AxisInv, WaitForMovementToFinish PROVE AxisInv'
<1> USE DEF WaitForMovementToFinish, AppRuns
<1>1. IInv'
  BY StutterKeeps DEF AxisInv
<1>2. AxisTypeOK' /\ Used' /\ Waited' /\ Pending' /\ Arrived' /\ Entered'
  BY <1>1 DEF AxisInv, IInv, AxisTypeOK, Used, Waited, Pending, Arrived,
              Entered, driver, motion, counter, registers, events, Active, Ticking
<1> QED
  BY <1>1, <1>2 DEF AxisInv

LEMMA MarkKeeps == ASSUME AxisInv, MarkMoving PROVE AxisInv'
<1> USE DEF MarkMoving, AppRuns
<1>1. IInv'
  BY StutterKeeps DEF AxisInv
<1>2. AxisTypeOK' /\ Used' /\ Waited' /\ Pending' /\ Arrived' /\ Entered'
  BY <1>1 DEF AxisInv, IInv, AxisTypeOK, Used, Waited, Pending, Arrived,
              Entered, driver, motion, counter, registers, events, Active, Ticking
<1> QED
  BY <1>1, <1>2 DEF AxisInv

LEMMA CallDriverKeeps == ASSUME AxisInv, CallDriver PROVE AxisInv'
<1>1. Standing /\ Distance \in Int
  BY DistanceIsInt DEF AxisInv, Waited, Active, Ticking, Standing, CallDriver, AppRuns
<1>2. CASE Distance = 0
  <2>1. MoveByZero /\ ctx_state' = "ENABLED"
    BY <1>2 DEF CallDriver, MoveBy
  <2>2. IInv'
    BY <1>1, <2>1, MoveByZeroKeeps DEF AxisInv
  <2>3. AxisTypeOK' /\ Used' /\ Waited' /\ Pending' /\ Arrived' /\ Entered'
    BY <2>1, <2>2
       DEF CallDriver, AppRuns, MoveByZero, CounterStop, AxisInv, IInv, AxisTypeOK, Used,
           Waited, Pending, Arrived, Entered, motion, events, Active, Ticking
  <2> QED
    BY <2>2, <2>3 DEF AxisInv
<1>3. CASE Distance # 0
  <2>1. MoveBySteps(Distance) /\ UNCHANGED ctx_state
    BY <1>3 DEF CallDriver, MoveBy
  <2>2. IInv'
    BY <1>1, <2>1, MoveByStepsKeeps DEF AxisInv
  <2>3. AxisTypeOK' /\ Used' /\ Waited' /\ Pending' /\ Arrived' /\ Entered'
    BY <2>1, <2>2
       DEF CallDriver, AppRuns, MoveBySteps, AxisInv, IInv, AxisTypeOK, Used,
           Waited, Pending, Arrived, Entered, motion, events, counter, registers
  <2> QED
    BY <2>2, <2>3 DEF AxisInv
<1> QED
  BY <1>2, <1>3

LEMMA CallContinuesKeeps == ASSUME AxisInv, CallContinues PROVE AxisInv'
<1>1. IInv'
  BY StartUpdateKeeps, StartCounterKeeps, FirstSignalKeeps
     DEF AxisInv, CallContinues, StartStep
<1>2. step_high = 0 /\ (api = "signal" => ~LastEdge) /\ api \in Locked
  BY DEF AxisInv, IInv, CallContinues, StartStep, StartUpdate, StartCounter,
         FirstSignal, Lock, Locked, StepsLeft, Active, LastEdge, DriverTypeOK
<1>3. ctx_state = "MOVING" /\ pc # "move"
  BY <1>2 DEF AxisInv, Waited, Active
<1>4. /\ UNCHANGED <<thread, interval, run_mode, actual_position, goal, outstanding>>
      /\ UNCHANGED <<msgq, work_pending>>
      /\ api' # "stop"
  <2>1. CASE StartUpdate
    BY <1>2, <2>1 DEF StartUpdate, CallContinues, thread, motion, events, AxisInv, Used
  <2>2. CASE StartCounter
    BY <1>2, <2>2 DEF StartCounter, CallContinues, thread, motion, events
  <2>3. CASE FirstSignal
    BY <1>2, <2>3 DEF FirstSignal, TimingSignal, CallContinues, thread, events
  <2> QED
    BY <2>1, <2>2, <2>3 DEF CallContinues, StartStep
<1>5. AxisTypeOK' /\ Used' /\ Waited' /\ Pending' /\ Arrived' /\ Entered'
  BY <1>1, <1>3, <1>4
     DEF AxisInv, IInv, thread, AxisTypeOK, Used, Waited, Pending, Arrived, Entered
<1> QED
  BY <1>1, <1>5 DEF AxisInv

LEMMA StepperCallbackKeeps == ASSUME AxisInv, StepperCallback PROVE AxisInv'
<1>1. IInv'
  BY WorkHandlerKeeps DEF AxisInv, StepperCallback
<1>2. msgq = <<"completed">> /\ ~Active /\ work_pending
  BY DEF StepperCallback, WorkHandler, AxisInv, IInv, Queue
<1>3. /\ ctx_state' = "ENABLED" /\ isr' = "idle"
      /\ outstanding' = outstanding - 1
      /\ UNCHANGED <<pc, call, interval, run_mode, api, goal, actual_position>>
      /\ UNCHANGED <<counter_en, intr_st>>
  BY <1>2, OneEvent
     DEF StepperCallback, WorkHandler, counter, registers, motion
<1>4. ~work_pending' /\ ~Active'
  <2>1. ~(Len(msgq) > 1)
    BY <1>2, OneEvent
  <2>2. ~work_pending'
    BY <2>1, Zenon DEF StepperCallback, WorkHandler
  <2> QED
    BY <1>2, <1>3, <2>2 DEF Active, Ticking
<1>5. outstanding = 1 /\ goal = actual_position /\ pc # "move" /\ pc # "mark"
  BY DEF StepperCallback, WorkHandler, AxisInv, Waited, Pending, Arrived, Entered
<1>6. AxisTypeOK' /\ Used' /\ Waited' /\ Pending' /\ Arrived' /\ Entered'
  BY <1>1, <1>3, <1>4, <1>5
     DEF AxisInv, IInv, AxisTypeOK, Used, Waited, Pending, Arrived, Entered
<1> QED
  BY <1>1, <1>6 DEF AxisInv

LEMMA SetHomeKeeps == ASSUME AxisInv, SetHome PROVE AxisInv'
<1>1. Standing
  BY DEF AxisInv, SetHome, Waited, Active, Ticking, Standing
<1>2. IInv'
  BY <1>1, SetReferenceKeeps DEF AxisInv, SetHome
<1>3. AxisTypeOK' /\ Used' /\ Waited' /\ Pending' /\ Arrived' /\ Entered'
  BY <1>2
     DEF SetHome, AppRuns, SetReference, thread, AxisInv, IInv, AxisTypeOK, Used,
         Waited, Pending, Arrived, Entered, counter, registers, events, Active, Ticking
<1> QED
  BY <1>2, <1>3 DEF AxisInv

LEMMA ConfigureKeeps ==
  ASSUME AxisInv, NEW enable \in BOOLEAN, Configure(enable) PROVE AxisInv'
<1>1. IInv'
  BY SetIntervalKeeps DEF AxisInv, Configure
<1>2. AxisTypeOK' /\ Used' /\ Waited' /\ Pending' /\ Arrived' /\ Entered'
  BY <1>1
     DEF Configure, AppRuns, SetInterval, SetTopValue, AxisInv, IInv, AxisTypeOK,
         Used, Waited, Pending, Arrived, Entered, motion, events, Active, Ticking
<1> QED
  BY <1>1, <1>2 DEF AxisInv

\* A signal that ends a movement leaves it at its goal.
LEMMA TopInterruptAxis ==
  ASSUME AxisInv, TopInterrupt, api \notin Locked, UNCHANGED thread
  PROVE  AxisInv'
<1>1. IInv'
  BY TopInterruptKeeps DEF AxisInv
<1>2. /\ ctx_state = "MOVING" /\ pc # "move" /\ counter_en
  BY DEF TopInterrupt, AxisInv, IInv, Waited, SignalsCount, Active, Ticking, Used
<1>3. UNCHANGED <<interval, run_mode, api, goal, outstanding, thread>>
  BY DEF TopInterrupt, TimingSignal
<1>4. Arrived'
  <2>1. CASE LastEdge
    <3>1. step_high = 1 /\ step_count' = 0 /\ run_mode = "position"
      BY <2>1
         DEF TopInterrupt, TimingSignal, LastEdge, AxisInv, IInv, StepsLeft,
             Active, Ticking, DriverTypeOK
    <3>2. outstanding = 1
      BY <1>2 DEF AxisInv, Pending
    <3>3. actual_position' + step_count' = goal'
      BY <1>1, <1>3, <3>1, <3>2 DEF IInv, GoalKept
    <3>4. actual_position' \in Int
      BY <1>1 DEF IInv, DriverTypeOK
    <3> QED
      BY <3>1, <3>3, <3>4 DEF Arrived
  <2>2. CASE ~LastEdge
    <3>1. ~work_pending
      BY <1>2 DEF AxisInv, IInv, Queue, Active, Ticking
    <3> QED
      BY <2>2, <3>1 DEF TopInterrupt, events, Arrived
  <2> QED
    BY <2>1, <2>2
<1>5. AxisTypeOK' /\ Used' /\ Waited' /\ Pending' /\ Entered'
  BY <1>1, <1>2, <1>3
     DEF AxisInv, IInv, thread, AxisTypeOK, Used, Waited, Pending, Entered
<1> QED
  BY <1>1, <1>4, <1>5 DEF AxisInv

LEMMA InterruptsKeep == ASSUME AxisInv, Interrupts PROVE AxisInv'
<1>1. CASE TopInterrupt
  BY <1>1, TopInterruptAxis DEF Interrupts, IsrStep, Alarm, AlarmFires, TopInterrupt
<1>2. CASE Alarm \/ (IsrStep /\ ~TopInterrupt)
  <2>1. /\ UNCHANGED <<thread, motion, interval, api, events, goal, outstanding>>
        /\ counter_en' = counter_en
    BY <1>2
       DEF Interrupts, Alarm, AlarmFires, IsrStep, IsrEnter, IsrRearm,
           IsrReturn, registers
  <2>2. IInv'
    BY <1>2, <2>1, AlarmKeeps, IsrEnterKeeps, IsrRearmKeeps, IsrReturnKeeps
       DEF AxisInv, IsrStep
  <2>3. ctx_state = "MOVING" /\ pc # "move"
    BY <1>2
       DEF AxisInv, IInv, Waited, Active, Ticking, Alarm, AlarmFires, IsrStep,
           IsrEnter, InterruptPending, IsrRearm, IsrReturn
  <2>4. AxisTypeOK' /\ Used' /\ Waited' /\ Pending' /\ Arrived' /\ Entered'
    BY <2>1, <2>2, <2>3
       DEF thread, motion, events, AxisInv, IInv, AxisTypeOK, Used, Waited,
           Pending, Arrived, Entered
  <2> QED
    BY <2>2, <2>4 DEF AxisInv
<1> QED
  BY <1>1, <1>2 DEF Interrupts

LEMMA AxisGoes == AxisInv /\ [AxisNext]_axis => AxisInv'
<1> SUFFICES ASSUME AxisInv, [AxisNext]_axis PROVE AxisInv'
  OBVIOUS
<1>1. CASE CommandThread
  BY <1>1, MoveSavelyKeeps, WaitKeeps, MarkKeeps, CallDriverKeeps,
     CallContinuesKeeps, SetHomeKeeps, ConfigureKeeps DEF CommandThread
<1>2. CASE Interrupts
  BY <1>2, InterruptsKeep
<1>3. CASE StepperCallback
  BY <1>3, StepperCallbackKeeps
<1>4. CASE UNCHANGED axis
  <2>1. IInv'
    BY <1>4, StutterKeeps DEF AxisInv, axis
  <2>2. AxisTypeOK' /\ Used' /\ Waited' /\ Pending' /\ Arrived' /\ Entered'
    BY <1>4, <2>1
       DEF axis, thread, driver, counter, registers, motion, events, AxisInv,
           IInv, AxisTypeOK, Used, Waited, Pending, Arrived, Entered, Active, Ticking
  <2> QED
    BY <2>1, <2>2 DEF AxisInv
<1> QED
  BY <1>1, <1>2, <1>3, <1>4 DEF AxisNext

\* Every behaviour of the axis keeps the invariant.
LEMMA AxisKeeps == AxisSpec => []AxisInv
  BY AxisStarts, AxisGoes, PTL DEF AxisSpec

-----------------------------------------------------------------------------
\* move_savely_by, move_savely_to and stepper_callback keep the types of
\* what they share with the driver.
THEOREM AxisTypeCorrect == AxisSpec => []AxisTypeOK
<1>1. AxisInv => AxisTypeOK
  BY DEF AxisInv
<1> QED
  BY <1>1, AxisKeeps, PTL

\* When a wait is over the motor stands, its position is exact and no event
\* is left.
THEOREM WaitsAreTruthful == AxisSpec => []WaitedMeansStill
<1>1. AxisInv => WaitedMeansStill
  <2> SUFFICES ASSUME AxisInv, ctx_state # "MOVING" PROVE WaitedMeansStill
    BY DEF WaitedMeansStill
  <2>1. ~counter_en /\ ~intr_st /\ isr = "idle" /\ ~work_pending
    BY DEF AxisInv, Waited, Active, Ticking
  <2>2. api = "idle"
    BY DEF AxisInv, AxisTypeOK, DriverTypeOK, Used, Waited, Active
  <2>3. step_high = 0
    BY <2>1, <2>2 DEF AxisInv, IInv, PinLowAtRest
  <2> QED
    BY <2>1, <2>2, <2>3
       DEF AxisInv, IInv, Queue, Books, WaitedMeansStill, InterruptPending
<1> QED
  BY <1>1, AxisKeeps, PTL

\* A motor marked MOVING has a movement that is not called back yet, or is
\* about to begin one.
THEOREM MovingIsPending == AxisSpec => []MovingMeansPending
<1>1. AxisInv => MovingMeansPending
  BY DEF AxisInv, Pending, MovingMeansPending
<1> QED
  BY <1>1, AxisKeeps, PTL

\* One completion at most is queued, however long the queue.
THEOREM OneEventAtMost == AxisSpec => []OneEventQueued
<1>1. AxisInv => OneEventQueued
  <2> SUFFICES ASSUME AxisInv PROVE OneEventQueued
    OBVIOUS
  <2>1. Len(msgq) = 0 \/ Len(msgq) = 1
    BY OneEvent DEF AxisInv, IInv, Queue
  <2> QED
    BY <2>1 DEF OneEventQueued
<1> QED
  BY <1>1, AxisKeeps, PTL

-----------------------------------------------------------------------------
(* The axis implements MotorContract, liveness apart, if all positions asked
   for are positions of the contract. *)

StateOfMotor == IF pc = "move" THEN "ENABLED" ELSE ctx_state
InRange == MoveSizes \subseteq -MaxPosition..MaxPosition

LEMMA ContractStarts == AxisInit => Motor!Init
  BY DEF AxisInit, Motor!Init

\* What leaves state, position and goal alone is no step of the contract.
LEMMA ContractStutters ==
  ASSUME UNCHANGED <<StateOfMotor, actual_position, goal>>
  PROVE  UNCHANGED Motor!vars
  BY DEF StateOfMotor, Motor!vars

LEMMA ContractCallDriver ==
  ASSUME InRange, AxisInv, CallDriver
  PROVE  [Motor!Next]_(Motor!vars)
<1>1. pc = "move" /\ pc' = "routine" /\ goal = actual_position
  BY DEF CallDriver, AppRuns, AxisInv, Waited
<1>2. CASE Distance = 0
  BY <1>1, <1>2, ContractStutters
     DEF CallDriver, MoveBy, MoveByZero, motion, StateOfMotor
<1>3. CASE Distance # 0
  <2>1. /\ goal' = actual_position + Distance
        /\ actual_position' = actual_position /\ ctx_state' = "MOVING"
    BY <1>1, <1>3 DEF CallDriver, MoveBy, MoveBySteps, AxisInv, Entered
  <2>2. goal' \in -MaxPosition..MaxPosition
    <3>1. actual_position \in Int /\ call.steps \in MoveSizes
      BY DEF AxisInv, AxisTypeOK, DriverTypeOK, Calls
    <3>2. CASE call.kind = "by"
      BY <1>1, <2>1, <3>2 DEF Distance, AxisInv, Entered
    <3>3. CASE call.kind # "by"
      <4>1. goal' = call.steps
        <5>1. Distance = call.steps - actual_position
          BY <3>3 DEF Distance
        <5>2. call.steps \in Int
          BY <3>1, MoveSizesAssumption
        <5> QED
          BY <2>1, <3>1, <5>1, <5>2
      <4> QED
        BY <3>1, <4>1 DEF InRange
    <3> QED
      BY <3>2, <3>3
  <2>3. Motor!Begin(goal')
    BY <1>1, <2>1 DEF Motor!Begin
  <2> QED
    BY <2>2, <2>3 DEF Motor!Next
<1> QED
  BY <1>2, <1>3

\* A falling edge is a step towards the goal, any other signal none.
LEMMA ContractSignal ==
  ASSUME AxisInv, TopInterrupt, UNCHANGED thread
  PROVE  [Motor!Next]_(Motor!vars)
<1>1. ctx_state = "MOVING" /\ pc # "move" /\ counter_en
  BY DEF TopInterrupt, AxisInv, IInv, Waited, SignalsCount, Active, Ticking, Used
<1>2. UNCHANGED <<StateOfMotor, goal>>
  BY DEF TopInterrupt, thread, StateOfMotor
<1>3. CASE step_high = 0
  BY <1>2, <1>3, ContractStutters DEF TopInterrupt, TimingSignal
<1>4. CASE step_high = 1
  <2>1. outstanding = 1 /\ ~work_pending
    BY <1>1 DEF AxisInv, Pending, IInv, Queue, Active, Ticking
  <2>2. run_mode = "position"
    BY <1>1, <2>1
       DEF AxisInv, IInv, Ledger, Used, Waited, DriverTypeOK
  <2>3. actual_position + step_count = goal
    BY <2>1, <2>2 DEF AxisInv, IInv, GoalKept
  <2>4. \/ step_count > 0 /\ actual_position' = actual_position + 1
        \/ step_count < 0 /\ actual_position' = actual_position - 1
    BY <1>1, <1>4, <2>2
       DEF AxisInv, IInv, StepsLeft, Active, Ticking, TopInterrupt,
           TimingSignal, DriverTypeOK
  <2>5. Motor!Step
    BY <1>1, <1>2, <2>3, <2>4
       DEF Motor!Step, StateOfMotor, AxisInv, AxisTypeOK, DriverTypeOK
  <2> QED
    BY <2>5 DEF Motor!Next, Motor!Progress
<1> QED
  BY <1>3, <1>4 DEF AxisInv, IInv, DriverTypeOK

LEMMA ContractGoes ==
  InRange /\ BoundAssumption /\ AxisInv /\ [AxisNext]_axis => [Motor!Next]_(Motor!vars)
<1> SUFFICES ASSUME InRange, AxisInv, [AxisNext]_axis
             PROVE  [Motor!Next]_(Motor!vars)
  OBVIOUS
<1>1. CASE (\E c \in Calls : MoveSavely(c)) \/ WaitForMovementToFinish \/ MarkMoving
  BY <1>1, ContractStutters
     DEF MoveSavely, WaitForMovementToFinish, MarkMoving, AppRuns, driver,
         motion, StateOfMotor, AxisInv, AxisTypeOK, Entered
<1>2. CASE CallDriver
  BY <1>2, ContractCallDriver
<1>3. CASE CallContinues
  <2>1. step_high = 0 /\ (api = "signal" => ~LastEdge)
    BY <1>3
       DEF AxisInv, IInv, CallContinues, StartStep, StartUpdate, StartCounter,
           FirstSignal, Lock, Locked, StepsLeft, Active, LastEdge, DriverTypeOK
  <2>2. UNCHANGED <<ctx_state, pc, actual_position, goal>>
    BY <1>3, <2>1
       DEF CallContinues, StartStep, StartUpdate, StartCounter, FirstSignal,
           TimingSignal, motion
  <2> QED
    BY <2>2, ContractStutters DEF StateOfMotor
<1>4. CASE SetHome
  <2>1. Motor!SetReference(0)
    BY <1>4
       DEF SetHome, AppRuns, SetReference, thread, Motor!SetReference
  <2>2. 0 \in -MaxPosition..MaxPosition
    BY BoundAssumption
  <2> QED
    BY <2>1, <2>2 DEF Motor!Next
<1>5. CASE \E enable \in BOOLEAN : Configure(enable)
  <2>1. Motor!Configure(ctx_state') /\ ctx_state' \in {"DISABLED", "ENABLED"}
    BY <1>5
       DEF Configure, AppRuns, SetInterval, motion, Motor!Configure
  <2> QED
    BY <2>1 DEF Motor!Next
<1>6. CASE Interrupts
  <2>1. CASE TopInterrupt
    BY <1>6, <2>1, ContractSignal DEF Interrupts
  <2>2. CASE ~TopInterrupt
    BY <1>6, <2>2, ContractStutters
       DEF Interrupts, Alarm, IsrStep, motion, thread, StateOfMotor
  <2> QED
    BY <2>1, <2>2
<1>7. CASE StepperCallback
  <2>1. msgq = <<"completed">> /\ work_pending
    BY <1>7 DEF StepperCallback, WorkHandler, AxisInv, IInv, Queue
  <2>2. ctx_state' = "ENABLED" /\ UNCHANGED <<pc, actual_position, goal>>
    BY <1>7, <2>1, OneEvent DEF StepperCallback, WorkHandler, motion
  <2>3. ctx_state = "MOVING" /\ pc # "move" /\ actual_position = goal
    BY <2>1 DEF AxisInv, Waited, Arrived
  <2>4. Motor!Finish
    BY <2>2, <2>3 DEF Motor!Finish
  <2> QED
    BY <2>4 DEF Motor!Next, Motor!Progress
<1>8. CASE UNCHANGED axis
  BY <1>8, ContractStutters DEF axis, driver, motion, thread, StateOfMotor
<1> QED
  BY <1>1, <1>2, <1>3, <1>4, <1>5, <1>6, <1>7, <1>8 DEF AxisNext, CommandThread

\* Each movement of the axis, edge by edge, is one that MotorContract allows:
\* begun, stepped towards its goal, finished there.
THEOREM AxisKeepsContract ==
  InRange => (AxisSpec => Motor!Init /\ [][Motor!Next]_(Motor!vars))
<1> SUFFICES ASSUME InRange
             PROVE  AxisSpec => Motor!Init /\ [][Motor!Next]_(Motor!vars)
  OBVIOUS
<1>1. AxisInv /\ [AxisNext]_axis => [Motor!Next]_(Motor!vars)
  BY ContractGoes, BoundAssumption
<1> QED
  BY <1>1, ContractStarts, AxisKeeps, PTL DEF AxisSpec
=============================================================================
