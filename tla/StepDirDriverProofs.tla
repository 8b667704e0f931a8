------------------------ MODULE StepDirDriverProofs -------------------------
(***************************************************************************)
(* The driver of one motor proved for all distances, positions and queue   *)
(* lengths: its books agree with the rotor, every movement is called back  *)
(* once, and its timer never dies.                                         *)
(***************************************************************************)
EXTENDS StepDirDriver, TLAPS

\* The registers: an armed alarm will interrupt, one that fired is not armed
\* until the handler arms it again.
Registers ==
  /\ alarm_en => intr_en
  /\ intr_st => intr_en /\ ~alarm_en
  /\ isr \in {"callback", "rearm"} => ~intr_st /\ ~alarm_en

\* The lock: a movement is begun at a standing counter, outside the handler.
Lock ==
  /\ api \in Locked => isr = "idle" /\ step_high = 0
  /\ api \in {"update", "start", "stop"} => ~counter_en
  /\ api = "start" => alarm_en
  /\ api = "signal" => counter_en

\* Another timing signal is due, or being handled.
Ticking == counter_en \/ intr_st \/ isr = "callback"
Active == Ticking \/ api \in Locked

\* A counter that does not count signals nothing more, unless stop came
\* between an alarm and its interrupt.
SignalsCount == intr_st \/ isr = "callback" => counter_en \/ api = "stop"

\* A movement that goes on has steps left, in its direction.
StepsLeft ==
  run_mode = "position" /\ Active =>
    \/ step_count > 0 /\ direction = 1
    \/ step_count < 0 /\ direction = -1

\* One completion at most waits for the work queue, with nothing else going on.
Queue ==
  /\ msgq = IF work_pending THEN <<"completed">> ELSE <<>>
  /\ work_pending => ~Active

\* PositionIsTrue without the product, CompletionsExact without the sequence.
Books == phys = IF step_high = 1 THEN actual_position + direction
                ELSE actual_position
\* A signal of a movement is for a completion still owed, stop or no stop.
Ledger ==
  /\ api # "stop" =>
       outstanding = (IF work_pending THEN 1 ELSE 0)
                     + (IF run_mode = "position"
                           /\ (counter_en \/ api \in Locked)
                        THEN 1 ELSE 0)
  /\ run_mode = "position" /\ Ticking => outstanding > 0

IInv ==
  /\ DriverTypeOK /\ Registers /\ Lock /\ SignalsCount /\ StepsLeft /\ Queue
  /\ NoDeadTimer /\ PinLowAtRest /\ GoalKept /\ Books /\ Ledger

-----------------------------------------------------------------------------
LEMMA OneEvent ==
  /\ <<>> \in Seq({"completed"}) /\ <<"completed">> \in Seq({"completed"})
  /\ Len(<<>>) = 0 /\ Len(<<>>) <= 1 /\ Len(<<"completed">>) <= 1 /\ Len(<<"completed">>) = 1
  /\ Append(<<>>, "completed") = <<"completed">>
  /\ Tail(<<"completed">>) = <<>>
  /\ <<"completed">> # <<>>
  OBVIOUS

LEMMA Starts == DriverInit => IInv
<1> SUFFICES ASSUME DriverInit PROVE IInv
  OBVIOUS
<1> USE DEF DriverInit, CounterInit
<1>1. DriverTypeOK
  <2>1. CounterTypeOK
    BY DEF CounterTypeOK
  <2>2. /\ msgq \in Seq({"completed"}) /\ Len(msgq) <= 1
        /\ work_pending \in BOOLEAN
    BY OneEvent
  <2> QED
    BY <2>1, <2>2 DEF DriverTypeOK, Directions
<1>2. Registers /\ Lock /\ SignalsCount /\ StepsLeft /\ Queue
  BY DEF Registers, Lock, SignalsCount, StepsLeft, Queue
<1>3. NoDeadTimer /\ PinLowAtRest /\ GoalKept /\ Books /\ Ledger
  BY DEF NoDeadTimer, PinLowAtRest, GoalKept, Books, Ledger, Ticking, Registers,
         SignalsCount, InterruptPending, DriverTypeOK
<1> QED
  BY <1>1, <1>2, <1>3 DEF IInv

LEMMA AlarmKeeps == ASSUME IInv, Alarm PROVE IInv'
<1> USE DEF IInv, Alarm, AlarmFires, motion, events
<1>1. DriverTypeOK'
  BY DEF DriverTypeOK, CounterTypeOK
<1>2. (Registers /\ Lock)'
  BY DEF Registers, Lock
<1>3. (SignalsCount /\ StepsLeft /\ Queue)'
  BY DEF SignalsCount, StepsLeft, Queue, Active, Ticking
<1>4. (NoDeadTimer /\ PinLowAtRest)'
  BY DEF NoDeadTimer, PinLowAtRest, InterruptPending, Registers
<1>5. (GoalKept /\ Books /\ Ledger)'
  BY DEF GoalKept, Books, Ledger, Ticking, Registers,
         SignalsCount, InterruptPending, DriverTypeOK
<1> QED
  BY <1>1, <1>2, <1>3, <1>4, <1>5

LEMMA IsrEnterKeeps == ASSUME IInv, IsrEnter, api \notin Locked,
  UNCHANGED <<motion, interval, api, events, goal, outstanding>> PROVE IInv'
<1> USE DEF IInv, IsrEnter, InterruptPending, motion, events
<1>1. DriverTypeOK'
  BY DEF DriverTypeOK, CounterTypeOK
<1>2. (Registers /\ Lock)'
  BY DEF Registers, Lock
<1>3. (SignalsCount /\ StepsLeft /\ Queue)'
  BY DEF SignalsCount, StepsLeft, Queue, Active, Ticking
<1>4. (NoDeadTimer /\ PinLowAtRest)'
  BY DEF NoDeadTimer, PinLowAtRest
<1>5. (GoalKept /\ Books /\ Ledger)'
  BY DEF GoalKept, Books, Ledger, Ticking, Registers,
         SignalsCount, InterruptPending, DriverTypeOK
<1> QED
  BY <1>1, <1>2, <1>3, <1>4, <1>5

LEMMA IsrRearmKeeps == ASSUME IInv, IsrRearm, api \notin Locked,
  UNCHANGED <<motion, interval, api, events, goal, outstanding>> PROVE IInv'
<1> USE DEF IInv, IsrRearm, motion, events
<1>1. DriverTypeOK'
  BY DEF DriverTypeOK, CounterTypeOK
<1>2. (Registers /\ Lock)'
  BY DEF Registers, Lock
<1>3. (SignalsCount /\ StepsLeft /\ Queue)'
  BY DEF SignalsCount, StepsLeft, Queue, Active, Ticking
<1>4. (NoDeadTimer /\ PinLowAtRest)'
  BY DEF NoDeadTimer, PinLowAtRest
<1>5. (GoalKept /\ Books /\ Ledger)'
  BY DEF GoalKept, Books, Ledger, Ticking, Registers,
         SignalsCount, InterruptPending, DriverTypeOK
<1> QED
  BY <1>1, <1>2, <1>3, <1>4, <1>5

LEMMA IsrReturnKeeps == ASSUME IInv, IsrReturn, api \notin Locked,
  UNCHANGED <<motion, interval, api, events, goal, outstanding>> PROVE IInv'
<1> USE DEF IInv, IsrReturn, registers, motion, events
<1>1. DriverTypeOK'
  BY DEF DriverTypeOK, CounterTypeOK
<1>2. (Registers /\ Lock)'
  BY DEF Registers, Lock
<1>3. (SignalsCount /\ StepsLeft /\ Queue)'
  BY DEF SignalsCount, StepsLeft, Queue, Active, Ticking
<1>4. (NoDeadTimer /\ PinLowAtRest)'
  BY DEF NoDeadTimer, PinLowAtRest, InterruptPending
<1>5. (GoalKept /\ Books /\ Ledger)'
  BY DEF GoalKept, Books, Ledger, Ticking, Registers,
         SignalsCount, InterruptPending, DriverTypeOK
<1> QED
  BY <1>1, <1>2, <1>3, <1>4, <1>5

LEMMA TopInterruptKeeps ==
  ASSUME IInv, TopInterrupt, api \notin Locked
  PROVE  IInv'
<1> USE DEF IInv, TopInterrupt, TimingSignal, LastEdge, OneStepLess, CounterStop,
           QueueEvent, registers, events
<1>1. (Registers /\ Lock)'
  BY DEF Registers, Lock, DriverTypeOK
<1>2. (SignalsCount /\ StepsLeft /\ Queue)'
  BY QueueLenAssumption
     DEF SignalsCount, StepsLeft, Queue, Active, Ticking, Registers,
         DriverTypeOK
<1>3. (NoDeadTimer /\ PinLowAtRest)'
  BY DEF NoDeadTimer, PinLowAtRest, StepsLeft, SignalsCount, Active, Ticking
<1>4. DriverTypeOK'
  <2>1. CounterTypeOK'
    BY DEF DriverTypeOK, CounterTypeOK
  <2>2. work_pending' \in BOOLEAN
    BY DEF DriverTypeOK
  <2>3. msgq' \in Seq({"completed"}) /\ Len(msgq') <= 1
    BY <1>2, OneEvent DEF Queue
  <2> QED
    BY <2>1, <2>2, <2>3 DEF DriverTypeOK
<1>5. GoalKept'
  <2>1. counter_en \/ api = "stop"
    BY DEF SignalsCount
  <2>2. ~work_pending /\ msgq = <<>>
    BY DEF Queue, Active, Ticking
  <2>3. (run_mode = "position" /\ outstanding > 0
           => actual_position + step_count = goal)'
    BY DEF GoalKept, StepsLeft, Active, Ticking, DriverTypeOK
  <2>4. CASE LastEdge
    <3>1. (actual_position + step_count = goal)'
      BY <2>1, <2>4 DEF GoalKept, Ledger, StepsLeft, Active, Ticking,
             DriverTypeOK
    <3>2. (step_count = 0)'
      BY <2>1, <2>4 DEF StepsLeft, Active, Ticking, DriverTypeOK
    <3>3. actual_position' \in Int
      BY DEF DriverTypeOK, Directions
    <3> QED
      BY <2>3, <3>1, <3>2, <3>3 DEF GoalKept
  <2>5. CASE ~LastEdge
    BY <2>2, <2>3, <2>5 DEF GoalKept
  <2> QED
    BY <2>4, <2>5
<1>6. (Books /\ Ledger)'
  BY DEF Books, Ledger, StepsLeft, Queue, Active, Ticking,
         SignalsCount, DriverTypeOK
<1> QED
  BY <1>1, <1>2, <1>3, <1>4, <1>5, <1>6

LEMMA WorkHandlerKeeps == ASSUME IInv, WorkHandler PROVE IInv'
<1> USE DEF IInv, WorkHandler, counter, registers, motion
<1>1. DriverTypeOK'
  <2>1. msgq = <<"completed">>
    BY DEF Queue
  <2>2. msgq' = <<>> /\ work_pending' \in BOOLEAN
    <3>1. msgq' = <<>>
      BY <2>1, OneEvent
    <3>2. (Len(msgq) > 1) \in BOOLEAN
      BY <2>1, OneEvent
    <3> QED
      BY <3>1, <3>2, Zenon
  <2> QED
    BY <2>2, OneEvent DEF DriverTypeOK, CounterTypeOK
<1>2. (Registers /\ Lock)'
  BY DEF Registers, Lock
<1>3. (SignalsCount /\ StepsLeft /\ Queue)'
  BY DEF SignalsCount, StepsLeft, Queue, Active, Ticking, DriverTypeOK,
         CounterTypeOK
<1>4. (NoDeadTimer /\ PinLowAtRest)'
  BY DEF NoDeadTimer, PinLowAtRest, InterruptPending
<1>5. (GoalKept /\ Books /\ Ledger)'
  BY DEF GoalKept, Books, Ledger, Queue, Active, Ticking, DriverTypeOK,
         CounterTypeOK
<1> QED
  BY <1>1, <1>2, <1>3, <1>4, <1>5

LEMMA MoveByZeroKeeps == ASSUME IInv, MoveByZero, Standing PROVE IInv'
<1> USE DEF IInv, MoveByZero, CounterStop, ThreadRuns, InterruptPending, Standing, counter, registers, motion, events
<1>1. DriverTypeOK'
  BY DEF DriverTypeOK, CounterTypeOK
<1>2. (Registers /\ Lock)'
  BY DEF Registers, Lock
<1>3. (SignalsCount /\ StepsLeft /\ Queue)'
  BY DEF SignalsCount, StepsLeft, Queue, Active, Ticking
<1>4. (NoDeadTimer /\ PinLowAtRest)'
  BY DEF NoDeadTimer, PinLowAtRest
<1>5. (GoalKept /\ Books /\ Ledger)'
  BY DEF GoalKept, Books, Ledger, Locked, Ticking, Registers,
         SignalsCount, InterruptPending, DriverTypeOK
<1> QED
  BY <1>1, <1>2, <1>3, <1>4, <1>5

LEMMA MoveByStepsKeeps ==
  ASSUME IInv, NEW n \in Int, MoveBySteps(n), Standing
  PROVE  IInv'
<1> USE DEF IInv, MoveBySteps, ThreadRuns, InterruptPending, Standing, counter, registers, motion, events
<1>1. DriverTypeOK'
  BY DEF DriverTypeOK, CounterTypeOK, Directions, Locked
<1>2. (Registers /\ Lock)'
  BY DEF PinLowAtRest, Registers, Lock
<1>3. (SignalsCount /\ StepsLeft /\ Queue)'
  BY DEF SignalsCount, StepsLeft, Queue
<1>4. (NoDeadTimer /\ PinLowAtRest)'
  BY DEF NoDeadTimer, PinLowAtRest
<1>5. (GoalKept /\ Books /\ Ledger)'
  BY DEF GoalKept, Books, Queue, Ledger, Locked, PinLowAtRest,
         DriverTypeOK
<1> QED
  BY <1>1, <1>2, <1>3, <1>4, <1>5

LEMMA RunKeeps ==
  ASSUME IInv, NEW dir \in Directions, Run(dir), Standing
  PROVE  IInv'
<1> USE DEF IInv, Run, ThreadRuns, InterruptPending, Standing, counter, registers, motion, events
<1>1. DriverTypeOK'
  BY DEF DriverTypeOK, CounterTypeOK, Locked
<1>2. (Registers /\ Lock)'
  BY DEF PinLowAtRest, Registers, Lock
<1>3. (SignalsCount /\ StepsLeft /\ Queue)'
  BY DEF SignalsCount, StepsLeft, Queue
<1>4. (NoDeadTimer /\ PinLowAtRest)'
  BY DEF NoDeadTimer, PinLowAtRest
<1>5. (GoalKept /\ Books /\ Ledger)'
  BY DEF GoalKept, Books, Ledger, Locked, PinLowAtRest, Ticking, Registers,
         SignalsCount, InterruptPending, DriverTypeOK
<1> QED
  BY <1>1, <1>2, <1>3, <1>4, <1>5

LEMMA StartUpdateKeeps == ASSUME IInv, StartUpdate PROVE IInv'
<1> USE DEF IInv, StartUpdate, SetTopValue, counter, registers, motion, events
<1>1. DriverTypeOK'
  <2>1. CounterTypeOK'
    BY DEF DriverTypeOK, CounterTypeOK
  <2> QED
    BY <2>1 DEF DriverTypeOK, Locked
<1>2. (Registers /\ Lock)'
  BY DEF Registers, Lock, DriverTypeOK
<1>3. (SignalsCount /\ StepsLeft /\ Queue)'
  BY DEF SignalsCount, StepsLeft, Queue, Active, DriverTypeOK
<1>4. (NoDeadTimer /\ PinLowAtRest)'
  BY DEF NoDeadTimer, PinLowAtRest, Lock
<1>5. (GoalKept /\ Books /\ Ledger)'
  BY DEF GoalKept, Books, Ledger, Lock, Locked, Ticking, Registers,
         SignalsCount, InterruptPending, DriverTypeOK
<1> QED
  BY <1>1, <1>2, <1>3, <1>4, <1>5

LEMMA StartCounterKeeps == ASSUME IInv, StartCounter PROVE IInv'
<1> USE DEF IInv, StartCounter, CounterStart, counter, registers, motion, events
<1>1. DriverTypeOK'
  BY DEF DriverTypeOK, CounterTypeOK, Locked
<1>2. (Registers /\ Lock)'
  BY DEF Registers, Lock, DriverTypeOK
<1>3. (SignalsCount /\ StepsLeft /\ Queue)'
  BY DEF SignalsCount, StepsLeft, Queue, Active, DriverTypeOK
<1>4. (NoDeadTimer /\ PinLowAtRest)'
  BY DEF NoDeadTimer, PinLowAtRest, Lock
<1>5. (GoalKept /\ Books /\ Ledger)'
  BY DEF GoalKept, Books, Ledger, DriverTypeOK
<1> QED
  BY <1>1, <1>2, <1>3, <1>4, <1>5

LEMMA FirstSignalKeeps == ASSUME IInv, FirstSignal PROVE IInv'
<1> USE DEF IInv
<1>1. step_high = 0 /\ ~LastEdge
  BY DEF FirstSignal, Lock, StepsLeft, Active, LastEdge, DriverTypeOK
<1>2. /\ api = "signal" /\ api' = "idle"
      /\ step_high' = 1 /\ phys' = phys + direction
      /\ UNCHANGED <<counter, actual_position, step_count, direction, run_mode>>
      /\ UNCHANGED <<interval, events, goal, outstanding>>
  BY <1>1 DEF FirstSignal, TimingSignal, counter
<1> USE <1>1, <1>2 DEF counter, registers, events
<1>3. DriverTypeOK'
  BY DEF DriverTypeOK, CounterTypeOK
<1>4. (Registers /\ Lock)'
  BY DEF Registers, Lock, Locked
<1>5. (SignalsCount /\ StepsLeft /\ Queue)'
  BY DEF SignalsCount, StepsLeft, Queue, Active, Locked
<1>6. (NoDeadTimer /\ PinLowAtRest)'
  BY DEF NoDeadTimer, PinLowAtRest, InterruptPending, Lock
<1>7. (GoalKept /\ Books /\ Ledger)'
  BY DEF GoalKept, Books, Ledger, Lock
<1> QED
  BY <1>3, <1>4, <1>5, <1>6, <1>7

LEMMA StopCounterKeeps == ASSUME IInv, StopCounter PROVE IInv'
<1> USE DEF IInv, StopCounter, CounterStop, motion, events
<1>1. DriverTypeOK'
  BY DEF DriverTypeOK, CounterTypeOK
<1>2. (Registers /\ Lock)'
  BY DEF Registers, Lock, Locked
<1>3. (SignalsCount /\ StepsLeft /\ Queue)'
  BY DEF SignalsCount, StepsLeft, Queue, Active, Ticking, Locked
<1>4. (NoDeadTimer /\ PinLowAtRest)'
  BY DEF NoDeadTimer, PinLowAtRest
<1>5. (GoalKept /\ Books /\ Ledger)'
  BY DEF GoalKept, Books, Ledger, Ticking, Registers,
         SignalsCount, InterruptPending, DriverTypeOK
<1> QED
  BY <1>1, <1>2, <1>3, <1>4, <1>5

LEMMA StopSettleKeeps == ASSUME IInv, StopSettle PROVE IInv'
<1> USE DEF IInv, StopSettle, ThreadRuns, InterruptPending, Standing, counter, registers, motion, events
<1>1. DriverTypeOK'
  BY DEF DriverTypeOK, CounterTypeOK
<1>2. (Registers /\ Lock)'
  BY DEF Registers, Lock
<1>3. (SignalsCount /\ StepsLeft /\ Queue)'
  BY DEF SignalsCount, StepsLeft, Queue, Active, Ticking, Locked, Registers
<1>4. (NoDeadTimer /\ PinLowAtRest)'
  BY DEF NoDeadTimer, PinLowAtRest
<1>5. (GoalKept /\ Books /\ Ledger)'
  BY DEF GoalKept, Books, Queue, Ledger, Lock, Locked, Ticking, Registers,
         SignalsCount, InterruptPending, DriverTypeOK
<1> QED
  BY <1>1, <1>2, <1>3, <1>4, <1>5

LEMMA SetReferenceKeeps ==
  ASSUME IInv, NEW value \in Int, SetReference(value), Standing
  PROVE  IInv'
<1> USE DEF IInv, SetReference, ThreadRuns, InterruptPending, Standing, counter, registers, motion, events
<1>1. DriverTypeOK'
  BY DEF DriverTypeOK, CounterTypeOK
<1>2. (Registers /\ Lock)'
  BY DEF Registers, Lock
<1>3. (SignalsCount /\ StepsLeft /\ Queue)'
  BY DEF SignalsCount, StepsLeft, Queue, Active, Ticking
<1>4. (NoDeadTimer /\ PinLowAtRest)'
  BY DEF NoDeadTimer, PinLowAtRest
<1>5. (GoalKept /\ Books /\ Ledger)'
  BY DEF GoalKept, Books, Ledger, Locked, PinLowAtRest, Ticking, Registers,
         SignalsCount, InterruptPending, DriverTypeOK
<1> QED
  BY <1>1, <1>2, <1>3, <1>4, <1>5

LEMMA SetIntervalKeeps ==
  ASSUME IInv, NEW new \in {"usable", "unusable"}, SetInterval(new)
  PROVE  IInv'
<1> USE DEF IInv, SetInterval, SetTopValue, ThreadRuns, InterruptPending, Standing, counter, registers, motion, events
<1>1. DriverTypeOK'
  BY DEF DriverTypeOK, CounterTypeOK
<1>2. (Registers /\ Lock)'
  BY DEF Registers, Lock
<1>3. (SignalsCount /\ StepsLeft /\ Queue)'
  BY DEF SignalsCount, StepsLeft, Queue, Active, Ticking
<1>4. (NoDeadTimer /\ PinLowAtRest)'
  BY DEF NoDeadTimer, PinLowAtRest
<1>5. (GoalKept /\ Books /\ Ledger)'
  BY DEF GoalKept, Books, Ledger, Ticking, Registers,
         SignalsCount, InterruptPending, DriverTypeOK
<1> QED
  BY <1>1, <1>2, <1>3, <1>4, <1>5

LEMMA StutterKeeps == ASSUME IInv, UNCHANGED driver PROVE IInv'
  BY DEF IInv, driver, counter, registers, motion, events, DriverTypeOK,
         CounterTypeOK, Registers, Lock, SignalsCount, StepsLeft, Queue,
         Active, Ticking, NoDeadTimer, InterruptPending, PinLowAtRest,
         GoalKept, Books, Ledger, Ticking, Registers,
         SignalsCount, InterruptPending, DriverTypeOK

LEMMA Goes == IInv /\ [Next]_driver => IInv'
<1> SUFFICES ASSUME IInv, [Next]_driver PROVE IInv'
  OBVIOUS
<1>1. CASE Alarm
  BY <1>1, AlarmKeeps
<1>2. CASE IsrStep
  BY <1>2, IsrEnterKeeps, IsrRearmKeeps, IsrReturnKeeps, TopInterruptKeeps
     DEF IsrStep
<1>3. CASE WorkHandler
  BY <1>3, WorkHandlerKeeps
<1>4. CASE StartStep
  BY <1>4, StartUpdateKeeps, StartCounterKeeps, FirstSignalKeeps DEF StartStep
<1>5. CASE CallerMoves
  <2>1. ASSUME NEW n \in Int, MoveBy(n), Standing PROVE IInv'
    BY <2>1, MoveByZeroKeeps, MoveByStepsKeeps DEF MoveBy
  <2>2. ASSUME NEW dir \in Directions, Run(dir), Standing PROVE IInv'
    BY <2>2, RunKeeps
  <2>3. \A value \in MoveSizes : value \in Int /\ value - actual_position \in Int
    BY MoveSizesAssumption DEF IInv, DriverTypeOK
  <2> QED
    BY <1>5, <2>1, <2>2, <2>3 DEF CallerMoves, MoveTo
<1>6. CASE CallerConfigures
  BY <1>6, MoveSizesAssumption, SetIntervalKeeps, SetReferenceKeeps
     DEF CallerConfigures
<1>7. CASE Stop
  BY <1>7, StopCounterKeeps, StopSettleKeeps DEF Stop
<1>8. CASE UNCHANGED driver
  BY <1>8, StutterKeeps
<1> QED
  BY <1>1, <1>2, <1>3, <1>4, <1>5, <1>6, <1>7, <1>8 DEF Next

\* Every behaviour of the driver keeps the invariant.
LEMMA Keeps == Spec => []IInv
  BY Starts, Goes, PTL DEF Spec

-----------------------------------------------------------------------------
\* The driver's state keeps its ranges; with any length of queue at most one
\* event is in it.
THEOREM TypeCorrect == Spec => []DriverTypeOK
<1>1. IInv => DriverTypeOK
  BY DEF IInv
<1> QED
  BY <1>1, Keeps, PTL

\* A counter that counts will interrupt again, whatever the order of alarms,
\* handler and calls.
THEOREM TimerNeverDies == Spec => []NoDeadTimer
<1>1. IInv => NoDeadTimer
  BY DEF IInv
<1> QED
  BY <1>1, Keeps, PTL

\* Completion, stop and error paths neither lose nor invent a step.
THEOREM PositionAlwaysTrue == Spec => []PositionIsTrue
<1>1. IInv => PositionIsTrue
  <2> SUFFICES ASSUME IInv PROVE PositionIsTrue
    OBVIOUS
  <2>1. CASE step_high = 0
    BY DEF IInv, Books, DriverTypeOK, Directions, PositionIsTrue
  <2>2. CASE step_high = 1
    BY DEF IInv, Books, DriverTypeOK, Directions, PositionIsTrue
  <2> QED
    BY <2>1, <2>2 DEF IInv, DriverTypeOK
<1> QED
  BY <1>1, Keeps, PTL

\* A motor that stands has its step pin low.
THEOREM PinRestsLow == Spec => []PinLowAtRest
<1>1. IInv => PinLowAtRest
  BY DEF IInv
<1> QED
  BY <1>1, Keeps, PTL

\* A movement in progress is headed for the position it was asked for, and is
\* there when its completion is queued.
THEOREM GoalIsKept == Spec => []GoalKept
<1>1. IInv => GoalKept
  BY DEF IInv
<1> QED
  BY <1>1, Keeps, PTL

\* Each movement is called back once, with any queue length.
THEOREM OneCompletionEach == Spec => []CompletionsExact
<1>1. IInv => CompletionsExact
  <2> SUFFICES ASSUME IInv PROVE CompletionsExact
    OBVIOUS
  <2>1. Len(msgq) = IF work_pending THEN 1 ELSE 0
    BY DEF IInv, Queue
  <2> QED
    BY <2>1 DEF IInv, Ledger, CompletionsExact
<1> QED
  BY <1>1, Keeps, PTL
=============================================================================
