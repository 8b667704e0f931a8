-------------------------- MODULE HallHomingProofs --------------------------
(***************************************************************************)
(* Hard homing proved for every circle, field and latency, and for every   *)
(* place to start from: the reference is the middle of the field up to the *)
(* latency, and the axis is not wound up.                                  *)
(*                                                                         *)
(* The argument unrolls the circle.  A revolution that starts at the angle *)
(* s passes the angles s+1 to s+Revolution; among them are the entry of    *)
(* the field, at Revolution, and one exit, at Exit(s).  Each is on file,   *)
(* or its interrupt is still due (Filed); so both are on file at the end,  *)
(* and which of the two is the greater tells where s was.                  *)
(***************************************************************************)
EXTENDS HallHoming, TLAPS

\* The motor: a movement is under way as long as there are steps left.
Motion ==
  /\ state = "MOVING" => position # goal
  /\ pulse = 1 => state = "MOVING"
  /\ pc = "homed" => state # "MOVING"

\* Without sensors nothing is ever on file.
Unheard == ~halls => ~edge /\ magn_pos_hl = 0 /\ magn_pos_lh = 0

\* The exit of the field in a revolution from s.
Exit(s) == IF s < Field THEN Field ELSE Revolution + Field

\* An edge at the angle e, passed at a, is on file or due.
Due(a, e) == edge /\ a = e + late
Filed(pos, s, e) == pos \in e - s - 1 .. e - s + Latency /\ pos \in 0..Revolution

\* The revolution began at s and has come to s + position + pulse.
Sweep(s) ==
  LET a == s + position + pulse IN
  /\ rotor = IF a < Revolution THEN a ELSE a - Revolution
  /\ halls =>
       /\ a >= Exit(s) => Due(a, Exit(s)) \/ Filed(magn_pos_lh, s, Exit(s))
       /\ a >= Revolution => Due(a, Revolution) \/ Filed(magn_pos_hl, s, Revolution)
       /\ edge => Due(a, Exit(s)) \/ Due(a, Revolution)

Turning ==
  pc = "turn" /\ state # "DISABLED" =>
    /\ goal = Revolution /\ position \in 0..Revolution
    /\ state = "ENABLED" => position = Revolution
    /\ \E s \in 0..Revolution - 1 : Sweep(s)

\* Up to the latency and the pulse, t is the middle of the field.
Middle(t) == 2 * t \in Field - 3 .. Field + 2 * Latency

\* The way home leads to the middle, without passing the entry again.
Homeward ==
  pc = "home" /\ state # "DISABLED" =>
    /\ goal \in 0 .. Revolution + (Field + Latency) \div 2
    /\ position >= 0 /\ (position <= Revolution \/ position <= goal)
    /\ state = "ENABLED" => position = goal
    /\ halls => \E t \in 0..Revolution - 1 :
         Middle(t) /\ rotor = t + position + Direction * pulse - goal

Homed == halls /\ pc = "homed" /\ state = "ENABLED" => Middle(rotor)

IInv == TypeOK /\ Motion /\ Unheard /\ Turning /\ Homeward /\ Homed

-----------------------------------------------------------------------------
(* Arithmetic. *)

\* What the assumptions say of the sizes, without the bounds of int32_t.
LEMMA Sizes ==
  /\ Revolution \in Nat /\ Field \in Nat /\ Latency \in Nat /\ Modulus \in Nat
  /\ Latency + 1 < Field /\ Field + Latency < Revolution
  /\ 4 * Revolution < Modulus
  /\ 0 \in Int32 /\ 0 .. 2 * Revolution - 1 \subseteq Int32
  BY RevolutionAssumption, ModulusAssumption DEF Int32

\* A number below the modulus is its own remainder.
LEMMA Remainder ==
  ASSUME NEW n \in Nat \ {0}, NEW x \in 0..n - 1
  PROVE  x % n = x
<1> DEFINE q == x \div n
           r == x % n
<1>1. q \in Int /\ r \in 0..n - 1 /\ x = n * q + r
  OBVIOUS
<1>2. q = 0
  <2> HIDE DEF q, r
  <2>1. q >= 1 => n * q >= n
    BY <1>1
  <2>2. q <= -1 => n * q <= -n
    BY <1>1
  <2> QED
    BY <1>1, <2>1, <2>2
<1> QED
  BY <1>1, <1>2

\* The rotor after one step.
LEMMA OneStep ==
  ASSUME NEW x \in 0..Revolution - 1
  PROVE  /\ (x + 1) % Revolution = IF x + 1 = Revolution THEN 0 ELSE x + 1
         /\ (x - 1) % Revolution = IF x = 0 THEN Revolution - 1 ELSE x - 1
<1>1. Revolution \in Nat \ {0}
  BY Sizes
<1>2. x + 1 # Revolution => (x + 1) % Revolution = x + 1
  BY <1>1, Remainder
<1>3. x # 0 => (x - 1) % Revolution = x - 1
  BY <1>1, Remainder
<1>4. Revolution % Revolution = 0
  BY <1>1
<1>5. (-1) % Revolution = Revolution - 1
  BY <1>1
<1> QED
  BY <1>1, <1>2, <1>3, <1>4, <1>5

-----------------------------------------------------------------------------
(* The home computed. *)

\* A revolution that is over, its interrupts served, has both edges on file.
LEMMA BothOnFile ==
  ASSUME NEW s \in 0..Revolution - 1, Sweep(s), halls, ~edge,
         position = Revolution, pulse = 0
  PROVE  /\ Filed(magn_pos_lh, s, Exit(s)) /\ Filed(magn_pos_hl, s, Revolution)
         /\ rotor = s
  BY Sizes DEF Sweep, Due, Exit

\* From both of them the home comes out in the middle, wherever the start was,
\* and no further away than the one that can be filed at the very end.
LEMMA HomeOfSweep ==
  ASSUME NEW s \in 0..Revolution - 1,
         Filed(magn_pos_lh, s, Exit(s)), Filed(magn_pos_hl, s, Revolution)
  PROVE  /\ HomeGoal \in 0 .. Revolution + (Field + Latency) \div 2
         /\ Middle(s + HomeGoal - Revolution)
         /\ s + HomeGoal - Revolution \in 0..Revolution - 1
<1> DEFINE sum == magn_pos_lh + magn_pos_hl
<1>1. magn_pos_lh \in 0..Revolution /\ magn_pos_hl \in 0..Revolution
  BY DEF Filed
<1>2. CASE s < Field
  <2>1. magn_pos_lh <= magn_pos_hl
    BY <1>2, Sizes DEF Filed, Exit
  <2>2. sum + Revolution \in 0..Modulus - 1
    BY <1>1, Sizes
  <2>3. (magn_pos_hl + magn_pos_lh + Revolution) % Modulus = sum + Revolution
    BY <1>1, <2>2, Remainder, Sizes
  <2>4. HomeGoal = (sum + Revolution) \div 2
    BY <1>1, <2>1, <2>3 DEF HomeGoal
  <2>5. 2 * (s + HomeGoal - Revolution) \in Field - 3 .. Field + 2 * Latency
    BY <1>1, <1>2, <2>4, Sizes DEF Filed, Exit
  <2>6. HomeGoal \in 0 .. Revolution + (Field + Latency) \div 2
    BY <1>1, <1>2, <2>4, Sizes DEF Filed, Exit
  <2> QED
    BY <2>5, <2>6, Sizes DEF Middle
<1>3. CASE s >= Field
  <2>1. magn_pos_lh > magn_pos_hl
    BY <1>3, Sizes DEF Filed, Exit
  <2>2. HomeGoal = sum \div 2
    BY <1>1, <2>1 DEF HomeGoal, Half
  <2>3. 2 * (s + HomeGoal - Revolution) \in Field - 3 .. Field + 2 * Latency
    BY <1>1, <1>3, <2>2, Sizes DEF Filed, Exit
  <2>4. HomeGoal \in 0 .. Revolution + (Field + Latency) \div 2
    BY <1>1, <1>3, <2>2, Sizes
  <2> QED
    BY <2>3, <2>4, Sizes DEF Middle
<1> QED
  BY <1>2, <1>3, Sizes

\* Without sensors the home is half a revolution away.
LEMMA HomeUnheard ==
  ASSUME magn_pos_hl = 0, magn_pos_lh = 0
  PROVE  HomeGoal \in 0 .. Revolution + (Field + Latency) \div 2
<1>1. (0 + 0 + Revolution) % Modulus = Revolution
  BY Remainder, Sizes
<1> QED
  BY <1>1, Sizes DEF HomeGoal

-----------------------------------------------------------------------------
(* The invariant. *)

LEMMA Starts == Init => IInv
<1> SUFFICES ASSUME Init PROVE IInv
  OBVIOUS
<1>1. TypeOK
  <2>1. halls \in BOOLEAN /\ edge \in BOOLEAN
    BY HallsAssumption DEF Init
  <2>2. 0 \in Int32 /\ late \in 0..Latency
    BY Sizes DEF Init
  <2> QED
    BY <2>1, <2>2 DEF Init, TypeOK
<1>2. Motion /\ Unheard /\ Turning /\ Homeward /\ Homed
  BY DEF Init, Motion, Unheard, Turning, Homeward, Homed
<1> QED
  BY <1>1, <1>2 DEF IInv

\* An edge the rotor passes is one of the two of the sweep.
LEMMA EdgePassed ==
  ASSUME NEW s \in 0..Revolution - 1, NEW a \in s .. s + Revolution - 1,
         rotor = IF a < Revolution THEN a ELSE a - Revolution
  PROVE  /\ (rotor + 1) % Revolution =
              IF a + 1 < Revolution THEN a + 1 ELSE a + 1 - Revolution
         /\ Low(rotor) # Low((rotor + 1) % Revolution)
              <=> a + 1 = Exit(s) \/ a + 1 = Revolution
<1>1. rotor \in 0..Revolution - 1
  BY Sizes
<1>2. (rotor + 1) % Revolution =
        IF a + 1 < Revolution THEN a + 1 ELSE a + 1 - Revolution
  BY <1>1, OneStep, Sizes
<1> QED
  BY <1>1, <1>2, Sizes DEF Low, Exit

LEMMA RisingSweeps ==
  ASSUME TypeOK, Unheard, NEW s \in 0..Revolution - 1, Sweep(s),
         goal = Revolution, position \in 0..Revolution - 1, RisingEdge
  PROVE  Sweep(s)'
<1> DEFINE a == s + position
<1>1. /\ pulse = 0 /\ pulse' = 1 /\ position' = position /\ halls' = halls
      /\ UNCHANGED <<magn_pos_hl, magn_pos_lh>>
      /\ rotor' = (rotor + 1) % Revolution
      /\ late < Latency \/ ~edge
      /\ edge' = (edge \/ (halls /\ Low(rotor) # Low((rotor + 1) % Revolution)))
      /\ late' = IF edge THEN late + 1 ELSE 0
  <2>1. Direction = 1
    BY Sizes DEF Direction
  <2> QED
    BY <2>1 DEF RisingEdge, Turn
<1>2. /\ rotor = IF a < Revolution THEN a ELSE a - Revolution
      /\ halls =>
           /\ a >= Exit(s) => Due(a, Exit(s)) \/ Filed(magn_pos_lh, s, Exit(s))
           /\ a >= Revolution =>
                Due(a, Revolution) \/ Filed(magn_pos_hl, s, Revolution)
           /\ edge => Due(a, Exit(s)) \/ Due(a, Revolution)
  BY <1>1 DEF Sweep
<1>3. a \in s .. s + Revolution - 1 /\ edge \in BOOLEAN /\ late \in 0..Latency
  BY DEF TypeOK
<1>4. /\ rotor' = IF a + 1 < Revolution THEN a + 1 ELSE a + 1 - Revolution
      /\ Low(rotor) # Low((rotor + 1) % Revolution)
           <=> a + 1 = Exit(s) \/ a + 1 = Revolution
  BY <1>1, <1>2, <1>3, EdgePassed
<1>9. s + position' + pulse' = a + 1
  BY <1>1
<1> HIDE DEF a
<1>5. Exit(s) \in Nat /\ Exit(s) # Revolution /\ Exit(s) > s
  BY Sizes DEF Exit
<1>10. ASSUME /\ halls =>
                   /\ a + 1 >= Exit(s) => \/ edge' /\ a + 1 = Exit(s) + late'
                                          \/ Filed(magn_pos_lh, s, Exit(s))
                   /\ a + 1 >= Revolution => \/ edge' /\ a + 1 = Revolution + late'
                                             \/ Filed(magn_pos_hl, s, Revolution)
                   /\ edge' => \/ a + 1 = Exit(s) + late'
                               \/ a + 1 = Revolution + late'
       PROVE  Sweep(s)'
  BY <1>1, <1>3, <1>4, <1>9, <1>10, Sizes DEF Sweep, Due, Filed, Exit, a
<1>6. CASE halls /\ edge
  <2>1. late' = late + 1 /\ edge'
    BY <1>1, <1>6
  <2>2. a + 1 # Exit(s) /\ a + 1 # Revolution
    BY <1>1, <1>2, <1>3, <1>6, Sizes DEF Exit, Due
  <2>3. /\ a + 1 >= Exit(s) =>
             (a + 1 = Exit(s) + late') \/ Filed(magn_pos_lh, s, Exit(s))
        /\ a + 1 >= Revolution =>
             (a + 1 = Revolution + late') \/ Filed(magn_pos_hl, s, Revolution)
        /\ (a + 1 = Exit(s) + late') \/ (a + 1 = Revolution + late')
    BY <1>2, <1>3, <1>5, <1>6, <2>1, <2>2, Sizes DEF Due
  <2> QED
    BY <1>10, <2>1, <2>3
<1>7. CASE halls /\ ~edge
  <2>1. late' = 0 /\ (edge' <=> a + 1 = Exit(s) \/ a + 1 = Revolution)
    BY <1>1, <1>4, <1>7
  <2>2. /\ a + 1 >= Exit(s) =>
             a + 1 = Exit(s) \/ Filed(magn_pos_lh, s, Exit(s))
        /\ a + 1 >= Revolution =>
             a + 1 = Revolution \/ Filed(magn_pos_hl, s, Revolution)
    BY <1>2, <1>3, <1>5, <1>7, Sizes DEF Due
  <2> QED
    BY <1>3, <1>5, <1>10, <2>1, <2>2
<1>8. CASE ~halls
  BY <1>8, <1>10
<1> QED
  BY <1>6, <1>7, <1>8

LEMMA ServedSweeps ==
  ASSUME TypeOK, Unheard, NEW s \in 0..Revolution - 1, Sweep(s),
         position \in 0..Revolution, pulse = 1 => position < Revolution, hall_isr
  PROVE  Sweep(s)'
<1> DEFINE a == s + position + pulse
<1>1. /\ edge /\ halls /\ edge' = FALSE
      /\ UNCHANGED <<rotor, position, pulse, halls>>
      /\ late \in 0..Latency /\ pulse \in {0, 1}
      /\ magn_pos_hl' = IF Low(rotor) THEN position ELSE magn_pos_hl
      /\ magn_pos_lh' = IF Low(rotor) THEN magn_pos_lh ELSE position
  BY DEF hall_isr, Unheard, TypeOK, motor
<1>2. /\ rotor = IF a < Revolution THEN a ELSE a - Revolution
      /\ a >= Exit(s) => Due(a, Exit(s)) \/ Filed(magn_pos_lh, s, Exit(s))
      /\ a >= Revolution => Due(a, Revolution) \/ Filed(magn_pos_hl, s, Revolution)
      /\ Due(a, Exit(s)) \/ Due(a, Revolution)
  BY <1>1 DEF Sweep
<1>3. CASE Due(a, Exit(s))
  <2>1. ~Low(rotor) /\ a # Revolution + late
    BY <1>1, <1>2, <1>3, Sizes DEF Due, Exit, Low
  <2>2. Filed(position, s, Exit(s))
    BY <1>1, <1>3, Sizes DEF Due, Exit, Filed
  <2> QED
    BY <1>1, <1>2, <2>1, <2>2 DEF Sweep, Due, Filed, Exit
<1>4. CASE Due(a, Revolution)
  <2>1. Low(rotor) /\ a # Exit(s) + late
    BY <1>1, <1>2, <1>4, Sizes DEF Due, Exit, Low
  <2>2. Filed(position, s, Revolution)
    BY <1>1, <1>4, Sizes DEF Due, Filed
  <2> QED
    BY <1>1, <1>2, <2>1, <2>2 DEF Sweep, Due, Filed, Exit
<1> QED
  BY <1>2, <1>3, <1>4

-----------------------------------------------------------------------------
(* Each step keeps the invariant. *)

LEMMA ServedKeeps == IInv /\ hall_isr => IInv'
<1> SUFFICES ASSUME IInv, hall_isr PROVE IInv'
  OBVIOUS
<1> USE DEF IInv
<1>1. UNCHANGED <<rotor, pulse, position, goal, state, halls, pc>>
  BY DEF hall_isr, motor
<1>2. TypeOK'
  <2>1. magn_pos_hl' \in Int32 /\ magn_pos_lh' \in Int32
    BY DEF TypeOK, hall_isr
  <2>2. edge' = FALSE /\ late' = 0 /\ 0 \in 0..Latency
    BY Sizes DEF hall_isr
  <2> QED
    BY <1>1, <2>1, <2>2 DEF TypeOK
<1>3. Motion' /\ Homed'
  BY <1>1 DEF Motion, Homed
<1>4. Unheard'
  BY <1>1 DEF Unheard, hall_isr
<1>5. Turning'
  <2> SUFFICES ASSUME pc = "turn", state # "DISABLED" PROVE Turning'
    BY <1>1 DEF Turning
  <2>1. PICK s \in 0..Revolution - 1 : Sweep(s)
    BY DEF Turning
  <2>2. position \in 0..Revolution /\ (pulse = 1 => position < Revolution)
    BY Sizes DEF Turning, Motion
  <2>3. Sweep(s)'
    BY <2>1, <2>2, ServedSweeps
  <2> QED
    BY <1>1, <2>3 DEF Turning
<1>6. Homeward'
  BY <1>1 DEF Homeward, Direction
<1> QED
  BY <1>2, <1>3, <1>4, <1>5, <1>6

\* On the way home the rotor stays on the unrolled circle.
LEMMA RisingHomes ==
  ASSUME TypeOK, Homeward, pc = "home", halls, RisingEdge
  PROVE  \E t \in 0..Revolution - 1 :
           Middle(t) /\ rotor' = t + position' + Direction' * pulse' - goal'
<1>1. /\ UNCHANGED <<position, goal>> /\ pulse = 0 /\ pulse' = 1
      /\ state = "MOVING" /\ position # goal
      /\ rotor' = (rotor + Direction) % Revolution
  BY DEF RisingEdge, Turn
<1>2. position \in Int /\ goal \in Int /\ rotor \in 0..Revolution - 1
  BY DEF TypeOK, Int32
<1>3. PICK t \in 0..Revolution - 1 :
        Middle(t) /\ rotor = t + position + Direction * pulse - goal
  BY <1>1 DEF Homeward
<1>4. rotor = t + position - goal /\ Direction' = Direction
  BY <1>1, <1>2, <1>3 DEF Direction
<1>5. rotor' = rotor + Direction
  <2>1. CASE goal > position
    <3>1. Direction = 1 /\ rotor + 1 # Revolution
      BY <1>2, <1>4, <2>1, Sizes DEF Direction
    <3> QED
      BY <1>1, <1>2, <3>1, OneStep
  <2>2. CASE ~(goal > position)
    <3>1. Direction = -1 /\ rotor # 0
      BY <1>1, <1>2, <1>4, <2>2, Sizes DEF Direction
    <3>2. rotor + Direction = rotor - 1
      BY <1>2, <3>1
    <3> QED
      BY <1>1, <1>2, <3>1, <3>2, OneStep
  <2> QED
    BY <2>1, <2>2
<1>6. rotor' = t + position' + Direction' * pulse' - goal'
  BY <1>1, <1>2, <1>4, <1>5 DEF Direction
<1> QED
  BY <1>3, <1>6

LEMMA RisingKeeps == IInv /\ RisingEdge => IInv'
<1> SUFFICES ASSUME IInv, RisingEdge PROVE IInv'
  OBVIOUS
<1> USE DEF IInv
<1>1. /\ UNCHANGED <<position, goal, state, halls, pc, magn_pos_hl, magn_pos_lh>>
      /\ state = "MOVING" /\ position # goal /\ pulse' = 1
  BY DEF RisingEdge, Turn
<1>2. TypeOK'
  <2>1. rotor' \in 0..Revolution - 1
    <3>1. (rotor + Direction) % Revolution \in 0..Revolution - 1
      BY Sizes DEF TypeOK, Direction
    <3> QED
      BY <3>1 DEF RisingEdge, Turn
  <2>2. edge' \in BOOLEAN /\ late' \in 0..Latency
    BY Sizes DEF TypeOK, RisingEdge, Turn
  <2> QED
    BY <1>1, <2>1, <2>2 DEF TypeOK
<1>3. Motion' /\ Homed'
  BY <1>1 DEF Motion, Homed
<1>4. Unheard'
  <2>1. ASSUME ~halls PROVE ~edge'
    BY <2>1 DEF Unheard, RisingEdge, Turn
  <2> QED
    BY <1>1, <2>1 DEF Unheard
<1>5. Turning'
  <2> SUFFICES ASSUME pc = "turn" PROVE Turning'
    BY <1>1 DEF Turning
  <2>1. PICK s \in 0..Revolution - 1 : Sweep(s)
    BY <1>1 DEF Turning
  <2>2. goal = Revolution /\ position \in 0..Revolution - 1
    BY <1>1, Sizes DEF Turning
  <2>3. Sweep(s)'
    BY <2>1, <2>2, RisingSweeps
  <2> QED
    BY <1>1, <2>2, <2>3, Sizes DEF Turning
<1>6. Homeward'
  BY <1>1, RisingHomes DEF Homeward
<1> QED
  BY <1>2, <1>3, <1>4, <1>5, <1>6

LEMMA FallingKeeps == IInv /\ FallingEdge => IInv'
<1> SUFFICES ASSUME IInv, FallingEdge PROVE IInv'
  OBVIOUS
<1> USE DEF IInv
<1>1. /\ UNCHANGED <<rotor, goal, halls, pc, magn_pos_hl, magn_pos_lh, edge, late>>
      /\ state = "MOVING" /\ position # goal /\ pulse = 1 /\ pulse' = 0
      /\ position' = position + Direction
      /\ state' = IF position' = goal THEN "ENABLED" ELSE state
  BY DEF FallingEdge, Motion, sensor
<1>2. position \in Int32 /\ goal \in Int32 /\ rotor \in 0..Revolution - 1
  BY DEF TypeOK
<1>3. /\ position' \in Int32
      /\ goal > position => position' = position + 1 /\ position' <= goal
      /\ ~(goal > position) => position' = position - 1 /\ position' >= goal
  BY <1>1, <1>2, ModulusAssumption DEF Int32, Direction
<1>4. TypeOK'
  BY <1>1, <1>3 DEF TypeOK
<1>5. Motion' /\ Unheard' /\ Homed'
  BY <1>1 DEF Motion, Unheard, Homed
<1>6. Turning'
  <2> SUFFICES ASSUME pc = "turn" PROVE Turning'
    BY <1>1 DEF Turning
  <2>1. PICK s \in 0..Revolution - 1 : Sweep(s)
    BY <1>1 DEF Turning
  <2>2. goal = Revolution /\ position \in 0..Revolution - 1
    BY <1>1, Sizes DEF Turning
  <2>3. position' = position + 1 /\ position' <= Revolution
    BY <1>3, <2>2, Sizes
  <2>4. s + position' + pulse' = s + position + pulse
    BY <1>1, <2>2, <2>3
  <2>5. Sweep(s)'
    BY <1>1, <2>1, <2>4 DEF Sweep, Due, Filed, Exit
  <2> QED
    BY <1>1, <2>2, <2>3, <2>5, Sizes DEF Turning
<1>7. Homeward'
  <2> SUFFICES ASSUME pc = "home" PROVE Homeward'
    BY <1>1 DEF Homeward
  <2>1. /\ goal \in 0 .. Revolution + (Field + Latency) \div 2
        /\ position >= 0 /\ (position <= Revolution \/ position <= goal)
    BY <1>1 DEF Homeward
  <2>2. position' >= 0 /\ (position' <= Revolution \/ position' <= goal)
    BY <1>2, <1>3, <2>1, Sizes DEF Int32
  <2>3. ASSUME halls
        PROVE  \E t \in 0..Revolution - 1 :
                 Middle(t) /\ rotor = t + position' - goal
    BY <1>1, <1>2, <2>3 DEF Homeward, Int32, Direction
  <2>4. Direction' * pulse' = 0
    BY <1>1 DEF Direction
  <2>5. ASSUME halls
        PROVE  \E t \in 0..Revolution - 1 :
                 Middle(t) /\ rotor' = t + position' + Direction' * pulse' - goal'
    <3>1. PICK t \in 0..Revolution - 1 : Middle(t) /\ rotor = t + position' - goal
      BY <2>3, <2>5
    <3>2. t + position' - goal = t + position' + 0 - goal
      BY <1>2, <1>3 DEF Int32
    <3> QED
      BY <1>1, <2>4, <3>1, <3>2
  <2> QED
    BY <1>1, <2>1, <2>2, <2>5 DEF Homeward
<1> QED
  BY <1>4, <1>5, <1>6, <1>7

\* By hand the axis is turned only where no homing is under way.
LEMMA HandKeeps == IInv /\ (\E d \in {1, -1} : TurnByHand(d)) => IInv'
<1> SUFFICES ASSUME IInv, NEW d \in {1, -1}, TurnByHand(d) PROVE IInv'
  OBVIOUS
<1> USE DEF IInv
<1>1. /\ UNCHANGED <<pulse, position, goal, state, halls, magn_pos_hl, magn_pos_lh>>
      /\ state = "DISABLED" /\ pc' = "idle"
  BY DEF TurnByHand, Turn
<1>2. TypeOK'
  <2>1. rotor' \in 0..Revolution - 1
    BY Sizes DEF TypeOK, TurnByHand, Turn
  <2>2. edge' \in BOOLEAN /\ late' \in 0..Latency
    BY Sizes DEF TypeOK, TurnByHand, Turn
  <2> QED
    BY <1>1, <2>1, <2>2 DEF TypeOK
<1>3. Unheard'
  <2>1. ASSUME ~halls PROVE ~edge'
    BY <2>1 DEF Unheard, TurnByHand, Turn
  <2> QED
    BY <1>1, <2>1 DEF Unheard
<1>4. Motion' /\ Turning' /\ Homeward' /\ Homed'
  BY <1>1 DEF Motion, Turning, Homeward, Homed
<1> QED
  BY <1>2, <1>3, <1>4

LEMMA MovementKeeps == IInv /\ OtherMovement => IInv'
<1> SUFFICES ASSUME IInv, OtherMovement PROVE IInv'
  OBVIOUS
<1> USE DEF IInv
<1>1. /\ UNCHANGED <<rotor, pulse, position, halls, magn_pos_hl, magn_pos_lh, edge, late>>
      /\ state # "MOVING" /\ pc' = "idle"
  BY DEF OtherMovement, ThreadRuns, sensor
<1>2. PICK target \in Int32 : MoveTo(target)
  BY GoalsAssumption DEF OtherMovement
<1>3. TypeOK'
  BY <1>1, <1>2 DEF TypeOK, MoveTo
<1>4. Motion' /\ Unheard'
  BY <1>1, <1>2 DEF Motion, Unheard, MoveTo, TypeOK
<1>5. Turning' /\ Homeward' /\ Homed'
  BY <1>1 DEF Turning, Homeward, Homed
<1> QED
  BY <1>3, <1>4, <1>5

LEMMA ConfigureKeeps == IInv /\ Configure => IInv'
<1> SUFFICES ASSUME IInv, Configure PROVE IInv'
  OBVIOUS
<1>1. /\ UNCHANGED <<rotor, pulse, position, goal, halls>>
      /\ UNCHANGED <<magn_pos_hl, magn_pos_lh, edge, late>>
      /\ state # "MOVING" /\ state' \in {"DISABLED", "ENABLED"} /\ pc' = "idle"
  BY DEF Configure, ThreadRuns, sensor
<1> QED
  BY <1>1 DEF IInv, TypeOK, Motion, Unheard, Turning, Homeward, Homed

\* The revolution begins where the rotor stands, with no interrupt due.
LEMMA BeginKeeps == IInv /\ BeginHardHoming => IInv'
<1> SUFFICES ASSUME IInv, BeginHardHoming PROVE IInv'
  OBVIOUS
<1> USE DEF IInv
<1>1. /\ UNCHANGED <<rotor, pulse, magn_pos_lh, edge, late, halls>>
      /\ state # "MOVING" /\ ~edge /\ magn_pos_hl' = 0 /\ position' = 0
      /\ pc' = "turn"
  BY DEF BeginHardHoming, ThreadRuns
<1>2. \/ state = "DISABLED" /\ UNCHANGED <<goal, state>>
      \/ goal' = Revolution /\ state' = "MOVING"
  BY DEF BeginHardHoming
<1>3. Revolution \in Int32 /\ 0 \in Int32 /\ Revolution # 0
  BY Sizes
<1>4. TypeOK'
  BY <1>1, <1>2, <1>3 DEF TypeOK
<1>5. pulse = 0
  BY <1>1 DEF Motion, TypeOK
<1>6. Motion' /\ Unheard'
  BY <1>1, <1>2, <1>3, <1>5 DEF Motion, Unheard
<1>7. Turning'
  <2> SUFFICES ASSUME state' # "DISABLED" PROVE Turning'
    BY DEF Turning
  <2>1. goal' = Revolution /\ state' = "MOVING"
    BY <1>2
  <2>2. rotor + position' + pulse' = rotor /\ rotor \in 0..Revolution - 1
    BY <1>1, <1>5 DEF TypeOK
  <2>3. rotor < Exit(rotor) /\ rotor < Revolution
    BY <2>2, Sizes DEF Exit
  <2>4. Sweep(rotor)'
    BY <1>1, <2>2, <2>3, Sizes DEF Sweep, Exit
  <2> QED
    BY <1>1, <2>1, <2>2, <2>4, Sizes DEF Turning, Sweep, Due, Filed, Exit
<1>8. Homeward' /\ Homed'
  BY <1>1 DEF Homeward, Homed
<1> QED
  BY <1>4, <1>6, <1>7, <1>8

\* The home that is computed is the middle, seen from the end of the turn.
LEMMA MoveHomeKeeps == IInv /\ MoveHome => IInv'
<1> SUFFICES ASSUME IInv, MoveHome PROVE IInv'
  OBVIOUS
<1> USE DEF IInv
<1>1. /\ UNCHANGED <<rotor, pulse, position, halls, magn_pos_hl, magn_pos_lh, edge, late>>
      /\ state # "MOVING" /\ ~edge /\ pc = "turn" /\ pc' = "home" /\ MoveTo(HomeGoal)
  BY DEF MoveHome, ThreadRuns, sensor
<1>2. pulse = 0
  BY <1>1 DEF Motion, TypeOK
<1>3. CASE state = "DISABLED"
  <2>1. UNCHANGED <<goal, state>>
    BY <1>1, <1>3 DEF MoveTo
  <2> QED
    BY <1>1, <1>3, <2>1 DEF TypeOK, Motion, Unheard, Turning, Homeward, Homed
<1>4. CASE state = "ENABLED"
  <2>1. goal = Revolution /\ position = Revolution
    BY <1>1, <1>4 DEF Turning
  <2>2. PICK s \in 0..Revolution - 1 : Sweep(s)
    BY <1>1, <1>4 DEF Turning
  <2>3. ASSUME halls
        PROVE  /\ Filed(magn_pos_lh, s, Exit(s)) /\ Filed(magn_pos_hl, s, Revolution)
               /\ rotor = s
    BY <1>1, <1>2, <2>1, <2>2, <2>3, BothOnFile
  <2>4. HomeGoal \in 0 .. Revolution + (Field + Latency) \div 2
    BY <2>3, HomeOfSweep, HomeUnheard DEF Unheard
  <2>5. HomeGoal \in Int32
    BY <2>4, Sizes
  <2>6. /\ goal' = HomeGoal
        /\ state' = IF HomeGoal = position THEN "ENABLED" ELSE "MOVING"
    BY <1>1, <1>4, <2>1 DEF MoveTo
  <2>7. ASSUME halls
        PROVE  \E t \in 0..Revolution - 1 :
                 Middle(t) /\ rotor' = t + position' + Direction' * pulse' - goal'
    <3>1. /\ Middle(s + HomeGoal - Revolution)
          /\ s + HomeGoal - Revolution \in 0..Revolution - 1
      BY <2>3, <2>7, HomeOfSweep
    <3>2. rotor' = s /\ position' = Revolution /\ Direction' * pulse' = 0
      BY <1>1, <1>2, <2>1, <2>3, <2>7 DEF Direction
    <3>3. s = (s + HomeGoal - Revolution) + Revolution + 0 - HomeGoal
      BY <2>4, Sizes
    <3> QED
      BY <2>6, <3>1, <3>2, <3>3
  <2>8. TypeOK' /\ Motion' /\ Unheard'
    BY <1>1, <1>2, <2>5, <2>6 DEF TypeOK, Motion, Unheard
  <2>9. Homeward'
    BY <1>1, <2>1, <2>4, <2>6, <2>7, Sizes DEF Homeward
  <2> QED
    BY <1>1, <2>8, <2>9 DEF Turning, Homed
<1> QED
  BY <1>1, <1>3, <1>4 DEF TypeOK

LEMMA SetHomeKeeps == IInv /\ SetHome => IInv'
<1> SUFFICES ASSUME IInv, SetHome PROVE IInv'
  OBVIOUS
<1> USE DEF IInv
<1>1. /\ UNCHANGED <<rotor, pulse, goal, state, halls, magn_pos_hl, magn_pos_lh, edge, late>>
      /\ state # "MOVING" /\ pc = "home" /\ pc' = "homed" /\ position' = 0
  BY DEF SetHome, ThreadRuns, sensor
<1>2. pulse = 0
  BY <1>1 DEF Motion, TypeOK
<1>3. TypeOK' /\ Motion' /\ Unheard' /\ Turning' /\ Homeward'
  BY <1>1, <1>2, Sizes DEF TypeOK, Motion, Unheard, Turning, Homeward
<1>4. ASSUME halls, state = "ENABLED" PROVE Middle(rotor)
  <2>1. position = goal
    BY <1>1, <1>4 DEF Homeward
  <2>2. PICK t \in 0..Revolution - 1 :
          Middle(t) /\ rotor = t + position + Direction * pulse - goal
    BY <1>1, <1>4 DEF Homeward
  <2>3. rotor = t
    BY <1>2, <2>1, <2>2 DEF TypeOK, Int32, Direction
  <2> QED
    BY <2>2, <2>3
<1>5. Homed'
  BY <1>1, <1>4 DEF Homed, Middle
<1> QED
  BY <1>3, <1>5

LEMMA Goes == IInv /\ [Next]_vars => IInv'
<1> SUFFICES ASSUME IInv, [Next]_vars PROVE IInv'
  OBVIOUS
<1>1. CASE hall_isr
  BY <1>1, ServedKeeps
<1>2. CASE RisingEdge
  BY <1>2, RisingKeeps
<1>3. CASE FallingEdge
  BY <1>3, FallingKeeps
<1>4. CASE \E d \in {1, -1} : TurnByHand(d)
  BY <1>4, HandKeeps
<1>5. CASE OtherMovement
  BY <1>5, MovementKeeps
<1>6. CASE Configure
  BY <1>6, ConfigureKeeps
<1>7. CASE BeginHardHoming
  BY <1>7, BeginKeeps
<1>8. CASE MoveHome
  BY <1>8, MoveHomeKeeps
<1>9. CASE SetHome
  BY <1>9, SetHomeKeeps
<1>10. CASE UNCHANGED vars
  <2>1. UNCHANGED <<rotor, pulse, position, goal, state>>
    BY <1>10 DEF vars, motor
  <2>2. UNCHANGED <<magn_pos_hl, magn_pos_lh, edge, late, halls, pc>>
    BY <1>10 DEF vars, sensor
  <2> QED
    BY <2>1, <2>2 DEF IInv, TypeOK, Motion, Unheard, Turning, Sweep, Due, Filed,
                      Exit, Homeward, Homed, Direction, Middle
<1> QED
  BY <1>1, <1>2, <1>3, <1>4, <1>5, <1>6, <1>7, <1>8, <1>9, <1>10 DEF Next

LEMMA Keeps == Spec => []IInv
  BY Starts, Goes, PTL DEF Spec

-----------------------------------------------------------------------------
(* The theorems. *)

\* Every variable keeps its range; the positions stay values of int32_t, and no
\* step of the driver leaves them.
THEOREM TypeCorrect == Spec => []TypeOK
<1>1. IInv => TypeOK
  BY DEF IInv
<1> QED
  BY <1>1, Keeps, PTL

\* The reference a hard homing sets is the middle of the field: for every
\* circle, field and latency the assumptions allow, wherever the rotor stood,
\* whatever earlier movements left on file, and however late hall_isr ran.
THEOREM HomeIsTheMiddle == Spec => []HomedAtMiddle
<1>1. IInv => HomedAtMiddle
  <2> SUFFICES ASSUME IInv, halls, pc = "homed", state = "ENABLED"
               PROVE  OffMiddle(rotor) \in -2 .. 2 * Latency + 1
    BY DEF HomedAtMiddle
  <2>1. rotor \in Int /\ 2 * rotor \in Field - 3 .. Field + 2 * Latency
    BY DEF IInv, TypeOK, Homed, Middle
  <2> QED
    BY <2>1, Sizes DEF OffMiddle
<1> QED
  BY <1>1, Keeps, PTL

\* A hard homing does not wind the cables up: it ends after one revolution and
\* half a field at most, with sensors or without them.
THEOREM StaysClose == Spec => []HomingStaysClose
<1>1. IInv => HomingStaysClose
  <2> SUFFICES ASSUME IInv, pc \in {"turn", "home"}, state = "MOVING"
               PROVE  position \in 0 .. Revolution + (Field + Latency) \div 2 - 1
    BY DEF HomingStaysClose
  <2>1. position # goal /\ (Field + Latency) \div 2 \in Nat \ {0}
    BY Sizes DEF IInv, Motion
  <2>2. CASE pc = "turn"
    BY <2>1, <2>2, Sizes DEF IInv, Turning
  <2>3. CASE pc = "home"
    BY <2>1, <2>3, Sizes DEF IInv, Homeward, TypeOK, Int32
  <2> QED
    BY <2>2, <2>3
<1> QED
  BY <1>1, Keeps, PTL
=============================================================================
