--------------------------- MODULE MotionRoutines ---------------------------
(***************************************************************************)
(* What the command thread does with the three motors and the laser        *)
(* (handle_setup, handle_target, handle_homing in src/src/main.c).  A      *)
(* routine is straight-line code once its command is known, so it is the   *)
(* sequence of its operations here; the motors move on their own between   *)
(* and during them, as MotorContract says (StepperAxis is why).            *)
(***************************************************************************)
EXTENDS Integers, Sequences

CONSTANTS
  TargetGoals,   \* the step_goals of TARGET commands
  StarDiameters, \* their star_diameter
  ScanLimits,    \* their scan_limit
  Revolution,    \* steps of one revolution (of pitch and of yaw)
  HomeGoals      \* where hard homing may find the middle of a magnet

ASSUME GoalsAssumption == TargetGoals \subseteq [{"pitch", "yaw", "slide"} -> Int]
ASSUME PatternAssumption == StarDiameters \cup ScanLimits \subseteq Nat
ASSUME HomeAssumption == Revolution \in Nat /\ HomeGoals \subseteq Nat

Motors == {"pitch", "yaw", "slide"}
OnOff == [Motors -> BOOLEAN]

Setups == [type : {"SETUP"}, en_motors : OnOff]
Targets == [type : {"TARGET"}, step_goals : TargetGoals, star : StarDiameters,
            scan : ScanLimits, laser : BOOLEAN]
Homings == [type : {"HOMING", "SOFT_HOMING", "HARD_HOMING"}]
NoCommand == [type |-> "none"]

VARIABLES
  system_state,
  active,   \* the command being carried out, or the last one
  script,   \* the operations left of its routine
  motor,    \* per motor: state, position and goal (see MotorContract) and
            \* errand, the call that began its last movement
  laser     \* "off", "timed" (blocking flash) or "steady"

vars == <<system_state, active, script, motor, laser>>

-----------------------------------------------------------------------------
(* The routines. *)

By(m, n) == [op |-> "by", m |-> m, n |-> n]
To(m, n) == [op |-> "to", m |-> m, n |-> n]
Wait(m) == [op |-> "wait", m |-> m, n |-> 0]
Reference(m) == [op |-> "reference", m |-> m, n |-> 0]
ToMagnet(m) == [op |-> "magnet", m |-> m, n |-> 0]
Enable(m, on) == [op |-> "enable", m |-> m, n |-> IF on THEN 1 ELSE 0]
Laser(what) == [op |-> what, m |-> "pitch", n |-> 0]

\* Mutant: the slide is not waited for.
WaitWithoutSlide == <<Wait("pitch"), Wait("yaw")>>

WaitAll == <<Wait("pitch"), Wait("yaw"), Wait("slide")>>
WaitBoth == <<Wait("pitch"), Wait("yaw")>>

\* Mutant: the way back is as long as the way out.
scan_half_pattern(d) == <<By("pitch", d), By("pitch", -d), By("pitch", d)>>

scan_pattern(d) == <<By("pitch", d), By("pitch", -2 * d), By("pitch", d)>>

\* Vertical, horizontal, then the two diagonals; the halves round down.
star_pattern(d) ==
  LET half == d \div 2
      Stroke(m) == <<By(m, half), By(m, -d), By(m, half)>>
      Diagonal(s) ==
        <<By("pitch", half), By("yaw", s * half)>> \o WaitBoth
        \o <<By("pitch", -d), By("yaw", -s * d)>> \o WaitBoth
        \o <<By("pitch", half), By("yaw", s * half)>>
  IN Stroke("pitch") \o Stroke("yaw") \o Diagonal(1) \o Diagonal(-1)

\* Mutant: the scan comes before the goals.
simple_target_late(goals, scan) ==
  (IF scan > 0 THEN scan_pattern(scan) ELSE <<>>)
  \o <<To("pitch", goals["pitch"]), To("yaw", goals["yaw"]),
       To("slide", goals["slide"])>>

simple_target(goals, scan) ==
  <<To("pitch", goals["pitch"]), To("yaw", goals["yaw"]),
    To("slide", goals["slide"])>>
  \o (IF scan > 0 THEN scan_pattern(scan) ELSE <<>>)

activate_led_for_ms_blocking(on) ==
  IF on THEN <<Laser("flash"), Laser("off")>> ELSE <<>>

\* A star overrides the scan and the timed laser.
handle_target(c) ==
  IF c.star = 0
  THEN simple_target(c.step_goals, c.scan) \o WaitAll
         \o activate_led_for_ms_blocking(c.laser)
  ELSE simple_target(c.step_goals, 0)
         \o <<Laser("steady")>> \o star_pattern(c.star) \o <<Laser("off")>>
         \o WaitAll

\* Mutant: the middle of the magnet does not become the reference.
hard_homing_without_reference ==
  <<Reference("pitch"), Reference("yaw"),
    By("pitch", Revolution), By("yaw", Revolution)>> \o WaitBoth
  \o <<ToMagnet("pitch"), Wait("pitch"), ToMagnet("yaw"), Wait("yaw")>>

\* Mutant: yaw is not waited for.
hard_homing_in_haste ==
  <<Reference("pitch"), Reference("yaw"),
    By("pitch", Revolution), By("yaw", Revolution)>> \o WaitBoth
  \o <<ToMagnet("pitch"), Wait("pitch"), Reference("pitch"),
       ToMagnet("yaw"), Reference("yaw")>>

\* The reference is set first; then the motors turn past their magnets.
hard_homing ==
  <<Reference("pitch"), Reference("yaw"),
    By("pitch", Revolution), By("yaw", Revolution)>> \o WaitBoth
  \o <<ToMagnet("pitch"), Wait("pitch"), Reference("pitch"),
       ToMagnet("yaw"), Wait("yaw"), Reference("yaw")>>

handle_homing(type) ==
  CASE type = "HARD_HOMING" -> hard_homing
    [] type = "SOFT_HOMING" ->
         <<Reference("pitch"), Reference("yaw"), Reference("slide")>>
    [] type = "HOMING" ->
         <<To("pitch", 0), To("yaw", 0), To("slide", 0)>> \o WaitAll

handle_setup(c) ==
  <<Enable("pitch", c.en_motors["pitch"]), Enable("yaw", c.en_motors["yaw"]),
    Enable("slide", c.en_motors["slide"])>>

Routine(c) ==
  CASE c.type = "SETUP" -> handle_setup(c)
    [] c.type = "TARGET" -> handle_target(c)
    [] OTHER -> handle_homing(c.type)

StateOf(type) ==
  CASE type = "SETUP" -> "CONFIGURING"
    [] type = "TARGET" -> "MOVING"
    [] OTHER -> "CALIBRATING"

-----------------------------------------------------------------------------
(* The command thread. *)

Begin(c) ==
  /\ system_state = "READY"
  /\ system_state' = StateOf(c.type)
  /\ active' = c
  /\ script' = Routine(c)
  /\ UNCHANGED <<motor, laser>>

\* The next operation is one of ops, and is over after this step.
Do(ops) ==
  /\ script # <<>>
  /\ Head(script).op \in ops
  /\ script' = Tail(script)
  /\ UNCHANGED <<system_state, active>>

\* move_savely_by and move_savely_to towards `target`: a disabled motor is
\* skipped, a moving one waited for, no steps are over at once.
MoveSavely(target) ==
  LET m == Head(script).m
  IN /\ motor[m].state # "MOVING"
     /\ motor' =
          IF motor[m].state = "DISABLED" THEN motor
          ELSE [motor EXCEPT ![m] =
                  [state |-> IF target = @.position THEN "ENABLED" ELSE "MOVING",
                   position |-> @.position, goal |-> target,
                   errand |-> Head(script).op]]
     /\ UNCHANGED laser

DoMove ==
  \/ Do({"by"}) /\ MoveSavely(motor[Head(script).m].position + Head(script).n)
  \/ Do({"to"}) /\ MoveSavely(Head(script).n)
  \/ Do({"magnet"}) /\ \E home \in HomeGoals : MoveSavely(home)

DoWait ==
  /\ Do({"wait"})
  /\ motor[Head(script).m].state # "MOVING"
  /\ UNCHANGED <<motor, laser>>

\* stepper_set_reference_position does not ask whether the motor moves.
DoReference ==
  /\ Do({"reference"})
  /\ motor' = [motor EXCEPT ![Head(script).m].position = 0,
                            ![Head(script).m].goal = 0]
  /\ UNCHANGED laser

\* handle_setup assigns the state whatever it was.
DoEnable ==
  /\ Do({"enable"})
  /\ motor' = [motor EXCEPT ![Head(script).m].state =
                 IF Head(script).n = 1 THEN "ENABLED" ELSE "DISABLED"]
  /\ UNCHANGED laser

DoLaser ==
  /\ Do({"steady", "flash", "off"})
  /\ laser' = CASE Head(script).op = "steady" -> "steady"
                [] Head(script).op = "flash" -> "timed"
                [] OTHER -> "off"
  /\ UNCHANGED motor

\* Mutant: the routine ends without it.
EndSilently == system_state # "READY" /\ script = <<>> /\ UNCHANGED vars

\* The last line of every routine: system_state = STATE_READY.
End ==
  /\ system_state # "READY"
  /\ script = <<>>
  /\ system_state' = "READY"
  /\ UNCHANGED <<active, script, motor, laser>>

CommandThread == DoMove \/ DoWait \/ DoReference \/ DoEnable \/ DoLaser \/ End

-----------------------------------------------------------------------------
(* The motors, on their own. *)

MotorStep(m) ==
  /\ motor[m].state = "MOVING"
  /\ motor' =
       IF motor[m].position = motor[m].goal
       THEN [motor EXCEPT ![m].state = "ENABLED"]
       ELSE [motor EXCEPT ![m].position =
               IF @ < motor[m].goal THEN @ + 1 ELSE @ - 1]
  /\ UNCHANGED <<system_state, active, script, laser>>

Init ==
  /\ system_state = "READY"
  /\ active = NoCommand
  /\ script = <<>>
  /\ motor = [m \in Motors |-> [state |-> "ENABLED", position |-> 0, goal |-> 0,
                                errand |-> "none"]]
  /\ laser = "off"

Next ==
  \/ CommandThread
  \/ \E c \in Setups \cup Targets \cup Homings : Begin(c)
  \/ \E m \in Motors : MotorStep(m)

\* A motor that is stepping goes on (StepperAxis); the thread gets to run.
Fairness ==
  /\ WF_vars(CommandThread)
  /\ \A m \in Motors : WF_vars(MotorStep(m))

Spec == Init /\ [][Next]_vars /\ Fairness

-----------------------------------------------------------------------------
(* Properties. *)

Moving(m) == motor[m].state = "MOVING"

TypeOK ==
  /\ system_state \in {"READY", "CONFIGURING", "MOVING", "CALIBRATING"}
  /\ active \in Setups \cup Targets \cup Homings \cup {NoCommand}
  /\ \A m \in Motors :
       /\ motor[m].state \in {"DISABLED", "ENABLED", "MOVING"}
       /\ motor[m].position \in Int /\ motor[m].goal \in Int
       /\ motor[m].errand \in {"none", "by", "to", "magnet"}
  /\ laser \in {"off", "timed", "steady"}

\* READY is a promise: nothing moves any more and the laser is off, so the
\* master may send a SETUP or a new reference.
ReadyMeansStill ==
  system_state = "READY" => laser = "off" /\ \A m \in Motors : ~Moving(m)

\* The timed laser fires only at the target: nothing moves, and every motor
\* that is enabled stands on its goal, after a scan too.
FlashOnTarget ==
  laser = "timed" =>
    \A m \in Motors :
      /\ ~Moving(m)
      /\ motor[m].state = "ENABLED" => motor[m].position = active.step_goals[m]

\* Where a motor stands when its routine is over.  Each stroke of a star with
\* an odd diameter ends one step short: three strokes of pitch add up, two of
\* the three of yaw cancel out.
ShortOf(d) == d - 2 * (d \div 2)
RestingPlace(m) ==
  CASE active.type = "TARGET" ->
         active.step_goals[m]
         - (CASE m = "pitch" -> 3 * ShortOf(active.star)
              [] m = "yaw" -> ShortOf(active.star)
              [] OTHER -> 0)
    [] active.type = "HARD_HOMING" /\ m = "slide" -> motor[m].position
    [] active.type = "SETUP" \/ active = NoCommand -> motor[m].position
    [] OTHER -> 0

\* Every enabled motor is where the command said when READY is announced.
RestsWhereCommanded ==
  system_state = "READY" =>
    \A m \in Motors :
      motor[m].state = "ENABLED" => motor[m].position = RestingPlace(m)

\* Every routine comes to its end.
RoutinesEnd == (system_state # "READY") ~> (system_state = "READY")

\* The routines use each motor within its contract: no new movement, no new
\* reference and no new configuration while one is in progress.
Contract(m) == INSTANCE MotorContract WITH
  Positions <- Int,
  state <- motor[m].state,
  position <- motor[m].position,
  goal <- motor[m].goal

NoCallWhileMoving ==
  [][\A m \in Motors :
       Moving(m) =>
         UNCHANGED motor[m] \/ Contract(m)!Step \/ Contract(m)!Finish]_vars

\* docu/src/tops_mes.md: "During the execution of a star pattern, the laser is
\* activated the whole time".
StarUnderway ==
  /\ active.type = "TARGET" /\ active.star > 0
  /\ \E m \in Motors : Moving(m) /\ motor[m].errand = "by"

LaserThroughoutStar == StarUnderway => laser = "steady"

\* docu/src/tops_mes.md: "Once the specified step-goals are reached, the
\* parameters "star_diameter" defines the subsequent behaviour": no stroke of a
\* pattern while a motor is still on its way to its goal.  The code waits for
\* the motor that is asked for again and not for the others.
PatternAfterGoals ==
  active.type = "TARGET" /\ (\E m \in Motors : Moving(m) /\ motor[m].errand = "by")
    => \A n \in Motors : ~(Moving(n) /\ motor[n].errand = "to")

\* The strokes of a scan or a star are made around the goal of their motor,
\* within the scan limit or half a diameter and what the earlier strokes fell
\* short, although other motors may still be on their way there.
PatternAroundGoal ==
  \A m \in Motors :
    active.type = "TARGET" /\ Moving(m) /\ motor[m].errand = "by" =>
      LET half == active.star \div 2
          off == motor[m].position - active.step_goals[m]
      IN IF active.star = 0
         THEN off \in -active.scan .. active.scan
         ELSE off \in half - active.star - 2 * ShortOf(active.star) .. half
=============================================================================
