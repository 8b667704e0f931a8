--------------------------- MODULE CommandChannel ---------------------------
(***************************************************************************)
(* How a command travels from the ROS master to the routine that carries   *)
(* it out (src/src/main.c).  Two threads share three unprotected globals:  *)
(*                                                                         *)
(*   main thread     spins the rclc executor: the subscription writes the  *)
(*                   message into active_command_msg and then runs         *)
(*                   command_callback; the timer runs timer_callback       *)
(*   command thread  polls command_pending every 100 ms and calls          *)
(*                   handle_setup, handle_target or handle_homing          *)
(*                                                                         *)
(* main has the higher priority (3 against 7) and does not block between   *)
(* taking a message and the end of the callback, so that is one step here; *)
(* it can preempt the command thread between any two of its accesses to    *)
(* the globals, so each of those accesses is a step of its own.  What a    *)
(* routine does to the motors is one step, "work": see MotionRoutines.     *)
(***************************************************************************)
EXTENDS Naturals, Sequences, FiniteSets

CONSTANTS
  Commands,    \* the messages the master may publish, each one once
  TypeOf,      \* their command_type
  NoCommand,   \* the zero-initialised active_command_msg
  SetupReads,  \* reads of active_command_msg by handle_setup (7 in the code)
  CopyReads,   \* reads of it by the struct copy of handle_target
  MasterMode,  \* when the master publishes: see MasterMaySend
  Freezing,    \* settings that may leave an enabled motor that never calls back
  MaxFeedback  \* bound on the feedback messages in transit

RoutineTypes == {"SETUP", "TARGET", "HOMING", "SOFT_HOMING", "HARD_HOMING"}
HomingTypes == {"HOMING", "SOFT_HOMING", "HARD_HOMING"}
SystemStates == {"READY", "CONFIGURING", "MOVING", "CALIBRATING"}

ASSUME TypeOfAssumption == TypeOf \in [Commands -> RoutineTypes \cup {"unknown"}]
ASSUME NoCommandAssumption == NoCommand \notin Commands
ASSUME ReadsAssumption == SetupReads \in Nat \ {0} /\ CopyReads \in Nat \ {0}
ASSUME ModeAssumption == MasterMode \in {"free", "feedback", "handshake"}
ASSUME FreezingAssumption == Freezing \subseteq Commands \cup {NoCommand}
ASSUME FeedbackAssumption == MaxFeedback \in Nat

VARIABLES
  system_state, command_pending, active_command_msg,  \* the shared globals
  pc,         \* where the command thread is, "off" before it is created
  reads,      \* reads of the command left in the current read loop
  routine,    \* the command_type the thread has dispatched
  used,       \* commands whose fields the current routine has consumed
  frozen,     \* an enabled motor never calls back: see MayFreeze
  unsent, command_link, feedback_link, \* master and the two topics
  view,       \* state in the last feedback since the last command, or "none"
  seen_busy,  \* a state other than READY was heard since the last command
  accepted, ignored,  \* commands by the verdict of command_callback
  executed,   \* commands whose fields a completed routine has consumed
  nAccepted, nStarted \* commands accepted, routines that claimed the flag

shared == <<system_state, command_pending, active_command_msg>>
thread == <<pc, reads, routine, used, frozen>>
links == <<unsent, command_link, feedback_link, view, seen_busy>>
history == <<accepted, ignored, executed, nAccepted, nStarted>>
vars == <<shared, thread, links, history>>

-----------------------------------------------------------------------------
(* The ROS master and the two topics, reliable and in order. *)

\* "free": whenever it likes (`ros2 topic pub` without --once repeats every
\* second); "feedback": after a feedback message that says READY, as the
\* documentation asks; "handshake": after a busy state and then READY, which
\* proves that the previous command was taken and is finished.
MasterMaySend ==
  \/ MasterMode = "free"
  \/ MasterMode = "feedback" /\ view = "READY"
  \/ MasterMode = "handshake" /\ view = "READY" /\ seen_busy

MasterSend(c) ==
  /\ pc # "off"
  /\ c \in unsent
  /\ MasterMaySend
  /\ unsent' = unsent \ {c}
  /\ command_link' = Append(command_link, c)
  /\ view' = "none"
  /\ seen_busy' = FALSE
  /\ UNCHANGED <<shared, thread, feedback_link, history>>

MasterHears ==
  /\ feedback_link # <<>>
  /\ view' = Head(feedback_link)
  /\ seen_busy' = (seen_busy \/ Head(feedback_link) # "READY")
  /\ feedback_link' = Tail(feedback_link)
  /\ UNCHANGED <<shared, thread, unsent, command_link, history>>

-----------------------------------------------------------------------------
(* Main thread. *)

\* The last lines of main before its loop: READY, then the command thread.
Boot ==
  /\ pc = "off"
  /\ system_state' = "READY"
  /\ pc' = "poll"
  /\ UNCHANGED <<command_pending, active_command_msg, reads, routine, used,
                 frozen, links, history>>

\* The executor copies the message into active_command_msg whatever the
\* state is; only then does command_callback look at system_state.
CommandCallback ==
  /\ pc # "off"
  /\ command_link # <<>>
  /\ active_command_msg' = Head(command_link)
  /\ command_link' = Tail(command_link)
  /\ IF system_state = "READY"
     THEN /\ command_pending' = TRUE
          /\ accepted' = accepted \cup {Head(command_link)}
          /\ nAccepted' = nAccepted + 1
          /\ UNCHANGED ignored
     ELSE /\ ignored' = ignored \cup {Head(command_link)}
          /\ UNCHANGED <<command_pending, accepted, nAccepted>>
  /\ UNCHANGED <<system_state, thread, unsent, feedback_link, view, seen_busy,
                 executed, nStarted>>

\* timer_callback publishes the state; the positions are in MotionRoutines.
TimerCallback ==
  /\ pc # "off"
  /\ Len(feedback_link) < MaxFeedback
  /\ feedback_link' = Append(feedback_link, system_state)
  /\ UNCHANGED <<shared, thread, unsent, command_link, view, seen_busy, history>>

-----------------------------------------------------------------------------
(* Command thread: command_thread_entry. *)

Goto(from, to) == pc = from /\ pc' = to

\* A step of the thread on system_state and nothing else.
SetState(s) ==
  /\ system_state' = s
  /\ UNCHANGED <<command_pending, active_command_msg, reads, routine, used,
                 frozen, links, history>>

\* command_pending = false: from here on the routine owns its command.
ClearPending ==
  /\ command_pending' = FALSE
  /\ nStarted' = nStarted + 1
  /\ UNCHANGED <<system_state, active_command_msg, routine, used, frozen, links,
                 accepted, ignored, executed, nAccepted>>

\* Mutant: one read too many.
ReadCommandPastEnd(here, next) ==
  /\ pc = here
  /\ used' = used \cup {active_command_msg}
  /\ reads' = reads - 1
  /\ pc' = IF reads = 0 THEN next ELSE here
  /\ UNCHANGED <<shared, routine, frozen, links, history>>

\* frequency_goals and en_motors of a SETUP (or what init_steppers left, for
\* NoCommand) may leave an enabled motor whose movements never call back: one
\* with frequency 0, or one without a callback.
MayFreeze(settings) == IF settings \cap Freezing = {} THEN {FALSE} ELSE BOOLEAN

\* One read of active_command_msg, the last of n going on to `next`.
ReadCommand(here, next) ==
  /\ pc = here
  /\ used' = used \cup {active_command_msg}
  /\ reads' = reads - 1
  /\ pc' = IF reads = 1 THEN next ELSE here
  /\ UNCHANGED <<shared, routine, frozen, links, history>>

\* system_state = STATE_READY at the end of a routine.
Leave(from) ==
  /\ Goto(from, "poll")
  /\ system_state' = "READY"
  /\ routine' = "none"
  /\ used' = {}
  /\ executed' = executed \cup used
  /\ UNCHANGED <<command_pending, active_command_msg, reads, links,
                 accepted, ignored, nAccepted, nStarted>>

Poll ==
  /\ command_pending
  /\ Goto("poll", "dispatch")
  /\ UNCHANGED <<shared, reads, routine, used, frozen, links, history>>

\* switch (active_command_msg.command_type); the default case only prints,
\* so the flag stays set and the next poll finds it again.
Dispatch ==
  LET type == TypeOf[active_command_msg]
  IN /\ pc = "dispatch"
     /\ IF type = "unknown"
        THEN pc' = "poll" /\ UNCHANGED <<reads, routine, used>>
        ELSE /\ routine' = type
             /\ used' = {active_command_msg}
             /\ reads' = IF type = "TARGET" THEN CopyReads ELSE reads
             /\ pc' = CASE type = "SETUP" -> "setup_enter"
                        [] type = "TARGET" -> "target_copy"
                        [] OTHER -> "homing_enter"
     /\ UNCHANGED <<shared, frozen, links, history>>

\* Mutant: CONFIGURING is not set.
SetupEnterSilently == Goto("setup_enter", "setup_clear") /\ SetState("READY")

\* Mutant: READY is set again before the fields are read.
SetupClearReady ==
  /\ Goto("setup_clear", "setup_read")
  /\ reads' = SetupReads
  /\ system_state' = "READY"
  /\ command_pending' = FALSE
  /\ nStarted' = nStarted + 1
  /\ UNCHANGED <<active_command_msg, routine, used, frozen, links, accepted,
                 ignored, executed, nAccepted>>

\* handle_setup: state, flag, then the fields straight from the global.
SetupEnter == Goto("setup_enter", "setup_clear") /\ SetState("CONFIGURING")
SetupClear ==
  /\ Goto("setup_clear", "setup_read")
  /\ reads' = SetupReads
  /\ ClearPending
SetupRead == ReadCommand("setup_read", "setup_leave")
SetupLeave ==
  /\ Leave("setup_leave")
  /\ frozen' \in MayFreeze(used)

\* handle_target: the struct copy, flag, state, the movement.
TargetCopy == ReadCommand("target_copy", "target_clear")
TargetClear ==
  /\ Goto("target_clear", "target_enter")
  /\ ClearPending
  /\ UNCHANGED reads
TargetEnter == Goto("target_enter", "target_work") /\ SetState("MOVING")
TargetWork ==
  /\ Goto("target_work", "target_leave")
  /\ UNCHANGED <<shared, reads, routine, used, frozen, links, history>>

\* Mutant: the state is not set back.
TargetLeaveMoving ==
  /\ Goto("target_leave", "poll")
  /\ routine' = "none"
  /\ used' = {}
  /\ executed' = executed \cup used
  /\ UNCHANGED <<shared, reads, frozen, links, accepted, ignored, nAccepted,
                 nStarted>>

TargetLeave == Leave("target_leave") /\ UNCHANGED frozen

\* Mutant: the state of another routine.
HomingEnterMoving == Goto("homing_enter", "homing_clear") /\ SetState("MOVING")

\* Mutant: the flag stays set.
HomingClearForgotten ==
  /\ Goto("homing_clear", "homing_work")
  /\ nStarted' = nStarted + 1
  /\ UNCHANGED <<shared, reads, routine, used, frozen, links, accepted,
                 ignored, executed, nAccepted>>

\* Mutant: the flag is cleared once more, after READY.
HomingLeaveFlagLast ==
  /\ Goto("homing_leave", "homing_clear")
  /\ system_state' = "READY"
  /\ routine' = "none"
  /\ used' = {}
  /\ executed' = executed \cup used
  /\ UNCHANGED <<command_pending, active_command_msg, reads, frozen, links,
                 accepted, ignored, nAccepted, nStarted>>

\* handle_homing: state, flag, the movement; no field of the command is used.
HomingEnter == Goto("homing_enter", "homing_clear") /\ SetState("CALIBRATING")
HomingClear ==
  /\ Goto("homing_clear", "homing_work")
  /\ ClearPending
  /\ UNCHANGED reads
HomingWork ==
  /\ Goto("homing_work", "homing_leave")
  /\ UNCHANGED <<shared, reads, routine, used, frozen, links, history>>
HomingLeave == Leave("homing_leave") /\ UNCHANGED frozen

CommandThread ==
  \/ Poll \/ Dispatch
  \/ SetupEnter \/ SetupClear \/ SetupRead \/ SetupLeave
  \/ TargetCopy \/ TargetClear \/ TargetEnter \/ TargetWork \/ TargetLeave
  \/ HomingEnter \/ HomingClear \/ HomingWork \/ HomingLeave

\* wait_for_movement_to_finish waits for a motor that never calls back.
Stuck ==
  /\ frozen
  /\ pc = "target_work" \/ (pc = "homing_work" /\ routine # "SOFT_HOMING")

-----------------------------------------------------------------------------
Init ==
  /\ system_state = "CONFIGURING"
  /\ command_pending = FALSE
  /\ active_command_msg = NoCommand
  /\ pc = "off" /\ reads = 0 /\ routine = "none" /\ used = {}
  /\ frozen \in MayFreeze({NoCommand})
  /\ unsent = Commands /\ command_link = <<>> /\ feedback_link = <<>>
  /\ view = "none" /\ seen_busy = TRUE
  /\ accepted = {} /\ ignored = {} /\ executed = {}
  /\ nAccepted = 0 /\ nStarted = 0

MainThread == Boot \/ CommandCallback \/ TimerCallback
Master == MasterHears \/ \E c \in Commands : MasterSend(c)

Next == MainThread \/ CommandThread \/ Master

Spec == Init /\ [][Next]_vars

\* The kernel runs a thread that is ready: main sleeps 100 ms in every turn
\* of its loop, so the command thread runs too.  A movement ends (StepperAxis)
\* unless the motor never calls back: a stuck thread owes nothing, and neither
\* does the master.
Fairness ==
  /\ WF_vars(Boot)
  /\ WF_vars(CommandCallback)
  /\ WF_vars(~Stuck /\ CommandThread)

FairSpec == Spec /\ Fairness

-----------------------------------------------------------------------------
(* Properties. *)

ThreadPoints ==
  {"off", "poll", "dispatch",
   "setup_enter", "setup_clear", "setup_read", "setup_leave",
   "target_copy", "target_clear", "target_enter", "target_work",
   "target_leave",
   "homing_enter", "homing_clear", "homing_work", "homing_leave"}

\* The ranges of the variables; a command in the buffer, in a routine or in a
\* history is one the master published.
TypeOK ==
  /\ system_state \in SystemStates
  /\ command_pending \in BOOLEAN
  /\ active_command_msg \in Commands \cup {NoCommand}
  /\ pc \in ThreadPoints
  /\ reads \in Nat
  /\ routine \in RoutineTypes \cup {"none"}
  /\ used \in SUBSET (Commands \cup {NoCommand})
  /\ frozen \in BOOLEAN
  /\ unsent \in SUBSET Commands
  /\ command_link \in Seq(Commands)
  /\ feedback_link \in Seq(SystemStates)
  /\ view \in SystemStates \cup {"none"}
  /\ seen_busy \in BOOLEAN
  /\ accepted \in SUBSET Commands
  /\ ignored \in SUBSET Commands
  /\ executed \in SUBSET (Commands \cup {NoCommand})
  /\ nAccepted \in Nat
  /\ nStarted \in Nat

\* From the flag to the end of a routine, the state tells the feedback (and
\* command_callback) which routine is running; outside one it is READY
\* (docu/src/code.md, the list of states).
StateShowsRoutine ==
  /\ pc \in {"setup_read", "setup_leave"} => system_state = "CONFIGURING"
  /\ pc \in {"target_work", "target_leave"} => system_state = "MOVING"
  /\ pc \in {"homing_work", "homing_leave"} => system_state = "CALIBRATING"
  /\ pc \in {"poll", "dispatch", "target_copy"} => system_state = "READY"

\* The state closes the door before the flag is cleared in SETUP and HOMING:
\* nothing accepted meanwhile can be left in the flag for after the routine.
DoorClosed ==
  pc \in {"setup_read", "setup_leave", "homing_work", "homing_leave"}
    => ~command_pending

\* One verdict READY starts at most one routine: a flag that stays set, or is
\* cleared too late, would run a motor movement twice.
AtMostOncePerAcceptance == nStarted <= nAccepted

\* A routine acts on the fields of one message only, and of one of its own
\* command_type.
NoTornCommand ==
  Cardinality(used) <= 1 /\ \A c \in used \ {NoCommand} : TypeOf[c] = routine

\* A message that command_callback ignored is never acted upon (docu/src/code.md:
\* "Otherwise, they are ignored."); the code leaves it in the buffer, where a
\* SETUP at work reads it and the next dispatch finds it.
IgnoredHasNoEffect == (used \cup executed) \cap ignored = {}

\* A message that command_callback accepted stays in the buffer with the flag
\* set until a routine takes it.
NoAcceptedLost ==
  \A c \in accepted \ (executed \cup used) :
    command_pending /\ active_command_msg = c

\* A message of a known type that found the flag set for it is done with: the
\* thread is back at the poll with the flag clear and the state READY, unless
\* another message replaces this one first or the thread waits for a motor that
\* never calls back.  A message of an unknown type keeps the flag set for ever.
FlagServed ==
  \A c \in Commands :
    (command_pending /\ active_command_msg = c /\ TypeOf[c] # "unknown")
      ~> \/ pc = "poll" /\ ~command_pending /\ system_state = "READY"
         \/ active_command_msg # c
         \/ Stuck

\* CommandChannel implements CommandService: a command is accepted when the
\* flag is set, starts when it is cleared, and ends with the routine.
ServicePhase ==
  CASE pc = "off" -> "off"
    [] pc # "off" /\ command_pending -> "accepted"
    [] pc = "poll" /\ ~command_pending -> "ready"
    [] pc \notin {"off", "poll"} /\ ~command_pending -> "running"
ServiceCurrent == IF command_pending THEN {active_command_msg} ELSE used

Service == INSTANCE CommandService WITH
  phase <- ServicePhase, current <- ServiceCurrent, executed <- executed

ImplementsService == Service!Spec
=============================================================================
