# Verification of the pan-and-tilt stepper firmware

TLA+ specifications of the Zephyr application in `src/` (an ESP32-S3 that
moves a laser on three stepper motors by order of a ROS master), their
model-checking configurations for TLC, and proofs checked by TLAPS. Source
paths below are relative to the root of the repository; docs are under
`docu/src/`.

## The system

| Part | Code | State it keeps | Operations |
|---|---|---|---|
| Command channel | `src/main.c` 178-211, 677-715, 788-827 | `system_state`, `command_pending`, `active_command_msg` | `command_callback`, `timer_callback`, `command_thread_entry` |
| Motion routines | `src/main.c` 353-674 | what is left of the routine, laser pins | `handle_setup`, `handle_target`, `handle_homing`, patterns |
| Motor context | `src/main.c` 101-112, 213-224, 402-430 | `stepper_ctx_t.state` | `move_savely_by`, `move_savely_to`, `wait_for_movement_to_finish`, `stepper_callback` |
| Step/direction driver | `code_adaptions/step_dir_stepper_common.c` | step pin, remaining steps, position, direction, run mode, event queue | the stepper API, the timing signal, the work item |
| Counter | `code_adaptions/counter_esp32_tmr.c` | enable bits and interrupt status of a timer | start, stop, `set_top_value`, the interrupt handler |
| Hall sensors | `src/main.c` 146-174, 450-486 | `magn_pos_hl`, `magn_pos_lh` | `hall_isr`, home computation |
| Driver chips | `code_adaptions/tmc22xx.c`, `src/main.c` 361-392 | microstep pins, enable pins, interval | resolution, enable, disable |
| Transports | `modules/libmicroros/microros_transports/{serial,serial-usb,udp}` | ring buffers, interrupts, socket | open, close, read, write, UART interrupt |
| Start-up | `src/main.c` 226-352, 718-827 | devices set up, session, entities | the init functions, the session loop, RCCHECK |

How they interact. The **main thread** (priority 3) spins the executor: it
writes a message into `active_command_msg`, calls `command_callback`, and once
a second `timer_callback`, which publishes the state. The **command thread**
(priority 7) polls `command_pending` every 100 ms and runs one routine at a
time; it starts movements and waits for them by polling `ctx->state`. The
**interrupt handler** of a motor's counter calls the driver, which toggles the
step pin and, at the end of a movement, queues an event for the **system work
queue** (cooperative, so it runs before both threads), whose
`stepper_callback` resets `ctx->state`. Nothing of what the threads share is
locked; only the start of a movement holds a spin lock.

What is hard: the main thread can come between any two accesses of the command
thread; a movement ends in two hops (interrupt, work queue) while a thread
polls without a timeout; an alarm can fire inside the handler of the last one;
positions are counted on one edge of a pulse and made on the other; hard homing
computes a position from what an interrupt handler left behind; the receive
interrupt and the main thread share a ring buffer; every attempt to reach the
agent opens the transport anew.

## Modules

| Module | Models | Uses |
|---|---|---|
| `CommandService` | abstract: one command at a time, accepted, carried out once | |
| `CommandChannel` | the command channel, access by access | implements `CommandService` |
| `CommandChannelProofs` | theorems about it, for every master and for a patient one | TLAPS |
| `Esp32Counter` | the counter's registers and the stages of its handler | |
| `StepDirDriver` | the driver of one motor, edge by edge | extends `Esp32Counter` |
| `StepDirDriverProofs` | theorems about it | TLAPS |
| `MotorContract` | abstract: a movement is begun, stepped, finished | |
| `StepperAxis` | one motor as `main.c` uses it, on the driver | extends `StepDirDriver`, implements `MotorContract` |
| `StepperAxisProofs` | theorems about it | extends `StepDirDriverProofs` |
| `MotionRoutines` | the routines over three motors and the laser | keeps to `MotorContract` |
| `MotionRoutinesProofs` | theorems about it | TLAPS |
| `HallHoming` | hard homing of one axis: rotor, magnet, `hall_isr`, home computation | |
| `HallHomingProofs` | theorems about it | TLAPS |
| `MotorConfiguration` | SETUP, start-up values and feedback of the three motors on the shared microstep pins | |
| `MotorConfigurationProofs` | theorems about it | TLAPS |
| `Transport` | the ring buffers of the serial and the serial-usb transport, their interrupt handler, open, read, write | |
| `TransportProofs` | theorems about it | TLAPS |
| `Startup` | `main` from the first init function to READY, over each of the three transports | |
| `StartupProofs` | theorems about it | TLAPS |
| `MC...` | constants for TLC | |

The layers are checked one on the next instead of in one product:
`StepperAxis` shows that a motor keeps `MotorContract`, `MotionRoutines` lets
its motors do what the contract allows and shows that the routines never call
it out of turn (`NoCallWhileMoving`), which the theorems `AxisKeepsContract` and
`WithinContract` prove for every distance and every command, and `CommandChannel`
takes the whole of a routine's movements for one step, "work".

**CommandChannel.** The variables are the three globals, `pc` (the line of the
command thread), `reads` (accesses to the message left in a read loop) and
histories. `CommandCallback` is one step because the main thread does not
block between the executor's copy and the end of the callback; each access of
the command thread to a global is a step. `SetupEnter`, `SetupClear`,
`SetupRead`, `SetupLeave` are lines 358, 359, 361-392 and 396; likewise
`Target...` and `Homing...`. The master and the two (reliable, ordered) topics
are external. `MasterMode` says when the master publishes: `free`, at any
time; `feedback`, after a feedback message that says READY, which is what the
documentation asks for; `handshake`, after a busy state and then READY. A
SETUP lasts milliseconds and may never show in a feedback that comes once a
second, so a master that relies on the handshake needs its own way out: it is
a protocol the safety properties hold under, not one the code offers.
`Freezing` says which settings may leave an enabled motor that never calls back
(a SETUP with frequency 0; `NoCommand` stands for what start-up left): `frozen`
is such a motor, and a TARGET or HOMING may then wait at line 403 for ever
(`Stuck`).

**Esp32Counter, StepDirDriver.** `isr` is where the interrupt handler is: the
status is cleared (`IsrEnter`), the callback runs (`TopInterrupt`), the alarm is
re-armed (`IsrRearm`), the handler returns (`IsrReturn`); the alarm can fire
between the last two. `move_by` and `run` are four steps under the lock (up to
`start_stepping`, update, start, first edge), `stop` is two without it.
`phys` is the true position of the rotor, `goal` and `outstanding` are
histories. `interval` is `microstep_interval_ns` by what the timing source
makes of it; `unusable` is one that is stored and then refused, the error path
of lines 100-104. `needs_reschedule` is false and `dual_edge` unset, as
configured here. Callers obey `stepper.h`: a movement or a reference is asked
for when the motor stands.

**StepperAxis.** Adds `ctx_state` and the four stages of a `move_savely` call
(entered, waited, marked MOVING, driver called). The caller is any routine that
sets the reference or configures the motor when it is not MOVING; that the
routines of `main.c` do is what `MotionRoutines` shows.

**MotionRoutines.** A routine is straight-line code once its command is known,
so it is a sequence of operations (`Routine(c)`), executed one per step while
the motors step on their own. The operators have the names of the functions
they stand for.

**HallHoming.** `rotor` is the true angle, `position` is `actual_position`; they
differ by the reference and, between the two edges of a pulse, by a step.
`RisingEdge` turns the rotor and may leave an `edge` of the hall pin to be
served; `hall_isr` reads level and position when it runs, up to `Latency` steps
later, and always before a thread. `BeginHardHoming`, `MoveHome` and `SetHome`
are lines 450-486 in the order of the code, for one axis: the code resets
`magn_pos_hl` twice and `magn_pos_lh` never, and so does the model. The second
sum of `HomeGoal` is taken modulo 2^w because `current_res` makes it unsigned.
Between homings the other commands move the axis (`OtherMovement`), disable it
(`Configure`), and somebody turns it by hand.

**MotorConfiguration.** `ms` are the two microstep pins all chips share, `res`
what each driver believes, `rate` what its interval amounts to (0: nothing
moves), `away` the true distance from the reference in 64ths of a full step.
`SetUpMotor` is one turn of the loop of `handle_setup`; the master may change the
message between two turns, so each takes its own fields. A frequency of 0 is
undefined behaviour when converted and gives the old interval or a useless one.
`init_steppers` gives up at the first driver that is not ready, hence `callback`.
A disabled motor is turned by hand (`TurnByHand`). `Error` is what that, and a
resolution changed away from the reference, add up to between the true angle
and the steps scaled by the resolution of the feedback; `MaxError` bounds it.

**Transport.** `memory` holds the two arrays of the code and `in`, `out` the
indices of the rings, so the usb transport's use of one array for both shows.
The interrupt handler is entered, turns and returns (`CallbackEnter`,
`CallbackTurn`, `CallbackReturn`) and the client stands still meanwhile; a full
FIFO holds the agent back. `device` is what the usb device holds for the host: a
device with less room than `uart_fifo_fill` is given takes what fits, and the
rest is lost (`Fill`). `zephyr_transport_open` is two steps, the rings
(`OpenRings`) and the interrupt (`OpenInterrupt`), because on a second attempt
over serial the interrupt of the first is still enabled between them;
`ring_buf_init` itself counts as one step. `ReadLock`, `ReadGet` and
`ReadUnlock` are lines 100-102 (serial) with the interrupt let in between. Bytes
are numbered by their sender, which is all that `SentIsReceived` compares.

**Startup.** `pc` walks through the devices in their order, then through open,
session, sleep, create, start_thread (READY is announced, the command thread
does not exist yet), spin; `halted` is `while (1)` of RCCHECK, `crashed` what
`freeaddrinfo` may do with a pointer that was never set. The agent is started
and stopped at any time, an attempt may fail although the agent runs, and the
network comes up late, without an address at first or without a route to it:
`troubles` says which of these a behaviour has. `refused` is a history: the
attempts that took a socket and failed.

## Runs

| Run | Question | Bounds, and why they are enough |
|---|---|---|
| `commands_free` | does the channel keep its books against any master | one message per kind of routine and one of unknown type, each read loop two reads (the shortest that can be torn), one feedback in transit; a SETUP, or start-up, may leave a motor that never calls back: every pair and every triple of messages can collide at every access |
| `commands_handshake` | is a patient master served as `CommandService` says | three messages, two feedbacks in transit, so a stale one can be behind a fresh one; no SETUP that freezes a motor |
| `commands_lost` | is the documented protocol enough | as above; expected violation |
| `driver` | is the driver exact in every legal order of calls | moves of -2, 0 and 1 steps: none, the shortest, one with an inner step, both directions; positions within 2; a queue of one event, the tightest |
| `axis` | does a motor keep its contract | the same moves, relative and absolute |
| `routines` | do the routines use motors and laser properly | two goals, star diameters 0, 2 and 3 (none, even, odd), scans on and off, every set of enabled motors |
| `laser_star` | does the laser shine throughout a star | as above; expected violation |
| `hall_homing` | is the home the magnet, from everywhere and after everything | a circle of 9 with a field of 4 and a latency of 1: even and odd distances from the start to either edge, starts inside, at the rim of and outside the field; a goal on each side; sensors connected or not; unsigned sums modulo 64, the least power of two with room for all sums |
| `configuration` | does the feedback tell what the motors are set to, are movements as long as it says | a resolution below and above the default and an invalid one, one frequency, goals at and off the reference, all drivers ready or the second one missing; turns by hand of one 32nd of a step, so the error can have either sign by the side of a changed resolution |
| `transport` | are bytes whole and in order, and does the main thread come round | both transports; a ring of 3, a handler buffer and FIFOs of 2, writes of 3, so reads and writes wrap and both kinds of buffer fill up; windows of 3 (the ring) and 5 (ring and FIFO); two attempts to open |
| `startup` | is an agent served in the end, and what becomes of the sockets | three transports, all sets of troubles, all sets of working devices; two sockets, one more than needed |
| `agent_stops` | is an agent served whatever happens | serial, which the firmware is built with, and an agent that stops; expected violation |

### Counterexamples beside the runs

Some properties that the code contradicts are stated in the modules next to the
ones that hold instead. Each configuration below lets TLC refute one of them; the
findings in `PROJECT.json` name the run whose property has to make the exception.

| Configuration, of module `MC...` | Refuted | By |
|---|---|---|
| `CommandChannel_ignored_setup.cfg` | `IgnoredHasNoEffect` | a message that arrives during a SETUP |
| `CommandChannel_ignored_next.cfg` | `IgnoredHasNoEffect` | one that arrives during a movement, without any SETUP |
| `MotionRoutines_PatternAfterGoals.cfg` | `PatternAfterGoals` | a motor on its way while another draws |
| `HallHoming_unseen.cfg` | `HomeFound` | no sensor |
| `HallHoming_disabled.cfg` | `HomeFoundByAll` | a disabled motor |
| `MotorConfiguration_frequency_zero.cfg` | `FeedbackIsTrue` | a frequency of 0 |
| `MotorConfiguration_degrees.cfg` | `StepsAreDegrees` | a new resolution away from the reference |
| `MotorConfiguration_moving_stuck.cfg` | `MovingIsReset` | a movement at frequency 0 |
| `Transport_overrun.cfg` | `MainComesRound` | one byte more under way than the ring holds |
| `Transport_usb_shared.cfg` | `BytesAreWhole` | a byte received while a message waits to be sent |
| `Startup_defaults.cfg` | `DefaultsApplied` | a driver that is not ready before one that is |
| `Startup_usb_again.cfg` | `AgentIsServed` | an attempt that fails over usb |
| `Startup_udp_waits.cfg` | `AgentIsServed` | a network that is late |

What all of them show:

- `AtMostOncePerAcceptance`, `DoorClosed`, `StateShowsRoutine`, `FlagServed`:
  no acceptance starts two routines, nothing is accepted once SETUP or HOMING
  has cleared the flag, the state in the feedback is true, and a message of a
  known type is done with. The last has three exceptions, all of them the code's:
  another message replaces it, a motor never calls back and the thread waits for
  it, and an unknown type, which keeps the flag set for ever.
- Under the handshake, and with motors that call back, `NoTornCommand` (one
  message, of the routine's type), `NoAcceptedLost` and `ImplementsService`.
  Under the documented protocol (`MasterMode = "feedback"`) both invariants fail as
  well; the finding is kept for `NoAcceptedLost`, because they have one cause:
  READY is still reported up to 100 ms after a command was accepted, and the
  executor overwrites the message before anything looks at the state.
- `IgnoredHasNoEffect` fails in two ways. A SETUP reads its fields in
  the buffer the executor goes on writing to; and a TARGET clears the flag before
  it leaves READY, so the flag of a message accepted in between is still set
  after the movement, for whatever ignored message is in the buffer then.
- `PositionIsTrue`, `PinLowAtRest`, `GoalKept`, `CompletionsExact`,
  `NoDeadTimer`, `MovementsEnd`: no step is lost or invented by completion,
  stop or error; one completion per movement; the timer never dies. With the
  vendor's order of the handler `NoDeadTimer` fails, as `zephyr.md` tells.
- `WaitedMeansStill`, `MovingMeansPending`, `OneEventQueued`, `WaitsEnd`,
  `ImplementsMotor`: a wait ends, and when it has the motor
  stands, its position exact and no event left over.
- `ReadyMeansStill`, `FlashOnTarget`, `RestsWhereCommanded`, `PatternAroundGoal`,
  `RoutinesEnd`, `NoCallWhileMoving`: READY is announced with motors at rest and the laser
  off; the timed laser fires on the goal only; each enabled motor rests where
  `RestingPlace` says, which for a star of odd diameter is three steps (pitch)
  and one step (yaw) short of the goal.
- `PatternAroundGoal`: `simple_target` returns with the motors still moving, and
  yet a pattern keeps to its place, because each of its strokes waits for the
  motor it moves. That all motors have arrived when it begins
  (`PatternAfterGoals`) is not true.
- `LaserThroughoutStar` fails (finding): the laser is switched off when the last
  strokes are begun.
- `HomedAtMiddle`, `HomingStaysClose`: the magnet's middle becomes the reference,
  up to the latency and the pulse, from every angle and whatever earlier
  movements have left in `magn_pos_lh`, and the axis stays within a revolution
  and half a field. Without sensors any place becomes the home (`HomeFound`
  fails), a disabled motor is referenced without having moved (`HomeFoundByAll`
  fails), and nothing reports either.
- `FeedbackIsTrue`, `MicrostepsAtRest`, `MovesAreDegrees`: of the motors
  `init_steppers` has reached the feedback tells resolution, frequency and enable
  pin, the shared pins change at rest only, and every movement is as long as its
  steps say. A frequency of 0 breaks the first and leaves a motor MOVING that never
  calls back (`MovingIsReset` fails). A position is an angle (`StepsAreDegrees`) only
  until the resolution is changed away from the reference: `MovesAreDegrees` says
  that no movement adds to that error.
- `SentIsReceived`, `WritesReturnIfPaced`, `BytesArrive`, `ComesRoundIfPaced`:
  over serial no byte is lost or written over, whatever the agent sends ahead; if
  it sends no more ahead than the ring holds, its bytes are read in the end,
  writes return and the main thread comes round. With one byte more
  `MainComesRound` fails: the handler loops for ever with the only thread that
  could empty the ring interrupted. Over usb (`Transports = {"usb"}`) it is the
  same, in a read or in a write. The rings of usb have one array, and
  `BytesAreWhole` fails by a byte received while a message waits to be sent.
- `SocketsAccounted`, `ServedIfEndured`. `Endured` says which troubles each
  transport gets over. Without it `AgentIsServed` fails on each of them: an
  agent that stops is never asked for a session again or halts main in RCCHECK
  (`agent_stops`, finding), `usb_enable` refuses the second attempt, and an udp
  attempt without an address or a route keeps its socket, until there are none.
  `DefaultsApplied` fails: `init_steppers` leaves at the first driver that is
  not ready.

Deadlock is checked in every run.

## Fairness

Weak fairness of the command thread and of the executor's callback: main
sleeps 100 ms in every turn of its loop, so both threads get the core; a thread
that waits for a motor that never calls back owes nothing (`~Stuck`). Weak
fairness of the alarm while it is armed and the counter runs (hardware), of
the interrupt handler, of the work queue (cooperative) and of a driver call
that holds the lock. A caller owes nothing: no fairness on the master, on
asking for movements, or on publishing feedback. `StepperAxis` makes the
thread go on with a `move_savely` it has entered.

`MotorConfiguration` (for `MovingIsReset` only): the command thread, and a motor that turns;
it fails all the same. `Transport`: the interrupt handler, the host that takes
what the device holds, opening, reads and writes that were begun; strong fairness
of `ReadBegin`, because the executor reads in every turn of its loop however much
it writes. No fairness of the agent. `Startup`: the main thread; the network comes
up; strong fairness of `Connect`, an agent that runs answers one of the attempts
in the end. The agent is never obliged to run: `AgentIsServed` supposes it.

## Proofs

`CommandChannelProofs` proves for every set of messages, every number of reads
and every mode of the master:

- `TypeCorrect`: `Spec => []TypeOK`
- `StateIsTruthful`: `Spec => []StateShowsRoutine`
- `DoorStaysClosed`: `Spec => []DoorClosed`
- `AtMostOnce`: `Spec => []AtMostOncePerAcceptance`

from the assumptions named in `CommandChannel` (types of messages are routine
types or unknown; at least one read). The inductive invariant `IInv` adds what
the order of the first lines of a routine guarantees: while the flag is about
to be cleared the state is already busy in SETUP and HOMING (`DoorOrder`), a
routine is entered with the flag set and a published message in the buffer
(`FlagHeld`), and a set flag is an acceptance not yet used (`Ledger`).

Its second part supposes `MasterMode = "handshake"` and proves, for any amount of
feedback in transit:

- `NothingTorn`: `Spec => []NoTornCommand`
- `NothingLost`: `Spec => []NoAcceptedLost`
- `ChannelKeepsService`: `Spec => Service!Init /\ [][Service!Next]_(Service!vars)`,
  the safety part of `ImplementsService`.

The invariant `Heard` is about the feedback in transit. After a message was sent
it is READY throughout until the routine begins (`AllReady`), then READY up to
some point and busy from there on (`BusyToTheEnd`), and once the routine is over
it has a single busy period (`OnePeriod`). What follows the first busy message
the master has heard is therefore busy up to some point and READY from there on
(`ReadyToTheEnd`), and a READY heard then was sent by a controller that is idle.
So a message is only ever on its way to an idle controller, which accepts it, and
nothing replaces it before its routine is over (`Whole`). That it was not carried
out before, which `Accept` asks for, is `Fresh`.

`StepDirDriverProofs`, for all distances (`MoveSizes` any set of integers) and
all bounds, from the assumptions the module names:

- `TypeCorrect`, `TimerNeverDies`, `PositionAlwaysTrue`, `PinRestsLow`,
  `GoalIsKept`, `OneCompletionEach` for the six invariants of the run `driver`;
  that at most one event is queued is part of the first, that a movement whose
  event is queued has arrived part of `GoalIsKept`.

The invariant relates the stage of the interrupt handler to interrupt status and
enable bits (`Registers`), the holder of the lock to the stage of a call (`Lock`),
remaining steps to run mode and direction (`StepsLeft`), a submitted work item
to a queued event (`Queue`), and says that an interrupt whose callback is still
to run belongs to a movement that is still going on (`SignalsCount`). One lemma
per action keeps it.

`StepperAxisProofs` on top of it:

- `AxisTypeCorrect`, `WaitsAreTruthful`, `MovingIsPending`, `OneEventAtMost` for
  the invariants of the run `axis`;
- `AxisKeepsContract`: `AxisSpec => Motor!Init /\ [][Motor!Next]_(Motor!vars)`,
  the safety part of `ImplementsMotor`, supposing `InRange`: all `MoveSizes` are
  positions of the contract, which bounds its own.

`AxisInv` is the driver's invariant and what `main.c` adds: a motor not MOVING is
quite at rest (`Waited`), a MOVING one has exactly one movement or event to come
(`Pending`), and where the event is queued the goal is reached (`Arrived`).

`MotionRoutinesProofs`, for all goals, homes, scan limits and star diameters, from
the assumptions that goals are integers and the others natural numbers:

- `TypeCorrect`, `ReadyIsStill`, `TimedLaserOnTarget`, `RoutineArrives`,
  `PatternStays` for the invariants of the run `routines`;
- `CallsWait` for its action property `NoCallWhileMoving`;
- `WithinContract`: seen by any one motor,
  `Spec => Contract(m)!Init /\ [][Contract(m)!Next]_(Contract(m)!vars)`.

What holds in the middle of a routine depends on what is left of its script, of
any length. The proof runs the routine on paper, for one motor at a time: a
point says whether the motor may still move, where it is sent, if that is known,
and what the laser does; `After` is what an operation does to it and `Allowed`
what an operation may rely on. A script `Leads` from one point to another if
there is a sequence of points between. The invariant says that what is left of
the script leads from a point that `Fits` the motor to one where the routine
`Ends` as it should (`OnItsWay`), and that a stroke is made within its room
(`Stroke`). `RoutineLeads` has one lemma for every routine, from a motor at rest
anywhere; that executing an operation takes the motor to the next point is
`OperationKeeps`. The sequences of points are given as functions, so no
induction over scripts is needed. As `AxisKeepsContract` shows a motor to keep
`MotorContract`, and `WithinContract` the routines to ask nothing else of it, the
two close the argument of the layers, safety only.

`HallHomingProofs`: `TypeCorrect`, `HomeIsTheMiddle` (`HomedAtMiddle`) and
`StaysClose` (`HomingStaysClose`), for every circle, field and latency with
`Latency + 1 < Field` and `Field + Latency < Revolution`, integers with room for
four revolutions, any place to start from, anything in `magn_pos_lh` and any
`int32_t` goal. The argument unrolls the circle: a revolution from `s` passes
the entry of the field at `Revolution` and one exit, at `Exit(s)`; each is on file
up to the latency or its interrupt is still due (`Filed`, `Due`, together
`Sweep`). At the end both are on file, and which one is the greater tells where
`s` was; the way home then leads to the middle (`Homeward`) without passing the
entry again.

`TransportProofs`: `NothingGarbled` (`SentIsReceived`) for all sizes of ring, buffer,
FIFO and reads, every window of the agent and any number of attempts to open, and
`TypeCorrect` for both transports. Over serial the bytes the ring holds are the
next ones of the agent (`InOK`), and nothing enables the transmit interrupt. Of
usb nothing more can be proved: `BytesAreWhole` is refuted.

`MotorConfigurationProofs`: `TypeCorrect`; `PinsChangeAtRest` (`MicrostepsAtRest`);
`FeedbackTrue` (`FeedbackIsTrue`), supposing that 0 is no frequency, because every
driver that `init_steppers` has reached holds the resolution that the shared pins
select, and the pins are only touched after all motors were waited for; and
`MovesScale` (`MovesAreDegrees`), without a condition: a motor that moves has pins
of the resolution the feedback reports.

`StartupProofs`: `TypeCorrect` and `NoSocketLost` (`SocketsAccounted`), for every set
of transports, troubles and sockets, because an udp socket is the open
transport's from the open that succeeded to the close after it.

Every invariant and action property that a passing run checks is thereby proved,
with the hypotheses named. Model-checked only is liveness, which TLAPS does not
prove: `FlagServed`, `MovementsEnd`, `WaitsEnd`, `RoutinesEnd`,
`WritesReturnIfPaced`, `BytesArrive`, `ComesRoundIfPaced`, `ServedIfEndured`, and the fairness
of `ImplementsService` and `ImplementsMotor`. Modules whose type invariant no run
checks state it for the reader; it is proved where there are theorems.

## Not modelled

- udp read and write: one system call each, with no state of their own.
- The serial write: a loop of blocking outputs, without state.
- What micro-ROS does between the transport and the executor. It is taken not to
  close a transport whose opening was refused.
- `init_laser` and the counter's alarm channel (`set_alarm`, `cancel_alarm`, the
  guard period): nothing calls them; the routines configure the laser pins
  themselves. The ESP32 counter is therefore listed as partly modelled.
- The status LED only shows the state.
- Integer widths, but for the unsigned sum of the home computation: positions are
  unbounded. `-2*d` of a scan wraps from a limit of 2^30 on, which at any
  speed takes hours to travel.
- Crashes of this device: nothing is persisted, a reset begins again at the
  initial state. That the agent goes and comes is in `Startup`.
- `PositionIsTrue` is checked for the driver; the axis uses it through
  `WaitedMeansStill` and `ImplementsMotor`.

## Plan

1. Done: command channel; counter, driver, axis; routines; hall homing; motor
   configuration; transports; start-up.
2. Done: proofs of all invariants and action properties that the runs check, for
   all values of the constants; of the steps of the command channel as steps of
   `CommandService` under the handshake, of the axis as steps of `MotorContract`,
   and of the routines as steps within it.
3. Perhaps: `MotorConfiguration` joined to `MotionRoutines` in one module, so that
   the angle a pattern is drawn at is proved and not only its steps; the
   counter's alarm channel, should the firmware come to use it.
